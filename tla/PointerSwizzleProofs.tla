------------------------ MODULE PointerSwizzleProofs ------------------------
(***************************************************************************)
(* Pointers into aligned heaps are translated correctly with no look-up    *)
(* and no check, for every size of the address space, the pages and the    *)
(* guard that HeapFillsBlock admits.  The argument: the reservation of a   *)
(* live memory begins at a multiple of 2^32 and holds all of the 2^32      *)
(* addresses from there on, so that nobody else has an address among them. *)
(***************************************************************************)
EXTENDS PointerSwizzle, HeapOwnershipProofs

Block == UINT32_MAX + 1

-----------------------------------------------------------------------------
(***************************************************************************)
(* Blocks                                                                  *)
(***************************************************************************)
\* Base and offset of an address in a block.
LEMMA BlockOffset ==
  ASSUME NEW B \in Nat \ {0}, NEW d \in Nat, d % B = 0, NEW p \in 0 .. B - 1
  PROVE  (d + p) % B = p
PROOF
<1>1. PICK k \in Nat : d = k * B
  BY MultipleIs
<1> DEFINE n == d + p
           q == n \div B
           r == n % B
<1>2. n \in Nat /\ q \in Nat /\ r \in 0 .. B - 1 /\ n = q * B + r
  OBVIOUS
<1> HIDE DEF q, r
<1>3. (k - q) * B = k * B - q * B
  BY <1>2
<1>4. (k - q) * B = r - p
  BY <1>1, <1>2, <1>3
<1>5. CASE k - q >= 1
  <2>1. (k - q) * B >= B
    BY <1>5, <1>2
  <2> QED BY <2>1, <1>2, <1>4
<1>6. CASE k - q <= -1
  <2>1. (k - q) * B <= -B
    BY <1>6, <1>2
  <2> QED BY <2>1, <1>2, <1>4
<1>7. CASE k - q = 0
  BY <1>4, <1>7, <1>2 DEF r
<1> QED
  BY <1>2, <1>5, <1>6, <1>7

\* heap_base_mask finds the base again.
LEMMA BaseOfOffset ==
  ASSUME NEW d \in Nat, d % Block = 0, NEW p \in Pointers32
  PROVE  (d + p) % Block = p /\ HeapBaseOf(d + p) = d
PROOF
<1>1. Block \in Nat \ {0} /\ p \in 0 .. Block - 1 /\ p \in Nat
  BY HeapReservationAssumption DEF Block, Pointers32
<1>2. (d + p) % Block = p
  BY <1>1, BlockOffset
<1> QED
  BY <1>1, <1>2 DEF HeapBaseOf, Block

\* The system never hands out an address that the process does not have.
LEMMA MappedAddresses == Spec => [](mapped \subseteq Addresses)
PROOF
<1>1. Init => mapped \subseteq Addresses
  BY DEF Init
<1>2. mapped \subseteq Addresses /\ [Next]_vars => (mapped \subseteq Addresses)'
  <2> SUFFICES ASSUME mapped \subseteq Addresses, [Next]_vars
               PROVE  mapped' \subseteq Addresses
    BY DEF Addresses
  <2>1. CASE UNCHANGED vars
    BY <2>1 DEF vars, spaceVars
  <2>2. ASSUME NEW t \in Threads, HeapStep(t) PROVE mapped' \subseteq Addresses
    BY <2>2 DEF HeapStep, CreateStep, Create, Reserve, ReserveFails, TrimFront, TrimBack,
                Release, Remap, RemapFails, Commit, CommitFails, Abandon, Destroy,
                spaceVars, Map, Free, os_munmap
  <2> QED
    BY <2>1, <2>2 DEF Next, HeapStep
<1> QED
  BY <1>1, <1>2, PTL DEF Spec

\* A live memory begins a block and its reservation holds all of the block.
LEMMA LiveBlock ==
  ASSUME PageSizesFit, HeapFillsBlock, HeapInv, mapped \subseteq Addresses,
         NEW t \in Threads, Live(t)
  PROVE  /\ data[t] \in Nat /\ data[t] % Block = 0
         /\ data[t] .. data[t] + UINT32_MAX \subseteq Heap(t)
         /\ Heap(t) \subseteq Addresses
         /\ data[t] >= 1 /\ data[t] + UINT32_MAX <= SIZE_MAX
PROOF
<1>1. /\ UINT32_MAX \in Nat /\ SIZE_MAX \in Nat /\ WASM_PAGE_SIZE \in Nat
      /\ WASM_HEAP_GUARD_PAGE_SIZE \in Nat /\ WASM_HEAP_ALIGNMENT \in Nat \ {0}
      /\ AddressEnd \in Nat /\ AddressEnd <= SIZE_MAX /\ Block \in Nat \ {0}
      /\ max_pages[t] \in Nat /\ data[t] \in Nat
  BY HeapReservationAssumption DEF HeapFillsBlock, HeapInv, HeapTypes, Block
<1>2. data[t] % Block = 0
  <2>1. data[t] % WASM_HEAP_ALIGNMENT = 0
    BY <1>1 DEF HeapInv, PlacementInv, Live, alignment_corrected
  <2>2. PICK k \in Nat : data[t] = k * WASM_HEAP_ALIGNMENT
    BY <1>1, <2>1, MultipleIs
  <2>3. WASM_HEAP_ALIGNMENT % Block = 0
    BY DEF HeapFillsBlock, Block
  <2> QED
    BY <1>1, <2>2, <2>3, ProductOfMultiple
<1>3. requested_length(t) > UINT32_MAX
  <2> DEFINE pages == Uint32(max_pages[t])
  <2>1. pages \in 0 .. UINT32_MAX
    BY <1>1 DEF Uint32
  <2> HIDE DEF pages
  <2>2. pages * WASM_PAGE_SIZE \in Nat /\ pages * WASM_PAGE_SIZE <= UINT32_MAX * WASM_PAGE_SIZE
    BY <1>1, <2>1
  <2> DEFINE space == pages * WASM_PAGE_SIZE + WASM_HEAP_GUARD_PAGE_SIZE
  <2>3. UINT32_MAX * WASM_PAGE_SIZE \in Nat
    BY <1>1
  <2>4. space \in Nat /\ space > UINT32_MAX /\ space <= SIZE_MAX
    BY <1>1, <2>2, <2>3 DEF HeapFillsBlock
  <2> HIDE DEF space
  <2>5. space % (SIZE_MAX + 1) = space
    BY <1>1, <2>4
  <2>6. requested_length(t) = SizeT(space)
    BY DEF requested_length, compute_heap_reserve_space, pages, space
  <2> QED
    BY <2>4, <2>5, <2>6 DEF SizeT
<1>4. RequestSize(requested_length(t)) = requested_length(t) /\ requested_length(t) \in Nat
  BY <1>1, LengthTypes, LengthsAreWholePages, RequestSizeOfPages DEF HeapInv
<1>5. Heap(t) = data[t] .. data[t] + requested_length(t) - 1
  BY <1>4 DEF Heap, Region
<1>6. data[t] .. data[t] + UINT32_MAX \subseteq Heap(t)
  BY <1>1, <1>3, <1>4, <1>5
<1>7. Heap(t) \subseteq Addresses
  BY OwnedAt DEF HeapInv, OwnershipInv, Live, Heap
<1>8. data[t] \in Addresses /\ data[t] + UINT32_MAX \in Addresses
  BY <1>1, <1>6, <1>7
<1> QED
  BY <1>1, <1>2, <1>6, <1>7, <1>8 DEF Addresses

-----------------------------------------------------------------------------
(***************************************************************************)
(* The translations                                                        *)
(***************************************************************************)
\* An address of the memory is the base of its block and an offset.
LEMMA MemoryOffset ==
  ASSUME NEW t \in Threads, data[t] \in Nat, max_pages[t] \in Nat,
         NEW example \in MemoryOf(t)
  PROVE  \E q \in Pointers32 : example = data[t] + q
PROOF
<1>1. UINT32_MAX \in Nat /\ max_pages[t] * WASM_PAGE_SIZE \in Nat
  BY HeapReservationAssumption
<1> DEFINE size == max_pages[t] * WASM_PAGE_SIZE
           last == IF size > UINT32_MAX THEN UINT32_MAX ELSE size - 1
<1>2. last \in Int /\ last <= UINT32_MAX /\ example \in data[t] .. data[t] + last
  BY <1>1 DEF MemoryOf
<1> HIDE DEF last
<1>3. example - data[t] \in Pointers32 /\ example = data[t] + (example - data[t])
  BY <1>1, <1>2 DEF Pointers32
<1> QED
  BY <1>3

LEMMA LiveSwizzling ==
  ASSUME PageSizesFit, HeapFillsBlock, HeapInv, mapped \subseteq Addresses
  PROVE  SwizzlingAgrees
PROOF
<1> SUFFICES ASSUME NEW t \in Threads, Live(t)
             PROVE
    /\ PassesCreateCheck(t)
    /\ \A p \in Pointers32 :
         LET ret == impl_get_unsandboxed_pointer(t, p)
         IN  /\ ret \in Heap(t)
             /\ impl_get_sandboxed_pointer(t, ret) = p
             /\ \A example \in MemoryOf(t) :
                  /\ impl_get_unsandboxed_pointer_no_ctx(p, example) = ret
                  /\ impl_get_sandboxed_pointer_no_ctx(ret, example) = p
    /\ \A p1 \in MemoryOf(t) :
         /\ \A p2 \in MemoryOf(t) : impl_is_in_same_sandbox(p1, p2)
         /\ \A p2 \in Addresses \ Heap(t) : ~impl_is_in_same_sandbox(p1, p2)
  BY DEF SwizzlingAgrees
<1>1. /\ data[t] \in Nat /\ data[t] % Block = 0
      /\ data[t] .. data[t] + UINT32_MAX \subseteq Heap(t)
      /\ Heap(t) \subseteq Addresses
      /\ data[t] >= 1 /\ data[t] + UINT32_MAX <= SIZE_MAX
  BY LiveBlock
<1>2. UINT32_MAX \in Nat /\ SIZE_MAX \in Nat /\ UINT32_MAX # SIZE_MAX /\ max_pages[t] \in Nat
  BY HeapReservationAssumption DEF HeapFillsBlock, HeapInv, HeapTypes
<1>3. AlignedHeap
  BY DEF AlignedHeap, HeapFillsBlock
<1>4. PassesCreateCheck(t)
  BY <1>1 DEF PassesCreateCheck, heap_base, Block
<1>5. ASSUME NEW p \in Pointers32
      PROVE  /\ impl_get_unsandboxed_pointer(t, p) = data[t] + p
             /\ data[t] + p \in Heap(t)
             /\ (data[t] + p) % Block = p
             /\ HeapBaseOf(data[t] + p) = data[t]
  <2>1. p \in 0 .. UINT32_MAX
    BY DEF Pointers32
  <2>2. (data[t] + p) % (SIZE_MAX + 1) = data[t] + p
    BY <1>1, <1>2, <2>1
  <2>3. impl_get_unsandboxed_pointer(t, p) = data[t] + p
    BY <1>2, <2>2 DEF impl_get_unsandboxed_pointer, heap_base, SizeT
  <2>4. data[t] + p \in Heap(t)
    BY <1>1, <1>2, <2>1
  <2> QED
    BY <1>1, <2>3, <2>4, BaseOfOffset
<1>6. ASSUME NEW p1 \in MemoryOf(t)
      PROVE  HeapBaseOf(p1) = data[t] /\ p1 \in Nat \ {0}
  <2>1. PICK q \in Pointers32 : p1 = data[t] + q
    BY <1>1, <1>2, MemoryOffset
  <2> QED
    BY <1>1, <1>2, <1>5, <2>1 DEF Pointers32
<1>7. ASSUME NEW p \in Pointers32
      PROVE  LET ret == impl_get_unsandboxed_pointer(t, p)
             IN  /\ ret \in Heap(t)
                 /\ impl_get_sandboxed_pointer(t, ret) = p
                 /\ \A example \in MemoryOf(t) :
                      /\ impl_get_unsandboxed_pointer_no_ctx(p, example) = ret
                      /\ impl_get_sandboxed_pointer_no_ctx(ret, example) = p
  BY <1>3, <1>5, <1>6
  DEF impl_get_sandboxed_pointer, impl_get_unsandboxed_pointer_no_ctx,
      impl_get_sandboxed_pointer_no_ctx, Uint32, Block
<1>8. ASSUME NEW p1 \in MemoryOf(t), NEW p2 \in MemoryOf(t)
      PROVE  impl_is_in_same_sandbox(p1, p2)
  BY <1>3, <1>6 DEF impl_is_in_same_sandbox
<1>9. ASSUME NEW p1 \in MemoryOf(t), NEW p2 \in Addresses \ Heap(t)
      PROVE  ~impl_is_in_same_sandbox(p1, p2)
  <2>1. p2 \in Nat \ {0} /\ p2 % Block \in 0 .. UINT32_MAX
    BY <1>2, HeapReservationAssumption DEF Addresses, Block
  <2>2. HeapBaseOf(p2) # data[t]
    <3> SUFFICES ASSUME HeapBaseOf(p2) = data[t] PROVE FALSE
      OBVIOUS
    <3>1. p2 = data[t] + (p2 % Block)
      BY <1>1, <2>1 DEF HeapBaseOf, Block
    <3>2. p2 \in data[t] .. data[t] + UINT32_MAX
      BY <1>1, <1>2, <2>1, <3>1
    <3> QED BY <1>1, <3>2
  <2> QED
    BY <1>3, <1>6, <2>1, <2>2 DEF impl_is_in_same_sandbox
<1> QED
  BY <1>4, <1>7, <1>8, <1>9

\* Whatever other threads map and unmap, pointers into a live memory are
\* translated in both directions, with or without a context, within its own
\* reservation, and no foreign address passes for one of them.
THEOREM SwizzlingCorrect ==
  ASSUME PageSizesFit, HeapFillsBlock
  PROVE  Spec => []SwizzlingAgrees
PROOF
<1>1. HeapInv /\ mapped \subseteq Addresses => SwizzlingAgrees
  BY LiveSwizzling
<1> QED
  BY <1>1, HeapInvInductive, MappedAddresses, PTL

-----------------------------------------------------------------------------
(***************************************************************************)
(* Sizes on a 64-bit platform                                              *)
(***************************************************************************)
LEMMA QuotientBelow ==
  ASSUME NEW n \in Nat, NEW d \in Nat \ {0}
  PROVE  n \div d \in Nat /\ n \div d <= n
PROOF
<1> DEFINE q == n \div d
<1>1. q \in Nat /\ n = q * d + (n % d) /\ n % d \in Nat
  OBVIOUS
<1> HIDE DEF q
<1>2. q * d >= q
  BY <1>1
<1>3. q <= n
  BY <1>1, <1>2
<1> QED
  BY <1>1, <1>3 DEF q

\* With a size_t wider than uint32_t every valid capacity fits.
LEMMA AlignedCapacitiesFit ==
  ASSUME HeapFillsBlock, WASM_HEAP_DEFAULT_MAX_PAGES <= UINT32_MAX
  PROVE  CapacitiesFit
PROOF
<1>1. /\ UINT32_MAX \in Nat /\ SIZE_MAX \in Nat /\ MinCapacities \subseteq Nat
      /\ WASM_PAGE_SIZE \in Nat /\ WASM_PAGE_SIZE > 1 /\ WASM_HEAP_GUARD_PAGE_SIZE \in Nat
      /\ WASM_HEAP_DEFAULT_MAX_PAGES \in Nat
  BY HeapReservationAssumption
<1> SUFFICES ASSUME NEW min \in MinCapacities,
                    get_valid_wasm2c_memory_capacity(min).is_valid
             PROVE  LET pages == get_valid_wasm2c_memory_capacity(min).max_pages
                    IN  /\ pages <= UINT32_MAX
                        /\ pages * WASM_PAGE_SIZE + WASM_HEAP_GUARD_PAGE_SIZE <= SIZE_MAX
  BY DEF CapacitiesFit, ValidCapacities
<1> DEFINE pages == get_valid_wasm2c_memory_capacity(min).max_pages
<1>2. min \in Nat /\ pages \in Nat /\ DefaultCapacity \in Nat
  BY <1>1, ValidCapacityHolds DEF DefaultCapacity
<1>3. pages <= UINT32_MAX
  <2>1. CASE min <= DefaultCapacity
    BY <1>1, <1>2, <2>1 DEF get_valid_wasm2c_memory_capacity
  <2>2. CASE ~(min <= DefaultCapacity)
    <3>1. min > DefaultCapacity /\ min - 1 \in Nat /\ ~(min > UINT32_MAX)
      BY <1>1, <1>2, <2>2 DEF get_valid_wasm2c_memory_capacity
    <3>2. pages = (min - 1) \div (WASM_PAGE_SIZE - 1) + 1
      BY <2>2, <3>1 DEF get_valid_wasm2c_memory_capacity
    <3> DEFINE q == (min - 1) \div (WASM_PAGE_SIZE - 1)
    <3>3. WASM_PAGE_SIZE - 1 \in Nat \ {0}
      BY <1>1
    <3>4. q \in Nat /\ q <= min - 1
      BY <3>1, <3>3, QuotientBelow
    <3>5. pages = q + 1
      BY <3>2
    <3> HIDE DEF q, pages
    <3> QED
      BY <1>1, <1>2, <3>1, <3>4, <3>5
  <2> QED
    BY <2>1, <2>2
<1> HIDE DEF pages
<1>4. pages * WASM_PAGE_SIZE <= UINT32_MAX * WASM_PAGE_SIZE
  BY <1>1, <1>2, <1>3
<1>5. pages * WASM_PAGE_SIZE \in Nat /\ UINT32_MAX * WASM_PAGE_SIZE \in Nat
  BY <1>1, <1>2
<1>6. pages * WASM_PAGE_SIZE + WASM_HEAP_GUARD_PAGE_SIZE <= SIZE_MAX
  BY <1>1, <1>4, <1>5 DEF HeapFillsBlock
<1> QED
  BY <1>3, <1>6 DEF pages

\* There the runtime reserves enough for the whole program whatever capacity the
\* application asks for and however many pages the module begins with.
THEOREM WholeProgramFitsAligned ==
  ASSUME PageSizesFit, HeapFillsBlock, WASM_HEAP_DEFAULT_MAX_PAGES <= UINT32_MAX
  PROVE  Spec => []WholeProgramReserved
PROOF
BY AlignedCapacitiesFit, WholeProgramFits

-----------------------------------------------------------------------------
(***************************************************************************)
(* Pointers on a 32-bit platform.  The argument: a heap lies within the    *)
(* addresses of the process, so that its end does not wrap; a sum that     *)
(* wraps ends up below the base; and an accessible address is in the heap  *)
(* of one thread only, the one the application's finder returns.           *)
(***************************************************************************)
\* What is accessible of a live heap, and that none of it wraps.
LEMMA LiveHeap ==
  ASSUME PageSizesFit, CapacitiesFit, InitialPagesFit, TypeOK, HeapInv, ArgumentsInv,
         AccessInv, NEW t \in Threads, Live(t)
  PROVE  /\ data[t] \in Nat /\ byte_length(t) \in Nat
         /\ data[t] + byte_length(t) <= SIZE_MAX
         /\ accessible \cap Heap(t) = data[t] .. (data[t] + byte_length(t)) - 1
         /\ Region(data[t], byte_length(t)) = data[t] .. (data[t] + byte_length(t)) - 1
         /\ Region(data[t], byte_length(t)) \subseteq Heap(t)
PROOF
<1> DEFINE d == data[t]
           n == byte_length(t)
<1>1. pc[t] \notin {"idle", "reserve"} /\ HeapTypes
  BY DEF Live, HeapInv
<1>2. d \in 0 .. AddressEnd /\ AddressEnd \in Nat /\ AddressEnd <= SIZE_MAX /\ SIZE_MAX \in Nat
  BY HeapReservationAssumption DEF TypeOK
<1>3. n \in Nat
  <2>1. UINT32_MAX \in Nat /\ initial_pages[t] * WASM_PAGE_SIZE \in Nat
    BY HeapReservationAssumption DEF TypeOK
  <2> QED
    BY <2>1 DEF byte_length, Uint32
<1>4. RequestSize(n) = n /\ CommitRegion(t) = Region(d, n)
  BY <1>1, SizesAreExact
<1>5. Region(d, n) \subseteq Heap(t)
  BY <1>1, <1>4, PartsOfHeap
<1>6. accessible \cap Heap(t) = Region(d, n)
  BY <1>4, OwnedAt DEF AccessInv, Live, Heap
<1>7. accessible \subseteq Addresses
  BY DEF TypeOK
<1> HIDE DEF d, n
<1>8. Region(d, n) = d .. (d + n) - 1
  <2>1. Region(d, n) = d .. d + n - 1
    BY <1>4 DEF Region
  <2>2. d + n - 1 = (d + n) - 1
    BY <1>2, <1>3
  <2> QED
    BY <2>1, <2>2
<1>9. d + n <= SIZE_MAX
  <2>1. CASE n = 0
    BY <1>2, <2>1
  <2>2. CASE n # 0
    <3>1. (d + n) - 1 \in d .. (d + n) - 1
      BY <1>2, <1>3, <2>2
    <3>2. (d + n) - 1 \in 1 .. AddressEnd - 1
      BY <1>6, <1>7, <1>8, <3>1 DEF Addresses
    <3> QED
      BY <1>2, <1>3, <3>2
  <2> QED
    BY <2>1, <2>2
<1> QED
  BY <1>2, <1>3, <1>5, <1>6, <1>8, <1>9 DEF d, n

\* An address of a live heap that is accessible belongs to that heap's thread.
LEMMA FinderFinds ==
  ASSUME PageSizesFit, CapacitiesFit, InitialPagesFit, TypeOK, HeapInv, ArgumentsInv,
         AccessInv, NEW t \in Threads, Live(t), NEW example \in accessible \cap Heap(t)
  PROVE  expensive_sandbox_finder(example) = t
PROOF
<1> DEFINE owners == {u \in Threads : pc[u] = "live"
                                       /\ example \in Region(data[u], byte_length(u))}
<1>1. t \in owners
  BY LiveHeap DEF Live
<1>2. ASSUME NEW u \in owners PROVE u = t
  <2>1. Live(u) /\ example \in Heap(u)
    BY LiveHeap DEF Live
  <2>2. Owned(u) = Heap(u) /\ Owned(t) = Heap(t)
    BY <2>1, OwnedAt DEF Live, Heap
  <2>3. u # t => Owned(u) \cap Owned(t) = {}
    BY DEF HeapInv, OwnershipInv
  <2> QED
    BY <2>1, <2>2, <2>3
<1>3. owners = {t}
  BY <1>1, <1>2
<1> HIDE DEF owners
<1>4. expensive_sandbox_finder(example)
        = IF owners = {} THEN 0 ELSE CHOOSE u \in owners : TRUE
  BY DEF expensive_sandbox_finder, owners
<1> QED
  BY <1>3, <1>4

LEMMA LivePointers ==
  ASSUME UINT32_MAX = SIZE_MAX,
         PageSizesFit, CapacitiesFit, InitialPagesFit, TypeOK, HeapInv, ArgumentsInv,
         AccessInv
  PROVE  PointersStayInside
PROOF
<1> SUFFICES ASSUME NEW t \in Threads, Live(t)
             PROVE
    /\ PassesCreateCheck(t)
    /\ \A p \in Pointers32 :
         LET ret == impl_get_unsandboxed_pointer(t, p)
         IN  /\ (ret # NoPointer) <=> (p < impl_get_total_memory(t))
             /\ ret # NoPointer =>
                  /\ ret \in accessible \cap Heap(t)
                  /\ impl_get_sandboxed_pointer(t, ret) = p
             /\ \A example \in accessible \cap Heap(t) :
                  impl_get_unsandboxed_pointer_no_ctx(p, example) = ret
  BY DEF PointersStayInside
<1> DEFINE d == data[t]
           n == byte_length(t)
<1>1. /\ d \in Nat /\ n \in Nat /\ d + n <= SIZE_MAX
      /\ accessible \cap Heap(t) = d .. (d + n) - 1
  BY LiveHeap
<1>2. SIZE_MAX \in Nat /\ ~AlignedHeap
  BY HeapReservationAssumption DEF AlignedHeap
<1>3. PassesCreateCheck(t)
  BY <1>2 DEF PassesCreateCheck
<1>4. ASSUME NEW p \in Pointers32
      PROVE  LET ret == impl_get_unsandboxed_pointer(t, p)
             IN  /\ (ret # NoPointer) <=> (p < n)
                 /\ ret # NoPointer => ret = d + p
  <2> DEFINE sum == SizeT(d + p)
  <2>1. p \in 0 .. SIZE_MAX
    BY DEF Pointers32
  <2>2. impl_get_unsandboxed_pointer(t, p)
          = IF sum >= d /\ sum < SizeT(d + n) THEN sum ELSE -1
    BY DEF impl_get_unsandboxed_pointer, impl_is_pointer_in_sandbox_memory, heap_base,
           impl_get_total_memory, NoPointer
  <2> HIDE DEF d, n
  <2>3. SizeT(d + n) = d + n
    BY <1>1, <1>2 DEF SizeT
  <2>4. CASE d + p <= SIZE_MAX
    <3>1. sum = d + p
      BY <1>1, <1>2, <2>1, <2>4 DEF SizeT
    <3> QED
      BY <1>1, <2>1, <2>2, <2>3, <3>1 DEF NoPointer
  <2>5. CASE ~(d + p <= SIZE_MAX)
    <3>1. sum = (d + p) - (SIZE_MAX + 1)
      <4>1. (d + p) - (SIZE_MAX + 1) \in 0 .. SIZE_MAX /\ d + p \in Nat
        BY <1>1, <1>2, <2>1, <2>5
      <4> QED
        BY <1>2, <4>1 DEF SizeT
    <3>2. sum < d
      BY <1>1, <1>2, <2>1, <3>1
    <3>3. p >= n
      BY <1>1, <1>2, <2>1, <2>5
    <3> QED
      BY <1>1, <1>2, <2>1, <2>2, <3>2, <3>3, <3>1 DEF NoPointer
  <2> QED
    BY <2>4, <2>5
<1>5. ASSUME NEW p \in Pointers32, p < n
      PROVE  /\ d + p \in accessible \cap Heap(t)
             /\ impl_get_sandboxed_pointer(t, d + p) = p
  <2>1. p \in 0 .. SIZE_MAX
    BY DEF Pointers32
  <2>2. impl_get_sandboxed_pointer(t, d + p) = Uint32(SizeT((d + p) - d))
    BY <1>2 DEF impl_get_sandboxed_pointer, heap_base
  <2> HIDE DEF d, n
  <2>3. (d + p) - d = p
    BY <1>1, <2>1
  <2>4. SizeT(p) = p /\ Uint32(p) = p
    BY <1>2, <2>1 DEF SizeT, Uint32
  <2>5. d + p \in d .. (d + n) - 1
    BY <1>1, <1>5, <2>1
  <2> QED
    BY <1>1, <2>2, <2>3, <2>4, <2>5
<1>6. ASSUME NEW p \in Pointers32, NEW example \in accessible \cap Heap(t)
      PROVE  impl_get_unsandboxed_pointer_no_ctx(p, example)
               = impl_get_unsandboxed_pointer(t, p)
  BY <1>2, FinderFinds DEF impl_get_unsandboxed_pointer_no_ctx
<1> QED
  BY <1>3, <1>4, <1>5, <1>6 DEF impl_get_total_memory

\* On a 32-bit platform a value is translated just when it leads to an address
\* of its own sandbox that can be accessed, whatever wraps and whatever the other
\* threads map, commit and unmap.
THEOREM PointersCorrect ==
  ASSUME UINT32_MAX = SIZE_MAX, PageSizesFit, CapacitiesFit, InitialPagesFit
  PROVE  Spec => []PointersStayInside
PROOF
<1>1. TypeOK /\ HeapInv /\ ArgumentsInv /\ AccessInv => PointersStayInside
  BY LivePointers
<1> QED
  BY <1>1, HeapTypeCorrect, HeapInvInductive, ArgumentsInductive, AccessInductive, PTL
=============================================================================

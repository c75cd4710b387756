------------------------ MODULE HeapOwnershipProofs ------------------------
(***************************************************************************)
(* Live memories stay whole and apart, and nothing leaks, for every number *)
(* of threads, every size and every interleaving of their system calls.    *)
(* The argument: at each stage of create_wasm2c_memory a thread owns a set *)
(* of addresses; these sets are disjoint and together they are what the    *)
(* process has reserved.                                                   *)
(***************************************************************************)
EXTENDS HeapReservationProofs

\* What a thread owns at each stage.
Owned(t) ==
  CASE pc[t] \in {"trim_front", "release"} -> Region(unaligned[t], padded_length(t))
    [] pc[t] = "trim_back" -> data[t] .. unaligned[t] + RequestSize(padded_length(t)) - 1
    [] pc[t] \in {"commit", "abandon", "live"} -> Region(data[t], requested_length(t))
    [] OTHER -> {}

\* The owned sets are disjoint and make up all that is reserved.
OwnershipInv ==
  /\ \A t \in Threads : Owned(t) \subseteq mapped
  /\ \A t, u \in Threads : t # u => Owned(t) \cap Owned(u) = {}
  /\ \A x \in mapped : \E t \in Threads : x \in Owned(t)

\* What trimming gives back.
FrontTrim(t) ==
  IF unused_front(t) # 0 THEN Region(unaligned[t], unused_front(t)) ELSE {}
BackTrim(t) ==
  IF unused_back(t) # 0 THEN Region(data[t] + requested_length(t), unused_back(t)) ELSE {}

HeapTypes ==
  /\ pc \in [Threads -> Stages]
  /\ max_pages \in [Threads -> Nat]
  /\ unaligned \in [Threads -> Nat]
  /\ data \in [Threads -> Nat]

\* Where the aligned part lies in a reservation that is still to be trimmed.
Placed(t, u, a) ==
  /\ u % OsPageSize = 0
  /\ SanityCheck(t, u, a)
  /\ WASM_HEAP_ALIGNMENT = 0 => a = u

PlacementInv ==
  \A t \in Threads :
    /\ pc[t] \notin {"idle", "reserve"} => data[t] % alignment_corrected = 0
    /\ pc[t] \in {"trim_front", "trim_back"} => Placed(t, unaligned[t], data[t])

HeapInv == HeapTypes /\ PlacementInv /\ OwnershipInv

USE DEF Stages

-----------------------------------------------------------------------------
(***************************************************************************)
(* Sizes and regions                                                       *)
(***************************************************************************)
\* A size of whole pages that fits a size_t is requested as it is.
LEMMA RequestSizeOfPages ==
  ASSUME NEW n \in 0 .. SIZE_MAX, n % OsPageSize = 0
  PROVE  RequestSize(n) = n
PROOF
<1>1. OsPageSize \in Nat \ {0} /\ SIZE_MAX \in Nat /\ n \in Nat
  BY HeapReservationAssumption
<1>2. ((n + OsPageSize - 1) \div OsPageSize) * OsPageSize = n
  BY <1>1, RoundUpMultiple
<1>3. n % (SIZE_MAX + 1) = n
  BY <1>1
<1> QED
  BY <1>2, <1>3 DEF RequestSize, SizeT

\* The lengths are values of size_t.
LEMMA LengthTypes ==
  ASSUME HeapTypes, NEW t \in Threads
  PROVE  /\ compute_heap_reserve_space(max_pages[t]) \in Nat
         /\ requested_length(t) \in 0 .. SIZE_MAX
         /\ padded_length(t) \in 0 .. SIZE_MAX
PROOF
<1>1. /\ UINT32_MAX \in Nat /\ SIZE_MAX \in Nat /\ WASM_PAGE_SIZE \in Nat
      /\ WASM_HEAP_GUARD_PAGE_SIZE \in Nat /\ WASM_HEAP_ALIGNMENT \in Nat
      /\ max_pages[t] \in Nat
  BY HeapReservationAssumption DEF HeapTypes
<1>2. Uint32(max_pages[t]) \in Nat
  BY <1>1 DEF Uint32
<1>3. compute_heap_reserve_space(max_pages[t]) \in Nat
  BY <1>1, <1>2 DEF compute_heap_reserve_space
<1>4. requested_length(t) \in 0 .. SIZE_MAX
  BY <1>1, <1>3 DEF requested_length, SizeT
<1>5. padded_length(t) \in 0 .. SIZE_MAX
  BY <1>1, <1>4 DEF padded_length, SizeT
<1> QED
  BY <1>3, <1>4, <1>5

\* With an alignment, the lengths are whole pages.
LEMMA LengthsAreWholePages ==
  ASSUME HeapTypes, PageSizesFit, WASM_HEAP_ALIGNMENT # 0, NEW t \in Threads
  PROVE  requested_length(t) % OsPageSize = 0 /\ padded_length(t) % OsPageSize = 0
PROOF
<1>1. /\ OsPageSize \in Nat \ {0} /\ UINT32_MAX \in Nat /\ SIZE_MAX + 1 \in Nat \ {0}
      /\ WASM_PAGE_SIZE \in Nat /\ WASM_HEAP_GUARD_PAGE_SIZE \in Nat
      /\ WASM_HEAP_ALIGNMENT \in Nat /\ max_pages[t] \in Nat
  BY HeapReservationAssumption DEF HeapTypes
<1>2. Uint32(max_pages[t]) \in Nat
  BY <1>1 DEF Uint32
<1>3. (Uint32(max_pages[t]) * WASM_PAGE_SIZE) % OsPageSize = 0
  BY <1>1, <1>2, ProductOfMultiple DEF PageSizesFit
<1>4. Uint32(max_pages[t]) * WASM_PAGE_SIZE \in Nat
  BY <1>1, <1>2
<1>5. compute_heap_reserve_space(max_pages[t]) % OsPageSize = 0
  BY <1>1, <1>3, <1>4, SumOfMultiples DEF PageSizesFit, compute_heap_reserve_space
<1>6. requested_length(t) % OsPageSize = 0
  BY <1>1, <1>5, LengthTypes, RemainderOfMultiples DEF PageSizesFit, requested_length, SizeT
<1>7. requested_length(t) \in Nat /\ requested_length(t) + WASM_HEAP_ALIGNMENT \in Nat
  BY <1>1, LengthTypes
<1>8. (requested_length(t) + WASM_HEAP_ALIGNMENT) % OsPageSize = 0
  BY <1>1, <1>6, <1>7, SumOfMultiples DEF PageSizesFit
<1>9. padded_length(t) % OsPageSize = 0
  BY <1>1, <1>7, <1>8, RemainderOfMultiples DEF PageSizesFit, padded_length, SizeT
<1> QED
  BY <1>6, <1>9

\* Then an aligned address begins a page.
LEMMA AlignedBeginsPage ==
  ASSUME PageSizesFit, WASM_HEAP_ALIGNMENT # 0, NEW a \in Nat, a % alignment_corrected = 0
  PROVE  a % OsPageSize = 0
PROOF
<1>1. /\ OsPageSize \in Nat \ {0} /\ WASM_HEAP_ALIGNMENT \in Nat \ {0}
      /\ alignment_corrected = WASM_HEAP_ALIGNMENT
  BY HeapReservationAssumption DEF alignment_corrected
<1>2. PICK k \in Nat : a = k * WASM_HEAP_ALIGNMENT
  BY <1>1, MultipleIs
<1>3. WASM_HEAP_ALIGNMENT % OsPageSize = 0
  BY DEF PageSizesFit
<1>4. (k * WASM_HEAP_ALIGNMENT) % OsPageSize = 0
  BY <1>1, <1>2, <1>3, ProductOfMultiple
<1> QED
  BY <1>2, <1>4

\* Without an alignment, the padded length is the requested one.
LEMMA UnpaddedLength ==
  ASSUME HeapTypes, NEW t \in Threads, WASM_HEAP_ALIGNMENT = 0
  PROVE  padded_length(t) = requested_length(t)
PROOF
<1>1. SIZE_MAX \in Nat /\ requested_length(t) \in 0 .. SIZE_MAX
  BY HeapReservationAssumption, LengthTypes
<1>2. requested_length(t) % (SIZE_MAX + 1) = requested_length(t)
  BY <1>1
<1> QED
  BY <1>1, <1>2 DEF padded_length, SizeT

\* Trimming the front leaves what begins at the aligned address.
LEMMA FrontTrimmed ==
  ASSUME HeapTypes, PageSizesFit, NEW t \in Threads, Placed(t, unaligned[t], data[t])
  PROVE  /\ FrontTrim(t) \subseteq Region(unaligned[t], padded_length(t))
         /\ Region(unaligned[t], padded_length(t)) \ FrontTrim(t)
              = data[t] .. unaligned[t] + RequestSize(padded_length(t)) - 1
PROOF
<1> DEFINE u == unaligned[t]
           a == data[t]
           R == RequestSize(padded_length(t))
<1>1. u \in Nat /\ a \in Nat /\ a >= u
  BY DEF HeapTypes, Placed, SanityCheck
<1>2. unused_front(t) = a - u
  BY DEF unused_front
<1>3. CASE a = u
  BY <1>1, <1>2, <1>3 DEF Region, FrontTrim
<1>4. CASE a # u
  <2>1. WASM_HEAP_ALIGNMENT # 0
    BY <1>4 DEF Placed
  <2>2. OsPageSize \in Nat \ {0} /\ SIZE_MAX \in Nat
    BY HeapReservationAssumption
  <2>3. a % alignment_corrected = 0 /\ u % OsPageSize = 0
    BY DEF Placed, SanityCheck
  <2>4. a % OsPageSize = 0
    BY <1>1, <2>1, <2>3, AlignedBeginsPage
  <2>5. (a - u) % OsPageSize = 0
    BY <1>1, <2>2, <2>3, <2>4, SumOfMultiples
  <2>6. /\ padded_length(t) \in 0 .. SIZE_MAX /\ requested_length(t) \in 0 .. SIZE_MAX
        /\ a + requested_length(t) <= u + padded_length(t)
    BY LengthTypes DEF Placed, SanityCheck
  <2>7. a - u \in 0 .. SIZE_MAX /\ a - u <= padded_length(t)
    BY <1>1, <2>2, <2>6
  <2>8. RequestSize(a - u) = a - u /\ R = padded_length(t)
    BY <2>1, <2>5, <2>6, <2>7, RequestSizeOfPages, LengthsAreWholePages
  <2>9. FrontTrim(t) = u .. a - 1
    <3>1. unused_front(t) # 0 /\ u + RequestSize(unused_front(t)) - 1 = a - 1
      BY <1>1, <1>2, <1>4, <2>8
    <3> QED
      BY <3>1 DEF Region, FrontTrim
  <2>10. R \in Nat /\ a - u <= R
    BY <2>6, <2>7, <2>8
  <2>11. Region(u, padded_length(t)) = u .. u + R - 1
    BY DEF Region
  <2> HIDE DEF u, a, R
  <2>12. /\ (u .. a - 1) \subseteq (u .. u + R - 1)
         /\ (u .. u + R - 1) \ (u .. a - 1) = a .. u + R - 1
    BY <1>1, <2>10
  <2> QED
    BY <2>9, <2>11, <2>12 DEF u, a, R
<1> QED
  BY <1>3, <1>4

\* Trimming the back of that leaves the requested reservation.
LEMMA BackTrimmed ==
  ASSUME HeapTypes, PageSizesFit, NEW t \in Threads, Placed(t, unaligned[t], data[t])
  PROVE  LET untrimmed == data[t] .. unaligned[t] + RequestSize(padded_length(t)) - 1
         IN  /\ BackTrim(t) \subseteq untrimmed
             /\ untrimmed \ BackTrim(t) = Region(data[t], requested_length(t))
PROOF
<1> DEFINE u == unaligned[t]
           a == data[t]
           req == requested_length(t)
           pad == padded_length(t)
<1>1. /\ u \in Nat /\ a \in Nat /\ a >= u /\ SIZE_MAX \in Nat
      /\ req \in 0 .. SIZE_MAX /\ pad \in 0 .. SIZE_MAX /\ a + req <= u + pad
  BY LengthTypes, HeapReservationAssumption DEF HeapTypes, Placed, SanityCheck
<1>2. unused_back(t) = (u + pad) - (a + req)
  BY DEF unused_back
<1> HIDE DEF u, a, req, pad
<1>3. CASE WASM_HEAP_ALIGNMENT = 0
  <2>1. a = u /\ pad = req
    BY <1>3, UnpaddedLength DEF Placed, u, a, req, pad
  <2>2. unused_back(t) = 0
    BY <1>1, <1>2, <2>1
  <2>3. BackTrim(t) = {}
    BY <2>2 DEF BackTrim
  <2>4. a .. u + RequestSize(pad) - 1 = Region(a, req)
    BY <2>1 DEF Region
  <2> QED
    BY <2>3, <2>4 DEF u, a, req, pad
<1>4. CASE WASM_HEAP_ALIGNMENT # 0
  <2>1. OsPageSize \in Nat \ {0}
    BY HeapReservationAssumption
  <2>2. a % alignment_corrected = 0 /\ u % OsPageSize = 0
    BY DEF Placed, SanityCheck, u, a
  <2>3. a % OsPageSize = 0
    BY <1>1, <1>4, <2>2, AlignedBeginsPage
  <2>4. req % OsPageSize = 0 /\ pad % OsPageSize = 0
    BY <1>4, LengthsAreWholePages DEF req, pad
  <2>5. (u + pad) % OsPageSize = 0 /\ (a + req) % OsPageSize = 0
    BY <1>1, <2>1, <2>2, <2>3, <2>4, SumOfMultiples
  <2>6. unused_back(t) % OsPageSize = 0 /\ unused_back(t) \in 0 .. SIZE_MAX
    <3>1. /\ u + pad \in Nat /\ a + req \in Nat /\ u + pad >= a + req
          /\ unused_back(t) \in 0 .. SIZE_MAX
      BY <1>1, <1>2
    <3> DEFINE x == u + pad
               y == a + req
    <3>2. x \in Nat /\ y \in Nat /\ x >= y /\ x % OsPageSize = 0 /\ y % OsPageSize = 0
      BY <2>5, <3>1
    <3>3. unused_back(t) = x - y
      BY <1>2
    <3> HIDE DEF x, y
    <3>4. (x - y) % OsPageSize = 0
      BY <2>1, <3>2, SumOfMultiples
    <3> QED
      BY <3>1, <3>3, <3>4
  <2>7. RequestSize(unused_back(t)) = unused_back(t) /\ RequestSize(req) = req
        /\ RequestSize(pad) = pad
    BY <1>1, <2>4, <2>6, RequestSizeOfPages
  <2>8. Region(a + req, unused_back(t)) = a + req .. u + pad - 1
    <3>1. (a + req) + RequestSize(unused_back(t)) - 1 = u + pad - 1
      BY <1>1, <1>2, <2>7
    <3> QED
      BY <3>1 DEF Region
  <2>9. (a .. u + pad - 1) \ (a + req .. u + pad - 1) = a .. a + req - 1
    BY <1>1
  <2>10. CASE unused_back(t) = 0
    <3>1. u + pad = a + req
      BY <1>1, <1>2, <2>10
    <3>2. a .. u + RequestSize(pad) - 1 = a .. a + RequestSize(req) - 1
      BY <1>1, <2>7, <3>1
    <3>3. a .. u + RequestSize(pad) - 1 = Region(a, req)
      BY <3>2 DEF Region
    <3> QED
      BY <2>10, <3>3 DEF BackTrim, u, a, req, pad
  <2>11. CASE unused_back(t) # 0
    <3>1. BackTrim(t) = a + req .. u + pad - 1
      BY <2>8, <2>11 DEF BackTrim, a, req
    <3>2. (a + req .. u + pad - 1) \subseteq a .. u + pad - 1
      BY <1>1
    <3>3. Region(a, req) = a .. a + req - 1
      BY <2>7 DEF Region
    <3> QED
      BY <2>7, <2>9, <3>1, <3>2, <3>3 DEF u, a, req, pad
  <2> QED
    BY <2>10, <2>11
<1> QED
  BY <1>3, <1>4

-----------------------------------------------------------------------------
(***************************************************************************)
(* Types and places                                                        *)
(***************************************************************************)
HeapStep(t) == Create(t) \/ CreateStep(t) \/ Destroy(t)

\* An aligned address is a natural number.
LEMMA AlignedType ==
  ASSUME NEW u \in Nat
  PROVE  Aligned(u) \in Nat
PROOF
<1>1. SIZE_MAX \in Nat /\ WASM_HEAP_ALIGNMENT \in Nat /\ alignment_corrected \in Nat \ {0}
  BY HeapReservationAssumption DEF alignment_corrected
<1> DEFINE q == SizeT(u + alignment_corrected - 1) \div alignment_corrected
<1>2. q \in Nat
  BY <1>1 DEF SizeT
<1> HIDE DEF q
<1>3. q * alignment_corrected \in Nat
  BY <1>1, <1>2
<1>4. SizeT(q * alignment_corrected + WASM_HEAP_ALIGNMENT) \in Nat
  BY <1>1, <1>3 DEF SizeT
<1> QED
  BY <1>3, <1>4 DEF Aligned, q

\* Every step keeps the types.
LEMMA StepTypes ==
  ASSUME HeapTypes, NEW t \in Threads, HeapStep(t)
  PROVE  HeapTypes'
PROOF
<1> USE DEF HeapTypes
<1>1. ASSUME NextTry(t) PROVE HeapTypes'
  BY <1>1 DEF NextTry, Return, Goto, argVars
<1>2. CASE Create(t)
  <2>1. PICK min \in MinCapacities :
          /\ get_valid_wasm2c_memory_capacity(min).is_valid
          /\ max_pages' = [max_pages EXCEPT
                             ![t] = get_valid_wasm2c_memory_capacity(min).max_pages]
    BY <1>2 DEF Create
  <2>2. get_valid_wasm2c_memory_capacity(min).max_pages \in Nat
    BY <2>1, ValidCapacityHolds, HeapReservationAssumption
  <2> QED
    BY <1>2, <2>1, <2>2 DEF Create, Goto
<1>3. CASE Reserve(t)
  <2>1. PICK u \in Addresses :
          /\ unaligned' = [unaligned EXCEPT ![t] = u]
          /\ data' = [data EXCEPT ![t] = Aligned(u)]
    BY <1>3 DEF Reserve
  <2>2. u \in Nat /\ Aligned(u) \in Nat
    BY AlignedType, HeapReservationAssumption DEF Addresses
  <2> QED
    BY <1>3, <2>1, <2>2 DEF Reserve, Goto, argVars
<1>4. CASE ReserveFails(t) \/ RemapFails(t)
  BY <1>1, <1>4 DEF ReserveFails, RemapFails
<1>5. CASE TrimFront(t) \/ TrimBack(t) \/ Release(t)
  BY <1>5 DEF TrimFront, TrimBack, Release, Goto, argVars
<1>6. CASE Remap(t) \/ Commit(t) \/ CommitFails(t)
  BY <1>6 DEF Remap, Commit, CommitFails, Goto, argVars
<1>7. CASE Abandon(t) \/ Destroy(t)
  BY <1>7 DEF Abandon, Destroy, Return, Goto
<1> QED
  BY <1>2, <1>3, <1>4, <1>5, <1>6, <1>7 DEF HeapStep, CreateStep

\* A step of one thread leaves alone what another thread owns and where it is.
LEMMA OthersKept ==
  ASSUME HeapTypes, NEW t \in Threads, HeapStep(t), NEW v \in Threads \ {t}
  PROVE  /\ pc'[v] = pc[v] /\ max_pages'[v] = max_pages[v]
         /\ unaligned'[v] = unaligned[v] /\ data'[v] = data[v]
         /\ Owned(v)' = Owned(v)
PROOF
<1> DEFINE Kept == /\ pc'[v] = pc[v] /\ max_pages'[v] = max_pages[v]
                   /\ unaligned'[v] = unaligned[v] /\ data'[v] = data[v]
<1> USE DEF HeapTypes
<1>1. ASSUME NextTry(t) PROVE Kept
  BY <1>1 DEF NextTry, Return, Goto, argVars
<1>2. ASSUME Create(t) PROVE Kept
  BY <1>2 DEF Create, Goto
<1>3. ASSUME Reserve(t) PROVE Kept
  BY <1>3 DEF Reserve, Goto, argVars
<1>4. ASSUME ReserveFails(t) \/ RemapFails(t) PROVE Kept
  BY <1>1, <1>4 DEF ReserveFails, RemapFails
<1>5. ASSUME TrimFront(t) \/ TrimBack(t) \/ Release(t) PROVE Kept
  BY <1>5 DEF TrimFront, TrimBack, Release, Goto, argVars
<1>6. ASSUME Remap(t) \/ Commit(t) \/ CommitFails(t) PROVE Kept
  BY <1>6 DEF Remap, Commit, CommitFails, Goto, argVars
<1>7. ASSUME Abandon(t) \/ Destroy(t) PROVE Kept
  BY <1>7 DEF Abandon, Destroy, Return, Goto
<1>8. Kept
  BY <1>2, <1>3, <1>4, <1>5, <1>6, <1>7 DEF HeapStep, CreateStep
<1>9. Owned(v)' = Owned(v)
  BY <1>8 DEF Owned, Region, padded_length, requested_length, compute_heap_reserve_space
<1> QED
  BY <1>8, <1>9

\* The aligned part stays within the reservation, on its alignment.
LEMMA StepPlacement ==
  ASSUME HeapTypes, PlacementInv, NEW t \in Threads, HeapStep(t)
  PROVE  PlacementInv'
PROOF
<1> DEFINE P(v) == /\ pc[v] \notin {"idle", "reserve"} => data[v] % alignment_corrected = 0
                   /\ pc[v] \in {"trim_front", "trim_back"} => Placed(v, unaligned[v], data[v])
<1>0. ASSUME NEW v \in Threads PROVE P(v)
  BY DEF PlacementInv
<1>1. ASSUME NEW v \in Threads \ {t} PROVE P(v)'
  BY <1>0, OthersKept
  DEF Placed, SanityCheck, padded_length, requested_length, compute_heap_reserve_space
<1>2. P(t)'
  <2> USE DEF HeapTypes
  <2>1. ASSUME NextTry(t) PROVE P(t)'
    BY <2>1 DEF NextTry, Return, Goto
  <2>2. CASE Create(t)
    BY <2>2 DEF Create, Goto
  <2>3. CASE Reserve(t)
    <3>1. PICK u \in Addresses :
            /\ u % OsPageSize = 0
            /\ SanityCheck(t, u, Aligned(u))
            /\ unaligned' = [unaligned EXCEPT ![t] = u]
            /\ data' = [data EXCEPT ![t] = Aligned(u)]
      BY <2>3 DEF Reserve
    <3>2. /\ unaligned'[t] = u /\ data'[t] = Aligned(u) /\ max_pages' = max_pages
          /\ pc'[t] \in {"trim_front", "commit", "release"}
      BY <2>3, <3>1 DEF Reserve, Goto, argVars
    <3>3. u \in Nat /\ Aligned(u) \in Nat
      BY AlignedType, HeapReservationAssumption DEF Addresses
    <3>4. WASM_HEAP_ALIGNMENT = 0 => Aligned(u) = u
      BY <3>1, <3>3, UnpaddedLength, LengthTypes, HeapReservationAssumption DEF SanityCheck
    <3>5. SanityCheck(t, u, Aligned(u))'
      BY <3>1, <3>2
      DEF SanityCheck, padded_length, requested_length, compute_heap_reserve_space
    <3> QED
      BY <3>1, <3>2, <3>4, <3>5 DEF Placed, SanityCheck
  <2>4. CASE ReserveFails(t) \/ RemapFails(t)
    BY <2>1, <2>4 DEF ReserveFails, RemapFails
  <2>5. CASE TrimFront(t)
    BY <1>0, <2>5
    DEF TrimFront, Goto, argVars, Placed, SanityCheck, padded_length, requested_length,
        compute_heap_reserve_space
  <2>6. CASE TrimBack(t) \/ Release(t) \/ Remap(t) \/ Commit(t) \/ CommitFails(t)
    BY <1>0, <2>6 DEF TrimBack, Release, Remap, Commit, CommitFails, Goto, argVars
  <2>7. CASE Abandon(t) \/ Destroy(t)
    BY <2>7 DEF Abandon, Destroy, Return, Goto
  <2> QED
    BY <2>2, <2>3, <2>4, <2>5, <2>6, <2>7 DEF HeapStep, CreateStep
<1> QED
  BY <1>1, <1>2 DEF PlacementInv

-----------------------------------------------------------------------------
(***************************************************************************)
(* Ownership                                                               *)
(***************************************************************************)
\* A thread may give back what it owns.
LEMMA GivesBack ==
  ASSUME HeapTypes, OwnershipInv, NEW t \in Threads, HeapStep(t),
         NEW D, D \subseteq Owned(t), mapped' = mapped \ D, Owned(t)' = Owned(t) \ D
  PROVE  OwnershipInv'
PROOF
<1>1. \A v \in Threads \ {t} : Owned(v)' = Owned(v)
  BY OthersKept
<1>2. \A v \in Threads : Owned(v)' \subseteq Owned(v)
  BY <1>1
<1>3. ASSUME NEW v \in Threads PROVE Owned(v)' \subseteq mapped'
  <2>1. CASE v = t
    BY <2>1 DEF OwnershipInv
  <2>2. CASE v # t
    <3>1. Owned(v) \subseteq mapped /\ Owned(v) \cap Owned(t) = {}
      BY <2>2 DEF OwnershipInv
    <3> QED
      BY <1>1, <2>2, <3>1
  <2> QED
    BY <2>1, <2>2
<1>4. ASSUME NEW v \in Threads, NEW w \in Threads, v # w PROVE Owned(v)' \cap Owned(w)' = {}
  <2>1. Owned(v) \cap Owned(w) = {}
    BY <1>4 DEF OwnershipInv
  <2> QED
    BY <1>2, <2>1
<1>5. ASSUME NEW x \in mapped' PROVE \E v \in Threads : x \in Owned(v)'
  <2>1. PICK v \in Threads : x \in Owned(v)
    BY DEF OwnershipInv
  <2>2. x \in Owned(v)'
    BY <1>1, <2>1
  <2> QED
    BY <2>2
<1> QED
  BY <1>3, <1>4, <1>5 DEF OwnershipInv

\* A thread that owns nothing may take what nobody has.
LEMMA Takes ==
  ASSUME HeapTypes, OwnershipInv, NEW t \in Threads, HeapStep(t), Owned(t) = {},
         mapped' = mapped \cup Owned(t)', Owned(t)' \cap mapped = {}
  PROVE  OwnershipInv'
PROOF
<1>1. \A v \in Threads \ {t} : Owned(v)' = Owned(v)
  BY OthersKept
<1>2. \A v \in Threads \ {t} : Owned(v)' \subseteq mapped
  BY <1>1 DEF OwnershipInv
<1>3. ASSUME NEW v \in Threads PROVE Owned(v)' \subseteq mapped'
  BY <1>2
<1>4. ASSUME NEW v \in Threads, NEW w \in Threads, v # w PROVE Owned(v)' \cap Owned(w)' = {}
  <2>1. CASE v = t
    BY <1>2, <1>4, <2>1
  <2>2. CASE w = t
    BY <1>2, <1>4, <2>2
  <2>3. CASE v # t /\ w # t
    <3>1. Owned(v) \cap Owned(w) = {}
      BY <1>4 DEF OwnershipInv
    <3> QED
      BY <1>1, <2>3, <3>1
  <2> QED
    BY <2>1, <2>2, <2>3
<1>5. ASSUME NEW x \in mapped' PROVE \E v \in Threads : x \in Owned(v)'
  <2>1. CASE x \in mapped
    <3>1. PICK v \in Threads : x \in Owned(v)
      BY <2>1 DEF OwnershipInv
    <3> QED
      BY <1>1, <3>1
  <2> QED
    BY <2>1
<1> QED
  BY <1>3, <1>4, <1>5 DEF OwnershipInv

\* What a thread owns in this state, by its stage.
LEMMA OwnedAt ==
  ASSUME NEW t \in Threads
  PROVE  /\ pc[t] \in {"trim_front", "release"} =>
              Owned(t) = Region(unaligned[t], padded_length(t))
         /\ pc[t] = "trim_back" =>
              Owned(t) = data[t] .. unaligned[t] + RequestSize(padded_length(t)) - 1
         /\ pc[t] \in {"commit", "abandon", "live"} =>
              Owned(t) = Region(data[t], requested_length(t))
         /\ pc[t] \in {"idle", "reserve", "remap"} => Owned(t) = {}
PROOF
BY DEF Owned

\* And in the next state.
LEMMA OwnedAtNext ==
  ASSUME NEW t \in Threads
  PROVE  /\ pc'[t] \in {"trim_front", "release"} =>
              Owned(t)' = Region(unaligned'[t], padded_length(t)')
         /\ pc'[t] = "trim_back" =>
              Owned(t)' = data'[t] .. unaligned'[t] + RequestSize(padded_length(t)') - 1
         /\ pc'[t] \in {"commit", "abandon", "live"} =>
              Owned(t)' = Region(data'[t], requested_length(t)')
         /\ pc'[t] \in {"idle", "reserve", "remap"} => Owned(t)' = {}
PROOF
BY DEF Owned, Region, RequestSize, SizeT

\* The lengths do not change while the chosen capacity does not.
LEMMA LengthsKept ==
  ASSUME max_pages' = max_pages, NEW t \in Threads
  PROVE  padded_length(t)' = padded_length(t) /\ requested_length(t)' = requested_length(t)
PROOF
BY DEF padded_length, requested_length, compute_heap_reserve_space

\* What a step does to the address space: its thread gives back some of what it
\* owns, or takes what nobody has, or commits.
ReturnsPart(t) ==
  \E part \in SUBSET Owned(t) :
    /\ mapped' = mapped \ part
    /\ accessible' = accessible \ part
    /\ Owned(t)' = Owned(t) \ part
TakesFree(t) ==
  /\ Owned(t) = {}
  /\ Owned(t)' \cap mapped = {}
  /\ mapped' = mapped \cup Owned(t)'
  /\ accessible' = accessible
Commits(t) ==
  /\ Commit(t)
  /\ Owned(t)' = Owned(t)
  /\ mapped' = mapped

LEMMA StepEffect ==
  ASSUME PageSizesFit, HeapInv, NEW t \in Threads, HeapStep(t)
  PROVE  \/ pc'[t] # "live" /\ (ReturnsPart(t) \/ TakesFree(t))
         \/ Commits(t)
PROOF
<1> USE DEF HeapTypes
<1> DEFINE Effect == \/ pc'[t] # "live" /\ (ReturnsPart(t) \/ TakesFree(t))
                     \/ Commits(t)
<1>0. HeapTypes /\ PlacementInv /\ OwnershipInv
  BY DEF HeapInv
<1>1. ASSUME NextTry(t), UNCHANGED spaceVars, pc[t] \in {"reserve", "remap"}
      PROVE  Effect
  <2>1. mapped' = mapped /\ accessible' = accessible /\ pc'[t] \in {"idle", "reserve"}
    BY <1>0, <1>1 DEF NextTry, Return, Goto, spaceVars
  <2>2. Owned(t) = {} /\ Owned(t)' = {}
    BY <1>1, <2>1, OwnedAt, OwnedAtNext
  <2> QED
    BY <2>1, <2>2 DEF TakesFree
<1>2. CASE Create(t)
  <2>1. mapped' = mapped /\ accessible' = accessible /\ pc[t] = "idle" /\ pc'[t] = "reserve"
    BY <1>0, <1>2 DEF Create, Goto, spaceVars
  <2>2. Owned(t) = {} /\ Owned(t)' = {}
    BY <2>1, OwnedAt, OwnedAtNext
  <2> QED
    BY <2>1, <2>2 DEF TakesFree
<1>3. CASE Reserve(t)
  <2>1. PICK u \in Addresses :
          /\ SanityCheck(t, u, Aligned(u))
          /\ Map(Region(u, padded_length(t)))
          /\ unaligned' = [unaligned EXCEPT ![t] = u]
          /\ data' = [data EXCEPT ![t] = Aligned(u)]
    BY <1>3 DEF Reserve
  <2>2. /\ pc[t] = "reserve" /\ max_pages' = max_pages
        /\ unaligned'[t] = u /\ data'[t] = Aligned(u)
        /\ pc'[t] \in {"trim_front", "release"}
             \/ (pc'[t] = "commit" /\ WASM_HEAP_ALIGNMENT = 0)
    <3> DEFINE next == IF ~Windows THEN "trim_front"
                       ELSE IF WASM_HEAP_ALIGNMENT = 0 THEN "commit" ELSE "release"
    <3>1. next \in {"trim_front", "release"} \/ (next = "commit" /\ WASM_HEAP_ALIGNMENT = 0)
      OBVIOUS
    <3>2. pc[t] = "reserve" /\ max_pages' = max_pages /\ pc' = [pc EXCEPT ![t] = next]
      BY <1>3 DEF Reserve, Goto, argVars
    <3> HIDE DEF next
    <3> QED
      BY <1>0, <2>1, <3>1, <3>2
  <2>3. u \in Nat /\ Aligned(u) \in Nat
    BY AlignedType, HeapReservationAssumption DEF Addresses
  <2>4. WASM_HEAP_ALIGNMENT = 0 => Aligned(u) = u /\ padded_length(t) = requested_length(t)
    BY <1>0, <2>1, <2>3, UnpaddedLength, LengthTypes, HeapReservationAssumption DEF SanityCheck
  <2>5. Owned(t) = {}
    BY <2>2, OwnedAt
  <2>6. Owned(t)' = Region(u, padded_length(t))
    BY <2>2, <2>4, OwnedAtNext, LengthsKept
  <2>7. TakesFree(t)
    BY <2>1, <2>5, <2>6 DEF TakesFree, Map, Free
  <2> QED
    BY <2>2, <2>7
<1>4. CASE ReserveFails(t) \/ RemapFails(t)
  BY <1>1, <1>4 DEF ReserveFails, RemapFails
<1>5. CASE TrimFront(t)
  <2>1. /\ pc[t] = "trim_front" /\ pc'[t] = "trim_back"
        /\ max_pages' = max_pages /\ unaligned' = unaligned /\ data' = data
        /\ mapped' = mapped \ FrontTrim(t) /\ accessible' = accessible \ FrontTrim(t)
    BY <1>0, <1>5 DEF TrimFront, Goto, argVars, spaceVars, os_munmap, FrontTrim
  <2>2. Placed(t, unaligned[t], data[t])
    BY <1>0, <2>1 DEF PlacementInv
  <2>3. Owned(t) = Region(unaligned[t], padded_length(t))
    BY <2>1, OwnedAt
  <2>4. Owned(t)' = data[t] .. unaligned[t] + RequestSize(padded_length(t)) - 1
    BY <2>1, OwnedAtNext, LengthsKept
  <2>5. FrontTrim(t) \subseteq Owned(t) /\ Owned(t)' = Owned(t) \ FrontTrim(t)
    BY <1>0, <2>2, <2>3, <2>4, FrontTrimmed
  <2>6. ReturnsPart(t)
    BY <2>1, <2>5 DEF ReturnsPart
  <2> QED
    BY <2>1, <2>6
<1>6. CASE TrimBack(t)
  <2>1. /\ pc[t] = "trim_back" /\ pc'[t] = "commit"
        /\ max_pages' = max_pages /\ unaligned' = unaligned /\ data' = data
        /\ mapped' = mapped \ BackTrim(t) /\ accessible' = accessible \ BackTrim(t)
    BY <1>0, <1>6 DEF TrimBack, Goto, argVars, spaceVars, os_munmap, BackTrim
  <2>2. Placed(t, unaligned[t], data[t])
    BY <1>0, <2>1 DEF PlacementInv
  <2>3. Owned(t) = data[t] .. unaligned[t] + RequestSize(padded_length(t)) - 1
    BY <2>1, OwnedAt
  <2>4. Owned(t)' = Region(data[t], requested_length(t))
    BY <2>1, OwnedAtNext, LengthsKept
  <2>5. BackTrim(t) \subseteq Owned(t) /\ Owned(t)' = Owned(t) \ BackTrim(t)
    BY <1>0, <2>2, <2>3, <2>4, BackTrimmed
  <2>6. ReturnsPart(t)
    BY <2>1, <2>5 DEF ReturnsPart
  <2> QED
    BY <2>1, <2>6
<1>7. CASE Release(t)
  <2>1. /\ pc[t] = "release" /\ pc'[t] = "remap"
        /\ mapped' = mapped \ Region(unaligned[t], padded_length(t))
        /\ accessible' = accessible \ Region(unaligned[t], padded_length(t))
    BY <1>0, <1>7 DEF Release, Goto, os_munmap
  <2>2. Owned(t) = Region(unaligned[t], padded_length(t)) /\ Owned(t)' = {}
    BY <2>1, OwnedAt, OwnedAtNext
  <2>3. ReturnsPart(t)
    BY <2>1, <2>2 DEF ReturnsPart
  <2> QED
    BY <2>1, <2>3
<1>8. CASE Remap(t)
  <2>1. /\ pc[t] = "remap" /\ pc'[t] = "commit" /\ max_pages' = max_pages /\ data' = data
        /\ Map(Region(data[t], requested_length(t)))
    BY <1>0, <1>8 DEF Remap, Goto, argVars
  <2>2. Owned(t) = {} /\ Owned(t)' = Region(data[t], requested_length(t))
    BY <2>1, OwnedAt, OwnedAtNext, LengthsKept
  <2>3. TakesFree(t)
    BY <2>1, <2>2 DEF TakesFree, Map, Free
  <2> QED
    BY <2>1, <2>3
<1>9. CASE Commit(t) \/ CommitFails(t)
  <2>1. /\ pc[t] = "commit" /\ pc'[t] \in {"live", "abandon"}
        /\ max_pages' = max_pages /\ data' = data /\ mapped' = mapped
        /\ CommitFails(t) => accessible' = accessible /\ pc'[t] = "abandon"
    BY <1>0, <1>9 DEF Commit, CommitFails, Goto, argVars, spaceVars
  <2>2. Owned(t)' = Owned(t)
    BY <2>1, OwnedAt, OwnedAtNext, LengthsKept
  <2>3. CASE Commit(t)
    BY <2>1, <2>2, <2>3 DEF Commits
  <2>4. CASE CommitFails(t)
    <3>1. ReturnsPart(t)
      <4>1. /\ {} \in SUBSET Owned(t) /\ mapped' = mapped \ {}
            /\ accessible' = accessible \ {} /\ Owned(t)' = Owned(t) \ {}
        BY <2>1, <2>2, <2>4
      <4> QED
        BY <4>1 DEF ReturnsPart
    <3> QED
      BY <2>1, <2>4, <3>1
  <2> QED
    BY <1>9, <2>3, <2>4
<1>10. CASE Abandon(t) \/ Destroy(t)
  <2>1. /\ pc[t] \in {"abandon", "live"} /\ pc'[t] = "idle"
        /\ mapped' = mapped \ Region(data[t], requested_length(t))
        /\ accessible' = accessible \ Region(data[t], requested_length(t))
    BY <1>0, <1>10 DEF Abandon, Destroy, Return, Goto, os_munmap
  <2>2. Owned(t) = Region(data[t], requested_length(t)) /\ Owned(t)' = {}
    BY <2>1, OwnedAt, OwnedAtNext
  <2>3. ReturnsPart(t)
    BY <2>1, <2>2 DEF ReturnsPart
  <2> QED
    BY <2>1, <2>3
<1> QED
  BY <1>2, <1>3, <1>4, <1>5, <1>6, <1>7, <1>8, <1>9, <1>10 DEF HeapStep, CreateStep

\* Every step keeps ownership.
LEMMA StepOwnership ==
  ASSUME PageSizesFit, HeapInv, NEW t \in Threads, HeapStep(t)
  PROVE  OwnershipInv'
PROOF
<1>1. HeapTypes /\ OwnershipInv
  BY DEF HeapInv
<1>2. CASE ReturnsPart(t)
  <2>1. PICK part \in SUBSET Owned(t) :
          mapped' = mapped \ part /\ Owned(t)' = Owned(t) \ part
    BY <1>2 DEF ReturnsPart
  <2> QED
    BY <1>1, <2>1, GivesBack
<1>3. CASE TakesFree(t)
  BY <1>1, <1>3, Takes DEF TakesFree
<1>4. CASE Commits(t)
  BY <1>1, <1>4, OthersKept DEF Commits, OwnershipInv
<1> QED
  BY <1>2, <1>3, <1>4, StepEffect

-----------------------------------------------------------------------------
(***************************************************************************)
(* Results                                                                 *)
(***************************************************************************)
\* In every reachable state memory belongs to the threads as Owned says.
LEMMA HeapInvInductive ==
  ASSUME PageSizesFit
  PROVE  Spec => []HeapInv
PROOF
<1>1. Init => HeapInv
  BY DEF Init, HeapInv, HeapTypes, PlacementInv, OwnershipInv, Owned
<1>2. HeapInv /\ [Next]_vars => HeapInv'
  <2> SUFFICES ASSUME HeapInv, [Next]_vars PROVE HeapInv'
    OBVIOUS
  <2>1. CASE Next
    <3>1. PICK t \in Threads : HeapStep(t)
      BY <2>1 DEF Next, HeapStep
    <3> QED
      BY <3>1, StepTypes, StepPlacement, StepOwnership DEF HeapInv
  <2>2. CASE UNCHANGED vars
    BY <2>2
    DEF vars, spaceVars, argVars, HeapInv, HeapTypes, PlacementInv, OwnershipInv, Owned,
        Placed, SanityCheck, Region, padded_length, requested_length,
        compute_heap_reserve_space
  <2> QED
    BY <2>1, <2>2
<1> QED
  BY <1>1, <1>2, PTL DEF Spec

\* Whatever the other threads map and unmap between two system calls of a
\* create_wasm2c_memory, a memory it handed out stays whole, aligned and apart.
THEOREM LiveHeapsStayIntact ==
  ASSUME PageSizesFit
  PROVE  Spec => []LiveHeapsIntact
PROOF
<1>1. HeapInv => LiveHeapsIntact
  BY OwnedAt DEF HeapInv, PlacementInv, OwnershipInv, LiveHeapsIntact, Live, Heap
<1> QED
  BY <1>1, HeapInvInductive, PTL

\* Trimmed ends, failed tries and failed commits are all given back: when no
\* call is in progress, exactly the live memories are reserved.
THEOREM NothingLeaks ==
  ASSUME PageSizesFit
  PROVE  Spec => []NoLeak
PROOF
<1>1. HeapInv => NoLeak
  <2> SUFFICES ASSUME HeapInv, \A t \in Threads : pc[t] \in {"idle", "live"}
               PROVE  mapped = UNION {Heap(t) : t \in {u \in Threads : Live(u)}}
    BY DEF NoLeak
  <2>1. \A t \in Threads : Owned(t) = IF Live(t) THEN Heap(t) ELSE {}
    BY OwnedAt DEF Live, Heap
  <2>2. \A t \in Threads : Owned(t) \subseteq mapped
    BY DEF HeapInv, OwnershipInv
  <2>3. \A x \in mapped : \E t \in Threads : x \in Owned(t)
    BY DEF HeapInv, OwnershipInv
  <2> QED
    BY <2>1, <2>2, <2>3
<1> QED
  BY <1>1, HeapInvInductive, PTL

-----------------------------------------------------------------------------
(***************************************************************************)
(* Types, without any condition on the sizes                               *)
(***************************************************************************)
\* Windows commits pages of what was reserved, so that this is in the address
\* space; elsewhere the pages have to be mapped.
SpaceInv ==
  /\ TypeOK
  /\ \A t \in Threads : Windows =>
       /\ pc[t] \notin {"trim_front", "trim_back"}
       /\ pc[t] = "commit" => Region(data[t], requested_length(t)) \subseteq Addresses

\* What Reserve chooses lies in the address space, the first address behind it
\* at most.
LEMMA ReservedPlace ==
  ASSUME HeapTypes, NEW t \in Threads, NEW u \in Addresses, MayMap(padded_length(t)),
         SanityCheck(t, u, Aligned(u)), Free(Region(u, padded_length(t)))
  PROVE  u \in 0 .. AddressEnd /\ Aligned(u) \in 0 .. AddressEnd
PROOF
<1> DEFINE a == Aligned(u)
           pad == padded_length(t)
           R == RequestSize(pad)
<1>1. u \in Nat /\ a \in Nat /\ u >= 1 /\ u <= AddressEnd - 1 /\ AddressEnd \in Nat
  BY AlignedType, HeapReservationAssumption DEF Addresses
<1>2. pad \in Nat /\ requested_length(t) \in Nat
  BY LengthTypes, HeapReservationAssumption
<1>3. R >= pad /\ R \in Nat
  <2>1. OsPageSize \in Nat \ {0} /\ SIZE_MAX \in Nat
    BY HeapReservationAssumption
  <2>2. ((pad + OsPageSize - 1) \div OsPageSize) * OsPageSize \in Nat
    BY <1>2, <2>1
  <2> QED BY <2>1, <2>2 DEF MayMap, RequestSize, SizeT
<1>4. a + requested_length(t) <= u + pad
  BY DEF SanityCheck
<1>5. u .. u + R - 1 \subseteq 1 .. AddressEnd - 1
  BY DEF Free, Region, Addresses
<1> HIDE DEF a, pad, R
<1>6. u + R <= AddressEnd
  <2>1. CASE R = 0
    BY <1>1, <2>1
  <2>2. CASE R # 0
    <3>1. u + R - 1 \in u .. u + R - 1
      BY <1>1, <1>3, <2>2
    <3>2. u + R - 1 \in 1 .. AddressEnd - 1
      BY <1>5, <3>1
    <3> QED BY <1>1, <1>3, <3>2
  <2> QED BY <2>1, <2>2
<1>7. a \in 0 .. AddressEnd /\ u \in 0 .. AddressEnd
  BY <1>1, <1>2, <1>3, <1>4, <1>6
<1> QED
  BY <1>7 DEF a

LEMMA StepSpace ==
  ASSUME SpaceInv, NEW t \in Threads, HeapStep(t)
  PROVE  SpaceInv'
PROOF
<1> DEFINE Reserved(v) == Windows =>
             /\ pc[v] \notin {"trim_front", "trim_back"}
             /\ pc[v] = "commit" => Region(data[v], requested_length(v)) \subseteq Addresses
<1>1. /\ mapped \subseteq Addresses /\ accessible \subseteq Addresses
      /\ pc \in [Threads -> Stages] /\ min_capacity \in [Threads -> Nat]
      /\ initial_pages \in [Threads -> Nat] /\ max_pages \in [Threads -> Nat]
      /\ tries \in [Threads -> 0 .. Retries - 1]
      /\ unaligned \in [Threads -> 0 .. AddressEnd] /\ data \in [Threads -> 0 .. AddressEnd]
  BY DEF SpaceInv, TypeOK
<1>2. 0 \in 0 .. AddressEnd /\ 0 \in 0 .. Retries - 1 /\ Retries \in Nat
  BY HeapReservationAssumption
<1>3. HeapTypes
  BY <1>1, HeapReservationAssumption DEF HeapTypes
<1>4. HeapTypes'
  BY <1>3, StepTypes
<1>5. \A v \in Threads : Reserved(v)
  BY DEF SpaceInv
<1>6. \A v \in Threads \ {t} : Reserved(v)'
  <2> SUFFICES ASSUME NEW v \in Threads \ {t} PROVE Reserved(v)'
    OBVIOUS
  <2>1. pc'[v] = pc[v] /\ max_pages'[v] = max_pages[v] /\ data'[v] = data[v]
    BY <1>3, OthersKept
  <2>2. requested_length(v)' = requested_length(v)
    BY <2>1 DEF requested_length, compute_heap_reserve_space
  <2> QED
    BY <1>5, <2>1, <2>2 DEF Region, Addresses
<1> DEFINE Args == /\ min_capacity' \in [Threads -> Nat]
                   /\ initial_pages' \in [Threads -> Nat]
                   /\ tries' \in [Threads -> 0 .. Retries - 1]
                   /\ unaligned' \in [Threads -> 0 .. AddressEnd]
                   /\ data' \in [Threads -> 0 .. AddressEnd]
           Space == mapped' \subseteq Addresses /\ accessible' \subseteq Addresses
<1>7. ASSUME Args, Space, Reserved(t)' PROVE SpaceInv'
  <2>1. TypeOK'
    BY <1>4, <1>7 DEF TypeOK, HeapTypes, Addresses
  <2>2. \A v \in Threads : Reserved(v)'
    BY <1>6, <1>7
  <2> QED
    BY <2>1, <2>2 DEF SpaceInv, Addresses
<1>8. ASSUME Return(t) PROVE Args /\ pc'[t] = "idle"
  BY <1>1, <1>2, <1>8 DEF Return, Goto
<1>9. ASSUME NextTry(t) PROVE Args /\ pc'[t] \in {"idle", "reserve"}
  <2>1. CASE tries[t] + 1 < Retries
    <3>1. tries[t] + 1 \in 0 .. Retries - 1
      BY <1>1, <1>2, <2>1
    <3>2. tries' \in [Threads -> 0 .. Retries - 1]
      BY <1>1, <1>9, <2>1, <3>1 DEF NextTry
    <3> QED
      BY <1>1, <1>2, <1>9, <2>1, <3>2 DEF NextTry, Goto, argVars
  <2>2. CASE ~(tries[t] + 1 < Retries)
    BY <1>8, <1>9, <2>2 DEF NextTry
  <2> QED
    BY <2>1, <2>2
<1>10. CASE Create(t)
  <2>1. PICK min \in MinCapacities, pages \in InitialPages :
          /\ min_capacity' = [min_capacity EXCEPT ![t] = min]
          /\ initial_pages' = [initial_pages EXCEPT ![t] = pages]
    BY <1>10 DEF Create
  <2>2. min \in Nat /\ pages \in Nat
    BY HeapReservationAssumption
  <2>3. Args
    BY <1>1, <1>10, <2>1, <2>2 DEF Create
  <2>4. Space
    BY <1>1, <1>10 DEF Create, spaceVars
  <2>5. pc'[t] = "reserve"
    BY <1>1, <1>10 DEF Create, Goto
  <2> QED
    BY <1>7, <2>3, <2>4, <2>5
<1>11. CASE Reserve(t)
  <2>1. PICK u \in Addresses :
          /\ SanityCheck(t, u, Aligned(u))
          /\ Map(Region(u, padded_length(t)))
          /\ unaligned' = [unaligned EXCEPT ![t] = u]
          /\ data' = [data EXCEPT ![t] = Aligned(u)]
    BY <1>11 DEF Reserve
  <2>2. MayMap(padded_length(t)) /\ Free(Region(u, padded_length(t)))
    BY <1>11, <2>1 DEF Reserve, Map
  <2>3. u \in 0 .. AddressEnd /\ Aligned(u) \in 0 .. AddressEnd
    BY <1>3, <2>1, <2>2, ReservedPlace
  <2>4. max_pages' = max_pages /\ tries' = tries
        /\ min_capacity' = min_capacity /\ initial_pages' = initial_pages
    BY <1>11 DEF Reserve, argVars
  <2>5. Args
    BY <1>1, <2>1, <2>3, <2>4
  <2>6. Space
    BY <1>1, <2>1, <2>2 DEF Map, Free
  <2>7. Reserved(t)'
    <3> SUFFICES ASSUME Windows
                 PROVE  /\ pc'[t] \notin {"trim_front", "trim_back"}
                        /\ pc'[t] = "commit" =>
                             Region(data[t], requested_length(t))' \subseteq Addresses
      BY DEF Addresses
    <3>1. pc' = [pc EXCEPT ![t] = IF WASM_HEAP_ALIGNMENT = 0 THEN "commit" ELSE "release"]
      BY <1>11 DEF Reserve, Goto
    <3>2. pc'[t] \notin {"trim_front", "trim_back"}
      BY <1>1, <3>1
    <3>3. ASSUME pc'[t] = "commit"
          PROVE  Region(data[t], requested_length(t))' \subseteq Addresses
      <4>1. WASM_HEAP_ALIGNMENT = 0
        BY <1>1, <3>1, <3>3
      <4>2. u \in Nat /\ Aligned(u) \in Nat
        BY AlignedType, HeapReservationAssumption DEF Addresses
      <4>3. padded_length(t) = requested_length(t) /\ requested_length(t) \in Nat
        BY <1>3, <4>1, UnpaddedLength, LengthTypes, HeapReservationAssumption
      <4>4. Aligned(u) = u
        BY <2>1, <4>2, <4>3 DEF SanityCheck
      <4>5. data'[t] = u
        BY <1>1, <2>1, <4>4
      <4>6. requested_length(t)' = requested_length(t)
        BY <2>4, LengthsKept
      <4>7. Region(data[t], requested_length(t))' = Region(u, padded_length(t))
        BY <4>3, <4>5, <4>6 DEF Region, RequestSize, SizeT
      <4> QED
        BY <2>2, <4>7 DEF Free
    <3> QED
      BY <3>2, <3>3
  <2> QED
    BY <1>7, <2>5, <2>6, <2>7
<1>12. CASE ReserveFails(t) \/ RemapFails(t)
  <2>1. NextTry(t) /\ UNCHANGED spaceVars
    BY <1>12 DEF ReserveFails, RemapFails
  <2>2. Space
    BY <1>1, <2>1 DEF spaceVars
  <2> QED
    BY <1>7, <1>9, <2>1, <2>2
<1>13. CASE TrimFront(t)
  <2>1. ~Windows
    BY <1>5, <1>13 DEF TrimFront
  <2>2. Args
    BY <1>1, <1>13 DEF TrimFront, argVars
  <2>3. Space
    BY <1>1, <1>13 DEF TrimFront, spaceVars, os_munmap
  <2> QED
    BY <1>7, <2>1, <2>2, <2>3
<1>14. CASE TrimBack(t)
  <2>1. ~Windows
    BY <1>5, <1>14 DEF TrimBack
  <2>2. Args
    BY <1>1, <1>14 DEF TrimBack, argVars
  <2>3. Space
    BY <1>1, <1>14 DEF TrimBack, spaceVars, os_munmap
  <2> QED
    BY <1>7, <2>1, <2>2, <2>3
<1>15. CASE Release(t)
  <2>1. Args
    BY <1>1, <1>15 DEF Release, argVars
  <2>2. Space /\ pc'[t] = "remap"
    BY <1>1, <1>15 DEF Release, os_munmap, Goto
  <2> QED
    BY <1>7, <2>1, <2>2
<1>16. CASE Remap(t)
  <2>1. Args /\ max_pages' = max_pages /\ data' = data
    BY <1>1, <1>16 DEF Remap, argVars
  <2>2. Free(Region(data[t], requested_length(t)))
    BY <1>16 DEF Remap, Map
  <2>3. Space /\ pc'[t] = "commit"
    BY <1>1, <1>16, <2>2 DEF Remap, Map, Free, Goto
  <2>4. Region(data[t], requested_length(t))' = Region(data[t], requested_length(t))
    BY <2>1, LengthsKept DEF Region, RequestSize, SizeT
  <2>5. Region(data[t], requested_length(t))' \subseteq Addresses
    BY <2>2, <2>4 DEF Free
  <2>6. Reserved(t)'
    BY <2>3, <2>5 DEF Addresses
  <2> QED
    BY <1>7, <2>1, <2>3, <2>6
<1>17. CASE Commit(t)
  <2>1. Args
    BY <1>1, <1>17 DEF Commit, argVars
  <2>2. mapped' = mapped /\ pc'[t] = "live"
    BY <1>1, <1>17 DEF Commit, Goto
  <2>3. CommitRegion(t) \subseteq Addresses
    <3>1. CASE Windows
      BY <1>5, <1>17, <3>1 DEF Commit, MayCommit
    <3>2. CASE ~Windows
      BY <1>1, <1>17, <3>2 DEF Commit, MayCommit
    <3> QED
      BY <3>1, <3>2
  <2>4. Space
    BY <1>1, <1>17, <2>2, <2>3 DEF Commit
  <2> QED
    BY <1>7, <2>1, <2>2, <2>4
<1>18. CASE CommitFails(t)
  <2>1. Args
    BY <1>1, <1>18 DEF CommitFails, argVars
  <2>2. Space /\ pc'[t] = "abandon"
    BY <1>1, <1>18 DEF CommitFails, spaceVars, Goto
  <2> QED
    BY <1>7, <2>1, <2>2
<1>19. CASE Abandon(t) \/ Destroy(t)
  <2>1. Return(t) /\ Space
    BY <1>1, <1>19 DEF Abandon, Destroy, os_munmap
  <2> QED
    BY <1>7, <1>8, <2>1
<1> QED
  BY <1>10, <1>11, <1>12, <1>13, <1>14, <1>15, <1>16, <1>17, <1>18, <1>19
  DEF HeapStep, CreateStep

\* Every address, count and stage stays in its range, whatever the sizes: the
\* process reserves and commits only addresses it has, no pointer wraps, and a
\* round of the retry loop beyond the last never begins.
THEOREM HeapTypeCorrect == Spec => []TypeOK
PROOF
<1>1. Init => SpaceInv
  BY HeapReservationAssumption DEF Init, SpaceInv, TypeOK
<1>2. SpaceInv /\ [Next]_vars => SpaceInv'
  <2> SUFFICES ASSUME SpaceInv, [Next]_vars PROVE SpaceInv'
    OBVIOUS
  <2>1. CASE Next
    BY <2>1, StepSpace DEF Next, HeapStep
  <2>2. CASE UNCHANGED vars
    BY <2>2
    DEF vars, spaceVars, argVars, SpaceInv, TypeOK, Addresses, Region, RequestSize, SizeT,
        requested_length, compute_heap_reserve_space
  <2> QED
    BY <2>1, <2>2
<1>3. SpaceInv => TypeOK
  BY DEF SpaceInv
<1> QED
  BY <1>1, <1>2, <1>3, PTL DEF Spec

-----------------------------------------------------------------------------
(***************************************************************************)
(* Sizes.  On a 32-bit platform create_wasm2c_memory checks neither the    *)
(* reservation of a large capacity nor the initial pages against the       *)
(* capacity; what it promises of a memory holds for arguments that fit.    *)
(***************************************************************************)
\* What a call works with, and that its reservation was not cut short by a size
\* that wrapped.
ArgumentsInv ==
  \A t \in Threads :
    /\ pc[t] # "idle" =>
         /\ \E capacity \in ValidCapacities : max_pages[t] = capacity.max_pages
         /\ initial_pages[t] \in InitialPages
    /\ pc[t] \notin {"idle", "reserve"} =>
         RequestSize(requested_length(t)) >= requested_length(t)

\* A reservation with room for the padding has room for what was requested.
LEMMA RequestFits ==
  ASSUME HeapTypes, PageSizesFit, NEW t \in Threads, MayMap(padded_length(t))
  PROVE  RequestSize(requested_length(t)) >= requested_length(t)
PROOF
<1>1. requested_length(t) \in 0 .. SIZE_MAX /\ SIZE_MAX \in Nat
  BY LengthTypes, HeapReservationAssumption
<1>2. CASE WASM_HEAP_ALIGNMENT = 0
  BY <1>2, UnpaddedLength DEF MayMap
<1>3. CASE WASM_HEAP_ALIGNMENT # 0
  <2>1. RequestSize(requested_length(t)) = requested_length(t)
    BY <1>1, <1>3, LengthsAreWholePages, RequestSizeOfPages
  <2> QED
    BY <1>1, <2>1
<1> QED
  BY <1>2, <1>3

\* A step of one thread leaves the initial pages of another alone.
LEMMA InitialPagesKept ==
  ASSUME TypeOK, NEW t \in Threads, HeapStep(t), NEW v \in Threads \ {t}
  PROVE  initial_pages'[v] = initial_pages[v]
PROOF
<1> USE DEF TypeOK
<1>1. ASSUME NextTry(t) PROVE initial_pages'[v] = initial_pages[v]
  BY <1>1 DEF NextTry, Return, argVars
<1>2. CASE Create(t)
  BY <1>2 DEF Create
<1>3. CASE Reserve(t) \/ TrimFront(t) \/ TrimBack(t) \/ Release(t)
  BY <1>3 DEF Reserve, TrimFront, TrimBack, Release, argVars
<1>4. CASE ReserveFails(t) \/ RemapFails(t)
  BY <1>1, <1>4 DEF ReserveFails, RemapFails
<1>5. CASE Remap(t) \/ Commit(t) \/ CommitFails(t)
  BY <1>5 DEF Remap, Commit, CommitFails, argVars
<1>6. CASE Abandon(t) \/ Destroy(t)
  BY <1>6 DEF Abandon, Destroy, Return
<1> QED
  BY <1>2, <1>3, <1>4, <1>5, <1>6 DEF HeapStep, CreateStep

LEMMA StepArguments ==
  ASSUME PageSizesFit, TypeOK, HeapTypes, ArgumentsInv, NEW t \in Threads, HeapStep(t)
  PROVE  ArgumentsInv'
PROOF
<1> DEFINE Fit(v) ==
      /\ pc[v] # "idle" =>
           /\ \E capacity \in ValidCapacities : max_pages[v] = capacity.max_pages
           /\ initial_pages[v] \in InitialPages
      /\ pc[v] \notin {"idle", "reserve"} =>
           RequestSize(requested_length(v)) >= requested_length(v)
<1>1. \A v \in Threads : Fit(v)
  BY DEF ArgumentsInv
<1>2. ASSUME NEW v \in Threads, pc[v] # "idle", pc'[v] # "idle",
             pc[v] # "reserve" \/ pc'[v] = "reserve",
             max_pages'[v] = max_pages[v], initial_pages'[v] = initial_pages[v]
      PROVE  Fit(v)'
  <2>1. RequestSize(requested_length(v))' = RequestSize(requested_length(v))
        /\ requested_length(v)' = requested_length(v)
    BY <1>2 DEF requested_length, compute_heap_reserve_space, RequestSize, SizeT
  <2> QED
    BY <1>1, <1>2, <2>1 DEF ValidCapacities
<1>3. ASSUME NEW v \in Threads \ {t} PROVE Fit(v)'
  <2>1. /\ pc'[v] = pc[v] /\ max_pages'[v] = max_pages[v]
        /\ initial_pages'[v] = initial_pages[v]
    BY OthersKept, InitialPagesKept
  <2>2. CASE pc[v] = "idle"
    BY <2>1, <2>2
  <2> QED
    BY <1>2, <2>1, <2>2
<1>4. Fit(t)'
  <2> USE DEF TypeOK
  <2>1. CASE Create(t)
    <3>1. PICK min \in MinCapacities, pages \in InitialPages :
            /\ get_valid_wasm2c_memory_capacity(min).is_valid
            /\ initial_pages' = [initial_pages EXCEPT ![t] = pages]
            /\ max_pages' = [max_pages EXCEPT
                               ![t] = get_valid_wasm2c_memory_capacity(min).max_pages]
      BY <2>1 DEF Create
    <3>2. pc'[t] = "reserve" /\ initial_pages'[t] = pages
      BY <2>1, <3>1 DEF Create, Goto
    <3>3. \E capacity \in ValidCapacities : max_pages'[t] = capacity.max_pages
      BY <3>1 DEF ValidCapacities
    <3> QED
      BY <3>2, <3>3 DEF ValidCapacities
  <2>2. CASE Reserve(t)
    <3>1. /\ pc[t] = "reserve" /\ pc'[t] # "idle" /\ MayMap(padded_length(t))
          /\ max_pages' = max_pages /\ initial_pages' = initial_pages
      BY <2>2 DEF Reserve, Goto, argVars
    <3>2. RequestSize(requested_length(t)) >= requested_length(t)
      BY <3>1, RequestFits
    <3>3. RequestSize(requested_length(t))' = RequestSize(requested_length(t))
          /\ requested_length(t)' = requested_length(t)
      BY <3>1 DEF requested_length, compute_heap_reserve_space, RequestSize, SizeT
    <3> QED
      BY <1>1, <3>1, <3>2, <3>3 DEF ValidCapacities
  <2>3. ASSUME Return(t) PROVE Fit(t)'
    BY <2>3 DEF Return, Goto
  <2>4. ASSUME NextTry(t), pc[t] \in {"reserve", "remap"} PROVE Fit(t)'
    <3>1. CASE Return(t)
      BY <2>3, <3>1
    <3>2. CASE Goto(t, "reserve") /\ UNCHANGED argVars
      BY <1>2, <2>4, <3>2 DEF Goto, argVars
    <3> QED
      BY <2>4, <3>1, <3>2 DEF NextTry
  <2>5. CASE ReserveFails(t) \/ RemapFails(t)
    BY <2>4, <2>5 DEF ReserveFails, RemapFails
  <2>6. CASE TrimFront(t) \/ TrimBack(t) \/ Release(t)
    BY <1>2, <2>6 DEF TrimFront, TrimBack, Release, Goto, argVars
  <2>7. CASE Remap(t) \/ Commit(t) \/ CommitFails(t)
    BY <1>2, <2>7 DEF Remap, Commit, CommitFails, Goto, argVars
  <2>8. CASE Abandon(t) \/ Destroy(t)
    BY <2>3, <2>8 DEF Abandon, Destroy
  <2> QED
    BY <2>1, <2>2, <2>5, <2>6, <2>7, <2>8 DEF HeapStep, CreateStep
<1> QED
  BY <1>3, <1>4 DEF ArgumentsInv

\* The size of a reservation, as a number without a limit.
LEMMA SpaceIsExact ==
  ASSUME CapacitiesFit, TypeOK, HeapTypes, ArgumentsInv,
         NEW t \in Threads, pc[t] \notin {"idle", "reserve"}
  PROVE  /\ requested_length(t) = max_pages[t] * WASM_PAGE_SIZE + WASM_HEAP_GUARD_PAGE_SIZE
         /\ RequestSize(requested_length(t)) >= requested_length(t)
         /\ RequestSize(requested_length(t)) \in Nat
PROOF
<1>1. /\ UINT32_MAX \in Nat /\ SIZE_MAX \in Nat /\ WASM_PAGE_SIZE \in Nat
      /\ WASM_HEAP_GUARD_PAGE_SIZE \in Nat /\ OsPageSize \in Nat \ {0}
      /\ max_pages[t] \in Nat
  BY HeapReservationAssumption DEF TypeOK
<1>2. /\ max_pages[t] <= UINT32_MAX
      /\ max_pages[t] * WASM_PAGE_SIZE + WASM_HEAP_GUARD_PAGE_SIZE <= SIZE_MAX
  BY <1>1 DEF ArgumentsInv, CapacitiesFit
<1>3. requested_length(t) \in Nat /\ RequestSize(requested_length(t)) >= requested_length(t)
  BY <1>1, LengthTypes DEF ArgumentsInv
<1>4. Uint32(max_pages[t]) = max_pages[t]
  <2>1. max_pages[t] \in 0 .. UINT32_MAX
    BY <1>1, <1>2
  <2> QED
    BY <1>1, <2>1 DEF Uint32
<1> DEFINE space == max_pages[t] * WASM_PAGE_SIZE + WASM_HEAP_GUARD_PAGE_SIZE
<1>5. space \in 0 .. SIZE_MAX /\ requested_length(t) = SizeT(space)
  BY <1>1, <1>2, <1>4 DEF requested_length, compute_heap_reserve_space
<1> HIDE DEF space
<1>6. requested_length(t) = space
  BY <1>1, <1>5 DEF SizeT
<1>7. RequestSize(requested_length(t)) \in Nat
  <2>1. ((requested_length(t) + OsPageSize - 1) \div OsPageSize) * OsPageSize \in Nat
    BY <1>1, <1>3
  <2> QED
    BY <1>1, <2>1 DEF RequestSize, SizeT
<1> QED
  BY <1>3, <1>6, <1>7 DEF space

\* Of a memory whose arguments fit, the initial pages are what is committed.
LEMMA SizesAreExact ==
  ASSUME CapacitiesFit, InitialPagesFit, TypeOK, HeapTypes, ArgumentsInv,
         NEW t \in Threads, pc[t] \notin {"idle", "reserve"}
  PROVE  /\ initial_pages[t] * WASM_PAGE_SIZE <= max_pages[t] * WASM_PAGE_SIZE
         /\ byte_length(t) = initial_pages[t] * WASM_PAGE_SIZE
         /\ RequestSize(byte_length(t)) = byte_length(t)
         /\ CommitRegion(t) = Region(data[t], byte_length(t))
PROOF
<1>1. /\ UINT32_MAX \in Nat /\ SIZE_MAX \in Nat /\ UINT32_MAX <= SIZE_MAX
      /\ WASM_PAGE_SIZE \in Nat \ {0} /\ OsPageSize \in Nat \ {0}
      /\ max_pages[t] \in Nat /\ initial_pages[t] \in Nat
  BY HeapReservationAssumption DEF TypeOK
<1> DEFINE most == max_pages[t]
           pages == initial_pages[t]
           P == WASM_PAGE_SIZE
<1>2. pages <= most /\ pages * P <= UINT32_MAX /\ (Windows => pages > 0)
  BY <1>1 DEF ArgumentsInv, InitialPagesFit
<1>3. byte_length(t) = Uint32(pages * P)
  BY DEF byte_length
<1> HIDE DEF most, pages, P
<1>4. most \in Nat /\ pages \in Nat /\ P \in Nat \ {0}
  BY <1>1 DEF most, pages, P
<1> DEFINE x == most * P
           y == pages * P
<1>5. x \in Nat /\ y \in Nat /\ y <= x /\ y <= UINT32_MAX
  BY <1>2, <1>4
<1>6. P % OsPageSize = 0
  BY DEF InitialPagesFit, P
<1>7. y % OsPageSize = 0
  BY <1>1, <1>4, <1>6, ProductOfMultiple
<1>8. byte_length(t) = Uint32(y)
  BY <1>3
<1>9. y = 0 => pages = 0
  BY <1>4
<1> HIDE DEF x, y
<1>10. byte_length(t) = y
  BY <1>1, <1>5, <1>8 DEF Uint32
<1>11. y \in 0 .. SIZE_MAX
  BY <1>1, <1>5
<1>12. RequestSize(byte_length(t)) = byte_length(t)
  BY <1>7, <1>10, <1>11, RequestSizeOfPages
<1>13. CommitRegion(t) = Region(data[t], byte_length(t))
  <2>1. ~(Windows /\ byte_length(t) = 0)
    BY <1>2, <1>4, <1>9, <1>10
  <2> QED
    BY <2>1 DEF CommitRegion
<1>14. x = max_pages[t] * WASM_PAGE_SIZE /\ y = initial_pages[t] * WASM_PAGE_SIZE
  BY DEF x, y, most, pages, P
<1> QED
  BY <1>5, <1>10, <1>12, <1>13, <1>14

\* So the committed part and the guard are within the reservation, apart.
LEMMA PartsOfHeap ==
  ASSUME CapacitiesFit, InitialPagesFit, TypeOK, HeapTypes, ArgumentsInv,
         NEW t \in Threads, pc[t] \notin {"idle", "reserve"}
  PROVE  /\ CommitRegion(t) = data[t] .. data[t] + initial_pages[t] * WASM_PAGE_SIZE - 1
         /\ CommitRegion(t) = Region(data[t], initial_pages[t] * WASM_PAGE_SIZE)
         /\ CommitRegion(t) \subseteq data[t] .. (data[t] + max_pages[t] * WASM_PAGE_SIZE) - 1
         /\ data[t] .. data[t] + max_pages[t] * WASM_PAGE_SIZE + WASM_HEAP_GUARD_PAGE_SIZE - 1
              \subseteq Heap(t)
         /\ CommitRegion(t) \subseteq Heap(t)
PROOF
<1> DEFINE d == data[t]
           x == max_pages[t] * WASM_PAGE_SIZE
           y == initial_pages[t] * WASM_PAGE_SIZE
           G == WASM_HEAP_GUARD_PAGE_SIZE
           R == RequestSize(requested_length(t))
<1>1. R >= x + G /\ R \in Nat /\ y <= x /\ RequestSize(y) = y
      /\ CommitRegion(t) = Region(d, y)
  BY SpaceIsExact, SizesAreExact
<1>2. d \in Nat /\ G \in Nat /\ x \in Nat /\ y \in Nat
  BY HeapReservationAssumption DEF HeapTypes, TypeOK
<1>3. Heap(t) = d .. d + R - 1
  BY DEF Heap, Region
<1> HIDE DEF d, x, y, G, R
<1>4. CommitRegion(t) = d .. d + y - 1
  BY <1>1 DEF Region
<1>5. /\ d .. d + y - 1 \subseteq d .. (d + x) - 1
      /\ d .. d + x + G - 1 \subseteq d .. d + R - 1
      /\ d .. d + y - 1 \subseteq d .. d + R - 1
  BY <1>1, <1>2
<1>6. /\ CommitRegion(t) \subseteq d .. (d + x) - 1
      /\ d .. d + x + G - 1 \subseteq Heap(t)
      /\ CommitRegion(t) \subseteq Heap(t)
  BY <1>3, <1>4, <1>5
<1> QED
  BY ONLY <1>1, <1>4, <1>6 DEF d, x, y, G

\* Exactly what live memories have committed is accessible.
AccessInv ==
  /\ accessible \subseteq mapped
  /\ \A t \in Threads :
       accessible \cap Owned(t) = IF Live(t) THEN CommitRegion(t) ELSE {}

LEMMA StepAccess ==
  ASSUME PageSizesFit, CapacitiesFit, InitialPagesFit, TypeOK, HeapInv, ArgumentsInv,
         AccessInv, NEW t \in Threads, HeapStep(t)
  PROVE  AccessInv'
PROOF
<1> DEFINE Access(v) == accessible \cap Owned(v) = IF Live(v) THEN CommitRegion(v) ELSE {}
<1>1. HeapTypes /\ OwnershipInv /\ OwnershipInv'
  BY StepOwnership DEF HeapInv
<1>2. accessible \subseteq mapped /\ \A v \in Threads : Access(v)
  BY DEF AccessInv
<1>3. ASSUME NEW v \in Threads \ {t}, accessible' \cap Owned(v) = accessible \cap Owned(v)
      PROVE  Access(v)'
  <2>1. /\ Owned(v)' = Owned(v) /\ pc'[v] = pc[v] /\ data'[v] = data[v]
        /\ initial_pages'[v] = initial_pages[v]
    BY <1>1, OthersKept, InitialPagesKept
  <2>2. CommitRegion(v)' = CommitRegion(v)
    BY <2>1 DEF CommitRegion, Region, byte_length
  <2> QED
    BY <1>2, <1>3, <2>1, <2>2 DEF Live
<1>4. \A v \in Threads \ {t} : Owned(v) \cap Owned(t) = {} /\ Owned(v) \subseteq mapped
  BY <1>1 DEF OwnershipInv
<1>5. CASE ReturnsPart(t) /\ pc'[t] # "live"
  <2>1. PICK part \in SUBSET Owned(t) :
          /\ mapped' = mapped \ part /\ accessible' = accessible \ part
          /\ Owned(t)' = Owned(t) \ part
    BY <1>5 DEF ReturnsPart
  <2>2. \A v \in Threads \ {t} : Access(v)'
    BY <1>3, <1>4, <2>1
  <2>3. Access(t)'
    <3>1. CASE ~Live(t)
      BY <1>2, <1>5, <2>1, <3>1 DEF Live
    <3>2. CASE Live(t)
      <4>1. Owned(t)' = {}
        <5>1. Destroy(t)
          BY <3>2 DEF Live, HeapStep, CreateStep, Create, Reserve, ReserveFails, TrimFront,
                      TrimBack, Release, Remap, RemapFails, Commit, CommitFails, Abandon
        <5>2. pc'[t] = "idle"
          BY <1>1, <5>1 DEF Destroy, Return, Goto, HeapTypes
        <5> QED
          BY <5>2, OwnedAtNext
      <4> QED
        BY <1>5, <4>1 DEF Live
    <3> QED
      BY <3>1, <3>2
  <2>4. accessible' \subseteq mapped'
    BY <1>2, <2>1
  <2> QED
    BY <2>2, <2>3, <2>4 DEF AccessInv
<1>6. CASE TakesFree(t) /\ pc'[t] # "live"
  <2>1. \A v \in Threads \ {t} : Access(v)'
    BY <1>3, <1>6 DEF TakesFree
  <2>2. Access(t)'
    BY <1>2, <1>6 DEF TakesFree, Live
  <2>3. accessible' \subseteq mapped'
    BY <1>2, <1>6 DEF TakesFree
  <2> QED
    BY <2>1, <2>2, <2>3 DEF AccessInv
<1>7. CASE Commits(t)
  <2>1. /\ pc[t] = "commit" /\ pc'[t] = "live" /\ data' = data
        /\ initial_pages' = initial_pages
        /\ accessible' = accessible \cup CommitRegion(t)
        /\ Owned(t)' = Owned(t) /\ mapped' = mapped
    BY <1>1, <1>7 DEF Commits, Commit, Goto, argVars, HeapTypes
  <2>2. CommitRegion(t) \subseteq Owned(t)
    BY <1>1, <2>1, PartsOfHeap, OwnedAt DEF Heap
  <2>3. \A v \in Threads \ {t} : Access(v)'
    BY <1>3, <1>4, <2>1, <2>2
  <2>4. CommitRegion(t)' = CommitRegion(t)
    BY <2>1 DEF CommitRegion, Region, byte_length
  <2>5. accessible \cap Owned(t) = {}
    BY <1>2, <2>1 DEF Live
  <2>6. Access(t)'
    BY <2>1, <2>2, <2>4, <2>5 DEF Live
  <2>7. accessible' \subseteq mapped'
    BY <1>1, <1>2, <2>1, <2>2 DEF OwnershipInv
  <2> QED
    BY <2>3, <2>6, <2>7 DEF AccessInv
<1> QED
  BY <1>5, <1>6, <1>7, StepEffect

\* Sizes are right whenever the capacities fit, whatever the initial pages.
LEMMA ArgumentsInductive ==
  ASSUME PageSizesFit
  PROVE  Spec => []ArgumentsInv
PROOF
<1>1. Init => ArgumentsInv
  BY DEF Init, ArgumentsInv
<1>2. ArgumentsInv /\ TypeOK /\ HeapInv /\ [Next]_vars => ArgumentsInv'
  <2> SUFFICES ASSUME ArgumentsInv, TypeOK, HeapInv, [Next]_vars PROVE ArgumentsInv'
    OBVIOUS
  <2>1. CASE Next
    BY <2>1, StepArguments DEF Next, HeapStep, HeapInv
  <2>2. CASE UNCHANGED vars
    BY <2>2
    DEF vars, argVars, ArgumentsInv, ValidCapacities, requested_length,
        compute_heap_reserve_space, RequestSize, SizeT
  <2> QED
    BY <2>1, <2>2
<1> QED
  BY <1>1, <1>2, HeapTypeCorrect, HeapInvInductive, PTL DEF Spec

\* The runtime reserves enough space for the whole program: every memory it
\* hands out has its max_pages pages and the guard behind them reserved.
THEOREM WholeProgramFits ==
  ASSUME PageSizesFit, CapacitiesFit
  PROVE  Spec => []WholeProgramReserved
PROOF
<1>1. TypeOK /\ HeapInv /\ ArgumentsInv => WholeProgramReserved
  <2> SUFFICES ASSUME TypeOK, HeapInv, ArgumentsInv, NEW t \in Threads, Live(t)
               PROVE  data[t] .. data[t] + max_pages[t] * WASM_PAGE_SIZE
                                         + WASM_HEAP_GUARD_PAGE_SIZE - 1 \subseteq Heap(t)
    BY DEF WholeProgramReserved
  <2> DEFINE d == data[t]
             x == max_pages[t] * WASM_PAGE_SIZE
             G == WASM_HEAP_GUARD_PAGE_SIZE
             R == RequestSize(requested_length(t))
  <2>1. R >= x + G /\ R \in Nat
    BY SpaceIsExact DEF Live, HeapInv
  <2>2. d \in Nat /\ x \in Nat /\ G \in Nat
    BY HeapReservationAssumption DEF HeapInv, HeapTypes
  <2>3. Heap(t) = d .. d + R - 1
    BY DEF Heap, Region
  <2> HIDE DEF d, x, G, R
  <2>4. d .. d + x + G - 1 \subseteq Heap(t)
    BY <2>1, <2>2, <2>3
  <2> QED
    BY ONLY <2>4 DEF d, x, G
<1> QED
  BY <1>1, HeapTypeCorrect, HeapInvInductive, ArgumentsInductive, PTL

\* Exactly what the live memories committed is accessible in every state.
LEMMA AccessInductive ==
  ASSUME PageSizesFit, CapacitiesFit, InitialPagesFit
  PROVE  Spec => []AccessInv
PROOF
<1>1. Init => AccessInv
  BY DEF Init, AccessInv, Owned, Live
<1>2. AccessInv /\ TypeOK /\ HeapInv /\ ArgumentsInv /\ [Next]_vars => AccessInv'
  <2> SUFFICES ASSUME AccessInv, TypeOK, HeapInv, ArgumentsInv, [Next]_vars
               PROVE  AccessInv'
    OBVIOUS
  <2>1. CASE Next
    BY <2>1, StepAccess DEF Next, HeapStep
  <2>2. CASE UNCHANGED vars
    BY <2>2
    DEF vars, spaceVars, argVars, AccessInv, Owned, Live, CommitRegion, Region, RequestSize,
        SizeT, byte_length, Uint32, padded_length, requested_length,
        compute_heap_reserve_space
  <2> QED
    BY <2>1, <2>2
<1> QED
  BY <1>1, <1>2, HeapTypeCorrect, HeapInvInductive, ArgumentsInductive, PTL DEF Spec

\* Neither a commit of its own thread nor the mprotect of a neighbour makes
\* more of a live memory accessible than its initial pages: the rest of the heap
\* and the guard region behind it stay without permission.
THEOREM GuardStaysInaccessible ==
  ASSUME PageSizesFit, CapacitiesFit, InitialPagesFit
  PROVE  Spec => []GuardInaccessible
PROOF
<1>1. AccessInv /\ TypeOK /\ HeapInv /\ ArgumentsInv => GuardInaccessible
  <2> SUFFICES ASSUME AccessInv, TypeOK, HeapInv, ArgumentsInv, NEW t \in Threads, Live(t)
               PROVE  LET heap_end == data[t] + max_pages[t] * WASM_PAGE_SIZE
                      IN  /\ accessible \cap Heap(t)
                               = Region(data[t], initial_pages[t] * WASM_PAGE_SIZE)
                          /\ accessible \cap (heap_end .. heap_end + WASM_HEAP_GUARD_PAGE_SIZE - 1)
                               = {}
    BY DEF GuardInaccessible
  <2> DEFINE heap_end == data[t] + max_pages[t] * WASM_PAGE_SIZE
             guard == heap_end .. heap_end + WASM_HEAP_GUARD_PAGE_SIZE - 1
  <2>1. pc[t] \notin {"idle", "reserve"} /\ HeapTypes
    BY DEF Live, HeapInv
  <2>2. /\ CommitRegion(t) = Region(data[t], initial_pages[t] * WASM_PAGE_SIZE)
        /\ CommitRegion(t) \subseteq data[t] .. heap_end - 1
        /\ data[t] .. heap_end + WASM_HEAP_GUARD_PAGE_SIZE - 1 \subseteq Heap(t)
    BY <2>1, PartsOfHeap
  <2>3. accessible \cap Heap(t) = CommitRegion(t)
    BY OwnedAt DEF AccessInv, Live, Heap
  <2>4. data[t] \in Nat /\ max_pages[t] * WASM_PAGE_SIZE \in Nat
        /\ heap_end \in Nat /\ heap_end >= data[t] /\ WASM_HEAP_GUARD_PAGE_SIZE \in Nat
    BY HeapReservationAssumption, <2>1 DEF HeapTypes
  <2> HIDE DEF heap_end
  <2>5. guard \subseteq Heap(t) /\ guard \cap (data[t] .. heap_end - 1) = {}
    BY <2>2, <2>4
  <2>6. accessible \cap guard = {}
    BY <2>2, <2>3, <2>5
  <2> QED
    BY <2>2, <2>3, <2>6 DEF heap_end
<1> QED
  BY <1>1, AccessInductive, HeapTypeCorrect, HeapInvInductive, ArgumentsInductive, PTL
=============================================================================

-------------------------- MODULE HeapReservation --------------------------
(***************************************************************************)
(* The linear memories of src/wasm2c_rt_mem.c.  Each thread of the         *)
(* application creates and destroys the memory of its own sandbox; all of  *)
(* them share the address space of the process, so that another thread's   *)
(* mmap, munmap or mprotect may come between any two system calls of one   *)
(* create_wasm2c_memory.  One action is one system call, with the          *)
(* computations around it.  Sizes and addresses are scaled down; the       *)
(* macros of the file are constants, and UINT32_MAX and SIZE_MAX keep the  *)
(* widths of uint32_t and size_t.                                          *)
(***************************************************************************)
EXTENDS Integers

CONSTANTS
  Threads,
  Windows,                      \* whether the _WIN32 half of the file is built
  UINT32_MAX,
  SIZE_MAX,
  WASM_PAGE_SIZE,
  WASM_HEAP_GUARD_PAGE_SIZE,
  WASM_HEAP_ALIGNMENT,
  WASM_HEAP_DEFAULT_MAX_PAGES,
  OsPageSize,                   \* os_getpagesize()
  MmapLimit,                    \* the 16 GiB of the sanity check in os_mmap
  AddressEnd,                   \* the process has the addresses 1 .. AddressEnd - 1
  Retries,                      \* retries, 10 in the code
  MinCapacities,                \* arguments of get_valid_wasm2c_memory_capacity
  InitialPages                  \* arguments initial_pages of create_wasm2c_memory

ASSUME HeapReservationAssumption ==
  /\ Windows \in BOOLEAN
  /\ UINT32_MAX \in Nat \ {0} /\ SIZE_MAX \in Nat \ {0} /\ UINT32_MAX <= SIZE_MAX
  /\ WASM_PAGE_SIZE \in Nat \ {0, 1}
  /\ WASM_HEAP_GUARD_PAGE_SIZE \in Nat
  /\ WASM_HEAP_ALIGNMENT \in Nat
  /\ WASM_HEAP_DEFAULT_MAX_PAGES \in Nat \ {0}
  /\ OsPageSize \in Nat \ {0}
  /\ MmapLimit \in Nat /\ AddressEnd \in Nat /\ AddressEnd <= SIZE_MAX
  /\ Retries \in Nat \ {0}
  /\ MinCapacities \subseteq Nat /\ InitialPages \subseteq Nat

\* What the trimming of an aligned reservation rests on: the alignment, the
\* heap pages, the guard and the range of size_t are whole pages of the
\* operating system.  Without alignment nothing is trimmed.
PageSizesFit ==
  WASM_HEAP_ALIGNMENT # 0 =>
    /\ WASM_HEAP_ALIGNMENT % OsPageSize = 0
    /\ WASM_PAGE_SIZE % OsPageSize = 0
    /\ WASM_HEAP_GUARD_PAGE_SIZE % OsPageSize = 0
    /\ (SIZE_MAX + 1) % OsPageSize = 0

VARIABLES
  mapped,         \* addresses of the process that are reserved
  accessible,     \* addresses with read and write permission
  pc,             \* where each thread is
  min_capacity,   \* what the application asked for
  initial_pages,  \* its argument of create_wasm2c_memory
  max_pages,      \* chosen_max_pages, then memory->max_pages
  tries,          \* failed rounds of the retry loop
  unaligned,      \* what the first reservation returned
  data            \* aligned, then memory->data; 0 is the null pointer

spaceVars == <<mapped, accessible>>
argVars == <<min_capacity, initial_pages, max_pages>>
vars == <<spaceVars, pc, argVars, tries, unaligned, data>>

Addresses == 1 .. AddressEnd - 1

Uint32(n) == n % (UINT32_MAX + 1)
SizeT(n) == n % (SIZE_MAX + 1)

-----------------------------------------------------------------------------
(***************************************************************************)
(* Sizes                                                                   *)
(***************************************************************************)
\* Broken variant: no room for the guard.
UnguardedSpace(pages) == Uint32(pages) * WASM_PAGE_SIZE

compute_heap_reserve_space(pages) ==
  Uint32(pages) * WASM_PAGE_SIZE + WASM_HEAP_GUARD_PAGE_SIZE

DefaultCapacity == WASM_HEAP_DEFAULT_MAX_PAGES * WASM_PAGE_SIZE

\* Broken variant: the quotient is not rounded up.
RoundedDownCapacity(min) ==
  [is_valid |-> min <= DefaultCapacity \/ min <= UINT32_MAX,
   max_pages |-> IF min <= DefaultCapacity THEN WASM_HEAP_DEFAULT_MAX_PAGES
                 ELSE min \div WASM_PAGE_SIZE]

\* is_mem_32 is true and max_size, which nothing reads, is left out.
get_valid_wasm2c_memory_capacity(min) ==
  CASE min <= DefaultCapacity ->
         [is_valid |-> TRUE, max_pages |-> WASM_HEAP_DEFAULT_MAX_PAGES]
    [] min > DefaultCapacity /\ min > UINT32_MAX ->
         [is_valid |-> FALSE, max_pages |-> 0]
    [] OTHER ->
         [is_valid |-> TRUE,
          max_pages |-> (min - 1) \div (WASM_PAGE_SIZE - 1) + 1]

ValidCapacities ==
  {capacity \in {get_valid_wasm2c_memory_capacity(min) : min \in MinCapacities} :
     capacity.is_valid}

\* What a 32-bit platform leaves unchecked: the reservation of every capacity
\* that is valid can be expressed,
CapacitiesFit ==
  \A capacity \in ValidCapacities :
    /\ capacity.max_pages <= UINT32_MAX
    /\ capacity.max_pages * WASM_PAGE_SIZE + WASM_HEAP_GUARD_PAGE_SIZE <= SIZE_MAX

\* and the initial pages, which are whole pages of the operating system, at least
\* one on Windows, can be expressed and are within the capacity.
InitialPagesFit ==
  /\ WASM_PAGE_SIZE % OsPageSize = 0
  /\ \A pages \in InitialPages :
       /\ pages * WASM_PAGE_SIZE <= UINT32_MAX
       /\ Windows => pages > 0
       /\ \A capacity \in ValidCapacities : pages <= capacity.max_pages

byte_length(t) == Uint32(initial_pages[t] * WASM_PAGE_SIZE)
requested_length(t) == SizeT(compute_heap_reserve_space(max_pages[t]))
padded_length(t) == SizeT(requested_length(t) + WASM_HEAP_ALIGNMENT)

\* request_size: whole pages of the operating system, as a size_t.
RequestSize(n) == SizeT(((n + OsPageSize - 1) \div OsPageSize) * OsPageSize)

Region(base, length) == base .. base + RequestSize(length) - 1

-----------------------------------------------------------------------------
(***************************************************************************)
(* Alignment                                                               *)
(***************************************************************************)
\* Broken variant: aligned to the pages of the operating system only.
AlignedToPages == IF WASM_HEAP_ALIGNMENT = 0 THEN 1 ELSE OsPageSize

alignment_corrected == IF WASM_HEAP_ALIGNMENT = 0 THEN 1 ELSE WASM_HEAP_ALIGNMENT

\* The next address that is a multiple of the alignment; alignment_offset is 0.
Aligned(u) ==
  LET aligned_nonoffset ==
        (SizeT(u + alignment_corrected - 1) \div alignment_corrected) * alignment_corrected
  IN  IF aligned_nonoffset >= u THEN aligned_nonoffset
      ELSE SizeT(aligned_nonoffset + WASM_HEAP_ALIGNMENT)

SanityCheck(t, u, a) ==
  /\ a >= u
  /\ a + requested_length(t) <= u + padded_length(t)
  /\ a % alignment_corrected = 0

unused_front(t) == data[t] - unaligned[t]
unused_back(t) == (unaligned[t] + padded_length(t)) - (data[t] + requested_length(t))

-----------------------------------------------------------------------------
(***************************************************************************)
(* The address space.  The operating system may refuse any request.        *)
(***************************************************************************)
\* os_mmap and win_mmap ask the operating system at all.
MayMap(length) ==
  /\ RequestSize(length) >= length
  /\ Windows \/ RequestSize(length) \in 1 .. MmapLimit

Free(region) == region \subseteq Addresses /\ region \cap mapped = {}

Map(region) ==
  /\ Free(region)
  /\ mapped' = mapped \cup region
  /\ UNCHANGED accessible

\* A munmap or VirtualFree that fails is only printed by the code, which goes on
\* as if it had not: here it succeeds, and what a refused one leaves mapped is
\* outside the model.
os_munmap(base, length) ==
  /\ mapped' = mapped \ Region(base, length)
  /\ accessible' = accessible \ Region(base, length)

\* Broken variant: all that was reserved is committed.
CommitEverything(t) == Region(data[t], requested_length(t))

\* mprotect of mapped pages, whosever they are; VirtualAlloc commits pages of
\* one reservation, and at least one of them.
CommitRegion(t) ==
  IF Windows /\ byte_length(t) = 0 THEN Region(data[t], 1)
  ELSE Region(data[t], byte_length(t))

MayCommit(t) ==
  CommitRegion(t) \subseteq
    IF Windows THEN Region(data[t], requested_length(t)) ELSE mapped

-----------------------------------------------------------------------------
(***************************************************************************)
(* create_wasm2c_memory                                                    *)
(***************************************************************************)
Goto(t, stage) == pc' = [pc EXCEPT ![t] = stage]

\* The call returns without a memory, or destroy_wasm2c_memory returns.
Return(t) ==
  /\ Goto(t, "idle")
  /\ min_capacity' = [min_capacity EXCEPT ![t] = 0]
  /\ initial_pages' = [initial_pages EXCEPT ![t] = 0]
  /\ max_pages' = [max_pages EXCEPT ![t] = 0]
  /\ tries' = [tries EXCEPT ![t] = 0]
  /\ unaligned' = [unaligned EXCEPT ![t] = 0]
  /\ data' = [data EXCEPT ![t] = 0]

\* custom_capacity is null, or what get_valid_wasm2c_memory_capacity made of
\* some min: with min = 0 both choose the default.  An invalid capacity is
\* refused at once.
Create(t) ==
  /\ pc[t] = "idle"
  /\ \E min \in MinCapacities, pages \in InitialPages :
       LET capacity == get_valid_wasm2c_memory_capacity(min)
       IN  /\ capacity.is_valid
           /\ min_capacity' = [min_capacity EXCEPT ![t] = min]
           /\ initial_pages' = [initial_pages EXCEPT ![t] = pages]
           /\ max_pages' = [max_pages EXCEPT ![t] = capacity.max_pages]
  /\ Goto(t, "reserve")
  /\ UNCHANGED <<spaceVars, tries, unaligned, data>>

\* Broken variants: one round too many; the loop never gives up.
NextTryTooOften(t) ==
  IF tries[t] < Retries
  THEN /\ tries' = [tries EXCEPT ![t] = @ + 1]
       /\ Goto(t, "reserve")
       /\ unaligned' = [unaligned EXCEPT ![t] = 0]
       /\ data' = [data EXCEPT ![t] = 0]
       /\ UNCHANGED argVars
  ELSE Return(t)

NextTryForever(t) ==
  /\ Goto(t, "reserve")
  /\ unaligned' = [unaligned EXCEPT ![t] = 0]
  /\ data' = [data EXCEPT ![t] = 0]
  /\ UNCHANGED <<argVars, tries>>

\* A round of the retry loop ends with a null pointer.
NextTry(t) ==
  IF tries[t] + 1 < Retries
  THEN /\ tries' = [tries EXCEPT ![t] = @ + 1]
       /\ Goto(t, "reserve")
       /\ unaligned' = [unaligned EXCEPT ![t] = 0]
       /\ data' = [data EXCEPT ![t] = 0]
       /\ UNCHANGED argVars
  ELSE Return(t)

ReserveFails(t) ==
  /\ pc[t] = "reserve"
  /\ NextTry(t)
  /\ UNCHANGED spaceVars

\* The first reservation of os_mmap_aligned, padded for the alignment; when
\* the sanity check fails it is given back at once.
Reserve(t) ==
  /\ pc[t] = "reserve"
  /\ MayMap(padded_length(t))
  /\ \E u \in Addresses :
       /\ u % OsPageSize = 0
       /\ SanityCheck(t, u, Aligned(u))
       /\ Map(Region(u, padded_length(t)))
       /\ unaligned' = [unaligned EXCEPT ![t] = u]
       /\ data' = [data EXCEPT ![t] = Aligned(u)]
  /\ Goto(t, IF ~Windows THEN "trim_front"
             ELSE IF WASM_HEAP_ALIGNMENT = 0 THEN "commit" ELSE "release")
  /\ UNCHANGED <<argVars, tries>>

TrimFront(t) ==
  /\ pc[t] = "trim_front"
  /\ IF unused_front(t) # 0
     THEN os_munmap(unaligned[t], unused_front(t))
     ELSE UNCHANGED spaceVars
  /\ Goto(t, "trim_back")
  /\ UNCHANGED <<argVars, tries, unaligned, data>>

\* Broken variant: one page too many is given back.
TrimBackTooMuch(t) ==
  /\ pc[t] = "trim_back"
  /\ os_munmap(data[t] + requested_length(t) - OsPageSize, unused_back(t) + OsPageSize)
  /\ Goto(t, "commit")
  /\ UNCHANGED <<argVars, tries, unaligned, data>>

TrimBack(t) ==
  /\ pc[t] = "trim_back"
  /\ IF unused_back(t) # 0
     THEN os_munmap(data[t] + requested_length(t), unused_back(t))
     ELSE UNCHANGED spaceVars
  /\ Goto(t, "commit")
  /\ UNCHANGED <<argVars, tries, unaligned, data>>

\* Windows cannot unmap a part: the reservation is released, and its aligned
\* part reserved again if no other thread was faster.
Release(t) ==
  /\ pc[t] = "release"
  /\ os_munmap(unaligned[t], padded_length(t))
  /\ Goto(t, "remap")
  /\ UNCHANGED <<argVars, tries, unaligned, data>>

\* Broken variant: the address is believed to be still free.
RemapBlindly(t) ==
  /\ pc[t] = "remap"
  /\ mapped' = mapped \cup Region(data[t], requested_length(t))
  /\ Goto(t, "commit")
  /\ UNCHANGED <<accessible, argVars, tries, unaligned, data>>

Remap(t) ==
  /\ pc[t] = "remap"
  /\ Map(Region(data[t], requested_length(t)))
  /\ Goto(t, "commit")
  /\ UNCHANGED <<argVars, tries, unaligned, data>>

RemapFails(t) ==
  /\ pc[t] = "remap"
  /\ NextTry(t)
  /\ UNCHANGED spaceVars

Commit(t) ==
  /\ pc[t] = "commit"
  /\ MayCommit(t)
  /\ accessible' = accessible \cup CommitRegion(t)
  /\ Goto(t, "live")
  /\ UNCHANGED <<mapped, argVars, tries, unaligned, data>>

CommitFails(t) ==
  /\ pc[t] = "commit"
  /\ Goto(t, "abandon")
  /\ UNCHANGED <<spaceVars, argVars, tries, unaligned, data>>

\* Broken variant: the reservation is forgotten.
AbandonForgets(t) ==
  /\ pc[t] = "abandon"
  /\ Return(t)
  /\ UNCHANGED spaceVars

\* After a failed commit the loop ends: data = 0.
Abandon(t) ==
  /\ pc[t] = "abandon"
  /\ os_munmap(data[t], requested_length(t))
  /\ Return(t)

\* destroy_wasm2c_memory computes the size again from max_pages.
Destroy(t) ==
  /\ pc[t] = "live"
  /\ os_munmap(data[t], requested_length(t))
  /\ Return(t)

-----------------------------------------------------------------------------
Init ==
  /\ mapped = {}
  /\ accessible = {}
  /\ pc = [t \in Threads |-> "idle"]
  /\ min_capacity = [t \in Threads |-> 0]
  /\ initial_pages = [t \in Threads |-> 0]
  /\ max_pages = [t \in Threads |-> 0]
  /\ tries = [t \in Threads |-> 0]
  /\ unaligned = [t \in Threads |-> 0]
  /\ data = [t \in Threads |-> 0]

CreateStep(t) ==
  \/ Reserve(t) \/ ReserveFails(t)
  \/ TrimFront(t) \/ TrimBack(t)
  \/ Release(t) \/ Remap(t) \/ RemapFails(t)
  \/ Commit(t) \/ CommitFails(t) \/ Abandon(t)

Next == \E t \in Threads : Create(t) \/ CreateStep(t) \/ Destroy(t)

Spec == Init /\ [][Next]_vars

\* Every system call returns, and the calling thread goes on.
FairSpec == Spec /\ \A t \in Threads : WF_vars(CreateStep(t))

-----------------------------------------------------------------------------
(***************************************************************************)
(* Properties                                                              *)
(***************************************************************************)
Stages == {"idle", "reserve", "trim_front", "trim_back", "release", "remap",
           "commit", "abandon", "live"}

TypeOK ==
  /\ mapped \subseteq Addresses
  /\ accessible \subseteq Addresses
  /\ pc \in [Threads -> Stages]
  /\ min_capacity \in [Threads -> Nat]
  /\ initial_pages \in [Threads -> Nat]
  /\ max_pages \in [Threads -> Nat]
  /\ tries \in [Threads -> 0 .. Retries - 1]
  /\ unaligned \in [Threads -> 0 .. AddressEnd]
  /\ data \in [Threads -> 0 .. AddressEnd]

Live(t) == pc[t] = "live"
Heap(t) == Region(data[t], requested_length(t))

\* A memory that was handed out keeps its whole reservation until it is
\* destroyed, aligned as the pointer swizzling needs it, and shares no address
\* with the memory of another thread, whatever the others map and unmap.
LiveHeapsIntact ==
  \A t \in Threads : Live(t) =>
    /\ Heap(t) \subseteq mapped
    /\ data[t] % alignment_corrected = 0
    /\ \A u \in Threads \ {t} : Live(u) => Heap(t) \cap Heap(u) = {}

\* Nothing is reserved but the live memories once no call is in progress:
\* neither the trimmed ends nor a failed try nor a failed commit leaks, as long
\* as the operating system refuses no munmap.
NoLeak ==
  (\A t \in Threads : pc[t] \in {"idle", "live"}) =>
    mapped = UNION {Heap(t) : t \in {u \in Threads : Live(u)}}

\* Of a live memory exactly the initial pages can be read and written: the
\* guard region after the heap stays inaccessible, also to a neighbour's
\* mprotect.
GuardInaccessible ==
  \A t \in Threads : Live(t) =>
    LET heap_end == data[t] + max_pages[t] * WASM_PAGE_SIZE
    IN  /\ accessible \cap Heap(t) = Region(data[t], initial_pages[t] * WASM_PAGE_SIZE)
        /\ accessible \cap (heap_end .. heap_end + WASM_HEAP_GUARD_PAGE_SIZE - 1) = {}

\* The memory can grow to what the application asked for.
CapacityHonoured ==
  \A t \in Threads : Live(t) => max_pages[t] * WASM_PAGE_SIZE >= min_capacity[t]

\* The runtime "has to pre-reserve enough space for the whole Wasm program":
\* the reservation holds max_pages pages and the guard.
WholeProgramReserved ==
  \A t \in Threads : Live(t) =>
    data[t] .. data[t] + max_pages[t] * WASM_PAGE_SIZE + WASM_HEAP_GUARD_PAGE_SIZE - 1
      \subseteq Heap(t)

\* create_wasm2c_memory returns, although each round of its loop may fail.
CreateReturns == \A t \in Threads : pc[t] # "idle" ~> pc[t] \in {"idle", "live"}
=============================================================================

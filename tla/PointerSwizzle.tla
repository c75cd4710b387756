-------------------------- MODULE PointerSwizzle ---------------------------
(***************************************************************************)
(* The translation of data pointers in include/rlbox_wasm2c_sandbox.hpp,   *)
(* over the memories that HeapReservation hands out: the sandbox of thread *)
(* t has heap_base = data[t].  T_PointerType is uint32_t, uintptr_t is as  *)
(* wide as size_t.  Function pointers are translated in CallbackTable.     *)
(***************************************************************************)
EXTENDS HeapReservation

\* What the context-free translation rests on: of each aligned reservation, the
\* guard alone is as large as the range of a uint32_t, and sizes do not wrap.
HeapFillsBlock ==
  /\ UINT32_MAX < SIZE_MAX
  /\ WASM_HEAP_ALIGNMENT # 0 /\ WASM_HEAP_ALIGNMENT % (UINT32_MAX + 1) = 0
  /\ WASM_HEAP_GUARD_PAGE_SIZE > UINT32_MAX
  /\ UINT32_MAX * WASM_PAGE_SIZE + WASM_HEAP_GUARD_PAGE_SIZE <= SIZE_MAX

Pointers32 == 0 .. UINT32_MAX
NoPointer == -1         \* the dynamic_check failed

\* "if imported memory on a 64-bit platform, we can assume that the heap is
\* aligned"; a memory of create_wasm2c_memory is imported.
AlignedHeap == UINT32_MAX < SIZE_MAX

heap_base(t) == data[t]
impl_get_total_memory(t) == byte_length(t)

\* What impl_create_sandbox checks before it calls the instance initialized.
PassesCreateCheck(t) == AlignedHeap => heap_base(t) % (UINT32_MAX + 1) = 0

\* p & heap_base_mask
HeapBaseOf(p) == p - (p % (UINT32_MAX + 1))

\* The application's expensive_sandbox_finder; 0 stands for the application.
expensive_sandbox_finder(p) ==
  LET owners == {t \in Threads : pc[t] = "live" /\ p \in Region(data[t], byte_length(t))}
  IN  IF owners = {} THEN 0 ELSE CHOOSE t \in owners : TRUE

\* Broken variant: one address too many.
InSandboxMemoryOffByOne(t, p) ==
  p >= heap_base(t) /\ p <= SizeT(heap_base(t) + impl_get_total_memory(t))

impl_is_pointer_in_sandbox_memory(t, p) ==
  p >= heap_base(t) /\ p < SizeT(heap_base(t) + impl_get_total_memory(t))

-----------------------------------------------------------------------------
impl_get_unsandboxed_pointer(t, p) ==
  LET ret == SizeT(heap_base(t) + p)
  IN  IF UINT32_MAX = SIZE_MAX /\ ~impl_is_pointer_in_sandbox_memory(t, ret)
      THEN NoPointer ELSE ret

impl_get_sandboxed_pointer(t, p) ==
  IF AlignedHeap THEN Uint32(p) ELSE Uint32(SizeT(p - heap_base(t)))

impl_get_unsandboxed_pointer_no_ctx(p, example) ==
  IF AlignedHeap THEN HeapBaseOf(example) + p
  ELSE impl_get_unsandboxed_pointer(expensive_sandbox_finder(example), p)

impl_get_sandboxed_pointer_no_ctx(p, example) ==
  IF AlignedHeap THEN p % (UINT32_MAX + 1)
  ELSE impl_get_sandboxed_pointer(expensive_sandbox_finder(example), p)

impl_is_in_same_sandbox(p1, p2) ==
  \/ p1 = 0 \/ p2 = 0
  \/ IF AlignedHeap THEN HeapBaseOf(p1) = HeapBaseOf(p2)
     ELSE expensive_sandbox_finder(p1) = expensive_sandbox_finder(p2)

-----------------------------------------------------------------------------
(***************************************************************************)
(* Properties                                                              *)
(***************************************************************************)
\* The addresses of a live memory, as far as it can ever grow.
MemoryOf(t) ==
  LET size == max_pages[t] * WASM_PAGE_SIZE
  IN  data[t] .. data[t] + (IF size > UINT32_MAX THEN UINT32_MAX ELSE size - 1)

\* With an aligned heap nothing is looked up or checked at a translation, and
\* yet every 32-bit value stays in the reservation of its own sandbox; the
\* forms with and without a context agree, from any example pointer; a pointer
\* comes back as it went; and no pointer of another sandbox or of the
\* application passes for one of this sandbox, wherever it was mapped.
SwizzlingAgrees ==
  \A t \in Threads : Live(t) =>
    /\ PassesCreateCheck(t)
    /\ \A p \in Pointers32 :
         LET ret == impl_get_unsandboxed_pointer(t, p)
         IN  /\ ret \in Heap(t)
             /\ impl_get_sandboxed_pointer(t, ret) = p
             /\ \A example \in MemoryOf(t) :
                  /\ impl_get_unsandboxed_pointer_no_ctx(p, example) = ret
                  /\ impl_get_sandboxed_pointer_no_ctx(ret, example) = p
    /\ \A p1 \in MemoryOf(t) :
         /\ \A p2 \in MemoryOf(t) : impl_is_in_same_sandbox(p1, p2)
         /\ \A p2 \in Addresses \ Heap(t) : ~impl_is_in_same_sandbox(p1, p2)

\* On a 32-bit platform heap_base + p may leave the heap on either side, by
\* wrapping around the address space as well: a value is translated just when
\* it leads to an accessible address of its own sandbox, and comes back as it
\* went.  The form without a context agrees.
PointersStayInside ==
  \A t \in Threads : Live(t) =>
    /\ PassesCreateCheck(t)
    /\ \A p \in Pointers32 :
         LET ret == impl_get_unsandboxed_pointer(t, p)
         IN  /\ (ret # NoPointer) <=> (p < impl_get_total_memory(t))
             /\ ret # NoPointer =>
                  /\ ret \in accessible \cap Heap(t)
                  /\ impl_get_sandboxed_pointer(t, ret) = p
             /\ \A example \in accessible \cap Heap(t) :
                  impl_get_unsandboxed_pointer_no_ctx(p, example) = ret
=============================================================================

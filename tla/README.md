# Verification of rlbox_wasm2c_sandbox in TLA+

This directory keeps the formal models of the plugin that lets RLBox run a
library as Wasm code translated to C by wasm2c. The models are checked with
TLC; every invariant of a passing run is also a theorem proved with TLAPS. File names below are
relative to the repository.

## 1. Inventory

| Component | Where | State it keeps | Operations |
|---|---|---|---|
| Callback table | `include/rlbox_wasm2c_sandbox.hpp` 359-365, 386-438, 668-715, 971-1101 | `callback_mutex`, three arrays indexed by interceptor, two maps, the Wasm function table and its (unused) free list | register, unregister, swizzle a function pointer, dispatch a call of sandboxed code, read the key of the running callback |
| Heap reservation | `src/wasm2c_rt_mem.c` | the address space of the process; data, pages and limit of each memory | `get_valid_wasm2c_memory_capacity`, `create_wasm2c_memory`, `destroy_wasm2c_memory` |
| Sandbox lifecycle | hpp 469-481, 523-666; `src/wasm2c_rt_minwasi.c` 209-346, 810-823 | `instance_initialized`, the memory and table pointers, the return slot, the wasi state; process-wide: the once flag and the clock data | create (fallible or not), destroy, grow the return slot |
| Invocation and thread data | hpp 372-384, 842-944; `include/rlbox_wasm2c_tls.hpp` | per thread: current sandbox, last callback; per call: allocated class arguments | invoke, nested invoke from a callback, malloc and free in the sandbox |
| Pointer swizzling | hpp 680-690, 716-838 | none of its own (`heap_base`) | data pointers to offsets and back, with and without a context object; range checks |
| MinWasi calls | `src/wasm2c_rt_minwasi.c` 56-194, 348-720 | argv, environ, clock data; the sandbox memory | clock, fd_read, fd_write, args, environ, proc_exit |
| WASI stubs | `src/wasm2c_rt_minwasi.c` 720-805 | none | return an error |
| Type conversions | hpp 56-320 | none (compile time) | - |
| Build, wrapper, tests | `CMakeLists.txt`, `c_src/`, `test/` | - | - |

How they interact: `impl_create_sandbox` calls minwasi's init under a once flag
shared by all sandboxes, then the heap reservation, then the generated module.
Invocations put the sandbox in thread-local data and run generated code, which
comes back through the function table into an interceptor and so into host
code, which may again register, swizzle or invoke. The application may do all
of this from several threads; only `callback_mutex` and the once flag
synchronise them.

What is hard, and what makes each component correct:

* *Callback table.* The function table and `callback_unique_keys` are read with
  no lock; interceptors are reused while slots are not; a check may raise in the
  middle of a registration. Correct: arrays, maps and table agree outside of
  critical sections, a call through a slot runs that slot's function under that
  function's key, a withdrawn slot never comes back, the mutex is always
  released.
* *Heap reservation.* Several system calls make one reservation, other threads'
  calls come between them, each may fail, and Windows gives the reservation up
  in the middle. Sizes change width. Correct: live memories are disjoint,
  aligned, complete, guarded and as large as promised; nothing leaks.
* *Lifecycle.* Eight checks can end a creation, each with other parts built;
  creations of several sandboxes race for the clock data. Correct: complete or
  gone, no use of what is not there, every creator returns.
* *Invocation.* Nesting, exceptions, and a return slot shared by all calls of
  a sandbox. Correct: the thread's current sandbox is restored, callbacks reach
  the sandbox that called them under their own key, results are those of the own
  call, no in-sandbox memory is lost but where the code is known to lose it.
* *Swizzling.* On 64-bit platforms nothing is looked up or checked, which is
  sound only by how heaps are reserved; on 32-bit platforms sums wrap around.
  Correct: no translated pointer leaves its own sandbox, the forms with and
  without a context agree.
* *MinWasi.* Boundary arithmetic on 32-bit offsets, iovecs in memory that
  changes under the loop, sizes reported against bytes written. Correct: no
  access outside of the sandbox memory, counts are true, the two phases of args
  and environ agree, time is not rounded away.

`PROJECT.json` lists each hazard with its line and the properties that cover it.

## 2. Plan

Modules, in order of importance, with their state:

1. `CallbackTable`, the concurrent core, with the abstract specification
   `CallbackRegistry` - done, proved.
2. `HeapReservation` - done, proved.
3. `SandboxLifecycle` - done for one thread per object, proved.
4. `SandboxInvoke`: the stack of current sandboxes of a thread, nested
   callbacks, class arguments and the shared return slot, exceptions - done,
   proved.
5. `PointerSwizzle`, on top of `HeapReservation`: the two directions and their
   context-free forms, on aligned and unaligned heaps - done, proved.
6. `MinWasi`: `fd_read`/`fd_write` over iovecs, the sizes/get pairs, the clocks
   - done, proved.

No invariant of a passing run is without its theorem. What could still be stated: the
absence of misuse for objects that are created again, once the code resets
`return_slot_size` and the table's data; an abstract allocator of memories that
`HeapReservation` implements.

## 3. Modules

### CallbackTable

One sandbox object and the threads of the application. The variables carry the
names of the members; `pc`, `op` and the locals `key`, `ptr`, `loc`, `slot` say
where each thread is in which member function. Under the mutex there is one
step for each write that a reader without the lock can see (the table entry,
the key); writes that only lock holders can see are merged with the next such
step. So `impl_register_callback` is `RegisterChoose` (find the first free
interceptor), `NewCallbackSlot` (shared with function pointer swizzling), `Install` (the
table entry), `RegisterRecord` (arrays, map, unlock); `impl_unregister_callback`
is `UnregisterChoose`, `Withdraw`, `Erase`. A `dynamic_check` that fails unwinds
(`Return`), which releases the guard. Sandboxed code is `CallIndirect`, with any
interceptor entry of the table, followed by `InterceptorRead` (shared guard),
`InterceptorCall` (guard released) and `GetExecutedKey` (no guard).

External and taken as atomic: one table growth and one table read in the wasm2c
runtime. `free_callback_slot` is modelled only as a broken variant, since
nothing calls it. The build option `RLBOX_SINGLE_THREADED_INVOCATIONS`, which
removes the shared guard, is not modelled, and `thread_data.sandbox` is always
the one object here: which object it is, and what nested calls do to it, is the
subject of `SandboxInvoke`. Nested calls from a callback body are not followed
here; a body can, as any application code, use the table after it has read its key.

`CallbackRegistry` is what the table promises: a slot is granted to one host
pointer for ever, lives, is retired, and a function is pinned once.
`CallbackTable!Registry` is the refinement mapping: `granted` is
`slot_assignments`, `live` the assigned slots of registered interceptors,
`pinned` the slots of `internal_callbacks`.

`CallbackTableInv` holds the inductive invariant `IInv`; the checks and the
proofs both use it.

### HeapReservation

Threads that each create and destroy one memory at a time in one address space.
`mapped` and `accessible` are the sets of reserved and of readable and writable
addresses; the macros of the file are constants. Each action is one system
call: `Reserve` (padded), on POSIX `TrimFront` and `TrimBack`, on Windows
`Release` and `Remap`, then `Commit`, with their failures, the retry loop
(`NextTry`) and the failed commit (`Abandon`). A sanity check that fails
after the first reservation gives it back at once, so it is `ReserveFails`
here. `Uint32` and `SizeT` are the truncations of the code; `RequestSize` the rounding to whole
pages. `PageSizesFit`, `CapacitiesFit` and `InitialPagesFit` are the conditions on
sizes that the code relies on and does not check (section 6). `os_munmap` always succeeds:
when munmap or VirtualFree fails the code prints a message and goes on
(mem.c 295-303 and 458-463), and what stays mapped then is outside `NoLeak`. `max_size` of a capacity, the name of the mapping and error messages are
left out.

### SandboxLifecycle

Objects, one thread each. An object is the record of its members and of what
it owns outside (`instance`, the in-sandbox `heap`). What an impl function does
between two uses of shared state is one action: `CallOnce`, `QueryClock`,
`ClockQueried`, `InitInstance`, `AllocClock` touch the shared clock data, and the
rest of a creation is one of `InvalidCapacity`, `MemoryRefused`, `Memory64`,
`HeapNotAligned`, `Created`. `Destroyed` is `impl_destroy_sandbox`, composed in
the order of the code; it runs in `Destroy` and in `ReturnFalse`, the failure path
of a fallible create. `Raise` is the failure of an infallible one, after which
the object is not used again. `InvokeReturningClass` is the part of an
invocation that concerns the return slot.

Assumptions about code that is not in the repository: `wasm_rt_free_funcref_table` leaves the
pointer in the table it was given; the Wasm module's start does not trap. The
model allows a heap that is not aligned to 4 GiB; the last check refuses it, and
the instance is then orphaned. `HeapReservation!LiveHeapsIntact` says that this
does not happen.

### SandboxInvoke

The threads with their stacks of calls and callbacks, and the sandboxes with
their return slot and a heap of few blocks. A call goes through the stages of
`impl_invoke_with_func_ptr`: `Call` (save and set `thread_data.sandbox`), for a
function that returns a class `SlotFits`, `GrowSlot` or `SlotRefused`
(`ensure_return_slot_size`), `PassArguments` (malloc and copy the class
arguments), the function itself, `Return` (copy the result, free the arguments)
and `Leave` (`on_exit`). Sandboxed code is free to store its result when it
likes (`StoreResult`) and to call interceptors (`EnterInterceptor`); RLBox's
callback asks for its key first (`GetExecutedKey`) and then runs host code,
which may call any sandbox, return (`CallbackReturns`), or throw
(`CallbackThrows`), whereupon each call it leaves does `Unwind`. The blocks of
memory hold who wrote them last, so that a property can say whose bytes a
result is. `crossed`, `touched`, `result` and `leaked` are history.

The call a class-returning call makes of itself, and the calls of malloc and
free, save and restore `thread_data.sandbox` around nothing that reads it; they
are part of the step that makes them. Two facts of C++ matter and are modelled
as they are: in that inner call `params` are lvalues, `T_Args` are references, so
`std::is_class_v` is false, `alloc_length` is 0 and class arguments are not
freed (`FreeArguments`); and the result of malloc is checked for the slot but
not for arguments (`Placements`). Because `alloc_length` is 0 the array has one
entry, so with two class arguments the second is written past it: undefined
behaviour, excluded by `SandboxInvokeAssumption`.

Assumptions: one thread at a time is inside a sandbox, since all callers share
the stack pointer of the Wasm instance (RLBox users hold a lock or keep
a sandbox to a thread); exceptions are enabled, as without them a failed check
or an exception ends the process; the class parameters of one function have the
same size. Registration of callbacks is in `CallbackTable`, so a key here is the
pair of the sandbox and the interceptor.

### PointerSwizzle

Extends `HeapReservation` by the translations of data pointers as operators over its
state: the sandbox of thread `t` has `heap_base = data[t]`. `& mask` and `|` are
written as arithmetic on multiples of `UINT32_MAX + 1`. A memory grows inside
the wasm2c runtime, so the total memory is that of the initial pages in the
32-bit range check, while `SwizzlingAgrees` takes example pointers from all
of the memory up to its limit. The finder that the application passes in is
external; RLBox looks the pointer up among its sandboxes. Modules that export
their own memory do not use `create_wasm2c_memory` and are left out.

### MinWasi

A behaviour is one WASI call: calls share nothing but the sandbox memory, and
sandboxed code may put anything there before each (`Prepare` enumerates it). The
loops of `fd_write`, `fd_read` and `strings_get` are one action an iteration
(`FdWrite`, `FdRead`, `CopyString`), with one action for each way out: a trap, an
overflow, a short transfer. `args_*` and
`environ_*` are the same functions on `main_argv` or on `env`, and are modelled once. A memory cell holds a `u32` or one
character, an iovec is two cells; `U32` cells stand for 2^32, and all address
arithmetic of the code that is in `u32` is modulo `U32`. A clock is what the
operating system would answer; `THOUSAND` stands for 1000. The clock functions
store their `out_struct` also when the clock failed and left it uninitialized:
any value may be stored then. The products of the conversions have 64 bits:
`WindowsProduct` is a signed LONGLONG, whose overflow is undefined, so any value
may be stored after it (`SignedOverflow`); `MacProduct` is taken modulo 2^64.
`ProductFits` says of a clock that its product does not overflow, and
`ClockIsTime` speaks of such clocks only.

The traps of `wasm_rt_trap` unwind to the caller of the sandbox and end the
behaviour. Nothing in the repository sets `main_argv`, `main_argc` or `env`; the
embedder may, and `StringLists` is what it sets.

## 4. Runs

| Run | Instance | What it shows |
|---|---|---|
| `callback_table` | 2 threads, 2 keys, 2 callbacks, 1 host function, 2 interceptors, a module with an empty table, at most 4 slots of which slot 0 is refused, fair (515 724 states) | bookkeeping, dispatch, no lost slots, slot 0 never given out, withdrawn slots, the mutex is released, refinement of `CallbackRegistry`; `IInv` holds |
| `callback_full_table` | the same with a table of its own and at most 2 added slots, symmetric | *violated*: a full table may hold only null entries |
| `heap_64` | 2 threads, aligned heaps, a guard of two pages, 2 tries | live heaps intact, no leaks, guard inaccessible; every 32-bit offset, example pointer and foreign address is translated and told apart without look-up |
| `heap_windows` | the same on Windows, fair | the same with release and remap; creation returns |
| `heap_32` | no alignment, `size_t` as wide as `uint32_t` | guard, capacity, whole program reserved; the range check accepts exactly what is accessible |
| `heap_32_full` | the same, a capacity near the top | *violated*: the reservation is truncated |
| `heap_32_initial` | the same, more initial pages than the capacity | *violated*: the guard is committed |
| `lifecycle` | 2 objects, one imported, one exported, 2 creates each, 2 class sizes, clocks that allocate, exceptions, fair (6 528 states) | released when gone, no misuse, complete creation, return slot, every create returns |
| `lifecycle_reuse` | the same with clocks that allocate nothing (Linux), an object may be created again after its end | *violated*: free is called in a missing instance |
| `lifecycle_reuse_table` | the same | *violated*: the callback table is freed twice |
| `invoke` | 2 threads, 2 sandboxes, 4 functions (none, one class argument; no, small, large class result), 2 interceptors of which one returns a class, 2 blocks, 4 nested frames (about a million states) | thread data, keys, results, arguments and blocks through nesting, exceptions and refused mallocs |
| `minwasi` | 8 cells for 2^32, memories of 6 and 8 cells, up to 3 iovecs of 256 layouts, 6 lists of strings at a limit of 2, clocks of the three platforms (1.5 million states) | accesses stay inside, counts are what was moved, output is gathered in order, args and environ agree, clocks are exact unless their product overflows, which some do |

Bounds. Two threads are enough for every race here: each hazard is one thread
between two steps of another. Two interceptors let one be reused while the
other stands; `MaxTableSize` leaves three slots to give out, so that before the table is full
an interceptor is registered, unregistered and registered again while the
other one, or a swizzled function pointer, has the third slot. `heap_64` has room for one padded and one trimmed reservation but not for
two padded ones with their alignment, so that tries fail because of the other
thread as well as by refusal; two tries stand for ten, as a try depends on its
predecessor only through the count. Sizes are scaled so that the alignment
is larger than a heap page, the guard larger than an OS page, and the sums meet
the `size_t` limit in the 32-bit runs. `MaxCreates = 2` is one create and one more: on
a live object, which is refused, or (`Reuse`) after its end.

In `invoke` four frames are two calls with a callback each: a callback that
calls again, into its own or the other sandbox, and is called back from there.
Two sandboxes can be nested in one another or used by a thread each. Two blocks
let a slot grow while an argument is live, and make malloc fail. In `minwasi` a
memory of 8 cells fills the address space, so that wrapping addresses are inside
again, and one of 6 cells ends before it; three iovecs let one overwrite the
next, and the sum of their lengths pass `U32`.

`CHECK_DEADLOCK FALSE` in the run `minwasi`: a behaviour is one call and ends
with it. In the lifecycle runs: when each object had its one life
the application has nothing more to do. In the callback runs the process may
end in a call through a null pointer (`Halted`, a stuttering step).

The modules `MC...` give these instances their values. Where a theorem has a
condition on the constants, the instance's module assumes that condition and
TLC evaluates it: `MCHeapReservation` the page sizes, `MCHeapSizes` (runs
`heap_64` and `heap_32`) also the capacities and initial pages. `heap_32_full` and
`heap_32_initial` are instances that each break one
of the two conditions of `MCHeapSizes`.

Symmetry of threads, keys, callbacks and functions is used in `callback_full_table`
only, where no liveness property is checked.

Fairness. `CallbackTable!FairSpec`: a thread that holds `callback_mutex` is
scheduled until it releases it; nothing in a critical section blocks. No
fairness is assumed of the application or of waiting for the lock.
`HeapReservation!FairSpec`: a thread in `create_wasm2c_memory` gets answers to
its system calls, success is not assumed. `SandboxLifecycle!FairSpec`: a
creation in progress goes on whenever the once flag lets it.

## 5. Disagreements found

1. `include/rlbox_wasm2c_sandbox.hpp:982`: rows of unregistered callbacks are never
   reused, so the "too many callbacks" error comes with none registered
   (`callback_full_table`).
2. `src/wasm2c_rt_mem.c:149`: on 32-bit platforms the size of the reservation is
   truncated instead of being refused (`heap_32_full`).
3. `src/wasm2c_rt_mem.c:157`: the initial pages are not compared with the
   capacity (`heap_32_initial`).
4. `include/rlbox_wasm2c_sandbox.hpp:642`: `return_slot_size` outlives the instance
   (`lifecycle_reuse`).
5. `include/rlbox_wasm2c_sandbox.hpp:656`: the data of the callback table outlive the
   destroy that freed them, so a second create whose memory is refused frees
   the table again (`lifecycle_reuse_table`).

The paragraph of `CMakeLists.txt` that 2 goes against is about modules that
export their memory; the need it states, room for the whole program or an error,
is the same for the imported memories of `create_wasm2c_memory`.

Two more are visible in the models and have no run, because no sentence of the
repository speaks of them: the clock data of Windows and macOS are never freed
(`CleanupWasi`; `ReleasedWhenGone` does not claim it), and a failed `minwasi_init` is reported to one creator only
(`CallOncePassed`).

What the properties of `SandboxInvoke` have to except is worth knowing, too,
and TLC shows each as a counterexample when the exception is taken out:

* A callback that calls a function which returns a class, from the sandbox that called
  it, shares the return slot with the outer call, or frees it under the outer
  call's feet when its class is larger: the outer function then writes to a
  freed block, and its caller reads the other result (`~frame.crossed` in
  `ResultIsOwn`).
* After a caught "Error initializing return slot" the object has
  `return_slot = 0` and keeps the old size, so smaller classes are from then on
  returned at address 0 of the sandbox (`return_arg # Null`).
* The class arguments of functions that return a class are never freed
  (hpp:872 and 881), and those of calls left by an exception neither (`leaked` in
  `HeapAccounted`).

And in `MinWasi`: a transfer that ends in `WASI_INVAL_ERROR` has moved data and
reports no count; `clock_time_get` stores an uninitialized value when the clock
fails (`src/wasm2c_rt_minwasi.c:453-457`). The header comment of that file says
that args and environ "work but return an empty buffer" (123) and that
`proc_exit` "is a no-op" (132): they return what the embedder has set, and exit
the process or trap. `include/wasm2c_rt_minwasi.h:5` says "upto 100 args" where
the code's own header and `ARGV_AND_ENV_LIMIT` say 1000. A refused WASI clock on macOS leaves a zero denominator
for `clock_time_get` to divide by, which the model's clocks do not have.

## 6. Proofs

`CallbackTableProofs` proves `Spec => []IInv` for any sets of threads, keys,
callbacks and functions, any number of interceptors and any table sizes, under
`CallbackTableAssumption`. `RegistryConsistent` is not inductive: inside a
critical section it is broken on purpose. `IInv` therefore says for each stage
of the lock holder how far it has got (`HolderInv`), exempts that holder's slot
from the consistency (`RegistryInv`), ties the lock to the stages (`MutexInv`),
and records that a thread in a dispatch came through a slot that was granted
(`DispatchInv`); as granted slots are never granted again, a reused interceptor
always has another slot, which is why the unlocked read of the key is right
whenever the entry still stands. One lemma per action, one case per conjunct it can
disturb. From it follow `TypeCorrect`, `RegistryCorrect`, `DispatchCorrect`,
`NullPointerSafe`, `WithdrawnForEver` and `NoSlotLost` (the growth of an empty
table to slot 0 is refused and leaves that entry without an owner, so
`GrownSlotsOwned` excepts it). `CallbackTableRefinement` proves that every step
is a step of `CallbackRegistry` or a stutter under the mapping.

`HeapReservationProofs` has the arithmetic of whole pages and proves
`CapacityHonoured`: the rounding of a capacity to pages (`RoundedUpQuotient`,
`ValidCapacityHolds`) and that no step between the creation and the destruction
of a memory changes it (`CapacityInv`).

`HeapOwnershipProofs` proves the other invariants of `HeapReservation` for any
number of threads and any sizes, on POSIX and on Windows.

* `LiveHeapsIntact` and `NoLeak`. Neither is inductive: a reservation that is
  being trimmed belongs to no live memory yet, and unmapping its ends is harmless
  only because they are its own. `Owned(t)` is the set of addresses thread `t`
  answers for at its stage, the padded reservation, then what is left of it, or
  nothing between release and remap; `OwnershipInv` says that these sets are
  disjoint and make up `mapped`. Each action gives back a part of its own set
  (`GivesBack`), takes addresses nobody has (`Takes`), or commits its own
  (`StepEffect`). That a trim stays within its own set needs page arithmetic:
  munmap rounds sizes up to OS pages, so the alignment, the heap page, the guard
  and the range of `size_t` must be whole OS pages (`PageSizesFit`), as they are
  with 64 KiB heap pages, a 4 GiB guard, an 8 GiB alignment and OS pages of at most
  64 KiB.
* `TypeOK`, with no condition on the sizes: `SpaceInv` adds that on Windows, where
  nothing is trimmed, what is to be committed lies in the address space.
* `WholeProgramReserved`, if the reservation of every valid capacity can be
  expressed as a `size_t` (`CapacitiesFit`). `ArgumentsInv` keeps what a call works
  with among those capacities, and records that the size that was requested did not
  wrap around. `PointerSwizzleProofs` derives the condition from the 64-bit macros
  (`WholeProgramFitsAligned`): a page count fits a `uint32_t`, and `size_t` has room
  for that many pages and the guard.
* `GuardInaccessible`, if moreover the initial pages are whole OS pages, can be
  expressed in `byte_length` and are within the capacity (`InitialPagesFit`).
  On Windows there must be at least one, as a commit of 0 bytes commits a page there.
  `AccessInv` says that a live memory has just its `CommitRegion` accessible of what
  it owns and that no other thread has any: so a mprotect or VirtualAlloc of one
  thread cannot reach a neighbour.

Both conditions say what the code does not check on 32-bit platforms:
`heap_32_full` breaks the first and `heap_32_initial` the second, and
TLC shows that the conclusions are false there.

`PointerSwizzleProofs` proves `SwizzlingAgrees`. From `HeapInv`, a live memory begins
at a multiple of the alignment, hence of 2^32, and its reservation is a range
of mapped addresses that is longer than the guard; `HeapFillsBlock` says that
the guard alone has 2^32 addresses and that no size wraps around, as with the
64-bit macros of `src/wasm2c_rt_mem.c`. So all 2^32 addresses from `data` on
belong to the reservation (`LiveBlock`), and an address is in this block just
when the mask gives `data` (`BaseOfOffset`). TLC confirms `HeapFillsBlock` of every
64-bit instance. For 32-bit platforms it proves `PointersStayInside` from
`AccessInv`: a heap lies in the address space without wrapping (`LiveHeap`), so
the sum `heap_base + p` is below the total memory just when `p` is, and an
accessible example pointer leads RLBox's search to its own sandbox (`FinderFinds`).

`SandboxLifecycleProofs` proves the invariants of `SandboxLifecycle` for any
number of objects and slots, with and without exceptions, on every platform. Each
property speaks of objects at rest only; `LifecycleInv` says of every stage of
a create how much of the object there is.

* `MembersInv` relates the members. A create that fails calls the destroy
  of an object that was never complete, and this leaves nothing behind because
  what was built is in a member that the destroy tests: that gives
  `ReleasedWhenGone` and most of `CreatedIsComplete`, also when objects are
  created again. Two things are in no such member and not released: an instance
  whose heap is not aligned, as `instance_initialized` is set after that check, and
  the clock data, whose clean-up frees them only if the pointer is null.
* `ClockInv` is about several creators at once: as long as no clock query was
  refused, whoever is in `minwasi_init` holds the once flag and is alone there, the
  clock data are completely filled before anybody passes the flag, and nobody
  fills them a second time. That is the rest of `CreatedIsComplete`.
* `OnceInv` gives `NoMisuse` and `ReturnSlotFits`, under the hypothesis
  `~Reuse`: until its create is over an object that is created once has no return
  slot and no table from an earlier life. Without the hypothesis both halves of
  `NoMisuse` are false (`lifecycle_reuse`, `lifecycle_reuse_table`). `ReturnSlotFits`
  tells a slot from no slot: a recorded size with slot 0 comes only from a refused
  malloc that was survived by an exception, and then no block is held.

`SandboxInvokeProofs` proves the invariants of `SandboxInvoke` for any number of
threads, sandboxes, functions and blocks, and any depth of nesting.

* `StackInv` is about one thread: calls and callbacks alternate on its stack, each
  call remembers the sandbox of the call around it, each callback but the last
  has its key, and `thread_data.sandbox` is the sandbox of the innermost call. Only
  the last part is a property (`ThreadDataIsCurrent`); what makes it inductive is
  that `old_sandbox` is right for every frame below, since a return or an exception
  makes any of them the top. `InterceptorReachesCaller` and `KeyIsOwn` follow, the
  latter because nothing happens on the thread between an interceptor
  and the look-up of its key. One thread's step leaves the other stacks alone,
  but for `crossed`, which `StackInv` does not mention.
* `HeapInv`, on top of it, says who owns each block of a sandbox: the return slot,
  the arguments of each call in progress and what is lost are held and apart
  (`ObjectInv`, `FrameInv`, `PairInv`), nothing else is held (`SandboxInv`), and a
  sandbox serves one thread at a time (`Exclusive`). A call writes to its own
  arguments or to the return slot only, so arguments stand until it
  returns (`ArgumentsIntact`), and the result does unless another call of the same
  sandbox came between, which sets `crossed` (`ResultIsOwn`). `HeapAccounted` is
  the conjunction of its parts.

`MinWasiProofs` proves the invariants of `MinWasi` for any size of `u32`, any memory
contents, arguments, inputs and strings.

* `Typed` is inductive: types, which stage belongs to which call, and
  `InsideMemory`, because every access is behind its check. That the `u32` sum
  of `strings_get` stays in range is part of it.
* `CountsReported` from `Counted`: during a transfer `sum` is the number
  moved, since a sum that passes 2^32 ends the call before.
* `StringsFit` from the loop invariant `StringLoop`: after `i` strings, `sum` is the
  `i`-th sum of sizes, which grows to what `strings_sizes_get` reports
  (`SummedGrows`), and each pointer leads to its string unless the caller made the
  two regions overlap (`Apart`).
* `WrittenIsGathered` from `Gathered`: after `i` iovecs, `out` is what the first
  `i` buffers hold one after another.
* `ClockIsTime` from the uniqueness of quotient and remainder (`DivUnique`,
  `DivOfSum`), for clocks whose 64-bit product does not overflow (`ProductFits`).

`Sizes` and the concatenation of buffers are recursive functions. That such a
function exists is not given in TLA+, and the induction theorems cannot be
instantiated with an operator; `SummedExists` and `JoinedExists` prove
it by contradiction instead: among the lengths without a table of sums there would be a
least one, as `<` is well-founded on the naturals, and the table of its predecessor
can be extended.

The inductive invariants were themselves checked with TLC on instances of the size
of the runs, `IInv` of `CallbackTable` in the run `callback_table`.

Only model-checked: liveness (`MutexReleased`, both `CreateReturns`), as
fairness and ENABLED are out of the prover's reach. The theorems hold of `Spec` and
so of the fair specifications as well.

## 7. Not modelled

* The compile-time conversions of types (hpp 56-320), `next_power_of_two`
  (unused), the build, the empty wrapper and the tests have no run-time state.
* A munmap or VirtualFree that fails: the code prints a message and goes on.
* Callback state after an object is destroyed and created again: `CallbackTable`
  is one life of a sandbox, `SandboxLifecycle` has no callbacks. The members are
  not touched by either operation; the hazard at hpp:640 says what that means.
* Several threads in one sandbox at a time (see `SandboxInvoke`), except where
  the code has a lock for it, in `CallbackTable`.
* `RLBOX_SINGLE_THREADED_INVOCATIONS`, and the storage of the thread data by the
  embedder, which differs from the default only in where the record is.
* RLBox itself, the wasm2c runtime, the generated module, malloc of the
  sandboxed code and the operating system are external: what is assumed of
  them is said at each module.

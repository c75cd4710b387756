-------------------------- MODULE SandboxLifecycle --------------------------
(***************************************************************************)
(* The life of the sandbox objects of include/rlbox_wasm2c_sandbox.hpp:    *)
(* impl_create_sandbox with every check that can fail, class-returning     *)
(* invocations, which keep a return slot inside the sandbox, and           *)
(* impl_destroy_sandbox.  Each object belongs to one thread; the objects   *)
(* share the once flag and the clock data of src/wasm2c_rt_minwasi.c, and  *)
(* their creations interleave there.  What one creation does between two   *)
(* uses of that shared state is one action.                                *)
(***************************************************************************)
EXTENDS Integers

CONSTANTS
  Sandboxes,
  Imported,              \* those whose Wasm module imports its memory and table
  ClockAllocates,        \* the Windows and macOS clocks of minwasi, not Linux's
  RLBOX_USE_EXCEPTIONS,  \* dynamic_check throws, and the program may go on
  Reuse,                 \* an object that is destroyed or failed is created again
  Slots,                 \* addresses the in-sandbox malloc may return; 0 is null
  Sizes,                 \* sizes of the classes that invocations return
  MaxCreates             \* bound: calls of impl_create_sandbox on one object

ASSUME SandboxLifecycleAssumption ==
  /\ Imported \subseteq Sandboxes
  /\ {ClockAllocates, RLBOX_USE_EXCEPTIONS, Reuse} \subseteq BOOLEAN
  /\ Slots \subseteq Nat \ {0} /\ Sizes \subseteq Nat \ {0}
  /\ MaxCreates \in Nat

VARIABLES
  once,                   \* rlbox_wasm2c_initialized
  clock_info,             \* contents of g_wasi_win_clock_info, or the mac one
  g_os_data_initialized,
  clock_refused,          \* history: the operating system refused a clock query
  pc,                     \* where the call on each object is
  infallible,             \* the argument of the create in progress
  creates,                \* how often each object's create was called
  object                  \* the members of each object

sharedVars == <<once, clock_info, g_os_data_initialized, clock_refused>>
vars == <<sharedVars, pc, infallible, creates, object>>

NoHeap == [a \in Slots |-> 0]

\* A constructed object.  instance: the Wasm instance outside of it ("orphan"
\* when nothing will free it); table_data: local_sandbox_callback_table.data;
\* heap: the size of each block of the in-sandbox malloc, 0 when free;
\* called_missing: free was called in an instance that is not there;
\* freed_twice: the table was.
NewObject ==
  [instance_initialized |-> FALSE, minwasi_init_inst_succeeded |-> FALSE,
   instance |-> "none", memory |-> FALSE,
   sandbox_callback_table |-> FALSE, table_data |-> "null",
   clock_data |-> "null", return_slot_size |-> 0, return_slot |-> 0,
   heap |-> NoHeap, called_missing |-> FALSE, freed_twice |-> FALSE]

Set(s, members) == object' = [object EXCEPT ![s] = members]
Goto(s, stage) == pc' = [pc EXCEPT ![s] = stage]

-----------------------------------------------------------------------------
(***************************************************************************)
(* impl_destroy_sandbox, as what it makes of the members                   *)
(***************************************************************************)
FreeSlot(o) ==
  IF o.return_slot_size = 0 THEN o
  ELSE IF o.instance = "none" THEN [o EXCEPT !.called_missing = TRUE]
  ELSE [o EXCEPT !.heap = [a \in Slots |-> IF a = o.return_slot THEN 0 ELSE @[a]]]

FreeInstance(o) ==
  IF o.instance_initialized
  THEN [o EXCEPT !.instance_initialized = FALSE, !.instance = "none", !.heap = NoHeap]
  ELSE o

\* destroy_wasm2c_memory sets data to 0; of the table only the pointer is
\* set to null and its data dangles.
FreeMemory(o) == [o EXCEPT !.memory = FALSE]

FreeTable(o) ==
  IF o.sandbox_callback_table /\ o.table_data # "null"
  THEN [o EXCEPT !.sandbox_callback_table = FALSE, !.table_data = "dangling",
                 !.freed_twice = @ \/ o.table_data = "dangling"]
  ELSE o

\* The test *clock_data_pointer == 0 frees nothing: the pointer stays.
CleanupWasi(o) == [o EXCEPT !.minwasi_init_inst_succeeded = FALSE]

\* Broken variants: the instance goes first; the table is forgotten.
DestroyedTooEarly(o) == CleanupWasi(FreeTable(FreeMemory(FreeSlot(FreeInstance(o)))))
DestroyedButTable(o) == CleanupWasi(FreeMemory(FreeInstance(FreeSlot(o))))

Destroyed(o) == CleanupWasi(FreeTable(FreeMemory(FreeInstance(FreeSlot(o)))))

Destroy(s) ==
  /\ pc[s] = "idle"
  /\ object[s].instance_initialized
  /\ Set(s, Destroyed(object[s]))
  /\ UNCHANGED <<sharedVars, pc, infallible, creates>>

-----------------------------------------------------------------------------
(***************************************************************************)
(* impl_create_sandbox                                                     *)
(***************************************************************************)
\* FALLIBLE_DYNAMIC_CHECK: the cond of the check is false.
CheckFails(s) == Goto(s, "check_failed")

\* An infallible create ends in dynamic_check, which aborts or throws; either
\* way the object is not used again.
Raise(s) ==
  /\ pc[s] = "check_failed"
  /\ infallible[s]
  /\ Goto(s, "raised")
  /\ UNCHANGED <<sharedVars, infallible, creates, object>>

ReturnFalse(s) ==
  /\ pc[s] = "check_failed"
  /\ ~infallible[s]
  /\ Set(s, Destroyed(object[s]))
  /\ Goto(s, "idle")
  /\ UNCHANGED <<sharedVars, infallible, creates>>

\* Creating an object that is live is refused by the first check.
Create(s) ==
  /\ pc[s] = "idle"
  /\ creates[s] < MaxCreates
  /\ creates[s] = 0 \/ object[s].instance_initialized \/ Reuse
  /\ \E i \in BOOLEAN : infallible' = [infallible EXCEPT ![s] = i]
  /\ creates' = [creates EXCEPT ![s] = @ + 1]
  /\ IF object[s].instance_initialized THEN CheckFails(s) ELSE Goto(s, "call_once")
  /\ UNCHANGED <<sharedVars, object>>

\* std::call_once: the first caller runs the lambda, the others wait for it.
\* Linux's os_clock_init does nothing.
CallOnce(s) ==
  /\ pc[s] = "call_once"
  /\ once = "never"
  /\ IF ClockAllocates
     THEN once' = "running" /\ Goto(s, "minwasi_init")
     ELSE once' = "done" /\ Goto(s, "init_instance")
  /\ UNCHANGED <<clock_info, g_os_data_initialized, clock_refused, infallible, creates, object>>

\* Broken variant: who finds the flag taken does not wait.
CallOnceDoesNotWait(s) ==
  /\ pc[s] = "call_once"
  /\ once # "never"
  /\ Goto(s, "init_instance")
  /\ UNCHANGED <<sharedVars, infallible, creates, object>>

\* A later creator's own minwasi_init_succeeded is true, whatever the first saw.
CallOncePassed(s) ==
  /\ pc[s] = "call_once"
  /\ once = "done"
  /\ Goto(s, "init_instance")
  /\ UNCHANGED <<sharedVars, infallible, creates, object>>

\* os_clock_init, from minwasi_init under the once flag or again from
\* os_clock_init_instance: the query starts to fill the global data.
QueryClock(s) ==
  /\ pc[s] \in {"minwasi_init", "init_clock_again"}
  /\ clock_info' = "partial"
  /\ Goto(s, IF pc[s] = "minwasi_init" THEN "minwasi_init_ends" ELSE "init_clock_again_ends")
  /\ UNCHANGED <<once, g_os_data_initialized, clock_refused, infallible, creates, object>>

\* The lambda ends, with whatever result.
EndOnce == once' = "done"

\* Who runs os_clock_init under the once flag, and who runs it again.
InMinwasiInit(s) == pc[s] \in {"minwasi_init", "minwasi_init_ends"}
InitsClockAgain(s) == pc[s] \in {"init_clock_again", "init_clock_again_ends"}

\* Broken variant: a failed lambda leaves the flag taken.
QueryClockFailsInOnce(s) ==
  /\ InMinwasiInit(s) \/ InitsClockAgain(s)
  /\ clock_refused' = TRUE
  /\ IF InMinwasiInit(s) THEN CheckFails(s) ELSE Goto(s, "alloc_clock")
  /\ UNCHANGED <<once, clock_info, g_os_data_initialized, infallible, creates, object>>

\* A refused query, on macOS also the second one, fails minwasi_init;
\* os_clock_init_instance ignores it.
QueryClockFails(s) ==
  /\ InMinwasiInit(s) \/ InitsClockAgain(s)
  /\ clock_refused' = TRUE
  /\ IF InMinwasiInit(s)
     THEN EndOnce /\ CheckFails(s)
     ELSE UNCHANGED once /\ Goto(s, "alloc_clock")
  /\ UNCHANGED <<clock_info, g_os_data_initialized, infallible, creates, object>>

ClockQueried(s) ==
  /\ pc[s] \in {"minwasi_init_ends", "init_clock_again_ends"}
  /\ clock_info' = "ready"
  /\ g_os_data_initialized' = TRUE
  /\ IF pc[s] = "minwasi_init_ends"
     THEN EndOnce /\ Goto(s, "init_instance")
     ELSE UNCHANGED once /\ Goto(s, "alloc_clock")
  /\ UNCHANGED <<clock_refused, infallible, creates, object>>

\* minwasi_init_instance; on Linux it succeeds at once.
InitInstance(s) ==
  /\ pc[s] = "init_instance"
  /\ IF ClockAllocates
     THEN /\ Goto(s, IF g_os_data_initialized THEN "alloc_clock" ELSE "init_clock_again")
          /\ UNCHANGED object
     ELSE /\ Goto(s, "capacity")
          /\ Set(s, [object[s] EXCEPT !.minwasi_init_inst_succeeded = TRUE])
  /\ UNCHANGED <<sharedVars, infallible, creates>>

AllocClock(s) ==
  /\ pc[s] = "alloc_clock"
  /\ \/ /\ Goto(s, "capacity")
        /\ Set(s, [object[s] EXCEPT !.clock_data = clock_info,
                                    !.minwasi_init_inst_succeeded = TRUE])
     \/ /\ CheckFails(s)
        /\ Set(s, [object[s] EXCEPT !.minwasi_init_inst_succeeded = FALSE])
  /\ UNCHANGED <<sharedVars, infallible, creates>>

\* The rest touches nothing shared.  How far it comes: the custom capacity may
\* be invalid, the memory refused, the module a memory64 one, the heap not
\* aligned to 4GB (HeapReservation!LiveHeapsIntact excludes it); the last three
\* with an imported memory only.
WithTablePointer(o) == [o EXCEPT !.sandbox_callback_table = TRUE]
WithMemory(o) == [WithTablePointer(o) EXCEPT !.memory = TRUE]
WithTable(o) == [WithMemory(o) EXCEPT !.table_data = "held"]
WithInstance(o, state) == [o EXCEPT !.instance = state, !.heap = NoHeap]
Initialized(o) == [WithInstance(o, "live") EXCEPT !.instance_initialized = TRUE]

InvalidCapacity(s) ==
  /\ pc[s] = "capacity"
  /\ CheckFails(s)
  /\ UNCHANGED <<sharedVars, infallible, creates, object>>

MemoryRefused(s) ==
  /\ pc[s] = "capacity"
  /\ s \in Imported
  /\ Set(s, WithTablePointer(object[s]))
  /\ CheckFails(s)
  /\ UNCHANGED <<sharedVars, infallible, creates>>

Memory64(s) ==
  /\ pc[s] = "capacity"
  /\ s \in Imported
  /\ Set(s, WithMemory(object[s]))
  /\ CheckFails(s)
  /\ UNCHANGED <<sharedVars, infallible, creates>>

HeapNotAligned(s) ==
  /\ pc[s] = "capacity"
  /\ s \in Imported
  /\ Set(s, WithInstance(WithTable(object[s]), "orphan"))
  /\ CheckFails(s)
  /\ UNCHANGED <<sharedVars, infallible, creates>>

Created(s) ==
  /\ pc[s] = "capacity"
  /\ Set(s, Initialized(IF s \in Imported THEN WithTable(object[s]) ELSE object[s]))
  /\ Goto(s, "idle")
  /\ UNCHANGED <<sharedVars, infallible, creates>>

-----------------------------------------------------------------------------
(***************************************************************************)
(* An invocation that returns a class                                      *)
(***************************************************************************)
SlotFits(o, size) == size <= o.return_slot_size

\* The slot before impl_malloc_in_sandbox is called for a larger one.
WithoutSlot(o) == IF o.return_slot_size # 0 THEN FreeSlot(o) ELSE o

MayReturn(o, a) == a \in Slots /\ o.heap[a] = 0

\* Broken variants: the old slot is kept; one byte too many is written down.
EnsureReturnSlotSizeLeaks(o, size, a) ==
  [o EXCEPT !.return_slot = a, !.return_slot_size = size, !.heap[a] = size]
EnsureReturnSlotSizeOffByOne(o, size, a) ==
  [WithoutSlot(o) EXCEPT !.return_slot = a, !.return_slot_size = size + 1, !.heap[a] = size]

\* ensure_return_slot_size with a malloc that returns a.
EnsureReturnSlotSize(o, size, a) ==
  [WithoutSlot(o) EXCEPT !.return_slot = a, !.return_slot_size = size, !.heap[a] = size]

\* impl_invoke_with_func_ptr, for a function that returns a class of this size.
InvokeReturningClass(s) ==
  /\ pc[s] = "idle"
  /\ object[s].instance_initialized
  /\ \E size \in Sizes :
       /\ ~SlotFits(object[s], size)
       /\ \E a \in Slots :
            /\ MayReturn(WithoutSlot(object[s]), a)
            /\ Set(s, EnsureReturnSlotSize(object[s], size, a))
  /\ UNCHANGED <<sharedVars, pc, infallible, creates>>

\* The in-sandbox malloc returns 0: the check after it fails, with return_slot
\* already overwritten.
SlotRefused(s) ==
  /\ pc[s] = "idle"
  /\ object[s].instance_initialized
  /\ \E size \in Sizes : ~SlotFits(object[s], size)
  /\ Set(s, [WithoutSlot(object[s]) EXCEPT !.return_slot = 0])
  /\ IF RLBOX_USE_EXCEPTIONS THEN UNCHANGED pc ELSE Goto(s, "raised")
  /\ UNCHANGED <<sharedVars, infallible, creates>>

-----------------------------------------------------------------------------
Init ==
  /\ once = "never"
  /\ clock_info = "zero"
  /\ g_os_data_initialized = FALSE
  /\ clock_refused = FALSE
  /\ pc = [s \in Sandboxes |-> "idle"]
  /\ infallible = [s \in Sandboxes |-> FALSE]
  /\ creates = [s \in Sandboxes |-> 0]
  /\ object = [s \in Sandboxes |-> NewObject]

CreateStep(s) ==
  \/ CallOnce(s) \/ CallOncePassed(s)
  \/ QueryClock(s) \/ QueryClockFails(s) \/ ClockQueried(s)
  \/ InitInstance(s) \/ AllocClock(s)
  \/ InvalidCapacity(s) \/ MemoryRefused(s) \/ Memory64(s)
  \/ HeapNotAligned(s) \/ Created(s)
  \/ Raise(s) \/ ReturnFalse(s)

Next ==
  \E s \in Sandboxes :
    Create(s) \/ CreateStep(s) \/ Destroy(s) \/ InvokeReturningClass(s) \/ SlotRefused(s)

Spec == Init /\ [][Next]_vars

\* The thread of a creation goes on whenever the once flag lets it.
FairSpec == Spec /\ \A s \in Sandboxes : WF_vars(CreateStep(s))

-----------------------------------------------------------------------------
(***************************************************************************)
(* Properties                                                              *)
(***************************************************************************)
Stages ==
  {"idle", "call_once", "minwasi_init", "minwasi_init_ends", "init_instance",
   "init_clock_again", "init_clock_again_ends", "alloc_clock", "capacity",
   "check_failed", "raised"}
ClockContents == {"zero", "partial", "ready"}

Objects ==
  [instance_initialized : BOOLEAN, minwasi_init_inst_succeeded : BOOLEAN,
   instance : {"none", "live", "orphan"}, memory : BOOLEAN,
   sandbox_callback_table : BOOLEAN, table_data : {"null", "held", "dangling"},
   clock_data : ClockContents \cup {"null"}, return_slot_size : Sizes \cup {0},
   return_slot : Slots \cup {0}, heap : [Slots -> Sizes \cup {0}],
   called_missing : BOOLEAN, freed_twice : BOOLEAN]

\* Every variable has a value of its type.
TypeOK ==
  /\ once \in {"never", "running", "done"}
  /\ clock_info \in ClockContents
  /\ {g_os_data_initialized, clock_refused} \subseteq BOOLEAN
  /\ pc \in [Sandboxes -> Stages]
  /\ infallible \in [Sandboxes -> BOOLEAN]
  /\ creates \in [Sandboxes -> 0 .. MaxCreates]
  /\ object \in [Sandboxes -> Objects]

Live(s) == pc[s] = "idle" /\ object[s].instance_initialized
Gone(s) == pc[s] = "idle" /\ ~object[s].instance_initialized

\* A fallible create "returns creation status as a return value", so its
\* failure has to reach that return: nothing calls free in a Wasm instance
\* that does not exist.
CallsReachInstance == \A s \in Sandboxes : ~object[s].called_missing

\* For the same reason nothing frees a callback table that was freed before.
TableFreedOnce == \A s \in Sandboxes : ~object[s].freed_twice

\* An object that is created once is destroyed cleanly: neither its destroy nor
\* a failed create, nor a create that finds it live, calls into a missing
\* instance or frees its table twice.  (Under Reuse both happen.)
NoMisuse == CallsReachInstance /\ TableFreedOnce

\* After a destroy, and after a fallible create failed at any of its checks,
\* the memory and the table of the object are released, its instance is freed
\* if it was initialized, and no later destroy cleans up minwasi again.  Two
\* things are not released and not claimed here: an instance whose heap turned
\* out not to be aligned, and the clock data, which CleanupWasi leaves.
ReleasedWhenGone ==
  \A s \in Sandboxes : Gone(s) =>
    /\ ~object[s].memory
    /\ object[s].table_data # "held"
    /\ object[s].instance # "live"
    /\ ~object[s].minwasi_init_inst_succeeded

\* What a create hands out is complete, and its clock is a copy of global data
\* that were completely filled, although only one of the concurrent creators
\* fills them: unless the operating system refused the clock.
CreatedIsComplete ==
  \A s \in Sandboxes : Live(s) =>
    /\ object[s].instance = "live"
    /\ s \in Imported => object[s].memory /\ object[s].table_data = "held"
    /\ object[s].minwasi_init_inst_succeeded
    /\ ClockAllocates /\ ~clock_refused => object[s].clock_data = "ready"

\* The slot in which a live sandbox returns classes is a block of its heap of
\* the recorded size, and the only block the slot logic holds there.  Only a
\* refusal of malloc that the host survived leaves it without a slot although a
\* size is recorded, and then no block is held.
ReturnSlotFits ==
  \A s \in Sandboxes : Live(s) =>
    LET o == object[s]
    IN  /\ o.return_slot # 0 => o.heap = [NoHeap EXCEPT ![o.return_slot] = o.return_slot_size]
        /\ o.return_slot = 0 =>
             o.heap = NoHeap /\ (o.return_slot_size = 0 \/ RLBOX_USE_EXCEPTIONS)

\* Every create returns or raises: no creator waits for ever for the once flag.
CreateReturns == \A s \in Sandboxes : pc[s] # "idle" ~> pc[s] \in {"idle", "raised"}
=============================================================================

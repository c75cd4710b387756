----------------------- MODULE SandboxLifecycleProofs -----------------------
(***************************************************************************)
(* Creations and destructions of sandbox objects for any number of         *)
(* objects, slots and sizes, on every platform.  The argument: between two *)
(* operations an object is in one of a few conditions, which the stages of *)
(* a creation lead from one to the next; creations meet only in the once   *)
(* flag and the clock data behind it.                                      *)
(***************************************************************************)
EXTENDS SandboxLifecycle, TLAPS

Life(s) ==
  Create(s) \/ CreateStep(s) \/ Destroy(s) \/ InvokeReturningClass(s) \/ SlotRefused(s)

\* Where a call of impl_create_sandbox is on its way.
CreateStages == Stages \ {"idle", "check_failed", "raised"}

\* What holds of the members whatever a create or destroy did to them before, and
\* how far they are when the create is that far.
MembersInv ==
  \A s \in Sandboxes :
    LET o == object[s]
    IN  /\ o.instance_initialized <=> o.instance = "live"
        /\ o.table_data = "held" => o.sandbox_callback_table
        /\ pc[s] \in CreateStages => ~o.instance_initialized
        /\ pc[s] \in CreateStages \cup {"idle"} /\ ~o.instance_initialized =>
             ~o.memory /\ o.table_data # "held"
        /\ pc[s] = "capacity" => o.minwasi_init_inst_succeeded
        /\ Gone(s) => ~o.minwasi_init_inst_succeeded
        /\ Live(s) =>
             /\ o.minwasi_init_inst_succeeded
             /\ s \in Imported => o.memory /\ o.table_data = "held"

\* The once flag: one creator at a time fills the global clock data, nobody comes
\* past the flag before that is done, and unless a query was refused nobody fills
\* them again.
ClockInv ==
  ClockAllocates /\ ~clock_refused =>
    /\ once = "done" => clock_info = "ready" /\ g_os_data_initialized
    /\ \A s \in Sandboxes :
         /\ InMinwasiInit(s) => once = "running"
         /\ pc[s] \in {"init_instance", "alloc_clock", "capacity"} => once = "done"
         /\ ~InitsClockAgain(s)
         /\ pc[s] = "capacity" \/ Live(s) => object[s].clock_data = "ready"
    /\ \A s, u \in Sandboxes : InMinwasiInit(s) /\ InMinwasiInit(u) => s = u

\* The slot logic holds the return slot and no other block.
SlotHolds(o) ==
  \A a \in Slots : o.heap[a] = IF a = o.return_slot THEN o.return_slot_size ELSE 0

\* A size without a slot is left by a refusal that was thrown and caught.
SlotKnown(o) == o.return_slot = 0 => o.return_slot_size = 0 \/ RLBOX_USE_EXCEPTIONS

\* An object that is created once: until its create ends it has neither a table
\* nor a slot, afterwards its slot is in its instance's heap and its table is
\* freed with the pointer to it.
OnceInv ==
  ~Reuse =>
    \A s \in Sandboxes :
      LET o == object[s]
      IN  /\ ~o.called_missing /\ ~o.freed_twice
          /\ creates[s] = 0 => pc[s] = "idle" /\ ~o.instance_initialized
          /\ creates[s] = 0 \/ pc[s] \in CreateStages =>
               o.table_data = "null" /\ o.return_slot_size = 0
          /\ o.table_data = "dangling" => ~o.sandbox_callback_table
          /\ pc[s] = "check_failed" /\ o.return_slot_size # 0 => o.instance_initialized
          /\ o.instance_initialized => SlotHolds(o)
          /\ Live(s) => SlotKnown(o)

LifecycleInv == TypeOK /\ MembersInv /\ ClockInv /\ OnceInv

USE DEF Stages

-----------------------------------------------------------------------------
(***************************************************************************)
(* What the operations make of the members                                 *)
(***************************************************************************)
LEMMA NoHeapType == NoHeap \in [Slots -> Sizes \cup {0}]
PROOF
BY DEF NoHeap

LEMMA FreeSlotObject ==
  ASSUME NEW o \in Objects
  PROVE  /\ FreeSlot(o) \in Objects
         /\ FreeSlot(o) = [o EXCEPT !.heap = FreeSlot(o).heap,
                                    !.called_missing = FreeSlot(o).called_missing]
         /\ FreeSlot(o).called_missing =>
              o.called_missing \/ (o.return_slot_size # 0 /\ o.instance = "none")
         /\ o.return_slot_size # 0 /\ o.instance # "none" =>
              FreeSlot(o).heap =
                [a \in Slots |-> IF a = o.return_slot THEN 0 ELSE o.heap[a]]
         /\ o.return_slot_size = 0 => FreeSlot(o) = o
PROOF
<1> USE DEF Objects
<1>1. CASE o.return_slot_size = 0
  <2>1. FreeSlot(o) = o
    BY <1>1 DEF FreeSlot
  <2> QED
    BY <1>1, <2>1
<1>2. CASE o.return_slot_size # 0 /\ o.instance = "none"
  <2>1. FreeSlot(o) = [o EXCEPT !.called_missing = TRUE]
    BY <1>2 DEF FreeSlot
  <2> QED
    BY <1>2, <2>1
<1>3. CASE o.return_slot_size # 0 /\ o.instance # "none"
  <2> DEFINE freed == [a \in Slots |-> IF a = o.return_slot THEN 0 ELSE o.heap[a]]
  <2>1. freed \in [Slots -> Sizes \cup {0}]
    OBVIOUS
  <2>2. FreeSlot(o) = [o EXCEPT !.heap = freed]
    BY <1>3 DEF FreeSlot
  <2> HIDE DEF freed
  <2>3. FreeSlot(o) \in Objects /\ FreeSlot(o).heap = freed
        /\ FreeSlot(o).called_missing = o.called_missing
    BY <2>1, <2>2
  <2>4. FreeSlot(o) = [o EXCEPT !.heap = FreeSlot(o).heap,
                                !.called_missing = FreeSlot(o).called_missing]
    BY <2>2, <2>3
  <2> QED
    BY <1>3, <2>3, <2>4 DEF freed
<1> QED
  BY <1>1, <1>2, <1>3

LEMMA FreeInstanceObject ==
  ASSUME NEW o \in Objects
  PROVE  /\ FreeInstance(o) \in Objects
         /\ ~FreeInstance(o).instance_initialized
         /\ FreeInstance(o).instance =
              IF o.instance_initialized THEN "none" ELSE o.instance
         /\ FreeInstance(o) = [o EXCEPT !.instance_initialized = FALSE,
                                        !.instance = FreeInstance(o).instance,
                                        !.heap = FreeInstance(o).heap]
PROOF
<1> USE DEF Objects
<1>1. CASE o.instance_initialized
  <2>1. FreeInstance(o) = [o EXCEPT !.instance_initialized = FALSE, !.instance = "none",
                                    !.heap = NoHeap]
    BY <1>1 DEF FreeInstance
  <2> QED
    BY <1>1, <2>1, NoHeapType
<1>2. CASE ~o.instance_initialized
  <2>1. FreeInstance(o) = o /\ o.instance_initialized = FALSE
    BY <1>2 DEF FreeInstance
  <2> QED
    BY <1>2, <2>1
<1> QED
  BY <1>1, <1>2

LEMMA FreeTableObject ==
  ASSUME NEW o \in Objects
  PROVE  /\ FreeTable(o) \in Objects
         /\ FreeTable(o) = [o EXCEPT !.sandbox_callback_table = FreeTable(o).sandbox_callback_table,
                                     !.table_data = FreeTable(o).table_data,
                                     !.freed_twice = FreeTable(o).freed_twice]
         /\ FreeTable(o).table_data =
              IF o.sandbox_callback_table /\ o.table_data # "null"
              THEN "dangling" ELSE o.table_data
         /\ FreeTable(o).sandbox_callback_table =>
              o.sandbox_callback_table /\ o.table_data = "null"
         /\ FreeTable(o).freed_twice =>
              o.freed_twice \/ (o.sandbox_callback_table /\ o.table_data = "dangling")
PROOF
<1> USE DEF Objects
<1>1. CASE o.sandbox_callback_table /\ o.table_data # "null"
  <2> DEFINE twice == o.freed_twice \/ o.table_data = "dangling"
  <2>1. FreeTable(o) = [o EXCEPT !.sandbox_callback_table = FALSE, !.table_data = "dangling",
                                 !.freed_twice = twice]
    BY <1>1 DEF FreeTable
  <2>2. twice \in BOOLEAN
    OBVIOUS
  <2>3. twice => o.freed_twice \/ (o.sandbox_callback_table /\ o.table_data = "dangling")
    BY <1>1
  <2> HIDE DEF twice
  <2>4. FreeTable(o) \in Objects
    BY <2>1, <2>2
  <2>5. /\ FreeTable(o).sandbox_callback_table = FALSE
        /\ FreeTable(o).table_data = "dangling" /\ FreeTable(o).freed_twice = twice
    BY <2>1
  <2>6. FreeTable(o) = [o EXCEPT !.sandbox_callback_table = FreeTable(o).sandbox_callback_table,
                                 !.table_data = FreeTable(o).table_data,
                                 !.freed_twice = FreeTable(o).freed_twice]
    BY <2>1, <2>5
  <2> QED
    BY <1>1, <2>3, <2>4, <2>5, <2>6
<1>2. CASE ~(o.sandbox_callback_table /\ o.table_data # "null")
  <2>1. FreeTable(o) = o
    BY <1>2 DEF FreeTable
  <2> QED
    BY <1>2, <2>1
<1> QED
  BY <1>1, <1>2

\* impl_destroy_sandbox as a whole.
LEMMA DestroyedObject ==
  ASSUME NEW o \in Objects
  PROVE  /\ Destroyed(o) \in Objects
         /\ ~Destroyed(o).instance_initialized
         /\ Destroyed(o).instance = IF o.instance_initialized THEN "none" ELSE o.instance
         /\ ~Destroyed(o).memory
         /\ ~Destroyed(o).minwasi_init_inst_succeeded
         /\ Destroyed(o).table_data =
              IF o.sandbox_callback_table /\ o.table_data # "null"
              THEN "dangling" ELSE o.table_data
         /\ Destroyed(o).sandbox_callback_table =>
              o.sandbox_callback_table /\ o.table_data = "null"
         /\ Destroyed(o).called_missing =>
              o.called_missing \/ (o.return_slot_size # 0 /\ o.instance = "none")
         /\ Destroyed(o).freed_twice =>
              o.freed_twice \/ (o.sandbox_callback_table /\ o.table_data = "dangling")
         /\ Destroyed(o).return_slot_size = o.return_slot_size
PROOF
<1> DEFINE o1 == FreeSlot(o)
           o2 == FreeInstance(o1)
           o3 == FreeMemory(o2)
           o4 == FreeTable(o3)
           o5 == CleanupWasi(o4)
<1>1. Destroyed(o) = o5
  BY DEF Destroyed
<1>2. /\ o1 \in Objects
      /\ o1 = [o EXCEPT !.heap = o1.heap, !.called_missing = o1.called_missing]
      /\ o1.called_missing =>
           o.called_missing \/ (o.return_slot_size # 0 /\ o.instance = "none")
  BY FreeSlotObject
<1> HIDE DEF o1
<1>3. /\ o2 \in Objects /\ ~o2.instance_initialized
      /\ o2.instance = IF o1.instance_initialized THEN "none" ELSE o1.instance
      /\ o2 = [o1 EXCEPT !.instance_initialized = FALSE, !.instance = o2.instance,
                         !.heap = o2.heap]
  BY <1>2, FreeInstanceObject
<1> HIDE DEF o2
<1>4. o3 \in Objects /\ o3 = [o2 EXCEPT !.memory = FALSE]
  BY <1>3 DEF FreeMemory, Objects
<1> HIDE DEF o3
<1>5. /\ o4 \in Objects
      /\ o4 = [o3 EXCEPT !.sandbox_callback_table = o4.sandbox_callback_table,
                         !.table_data = o4.table_data, !.freed_twice = o4.freed_twice]
      /\ o4.table_data = IF o3.sandbox_callback_table /\ o3.table_data # "null"
                         THEN "dangling" ELSE o3.table_data
      /\ o4.sandbox_callback_table => o3.sandbox_callback_table /\ o3.table_data = "null"
      /\ o4.freed_twice =>
           o3.freed_twice \/ (o3.sandbox_callback_table /\ o3.table_data = "dangling")
  BY <1>4, FreeTableObject
<1> HIDE DEF o4
<1>6. o5 \in Objects /\ o5 = [o4 EXCEPT !.minwasi_init_inst_succeeded = FALSE]
  <2>1. o4 \in Objects
    BY <1>5
  <2> QED
    BY ONLY <2>1 DEF CleanupWasi, Objects, o5
<1> HIDE DEF o5
<1>7. /\ o1.instance_initialized = o.instance_initialized /\ o1.instance = o.instance
      /\ o1.sandbox_callback_table = o.sandbox_callback_table
      /\ o1.table_data = o.table_data /\ o1.freed_twice = o.freed_twice
      /\ o1.return_slot_size = o.return_slot_size
  BY <1>2 DEF Objects
<1>8. /\ o3.sandbox_callback_table = o1.sandbox_callback_table
      /\ o3.table_data = o1.table_data /\ o3.freed_twice = o1.freed_twice
      /\ o3.called_missing = o1.called_missing
      /\ o3.return_slot_size = o1.return_slot_size
      /\ o3.instance_initialized = FALSE /\ o3.instance = o2.instance /\ o3.memory = FALSE
  BY <1>2, <1>3, <1>4 DEF Objects
<1>9. /\ o4.called_missing = o3.called_missing
      /\ o4.return_slot_size = o3.return_slot_size
      /\ o4.instance_initialized = FALSE /\ o4.instance = o3.instance /\ o4.memory = FALSE
  <2>1. o3 \in Objects /\ o4 = [o3 EXCEPT !.sandbox_callback_table = o4.sandbox_callback_table,
                                          !.table_data = o4.table_data,
                                          !.freed_twice = o4.freed_twice]
    BY <1>4, <1>5
  <2>2. o4.called_missing = o3.called_missing /\ o4.return_slot_size = o3.return_slot_size
    BY ONLY <2>1 DEF Objects
  <2>3. /\ o4.instance_initialized = o3.instance_initialized
        /\ o4.instance = o3.instance /\ o4.memory = o3.memory
    BY ONLY <2>1 DEF Objects
  <2> QED
    BY <1>8, <2>2, <2>3
<1>10. /\ o5.sandbox_callback_table = o4.sandbox_callback_table
       /\ o5.table_data = o4.table_data /\ o5.freed_twice = o4.freed_twice
       /\ o5.called_missing = o4.called_missing
       /\ o5.return_slot_size = o4.return_slot_size
       /\ o5.instance_initialized = o4.instance_initialized
       /\ o5.instance = o4.instance /\ o5.memory = o4.memory
       /\ o5.minwasi_init_inst_succeeded = FALSE
  BY <1>5, <1>6 DEF Objects
<1> QED
  BY <1>1, <1>2, <1>3, <1>5, <1>6, <1>7, <1>8, <1>9, <1>10

\* ensure_return_slot_size: the old block is freed before the new one is taken.
LEMMA WithoutSlotObject ==
  ASSUME NEW o \in Objects, o.instance = "live"
  PROVE  /\ WithoutSlot(o) \in Objects
         /\ WithoutSlot(o) = [o EXCEPT !.heap = WithoutSlot(o).heap]
         /\ o.return_slot_size # 0 =>
              WithoutSlot(o).heap =
                [a \in Slots |-> IF a = o.return_slot THEN 0 ELSE o.heap[a]]
         /\ o.return_slot_size = 0 => WithoutSlot(o) = o
PROOF
<1>1. CASE o.return_slot_size = 0
  <2>1. WithoutSlot(o) = o
    BY <1>1 DEF WithoutSlot
  <2> QED
    BY <1>1, <2>1 DEF Objects
<1>2. CASE o.return_slot_size # 0
  <2>1. WithoutSlot(o) = FreeSlot(o)
    BY <1>2 DEF WithoutSlot
  <2>2. /\ FreeSlot(o) \in Objects
        /\ FreeSlot(o).heap = [a \in Slots |-> IF a = o.return_slot THEN 0 ELSE o.heap[a]]
    BY <1>2, FreeSlotObject
  <2>3. FreeSlot(o) = [o EXCEPT !.heap = [a \in Slots |-> IF a = o.return_slot THEN 0
                                                          ELSE o.heap[a]]]
    BY <1>2 DEF FreeSlot
  <2>4. FreeSlot(o) = [o EXCEPT !.heap = FreeSlot(o).heap]
    BY <2>2, <2>3
  <2> QED
    BY <1>2, <2>1, <2>2, <2>4
<1> QED
  BY <1>1, <1>2

-----------------------------------------------------------------------------
(***************************************************************************)
(* Types                                                                   *)
(***************************************************************************)
\* The new members of an object whose invocation needed a larger slot.
LEMMA SlotObject ==
  ASSUME NEW o \in Objects, o.instance = "live", NEW size \in Sizes, NEW a \in Slots
  PROVE  /\ EnsureReturnSlotSize(o, size, a) \in Objects
         /\ EnsureReturnSlotSize(o, size, a) =
              [o EXCEPT !.return_slot = a, !.return_slot_size = size,
                        !.heap = [WithoutSlot(o).heap EXCEPT ![a] = size]]
PROOF
<1> DEFINE w == WithoutSlot(o)
<1>1. w \in Objects /\ w = [o EXCEPT !.heap = w.heap]
  BY WithoutSlotObject
<1>2. EnsureReturnSlotSize(o, size, a) =
        [w EXCEPT !.return_slot = a, !.return_slot_size = size, !.heap[a] = size]
  BY DEF EnsureReturnSlotSize
<1> HIDE DEF w
<1> DEFINE heap == [w.heap EXCEPT ![a] = size]
           new == [w EXCEPT !.return_slot = a, !.return_slot_size = size, !.heap = heap]
<1>3. heap \in [Slots -> Sizes \cup {0}]
  BY <1>1 DEF Objects
<1>4. EnsureReturnSlotSize(o, size, a) = new
  BY <1>1, <1>2 DEF Objects
<1>5. new \in Objects
  <2> HIDE DEF heap
  <2> QED BY <1>1, <1>3 DEF Objects
<1>6. new = [o EXCEPT !.return_slot = a, !.return_slot_size = size, !.heap = heap]
  <2> HIDE DEF heap
  <2> QED BY <1>1 DEF Objects
<1> QED
  BY <1>4, <1>5, <1>6 DEF w

\* How far a creation comes: the members it sets.
LEMMA CreationObjects ==
  ASSUME NEW o \in Objects
  PROVE  /\ WithTablePointer(o) = [o EXCEPT !.sandbox_callback_table = TRUE]
         /\ WithTablePointer(o) \in Objects
         /\ WithMemory(o) = [o EXCEPT !.sandbox_callback_table = TRUE, !.memory = TRUE]
         /\ WithMemory(o) \in Objects
         /\ WithTable(o) = [o EXCEPT !.sandbox_callback_table = TRUE, !.memory = TRUE,
                                     !.table_data = "held"]
         /\ WithTable(o) \in Objects
         /\ WithInstance(o, "orphan") = [o EXCEPT !.instance = "orphan", !.heap = NoHeap]
         /\ WithInstance(o, "orphan") \in Objects
         /\ Initialized(o) = [o EXCEPT !.instance = "live", !.heap = NoHeap,
                                       !.instance_initialized = TRUE]
         /\ Initialized(o) \in Objects
PROOF
<1> USE DEF Objects
<1>1. /\ WithTablePointer(o) = [o EXCEPT !.sandbox_callback_table = TRUE]
      /\ WithTablePointer(o) \in Objects
  BY DEF WithTablePointer
<1>2. /\ WithMemory(o) = [o EXCEPT !.sandbox_callback_table = TRUE, !.memory = TRUE]
      /\ WithMemory(o) \in Objects
  BY <1>1 DEF WithMemory
<1>3. /\ WithTable(o) = [o EXCEPT !.sandbox_callback_table = TRUE, !.memory = TRUE,
                                  !.table_data = "held"]
      /\ WithTable(o) \in Objects
  BY <1>2 DEF WithTable
<1>4. /\ WithInstance(o, "orphan") = [o EXCEPT !.instance = "orphan", !.heap = NoHeap]
      /\ WithInstance(o, "orphan") \in Objects
  BY NoHeapType DEF WithInstance
<1>5. /\ Initialized(o) = [o EXCEPT !.instance = "live", !.heap = NoHeap,
                                    !.instance_initialized = TRUE]
      /\ Initialized(o) \in Objects
  BY NoHeapType DEF WithInstance, Initialized
<1> QED
  BY <1>1, <1>2, <1>3, <1>4, <1>5

\* What a step does to the members of its object.
LEMMA StepObject ==
  ASSUME TypeOK, MembersInv, NEW s \in Sandboxes, Life(s)
  PROVE  object' \in [Sandboxes -> Objects]
PROOF
<1>1. object \in [Sandboxes -> Objects] /\ object[s] \in Objects
  BY DEF TypeOK
<1> DEFINE o == object[s]
<1>2. ASSUME NEW new \in Objects, Set(s, new) PROVE object' \in [Sandboxes -> Objects]
  BY <1>1, <1>2 DEF Set
<1>3. CASE Create(s) \/ CallOnce(s) \/ CallOncePassed(s) \/ QueryClock(s) \/ QueryClockFails(s)
           \/ ClockQueried(s) \/ InvalidCapacity(s) \/ Raise(s)
  BY <1>1, <1>3
  DEF Create, CallOnce, CallOncePassed, QueryClock, QueryClockFails, ClockQueried,
      InvalidCapacity, Raise
<1>4. CASE Destroy(s) \/ ReturnFalse(s)
  BY <1>1, <1>2, <1>4, DestroyedObject DEF Destroy, ReturnFalse
<1>5. CASE InitInstance(s)
  <2>1. [o EXCEPT !.minwasi_init_inst_succeeded = TRUE] \in Objects
    BY <1>1 DEF Objects
  <2> QED
    BY <1>1, <1>2, <1>5, <2>1 DEF InitInstance
<1>6. CASE AllocClock(s)
  <2>1. clock_info \in ClockContents
    BY DEF TypeOK
  <2>2. [o EXCEPT !.clock_data = clock_info, !.minwasi_init_inst_succeeded = TRUE] \in Objects
    BY <1>1, <2>1 DEF Objects
  <2>3. [o EXCEPT !.minwasi_init_inst_succeeded = FALSE] \in Objects
    BY <1>1 DEF Objects
  <2> QED
    BY <1>2, <1>6, <2>2, <2>3 DEF AllocClock
<1>7. CASE MemoryRefused(s) \/ Memory64(s)
  BY <1>1, <1>2, <1>7, CreationObjects DEF MemoryRefused, Memory64
<1>8. CASE HeapNotAligned(s)
  BY <1>1, <1>2, <1>8, CreationObjects DEF HeapNotAligned
<1>9. CASE Created(s)
  <2>1. WithTable(o) \in Objects /\ Initialized(WithTable(o)) \in Objects
        /\ Initialized(o) \in Objects
    BY <1>1, CreationObjects
  <2>2. Initialized(IF s \in Imported THEN WithTable(o) ELSE o) \in Objects
    BY <2>1
  <2> QED
    BY <1>2, <1>9, <2>2 DEF Created
<1>10. CASE InvokeReturningClass(s)
  <2>1. o.instance = "live"
    BY <1>10 DEF InvokeReturningClass, MembersInv
  <2>2. PICK size \in Sizes, a \in Slots : Set(s, EnsureReturnSlotSize(o, size, a))
    BY <1>10 DEF InvokeReturningClass
  <2> QED
    BY <1>1, <1>2, <2>1, <2>2, SlotObject
<1>11. CASE SlotRefused(s)
  <2>1. o.instance = "live"
    BY <1>11 DEF SlotRefused, MembersInv
  <2>2. WithoutSlot(o) \in Objects
    BY <1>1, <2>1, WithoutSlotObject
  <2>3. [WithoutSlot(o) EXCEPT !.return_slot = 0] \in Objects
    BY <2>2 DEF Objects
  <2> QED
    BY <1>2, <1>11, <2>3 DEF SlotRefused
<1> QED
  BY <1>3, <1>4, <1>5, <1>6, <1>7, <1>8, <1>9, <1>10, <1>11 DEF Life, CreateStep

LEMMA StepTypes ==
  ASSUME TypeOK, MembersInv, NEW s \in Sandboxes, Life(s)
  PROVE  TypeOK'
PROOF
<1>1. /\ once \in {"never", "running", "done"} /\ clock_info \in ClockContents
      /\ g_os_data_initialized \in BOOLEAN /\ clock_refused \in BOOLEAN
      /\ pc \in [Sandboxes -> Stages] /\ infallible \in [Sandboxes -> BOOLEAN]
      /\ creates \in [Sandboxes -> 0 .. MaxCreates] /\ MaxCreates \in Nat
  BY SandboxLifecycleAssumption DEF TypeOK
<1>2. object' \in [Sandboxes -> Objects]
  BY StepObject
<1>3. /\ once' \in {"never", "running", "done"} /\ clock_info' \in ClockContents
      /\ g_os_data_initialized' \in BOOLEAN /\ clock_refused' \in BOOLEAN
  BY <1>1
  DEF Life, CreateStep, Create, CallOnce, CallOncePassed, QueryClock, QueryClockFails,
      ClockQueried, InitInstance, AllocClock, InvalidCapacity, MemoryRefused, Memory64,
      HeapNotAligned, Created, Raise, ReturnFalse, Destroy, InvokeReturningClass, SlotRefused,
      sharedVars, EndOnce, ClockContents
<1>4. pc' \in [Sandboxes -> Stages]
  <2>1. PICK stage \in Stages : pc' = [pc EXCEPT ![s] = stage] \/ pc' = pc
    BY DEF Life, CreateStep, Create, CallOnce, CallOncePassed, QueryClock, QueryClockFails,
           ClockQueried, InitInstance, AllocClock, InvalidCapacity, MemoryRefused, Memory64,
           HeapNotAligned, Created, Raise, ReturnFalse, Destroy, InvokeReturningClass,
           SlotRefused, CheckFails, Goto
  <2> QED
    BY <1>1, <2>1
<1>5. infallible' \in [Sandboxes -> BOOLEAN]
  <2>1. infallible' = infallible \/ \E i \in BOOLEAN : infallible' = [infallible EXCEPT ![s] = i]
    BY DEF Life, CreateStep, Create, CallOnce, CallOncePassed, QueryClock, QueryClockFails,
           ClockQueried, InitInstance, AllocClock, InvalidCapacity, MemoryRefused, Memory64,
           HeapNotAligned, Created, Raise, ReturnFalse, Destroy, InvokeReturningClass,
           SlotRefused
  <2> QED
    BY <1>1, <2>1
<1>6. creates' \in [Sandboxes -> 0 .. MaxCreates]
  <2>1. creates' = creates
          \/ (creates[s] < MaxCreates /\ creates' = [creates EXCEPT ![s] = creates[s] + 1])
    BY DEF Life, CreateStep, Create, CallOnce, CallOncePassed, QueryClock, QueryClockFails,
           ClockQueried, InitInstance, AllocClock, InvalidCapacity, MemoryRefused, Memory64,
           HeapNotAligned, Created, Raise, ReturnFalse, Destroy, InvokeReturningClass,
           SlotRefused
  <2> QED
    BY <1>1, <2>1
<1>7. {g_os_data_initialized', clock_refused'} \subseteq BOOLEAN
  BY <1>3
<1> QED
  BY <1>2, <1>3, <1>4, <1>5, <1>6, <1>7 DEF TypeOK, ClockContents, Objects

-----------------------------------------------------------------------------
(***************************************************************************)
(* Steps                                                                   *)
(***************************************************************************)
\* A step on one object leaves the others alone, and how far their calls are.
LEMMA OthersKept ==
  ASSUME TypeOK, NEW s \in Sandboxes, Life(s), NEW u \in Sandboxes \ {s}
  PROVE  pc'[u] = pc[u] /\ creates'[u] = creates[u] /\ object'[u] = object[u]
PROOF
<1> USE DEF TypeOK
<1>1. pc'[u] = pc[u]
  BY DEF Life, CreateStep, Create, CallOnce, CallOncePassed, QueryClock, QueryClockFails,
         ClockQueried, InitInstance, AllocClock, InvalidCapacity, MemoryRefused, Memory64,
         HeapNotAligned, Created, Raise, ReturnFalse, Destroy, InvokeReturningClass,
         SlotRefused, CheckFails, Goto
<1>2. creates'[u] = creates[u]
  BY DEF Life, CreateStep, Create, CallOnce, CallOncePassed, QueryClock, QueryClockFails,
         ClockQueried, InitInstance, AllocClock, InvalidCapacity, MemoryRefused, Memory64,
         HeapNotAligned, Created, Raise, ReturnFalse, Destroy, InvokeReturningClass,
         SlotRefused
<1>3. object'[u] = object[u]
  BY DEF Life, CreateStep, Create, CallOnce, CallOncePassed, QueryClock, QueryClockFails,
         ClockQueried, InitInstance, AllocClock, InvalidCapacity, MemoryRefused, Memory64,
         HeapNotAligned, Created, Raise, ReturnFalse, Destroy, InvokeReturningClass,
         SlotRefused, Set
<1> QED
  BY <1>1, <1>2, <1>3

\* What an invocation that needs a larger slot makes of its object.
SameButSlot(o, new) ==
  /\ new.instance_initialized = o.instance_initialized
  /\ new.minwasi_init_inst_succeeded = o.minwasi_init_inst_succeeded
  /\ new.instance = o.instance
  /\ new.memory = o.memory
  /\ new.sandbox_callback_table = o.sandbox_callback_table
  /\ new.table_data = o.table_data
  /\ new.clock_data = o.clock_data
  /\ new.called_missing = o.called_missing
  /\ new.freed_twice = o.freed_twice

LEMMA SlotSteps ==
  ASSUME TypeOK, MembersInv, NEW s \in Sandboxes, InvokeReturningClass(s) \/ SlotRefused(s)
  PROVE  /\ pc[s] = "idle" /\ pc'[s] \in {"idle", "raised"} /\ creates' = creates
         /\ object[s].instance_initialized /\ object[s].instance = "live"
         /\ SameButSlot(object[s], object'[s])
         /\ SlotHolds(object[s]) => SlotHolds(object'[s])
         /\ pc'[s] = "idle" => SlotKnown(object'[s])
PROOF
<1> DEFINE o == object[s]
           w == WithoutSlot(o)
<1>1. /\ o \in Objects /\ object \in [Sandboxes -> Objects] /\ pc \in [Sandboxes -> Stages]
      /\ 0 \notin Slots
  BY SandboxLifecycleAssumption DEF TypeOK
<1>2. pc[s] = "idle" /\ creates' = creates /\ o.instance_initialized
  BY DEF InvokeReturningClass, SlotRefused
<1>3. o.instance = "live"
  BY <1>2 DEF MembersInv
<1>4. pc'[s] \in {"idle", "raised"}
  BY <1>1, <1>2 DEF InvokeReturningClass, SlotRefused, Goto
<1>5. /\ w \in Objects /\ w = [o EXCEPT !.heap = w.heap]
      /\ o.return_slot_size # 0 =>
           w.heap = [a \in Slots |-> IF a = o.return_slot THEN 0 ELSE o.heap[a]]
      /\ o.return_slot_size = 0 => w = o
  BY <1>1, <1>3, WithoutSlotObject
<1>6. w.heap \in [Slots -> Sizes \cup {0}]
  BY <1>5 DEF Objects
<1>7. SlotHolds(o) => \A a \in Slots : w.heap[a] = 0
  <2>1. CASE o.return_slot_size = 0
    BY <1>5, <2>1 DEF SlotHolds
  <2>2. CASE o.return_slot_size # 0
    BY <1>5, <2>2 DEF SlotHolds
  <2> QED
    BY <2>1, <2>2
<1>8. CASE InvokeReturningClass(s)
  <2>1. PICK size \in Sizes, b \in Slots : Set(s, EnsureReturnSlotSize(o, size, b))
    BY <1>8 DEF InvokeReturningClass
  <2> DEFINE heap == [w.heap EXCEPT ![b] = size]
  <2>2. EnsureReturnSlotSize(o, size, b) =
          [o EXCEPT !.return_slot = b, !.return_slot_size = size, !.heap = heap]
    BY <1>1, <1>3, SlotObject
  <2>3. object'[s] = [o EXCEPT !.return_slot = b, !.return_slot_size = size, !.heap = heap]
    BY <1>1, <2>1, <2>2 DEF Set
  <2>4. SlotHolds(o) => \A a \in Slots : heap[a] = IF a = b THEN size ELSE 0
    BY <1>6, <1>7
  <2> HIDE DEF heap
  <2>5. SameButSlot(o, object'[s])
    BY <1>1, <2>3 DEF SameButSlot, Objects
  <2>6. object'[s].return_slot = b /\ object'[s].return_slot_size = size
        /\ object'[s].heap = heap
    BY <1>1, <2>3 DEF Objects
  <2>7. SlotHolds(o) => SlotHolds(object'[s])
    BY <2>4, <2>6 DEF SlotHolds
  <2>8. SlotKnown(object'[s])
    BY <1>1, <2>6 DEF SlotKnown
  <2> QED
    BY <1>2, <1>3, <1>4, <2>5, <2>7, <2>8
<1>9. CASE SlotRefused(s)
  <2>1. object'[s] = [w EXCEPT !.return_slot = 0]
    BY <1>1, <1>9 DEF SlotRefused, Set
  <2> HIDE DEF w
  <2>2. SameButSlot(o, object'[s])
    BY <1>1, <1>5, <2>1 DEF SameButSlot, Objects
  <2>3. object'[s].return_slot = 0 /\ object'[s].heap = w.heap
    BY <1>5, <2>1 DEF Objects
  <2>4. SlotHolds(o) => SlotHolds(object'[s])
    BY <1>1, <1>7, <2>3 DEF SlotHolds
  <2>5. pc'[s] = "idle" => SlotKnown(object'[s])
    BY <1>1, <1>9 DEF SlotRefused, Goto, SlotKnown
  <2> QED
    BY <1>2, <1>3, <1>4, <2>2, <2>4, <2>5
<1> QED
  BY <1>8, <1>9

\* A creation that ends at its check of the alignment, and one that succeeds.
LEMMA LastObjects ==
  ASSUME NEW o \in Objects, NEW s \in Sandboxes
  PROVE  /\ WithInstance(WithTable(o), "orphan") =
              [o EXCEPT !.sandbox_callback_table = TRUE, !.memory = TRUE,
                        !.table_data = "held", !.instance = "orphan", !.heap = NoHeap]
         /\ s \in Imported =>
              Initialized(IF s \in Imported THEN WithTable(o) ELSE o) =
                [o EXCEPT !.sandbox_callback_table = TRUE, !.memory = TRUE,
                          !.table_data = "held", !.instance = "live", !.heap = NoHeap,
                          !.instance_initialized = TRUE]
         /\ s \notin Imported =>
              Initialized(IF s \in Imported THEN WithTable(o) ELSE o) =
                [o EXCEPT !.instance = "live", !.heap = NoHeap, !.instance_initialized = TRUE]
PROOF
<1> DEFINE w == WithTable(o)
<1>1. w \in Objects /\ w = [o EXCEPT !.sandbox_callback_table = TRUE, !.memory = TRUE,
                                     !.table_data = "held"]
  BY CreationObjects
<1>2. /\ Initialized(o) = [o EXCEPT !.instance = "live", !.heap = NoHeap,
                                    !.instance_initialized = TRUE]
      /\ Initialized(w) = [w EXCEPT !.instance = "live", !.heap = NoHeap,
                                    !.instance_initialized = TRUE]
      /\ WithInstance(w, "orphan") = [w EXCEPT !.instance = "orphan", !.heap = NoHeap]
  BY <1>1, CreationObjects
<1> HIDE DEF w
<1>3. WithInstance(w, "orphan") =
        [o EXCEPT !.sandbox_callback_table = TRUE, !.memory = TRUE, !.table_data = "held",
                  !.instance = "orphan", !.heap = NoHeap]
  BY <1>1, <1>2 DEF Objects
<1>4. Initialized(w) =
        [o EXCEPT !.sandbox_callback_table = TRUE, !.memory = TRUE, !.table_data = "held",
                  !.instance = "live", !.heap = NoHeap, !.instance_initialized = TRUE]
  BY <1>1, <1>2 DEF Objects
<1> QED
  BY <1>2, <1>3, <1>4 DEF w

LEMMA StepMembers ==
  ASSUME TypeOK, MembersInv, NEW s \in Sandboxes, Life(s)
  PROVE  MembersInv'
PROOF
<1> DEFINE M(u) == LET o == object[u]
                   IN  /\ o.instance_initialized <=> o.instance = "live"
                       /\ o.table_data = "held" => o.sandbox_callback_table
                       /\ pc[u] \in CreateStages => ~o.instance_initialized
                       /\ pc[u] \in CreateStages \cup {"idle"} /\ ~o.instance_initialized =>
                            ~o.memory /\ o.table_data # "held"
                       /\ pc[u] = "capacity" => o.minwasi_init_inst_succeeded
                       /\ Gone(u) => ~o.minwasi_init_inst_succeeded
                       /\ Live(u) =>
                            /\ o.minwasi_init_inst_succeeded
                            /\ u \in Imported => o.memory /\ o.table_data = "held"
<1> USE DEF CreateStages, Gone, Live
<1>1. \A u \in Sandboxes : M(u)
  BY DEF MembersInv
<1>2. /\ object[s] \in Objects /\ object \in [Sandboxes -> Objects]
      /\ pc \in [Sandboxes -> Stages] /\ M(s)
  BY <1>1 DEF TypeOK
<1>3. \A u \in Sandboxes \ {s} : M(u)'
  BY <1>1, OthersKept
<1>4. M(s)'
  <2>1. CASE Create(s)
    BY <1>2, <2>1 DEF Create, CheckFails, Goto
  <2>2. CASE CallOnce(s) \/ CallOncePassed(s) \/ QueryClock(s) \/ QueryClockFails(s)
             \/ ClockQueried(s)
    BY <1>2, <2>2
    DEF CallOnce, CallOncePassed, QueryClock, QueryClockFails, ClockQueried, CheckFails, Goto,
        InMinwasiInit, InitsClockAgain
  <2>3. CASE InvalidCapacity(s) \/ Raise(s)
    BY <1>2, <2>3 DEF InvalidCapacity, Raise, CheckFails, Goto
  <2>4. CASE InitInstance(s)
    <3>1. CASE ClockAllocates
      BY <1>2, <2>4, <3>1 DEF InitInstance, Goto
    <3>2. CASE ~ClockAllocates
      <4>1. object'[s] = [object[s] EXCEPT !.minwasi_init_inst_succeeded = TRUE]
            /\ pc[s] = "init_instance" /\ pc'[s] = "capacity"
        BY <1>2, <2>4, <3>2 DEF InitInstance, Goto, Set
      <4> QED
        BY <1>2, <4>1 DEF Objects
    <3> QED
      BY <3>1, <3>2
  <2>5. CASE AllocClock(s)
    <3>1. pc[s] = "alloc_clock"
      BY <2>5 DEF AllocClock
    <3>2. CASE /\ pc'[s] = "capacity"
               /\ object'[s] = [object[s] EXCEPT !.clock_data = clock_info,
                                                 !.minwasi_init_inst_succeeded = TRUE]
      BY <1>2, <3>1, <3>2 DEF Objects
    <3>3. CASE /\ pc'[s] = "check_failed"
               /\ object'[s] = [object[s] EXCEPT !.minwasi_init_inst_succeeded = FALSE]
      BY <1>2, <3>1, <3>3 DEF Objects
    <3> QED
      BY <1>2, <2>5, <3>2, <3>3 DEF AllocClock, CheckFails, Goto, Set
  <2>6. CASE MemoryRefused(s)
    <3>1. object'[s] = [object[s] EXCEPT !.sandbox_callback_table = TRUE]
          /\ pc[s] = "capacity" /\ pc'[s] = "check_failed"
      BY <1>2, <2>6, CreationObjects DEF MemoryRefused, CheckFails, Goto, Set
    <3> QED
      BY <1>2, <3>1 DEF Objects
  <2>7. CASE Memory64(s)
    <3>1. object'[s] = [object[s] EXCEPT !.sandbox_callback_table = TRUE, !.memory = TRUE]
          /\ pc[s] = "capacity" /\ pc'[s] = "check_failed"
      BY <1>2, <2>7, CreationObjects DEF Memory64, CheckFails, Goto, Set
    <3> QED
      BY <1>2, <3>1 DEF Objects
  <2>8. CASE HeapNotAligned(s)
    <3>1. /\ object'[s] = [object[s] EXCEPT !.sandbox_callback_table = TRUE, !.memory = TRUE,
                             !.table_data = "held", !.instance = "orphan", !.heap = NoHeap]
          /\ pc[s] = "capacity" /\ pc'[s] = "check_failed"
      BY <1>2, <2>8, LastObjects DEF HeapNotAligned, CheckFails, Goto, Set
    <3> QED
      BY <1>2, <3>1 DEF Objects
  <2>9. CASE Created(s)
    <3>1. pc[s] = "capacity" /\ pc'[s] = "idle"
      BY <1>2, <2>9 DEF Created, Goto
    <3>2. object'[s] = Initialized(IF s \in Imported THEN WithTable(object[s]) ELSE object[s])
      BY <1>2, <2>9 DEF Created, Set
    <3>3. CASE s \in Imported
      <4>1. object'[s] = [object[s] EXCEPT !.sandbox_callback_table = TRUE, !.memory = TRUE,
                            !.table_data = "held", !.instance = "live", !.heap = NoHeap,
                            !.instance_initialized = TRUE]
        BY <1>2, <3>2, <3>3, LastObjects
      <4> QED
        BY <1>2, <3>1, <4>1 DEF Objects
    <3>4. CASE s \notin Imported
      <4>1. object'[s] = [object[s] EXCEPT !.instance = "live", !.heap = NoHeap,
                                           !.instance_initialized = TRUE]
        BY <1>2, <3>2, <3>4, LastObjects
      <4> QED
        BY <1>2, <3>1, <3>4, <4>1 DEF Objects
    <3> QED
      BY <3>3, <3>4
  <2>10. CASE Destroy(s) \/ ReturnFalse(s)
    <3>1. object'[s] = Destroyed(object[s]) /\ pc'[s] = "idle"
      BY <1>2, <2>10 DEF Destroy, ReturnFalse, Goto, Set
    <3> DEFINE new == Destroyed(object[s])
    <3>2. /\ new.instance # "live" /\ ~new.instance_initialized /\ ~new.memory
          /\ ~new.minwasi_init_inst_succeeded /\ new.table_data # "held"
      BY <1>2, DestroyedObject
    <3> HIDE DEF new
    <3> QED
      BY <3>1, <3>2 DEF new
  <2>11. CASE InvokeReturningClass(s) \/ SlotRefused(s)
    <3>1. /\ pc[s] = "idle" /\ pc'[s] \in {"idle", "raised"}
          /\ SameButSlot(object[s], object'[s])
          /\ object[s].instance_initialized
      BY <2>11, SlotSteps
    <3> QED
      BY <1>2, <3>1 DEF SameButSlot
  <2> QED
    BY <2>1, <2>2, <2>3, <2>4, <2>5, <2>6, <2>7, <2>8, <2>9, <2>10, <2>11 DEF Life, CreateStep
<1> QED
  BY <1>3, <1>4 DEF MembersInv

LEMMA StepOnce ==
  ASSUME ~Reuse, TypeOK, MembersInv, OnceInv, NEW s \in Sandboxes, Life(s)
  PROVE  OnceInv'
PROOF
<1> DEFINE N(u) == LET o == object[u]
                   IN  /\ ~o.called_missing /\ ~o.freed_twice
                       /\ creates[u] = 0 => pc[u] = "idle" /\ ~o.instance_initialized
                       /\ creates[u] = 0 \/ pc[u] \in CreateStages =>
                            o.table_data = "null" /\ o.return_slot_size = 0
                       /\ o.table_data = "dangling" => ~o.sandbox_callback_table
                       /\ pc[u] = "check_failed" /\ o.return_slot_size # 0 =>
                            o.instance_initialized
                       /\ o.instance_initialized => SlotHolds(o)
                       /\ pc[u] = "idle" /\ o.instance_initialized => SlotKnown(o)
<1> USE DEF CreateStages
<1>1. \A u \in Sandboxes : N(u)
  BY DEF OnceInv, Live
<1>2. /\ object[s] \in Objects /\ object \in [Sandboxes -> Objects]
      /\ pc \in [Sandboxes -> Stages] /\ creates \in [Sandboxes -> 0 .. MaxCreates]
      /\ creates[s] \in Nat /\ MaxCreates \in Nat /\ N(s)
  BY <1>1, SandboxLifecycleAssumption DEF TypeOK
<1>3. \A u \in Sandboxes \ {s} : N(u)'
  BY <1>1, OthersKept DEF SlotHolds, SlotKnown
<1>4. N(s)'
  <2>1. CASE Create(s)
    <3>1. /\ pc[s] = "idle" /\ object' = object /\ creates'[s] = creates[s] + 1
          /\ creates[s] = 0 \/ object[s].instance_initialized
          /\ pc'[s] = IF object[s].instance_initialized THEN "check_failed" ELSE "call_once"
      BY <1>2, <2>1 DEF Create, CheckFails, Goto
    <3> QED
      BY <1>2, <3>1 DEF SlotHolds, SlotKnown
  <2>2. CASE CallOnce(s) \/ CallOncePassed(s) \/ QueryClock(s) \/ QueryClockFails(s)
             \/ ClockQueried(s)
    <3>1. pc[s] \in CreateStages /\ pc'[s] \in CreateStages \cup {"check_failed"}
          /\ object' = object /\ creates' = creates
      BY <1>2, <2>2
      DEF CallOnce, CallOncePassed, QueryClock, QueryClockFails, ClockQueried, CheckFails, Goto,
          InMinwasiInit, InitsClockAgain
    <3> QED
      BY <1>2, <3>1 DEF SlotHolds, SlotKnown
  <2>3. CASE InvalidCapacity(s) \/ Raise(s)
    <3>1. /\ pc[s] \in CreateStages \cup {"check_failed"} /\ pc'[s] \in {"check_failed", "raised"}
          /\ pc'[s] = "check_failed" => pc[s] \in CreateStages
          /\ object' = object /\ creates' = creates
      BY <1>2, <2>3 DEF InvalidCapacity, Raise, CheckFails, Goto
    <3> QED
      BY <1>2, <3>1 DEF SlotHolds, SlotKnown
  <2>4. CASE InitInstance(s)
    <3>1. pc[s] \in CreateStages /\ pc'[s] \in CreateStages /\ creates' = creates
      BY <1>2, <2>4 DEF InitInstance, Goto
    <3>2. CASE object' = object
      BY <1>2, <3>1, <3>2 DEF SlotHolds, SlotKnown
    <3>3. CASE object'[s] = [object[s] EXCEPT !.minwasi_init_inst_succeeded = TRUE]
      BY <1>2, <3>1, <3>3 DEF Objects, SlotHolds, SlotKnown
    <3> QED
      BY <1>2, <2>4, <3>2, <3>3 DEF InitInstance, Set
  <2>5. CASE AllocClock(s)
    <3>1. pc[s] \in CreateStages /\ pc'[s] \in CreateStages \cup {"check_failed"}
          /\ creates' = creates
      BY <1>2, <2>5 DEF AllocClock, CheckFails, Goto
    <3>2. CASE object'[s] = [object[s] EXCEPT !.clock_data = clock_info,
                                              !.minwasi_init_inst_succeeded = TRUE]
      BY <1>2, <3>1, <3>2 DEF Objects, SlotHolds, SlotKnown
    <3>3. CASE object'[s] = [object[s] EXCEPT !.minwasi_init_inst_succeeded = FALSE]
      BY <1>2, <3>1, <3>3 DEF Objects, SlotHolds, SlotKnown
    <3> QED
      BY <1>2, <2>5, <3>2, <3>3 DEF AllocClock, Set
  <2>6. CASE MemoryRefused(s)
    <3>1. /\ object'[s] = [object[s] EXCEPT !.sandbox_callback_table = TRUE]
          /\ pc[s] = "capacity" /\ pc'[s] = "check_failed" /\ creates' = creates
      BY <1>2, <2>6, CreationObjects DEF MemoryRefused, CheckFails, Goto, Set
    <3> QED
      BY <1>2, <3>1 DEF Objects, SlotHolds, SlotKnown
  <2>7. CASE Memory64(s)
    <3>1. /\ object'[s] = [object[s] EXCEPT !.sandbox_callback_table = TRUE, !.memory = TRUE]
          /\ pc[s] = "capacity" /\ pc'[s] = "check_failed" /\ creates' = creates
      BY <1>2, <2>7, CreationObjects DEF Memory64, CheckFails, Goto, Set
    <3> QED
      BY <1>2, <3>1 DEF Objects, SlotHolds, SlotKnown
  <2>8. CASE HeapNotAligned(s)
    <3>1. /\ object'[s] = [object[s] EXCEPT !.sandbox_callback_table = TRUE, !.memory = TRUE,
                             !.table_data = "held", !.instance = "orphan", !.heap = NoHeap]
          /\ pc[s] = "capacity" /\ pc'[s] = "check_failed" /\ creates' = creates
      BY <1>2, <2>8, LastObjects DEF HeapNotAligned, CheckFails, Goto, Set
    <3>2. ~object[s].instance_initialized
      BY <3>1 DEF MembersInv
    <3> QED
      BY <1>2, <3>1, <3>2 DEF Objects, SlotHolds, SlotKnown
  <2>9. CASE Created(s)
    <3>1. pc[s] = "capacity" /\ pc'[s] = "idle" /\ creates' = creates
      BY <1>2, <2>9 DEF Created, Goto
    <3>2. object'[s] = Initialized(IF s \in Imported THEN WithTable(object[s]) ELSE object[s])
      BY <1>2, <2>9 DEF Created, Set
    <3>3. object[s].table_data = "null" /\ object[s].return_slot_size = 0 /\ creates[s] # 0
      BY <1>2, <3>1
    <3>4. CASE s \in Imported
      <4>1. object'[s] = [object[s] EXCEPT !.sandbox_callback_table = TRUE, !.memory = TRUE,
                            !.table_data = "held", !.instance = "live", !.heap = NoHeap,
                            !.instance_initialized = TRUE]
        BY <1>2, <3>2, <3>4, LastObjects
      <4>2. SlotHolds(object'[s])
        BY <1>2, <3>3, <4>1 DEF Objects, SlotHolds, NoHeap
      <4> QED
        BY <1>2, <3>1, <3>3, <4>1, <4>2 DEF Objects, SlotKnown
    <3>5. CASE s \notin Imported
      <4>1. object'[s] = [object[s] EXCEPT !.instance = "live", !.heap = NoHeap,
                                           !.instance_initialized = TRUE]
        BY <1>2, <3>2, <3>5, LastObjects
      <4>2. SlotHolds(object'[s])
        BY <1>2, <3>3, <4>1 DEF Objects, SlotHolds, NoHeap
      <4> QED
        BY <1>2, <3>1, <3>3, <4>1, <4>2 DEF Objects, SlotKnown
    <3> QED
      BY <3>4, <3>5
  <2>10. CASE Destroy(s) \/ ReturnFalse(s)
    <3>1. /\ object'[s] = Destroyed(object[s]) /\ pc'[s] = "idle" /\ creates' = creates
          /\ pc[s] = "check_failed" \/ object[s].instance_initialized
      BY <1>2, <2>10 DEF Destroy, ReturnFalse, Goto, Set
    <3> DEFINE new == Destroyed(object[s])
    <3>2. object[s].instance_initialized => object[s].instance # "none"
      BY DEF MembersInv
    <3>3. ~(object[s].return_slot_size # 0 /\ object[s].instance = "none")
      BY <1>2, <3>1, <3>2
    <3>4. ~(object[s].sandbox_callback_table /\ object[s].table_data = "dangling")
      BY <1>2
    <3>5. ~new.called_missing /\ ~new.freed_twice /\ ~new.instance_initialized
      BY <1>2, <3>3, <3>4, DestroyedObject
    <3>6. creates[s] # 0
      BY <1>2, <3>1
    <3>7. new.table_data = "dangling" => ~new.sandbox_callback_table
      <4>1. /\ new.table_data = IF object[s].sandbox_callback_table
                                   /\ object[s].table_data # "null"
                                THEN "dangling" ELSE object[s].table_data
            /\ new.sandbox_callback_table =>
                 object[s].sandbox_callback_table /\ object[s].table_data = "null"
        BY <1>2, DestroyedObject
      <4> HIDE DEF new
      <4> QED
        BY <4>1
    <3> HIDE DEF new
    <3> QED
      BY <3>1, <3>5, <3>6, <3>7 DEF new
  <2>11. CASE InvokeReturningClass(s) \/ SlotRefused(s)
    <3>1. /\ pc[s] = "idle" /\ pc'[s] \in {"idle", "raised"} /\ creates' = creates
          /\ SameButSlot(object[s], object'[s])
          /\ object[s].instance_initialized
          /\ SlotHolds(object[s]) => SlotHolds(object'[s])
          /\ pc'[s] = "idle" => SlotKnown(object'[s])
      BY <2>11, SlotSteps
    <3> QED
      BY <1>2, <3>1 DEF SameButSlot
  <2> QED
    BY <2>1, <2>2, <2>3, <2>4, <2>5, <2>6, <2>7, <2>8, <2>9, <2>10, <2>11 DEF Life, CreateStep
<1> QED
  BY <1>3, <1>4 DEF OnceInv, Live

LEMMA StepClock ==
  ASSUME TypeOK, MembersInv, ClockInv, NEW s \in Sandboxes, Life(s)
  PROVE  ClockInv'
PROOF
<1> DEFINE K(u) == /\ InMinwasiInit(u) => once = "running"
                   /\ pc[u] \in {"init_instance", "alloc_clock", "capacity"} => once = "done"
                   /\ ~InitsClockAgain(u)
                   /\ pc[u] = "capacity" \/ Live(u) => object[u].clock_data = "ready"
           Filled == once = "done" => clock_info = "ready" /\ g_os_data_initialized
           Alone == \A u, v \in Sandboxes : InMinwasiInit(u) /\ InMinwasiInit(v) => u = v
<1> USE DEF InMinwasiInit, InitsClockAgain, Live
<1>1. SUFFICES ASSUME ClockAllocates, ~clock_refused'
               PROVE  Filled' /\ Alone' /\ \A u \in Sandboxes : K(u)'
  BY DEF ClockInv
<1>2. /\ object[s] \in Objects /\ object \in [Sandboxes -> Objects]
      /\ pc \in [Sandboxes -> Stages] /\ once \in {"never", "running", "done"}
  BY DEF TypeOK
<1>3. ~clock_refused
  BY <1>1
  DEF Life, CreateStep, Create, CallOnce, CallOncePassed, QueryClock, QueryClockFails,
      ClockQueried, InitInstance, AllocClock, InvalidCapacity, MemoryRefused, Memory64,
      HeapNotAligned, Created, Raise, ReturnFalse, Destroy, InvokeReturningClass, SlotRefused,
      sharedVars
<1>4. Filled /\ Alone /\ \A u \in Sandboxes : K(u)
  BY <1>1, <1>3 DEF ClockInv
<1>5. \A u \in Sandboxes \ {s} : pc'[u] = pc[u] /\ object'[u] = object[u]
  BY OthersKept
\* Whoever keeps the once flag and the clock data need only look at itself.
<1>6. ASSUME once' = once, clock_info' = clock_info,
             g_os_data_initialized' = g_os_data_initialized,
             InMinwasiInit(s)' => InMinwasiInit(s), K(s)'
      PROVE  Filled' /\ Alone' /\ \A u \in Sandboxes : K(u)'
  <2>1. Filled'
    BY <1>4, <1>6
  <2>2. Alone'
    BY <1>4, <1>5, <1>6
  <2>3. \A u \in Sandboxes : K(u)'
    BY <1>4, <1>5, <1>6
  <2> QED
    BY <2>1, <2>2, <2>3
<1>7. CASE Create(s)
  <2>1. /\ pc'[s] \in {"check_failed", "call_once"} /\ UNCHANGED sharedVars
    BY <1>2, <1>7 DEF Create, CheckFails, Goto
  <2> QED
    BY <1>6, <2>1 DEF sharedVars
<1>8. CASE CallOnce(s)
  <2>1. /\ once = "never" /\ once' = "running" /\ pc'[s] = "minwasi_init"
        /\ object' = object
    BY <1>1, <1>2, <1>8 DEF CallOnce, Goto
  <2>2. Filled'
    BY <2>1
  <2>3. \A u \in Sandboxes : ~InMinwasiInit(u)
    BY <1>4, <2>1
  <2>4. Alone'
    BY <1>5, <2>1, <2>3
  <2>5. \A u \in Sandboxes : K(u)'
    BY <1>4, <1>5, <2>1, <2>3
  <2> QED
    BY <2>2, <2>4, <2>5
<1>9. CASE CallOncePassed(s)
  <2>1. once = "done" /\ pc'[s] = "init_instance" /\ UNCHANGED sharedVars
    BY <1>2, <1>9 DEF CallOncePassed, Goto
  <2> QED
    BY <1>6, <2>1 DEF sharedVars
<1>10. CASE QueryClock(s)
  <2>1. pc[s] = "minwasi_init"
    BY <1>4, <1>10 DEF QueryClock
  <2>2. /\ pc'[s] = "minwasi_init_ends" /\ once' = once /\ once = "running"
        /\ object' = object
    BY <1>2, <1>4, <1>10, <2>1 DEF QueryClock, Goto
  <2>3. Filled'
    BY <2>2
  <2>4. Alone'
    BY <1>4, <1>5, <2>1, <2>2
  <2>5. \A u \in Sandboxes : K(u)'
    BY <1>4, <1>5, <2>1, <2>2
  <2> QED
    BY <2>3, <2>4, <2>5
<1>11. CASE QueryClockFails(s)
  BY <1>1, <1>11 DEF QueryClockFails
<1>12. CASE ClockQueried(s)
  <2>1. pc[s] = "minwasi_init_ends"
    BY <1>4, <1>12 DEF ClockQueried
  <2>2. /\ pc'[s] = "init_instance" /\ once' = "done" /\ once = "running"
        /\ clock_info' = "ready" /\ g_os_data_initialized' = TRUE /\ object' = object
    BY <1>2, <1>4, <1>12, <2>1 DEF ClockQueried, Goto, EndOnce
  <2>3. Filled'
    BY <2>2
  <2>4. \A u \in Sandboxes \ {s} : ~InMinwasiInit(u)
    BY <1>4, <2>1
  <2>5. \A u \in Sandboxes : ~InMinwasiInit(u)'
    BY <1>5, <2>2, <2>4
  <2>6. \A u \in Sandboxes : K(u)'
    BY <1>4, <1>5, <2>2, <2>5
  <2> QED
    BY <2>3, <2>5, <2>6
<1>13. CASE InitInstance(s)
  <2>1. pc[s] = "init_instance" /\ UNCHANGED sharedVars
    BY <1>13 DEF InitInstance
  <2>2. g_os_data_initialized /\ once = "done"
    BY <1>4, <2>1
  <2>3. pc'[s] = "alloc_clock"
    BY <1>1, <1>2, <1>13, <2>2 DEF InitInstance, Goto
  <2> QED
    BY <1>6, <2>1, <2>2, <2>3 DEF sharedVars
<1>14. CASE AllocClock(s)
  <2>1. pc[s] = "alloc_clock" /\ UNCHANGED sharedVars
    BY <1>14 DEF AllocClock
  <2>2. once = "done" /\ clock_info = "ready"
    BY <1>4, <2>1
  <2>3. CASE pc'[s] = "check_failed"
    BY <1>6, <2>1, <2>3 DEF sharedVars
  <2>4. CASE /\ pc'[s] = "capacity"
             /\ object'[s] = [object[s] EXCEPT !.clock_data = clock_info,
                                               !.minwasi_init_inst_succeeded = TRUE]
    <3>1. object'[s].clock_data = "ready"
      BY <1>2, <2>2, <2>4 DEF Objects
    <3> QED
      BY <1>6, <2>1, <2>2, <2>4, <3>1 DEF sharedVars
  <2> QED
    BY <1>2, <1>14, <2>3, <2>4 DEF AllocClock, CheckFails, Goto, Set
<1>15. CASE InvalidCapacity(s) \/ MemoryRefused(s) \/ Memory64(s) \/ HeapNotAligned(s) \/ Raise(s)
  <2>1. pc'[s] \in {"check_failed", "raised"} /\ UNCHANGED sharedVars
    BY <1>2, <1>15
    DEF InvalidCapacity, MemoryRefused, Memory64, HeapNotAligned, Raise, CheckFails, Goto
  <2> QED
    BY <1>6, <2>1 DEF sharedVars
<1>16. CASE Created(s)
  <2>1. pc[s] = "capacity" /\ pc'[s] = "idle" /\ UNCHANGED sharedVars
    BY <1>2, <1>16 DEF Created, Goto
  <2>2. object'[s] = Initialized(IF s \in Imported THEN WithTable(object[s]) ELSE object[s])
    BY <1>2, <1>16 DEF Created, Set
  <2>3. object[s].clock_data = "ready"
    BY <1>4, <2>1
  <2>4. CASE s \in Imported
    <3>1. object'[s] = [object[s] EXCEPT !.sandbox_callback_table = TRUE, !.memory = TRUE,
                          !.table_data = "held", !.instance = "live", !.heap = NoHeap,
                          !.instance_initialized = TRUE]
      BY <1>2, <2>2, <2>4, LastObjects
    <3>2. object'[s].clock_data = "ready"
      BY <1>2, <2>3, <3>1 DEF Objects
    <3> QED
      BY <1>6, <2>1, <3>2 DEF sharedVars
  <2>5. CASE s \notin Imported
    <3>1. object'[s] = [object[s] EXCEPT !.instance = "live", !.heap = NoHeap,
                                         !.instance_initialized = TRUE]
      BY <1>2, <2>2, <2>5, LastObjects
    <3>2. object'[s].clock_data = "ready"
      BY <1>2, <2>3, <3>1 DEF Objects
    <3> QED
      BY <1>6, <2>1, <3>2 DEF sharedVars
  <2> QED
    BY <2>4, <2>5
<1>17. CASE Destroy(s) \/ ReturnFalse(s)
  <2>1. object'[s] = Destroyed(object[s]) /\ pc'[s] = "idle" /\ UNCHANGED sharedVars
    BY <1>2, <1>17 DEF Destroy, ReturnFalse, Goto, Set
  <2>2. ~object'[s].instance_initialized
    BY <1>2, <2>1, DestroyedObject
  <2> QED
    BY <1>6, <2>1, <2>2 DEF sharedVars
<1>18. CASE InvokeReturningClass(s) \/ SlotRefused(s)
  <2>1. /\ pc[s] = "idle" /\ pc'[s] \in {"idle", "raised"}
        /\ object[s].instance_initialized
        /\ object'[s].clock_data = object[s].clock_data
    BY <1>18, SlotSteps DEF SameButSlot
  <2>2. UNCHANGED sharedVars
    BY <1>18 DEF InvokeReturningClass, SlotRefused
  <2>3. object[s].clock_data = "ready"
    BY <1>4, <2>1
  <2> QED
    BY <1>6, <2>1, <2>2, <2>3 DEF sharedVars
<1> QED
  BY <1>7, <1>8, <1>9, <1>10, <1>11, <1>12, <1>13, <1>14, <1>15, <1>16, <1>17, <1>18
  DEF Life, CreateStep

-----------------------------------------------------------------------------
(***************************************************************************)
(* Results                                                                 *)
(***************************************************************************)
LEMMA LifecycleInductive == Spec => []LifecycleInv
PROOF
<1>1. Init => LifecycleInv
  <2> SUFFICES ASSUME Init PROVE LifecycleInv
    OBVIOUS
  <2>1. NewObject \in Objects
    BY NoHeapType DEF NewObject, Objects, ClockContents
  <2>2. /\ NewObject.instance_initialized = FALSE
        /\ NewObject.minwasi_init_inst_succeeded = FALSE
        /\ NewObject.instance = "none" /\ NewObject.memory = FALSE
        /\ NewObject.sandbox_callback_table = FALSE /\ NewObject.table_data = "null"
        /\ NewObject.return_slot_size = 0
        /\ NewObject.called_missing = FALSE /\ NewObject.freed_twice = FALSE
    BY DEF NewObject
  <2>3. \A s \in Sandboxes : object[s] = NewObject /\ pc[s] = "idle" /\ creates[s] = 0
    BY DEF Init
  <2>4. TypeOK
    <3>1. /\ once \in {"never", "running", "done"} /\ clock_info \in ClockContents
          /\ {g_os_data_initialized, clock_refused} \subseteq BOOLEAN
      BY DEF Init, ClockContents
    <3>2. pc \in [Sandboxes -> Stages] /\ infallible \in [Sandboxes -> BOOLEAN]
      BY DEF Init
    <3>3. 0 \in 0 .. MaxCreates
      BY SandboxLifecycleAssumption
    <3>4. creates \in [Sandboxes -> 0 .. MaxCreates]
      BY <3>3 DEF Init
    <3>5. object \in [Sandboxes -> Objects]
      BY <2>1 DEF Init
    <3> QED
      BY <3>1, <3>2, <3>4, <3>5 DEF TypeOK
  <2>5. MembersInv
    BY <2>2, <2>3 DEF MembersInv, CreateStages, Gone, Live
  <2>6. ClockInv
    BY <2>2, <2>3 DEF Init, ClockInv, InMinwasiInit, InitsClockAgain, Live
  <2>7. OnceInv
    BY <2>2, <2>3 DEF OnceInv, CreateStages, Live
  <2> QED
    BY <2>4, <2>5, <2>6, <2>7 DEF LifecycleInv
<1>2. LifecycleInv /\ [Next]_vars => LifecycleInv'
  <2> SUFFICES ASSUME LifecycleInv, [Next]_vars PROVE LifecycleInv'
    OBVIOUS
  <2>1. TypeOK /\ MembersInv /\ ClockInv /\ OnceInv
    BY DEF LifecycleInv
  <2>2. CASE Next
    <3>1. PICK s \in Sandboxes : Life(s)
      BY <2>2 DEF Next, Life
    <3>2. TypeOK' /\ MembersInv' /\ ClockInv'
      BY <2>1, <3>1, StepTypes, StepMembers, StepClock
    <3>3. OnceInv'
      BY <2>1, <3>1, StepOnce DEF OnceInv
    <3> QED
      BY <3>2, <3>3 DEF LifecycleInv
  <2>3. CASE UNCHANGED vars
    BY <2>1, <2>3
    DEF vars, sharedVars, LifecycleInv, TypeOK, Objects, ClockContents, MembersInv, ClockInv,
        OnceInv, CreateStages, SlotHolds, SlotKnown, Gone, Live, InMinwasiInit, InitsClockAgain
  <2> QED
    BY <2>2, <2>3
<1> QED
  BY <1>1, <1>2, PTL DEF Spec

\* The members of every object keep their types, whatever fails.
THEOREM LifecycleTypeCorrect == Spec => []TypeOK
PROOF
<1>1. LifecycleInv => TypeOK
  BY DEF LifecycleInv
<1> QED
  BY <1>1, LifecycleInductive, PTL

\* After impl_destroy_sandbox, and after a fallible impl_create_sandbox that
\* failed at any of its checks, memory and table are released and an initialized
\* instance is freed, also when objects are created again.
THEOREM ReleaseCorrect == Spec => []ReleasedWhenGone
PROOF
<1>1. LifecycleInv => ReleasedWhenGone
  BY DEF LifecycleInv, MembersInv, ReleasedWhenGone, Gone, CreateStages
<1> QED
  BY <1>1, LifecycleInductive, PTL

\* What impl_create_sandbox hands out is complete, and no creator, however many
\* run at once, copies clock data that another is still filling.
THEOREM CreatedCorrect == Spec => []CreatedIsComplete
PROOF
<1>1. LifecycleInv => CreatedIsComplete
  BY DEF LifecycleInv, MembersInv, ClockInv, CreatedIsComplete, Live
<1> QED
  BY <1>1, LifecycleInductive, PTL

\* If no object is created a second time (a refused create of a live one is not
\* counted), nothing calls free in a missing instance and no callback table is
\* freed twice, whatever fails.
THEOREM MisuseFree ==
  ASSUME ~Reuse
  PROVE  Spec => []NoMisuse
PROOF
<1>1. LifecycleInv => NoMisuse
  BY DEF LifecycleInv, OnceInv, NoMisuse, CallsReachInstance, TableFreedOnce
<1> QED
  BY <1>1, LifecycleInductive, PTL

\* Then the return slot of every live sandbox is a block of the recorded size.
\* Only where exceptions are thrown may it be 0 with a size: after malloc refused
\* a larger slot; and in that case no block is held.
THEOREM ReturnSlotCorrect ==
  ASSUME ~Reuse
  PROVE  Spec => []ReturnSlotFits
PROOF
<1>1. ASSUME LifecycleInv PROVE ReturnSlotFits
  <2> SUFFICES ASSUME NEW s \in Sandboxes, Live(s)
               PROVE  LET o == object[s]
                      IN  /\ o.return_slot # 0 =>
                               o.heap = [NoHeap EXCEPT ![o.return_slot] = o.return_slot_size]
                          /\ o.return_slot = 0 =>
                               /\ o.heap = NoHeap
                               /\ o.return_slot_size = 0 \/ RLBOX_USE_EXCEPTIONS
    BY DEF ReturnSlotFits
  <2> DEFINE o == object[s]
  <2>1. o \in Objects /\ SlotHolds(o) /\ SlotKnown(o)
    BY <1>1 DEF LifecycleInv, TypeOK, OnceInv, Live
  <2> HIDE DEF o
  <2>2. /\ o.heap \in [Slots -> Sizes \cup {0}]
        /\ o.return_slot \in Slots \cup {0} /\ 0 \notin Slots
    BY <2>1, SandboxLifecycleAssumption DEF Objects
  <2>3. o.heap = [a \in Slots |-> IF a = o.return_slot THEN o.return_slot_size ELSE 0]
    BY <2>1, <2>2 DEF SlotHolds
  <2>4. CASE o.return_slot = 0
    <3>1. o.heap = NoHeap
      BY <2>2, <2>3, <2>4 DEF NoHeap
    <3> QED BY <2>1, <2>4, <3>1 DEF SlotKnown, o
  <2>5. CASE o.return_slot # 0
    <3>1. o.heap = [NoHeap EXCEPT ![o.return_slot] = o.return_slot_size]
      BY <2>2, <2>3, <2>5 DEF NoHeap
    <3> QED BY <2>5, <3>1 DEF o
  <2> QED
    BY <2>4, <2>5
<1> QED
  BY <1>1, LifecycleInductive, PTL
=============================================================================

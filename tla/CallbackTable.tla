--------------------------- MODULE CallbackTable ---------------------------
(***************************************************************************)
(* The callback table of one rlbox_wasm2c_sandbox object                   *)
(* (include/rlbox_wasm2c_sandbox.hpp).                                     *)
(*                                                                         *)
(* A host function becomes callable from sandboxed code by owning an entry *)
(* of the Wasm function table.  A registered callback is reached through   *)
(* one of MAX_CALLBACKS compile-time interceptors; a host function pointer *)
(* that is merely swizzled (impl_get_sandboxed_pointer) is stored itself.  *)
(* The bookkeeping arrays and maps are guarded by callback_mutex, but two  *)
(* pieces of state are read with no lock at all: the function table (by    *)
(* call_indirect in sandboxed code) and callback_unique_keys (by           *)
(* impl_get_executed_callback_sandbox_and_key).  A critical section is     *)
(* therefore one step per write that an unlocked reader can see; the       *)
(* writes that only lock holders can see are merged with the next such     *)
(* step.                                                                   *)
(***************************************************************************)
EXTENDS Integers, Sequences

CONSTANTS
  Threads,          \* threads of the application
  Keys,             \* values of the argument `key` of impl_register_callback
  Callbacks,        \* values of its argument `callback`
  HostFuncs,        \* host function pointers passed to impl_get_sandboxed_pointer
  MAX_CALLBACKS,    \* number of interceptors (128 in the code)
  InitTableSize,    \* entries the Wasm module itself puts in the table
  MaxTableSize,     \* max_size of the function table
  Null              \* nullptr, and "absent" for the maps and the mutex

Interceptors == 0 .. MAX_CALLBACKS - 1
Slots == 0 .. MaxTableSize - 1
Pointers == Callbacks \cup HostFuncs

ASSUME CallbackTableAssumption ==
  /\ MAX_CALLBACKS \in Nat \ {0}
  /\ InitTableSize \in Nat
  /\ MaxTableSize \in Nat
  /\ InitTableSize <= MaxTableSize
  /\ Null \notin Threads \cup Keys \cup Pointers \cup Slots

VARIABLES
  writer,                   \* thread holding callback_mutex exclusively, or Null
  readers,                  \* threads holding callback_mutex shared
  callback_unique_keys,
  callbacks,
  callback_slot_assignment,
  callback_free_list,
  internal_callbacks,       \* host function -> slot, Null when absent
  slot_assignments,         \* slot -> host pointer, Null when absent
  table_size,               \* sandbox_callback_table->size
  table,                    \* sandbox_callback_table->data
  last_callback_invoked,    \* rlbox_wasm2c_sandbox_thread_data, one per thread
  pc,                       \* where each thread is
  op,                       \* the member function it is executing
  key,                      \* its argument `key`, or the key it read back
  ptr,                      \* its argument `callback` or `p`, or the func it read
  loc,                      \* its found_loc, its `i`, or its interceptor number N
  slot                      \* its slot_number, or the slot it was called through

mutexVars == <<writer, readers>>
arrayVars == <<callback_unique_keys, callbacks, callback_slot_assignment>>
mapVars   == <<internal_callbacks, slot_assignments>>
tableVars == <<table_size, table, callback_free_list>>
localVars == <<pc, op, key, ptr, loc, slot>>
vars == <<mutexVars, arrayVars, mapVars, tableVars, last_callback_invoked, localVars>>

(***************************************************************************)
(* Values of sandbox_callback_table->data (wasm_rt_funcref_t).             *)
(***************************************************************************)
NullRef == [kind |-> "null", target |-> Null]
ModuleRef == [kind |-> "module", target |-> Null]
InterceptorRef(i) == [kind |-> "interceptor", target |-> i]
HostRef(p) == [kind |-> "host", target |-> p]

FuncRefs ==
  {NullRef, ModuleRef}
    \cup {InterceptorRef(i) : i \in Interceptors}
    \cup {HostRef(p) : p \in HostFuncs}

Ops == {"none", "register", "unregister", "get_sandboxed_pointer"}

\* The stages of a thread.  "host" is application code and sandboxed code,
\* a callback that already knows its key included.
Stages ==
  {"host", "wait", "new_slot", "install", "record", "withdraw", "erase",
   "intercept", "locked", "entered", "identified", "null_call"}

UniqueStages == {"new_slot", "install", "record", "withdraw", "erase"}

TypeOK ==
  /\ writer \in Threads \cup {Null}
  /\ readers \subseteq Threads
  /\ callback_unique_keys \in [Interceptors -> Keys \cup {Null}]
  /\ callbacks \in [Interceptors -> Callbacks \cup {Null}]
  /\ callback_slot_assignment \in [Interceptors -> Nat]
  /\ callback_free_list \in Seq(Slots)
  /\ internal_callbacks \in [HostFuncs -> Slots \cup {Null}]
  /\ slot_assignments \in [Slots -> Pointers \cup {Null}]
  /\ table_size \in 0 .. MaxTableSize
  /\ table \in [Slots -> FuncRefs]
  /\ last_callback_invoked \in [Threads -> Interceptors]
  /\ pc \in [Threads -> Stages]
  /\ op \in [Threads -> Ops]
  /\ key \in [Threads -> Keys \cup {Null}]
  /\ ptr \in [Threads -> Pointers \cup {Null}]
  /\ loc \in [Threads -> Interceptors]
  /\ slot \in [Threads -> Nat]

Init ==
  /\ writer = Null
  /\ readers = {}
  /\ callback_unique_keys = [i \in Interceptors |-> Null]
  /\ callbacks = [i \in Interceptors |-> Null]
  /\ callback_slot_assignment = [i \in Interceptors |-> 0]
  /\ callback_free_list = <<>>
  /\ internal_callbacks = [p \in HostFuncs |-> Null]
  /\ slot_assignments = [s \in Slots |-> Null]
  /\ table_size = InitTableSize
  /\ table = [s \in Slots |-> IF s < InitTableSize THEN ModuleRef ELSE NullRef]
  /\ last_callback_invoked = [t \in Threads |-> 0]
  /\ pc = [t \in Threads |-> "host"]
  /\ op = [t \in Threads |-> "none"]
  /\ key = [t \in Threads |-> Null]
  /\ ptr = [t \in Threads |-> Null]
  /\ loc = [t \in Threads |-> 0]
  /\ slot = [t \in Threads |-> 0]

-----------------------------------------------------------------------------
(***************************************************************************)
(* callback_mutex and the control flow of a thread.                        *)
(***************************************************************************)
MutexFree == writer = Null /\ readers = {}

\* A call through a null function pointer ends the process.
Running == \A t \in Threads : pc[t] # "null_call"

At(t, stage) == Running /\ pc[t] = stage

Goto(t, stage) == pc' = [pc EXCEPT ![t] = stage]

\* The member function returns, or a dynamic_check raises and unwinds it:
\* its locals are gone and, by RAII, so is its hold on callback_mutex.
Return(t) ==
  /\ Goto(t, "host")
  /\ op' = [op EXCEPT ![t] = "none"]
  /\ key' = [key EXCEPT ![t] = Null]
  /\ ptr' = [ptr EXCEPT ![t] = Null]
  /\ loc' = [loc EXCEPT ![t] = 0]
  /\ slot' = [slot EXCEPT ![t] = 0]

Unlock == writer' = Null /\ UNCHANGED readers

\* The application calls one of the member functions that lock the mutex.
Call(t, member, k, p) ==
  /\ At(t, "host")
  /\ Goto(t, "wait")
  /\ op' = [op EXCEPT ![t] = member]
  /\ key' = [key EXCEPT ![t] = k]
  /\ ptr' = [ptr EXCEPT ![t] = p]
  /\ UNCHANGED <<loc, slot, mutexVars, arrayVars, mapVars, tableVars,
                 last_callback_invoked>>

Acquire(t, member) ==
  /\ At(t, "wait")
  /\ op[t] = member
  /\ MutexFree

-----------------------------------------------------------------------------
(***************************************************************************)
(* impl_register_callback                                                  *)
(***************************************************************************)
\* Interceptor i is the first one whose callback is nullptr.
FirstFree(i) ==
  /\ callbacks[i] = Null
  /\ \A j \in Interceptors : j < i => callbacks[j] # Null

RegisterChoose(t) ==
  /\ Acquire(t, "register")
  /\ \E i \in Interceptors :
       /\ FirstFree(i)
       /\ loc' = [loc EXCEPT ![t] = i]
  /\ writer' = t
  /\ Goto(t, "new_slot")
  /\ UNCHANGED <<readers, arrayVars, mapVars, tableVars, last_callback_invoked,
                 op, key, ptr, slot>>

\* dynamic_check(found): every interceptor is taken.
RegisterFull(t) ==
  /\ Acquire(t, "register")
  /\ \A i \in Interceptors : callbacks[i] # Null
  /\ Return(t)
  /\ UNCHANGED <<mutexVars, arrayVars, mapVars, tableVars, last_callback_invoked>>

RegisterRecord(t) ==
  /\ At(t, "record")
  /\ op[t] = "register"
  /\ callback_unique_keys' = [callback_unique_keys EXCEPT ![loc[t]] = key[t]]
  /\ callbacks' = [callbacks EXCEPT ![loc[t]] = ptr[t]]
  /\ callback_slot_assignment' = [callback_slot_assignment EXCEPT ![loc[t]] = slot[t]]
  /\ slot_assignments' = [slot_assignments EXCEPT ![slot[t]] = ptr[t]]
  /\ Unlock
  /\ Return(t)
  /\ UNCHANGED <<internal_callbacks, tableVars, last_callback_invoked>>

(***************************************************************************)
(* impl_get_sandboxed_pointer, for a function type                         *)
(***************************************************************************)
\* The pointer is known already: its slot is returned.
SandboxedFound(t) ==
  /\ Acquire(t, "get_sandboxed_pointer")
  /\ internal_callbacks[ptr[t]] # Null
  /\ Return(t)
  /\ UNCHANGED <<mutexVars, arrayVars, mapVars, tableVars, last_callback_invoked>>

\* Broken variant: internal_callbacks is not consulted.
SandboxedForgetful(t) ==
  /\ Acquire(t, "get_sandboxed_pointer")
  /\ writer' = t
  /\ Goto(t, "new_slot")
  /\ UNCHANGED <<readers, arrayVars, mapVars, tableVars, last_callback_invoked,
                 op, key, ptr, loc, slot>>

SandboxedMissing(t) ==
  /\ Acquire(t, "get_sandboxed_pointer")
  /\ internal_callbacks[ptr[t]] = Null
  /\ writer' = t
  /\ Goto(t, "new_slot")
  /\ UNCHANGED <<readers, arrayVars, mapVars, tableVars, last_callback_invoked,
                 op, key, ptr, loc, slot>>

SandboxedRecord(t) ==
  /\ At(t, "record")
  /\ op[t] = "get_sandboxed_pointer"
  /\ internal_callbacks' = [internal_callbacks EXCEPT ![ptr[t]] = slot[t]]
  /\ slot_assignments' = [slot_assignments EXCEPT ![slot[t]] = ptr[t]]
  /\ Unlock
  /\ Return(t)
  /\ UNCHANGED <<arrayVars, tableVars, last_callback_invoked>>

\* impl_get_unsandboxed_pointer, for a function type: a lookup under the lock.
UnsandboxedPointer(p) == slot_assignments[p]

(***************************************************************************)
(* new_callback_slot, with callback_mutex held, and the table write that   *)
(* follows it in both callers.                                             *)
(***************************************************************************)
Back(list) == list[Len(list)]
PopBack(list) == SubSeq(list, 1, Len(list) - 1)

\* A slot of the free list, or else, while mayGrow, a table grown by one null
\* entry.  The growth has happened even when its result, the previous size, is
\* refused and the dynamic_check on it raises.
TakeSlot(t, mayGrow, refused) ==
  LET recycle == callback_free_list # <<>>
      got == IF recycle THEN Back(callback_free_list) ELSE table_size
  IN  /\ At(t, "new_slot")
      /\ recycle \/ mayGrow
      /\ table_size' = IF recycle THEN table_size ELSE table_size + 1
      /\ callback_free_list' =
           IF recycle THEN PopBack(callback_free_list) ELSE callback_free_list
      /\ IF recycle \/ got \notin refused
         THEN /\ slot' = [slot EXCEPT ![t] = got]
              /\ Goto(t, "install")
              /\ UNCHANGED <<mutexVars, op, key, ptr, loc>>
         ELSE Unlock /\ Return(t)
      /\ UNCHANGED <<table, arrayVars, mapVars, last_callback_invoked>>

\* Broken variants: the size is not compared with max_size; 0 is given out.
NewCallbackSlotUnchecked(t) == TakeSlot(t, TRUE, {0})
NewCallbackSlotZero(t) == TakeSlot(t, table_size < MaxTableSize, {})

NewCallbackSlot(t) == TakeSlot(t, table_size < MaxTableSize, {0})

\* Broken variant: the failure is found only after the table has grown.
NewCallbackSlotFailsLate(t) ==
  /\ At(t, "new_slot")
  /\ table_size < MaxTableSize
  /\ table_size' = table_size + 1
  /\ Unlock
  /\ Return(t)
  /\ UNCHANGED <<table, callback_free_list, arrayVars, mapVars, last_callback_invoked>>

\* The table is at its maximal size, or wasm_rt_grow_funcref_table fails
\* with (uint32_t)-1: a dynamic_check raises.
NewCallbackSlotFails(t) ==
  /\ At(t, "new_slot")
  /\ callback_free_list = <<>>
  /\ Unlock
  /\ Return(t)
  /\ UNCHANGED <<tableVars, arrayVars, mapVars, last_callback_invoked>>

\* sandbox_callback_table->data[slot_number] = func_val
Install(t) ==
  /\ At(t, "install")
  /\ table' = [table EXCEPT ![slot[t]] =
                 IF op[t] = "register" THEN InterceptorRef(loc[t]) ELSE HostRef(ptr[t])]
  /\ Goto(t, "record")
  /\ UNCHANGED <<mutexVars, arrayVars, mapVars, table_size, callback_free_list,
                 last_callback_invoked, op, key, ptr, loc, slot>>

(***************************************************************************)
(* impl_unregister_callback                                                *)
(***************************************************************************)
FirstWithKey(i, k) ==
  /\ callback_unique_keys[i] = k
  /\ \A j \in Interceptors : j < i => callback_unique_keys[j] # k

UnregisterChoose(t) ==
  /\ Acquire(t, "unregister")
  /\ \E i \in Interceptors :
       /\ FirstWithKey(i, key[t])
       /\ loc' = [loc EXCEPT ![t] = i]
       /\ slot' = [slot EXCEPT ![t] = callback_slot_assignment[i]]
  /\ writer' = t
  /\ Goto(t, "withdraw")
  /\ UNCHANGED <<readers, arrayVars, mapVars, tableVars, last_callback_invoked,
                 op, key, ptr>>

\* dynamic_check(found), after the lock is released: nothing was registered.
UnregisterMissing(t) ==
  /\ Acquire(t, "unregister")
  /\ \A i \in Interceptors : callback_unique_keys[i] # key[t]
  /\ Return(t)
  /\ UNCHANGED <<mutexVars, arrayVars, mapVars, tableVars, last_callback_invoked>>

Withdraw(t) ==
  /\ At(t, "withdraw")
  /\ table' = [table EXCEPT ![slot[t]] = NullRef]
  /\ Goto(t, "erase")
  /\ UNCHANGED <<mutexVars, arrayVars, mapVars, table_size, callback_free_list,
                 last_callback_invoked, op, key, ptr, loc, slot>>

\* Broken variants: the callback is left in its array; the slot is recycled
\* through free_callback_slot, which no code calls.
EraseKeepsCallback(t) ==
  /\ At(t, "erase")
  /\ callback_unique_keys' = [callback_unique_keys EXCEPT ![loc[t]] = Null]
  /\ Unlock
  /\ Return(t)
  /\ UNCHANGED <<callbacks, callback_slot_assignment, mapVars, tableVars,
                 last_callback_invoked>>

EraseFreesSlot(t) ==
  /\ At(t, "erase")
  /\ callback_unique_keys' = [callback_unique_keys EXCEPT ![loc[t]] = Null]
  /\ callbacks' = [callbacks EXCEPT ![loc[t]] = Null]
  /\ callback_slot_assignment' = [callback_slot_assignment EXCEPT ![loc[t]] = 0]
  /\ callback_free_list' = Append(callback_free_list, slot[t])
  /\ Unlock
  /\ Return(t)
  /\ UNCHANGED <<mapVars, table_size, table, last_callback_invoked>>

\* Neither slot_assignments nor callback_free_list is touched.
Erase(t) ==
  /\ At(t, "erase")
  /\ callback_unique_keys' = [callback_unique_keys EXCEPT ![loc[t]] = Null]
  /\ callbacks' = [callbacks EXCEPT ![loc[t]] = Null]
  /\ callback_slot_assignment' = [callback_slot_assignment EXCEPT ![loc[t]] = 0]
  /\ Unlock
  /\ Return(t)
  /\ UNCHANGED <<mapVars, tableVars, last_callback_invoked>>

(***************************************************************************)
(* Sandboxed code calls through the table: call_indirect, then             *)
(* callback_interceptor<N>.                                                *)
(***************************************************************************)
CallIndirect(t) ==
  /\ At(t, "host")
  /\ \E s \in Slots :
       /\ s < table_size
       /\ table[s].kind = "interceptor"
       /\ slot' = [slot EXCEPT ![t] = s]
       /\ loc' = [loc EXCEPT ![t] = table[s].target]
       /\ last_callback_invoked' = [last_callback_invoked EXCEPT ![t] = table[s].target]
  /\ Goto(t, "intercept")
  /\ UNCHANGED <<mutexVars, arrayVars, mapVars, tableVars, op, key, ptr>>

\* Broken variant: callbacks[N] is read with no guard.
InterceptorReadUnlocked(t) ==
  /\ At(t, "intercept")
  /\ ptr' = [ptr EXCEPT ![t] = callbacks[loc[t]]]
  /\ Goto(t, "locked")
  /\ UNCHANGED <<mutexVars, arrayVars, mapVars, tableVars, last_callback_invoked,
                 op, key, loc, slot>>

\* The shared guard is taken and callbacks[N] is read.
InterceptorRead(t) ==
  /\ At(t, "intercept")
  /\ writer = Null
  /\ readers' = readers \cup {t}
  /\ ptr' = [ptr EXCEPT ![t] = callbacks[loc[t]]]
  /\ Goto(t, "locked")
  /\ UNCHANGED <<writer, arrayVars, mapVars, tableVars, last_callback_invoked,
                 op, key, loc, slot>>

\* Broken variant: the guard is held while func runs.
InterceptorCallLocked(t) ==
  /\ At(t, "locked")
  /\ Goto(t, IF ptr[t] = Null THEN "null_call" ELSE "entered")
  /\ UNCHANGED <<mutexVars, arrayVars, mapVars, tableVars, last_callback_invoked,
                 op, key, ptr, loc, slot>>

\* The scope of the guard ends before func is called.
InterceptorCall(t) ==
  /\ At(t, "locked")
  /\ readers' = readers \ {t}
  /\ Goto(t, IF ptr[t] = Null THEN "null_call" ELSE "entered")
  /\ UNCHANGED <<writer, arrayVars, mapVars, tableVars, last_callback_invoked,
                 op, key, ptr, loc, slot>>

\* impl_get_executed_callback_sandbox_and_key, the first thing a callback does.
GetExecutedKey(t) ==
  /\ At(t, "entered")
  /\ key' = [key EXCEPT ![t] = callback_unique_keys[last_callback_invoked[t]]]
  /\ Goto(t, "identified")
  /\ UNCHANGED <<mutexVars, arrayVars, mapVars, tableVars, last_callback_invoked,
                 op, ptr, loc, slot>>

\* The callback goes on: it may use the sandbox again before it returns.
CallbackBody(t) ==
  /\ At(t, "identified")
  /\ Return(t)
  /\ UNCHANGED <<mutexVars, arrayVars, mapVars, tableVars, last_callback_invoked>>

-----------------------------------------------------------------------------
CallMember(t) ==
  \/ \E k \in Keys, c \in Callbacks : Call(t, "register", k, c)
  \/ \E k \in Keys : Call(t, "unregister", k, Null)
  \/ \E p \in HostFuncs : Call(t, "get_sandboxed_pointer", Null, p)

Registration(t) == RegisterChoose(t) \/ RegisterFull(t) \/ RegisterRecord(t)
Swizzling(t) == SandboxedFound(t) \/ SandboxedMissing(t) \/ SandboxedRecord(t)
SlotAllocation(t) == NewCallbackSlot(t) \/ NewCallbackSlotFails(t) \/ Install(t)
Unregistration(t) ==
  UnregisterChoose(t) \/ UnregisterMissing(t) \/ Withdraw(t) \/ Erase(t)
Interception(t) ==
  \/ CallIndirect(t) \/ InterceptorRead(t) \/ InterceptorCall(t)
  \/ GetExecutedKey(t) \/ CallbackBody(t)

Step(t) ==
  \/ CallMember(t)
  \/ Registration(t)
  \/ Swizzling(t)
  \/ SlotAllocation(t)
  \/ Unregistration(t)
  \/ Interception(t)

Halted == ~Running /\ UNCHANGED vars

Next == (\E t \in Threads : Step(t)) \/ Halted

Spec == Init /\ [][Next]_vars

\* A thread that holds callback_mutex never blocks: the operating system
\* schedules it until it has released it.
HolderStep(t) ==
  \/ SlotAllocation(t)
  \/ RegisterRecord(t) \/ SandboxedRecord(t)
  \/ Withdraw(t) \/ Erase(t)
  \/ InterceptorCall(t)

FairSpec == Spec /\ \A t \in Threads : WF_vars(HolderStep(t))

-----------------------------------------------------------------------------
(***************************************************************************)
(* Properties                                                              *)
(***************************************************************************)
\* A registration that impl_register_callback has completed.
Registered(i) == callbacks[i] # Null

\* Interceptor i is registered and its entry is in the table under its slot.
RegistrationInTable(i) ==
  LET s == callback_slot_assignment[i]
  IN  /\ callback_unique_keys[i] # Null
      /\ s \in InitTableSize .. table_size - 1
      /\ table[s] = InterceptorRef(i)
      /\ UnsandboxedPointer(s) = callbacks[i]

\* Host function p was swizzled and its entry is in the table under its slot.
SwizzledInTable(p) ==
  LET s == internal_callbacks[p]
  IN  /\ s \in InitTableSize .. table_size - 1
      /\ table[s] = HostRef(p)
      /\ UnsandboxedPointer(s) = p

\* Whenever callback_mutex is not held exclusively, the three arrays, the two
\* maps and the function table tell one story: each registration and each
\* swizzled pointer has its own entry, and the table has no other host entry,
\* so sandboxed code can reach exactly what the host has granted.
RegistryConsistent ==
  writer = Null =>
    /\ \A i \in Interceptors : Registered(i) => RegistrationInTable(i)
    /\ \A p \in HostFuncs : internal_callbacks[p] # Null => SwizzledInTable(p)
    /\ \A s \in Slots :
         /\ table[s].kind = "interceptor" =>
              /\ Registered(table[s].target)
              /\ callback_slot_assignment[table[s].target] = s
         /\ table[s].kind = "host" => internal_callbacks[table[s].target] = s

\* A call that came through a slot whose entry still stands runs the host
\* function that slot was given to, and a callback reads back the key it was
\* registered with, although interceptors are reused and the key is read with
\* no lock held (callback_interceptor, impl_get_executed_callback_...).
DispatchMatchesSlot ==
  \A t \in Threads :
    /\ pc[t] \in {"locked", "entered", "identified", "null_call"}
    /\ table[slot[t]] = InterceptorRef(loc[t])
    => /\ ptr[t] = slot_assignments[slot[t]]
       /\ pc[t] = "identified" => key[t] = callback_unique_keys[loc[t]]

\* Once impl_unregister_callback has cleared a slot that was given out, the
\* slot stays null: a function pointer the sandbox kept can never come to
\* mean another callback.
WithdrawnStaysWithdrawn ==
  [][\A s \in Slots :
       slot_assignments[s] # Null /\ table[s] = NullRef => table'[s] = NullRef]_vars

\* Every entry that new_callback_slot has added to the table belongs to the
\* pointer recorded for it in slot_assignments: no failure of a later step
\* leaves an entry nobody can find again.  (Entry 0, by which an empty table
\* grows first, is the null function pointer and belongs to nobody.)
GrownSlotsOwned ==
  writer = Null =>
    \A s \in InitTableSize .. table_size - 1 : s = 0 \/ slot_assignments[s] # Null

\* Slot 0 reads as the null function pointer in sandboxed code, so nothing is
\* ever given it, also by a Wasm module whose own table is empty: there the
\* first growth returns 0, which new_callback_slot refuses.
NullPointerNeverGranted ==
  \A t \in Threads :
    /\ pc[t] \in {"install", "record"} => slot[t] # 0
    /\ 0 \in Slots /\ InitTableSize = 0 => table[0] = NullRef

\* What the message of new_callback_slot's dynamic_check says of a table at
\* its maximal size: "This would happen if you have registered too many
\* callbacks, or unsandboxed too many function pointers".
FullTableHoldsLiveEntries ==
  writer = Null /\ table_size = MaxTableSize =>
    \A s \in InitTableSize .. MaxTableSize - 1 : table[s] # NullRef

\* callback_mutex is always released again, whichever dynamic_check raises on
\* the way, unless the process has ended.
MutexReleased ==
  \A t \in Threads :
    /\ writer = t ~> writer # t \/ ~Running
    /\ t \in readers ~> t \notin readers \/ ~Running

\* The promise made to sandboxed code and to the application, as a refinement.
Registry == INSTANCE CallbackRegistry WITH
  granted <- slot_assignments,
  live <- {callback_slot_assignment[i] : i \in {j \in Interceptors : callbacks[j] # Null}},
  pinned <- {internal_callbacks[p] : p \in {q \in HostFuncs : internal_callbacks[q] # Null}}

\* The locked sections of the code implement the atomic operations of
\* CallbackRegistry: a slot is given out once, and then only ever retired.
ImplementsRegistry == Registry!Spec
=============================================================================

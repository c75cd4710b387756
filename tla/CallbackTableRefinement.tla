----------------------- MODULE CallbackTableRefinement -----------------------
(***************************************************************************)
(* Proof that CallbackTable implements CallbackRegistry: the section that  *)
(* ends in RegisterRecord is Grant, the one that ends in SandboxedRecord   *)
(* is Pin, the one that ends in Erase is Retire, and every other step is   *)
(* invisible.                                                              *)
(***************************************************************************)
EXTENDS CallbackTableProofs

USE DEF At, Goto, Return, Unlock, Holds, UniqueStages,
        mutexVars, arrayVars, mapVars, tableVars

\* The refinement mapping of CallbackTable!Registry.
Live == {callback_slot_assignment[i] : i \in {j \in Interceptors : callbacks[j] # Null}}
Pinned == {internal_callbacks[p] : p \in {q \in HostFuncs : internal_callbacks[q] # Null}}
Visible == <<slot_assignments, Live, Pinned>>

\* impl_register_callback grants its slot at the end of its locked section.
LEMMA RegisterRecordGrants ==
  ASSUME IInv, NEW t \in Threads, RegisterRecord(t) PROVE Registry!Next
  <1> DEFINE s == slot[t]
  <1>1. /\ s \in Slots /\ slot_assignments[s] = Null
        /\ loc[t] \in Interceptors /\ callbacks[loc[t]] = Null
        /\ ptr[t] \in Callbacks /\ ptr[t] # Null
    BY CallbackTableAssumption
       DEF IInv, TypeOK, OpInv, TableInv, HolderInv, FreshSlot, Slots, Pointers,
           RegisterRecord
  <1>2. /\ callbacks' = [callbacks EXCEPT ![loc[t]] = ptr[t]]
        /\ callback_slot_assignment' = [callback_slot_assignment EXCEPT ![loc[t]] = s]
        /\ slot_assignments' = [slot_assignments EXCEPT ![s] = ptr[t]]
        /\ UNCHANGED internal_callbacks
    BY DEF RegisterRecord
  <1>3. Live' = Live \cup {s}
    BY <1>1, <1>2 DEF IInv, TypeOK, Live
  <1>4. Pinned' = Pinned
    BY <1>2 DEF Pinned
  <1> QED BY <1>1, <1>2, <1>3, <1>4 DEF Registry!Next, Registry!Grant, Live, Pinned

\* impl_get_sandboxed_pointer pins a slot for a function it did not know.
LEMMA SandboxedRecordPins ==
  ASSUME IInv, NEW t \in Threads, SandboxedRecord(t) PROVE Registry!Next
  <1> DEFINE s == slot[t]
  <1>1. /\ s \in Slots /\ s # Null /\ slot_assignments[s] = Null
        /\ ptr[t] \in HostFuncs /\ internal_callbacks[ptr[t]] = Null
    BY CallbackTableAssumption
       DEF IInv, TypeOK, OpInv, TableInv, HolderInv, FreshSlot, Slots, SandboxedRecord
  <1>2. /\ internal_callbacks' = [internal_callbacks EXCEPT ![ptr[t]] = s]
        /\ slot_assignments' = [slot_assignments EXCEPT ![s] = ptr[t]]
        /\ UNCHANGED <<callbacks, callback_slot_assignment>>
    BY DEF SandboxedRecord
  <1>3. Pinned' = Pinned \cup {s}
    BY <1>1, <1>2 DEF IInv, TypeOK, Pinned
  <1>4. Live' = Live
    BY <1>2 DEF Live
  <1>5. \A r \in Pinned : slot_assignments[r] # ptr[t]
    BY <1>1 DEF IInv, RegistryInv, SwizzledInTable, UnsandboxedPointer, Pinned
  <1> QED BY <1>1, <1>2, <1>3, <1>4, <1>5 DEF Registry!Next, Registry!Pin, Live, Pinned

\* impl_unregister_callback retires the slot of the registration it erases.
LEMMA EraseRetires ==
  ASSUME IInv, NEW t \in Threads, Erase(t) PROVE Registry!Next
  <1> DEFINE s == slot[t]
  <1>1. /\ loc[t] \in Interceptors /\ callbacks[loc[t]] # Null
        /\ s = callback_slot_assignment[loc[t]] /\ s \in Slots
        /\ table[s] = NullRef
    BY CallbackTableAssumption
       DEF IInv, TypeOK, TableInv, HolderInv, Registered, Slots, Erase
  <1>2. /\ callbacks' = [callbacks EXCEPT ![loc[t]] = Null]
        /\ callback_slot_assignment' = [callback_slot_assignment EXCEPT ![loc[t]] = 0]
        /\ UNCHANGED <<internal_callbacks, slot_assignments>>
    BY DEF Erase
  <1>3. ASSUME NEW j \in Interceptors, j # loc[t], callbacks[j] # Null
        PROVE  callback_slot_assignment[j] # s
    <2>1. ~BeingErased(j)
      <3>1. writer = t
        BY DEF IInv, MutexInv, Erase
      <3> QED BY <1>3, <3>1 DEF IInv, MutexInv, BeingErased
    <2>2. table[callback_slot_assignment[j]] = InterceptorRef(j)
      BY <1>3, <2>1 DEF IInv, RegistryInv, Registered, RegistrationInTable
    <2> QED BY <1>1, <2>2, FuncRefFacts
  <1>4. Live' = Live \ {s} /\ s \in Live
    <2>1. {j \in Interceptors : callbacks'[j] # Null}
            = {j \in Interceptors : callbacks[j] # Null} \ {loc[t]}
      BY <1>1, <1>2 DEF IInv, TypeOK
    <2>2. \A j \in Interceptors \ {loc[t]} :
            callback_slot_assignment'[j] = callback_slot_assignment[j]
      BY <1>2 DEF IInv, TypeOK
    <2> QED BY <1>1, <1>3, <2>1, <2>2 DEF Live
  <1>5. Pinned' = Pinned
    BY <1>2 DEF Pinned
  <1> QED BY <1>1, <1>2, <1>4, <1>5 DEF Registry!Next, Registry!Retire, Live, Pinned

\* The mutex-protected sections of the class implement the atomic operations of
\* CallbackRegistry: a slot has one meaning for ever, and only a registered
\* callback can be withdrawn.
THEOREM Refinement == Spec => ImplementsRegistry
  <1>1. Init => Registry!Init
    BY DEF Init, Registry!Init
  <1>2. IInv /\ [Next]_vars => [Registry!Next]_Visible
    <2> SUFFICES ASSUME IInv, NEW t \in Threads, Step(t)
                 PROVE  Registry!Next \/ UNCHANGED Visible
      BY DEF Next, Halted, vars, Visible, Live, Pinned
    <2>1. CASE RegisterRecord(t)
      BY <2>1, RegisterRecordGrants
    <2>2. CASE SandboxedRecord(t)
      BY <2>2, SandboxedRecordPins
    <2>3. CASE Erase(t)
      BY <2>3, EraseRetires
    <2>4. CASE UNCHANGED <<callbacks, callback_slot_assignment, mapVars>>
      BY <2>4 DEF Visible, Live, Pinned
    <2>5. \/ RegisterRecord(t) \/ SandboxedRecord(t) \/ Erase(t)
          \/ UNCHANGED <<callbacks, callback_slot_assignment, mapVars>>
      BY DEF Step, CallMember, Call, Registration, RegisterChoose, RegisterFull,
         Swizzling, SandboxedFound, SandboxedMissing, SlotAllocation,
         NewCallbackSlot, TakeSlot, NewCallbackSlotFails, Install, Unregistration,
         UnregisterChoose, UnregisterMissing, Withdraw, Interception, CallIndirect,
         InterceptorRead, InterceptorCall, GetExecutedKey, CallbackBody
    <2> QED BY <2>1, <2>2, <2>3, <2>4, <2>5
  <1> QED BY <1>1, <1>2, Invariance, PTL
         DEF Spec, ImplementsRegistry, Registry!Spec, Visible, Live, Pinned
=============================================================================

------------------------- MODULE CallbackTableProofs -------------------------
(***************************************************************************)
(* Proofs about CallbackTable, for every value of its constants: IInv is   *)
(* an invariant (one lemma per action, one step per conjunct), and the     *)
(* properties of the specification follow from it.                         *)
(***************************************************************************)
EXTENDS CallbackTableInv, TLAPS

\* The control-flow vocabulary is expanded throughout.
USE DEF At, Acquire, MutexFree, Goto, Return, Unlock, Holds, UniqueStages,
        mutexVars, arrayVars, mapVars, tableVars

\* The four kinds of table entries are distinct, and each names its target.
LEMMA FuncRefFacts ==
  /\ \A r \in FuncRefs :
       /\ r.kind = "interceptor" => r.target \in Interceptors /\ r = InterceptorRef(r.target)
       /\ r.kind = "host" => r.target \in HostFuncs /\ r = HostRef(r.target)
  /\ NullRef \in FuncRefs /\ NullRef.kind = "null"
  /\ ModuleRef \in FuncRefs /\ ModuleRef.kind = "module"
  /\ \A i \in Interceptors :
       InterceptorRef(i) \in FuncRefs /\ InterceptorRef(i).kind = "interceptor"
                                      /\ InterceptorRef(i).target = i
  /\ \A p \in HostFuncs :
       HostRef(p) \in FuncRefs /\ HostRef(p).kind = "host" /\ HostRef(p).target = p
  <1>1. \A r \in FuncRefs : r.kind = "interceptor" => r.target \in Interceptors /\ r = InterceptorRef(r.target)
    BY DEF FuncRefs, NullRef, ModuleRef, InterceptorRef, HostRef
  <1>2. \A r \in FuncRefs : r.kind = "host" => r.target \in HostFuncs /\ r = HostRef(r.target)
    BY DEF FuncRefs, NullRef, ModuleRef, InterceptorRef, HostRef
  <1>3. /\ NullRef \in FuncRefs /\ NullRef.kind = "null"
        /\ ModuleRef \in FuncRefs /\ ModuleRef.kind = "module"
    BY DEF FuncRefs, NullRef, ModuleRef
  <1>4. \A i \in Interceptors :
       InterceptorRef(i) \in FuncRefs /\ InterceptorRef(i).kind = "interceptor"
                                      /\ InterceptorRef(i).target = i
    BY DEF FuncRefs, InterceptorRef
  <1>5. \A p \in HostFuncs :
       HostRef(p) \in FuncRefs /\ HostRef(p).kind = "host" /\ HostRef(p).target = p
    BY DEF FuncRefs, HostRef
  <1> QED BY <1>1, <1>2, <1>3, <1>4, <1>5

\* impl_register_callback picks an interceptor.  IInv is preserved.
LEMMA RegisterChooseInv ==
  ASSUME IInv, NEW t \in Threads, RegisterChoose(t) PROVE IInv'
  <1>1. TypeOK'
    BY CallbackTableAssumption DEF IInv, TypeOK, Stages, RegisterChoose,
       FirstFree
  <1>2. MutexInv'
    BY CallbackTableAssumption DEF IInv, TypeOK, MutexInv, Slots,
       RegisterChoose, FirstFree
  <1>3. OpInv'
    BY CallbackTableAssumption DEF IInv, TypeOK, OpInv, Registered,
       RegisterChoose, FirstFree
  <1>4. TableInv'
    BY CallbackTableAssumption DEF IInv, TypeOK, TableInv, RegisterChoose,
       FirstFree
  <1>5. HolderInv'
    BY SMTT(30), CallbackTableAssumption DEF IInv, TypeOK, MutexInv, OpInv, TableInv,
       HolderInv, RegistryInv, FreshSlot, Registered, Slots, NullRef,
       InterceptorRef, HostRef, RegistrationInTable, SwizzledInTable,
       UnsandboxedPointer, BeingErased, Interceptors, RegisterChoose,
       FirstFree
  <1>6. RegistryInv'
    BY SMTT(30), CallbackTableAssumption DEF IInv, TypeOK, MutexInv, OpInv, TableInv,
       HolderInv, RegistryInv, FreshSlot, Registered, Slots, NullRef,
       ModuleRef, InterceptorRef, HostRef, RegistrationInTable,
       SwizzledInTable, UnsandboxedPointer, BeingErased, BeingInstalled,
       Interceptors, RegisterChoose, FirstFree
  <1>7. DispatchInv'
    BY CallbackTableAssumption DEF IInv, TypeOK, MutexInv, DispatchInv,
       Dispatching, BeingInstalled, RegisterChoose, FirstFree
  <1>8. DispatchMatchesSlot'
    BY CallbackTableAssumption DEF IInv, TypeOK, DispatchMatchesSlot,
       RegisterChoose, FirstFree
  <1>9. OwnedInv'
    BY CallbackTableAssumption DEF IInv, TypeOK, OwnedInv, BeingGranted,
       Slots, MutexInv, RegisterChoose, FirstFree
  <1> QED BY <1>1, <1>2, <1>3, <1>4, <1>5, <1>6, <1>7, <1>8, <1>9 DEF IInv

\* impl_register_callback finds no interceptor.  IInv is preserved.
LEMMA RegisterFullInv ==
  ASSUME IInv, NEW t \in Threads, RegisterFull(t) PROVE IInv'
  <1>1. TypeOK'
    BY SMTT(20), CallbackTableAssumption DEF IInv, TypeOK, Stages, Ops, Interceptors,
       RegisterFull
  <1>2. MutexInv'
    BY CallbackTableAssumption DEF IInv, TypeOK, MutexInv, Slots, RegisterFull
  <1>3. OpInv'
    BY CallbackTableAssumption DEF IInv, TypeOK, OpInv, Registered,
       RegisterFull
  <1>4. TableInv'
    BY CallbackTableAssumption DEF IInv, TypeOK, TableInv, RegisterFull
  <1>5. HolderInv'
    BY SMTT(30), CallbackTableAssumption DEF IInv, TypeOK, MutexInv, OpInv, TableInv,
       HolderInv, RegistryInv, FreshSlot, Registered, Slots, NullRef,
       InterceptorRef, HostRef, RegistrationInTable, SwizzledInTable,
       UnsandboxedPointer, BeingErased, Interceptors, RegisterFull
  <1>6. RegistryInv'
    BY SMTT(30), CallbackTableAssumption DEF IInv, TypeOK, MutexInv, OpInv, TableInv,
       HolderInv, RegistryInv, FreshSlot, Registered, Slots, NullRef,
       ModuleRef, InterceptorRef, HostRef, RegistrationInTable,
       SwizzledInTable, UnsandboxedPointer, BeingErased, BeingInstalled,
       Interceptors, RegisterFull
  <1>7. DispatchInv'
    BY CallbackTableAssumption DEF IInv, TypeOK, MutexInv, DispatchInv,
       Dispatching, BeingInstalled, RegisterFull
  <1>8. DispatchMatchesSlot'
    BY CallbackTableAssumption DEF IInv, TypeOK, DispatchMatchesSlot,
       RegisterFull
  <1>9. OwnedInv'
    BY CallbackTableAssumption DEF IInv, TypeOK, OwnedInv, BeingGranted,
       Slots, RegisterFull
  <1> QED BY <1>1, <1>2, <1>3, <1>4, <1>5, <1>6, <1>7, <1>8, <1>9 DEF IInv

\* impl_register_callback fills its arrays and unlocks.  IInv is preserved.
LEMMA RegisterRecordInv ==
  ASSUME IInv, NEW t \in Threads, RegisterRecord(t) PROVE IInv'
  <1> DEFINE i == loc[t]
             s == slot[t]
  <1>a. /\ i \in Interceptors /\ callbacks[i] = Null
        /\ FreshSlot(s) /\ s \in Slots /\ table[s] = InterceptorRef(i)
        /\ key[t] \in Keys /\ ptr[t] \in Callbacks /\ writer = t
    BY CallbackTableAssumption DEF IInv, TypeOK, OpInv, HolderInv, MutexInv,
       FreshSlot, Slots, RegisterRecord
  <1>b. /\ callbacks' = [callbacks EXCEPT ![i] = ptr[t]]
        /\ slot_assignments' = [slot_assignments EXCEPT ![s] = ptr[t]]
    BY DEF RegisterRecord
  <1>c. \A u \in Threads : u # t => pc[u] \notin UniqueStages
    BY <1>a DEF IInv, MutexInv
  <1>1. TypeOK'
    BY SMTT(30), CallbackTableAssumption DEF IInv, TypeOK, Stages, Ops, Interceptors,
       OpInv, HolderInv, FreshSlot, Slots, Pointers, RegisterRecord
  <1>2. MutexInv'
    BY CallbackTableAssumption DEF IInv, TypeOK, MutexInv, RegisterRecord
  <1>3. OpInv'
    BY CallbackTableAssumption DEF IInv, TypeOK, OpInv, Registered,
       RegisterRecord
  <1>4. TableInv'
    BY CallbackTableAssumption DEF IInv, TypeOK, TableInv, HolderInv,
       FreshSlot, Slots, RegisterRecord
  <1>5. HolderInv'
    BY SMTT(30), CallbackTableAssumption DEF IInv, TypeOK, MutexInv, OpInv, TableInv,
       HolderInv, RegistryInv, FreshSlot, Registered, Slots, NullRef,
       InterceptorRef, HostRef, RegistrationInTable, SwizzledInTable,
       UnsandboxedPointer, BeingErased, Interceptors, RegisterRecord
  <1>6. RegistryInv'
    <2>1. \A j \in Interceptors : (Registered(j) \/ callback_unique_keys[j] = Null)'
      BY <1>a, CallbackTableAssumption DEF IInv, TypeOK, RegistryInv,
         Registered, RegisterRecord, Pointers
    <2>2. \A j \in Interceptors : Registered(j)' => RegistrationInTable(j)'
      BY <1>a, <1>c, CallbackTableAssumption DEF IInv, TypeOK, RegistryInv,
         Registered, RegistrationInTable, BeingErased,
         UnsandboxedPointer, FreshSlot, Slots, RegisterRecord
    <2>3. \A p \in HostFuncs : internal_callbacks'[p] # Null => SwizzledInTable(p)'
      BY <1>a, CallbackTableAssumption DEF IInv, TypeOK, RegistryInv,
         SwizzledInTable, UnsandboxedPointer,
         FreshSlot, Slots, RegisterRecord, InterceptorRef, HostRef
    <2>4. ASSUME NEW r \in Slots, table[r].kind = "interceptor"
          PROVE  /\ Registered(table[r].target)'
                 /\ callback_slot_assignment'[table[r].target] = r
      <3>1. CASE r = s
        BY <3>1, <1>a, FuncRefFacts, CallbackTableAssumption DEF IInv, TypeOK,
           Registered, RegisterRecord, Pointers
      <3>2. CASE r # s
        <4>1. table[r].target \in Interceptors
          BY <2>4, FuncRefFacts DEF IInv, TypeOK
        <4>2. Registered(table[r].target) /\ callback_slot_assignment[table[r].target] = r
          BY <3>2, <2>4, <1>c DEF IInv, RegistryInv, BeingInstalled
        <4> QED BY <4>1, <4>2, <1>a DEF IInv, TypeOK, Registered, RegisterRecord
      <3> QED BY <3>1, <3>2
    <2>5. ASSUME NEW r \in Slots, table[r].kind = "host"
          PROVE  internal_callbacks'[table[r].target] = r
      BY <2>5, <1>a, <1>c, FuncRefFacts DEF IInv, RegistryInv, BeingInstalled,
         RegisterRecord
    <2> QED BY <2>1, <2>2, <2>3, <2>4, <2>5 DEF RegistryInv, RegisterRecord
  <1>7. DispatchInv'
    BY CallbackTableAssumption DEF IInv, TypeOK, MutexInv, DispatchInv,
       Dispatching, BeingInstalled, HolderInv, OpInv, FreshSlot, Pointers,
       Slots, RegisterRecord
  <1>8. DispatchMatchesSlot'
    <2> SUFFICES ASSUME NEW u \in Threads, pc'[u] \in Dispatching,
                        table'[slot'[u]] = InterceptorRef(loc'[u])
                 PROVE  /\ ptr'[u] = slot_assignments'[slot'[u]]
                        /\ pc'[u] = "identified" => key'[u] = callback_unique_keys'[loc'[u]]
      BY DEF DispatchMatchesSlot, Dispatching
    <2>1. /\ u # t /\ pc'[u] = pc[u] /\ slot'[u] = slot[u] /\ loc'[u] = loc[u]
          /\ ptr'[u] = ptr[u] /\ key'[u] = key[u] /\ table' = table
      BY DEF IInv, TypeOK, RegisterRecord, Dispatching
    <2>2. slot[u] \in Slots /\ slot[u] # s /\ loc[u] \in Interceptors
      BY <2>1, <1>a DEF IInv, TypeOK, DispatchInv, FreshSlot
    <2>3. Registered(loc[u])
      BY <2>1, <2>2, <1>c, FuncRefFacts DEF IInv, RegistryInv, BeingInstalled
    <2> QED BY <1>a, <2>1, <2>2, <2>3 DEF IInv, TypeOK, DispatchMatchesSlot, Dispatching, Registered, RegisterRecord
  <1>9. OwnedInv'
    BY CallbackTableAssumption DEF IInv, TypeOK, OwnedInv, BeingGranted,
       Slots, OpInv, Pointers, MutexInv, RegisterRecord
  <1> QED BY <1>1, <1>2, <1>3, <1>4, <1>5, <1>6, <1>7, <1>8, <1>9 DEF IInv

\* impl_get_sandboxed_pointer finds the pointer.  IInv is preserved.
LEMMA SandboxedFoundInv ==
  ASSUME IInv, NEW t \in Threads, SandboxedFound(t) PROVE IInv'
  <1>1. TypeOK'
    BY SMTT(20), CallbackTableAssumption DEF IInv, TypeOK, Stages, Ops, Interceptors,
       SandboxedFound
  <1>2. MutexInv'
    BY CallbackTableAssumption DEF IInv, TypeOK, MutexInv, Slots,
       SandboxedFound
  <1>3. OpInv'
    BY CallbackTableAssumption DEF IInv, TypeOK, OpInv, Registered,
       SandboxedFound
  <1>4. TableInv'
    BY CallbackTableAssumption DEF IInv, TypeOK, TableInv, SandboxedFound
  <1>5. HolderInv'
    BY SMTT(30), CallbackTableAssumption DEF IInv, TypeOK, MutexInv, OpInv, TableInv,
       HolderInv, RegistryInv, FreshSlot, Registered, Slots, NullRef,
       InterceptorRef, HostRef, RegistrationInTable, SwizzledInTable,
       UnsandboxedPointer, BeingErased, Interceptors, SandboxedFound
  <1>6. RegistryInv'
    BY SMTT(30), CallbackTableAssumption DEF IInv, TypeOK, MutexInv, OpInv, TableInv,
       HolderInv, RegistryInv, FreshSlot, Registered, Slots, NullRef,
       ModuleRef, InterceptorRef, HostRef, RegistrationInTable,
       SwizzledInTable, UnsandboxedPointer, BeingErased, BeingInstalled,
       Interceptors, SandboxedFound
  <1>7. DispatchInv'
    BY CallbackTableAssumption DEF IInv, TypeOK, MutexInv, DispatchInv,
       Dispatching, BeingInstalled, SandboxedFound
  <1>8. DispatchMatchesSlot'
    BY CallbackTableAssumption DEF IInv, TypeOK, DispatchMatchesSlot,
       SandboxedFound
  <1>9. OwnedInv'
    BY CallbackTableAssumption DEF IInv, TypeOK, OwnedInv, BeingGranted,
       Slots, SandboxedFound
  <1> QED BY <1>1, <1>2, <1>3, <1>4, <1>5, <1>6, <1>7, <1>8, <1>9 DEF IInv

\* impl_get_sandboxed_pointer needs a slot.  IInv is preserved.
LEMMA SandboxedMissingInv ==
  ASSUME IInv, NEW t \in Threads, SandboxedMissing(t) PROVE IInv'
  <1>1. TypeOK'
    BY CallbackTableAssumption DEF IInv, TypeOK, Stages, SandboxedMissing
  <1>2. MutexInv'
    BY CallbackTableAssumption DEF IInv, TypeOK, MutexInv, Slots,
       SandboxedMissing
  <1>3. OpInv'
    BY CallbackTableAssumption DEF IInv, TypeOK, OpInv, Registered,
       SandboxedMissing
  <1>4. TableInv'
    BY CallbackTableAssumption DEF IInv, TypeOK, TableInv, SandboxedMissing
  <1>5. HolderInv'
    BY SMTT(30), CallbackTableAssumption DEF IInv, TypeOK, MutexInv, OpInv, TableInv,
       HolderInv, RegistryInv, FreshSlot, Registered, Slots, NullRef,
       InterceptorRef, HostRef, RegistrationInTable, SwizzledInTable,
       UnsandboxedPointer, BeingErased, Interceptors, SandboxedMissing
  <1>6. RegistryInv'
    BY SMTT(30), CallbackTableAssumption DEF IInv, TypeOK, MutexInv, OpInv, TableInv,
       HolderInv, RegistryInv, FreshSlot, Registered, Slots, NullRef,
       ModuleRef, InterceptorRef, HostRef, RegistrationInTable,
       SwizzledInTable, UnsandboxedPointer, BeingErased, BeingInstalled,
       Interceptors, SandboxedMissing
  <1>7. DispatchInv'
    BY CallbackTableAssumption DEF IInv, TypeOK, MutexInv, DispatchInv,
       Dispatching, BeingInstalled, SandboxedMissing
  <1>8. DispatchMatchesSlot'
    BY CallbackTableAssumption DEF IInv, TypeOK, DispatchMatchesSlot,
       SandboxedMissing
  <1>9. OwnedInv'
    BY CallbackTableAssumption DEF IInv, TypeOK, OwnedInv, BeingGranted,
       Slots, MutexInv, SandboxedMissing
  <1> QED BY <1>1, <1>2, <1>3, <1>4, <1>5, <1>6, <1>7, <1>8, <1>9 DEF IInv

\* impl_get_sandboxed_pointer fills its maps and unlocks.  IInv is preserved.
LEMMA SandboxedRecordInv ==
  ASSUME IInv, NEW t \in Threads, SandboxedRecord(t) PROVE IInv'
  <1> DEFINE s == slot[t]
  <1>a. /\ FreshSlot(s) /\ s \in Slots /\ table[s] = HostRef(ptr[t])
        /\ ptr[t] \in HostFuncs /\ internal_callbacks[ptr[t]] = Null /\ writer = t
    BY CallbackTableAssumption DEF IInv, TypeOK, OpInv, HolderInv, MutexInv,
       FreshSlot, Slots, SandboxedRecord
  <1>c. \A u \in Threads : u # t => pc[u] \notin UniqueStages
    BY <1>a DEF IInv, MutexInv
  <1>1. TypeOK'
    BY SMTT(30), CallbackTableAssumption DEF IInv, TypeOK, Stages, Ops, Interceptors,
       OpInv, HolderInv, FreshSlot, Slots, Pointers, SandboxedRecord
  <1>2. MutexInv'
    BY CallbackTableAssumption DEF IInv, TypeOK, MutexInv, Slots,
       SandboxedRecord
  <1>3. OpInv'
    BY CallbackTableAssumption DEF IInv, TypeOK, OpInv, Registered,
       SandboxedRecord
  <1>4. TableInv'
    BY CallbackTableAssumption DEF IInv, TypeOK, TableInv, HolderInv,
       FreshSlot, Slots, SandboxedRecord
  <1>5. HolderInv'
    BY SMTT(30), CallbackTableAssumption DEF IInv, TypeOK, MutexInv, OpInv, TableInv,
       HolderInv, RegistryInv, FreshSlot, Registered, Slots, NullRef,
       InterceptorRef, HostRef, RegistrationInTable, SwizzledInTable,
       UnsandboxedPointer, BeingErased, Interceptors, SandboxedRecord
  <1>6. RegistryInv'
    <2>2. \A j \in Interceptors : Registered(j)' => RegistrationInTable(j)'
      BY <1>a, <1>c, CallbackTableAssumption DEF IInv, TypeOK, RegistryInv,
         Registered, RegistrationInTable, BeingErased,
         UnsandboxedPointer, FreshSlot, Slots, SandboxedRecord
    <2>3. \A p \in HostFuncs : internal_callbacks'[p] # Null => SwizzledInTable(p)'
      BY <1>a, CallbackTableAssumption DEF IInv, TypeOK, RegistryInv,
         SwizzledInTable, UnsandboxedPointer,
         FreshSlot, Slots, SandboxedRecord, InterceptorRef, HostRef
    <2>4. ASSUME NEW r \in Slots, table[r].kind = "interceptor"
          PROVE  /\ Registered(table[r].target)'
                 /\ callback_slot_assignment'[table[r].target] = r
      BY <2>4, <1>a, <1>c, FuncRefFacts DEF IInv, RegistryInv, BeingInstalled,
         SandboxedRecord, Registered
    <2>5. ASSUME NEW r \in Slots, table[r].kind = "host"
          PROVE  internal_callbacks'[table[r].target] = r
      <3>1. CASE r = s
        BY <3>1, <1>a, FuncRefFacts DEF IInv, TypeOK, SandboxedRecord
      <3>2. CASE r # s
        <4>1. table[r].target \in HostFuncs
          BY <2>5, FuncRefFacts DEF IInv, TypeOK
        <4>2. internal_callbacks[table[r].target] = r
          BY <3>2, <2>5, <1>c DEF IInv, RegistryInv, BeingInstalled
        <4>3. r # Null
          BY CallbackTableAssumption
        <4> QED BY <4>1, <4>2, <4>3, <1>a DEF IInv, TypeOK, SandboxedRecord
      <3> QED BY <3>1, <3>2
    <2> QED BY <2>2, <2>3, <2>4, <2>5 DEF RegistryInv, SandboxedRecord, IInv, Registered
  <1>7. DispatchInv'
    BY CallbackTableAssumption DEF IInv, TypeOK, MutexInv, DispatchInv,
       Dispatching, BeingInstalled, HolderInv, OpInv, FreshSlot, Pointers,
       Slots, SandboxedRecord
  <1>8. DispatchMatchesSlot'
    BY CallbackTableAssumption DEF IInv, TypeOK, HolderInv, FreshSlot,
       DispatchInv, Dispatching, DispatchMatchesSlot, SandboxedRecord
  <1>9. OwnedInv'
    BY CallbackTableAssumption DEF IInv, TypeOK, OwnedInv, BeingGranted,
       Slots, OpInv, Pointers, MutexInv, SandboxedRecord
  <1> QED BY <1>1, <1>2, <1>3, <1>4, <1>5, <1>6, <1>7, <1>8, <1>9 DEF IInv

\* new_callback_slot grows the table.  IInv is preserved.
LEMMA NewCallbackSlotInv ==
  ASSUME IInv, NEW t \in Threads, NewCallbackSlot(t) PROVE IInv'
  <1>a. /\ callback_free_list = <<>> /\ callback_free_list' = <<>>
        /\ table_size \in Nat /\ table_size < MaxTableSize /\ table_size' = table_size + 1
        /\ pc[t] = "new_slot" /\ writer = t
        /\ UNCHANGED <<table, arrayVars, mapVars, last_callback_invoked>>
    BY CallbackTableAssumption DEF IInv, TypeOK, TableInv, MutexInv,
       NewCallbackSlot, TakeSlot
  <1>b. \A u \in Threads : u # t => pc[u] \notin UniqueStages
    BY <1>a DEF IInv, MutexInv
  <1>c. CASE table_size = 0
    <2>a. Unlock /\ Return(t)
      BY <1>a, <1>c DEF NewCallbackSlot, TakeSlot
    <2>1. TypeOK'
      BY <1>a, <2>a, CallbackTableAssumption DEF IInv, TypeOK, Stages, Ops,
         Interceptors
    <2>2. MutexInv'
      BY <1>a, <2>a, CallbackTableAssumption DEF IInv, TypeOK, MutexInv
    <2>3. OpInv'
      BY <1>a, <2>a DEF IInv, TypeOK, OpInv
    <2>4. TableInv'
      BY <1>a, CallbackTableAssumption DEF IInv, TypeOK, TableInv, Slots
    <2>5. HolderInv'
      BY <1>a, <1>b, <2>a DEF IInv, TypeOK, HolderInv
    <2>6. RegistryInv'
      BY <1>a, <1>c, <2>a, CallbackTableAssumption DEF IInv, TypeOK,
         RegistryInv, Registered, RegistrationInTable, SwizzledInTable,
         UnsandboxedPointer, BeingErased, BeingInstalled
    <2>7. DispatchInv'
      BY <1>a, <2>a DEF IInv, TypeOK, DispatchInv, Dispatching, BeingInstalled
    <2>8. DispatchMatchesSlot'
      BY <1>a, <2>a DEF IInv, TypeOK, DispatchMatchesSlot
    <2>9. OwnedInv'
      BY <1>a, <1>b, <1>c, <2>a, CallbackTableAssumption DEF OwnedInv
    <2> QED BY <2>1, <2>2, <2>3, <2>4, <2>5, <2>6, <2>7, <2>8, <2>9 DEF IInv
  <1>d. CASE table_size # 0
    <2>a. /\ slot' = [slot EXCEPT ![t] = table_size]
          /\ Goto(t, "install")
          /\ UNCHANGED <<mutexVars, op, key, ptr, loc>>
      BY <1>a, <1>d DEF NewCallbackSlot, TakeSlot
    <2>1. TypeOK'
      BY <1>a, <2>a, CallbackTableAssumption DEF IInv, TypeOK, Stages
    <2>2. MutexInv'
      BY <1>a, <2>a DEF IInv, TypeOK, MutexInv
    <2>3. OpInv'
      BY <1>a, <2>a DEF IInv, TypeOK, OpInv
    <2>4. TableInv'
      BY <1>a, CallbackTableAssumption DEF IInv, TypeOK, TableInv, Slots
    <2>5. HolderInv'
      BY <1>a, <1>b, <1>d, <2>a, CallbackTableAssumption DEF IInv, TypeOK,
         HolderInv, TableInv, FreshSlot, Slots
    <2>6. RegistryInv'
      BY <1>a, <2>a, CallbackTableAssumption DEF IInv, TypeOK, RegistryInv,
         Registered, RegistrationInTable, SwizzledInTable, UnsandboxedPointer,
         BeingErased, BeingInstalled
    <2>7. DispatchInv'
      BY <1>a, <2>a DEF IInv, TypeOK, DispatchInv, Dispatching, BeingInstalled
    <2>8. DispatchMatchesSlot'
      BY <1>a, <2>a DEF IInv, TypeOK, DispatchMatchesSlot
    <2>9. OwnedInv'
      <3> SUFFICES ASSUME NEW s \in (InitTableSize .. table_size - 1)',
                          s # 0, ~(slot_assignments[s] # Null)'
                   PROVE  BeingGranted(s)'
        BY DEF OwnedInv
      <3>1. UNCHANGED slot_assignments /\ table_size' = table_size + 1
        BY <1>a DEF NewCallbackSlot, TakeSlot, mapVars
      <3>2. \A u \in Threads : ~Holds(u, {"install", "record"})
        BY <1>a, <1>b DEF Holds, UniqueStages
      <3>3. s \notin InitTableSize .. table_size - 1
        BY <3>1, <3>2 DEF IInv, OwnedInv, BeingGranted
      <3>4. s = table_size
        BY <3>1, <3>3, CallbackTableAssumption DEF IInv, TypeOK
      <3> QED
        BY <2>a, <3>4 DEF IInv, TypeOK, BeingGranted, Holds
    <2> QED BY <2>1, <2>2, <2>3, <2>4, <2>5, <2>6, <2>7, <2>8, <2>9 DEF IInv
  <1> QED BY <1>c, <1>d

\* new_callback_slot raises.  IInv is preserved.
LEMMA NewCallbackSlotFailsInv ==
  ASSUME IInv, NEW t \in Threads, NewCallbackSlotFails(t) PROVE IInv'
  <1>1. TypeOK'
    BY SMTT(20), CallbackTableAssumption DEF IInv, TypeOK, Stages, Ops, Interceptors,
       NewCallbackSlotFails
  <1>2. MutexInv'
    BY CallbackTableAssumption DEF IInv, TypeOK, MutexInv, Slots,
       NewCallbackSlotFails
  <1>3. OpInv'
    BY CallbackTableAssumption DEF IInv, TypeOK, OpInv, Registered,
       NewCallbackSlotFails
  <1>4. TableInv'
    BY CallbackTableAssumption DEF IInv, TypeOK, TableInv,
       NewCallbackSlotFails
  <1>5. HolderInv'
    BY SMTT(30), CallbackTableAssumption DEF IInv, TypeOK, MutexInv, OpInv, TableInv,
       HolderInv, RegistryInv, FreshSlot, Registered, Slots, NullRef,
       InterceptorRef, HostRef, RegistrationInTable, SwizzledInTable,
       UnsandboxedPointer, BeingErased, Interceptors, NewCallbackSlotFails
  <1>6. RegistryInv'
    BY SMTT(30), CallbackTableAssumption DEF IInv, TypeOK, MutexInv, OpInv, TableInv,
       HolderInv, RegistryInv, FreshSlot, Registered, Slots, NullRef,
       ModuleRef, InterceptorRef, HostRef, RegistrationInTable,
       SwizzledInTable, UnsandboxedPointer, BeingErased, BeingInstalled,
       Interceptors, NewCallbackSlotFails
  <1>7. DispatchInv'
    BY CallbackTableAssumption DEF IInv, TypeOK, MutexInv, DispatchInv,
       Dispatching, BeingInstalled, NewCallbackSlotFails
  <1>8. DispatchMatchesSlot'
    BY CallbackTableAssumption DEF IInv, TypeOK, DispatchMatchesSlot,
       NewCallbackSlotFails
  <1>9. OwnedInv'
    BY CallbackTableAssumption DEF IInv, TypeOK, OwnedInv, BeingGranted,
       Slots, MutexInv, NewCallbackSlotFails
  <1> QED BY <1>1, <1>2, <1>3, <1>4, <1>5, <1>6, <1>7, <1>8, <1>9 DEF IInv

\* The entry is written to the function table.  IInv is preserved.
LEMMA InstallInv ==
  ASSUME IInv, NEW t \in Threads, Install(t) PROVE IInv'
  <1>a. IF op[t] = "register" THEN InterceptorRef(loc[t]) \in FuncRefs ELSE HostRef(ptr[t]) \in FuncRefs
    BY FuncRefFacts DEF IInv, TypeOK, OpInv, Install
  <1>1. TypeOK'
    BY <1>a DEF IInv, TypeOK, Stages, Install
  <1>2. MutexInv'
    BY CallbackTableAssumption DEF IInv, TypeOK, MutexInv, Slots, Install
  <1>3. OpInv'
    BY CallbackTableAssumption DEF IInv, TypeOK, OpInv, Registered, Install
  <1>4. TableInv'
    BY CallbackTableAssumption DEF IInv, TypeOK, TableInv, HolderInv,
       FreshSlot, Slots, Install
  <1>5. HolderInv'
    BY SMTT(30), CallbackTableAssumption DEF IInv, TypeOK, MutexInv, OpInv, TableInv,
       HolderInv, RegistryInv, FreshSlot, Registered, Slots, NullRef,
       InterceptorRef, HostRef, RegistrationInTable, SwizzledInTable,
       UnsandboxedPointer, BeingErased, Interceptors, Install
  <1>6. RegistryInv'
    BY SMTT(30), CallbackTableAssumption DEF IInv, TypeOK, MutexInv, OpInv, TableInv,
       HolderInv, RegistryInv, FreshSlot, Registered, Slots, NullRef,
       ModuleRef, InterceptorRef, HostRef, RegistrationInTable,
       SwizzledInTable, UnsandboxedPointer, BeingErased, BeingInstalled,
       Interceptors, Install
  <1>7. DispatchInv'
    BY CallbackTableAssumption DEF IInv, TypeOK, MutexInv, DispatchInv,
       Dispatching, BeingInstalled, Install
  <1>8. DispatchMatchesSlot'
    BY CallbackTableAssumption DEF IInv, TypeOK, HolderInv, FreshSlot,
       DispatchInv, Dispatching, DispatchMatchesSlot, Install
  <1>9. OwnedInv'
    BY CallbackTableAssumption DEF IInv, TypeOK, OwnedInv, BeingGranted,
       Slots, Install
  <1> QED BY <1>1, <1>2, <1>3, <1>4, <1>5, <1>6, <1>7, <1>8, <1>9 DEF IInv

\* impl_unregister_callback finds the key.  IInv is preserved.
LEMMA UnregisterChooseInv ==
  ASSUME IInv, NEW t \in Threads, UnregisterChoose(t) PROVE IInv'
  <1>1. TypeOK'
    BY CallbackTableAssumption DEF IInv, TypeOK, Stages, UnregisterChoose,
       FirstWithKey
  <1>2. MutexInv'
    BY CallbackTableAssumption DEF IInv, TypeOK, MutexInv, Slots,
       UnregisterChoose, FirstWithKey
  <1>3. OpInv'
    BY CallbackTableAssumption DEF IInv, TypeOK, OpInv, Registered,
       UnregisterChoose, FirstWithKey
  <1>4. TableInv'
    BY CallbackTableAssumption DEF IInv, TypeOK, TableInv, UnregisterChoose,
       FirstWithKey
  <1>5. HolderInv'
    BY SMTT(30), CallbackTableAssumption DEF IInv, TypeOK, MutexInv, OpInv, TableInv,
       HolderInv, RegistryInv, FreshSlot, Registered, Slots, NullRef,
       InterceptorRef, HostRef, RegistrationInTable, SwizzledInTable,
       UnsandboxedPointer, BeingErased, Interceptors, UnregisterChoose,
       FirstWithKey
  <1>6. RegistryInv'
    BY SMTT(30), CallbackTableAssumption DEF IInv, TypeOK, MutexInv, OpInv, TableInv,
       HolderInv, RegistryInv, FreshSlot, Registered, Slots, NullRef,
       ModuleRef, InterceptorRef, HostRef, RegistrationInTable,
       SwizzledInTable, UnsandboxedPointer, BeingErased, BeingInstalled,
       Interceptors, UnregisterChoose, FirstWithKey
  <1>7. DispatchInv'
    BY CallbackTableAssumption DEF IInv, TypeOK, MutexInv, DispatchInv,
       Dispatching, BeingInstalled, UnregisterChoose, FirstWithKey
  <1>8. DispatchMatchesSlot'
    BY CallbackTableAssumption DEF IInv, TypeOK, DispatchMatchesSlot,
       UnregisterChoose, FirstWithKey
  <1>9. OwnedInv'
    <2>1. /\ pc[t] = "wait"
          /\ \A u \in Threads \ {t} : pc'[u] = pc[u] /\ slot'[u] = slot[u]
      BY DEF IInv, TypeOK, UnregisterChoose
    <2> QED BY <2>1 DEF IInv, OwnedInv, BeingGranted, UnregisterChoose
  <1> QED BY <1>1, <1>2, <1>3, <1>4, <1>5, <1>6, <1>7, <1>8, <1>9 DEF IInv

\* impl_unregister_callback finds nothing.  IInv is preserved.
LEMMA UnregisterMissingInv ==
  ASSUME IInv, NEW t \in Threads, UnregisterMissing(t) PROVE IInv'
  <1>1. TypeOK'
    BY SMTT(20), CallbackTableAssumption DEF IInv, TypeOK, Stages, Ops, Interceptors,
       UnregisterMissing
  <1>2. MutexInv'
    BY CallbackTableAssumption DEF IInv, TypeOK, MutexInv, Slots,
       UnregisterMissing
  <1>3. OpInv'
    BY CallbackTableAssumption DEF IInv, TypeOK, OpInv, Registered,
       UnregisterMissing
  <1>4. TableInv'
    BY CallbackTableAssumption DEF IInv, TypeOK, TableInv, UnregisterMissing
  <1>5. HolderInv'
    BY SMTT(30), CallbackTableAssumption DEF IInv, TypeOK, MutexInv, OpInv, TableInv,
       HolderInv, RegistryInv, FreshSlot, Registered, Slots, NullRef,
       InterceptorRef, HostRef, RegistrationInTable, SwizzledInTable,
       UnsandboxedPointer, BeingErased, Interceptors, UnregisterMissing
  <1>6. RegistryInv'
    BY SMTT(30), CallbackTableAssumption DEF IInv, TypeOK, MutexInv, OpInv, TableInv,
       HolderInv, RegistryInv, FreshSlot, Registered, Slots, NullRef,
       ModuleRef, InterceptorRef, HostRef, RegistrationInTable,
       SwizzledInTable, UnsandboxedPointer, BeingErased, BeingInstalled,
       Interceptors, UnregisterMissing
  <1>7. DispatchInv'
    BY CallbackTableAssumption DEF IInv, TypeOK, MutexInv, DispatchInv,
       Dispatching, BeingInstalled, UnregisterMissing
  <1>8. DispatchMatchesSlot'
    BY CallbackTableAssumption DEF IInv, TypeOK, DispatchMatchesSlot,
       UnregisterMissing
  <1>9. OwnedInv'
    BY CallbackTableAssumption DEF IInv, TypeOK, OwnedInv, BeingGranted,
       Slots, UnregisterMissing
  <1> QED BY <1>1, <1>2, <1>3, <1>4, <1>5, <1>6, <1>7, <1>8, <1>9 DEF IInv

\* impl_unregister_callback clears the table entry.  IInv is preserved.
LEMMA WithdrawInv ==
  ASSUME IInv, NEW t \in Threads, Withdraw(t) PROVE IInv'
  <1>a. /\ loc[t] \in Interceptors /\ Registered(loc[t]) /\ RegistrationInTable(loc[t])
        /\ slot[t] = callback_slot_assignment[loc[t]] /\ writer = t
        /\ slot[t] \in InitTableSize .. table_size - 1 /\ slot[t] \in Slots
        /\ table[slot[t]] = InterceptorRef(loc[t])
    BY CallbackTableAssumption DEF IInv, TypeOK, HolderInv, MutexInv,
       RegistryInv, BeingErased,
       RegistrationInTable, Slots, Withdraw
  <1>b. table' = [table EXCEPT ![slot[t]] = NullRef]
    BY DEF Withdraw
  <1>c. \A u \in Threads : u # t => pc[u] \notin UniqueStages
    BY <1>a DEF IInv, MutexInv
  <1>1. TypeOK'
    BY CallbackTableAssumption DEF IInv, TypeOK, Stages, FuncRefs, Withdraw
  <1>2. MutexInv'
    BY CallbackTableAssumption DEF IInv, TypeOK, MutexInv, Slots, Withdraw
  <1>3. OpInv'
    BY CallbackTableAssumption DEF IInv, TypeOK, OpInv, Registered, Withdraw
  <1>4. TableInv'
    BY <1>a, <1>b, CallbackTableAssumption DEF IInv, TypeOK, TableInv, Slots,
       Withdraw
  <1>5. HolderInv'
    BY SMTT(30), CallbackTableAssumption DEF IInv, TypeOK, MutexInv, OpInv, TableInv,
       HolderInv, RegistryInv, FreshSlot, Registered, Slots, NullRef,
       InterceptorRef, HostRef, RegistrationInTable, SwizzledInTable,
       UnsandboxedPointer, BeingErased, Interceptors, Withdraw
  <1>6. RegistryInv'
    <2>1. \A j \in Interceptors : Registered(j)' => BeingErased(j)' \/ RegistrationInTable(j)'
      <3> SUFFICES ASSUME NEW j \in Interceptors, Registered(j), j # loc[t]
                   PROVE  RegistrationInTable(j)'
        BY DEF IInv, TypeOK, BeingErased, Registered, Withdraw
      <3>1. RegistrationInTable(j)
        BY <1>c DEF IInv, RegistryInv, BeingErased, Withdraw
      <3>2. callback_slot_assignment[j] # slot[t]
        BY <3>1, <1>a, FuncRefFacts DEF RegistrationInTable
      <3> QED BY <3>1, <3>2, CallbackTableAssumption DEF IInv, TypeOK, RegistrationInTable, UnsandboxedPointer, Slots, Withdraw
    <2>2. \A p \in HostFuncs : internal_callbacks'[p] # Null => SwizzledInTable(p)'
      <3> SUFFICES ASSUME NEW p \in HostFuncs, internal_callbacks[p] # Null
                   PROVE  SwizzledInTable(p)'
        BY DEF Withdraw
      <3>1. SwizzledInTable(p)
        BY DEF IInv, RegistryInv
      <3>2. internal_callbacks[p] # slot[t]
        BY <3>1, <1>a, FuncRefFacts DEF SwizzledInTable
      <3> QED BY <3>1, <3>2, CallbackTableAssumption DEF IInv, TypeOK, SwizzledInTable, UnsandboxedPointer, Slots, Withdraw
    <2>3. \A r \in Slots : table'[r].kind \in {"interceptor", "host"} => r # slot[t] /\ table'[r] = table[r]
      BY <1>b, FuncRefFacts DEF IInv, TypeOK
    <2> QED BY <1>c, <2>1, <2>2, <2>3 DEF IInv, RegistryInv, BeingInstalled, Registered, Withdraw
  <1>7. DispatchInv'
    BY CallbackTableAssumption DEF IInv, TypeOK, MutexInv, DispatchInv,
       Dispatching, BeingInstalled, Withdraw
  <1>8. DispatchMatchesSlot'
    BY CallbackTableAssumption DEF IInv, TypeOK, NullRef, InterceptorRef,
       DispatchInv, Dispatching, DispatchMatchesSlot, Withdraw
  <1>9. OwnedInv'
    BY CallbackTableAssumption DEF IInv, TypeOK, OwnedInv, BeingGranted,
       Slots, MutexInv, Withdraw
  <1> QED BY <1>1, <1>2, <1>3, <1>4, <1>5, <1>6, <1>7, <1>8, <1>9 DEF IInv

\* impl_unregister_callback clears the arrays and unlocks.  IInv is preserved.
LEMMA EraseInv ==
  ASSUME IInv, NEW t \in Threads, Erase(t) PROVE IInv'
  <1>a. /\ loc[t] \in Interceptors /\ Registered(loc[t])
        /\ slot[t] = callback_slot_assignment[loc[t]] /\ writer = t
        /\ table[slot[t]] = NullRef
    BY DEF IInv, TypeOK, HolderInv, MutexInv, Erase
  <1>c. \A u \in Threads : u # t => pc[u] \notin UniqueStages
    BY <1>a DEF IInv, MutexInv
  <1>d. \A r \in Slots : table[r].kind = "interceptor" =>
           /\ table[r].target \in Interceptors \ {loc[t]}
           /\ Registered(table[r].target)
           /\ callback_slot_assignment[table[r].target] = r
    <2> SUFFICES ASSUME NEW r \in Slots, table[r].kind = "interceptor"
                 PROVE  /\ table[r].target \in Interceptors \ {loc[t]}
                        /\ Registered(table[r].target)
                        /\ callback_slot_assignment[table[r].target] = r
      OBVIOUS
    <2>1. table[r].target \in Interceptors
      BY FuncRefFacts DEF IInv, TypeOK
    <2>2. Registered(table[r].target) /\ callback_slot_assignment[table[r].target] = r
      BY <1>c DEF IInv, RegistryInv, BeingInstalled, Erase
    <2>3. r # slot[t]
      BY <1>a, FuncRefFacts
    <2> QED BY <1>a, <2>1, <2>2, <2>3
  <1>1. TypeOK'
    BY SMTT(20), CallbackTableAssumption DEF IInv, TypeOK, Stages, Ops, Interceptors,
       Erase
  <1>2. MutexInv'
    BY CallbackTableAssumption DEF IInv, TypeOK, MutexInv, Slots, Erase
  <1>3. OpInv'
    BY CallbackTableAssumption DEF IInv, TypeOK, OpInv, Registered, Erase
  <1>4. TableInv'
    BY CallbackTableAssumption DEF IInv, TypeOK, TableInv, Erase
  <1>5. HolderInv'
    BY SMTT(30), CallbackTableAssumption DEF IInv, TypeOK, MutexInv, OpInv, TableInv,
       HolderInv, RegistryInv, FreshSlot, Registered, Slots, NullRef,
       InterceptorRef, HostRef, RegistrationInTable, SwizzledInTable,
       UnsandboxedPointer, BeingErased, Interceptors, Erase
  <1>6. RegistryInv'
    <2>1. \A j \in Interceptors : (Registered(j) \/ callback_unique_keys[j] = Null)'
      BY DEF IInv, TypeOK, RegistryInv, Registered, Erase
    <2>2. \A j \in Interceptors : Registered(j)' => RegistrationInTable(j)'
      BY <1>a, <1>c DEF IInv, TypeOK, RegistryInv, Registered,
         RegistrationInTable, BeingErased,
         UnsandboxedPointer, Erase
    <2>3. \A p \in HostFuncs : internal_callbacks'[p] # Null => SwizzledInTable(p)'
      BY DEF IInv, RegistryInv, SwizzledInTable, UnsandboxedPointer, Erase
    <2>4. \A r \in Slots : table[r].kind = "interceptor" =>
             Registered(table[r].target)' /\ callback_slot_assignment'[table[r].target] = r
      BY <1>d DEF IInv, TypeOK, Registered, Erase
    <2>5. \A r \in Slots : table[r].kind = "host" => internal_callbacks'[table[r].target] = r
      BY <1>c DEF IInv, RegistryInv, BeingInstalled, Erase
    <2> QED BY <2>1, <2>2, <2>3, <2>4, <2>5 DEF RegistryInv, Erase
  <1>7. DispatchInv'
    BY CallbackTableAssumption DEF IInv, TypeOK, MutexInv, DispatchInv,
       Dispatching, BeingInstalled, Erase
  <1>8. DispatchMatchesSlot'
    <2> SUFFICES ASSUME NEW u \in Threads, pc'[u] \in Dispatching,
                        table'[slot'[u]] = InterceptorRef(loc'[u])
                 PROVE  /\ ptr'[u] = slot_assignments'[slot'[u]]
                        /\ pc'[u] = "identified" => key'[u] = callback_unique_keys'[loc'[u]]
      BY DEF DispatchMatchesSlot, Dispatching
    <2>1. /\ u # t /\ pc'[u] = pc[u] /\ slot'[u] = slot[u] /\ loc'[u] = loc[u]
          /\ ptr'[u] = ptr[u] /\ key'[u] = key[u] /\ table' = table
      BY DEF IInv, TypeOK, Erase, Dispatching
    <2>2. loc[u] # loc[t]
      <3>1. slot[u] \in Slots /\ loc[u] \in Interceptors
        BY <2>1 DEF IInv, TypeOK, DispatchInv
      <3> QED BY <2>1, <3>1, <1>d, FuncRefFacts
    <2> QED BY <2>1, <2>2 DEF IInv, TypeOK, DispatchMatchesSlot, Dispatching, Erase
  <1>9. OwnedInv'
    BY CallbackTableAssumption DEF IInv, TypeOK, OwnedInv, BeingGranted,
       Slots, MutexInv, Erase
  <1> QED BY <1>1, <1>2, <1>3, <1>4, <1>5, <1>6, <1>7, <1>8, <1>9 DEF IInv

\* Sandboxed code enters an interceptor.  IInv is preserved.
LEMMA CallIndirectInv ==
  ASSUME IInv, NEW t \in Threads, CallIndirect(t) PROVE IInv'
  <1> PICK s \in Slots :
         /\ s < table_size
         /\ table[s].kind = "interceptor"
         /\ slot' = [slot EXCEPT ![t] = s]
         /\ loc' = [loc EXCEPT ![t] = table[s].target]
         /\ last_callback_invoked' = [last_callback_invoked EXCEPT ![t] = table[s].target]
    BY DEF CallIndirect
  <1>a. table[s].target \in Interceptors /\ s \in Nat
    BY FuncRefFacts, CallbackTableAssumption DEF IInv, TypeOK, Slots
  <1>b. slot_assignments[s] # Null \/ BeingInstalled(s)
    BY <1>a, CallbackTableAssumption DEF IInv, TypeOK, RegistryInv,
       BeingErased, RegistrationInTable, HolderInv, UnsandboxedPointer,
       Registered
  <1>1. TypeOK'
    BY <1>a DEF IInv, TypeOK, Stages, CallIndirect
  <1>2. MutexInv'
    BY CallbackTableAssumption DEF IInv, TypeOK, MutexInv, Slots, CallIndirect
  <1>3. OpInv'
    BY CallbackTableAssumption DEF IInv, TypeOK, OpInv, Registered,
       CallIndirect
  <1>4. TableInv'
    BY CallbackTableAssumption DEF IInv, TypeOK, TableInv, CallIndirect
  <1>5. HolderInv'
    BY SMTT(30), CallbackTableAssumption DEF IInv, TypeOK, MutexInv, OpInv, TableInv,
       HolderInv, RegistryInv, FreshSlot, Registered, Slots, NullRef,
       InterceptorRef, HostRef, RegistrationInTable, SwizzledInTable,
       UnsandboxedPointer, BeingErased, Interceptors, CallIndirect
  <1>6. RegistryInv'
    BY SMTT(30), CallbackTableAssumption DEF IInv, TypeOK, MutexInv, OpInv, TableInv,
       HolderInv, RegistryInv, FreshSlot, Registered, Slots, NullRef,
       ModuleRef, InterceptorRef, HostRef, RegistrationInTable,
       SwizzledInTable, UnsandboxedPointer, BeingErased, BeingInstalled,
       Interceptors, CallIndirect
  <1>7. DispatchInv'
    <2>1. slot_assignments[s] # Null \/ BeingInstalled(s)'
      BY <1>b DEF IInv, TypeOK, BeingInstalled, CallIndirect
    <2> QED BY <1>a, <2>1 DEF IInv, TypeOK, DispatchInv, Dispatching, BeingInstalled, CallIndirect
  <1>8. DispatchMatchesSlot'
    BY CallbackTableAssumption DEF IInv, TypeOK, DispatchMatchesSlot,
       CallIndirect
  <1>9. OwnedInv'
    BY CallbackTableAssumption DEF IInv, TypeOK, OwnedInv, BeingGranted,
       Slots, CallIndirect
  <1> QED BY <1>1, <1>2, <1>3, <1>4, <1>5, <1>6, <1>7, <1>8, <1>9 DEF IInv

\* The interceptor reads its callback.  IInv is preserved.
LEMMA InterceptorReadInv ==
  ASSUME IInv, NEW t \in Threads, InterceptorRead(t) PROVE IInv'
  <1>a. \A u \in Threads : pc[u] \notin UniqueStages
    BY CallbackTableAssumption DEF IInv, MutexInv, InterceptorRead
  <1>1. TypeOK'
    BY CallbackTableAssumption DEF IInv, TypeOK, Stages, Pointers,
       InterceptorRead
  <1>2. MutexInv'
    BY CallbackTableAssumption DEF IInv, TypeOK, MutexInv, Slots,
       InterceptorRead
  <1>3. OpInv'
    BY CallbackTableAssumption DEF IInv, TypeOK, OpInv, Registered,
       InterceptorRead
  <1>4. TableInv'
    BY CallbackTableAssumption DEF IInv, TypeOK, TableInv, InterceptorRead
  <1>5. HolderInv'
    BY SMTT(30), CallbackTableAssumption DEF IInv, TypeOK, MutexInv, OpInv, TableInv,
       HolderInv, RegistryInv, FreshSlot, Registered, Slots, NullRef,
       InterceptorRef, HostRef, RegistrationInTable, SwizzledInTable,
       UnsandboxedPointer, BeingErased, Interceptors, InterceptorRead
  <1>6. RegistryInv'
    BY SMTT(30), CallbackTableAssumption DEF IInv, TypeOK, MutexInv, OpInv, TableInv,
       HolderInv, RegistryInv, FreshSlot, Registered, Slots, NullRef,
       ModuleRef, InterceptorRef, HostRef, RegistrationInTable,
       SwizzledInTable, UnsandboxedPointer, BeingErased, BeingInstalled,
       Interceptors, InterceptorRead
  <1>7. DispatchInv'
    BY CallbackTableAssumption DEF IInv, TypeOK, MutexInv, DispatchInv,
       Dispatching, BeingInstalled, InterceptorRead
  <1>8. DispatchMatchesSlot'
    <2>1. slot[t] \in Slots /\ loc[t] \in Interceptors
      BY DEF IInv, TypeOK, DispatchInv, InterceptorRead
    <2>2. table[slot[t]] = InterceptorRef(loc[t]) => callbacks[loc[t]] = slot_assignments[slot[t]]
      BY <1>a, <2>1, FuncRefFacts DEF IInv, RegistryInv, BeingInstalled,
         BeingErased, RegistrationInTable, UnsandboxedPointer
    <2> QED BY <2>2 DEF IInv, TypeOK, DispatchMatchesSlot, InterceptorRead
  <1>9. OwnedInv'
    BY CallbackTableAssumption DEF IInv, TypeOK, OwnedInv, BeingGranted,
       Slots, InterceptorRead
  <1> QED BY <1>1, <1>2, <1>3, <1>4, <1>5, <1>6, <1>7, <1>8, <1>9 DEF IInv

\* The interceptor calls it.  IInv is preserved.
LEMMA InterceptorCallInv ==
  ASSUME IInv, NEW t \in Threads, InterceptorCall(t) PROVE IInv'
  <1>1. TypeOK'
    BY CallbackTableAssumption DEF IInv, TypeOK, Stages, InterceptorCall
  <1>2. MutexInv'
    BY CallbackTableAssumption DEF IInv, TypeOK, MutexInv, Slots,
       InterceptorCall
  <1>3. OpInv'
    BY CallbackTableAssumption DEF IInv, TypeOK, OpInv, Registered,
       InterceptorCall
  <1>4. TableInv'
    BY CallbackTableAssumption DEF IInv, TypeOK, TableInv, InterceptorCall
  <1>5. HolderInv'
    BY SMTT(30), CallbackTableAssumption DEF IInv, TypeOK, MutexInv, OpInv, TableInv,
       HolderInv, RegistryInv, FreshSlot, Registered, Slots, NullRef,
       InterceptorRef, HostRef, RegistrationInTable, SwizzledInTable,
       UnsandboxedPointer, BeingErased, Interceptors, InterceptorCall
  <1>6. RegistryInv'
    BY SMTT(30), CallbackTableAssumption DEF IInv, TypeOK, MutexInv, OpInv, TableInv,
       HolderInv, RegistryInv, FreshSlot, Registered, Slots, NullRef,
       ModuleRef, InterceptorRef, HostRef, RegistrationInTable,
       SwizzledInTable, UnsandboxedPointer, BeingErased, BeingInstalled,
       Interceptors, InterceptorCall
  <1>7. DispatchInv'
    BY CallbackTableAssumption DEF IInv, TypeOK, MutexInv, DispatchInv,
       Dispatching, BeingInstalled, InterceptorCall
  <1>8. DispatchMatchesSlot'
    BY CallbackTableAssumption DEF IInv, TypeOK, DispatchMatchesSlot,
       InterceptorCall
  <1>9. OwnedInv'
    BY CallbackTableAssumption DEF IInv, TypeOK, OwnedInv, BeingGranted,
       Slots, InterceptorCall
  <1> QED BY <1>1, <1>2, <1>3, <1>4, <1>5, <1>6, <1>7, <1>8, <1>9 DEF IInv

\* The callback reads back its key.  IInv is preserved.
LEMMA GetExecutedKeyInv ==
  ASSUME IInv, NEW t \in Threads, GetExecutedKey(t) PROVE IInv'
  <1>1. TypeOK'
    BY CallbackTableAssumption DEF IInv, TypeOK, Stages, GetExecutedKey
  <1>2. MutexInv'
    BY CallbackTableAssumption DEF IInv, TypeOK, MutexInv, Slots,
       GetExecutedKey
  <1>3. OpInv'
    BY CallbackTableAssumption DEF IInv, TypeOK, OpInv, Registered,
       GetExecutedKey
  <1>4. TableInv'
    BY CallbackTableAssumption DEF IInv, TypeOK, TableInv, GetExecutedKey
  <1>5. HolderInv'
    BY SMTT(30), CallbackTableAssumption DEF IInv, TypeOK, MutexInv, OpInv, TableInv,
       HolderInv, RegistryInv, FreshSlot, Registered, Slots, NullRef,
       InterceptorRef, HostRef, RegistrationInTable, SwizzledInTable,
       UnsandboxedPointer, BeingErased, Interceptors, GetExecutedKey
  <1>6. RegistryInv'
    BY SMTT(30), CallbackTableAssumption DEF IInv, TypeOK, MutexInv, OpInv, TableInv,
       HolderInv, RegistryInv, FreshSlot, Registered, Slots, NullRef,
       ModuleRef, InterceptorRef, HostRef, RegistrationInTable,
       SwizzledInTable, UnsandboxedPointer, BeingErased, BeingInstalled,
       Interceptors, GetExecutedKey
  <1>7. DispatchInv'
    BY CallbackTableAssumption DEF IInv, TypeOK, MutexInv, DispatchInv,
       Dispatching, BeingInstalled, GetExecutedKey
  <1>8. DispatchMatchesSlot'
    BY CallbackTableAssumption DEF IInv, TypeOK, DispatchInv,
       DispatchMatchesSlot, GetExecutedKey
  <1>9. OwnedInv'
    BY CallbackTableAssumption DEF IInv, TypeOK, OwnedInv, BeingGranted,
       Slots, GetExecutedKey
  <1> QED BY <1>1, <1>2, <1>3, <1>4, <1>5, <1>6, <1>7, <1>8, <1>9 DEF IInv

\* The callback goes on.  IInv is preserved.
LEMMA CallbackBodyInv ==
  ASSUME IInv, NEW t \in Threads, CallbackBody(t) PROVE IInv'
  <1>1. TypeOK'
    BY SMTT(20), CallbackTableAssumption DEF IInv, TypeOK, Stages, Ops, Interceptors,
       CallbackBody
  <1>2. MutexInv'
    BY CallbackTableAssumption DEF IInv, TypeOK, MutexInv, Slots, CallbackBody
  <1>3. OpInv'
    BY CallbackTableAssumption DEF IInv, TypeOK, OpInv, Registered,
       CallbackBody
  <1>4. TableInv'
    BY CallbackTableAssumption DEF IInv, TypeOK, TableInv, CallbackBody
  <1>5. HolderInv'
    BY SMTT(30), CallbackTableAssumption DEF IInv, TypeOK, MutexInv, OpInv, TableInv,
       HolderInv, RegistryInv, FreshSlot, Registered, Slots, NullRef,
       InterceptorRef, HostRef, RegistrationInTable, SwizzledInTable,
       UnsandboxedPointer, BeingErased, Interceptors, CallbackBody
  <1>6. RegistryInv'
    BY SMTT(30), CallbackTableAssumption DEF IInv, TypeOK, MutexInv, OpInv, TableInv,
       HolderInv, RegistryInv, FreshSlot, Registered, Slots, NullRef,
       ModuleRef, InterceptorRef, HostRef, RegistrationInTable,
       SwizzledInTable, UnsandboxedPointer, BeingErased, BeingInstalled,
       Interceptors, CallbackBody
  <1>7. DispatchInv'
    BY CallbackTableAssumption DEF IInv, TypeOK, MutexInv, DispatchInv,
       Dispatching, BeingInstalled, CallbackBody
  <1>8. DispatchMatchesSlot'
    BY CallbackTableAssumption DEF IInv, TypeOK, DispatchMatchesSlot,
       CallbackBody
  <1>9. OwnedInv'
    BY CallbackTableAssumption DEF IInv, TypeOK, OwnedInv, BeingGranted,
       Slots, CallbackBody
  <1> QED BY <1>1, <1>2, <1>3, <1>4, <1>5, <1>6, <1>7, <1>8, <1>9 DEF IInv

\* The application calls a member function.  IInv is preserved.
LEMMA CallInv ==
  ASSUME IInv, NEW t \in Threads, NEW m \in Ops \ {"none"},
         NEW k \in Keys \cup {Null}, NEW p \in Pointers \cup {Null},
         Call(t, m, k, p),
         m = "register" => k \in Keys /\ p \in Callbacks,
         m = "unregister" => k \in Keys,
         m = "get_sandboxed_pointer" => p \in HostFuncs
  PROVE  IInv'
  <1>1. TypeOK'
    BY CallbackTableAssumption DEF IInv, TypeOK, Stages, Call
  <1>2. MutexInv'
    BY CallbackTableAssumption DEF IInv, TypeOK, MutexInv, Slots, Call
  <1>3. OpInv'
    BY CallbackTableAssumption DEF IInv, TypeOK, OpInv, Registered, Call
  <1>4. TableInv'
    BY CallbackTableAssumption DEF IInv, TypeOK, TableInv, Call
  <1>5. HolderInv'
    BY SMTT(30), CallbackTableAssumption DEF IInv, TypeOK, MutexInv, OpInv, TableInv,
       HolderInv, RegistryInv, FreshSlot, Registered, Slots, NullRef,
       InterceptorRef, HostRef, RegistrationInTable, SwizzledInTable,
       UnsandboxedPointer, BeingErased, Interceptors, Call
  <1>6. RegistryInv'
    BY SMTT(30), CallbackTableAssumption DEF IInv, TypeOK, MutexInv, OpInv, TableInv,
       HolderInv, RegistryInv, FreshSlot, Registered, Slots, NullRef,
       ModuleRef, InterceptorRef, HostRef, RegistrationInTable,
       SwizzledInTable, UnsandboxedPointer, BeingErased, BeingInstalled,
       Interceptors, Call
  <1>7. DispatchInv'
    BY CallbackTableAssumption DEF IInv, TypeOK, MutexInv, DispatchInv,
       Dispatching, BeingInstalled, Call
  <1>8. DispatchMatchesSlot'
    BY CallbackTableAssumption DEF IInv, TypeOK, DispatchMatchesSlot, Call
  <1>9. OwnedInv'
    BY CallbackTableAssumption DEF IInv, TypeOK, OwnedInv, BeingGranted,
       Slots, Call
  <1> QED BY <1>1, <1>2, <1>3, <1>4, <1>5, <1>6, <1>7, <1>8, <1>9 DEF IInv

-----------------------------------------------------------------------------
\* The initial state satisfies IInv.
LEMMA InitInv == Init => IInv
  <1> SUFFICES ASSUME Init PROVE IInv
    OBVIOUS
  <1>1. TypeOK
    <2>1. <<>> \in Seq(Slots)
      OBVIOUS
    <2> QED BY <2>1, CallbackTableAssumption
            DEF Init, TypeOK, Interceptors, Slots, FuncRefs, Stages, Ops
  <1>2. MutexInv /\ OpInv /\ HolderInv /\ DispatchInv /\ DispatchMatchesSlot
    BY CallbackTableAssumption
       DEF Init, MutexInv, OpInv, HolderInv, DispatchInv, Dispatching, DispatchMatchesSlot
  <1>3. TableInv /\ OwnedInv
    BY CallbackTableAssumption DEF Init, TableInv, OwnedInv, Slots
  <1>4. RegistryInv
    BY FuncRefFacts DEF Init, RegistryInv, Registered
  <1> QED BY <1>1, <1>2, <1>3, <1>4 DEF IInv

\* A stuttering step preserves IInv.
LEMMA StutterInv == IInv /\ UNCHANGED vars => IInv'
  BY DEF IInv, TypeOK, MutexInv, OpInv, TableInv, HolderInv, FreshSlot,
     RegistryInv,
     Registered, RegistrationInTable, SwizzledInTable, UnsandboxedPointer,
     BeingErased, BeingInstalled, DispatchInv, DispatchMatchesSlot, OwnedInv,
     BeingGranted, vars, localVars

\* Every step preserves IInv.
LEMMA NextInv == IInv /\ [Next]_vars => IInv'
  <1> SUFFICES ASSUME IInv, [Next]_vars PROVE IInv'
    OBVIOUS
  <1>1. ASSUME NEW t \in Threads, CallMember(t) PROVE IInv'
    <2>1. ASSUME NEW k \in Keys, NEW c \in Callbacks, Call(t, "register", k, c)
          PROVE  IInv'
      BY <2>1, CallInv DEF Ops, Pointers
    <2>2. ASSUME NEW k \in Keys, Call(t, "unregister", k, Null) PROVE IInv'
      BY <2>2, CallInv DEF Ops
    <2>3. ASSUME NEW p \in HostFuncs, Call(t, "get_sandboxed_pointer", Null, p)
          PROVE  IInv'
      BY <2>3, CallInv DEF Ops, Pointers
    <2> QED BY <1>1, <2>1, <2>2, <2>3 DEF CallMember
  <1>2. ASSUME NEW t \in Threads, Registration(t) PROVE IInv'
    BY <1>2, RegisterChooseInv, RegisterFullInv, RegisterRecordInv DEF
       Registration
  <1>3. ASSUME NEW t \in Threads, Swizzling(t) PROVE IInv'
    BY <1>3, SandboxedFoundInv, SandboxedMissingInv, SandboxedRecordInv DEF
       Swizzling
  <1>4. ASSUME NEW t \in Threads, SlotAllocation(t) PROVE IInv'
    BY <1>4, NewCallbackSlotInv, NewCallbackSlotFailsInv, InstallInv DEF
       SlotAllocation
  <1>5. ASSUME NEW t \in Threads, Unregistration(t) PROVE IInv'
    BY <1>5, UnregisterChooseInv, UnregisterMissingInv, WithdrawInv, EraseInv
       DEF Unregistration
  <1>6. ASSUME NEW t \in Threads, Interception(t) PROVE IInv'
    BY <1>6, CallIndirectInv, InterceptorReadInv, InterceptorCallInv,
       GetExecutedKeyInv, CallbackBodyInv DEF Interception
  <1> QED BY <1>1, <1>2, <1>3, <1>4, <1>5, <1>6, StutterInv DEF Next, Step, Halted

\* IInv holds in every reachable state.
THEOREM Invariance == Spec => []IInv
  BY InitInv, NextInv, PTL DEF Spec

\* The variables keep their types (state of the class and of its threads).
THEOREM TypeCorrect == Spec => []TypeOK
  <1>1. IInv => TypeOK
    BY DEF IInv
  <1> QED BY <1>1, Invariance, PTL

\* Outside the locked sections the arrays, the maps and the function table
\* agree: what sandboxed code can call is exactly what the host has granted.
THEOREM RegistryCorrect == Spec => []RegistryConsistent
  <1>1. IInv => RegistryConsistent
    <2> SUFFICES ASSUME IInv, writer = Null
                 PROVE  /\ \A i \in Interceptors : Registered(i) => RegistrationInTable(i)
                        /\ \A p \in HostFuncs :
                             internal_callbacks[p] # Null => SwizzledInTable(p)
                        /\ \A s \in Slots :
                             /\ table[s].kind = "interceptor" =>
                                  /\ Registered(table[s].target)
                                  /\ callback_slot_assignment[table[s].target] = s
                             /\ table[s].kind = "host" =>
                                  internal_callbacks[table[s].target] = s
      BY DEF RegistryConsistent
    <2>1. \A t \in Threads : pc[t] \notin UniqueStages
      BY CallbackTableAssumption DEF IInv, MutexInv
    <2> QED BY <2>1 DEF IInv, RegistryInv, BeingErased, BeingInstalled
  <1> QED BY <1>1, Invariance, PTL

\* A call through a slot that still stands runs the host function the slot was
\* given to, and the callback reads back its own key.
THEOREM DispatchCorrect == Spec => []DispatchMatchesSlot
  <1>1. IInv => DispatchMatchesSlot
    BY DEF IInv
  <1> QED BY <1>1, Invariance, PTL

\* No slot the table has grown by is lost, whatever raises, but for slot 0 of a
\* Wasm module whose own table is empty.
THEOREM NoSlotLost == Spec => []GrownSlotsOwned
  <1>1. IInv => GrownSlotsOwned
    BY CallbackTableAssumption
       DEF IInv, MutexInv, OwnedInv, BeingGranted, GrownSlotsOwned
  <1> QED BY <1>1, Invariance, PTL

\* Slot 0, the null function pointer, is never given out.
THEOREM NullPointerSafe == Spec => []NullPointerNeverGranted
  <1>1. IInv => NullPointerNeverGranted
    BY DEF IInv, TableInv, HolderInv, FreshSlot, NullPointerNeverGranted
  <1> QED BY <1>1, Invariance, PTL

\* A slot that was given out and cleared stays null for ever.
THEOREM WithdrawnForEver == Spec => WithdrawnStaysWithdrawn
  <1> DEFINE Kept == \A s \in Slots :
               slot_assignments[s] # Null /\ table[s] = NullRef => table'[s] = NullRef
  <1>1. IInv /\ [Next]_vars => [Kept]_vars
    <2> SUFFICES ASSUME IInv, NEW t \in Threads, Step(t), NEW s \in Slots,
                        slot_assignments[s] # Null, table[s] = NullRef
                 PROVE  table'[s] = NullRef
      BY DEF Next, Halted, vars
    <2>1. CASE Install(t)
      BY <2>1 DEF IInv, TypeOK, HolderInv, FreshSlot, Install
    <2>2. CASE Withdraw(t)
      BY <2>2 DEF IInv, TypeOK, Withdraw
    <2>3. CASE UNCHANGED table
      BY <2>3
    <2>4. Install(t) \/ Withdraw(t) \/ UNCHANGED table
      BY DEF Step, CallMember, Call, Registration, RegisterChoose,
         RegisterFull,
         RegisterRecord, Swizzling, SandboxedFound, SandboxedMissing, SandboxedRecord,
         SlotAllocation, NewCallbackSlot, TakeSlot, NewCallbackSlotFails,
         Unregistration, UnregisterChoose, UnregisterMissing, Erase, Interception,
         CallIndirect, InterceptorRead, InterceptorCall, GetExecutedKey, CallbackBody
    <2> QED BY <2>1, <2>2, <2>3, <2>4
  <1> QED BY <1>1, Invariance, PTL DEF Spec, WithdrawnStaysWithdrawn
=============================================================================

-------------------------- MODULE CallbackTableInv --------------------------
(***************************************************************************)
(* The inductive invariant of CallbackTable.  While callback_mutex is held *)
(* exclusively the arrays, the maps and the table disagree in exactly the  *)
(* way the holder's stage says; IInv records that way stage by stage.      *)
(***************************************************************************)
EXTENDS CallbackTable

Holds(t, stages) == pc[t] \in stages

\* The mutex is held by exactly the threads whose stage says so.
MutexInv ==
  /\ \A t \in Threads : Holds(t, UniqueStages) <=> writer = t
  /\ \A t \in Threads : pc[t] = "locked" <=> t \in readers
  /\ writer # Null => readers = {}

\* The member function a thread executes fits its stage and its arguments.
OpInv ==
  \A t \in Threads :
    /\ pc[t] = "wait" => op[t] # "none"
    /\ Holds(t, {"new_slot", "install", "record"}) =>
         op[t] \in {"register", "get_sandboxed_pointer"}
    /\ Holds(t, {"withdraw", "erase"}) => op[t] = "unregister"
    /\ op[t] = "register" => key[t] \in Keys /\ ptr[t] \in Callbacks
    /\ op[t] = "unregister" => key[t] \in Keys
    /\ op[t] = "get_sandboxed_pointer" => ptr[t] \in HostFuncs
    /\ pc[t] \notin UniqueStages \cup {"wait"} => op[t] = "none"

\* The table ends where nothing was ever given out, and starts with the
\* module's own entries.
TableInv ==
  /\ callback_free_list = <<>>
  /\ InitTableSize <= table_size
  /\ \A s \in Slots :
       /\ s < InitTableSize => table[s] = ModuleRef /\ slot_assignments[s] = Null
       /\ s >= table_size => table[s] = NullRef /\ slot_assignments[s] = Null
       /\ s = 0 /\ InitTableSize = 0 => table[s] = NullRef

\* What the thread that holds the mutex exclusively has done so far.
FreshSlot(s) ==
  /\ s \in InitTableSize .. table_size - 1
  /\ s # 0
  /\ slot_assignments[s] = Null

HolderInv ==
  \A t \in Threads :
    /\ Holds(t, {"new_slot", "install", "record"}) =>
         IF op[t] = "register" THEN callbacks[loc[t]] = Null
                               ELSE internal_callbacks[ptr[t]] = Null
    /\ pc[t] = "install" => FreshSlot(slot[t]) /\ table[slot[t]] = NullRef
    /\ pc[t] = "record" =>
         /\ FreshSlot(slot[t])
         /\ table[slot[t]] =
              IF op[t] = "register" THEN InterceptorRef(loc[t]) ELSE HostRef(ptr[t])
    /\ pc[t] = "withdraw" =>
         /\ Registered(loc[t])
         /\ slot[t] = callback_slot_assignment[loc[t]]
    /\ pc[t] = "erase" =>
         /\ Registered(loc[t])
         /\ slot[t] = callback_slot_assignment[loc[t]]
         /\ slot[t] \in InitTableSize .. table_size - 1
         /\ table[slot[t]] = NullRef
         /\ slot_assignments[slot[t]] = callbacks[loc[t]]

\* RegistryConsistent, but for the slot the holder is working on.
BeingErased(i) == \E t \in Threads : pc[t] = "erase" /\ loc[t] = i
BeingInstalled(s) == \E t \in Threads : pc[t] = "record" /\ slot[t] = s

RegistryInv ==
  /\ \A i \in Interceptors : Registered(i) \/ callback_unique_keys[i] = Null
  /\ \A i \in Interceptors : Registered(i) => BeingErased(i) \/ RegistrationInTable(i)
  /\ \A p \in HostFuncs : internal_callbacks[p] # Null => SwizzledInTable(p)
  /\ \A s \in Slots :
       /\ table[s].kind = "interceptor" =>
            \/ BeingInstalled(s)
            \/ /\ Registered(table[s].target)
               /\ callback_slot_assignment[table[s].target] = s
       /\ table[s].kind = "host" =>
            BeingInstalled(s) \/ internal_callbacks[table[s].target] = s

\* A call in progress came through a slot that is never given out again, and
\* the thread's own record of the interceptor is still the one it entered.
Dispatching == {"locked", "entered", "identified", "null_call"}

DispatchInv ==
  \A t \in Threads :
    /\ Holds(t, Dispatching \cup {"intercept"}) => slot[t] \in Slots
    /\ pc[t] = "intercept" =>
         slot_assignments[slot[t]] # Null \/ BeingInstalled(slot[t])
    /\ Holds(t, Dispatching) => slot_assignments[slot[t]] # Null
    /\ Holds(t, {"intercept", "locked", "entered"}) => last_callback_invoked[t] = loc[t]

\* Every slot the table has grown by belongs to somebody, but for slot 0 and
\* the one being given out.
BeingGranted(s) ==
  \E t \in Threads : Holds(t, {"install", "record"}) /\ slot[t] = s

OwnedInv ==
  \A s \in InitTableSize .. table_size - 1 :
    s = 0 \/ slot_assignments[s] # Null \/ BeingGranted(s)

IInv ==
  /\ TypeOK
  /\ MutexInv
  /\ OpInv
  /\ TableInv
  /\ HolderInv
  /\ RegistryInv
  /\ DispatchInv
  /\ DispatchMatchesSlot
  /\ OwnedInv
=============================================================================

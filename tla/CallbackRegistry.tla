-------------------------- MODULE CallbackRegistry --------------------------
(***************************************************************************)
(* What the function table of an rlbox_wasm2c_sandbox promises: a slot     *)
(* number is given to one host pointer, for ever.  A slot given to a       *)
(* registered callback lives until it is unregistered and is never used    *)
(* again; a slot given to a swizzled function pointer is pinned, and a     *)
(* function is pinned at most once.                                        *)
(***************************************************************************)
CONSTANTS
  Callbacks,    \* host functions passed to impl_register_callback
  HostFuncs,    \* host functions passed to impl_get_sandboxed_pointer
  Slots,
  Null

VARIABLES
  granted,      \* slot -> the host pointer it was given to, or Null
  live,         \* slots of registered callbacks
  pinned        \* slots of swizzled host functions

Init ==
  /\ granted = [s \in Slots |-> Null]
  /\ live = {}
  /\ pinned = {}

Grant(s, c) ==
  /\ granted[s] = Null
  /\ granted' = [granted EXCEPT ![s] = c]
  /\ live' = live \cup {s}
  /\ UNCHANGED pinned

Retire(s) ==
  /\ s \in live
  /\ live' = live \ {s}
  /\ UNCHANGED <<granted, pinned>>

Pin(s, p) ==
  /\ granted[s] = Null
  /\ \A r \in pinned : granted[r] # p
  /\ granted' = [granted EXCEPT ![s] = p]
  /\ pinned' = pinned \cup {s}
  /\ UNCHANGED live

Next ==
  \E s \in Slots :
    \/ \E c \in Callbacks : Grant(s, c)
    \/ Retire(s)
    \/ \E p \in HostFuncs : Pin(s, p)

Spec == Init /\ [][Next]_<<granted, live, pinned>>
=============================================================================

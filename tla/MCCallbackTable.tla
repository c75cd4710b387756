-------------------------- MODULE MCCallbackTable --------------------------
(***************************************************************************)
(* Small instances of CallbackTable for TLC.                               *)
(***************************************************************************)
EXTENDS CallbackTableInv, TLC

\* Threads, keys and callbacks are interchangeable where only safety is checked.
Symmetry == Permutations(Threads) \cup Permutations(Keys) \cup Permutations(Callbacks)
=============================================================================

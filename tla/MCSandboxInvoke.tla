-------------------------- MODULE MCSandboxInvoke --------------------------
(***************************************************************************)
(* Small instances of SandboxInvoke for TLC.                               *)
(***************************************************************************)
EXTENDS SandboxInvoke, TLC

CONSTANTS ping, plain, small, large, s1, s2

\* ping and plain return no class, small and large do; plain and small have a
\* class parameter.  The module of s2 exports ping only.
MCReturnSize == (ping :> 0) @@ (plain :> 0) @@ (small :> 1) @@ (large :> 2)
MCClassArgs == (ping :> 0) @@ (plain :> 1) @@ (small :> 1) @@ (large :> 0)
MCExports == (s1 :> {plain, small, large}) @@ (s2 :> {ping})

Symmetry == Permutations(Threads) \cup Permutations(Blocks)
=============================================================================

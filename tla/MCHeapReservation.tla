------------------------- MODULE MCHeapReservation -------------------------
(***************************************************************************)
(* Small instances of HeapReservation, with the pointers into its memories *)
(* of PointerSwizzle, for TLC.                                             *)
(***************************************************************************)
EXTENDS PointerSwizzle, TLC

\* The instances are among those the theorems are about.
ASSUME PageSizesFitHere == PageSizesFit
ASSUME HeapFillsBlockHere == UINT32_MAX < SIZE_MAX => HeapFillsBlock

Symmetry == Permutations(Threads)
=============================================================================

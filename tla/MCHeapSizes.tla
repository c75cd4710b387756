---------------------------- MODULE MCHeapSizes ----------------------------
(***************************************************************************)
(* Instances of MCHeapReservation in which every size fits, as the         *)
(* theorems about sizes require.                                           *)
(***************************************************************************)
EXTENDS MCHeapReservation

ASSUME CapacitiesFitHere == CapacitiesFit
ASSUME InitialPagesFitHere == InitialPagesFit
=============================================================================

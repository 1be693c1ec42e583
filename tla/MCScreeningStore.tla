-------------------------- MODULE MCScreeningStore --------------------------
(***************************************************************************)
(* Instances of ScreeningStore for TLC.                                    *)
(***************************************************************************)
EXTENDS ScreeningStore, TLC

\* Requests and workers are interchangeable.
Symmetry == Permutations(Request) \cup Permutations(Worker)
=============================================================================

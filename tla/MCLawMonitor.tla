---------------------------- MODULE MCLawMonitor ----------------------------
(***************************************************************************)
(* Instances of LawMonitor for TLC.                                        *)
(***************************************************************************)
EXTENDS LawMonitor, TLC

\* Workers and checks are interchangeable.
Symmetry == Permutations(Worker) \cup Permutations(Check)
=============================================================================

----------------------------- MODULE MCReportIndex -----------------------------
(***************************************************************************)
(* Reports whose sections share a heading, whose texts have none, one and  *)
(* two chunks, and which change between runs.                              *)
(***************************************************************************)
EXTENDS ReportIndex, TLC

MCChunksOf == [empty |-> 0, short |-> 1, long |-> 2]

Of(heading, text) == [heading |-> heading, text |-> text]

MCExtracts ==
    {<<Of("air", "short"), Of("air", "long")>>, <<Of("air", "long"), Of("water", "empty")>>}

Symmetry == Permutations(Process)
=============================================================================

---------------------------- MODULE MCDataFetcher ----------------------------
(* Instances of DataFetcher for TLC: every connector on its own, and groups
   of two whose tasks interleave.                                           *)
EXTENDS DataFetcher

AllKeys == {"DATA_GO_KR", "VWORLD", "AIRKOREA", "DATA_EX", "KHOA", "WASTE_KEY", "WASTE_USER"}
mcKeySets == {{}, {"DATA_GO_KR"}, AllKeys}
mcOne == {{"weather"}}
mcFleets == {{c} : c \in Names} \cup {{"land_use", "soil"}}
=============================================================================

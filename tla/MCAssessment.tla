----------------------------- MODULE MCAssessment -----------------------------
(***************************************************************************)
(* Sites at the borders of the rules, and receptions that lose one thing,  *)
(* or nearly everything.                                                   *)
(***************************************************************************)
EXTENDS Assessment, RuleFiles

Quiet == [pm25 |-> 35, pm10 |-> 50, capital |-> FALSE]
Dirty == [pm25 |-> 36, pm10 |-> 51, capital |-> TRUE]
Unread == [pm25 |-> Absent, pm10 |-> Absent, capital |-> FALSE]

Plain == [type |-> "road", zones |-> {}, overlays |-> {}, cover |-> "built", air |-> Quiet,
          traffic |-> 50000, damRate |-> 50, tideKm |-> 10]

MCZones == {{}, {"planned"}, {"conservationMgmt", "residential"}, {"farmForest"},
            {"greenery", "unnamed", "natureReserve"}}

ZonedSites ==
    {[Plain EXCEPT !.type = t, !.zones = z] : t \in {"urban_dev", "road", "reclamation"}, z \in MCZones}
    \cup {[Plain EXCEPT !.type = t, !.zones = {"planned"}] : t \in ProjectTypes}

CoveredSites ==
    {[Plain EXCEPT !.type = "urban_dev", !.zones = z, !.overlays = o, !.cover = c] :
        z \in {{"planned"}, {"farmForest"}}, o \in {{"UQ141"}, Overlays},
        c \in {"forest", "wetland", "farmland"}}

MeasuredSites ==
    {[Plain EXCEPT !.air = Dirty, !.traffic = 50001, !.damRate = 91, !.tideKm = 9],
     [Plain EXCEPT !.air = Unread, !.traffic = 0, !.damRate = 90],
     [Plain EXCEPT !.type = "river", !.traffic = 50001, !.damRate = 19],
     [Plain EXCEPT !.type = "river", !.damRate = 20],
     [Plain EXCEPT !.damRate = 0], [Plain EXCEPT !.damRate = Absent]}

WorstSite ==
    [Plain EXCEPT !.type = "urban_dev", !.overlays = Overlays, !.cover = "wetland", !.air = Dirty,
                  !.zones = Zones, !.traffic = 50001, !.damRate = 91, !.tideKm = 9]

MCSites == ZonedSites \cup CoveredSites \cup MeasuredSites \cup {WorstSite}

MCReceptions ==
    {Complete}
    \cup {[Complete EXCEPT !.lost = {c}] : c \in Connected}
    \cup {[Complete EXCEPT !.deaf = {l}] : l \in {"UQ114", "UQ141", "AISRESC"}}
    \cup {[Complete EXCEPT !.landcover = FALSE], [Complete EXCEPT !.geology = "no overview"],
          [Complete EXCEPT !.lost = Connected],
          [Complete EXCEPT !.lost = {"marine", "species"}, !.deaf = {"UQ113"}, !.landcover = FALSE]}

Issue(subject, pct, words) == [subject |-> subject, pct |-> pct, words |-> words]

MCArchive ==
    [k \in {"road", "river", "fishing port"} |->
        CASE k = "road" ->
                [total |-> 40,
                 issues |-> <<Issue("ecosystem", 97, {"ecology"}), Issue("none", 95, {"landscape"}),
                              Issue("noise", 90, {"noise"}), Issue("ecosystem", 60, {"ecology", "marine"}),
                              Issue("farmland", 68, {}), Issue("water", 40, {"water"})>>,
                 measures |-> <<{"noise"}, {"ecology", "marine"}>>]
          [] k = "river" ->
                [total |-> 7,
                 issues |-> <<Issue("water", 100, {"water"}), Issue("odor", 40, {"odor"})>>,
                 measures |-> <<>>]
          [] k = "fishing port" -> [total |-> 3, issues |-> <<>>, measures |-> <<>>]]
=============================================================================

-------------------------- MODULE DataFetcherProofs --------------------------
(***************************************************************************)
(* Theorems about DataFetcher: types, the snapshots that stay, and that    *)
(* the collection implements the promise of module Acquisition.            *)
(***************************************************************************)
EXTENDS DataFetcher, WellFoundedInduction, TLAPS

-----------------------------------------------------------------------------
(* Connectors and snapshot files                                            *)

\* What the connectors call their results.
LEMMA LabelsOfScript == \A c \in Names : Script[c].label \in {"live", "cached", "stale"}
<1> DEFINE Labels == {"live", "cached", "stale"}
<1>1. /\ Soil.label \in Labels
      /\ Noise.label \in Labels
      /\ Population.label \in Labels
      /\ Geology.label \in Labels
      /\ Greenhouse.label \in Labels
      /\ ProjectArea.label \in Labels
      /\ Species.label \in Labels
  BY DEF Local, Soil, Noise, Population, Geology, Greenhouse, ProjectArea, Species
<1>2. /\ LandUse.label \in Labels
      /\ Ecology.label \in Labels
      /\ AirQuality.label \in Labels
      /\ WaterQuality.label \in Labels
      /\ EiaInfo.label \in Labels
      /\ Marine.label \in Labels
      /\ Weather.label \in Labels
      /\ Traffic.label \in Labels
      /\ Odor.label \in Labels
      /\ Radio.label \in Labels
      /\ Industry.label \in Labels
      /\ Facilities.label \in Labels
      /\ Hydrology.label \in Labels
      /\ Ocean.label \in Labels
      /\ WasteData.label \in Labels
  <2>1. LandUse.label \in Labels
    BY DEF LandUse, Remote
  <2>2. Ecology.label \in Labels
    BY DEF Ecology, Remote
  <2>3. AirQuality.label \in Labels
    BY DEF AirQuality, Remote
  <2>4. WaterQuality.label \in Labels
    BY DEF WaterQuality, Remote
  <2>5. EiaInfo.label \in Labels
    BY DEF EiaInfo, Remote
  <2>6. Marine.label \in Labels
    BY DEF Marine, Remote
  <2>7. Weather.label \in Labels
    BY DEF Weather, Remote
  <2>8. Traffic.label \in Labels
    BY DEF Traffic, Remote
  <2>9. Odor.label \in Labels
    BY DEF Odor, Remote
  <2>10. Radio.label \in Labels
    BY DEF Radio, Remote
  <2>11. Industry.label \in Labels
    BY DEF Industry, Remote
  <2>12. Facilities.label \in Labels
    BY DEF Facilities, Remote
  <2>13. Hydrology.label \in Labels
    BY DEF Hydrology, Remote
  <2>14. Ocean.label \in Labels
    BY DEF Ocean, Remote
  <2>15. WasteData.label \in Labels
    BY DEF WasteData, Remote
  <2> QED BY <2>1, <2>2, <2>3, <2>4, <2>5, <2>6, <2>7, <2>8, <2>9, <2>10, <2>11, <2>12, <2>13, <2>14, <2>15
<1>3. Names = {"land_use", "ecology", "air_quality", "water_quality", "soil", "noise",
              "population", "project_area", "eia_info", "marine", "geology", "greenhouse",
              "weather", "traffic", "odor", "radio", "industry", "facilities", "species",
              "hydrology", "ocean", "waste_data"}
  BY DEF Names, Script
<1>4. /\ Script["land_use"] = LandUse
      /\ Script["ecology"] = Ecology
      /\ Script["air_quality"] = AirQuality
      /\ Script["water_quality"] = WaterQuality
      /\ Script["soil"] = Soil
      /\ Script["noise"] = Noise
      /\ Script["population"] = Population
      /\ Script["project_area"] = ProjectArea
      /\ Script["eia_info"] = EiaInfo
      /\ Script["marine"] = Marine
      /\ Script["geology"] = Geology
      /\ Script["greenhouse"] = Greenhouse
      /\ Script["weather"] = Weather
      /\ Script["traffic"] = Traffic
      /\ Script["odor"] = Odor
      /\ Script["radio"] = Radio
      /\ Script["industry"] = Industry
      /\ Script["facilities"] = Facilities
      /\ Script["species"] = Species
      /\ Script["hydrology"] = Hydrology
      /\ Script["ocean"] = Ocean
      /\ Script["waste_data"] = WasteData
  BY DEF Script
<1> QED BY <1>1, <1>2, <1>3, <1>4

\* A set of naturals has a least element.
LEMMA LeastNatural ==
  ASSUME NEW T, T \subseteq Nat, T # {}
  PROVE  \E n \in T : \A k \in T : n <= k
<1> DEFINE R == OpToRel(<, Nat)
<1>1. IsWellFoundedOn(R, Nat)
  BY NatLessThanWellFounded
<1>2. PICK n \in T : \A k \in T : ~ (<<k, n>> \in R)
  <2> HIDE DEF R
  <2> QED BY <1>1, WFMin
<1>3. \A k \in Nat : k < n => <<k, n>> \in R
  BY DEF OpToRel
<1>4. ASSUME NEW k \in T, k < n
      PROVE  FALSE
  <2> HIDE DEF R
  <2> QED BY <1>2, <1>3, <1>4
<1> HIDE DEF R
<1>5. n \in T /\ T \subseteq Nat
  BY <1>2
<1> QED BY <1>4, <1>5

\* The last file by name is one of the connector's files.
LEMMA LastByNameIsAFile ==
  ASSUME NEW c, NEW dir, dir \subseteq Snapshots, FilesOf(c, dir) # {}
  PROVE  LastByName(c, dir) \in FilesOf(c, dir)
<1> DEFINE F == FilesOf(c, dir)
<1>1. F \subseteq Snapshots
  BY DEF FilesOf
<1>2. \A f \in F : /\ f.site \in Nat /\ SiteCount - f.site \in Nat
                   /\ f.at \in Nat /\ MaxTime - f.at \in Nat
  BY <1>1, SitesAssumption, TimeAssumption DEF Snapshots, Sites, Times
<1>3. PICK top \in F : \A g \in F : g.site <= top.site
  <2> DEFINE D == {SiteCount - f.site : f \in F}
  <2>1. D \subseteq Nat /\ D # {}
    BY <1>2
  <2>2. PICK n \in D : \A k \in D : n <= k
    <3> HIDE DEF D
    <3> QED BY <2>1, LeastNatural
  <2>3. PICK f \in F : n = SiteCount - f.site
    BY <2>2
  <2>4. \A g \in F : n <= SiteCount - g.site
    BY <2>2
  <2> HIDE DEF D, F
  <2>5. \A g \in F : g.site <= f.site
    BY <2>3, <2>4, <1>2, SitesAssumption
  <2> QED BY <2>5
<1>4. PICK last \in F : last.site = top.site /\ \A g \in F : g.site = top.site => g.at <= last.at
  <2> DEFINE D == {MaxTime - f.at : f \in {g \in F : g.site = top.site}}
  <2>1. D \subseteq Nat /\ D # {}
    BY <1>2, <1>3
  <2>2. PICK n \in D : \A k \in D : n <= k
    <3> HIDE DEF D
    <3> QED BY <2>1, LeastNatural
  <2>3. PICK f \in F : f.site = top.site /\ n = MaxTime - f.at
    BY <2>2
  <2>4. \A g \in F : g.site = top.site => n <= MaxTime - g.at
    BY <2>2
  <2> HIDE DEF D, F
  <2>5. \A g \in F : g.site = top.site => g.at <= f.at
    BY <2>3, <2>4, <1>2, TimeAssumption
  <2> QED BY <2>3, <2>5
<1>5. \A g \in F : last.site > g.site \/ (last.site = g.site /\ last.at >= g.at)
  <2> SUFFICES ASSUME NEW g \in F PROVE last.site > g.site \/ (last.site = g.site /\ last.at >= g.at)
    OBVIOUS
  <2>1. CASE g.site = top.site
    BY <2>1, <1>4, <1>2
  <2>2. CASE g.site # top.site
    BY <2>2, <1>4, <1>3, <1>2
  <2> QED BY <2>1, <2>2
<1> HIDE DEF F
<1>6. LastByName(c, dir) = CHOOSE f \in F : \A g \in F :
          f.site > g.site \/ (f.site = g.site /\ f.at >= g.at)
  BY DEF LastByName, F
<1>7. LastByName(c, dir) \in F
  BY <1>4, <1>5, <1>6
<1> QED BY <1>7 DEF F

-----------------------------------------------------------------------------
(* What a step of a connector does                                          *)

\* A result that was not fetched now names a snapshot of its connector, or no site.
Recalled(x, c, dir) ==
  /\ x \in Results
  /\ x.kept => \E f \in dir : f.conn = c /\ f.site = x.site /\ f.at = x.at
  /\ ~x.kept => x.site = 0

\* A result fetched now for the site of its request is among the files.
Obtained(x, r, c, dir) ==
  /\ x \in Results /\ ~x.kept
  /\ x.site = request[r].site /\ x.at = now
  /\ \E f \in dir : f.conn = c /\ f.site = x.site /\ f.at = now

\* The files a step of the connector may leave.
Stored(r, c) ==
  \/ files' = files
  \/ \E data \in Contents, torn \in BOOLEAN :
        files' = Write(Snapshot(c, request[r].site, data, torn))

Settles(r, c) ==
  /\ Stored(r, c)
  /\ \E x \in Results : Finish(r, c, x) /\ (Recalled(x, c, files') \/ Obtained(x, r, c, files'))

Asks(r, c) ==
  /\ Stored(r, c)
  /\ \E i \in Nat, held \in Contents \cup {"none"} : Ask(r, c, i, held)

LEMMA ConstantResults ==
  ASSUME NEW c, NEW dir
  PROVE  Recalled(EmptyResult, c, dir) /\ Recalled(ErrorResult, c, dir) /\ Recalled(LastResort(c), c, dir)
BY DEF Recalled, EmptyResult, ErrorResult, LastResort, Unavailable, Given, Results, Contents

LEMMA SnapshotResult ==
  ASSUME NEW c, NEW dir, dir \subseteq Snapshots
  PROVE  Recalled(load_snapshot(c, dir), c, dir)
<1> DEFINE f == LastByName(c, dir)
           x == load_snapshot(c, dir)
<1>1. CASE FilesOf(c, dir) = {} \/ f.torn
  BY <1>1, ConstantResults DEF load_snapshot
<1>2. CASE ~(FilesOf(c, dir) = {} \/ f.torn)
  <2>1. f \in FilesOf(c, dir)
    BY <1>2, LastByNameIsAFile
  <2>2. f \in dir /\ f.conn = c /\ f \in Snapshots
    BY <2>1 DEF FilesOf
  <2> HIDE DEF f
  <2>3. x = [status |-> "unstable", label |-> IF Age(f) > TTL THEN "stale" ELSE "cached",
             data |-> f.data, kept |-> TRUE, site |-> f.site, at |-> f.at]
    BY <1>2 DEF load_snapshot, f
  <2> QED BY <2>2, <2>3 DEF Recalled, Results, Snapshots
<1> QED BY <1>1, <1>2

LEMMA FallbackResult ==
  ASSUME NEW c, NEW dir, dir \subseteq Snapshots
  PROVE  Recalled(_fallback_to_cache(c, dir), c, dir)
BY SnapshotResult, ConstantResults DEF _fallback_to_cache

LEMMA OfflineResult ==
  ASSUME NEW c, files \subseteq Snapshots
  PROVE  Recalled(Offline(c), c, files)
<1> DEFINE found == _fallback_to_cache(c, files)
<1>1. Recalled(found, c, files) /\ Recalled(LastResort(c), c, files)
  BY FallbackResult, ConstantResults
<1> HIDE DEF found
<1>2. Recalled([found EXCEPT !.status = "stable"], c, files)
  BY <1>1 DEF Recalled, Results
<1>3. CASE Script[c].offline = "defaults"
  BY <1>1, <1>3 DEF Offline, found
<1>4. CASE Script[c].offline # "defaults" /\ (c = "land_use" /\ found.data # "none")
  BY <1>2, <1>4 DEF Offline, found
<1>5. CASE Script[c].offline # "defaults" /\ ~(c = "land_use" /\ found.data # "none")
  BY <1>1, <1>5 DEF Offline, found
<1> QED BY <1>3, <1>4, <1>5

LEMMA LocalResultRecalled ==
  ASSUME NEW c \in Names, NEW dir
  PROVE  Recalled(LocalResult(c), c, dir)
<1>1. Recalled(Given("static", Script[c].label), c, dir) /\ Recalled(Given("empty", Script[c].label), c, dir)
  BY LabelsOfScript DEF Recalled, Given, Results, Contents
<1> QED BY <1>1, ConstantResults DEF LocalResult

LEMMA FetchedResult ==
  ASSUME NEW c \in Names, now \in Times, NEW s \in Sites, NEW data \in Contents, NEW status \in {"stable", "unstable"}
  PROVE  /\ Fetched(c, s, data, status) \in Results
         /\ ~Fetched(c, s, data, status).kept
         /\ Fetched(c, s, data, status).site = s
         /\ Fetched(c, s, data, status).at = now
BY LabelsOfScript DEF Fetched, Given, Results

LEMMA WrittenFiles ==
  ASSUME files \subseteq Snapshots, now \in Times, NEW c \in Names, NEW s \in Sites,
         NEW data \in Contents, NEW torn \in BOOLEAN
  PROVE  LET new == Snapshot(c, s, data, torn)
         IN  /\ Write(new) \subseteq Snapshots
             /\ new \in Write(new) /\ new.conn = c /\ new.site = s /\ new.at = now
BY DEF Write, Snapshot, Snapshots

\* A task of a request that is being served.
LEMMA RunningTask ==
  ASSUME TypeOK, NEW r \in Requests, NEW c \in active, request[r].phase = "fetching", request[r].site # 0
  PROVE  /\ c \in Names /\ request[r].site \in Sites /\ task[r][c] \in Tasks
         /\ now \in Times /\ files \subseteq Snapshots
<1>1. c \in Names
  BY FleetAssumption DEF TypeOK
<1> QED BY <1>1 DEF TypeOK

LEMMA ParsedContents ==
  ASSUME NEW c, NEW source, NEW outcome \in Outcomes, Accepts(source, outcome)
  PROVE  Parsed(c, source, outcome) \in Contents
BY DEF Parsed, Accepts, Outcomes, Contents

LEMMA FinishRecalled ==
  ASSUME NEW r, NEW c, NEW x, Stored(r, c), Recalled(x, c, files'), Finish(r, c, x)
  PROVE  Settles(r, c)
BY DEF Settles, Recalled

LEMMA NextSourceStep ==
  ASSUME TypeOK, NEW r \in Requests, NEW c \in active,
         request[r].phase = "fetching", request[r].site # 0,
         Stored(r, c), files' \subseteq Snapshots, NextSource(r, c, files')
  PROVE  Settles(r, c) \/ Asks(r, c)
<1>1. task[r][c].src \in Nat
  BY RunningTask DEF Tasks
<1>2. CASE task[r][c].src < Len(Sources(c))
  BY <1>1, <1>2 DEF NextSource, Asks
<1>3. CASE ~(task[r][c].src < Len(Sources(c)))
  <2>1. Finish(r, c, _fallback_to_cache(c, files'))
    BY <1>3 DEF NextSource
  <2>2. Recalled(_fallback_to_cache(c, files'), c, files')
    <3>1. \A dir : dir \subseteq Snapshots => Recalled(_fallback_to_cache(c, dir), c, dir)
      BY FallbackResult
    <3> QED BY <3>1
  <2> QED BY <2>1, <2>2, FinishRecalled
<1> QED BY <1>2, <1>3

LEMMA SaveStep ==
  ASSUME TypeOK, NEW r \in Requests, NEW c \in active,
         request[r].phase = "fetching", request[r].site # 0,
         NEW data \in Contents, NEW status \in {"stable", "unstable"}, Save(r, c, data, status)
  PROVE  Settles(r, c) \/ Asks(r, c)
<1> DEFINE s == request[r].site
           whole == Write(Snapshot(c, s, data, FALSE))
           part == Write(Snapshot(c, s, data, TRUE))
<1>1. /\ c \in Names /\ s \in Sites /\ now \in Times /\ files \subseteq Snapshots
  BY RunningTask
<1>2. whole \subseteq Snapshots /\ part \subseteq Snapshots
      /\ \E f \in whole : f.conn = c /\ f.site = s /\ f.at = now
  <2>1. \A torn \in BOOLEAN :
          LET new == Snapshot(c, s, data, torn)
          IN  Write(new) \subseteq Snapshots /\ new \in Write(new)
    BY <1>1, WrittenFiles
  <2>2. whole \subseteq Snapshots /\ part \subseteq Snapshots /\ Snapshot(c, s, data, FALSE) \in whole
    BY <2>1
  <2> QED BY <2>2 DEF Snapshot
<1>3. CASE files' = whole /\ Finish(r, c, Fetched(c, s, data, status))
  <2>1. Obtained(Fetched(c, s, data, status), r, c, files')
    <3> DEFINE x == Fetched(c, s, data, status)
    <3>1. x \in Results /\ ~x.kept /\ x.site = s /\ x.at = now
      BY <1>1, FetchedResult
    <3>2. \E f \in files' : f.conn = c /\ f.site = s /\ f.at = now
      BY <1>2, <1>3
    <3> HIDE DEF x
    <3>3. Obtained(x, r, c, files')
      BY <3>1, <3>2 DEF Obtained
    <3> QED BY <3>3 DEF x
  <2>2. Stored(r, c)
    BY <1>3 DEF Stored
  <2>3. Fetched(c, s, data, status) \in Results
    BY <1>1, FetchedResult
  <2> QED BY <2>1, <2>2, <2>3, <1>3 DEF Settles
<1>4. ASSUME NEW left \in {files, part}, files' = left,
             IF Script[c].guarded THEN NextSource(r, c, left) ELSE Finish(r, c, EmptyResult)
      PROVE  Settles(r, c) \/ Asks(r, c)
  <2>1. Stored(r, c) /\ files' \subseteq Snapshots
    BY <1>1, <1>2, <1>4 DEF Stored
  <2>2. CASE NextSource(r, c, files')
    BY <2>1, <2>2, NextSourceStep
  <2>3. CASE Finish(r, c, EmptyResult)
    BY <2>1, <2>3, ConstantResults, FinishRecalled
  <2> QED BY <2>2, <2>3, <1>4
<1> HIDE DEF whole, part
<1>5. \/ files' = whole /\ Finish(r, c, Fetched(c, s, data, status))
      \/ \E left \in {files, part} :
            /\ files' = left
            /\ IF Script[c].guarded THEN NextSource(r, c, left) ELSE Finish(r, c, EmptyResult)
  BY DEF Save, whole, part
<1> QED BY <1>3, <1>4, <1>5

LEMMA MergeSourcesStep ==
  ASSUME TypeOK, NEW r \in Requests, NEW c \in active,
         request[r].phase = "fetching", request[r].site # 0,
         NEW outcome \in Outcomes, MergeSources(r, c, outcome)
  PROVE  Settles(r, c) \/ Asks(r, c)
<1> DEFINE i == task[r][c].src
           source == Sources(c)[i]
           got == IF Accepts(source, outcome) THEN Parsed(c, source, outcome) ELSE "none"
           first == IF i = 1 THEN got ELSE task[r][c].held
<1>1. i \in Nat /\ task[r][c].held \in Contents \cup {"none"} /\ files \subseteq Snapshots
  BY RunningTask DEF Tasks
<1>2. got \in Contents \cup {"none"}
  BY ParsedContents
<1>3. first \in Contents \cup {"none"}
  BY <1>1, <1>2
<1>4. CASE i < Len(Sources(c))
  <2>1. Ask(r, c, i + 1, first) /\ files' = files
    BY <1>4 DEF MergeSources
  <2> HIDE DEF i, first
  <2> QED BY <2>1, <1>1, <1>3 DEF Asks, Stored
<1>5. CASE ~(i < Len(Sources(c)))
  <2>1. \/ first # "none" /\ Save(r, c, first, "stable")
        \/ got # "none" /\ Save(r, c, got, "unstable")
        \/ Finish(r, c, _fallback_to_cache(c, files)) /\ files' = files
    BY <1>5 DEF MergeSources
  <2> HIDE DEF i, first, got
  <2>2. CASE first # "none" /\ Save(r, c, first, "stable")
    BY <2>2, <1>3, SaveStep
  <2>3. CASE got # "none" /\ Save(r, c, got, "unstable")
    BY <2>3, <1>2, SaveStep
  <2>4. CASE Finish(r, c, _fallback_to_cache(c, files)) /\ files' = files
    <3>1. Recalled(_fallback_to_cache(c, files), c, files)
      BY <1>1, FallbackResult
    <3>2. Recalled(_fallback_to_cache(c, files), c, files')
      BY <3>1, <2>4
    <3> QED BY <3>2, <2>4, FinishRecalled DEF Stored
  <2> QED BY <2>1, <2>2, <2>3, <2>4
<1> QED BY <1>4, <1>5

LEMMA FirstAnswerStep ==
  ASSUME TypeOK, NEW r \in Requests, NEW c \in active,
         request[r].phase = "fetching", request[r].site # 0,
         NEW outcome \in Outcomes, FirstAnswer(r, c, outcome)
  PROVE  Settles(r, c) \/ Asks(r, c)
<1> DEFINE source == Sources(c)[task[r][c].src]
<1>1. CASE Accepts(source, outcome)
  BY <1>1, ParsedContents, SaveStep DEF FirstAnswer
<1>2. CASE ~Accepts(source, outcome)
  <2>1. NextSource(r, c, files) /\ files' = files
    BY <1>2 DEF FirstAnswer
  <2>2. NextSource(r, c, files')
    BY <2>1
  <2>3. files' \subseteq Snapshots
    BY <2>1, RunningTask
  <2> QED BY <2>1, <2>2, <2>3, NextSourceStep DEF Stored
<1> QED BY <1>1, <1>2

\* The steps of a task: it settles, or it asks a source.
LEMMA TaskStep ==
  ASSUME TypeOK, NEW r \in Requests, NEW c \in active, request[r].site # 0,
         Enter(r, c) \/ Return(r, c) \/ Timeout(r, c)
  PROVE  /\ Settles(r, c) \/ Asks(r, c)
         /\ request[r].phase = "fetching" /\ task[r][c].pc # "done"
         /\ UNCHANGED <<active, configured, readable, now, request>>
<1>1. /\ request[r].phase = "fetching" /\ task[r][c].pc # "done"
      /\ UNCHANGED <<active, configured, readable, now, request>>
  BY DEF Enter, Return, Timeout, Running
<1>2. c \in Names /\ files \subseteq Snapshots
  BY <1>1, RunningTask
<1>3. CASE Enter(r, c)
  <2>1. files' = files /\ Stored(r, c)
    BY <1>3 DEF Enter, Stored
  <2>2. /\ Recalled(LocalResult(c), c, files') /\ Recalled(Offline(c), c, files')
        /\ Recalled(EmptyResult, c, files')
    <3>1. /\ Recalled(LocalResult(c), c, files) /\ Recalled(Offline(c), c, files)
          /\ Recalled(EmptyResult, c, files)
      BY <1>2, LocalResultRecalled, OfflineResult, ConstantResults
    <3> QED BY <3>1, <2>1
  <2>3. \/ Finish(r, c, LocalResult(c)) \/ Finish(r, c, Offline(c))
        \/ Finish(r, c, EmptyResult) \/ Ask(r, c, 1, "none")
    BY <1>3 DEF Enter
  <2>4. Ask(r, c, 1, "none") => Asks(r, c)
    BY <2>1 DEF Asks
  <2>5. ASSUME NEW x, Recalled(x, c, files'), Finish(r, c, x)
        PROVE  Settles(r, c)
    BY <2>1, <2>5, FinishRecalled
  <2>6. Settles(r, c) \/ Asks(r, c)
    <3>1. Finish(r, c, LocalResult(c)) => Settles(r, c)
      BY <2>2, <2>5
    <3>2. Finish(r, c, Offline(c)) => Settles(r, c)
      BY <2>2, <2>5
    <3>3. Finish(r, c, EmptyResult) => Settles(r, c)
      BY <2>2, <2>5
    <3> QED BY <2>3, <2>4, <3>1, <3>2, <3>3
  <2> QED BY <1>1, <2>6
<1>4. CASE Return(r, c)
  <2>1. PICK outcome \in Outcomes : MergeSources(r, c, outcome) \/ FirstAnswer(r, c, outcome)
    BY <1>4 DEF Return
  <2>2. CASE MergeSources(r, c, outcome)
    BY <2>2, <1>1, MergeSourcesStep
  <2>3. CASE FirstAnswer(r, c, outcome)
    BY <2>3, <1>1, FirstAnswerStep
  <2> QED BY <1>1, <2>1, <2>2, <2>3
<1>5. CASE Timeout(r, c)
  <2>1. files' = files /\ Stored(r, c) /\ Finish(r, c, EmptyResult)
    BY <1>5 DEF Timeout, Stored
  <2>2. Recalled(EmptyResult, c, files')
    BY ConstantResults, <2>1
  <2> QED BY <2>1, <2>2, <1>1, FinishRecalled
<1> QED BY <1>3, <1>4, <1>5

-----------------------------------------------------------------------------
(* Types                                                                    *)

\* A request that has begun has a site.
Placed == \A r \in Requests : request[r].phase # "idle" => request[r].site # 0
FetchInv == TypeOK /\ Placed

LEMMA InitInv == Init => FetchInv
<1> SUFFICES ASSUME Init PROVE FetchInv
  OBVIOUS
<1>1. EmptyResult \in Results
  BY ConstantResults DEF Recalled
<1>2. NotStarted \in Tasks
  BY <1>1 DEF NotStarted, Tasks
<1> QED BY <1>2, TimeAssumption DEF Init, FetchInv, TypeOK, Placed, Times

LEMMA StoredFiles ==
  ASSUME TypeOK, NEW r \in Requests, NEW c \in active,
         request[r].phase = "fetching", request[r].site # 0, Stored(r, c)
  PROVE  files' \subseteq Snapshots
BY RunningTask, WrittenFiles DEF Stored

LEMMA TaskStepInv ==
  ASSUME FetchInv, NEW r \in Requests, NEW c \in active,
         Enter(r, c) \/ Return(r, c) \/ Timeout(r, c)
  PROVE  FetchInv'
<1>1. request[r].phase = "fetching" /\ request[r].site # 0
  BY DEF FetchInv, Placed, Enter, Return, Timeout, Running
<1>2. /\ Settles(r, c) \/ Asks(r, c)
      /\ UNCHANGED <<active, configured, readable, now, request>>
  BY <1>1, TaskStep DEF FetchInv
<1>3. files' \subseteq Snapshots
  BY <1>1, <1>2, StoredFiles DEF FetchInv, Settles, Asks
<1>4. EmptyResult \in Results
  BY ConstantResults DEF Recalled
<1>5. \E t \in Tasks : Put(r, c, t)
  <2>1. CASE Settles(r, c)
    BY <2>1 DEF Settles, Finish, NotStarted, Tasks
  <2>2. CASE Asks(r, c)
    BY <2>2, <1>4 DEF Asks, Ask, NotStarted, Tasks
  <2> QED BY <1>2, <2>1, <2>2
<1>6. task' \in [Requests -> [active -> Tasks]]
  BY <1>5 DEF FetchInv, TypeOK, Put
<1> QED BY <1>2, <1>3, <1>6 DEF FetchInv, TypeOK, Placed

LEMMA CrashInSaveFiles ==
  ASSUME FetchInv, NEW r \in Requests, NEW c \in active, CrashInSave(r, c)
  PROVE  /\ c \in Names /\ request[r].site \in Sites /\ request[r].phase = "fetching"
         /\ files' = Write(Snapshot(c, request[r].site, "answer", TRUE))
         /\ files' \subseteq Snapshots
<1>1. request[r].phase = "fetching" /\ request[r].site # 0
  BY DEF FetchInv, Placed, CrashInSave, Running
<1>2. /\ files' = Write(Snapshot(c, request[r].site, "answer", TRUE))
      /\ c \in Names /\ request[r].site \in Sites /\ now \in Times /\ files \subseteq Snapshots
  BY <1>1, RunningTask DEF FetchInv, CrashInSave
<1> QED BY <1>1, <1>2, WrittenFiles DEF Contents

LEMMA NextInv == FetchInv /\ [Next]_vars => FetchInv'
<1> SUFFICES ASSUME FetchInv, [Next]_vars PROVE FetchInv'
  OBVIOUS
<1> USE DEF FetchInv
<1>1. ASSUME NEW r \in Requests, FetchAll(r) PROVE FetchInv'
  BY <1>1, SitesAssumption DEF FetchAll, TypeOK, Placed, Sites
<1>2. ASSUME NEW r \in Requests, Gather(r) PROVE FetchInv'
  BY <1>2 DEF Gather, TypeOK, Placed
<1>3. ASSUME NEW r \in Requests, NEW c \in active, Enter(r, c) \/ Return(r, c) \/ Timeout(r, c)
      PROVE  FetchInv'
  BY <1>3, TaskStepInv
<1>4. ASSUME NEW r \in Requests, NEW c \in active, CrashInSave(r, c) PROVE FetchInv'
  <2>1. files' \subseteq Snapshots
    BY <1>4, CrashInSaveFiles
  <2> QED BY <1>4, <2>1 DEF CrashInSave, Lost, TypeOK, Placed
<1>5. CASE Crash
  BY <1>5 DEF Crash, Lost, TypeOK, Placed
<1>6. CASE Tick
  BY <1>6, TimeAssumption DEF Tick, TypeOK, Placed, Times
<1>7. CASE UNCHANGED vars
  BY <1>7 DEF vars, TypeOK, Placed
<1> QED BY <1>1, <1>2, <1>3, <1>4, <1>5, <1>6, <1>7 DEF Next, Step, Done

\* TypeOK of every reachable state: what the connectors return, whatever the services
\* answer, is a ConnectorResult of the shapes the callers read (connectors/base.py).
THEOREM TypeCorrect == Spec => []TypeOK
<1>1. FetchInv => TypeOK
  BY DEF FetchInv
<1> QED BY <1>1, InitInv, NextInv, PTL DEF Spec

-----------------------------------------------------------------------------
(* The snapshots that stay                                                  *)

LEMMA WriteKeeps ==
  ASSUME NEW c, NEW s, NEW data, NEW torn, NEW f \in files,
         files' = Write(Snapshot(c, s, data, torn))
  PROVE  f \in files' \/ (\E g \in files' : SameName(f, g) /\ g.at = now)
<1> DEFINE new == Snapshot(c, s, data, torn)
<1>1. new.at = now
  BY DEF Snapshot
<1>2. files' = Write(new)
  OBVIOUS
<1> HIDE DEF new
<1>3. files' = {g \in files : ~SameName(new, g)} \cup {new}
  BY <1>2 DEF Write
<1>4. SameName(new, f) => SameName(f, new)
  BY DEF SameName
<1> QED BY <1>1, <1>3, <1>4

\* A snapshot stays readable, or the same connector saved the same site again in the same
\* second (services/cache_manager.py, save_snapshot).
THEOREM SnapshotsStay == Spec => SnapshotsKept
<1> DEFINE Kept == \A f \in files : f \in files' \/ (\E g \in files' : SameName(f, g) /\ g.at = now)
<1>1. ASSUME FetchInv, [Next]_vars PROVE Kept
  <2>1. ASSUME NEW r \in Requests, NEW c \in active, Enter(r, c) \/ Return(r, c) \/ Timeout(r, c)
        PROVE  Kept
    <3>1. request[r].site # 0
      BY <1>1, <2>1 DEF FetchInv, Placed, Enter, Return, Timeout, Running
    <3>2. Stored(r, c)
      BY <1>1, <2>1, <3>1, TaskStep DEF FetchInv, Settles, Asks
    <3> QED BY <3>2, WriteKeeps DEF Stored
  <2>2. ASSUME NEW r \in Requests, NEW c \in active, CrashInSave(r, c) PROVE Kept
    BY <2>2, WriteKeeps DEF CrashInSave
  <2>3. CASE files' = files
    BY <2>3
  <2> QED BY <1>1, <2>1, <2>2, <2>3 DEF Next, Step, FetchAll, Gather, Crash, Tick, Done, vars
<1>2. Kept => [\A f \in files : f \in files' \/ (\E g \in files' : SameName(f, g) /\ g.at = now)]_vars
  OBVIOUS
<1>3. FetchInv /\ [Next]_vars
        => [\A f \in files : f \in files' \/ (\E g \in files' : SameName(f, g) /\ g.at = now)]_vars
  BY <1>1, <1>2
<1> QED BY <1>3, InitInv, NextInv, PTL DEF Spec, SnapshotsKept

-----------------------------------------------------------------------------
(* The collection keeps the promise of module Acquisition                   *)

\* What the abstract variables are replaced with.
KnownOf(dir) == {<<f.conn, f.site, f.at>> : f \in dir}
EndedOf(r) == {c \in active : Ended(r, c)}
ValuesOf(r) == [c \in EndedOf(r) |-> ValueOf(task[r][c].result)]
Values == [r \in Requests |-> ValuesOf(r)]
Phases == [r \in Requests |-> request[r].phase]
Asked == [r \in Requests |-> request[r].site]

LEMMA KnownAfterWrite ==
  ASSUME NEW c, NEW s, NEW data, NEW torn,
         files' = Write(Snapshot(c, s, data, torn))
  PROVE  KnownOf(files') = KnownOf(files) \cup {<<c, s, now>>}
<1> DEFINE new == Snapshot(c, s, data, torn)
<1>1. new.at = now /\ new.conn = c /\ new.site = s
  BY DEF Snapshot
<1>2. files' = Write(new)
  OBVIOUS
<1> HIDE DEF new
<1>3. files' = {g \in files : ~SameName(new, g)} \cup {new}
  BY <1>2 DEF Write
<1>4. ASSUME NEW k \in KnownOf(files')
      PROVE  k \in KnownOf(files) \cup {<<c, s, now>>}
  <2>1. PICK f \in files' : k = <<f.conn, f.site, f.at>>
    BY <1>4 DEF KnownOf
  <2>2. f \in files \/ f = new
    BY <1>3
  <2> QED BY <2>1, <2>2, <1>1 DEF KnownOf
<1>5. ASSUME NEW k \in KnownOf(files)
      PROVE  k \in KnownOf(files')
  <2>1. PICK f \in files : k = <<f.conn, f.site, f.at>>
    BY <1>5 DEF KnownOf
  <2>2. CASE SameName(new, f)
    <3>1. k = <<new.conn, new.site, new.at>> /\ new \in files'
      BY <2>1, <2>2, <1>3 DEF SameName
    <3> QED BY <3>1 DEF KnownOf
  <2>3. CASE ~SameName(new, f)
    BY <2>1, <2>3, <1>3 DEF KnownOf
  <2> QED BY <2>2, <2>3
<1>6. <<c, s, now>> \in KnownOf(files')
  BY <1>1, <1>3 DEF KnownOf
<1> QED BY <1>4, <1>5, <1>6

\* A result and the abstract value it stands for.
LEMMA ResultValue ==
  ASSUME NEW x \in Results, NEW r \in Requests, NEW c, NEW dir, dir \subseteq Snapshots,
         request[r].site \in Sites, now \in Times,
         Recalled(x, c, dir) \/ Obtained(x, r, c, dir)
  PROVE  LET v == ValueOf(x)
         IN  /\ v \in Promise!Values
             /\ v.kind = "fresh" => v.site = request[r].site
             /\ v.kind \in {"fresh", "kept"} => <<c, v.site, v.at>> \in KnownOf(dir)
<1>1. CASE x.kept
  <2>1. PICK f \in dir : f.conn = c /\ f.site = x.site /\ f.at = x.at
    BY <1>1 DEF Recalled, Obtained
  <2>2. ValueOf(x) = [kind |-> "kept", site |-> f.site, at |-> f.at]
    BY <1>1, <2>1 DEF ValueOf
  <2>3. <<c, f.site, f.at>> \in KnownOf(dir)
    BY <2>1 DEF KnownOf
  <2>4. f.site \in Sites /\ f.at \in Times
    BY <2>1 DEF Snapshots
  <2> QED BY <2>2, <2>3, <2>4 DEF Promise!Values
<1>2. CASE ~x.kept /\ x.site # 0
  <2>1. Obtained(x, r, c, dir)
    BY <1>2 DEF Recalled
  <2>2. ValueOf(x) = [kind |-> "fresh", site |-> request[r].site, at |-> now]
    BY <1>2, <2>1 DEF ValueOf, Obtained
  <2>3. <<c, request[r].site, now>> \in KnownOf(dir)
    <3>1. PICK f \in dir : f.conn = c /\ f.site = request[r].site /\ f.at = now
      BY <2>1 DEF Obtained
    <3> QED BY <3>1 DEF KnownOf
  <2> QED BY <2>2, <2>3 DEF Promise!Values
<1>3. CASE ~x.kept /\ x.site = 0
  <2>1. ValueOf(x) = [kind |-> "default"] \/ ValueOf(x) = [kind |-> "none"]
    BY <1>3 DEF ValueOf
  <2> QED BY <2>1 DEF Promise!Values, Promise!Nothing
<1> QED BY <1>1, <1>2, <1>3 DEF Results

LEMMA ValuesUnchanged ==
  ASSUME NEW r \in Requests, UNCHANGED active,
         \A c \in active : Ended(r, c)' = Ended(r, c) /\ (Ended(r, c) => task'[r][c].result = task[r][c].result)
  PROVE  ValuesOf(r)' = ValuesOf(r)
<1>1. EndedOf(r)' = EndedOf(r)
  BY DEF EndedOf
<1>2. \A c \in EndedOf(r) : task'[r][c].result = task[r][c].result
  BY DEF EndedOf
<1>3. \A c \in EndedOf(r) : ValueOf(task'[r][c].result) = ValueOf(task[r][c].result)
  BY <1>2
<1> QED BY <1>1, <1>3 DEF ValuesOf

\* The tasks other than the one that steps keep their values.
LEMMA OtherTasks ==
  ASSUME TypeOK, NEW r \in Requests, NEW c \in active, NEW t, Put(r, c, t), UNCHANGED active
  PROVE  /\ task'[r][c] = t
         /\ \A q \in Requests : \A d \in active : (q # r \/ d # c) => task'[q][d] = task[q][d]
         /\ \A q \in Requests : q # r => ValuesOf(q)' = ValuesOf(q)
<1>1. /\ task'[r][c] = t
      /\ \A q \in Requests : \A d \in active : (q # r \/ d # c) => task'[q][d] = task[q][d]
  BY DEF Put, TypeOK
<1>2. ASSUME NEW q \in Requests, q # r PROVE ValuesOf(q)' = ValuesOf(q)
  <2>1. \A d \in active : Ended(q, d)' = Ended(q, d) /\ task'[q][d].result = task[q][d].result
    BY <1>1, <1>2 DEF Ended
  <2> QED BY <2>1, ValuesUnchanged
<1> QED BY <1>1, <1>2

LEMMA StoredKnown ==
  ASSUME NEW r \in Requests, NEW c \in active, Stored(r, c), now \in Times
  PROVE  \/ KnownOf(files') = KnownOf(files)
         \/ \E t \in Times : KnownOf(files') = KnownOf(files) \cup {<<c, request[r].site, t>>}
<1>1. CASE files' = files
  BY <1>1
<1>2. ASSUME NEW data \in Contents, NEW torn \in BOOLEAN,
             files' = Write(Snapshot(c, request[r].site, data, torn))
      PROVE  KnownOf(files') = KnownOf(files) \cup {<<c, request[r].site, now>>}
  BY <1>2, KnownAfterWrite
<1> QED BY <1>1, <1>2 DEF Stored

LEMMA SettlesFill ==
  ASSUME FetchInv, NEW r \in Requests, NEW c \in active, Enter(r, c) \/ Return(r, c) \/ Timeout(r, c),
         Settles(r, c)
  PROVE  Promise!Fill(r)
<1>1. request[r].phase = "fetching" /\ request[r].site # 0
  BY DEF FetchInv, Placed, Enter, Return, Timeout, Running
<1>2. /\ UNCHANGED <<active, configured, readable, now, request>> /\ ~Ended(r, c)
      /\ files' \subseteq Snapshots /\ request[r].site \in Sites /\ now \in Times
  BY <1>1, TaskStep, RunningTask, StoredFiles DEF FetchInv, Ended, Settles
<1>3. PICK x \in Results : Finish(r, c, x) /\ (Recalled(x, c, files') \/ Obtained(x, r, c, files'))
  BY DEF Settles
<1> DEFINE v == ValueOf(x)
           done == [NotStarted EXCEPT !.pc = "done", !.result = x]
<1>4. /\ v \in Promise!Values
      /\ v.kind = "fresh" => v.site = request[r].site
      /\ v.kind \in {"fresh", "kept"} => <<c, v.site, v.at>> \in KnownOf(files')
  BY <1>2, <1>3, ResultValue
<1>5. done.pc = "done" /\ done.result = x
  BY DEF NotStarted
<1>6. /\ task'[r][c] = done
      /\ \A q \in Requests : \A d \in active : (q # r \/ d # c) => task'[q][d] = task[q][d]
      /\ \A q \in Requests : q # r => ValuesOf(q)' = ValuesOf(q)
  BY <1>2, <1>3, OtherTasks DEF FetchInv, Finish
<1>7. c \notin EndedOf(r) /\ EndedOf(r)' = EndedOf(r) \cup {c}
  BY <1>2, <1>5, <1>6 DEF EndedOf, Ended
<1>8. ValuesOf(r)' = [e \in EndedOf(r) \cup {c} |-> IF e = c THEN v ELSE ValuesOf(r)[e]]
  <2>1. ASSUME NEW e \in EndedOf(r) \cup {c}
        PROVE  ValueOf(task'[r][e].result) = IF e = c THEN v ELSE ValuesOf(r)[e]
    <3>1. CASE e = c
      BY <3>1, <1>5, <1>6
    <3>2. CASE e # c
      <4>1. e \in EndedOf(r) /\ e \in active
        BY <2>1, <3>2 DEF EndedOf
      <4>2. task'[r][e] = task[r][e]
        BY <4>1, <3>2, <1>6
      <4> QED BY <4>1, <4>2, <3>2 DEF ValuesOf
    <3> QED BY <3>1, <3>2
  <2>2. ValuesOf(r)' = [e \in EndedOf(r)' |-> ValueOf(task'[r][e].result)]
    BY DEF ValuesOf
  <2> HIDE DEF v
  <2> QED BY <2>1, <2>2, <1>7
<1>9. Values' = [Values EXCEPT ![r] = [e \in DOMAIN Values[r] \cup {c} |-> IF e = c THEN v ELSE Values[r][e]]]
  <2>1. Values[r] = ValuesOf(r) /\ DOMAIN Values[r] = EndedOf(r)
    BY DEF Values, ValuesOf
  <2>2. Values' = [q \in Requests |-> ValuesOf(q)']
    BY DEF Values
  <2>3. \A q \in Requests : q # r => ValuesOf(q)' = Values[q]
    BY <1>6 DEF Values
  <2>4. ValuesOf(r)' = [e \in DOMAIN Values[r] \cup {c} |-> IF e = c THEN v ELSE Values[r][e]]
    BY <1>8, <2>1
  <2>5. Values = [q \in Requests |-> Values[q]]
    BY DEF Values
  <2> HIDE DEF v
  <2> QED BY <2>2, <2>3, <2>4, <2>5
<1>10. /\ c \in active \ DOMAIN Values[r] /\ Phases[r] = "fetching" /\ Asked[r] = request[r].site
       /\ UNCHANGED <<active, Phases, Asked>>
  BY <1>1, <1>2, <1>7 DEF Values, ValuesOf, Phases, Asked
<1>11. \/ KnownOf(files') = KnownOf(files)
       \/ \E t \in Times : KnownOf(files') = KnownOf(files) \cup {<<c, Asked[r], t>>}
  BY <1>2, <1>10, StoredKnown DEF Settles
<1> HIDE DEF v
<1>12. \E d \in active \ DOMAIN Values[r] : \E w \in Promise!Values :
          /\ \/ KnownOf(files)' = KnownOf(files)
             \/ \E t \in Times : KnownOf(files)' = KnownOf(files) \cup {<<d, Asked[r], t>>}
          /\ w.kind = "fresh" => w.site = Asked[r]
          /\ w.kind \in {"fresh", "kept"} => <<d, w.site, w.at>> \in KnownOf(files)'
          /\ Values' = [Values EXCEPT ![r] =
                          [e \in DOMAIN Values[r] \cup {d} |-> IF e = d THEN w ELSE Values[r][e]]]
  <2>1. c \in active \ DOMAIN Values[r]
    BY <1>10
  <2>2. v \in Promise!Values
    BY <1>4
  <2> WITNESS <2>1
  <2> WITNESS <2>2
  <2> QED BY <1>4, <1>9, <1>10, <1>11
<1>13. Phases[r] = "fetching" /\ UNCHANGED <<active, Phases, Asked>>
  BY <1>10
<1> QED BY Zenon, <1>12, <1>13
        DEF Promise!Fill, Promise!Learn, Values, ValuesOf, EndedOf, Phases, Asked, KnownOf

\* The abstract step of a request, over what the abstract variables stand for.
LEMMA AsksDiscard ==
  ASSUME FetchInv, NEW r \in Requests, NEW c \in active, Enter(r, c) \/ Return(r, c) \/ Timeout(r, c),
         Asks(r, c)
  PROVE  [Promise!AcqNext]_Promise!acqVars
<1>1. request[r].phase = "fetching" /\ request[r].site # 0
  BY DEF FetchInv, Placed, Enter, Return, Timeout, Running
<1>2. UNCHANGED <<active, configured, readable, now, request>> /\ ~Ended(r, c) /\ now \in Times
  BY <1>1, TaskStep, RunningTask DEF FetchInv, Ended
<1>3. PICK i \in Nat, held \in Contents \cup {"none"} : Ask(r, c, i, held)
  BY DEF Asks
<1> DEFINE asking == [NotStarted EXCEPT !.pc = "call", !.src = i, !.held = held]
<1>4. asking.pc = "call"
  BY DEF NotStarted
<1>5. /\ task'[r][c] = asking
      /\ \A q \in Requests : \A d \in active : (q # r \/ d # c) => task'[q][d] = task[q][d]
      /\ \A q \in Requests : q # r => ValuesOf(q)' = ValuesOf(q)
  BY <1>2, <1>3, OtherTasks DEF FetchInv, Ask
<1>6. ValuesOf(r)' = ValuesOf(r)
  <2>1. \A d \in active : Ended(r, d)' = Ended(r, d) /\ (Ended(r, d) => task'[r][d].result = task[r][d].result)
    BY <1>2, <1>4, <1>5 DEF Ended
  <2> QED BY <1>2, <2>1, ValuesUnchanged
<1>7. UNCHANGED <<active, Phases, Asked, Values>>
  BY <1>2, <1>5, <1>6 DEF Phases, Asked, Values
<1>8. \/ KnownOf(files)' = KnownOf(files)
      \/ \E t \in Times : KnownOf(files)' = KnownOf(files) \cup {<<c, Asked[r], t>>}
  BY <1>2, StoredKnown DEF Asks, Asked
<1>9. CASE KnownOf(files)' = KnownOf(files)
  BY <1>7, <1>9 DEF Promise!acqVars, Values, ValuesOf, EndedOf, Phases, Asked, KnownOf
<1>10. CASE \E t \in Times : KnownOf(files)' = KnownOf(files) \cup {<<c, Asked[r], t>>}
  <2>1. Phases[r] = "fetching" /\ \E d \in active : \E t \in Times :
          KnownOf(files)' = KnownOf(files) \cup {<<d, Asked[r], t>>}
    BY <1>1, <1>10 DEF Phases
  <2>2. Promise!Discard(r)
    BY Zenon, <1>7, <2>1
       DEF Promise!Discard, Promise!Learn, Values, ValuesOf, EndedOf, Phases, Asked, KnownOf
  <2> QED BY <2>2 DEF Promise!AcqNext
<1> QED BY <1>8, <1>9, <1>10

LEMMA FetchAllBegins ==
  ASSUME FetchInv, NEW r \in Requests, FetchAll(r)
  PROVE  Promise!Begin(r)
<1>1. PICK s \in Sites : request' = [request EXCEPT ![r] = [phase |-> "fetching", site |-> s]]
  BY DEF FetchAll
<1>2. /\ Phases[r] = "idle" /\ Phases' = [Phases EXCEPT ![r] = "fetching"]
      /\ Asked' = [Asked EXCEPT ![r] = s]
  BY <1>1 DEF FetchAll, Phases, Asked, FetchInv, TypeOK
<1>3. UNCHANGED <<active, files, task>>
  BY DEF FetchAll
<1>4. \E q \in Sites : Asked' = [Asked EXCEPT ![r] = q]
  BY <1>2
<1>5. UNCHANGED <<active, KnownOf(files), Values>>
  BY <1>3 DEF KnownOf, Values, ValuesOf, EndedOf, Ended
<1> QED BY Zenon, <1>2, <1>4, <1>5
        DEF Promise!Begin, Values, ValuesOf, EndedOf, Phases, Asked, KnownOf

LEMMA GatherPublishes ==
  ASSUME FetchInv, NEW r \in Requests, Gather(r)
  PROVE  Promise!Publish(r)
<1>1. /\ Phases[r] = "fetching" /\ Phases' = [Phases EXCEPT ![r] = "answered"] /\ Asked' = Asked
  BY DEF Gather, Phases, Asked, FetchInv, TypeOK
<1>2. DOMAIN Values[r] = active
  BY DEF Gather, Values, ValuesOf, EndedOf, Ended
<1>3. UNCHANGED <<active, KnownOf(files), Values>>
  BY DEF Gather, KnownOf, Values, ValuesOf, EndedOf, Ended
<1> QED BY Zenon, <1>1, <1>2, <1>3
        DEF Promise!Publish, Values, ValuesOf, EndedOf, Phases, Asked, KnownOf

LEMMA CrashLoses ==
  ASSUME FetchInv,
         \/ Crash
         \/ \E r \in Requests, c \in active : CrashInSave(r, c)
  PROVE  Promise!Lose
<1>1. request' = Lost /\ UNCHANGED <<active, task, now>>
  BY DEF Crash, CrashInSave
<1>2. Phases' = [r \in Requests |-> IF Phases[r] = "fetching" THEN "lost" ELSE Phases[r]] /\ Asked' = Asked
  BY <1>1 DEF Phases, Asked, Lost, FetchInv, TypeOK
<1>3. UNCHANGED <<active, Values>>
  BY <1>1 DEF Values, ValuesOf, EndedOf, Ended
<1>4. \/ KnownOf(files)' = KnownOf(files)
      \/ \E r \in Requests, d \in active : Phases[r] = "fetching" /\ \E t \in Times :
            KnownOf(files)' = KnownOf(files) \cup {<<d, Asked[r], t>>}
  <2>1. CASE Crash
    BY <2>1 DEF Crash
  <2>2. ASSUME NEW r \in Requests, NEW c \in active, CrashInSave(r, c)
        PROVE  Phases[r] = "fetching" /\ KnownOf(files)' = KnownOf(files) \cup {<<c, Asked[r], now>>}
    <3>1. /\ request[r].phase = "fetching"
          /\ files' = Write(Snapshot(c, request[r].site, "answer", TRUE))
      BY <2>2, CrashInSaveFiles
    <3> QED BY <3>1, KnownAfterWrite DEF Phases, Asked
  <2>3. now \in Times
    BY DEF FetchInv, TypeOK
  <2> QED BY <2>1, <2>2, <2>3
<1> QED BY Zenon, <1>2, <1>3, <1>4
        DEF Promise!Lose, Promise!Learn, Values, ValuesOf, EndedOf, Phases, Asked, KnownOf

LEMMA NextPromised == FetchInv /\ [Next]_vars => [Promise!AcqNext]_Promise!acqVars
<1> SUFFICES ASSUME FetchInv, [Next]_vars PROVE [Promise!AcqNext]_Promise!acqVars
  OBVIOUS
<1>1. ASSUME NEW r \in Requests, FetchAll(r) PROVE Promise!AcqNext
  BY <1>1, FetchAllBegins DEF Promise!AcqNext
<1>2. ASSUME NEW r \in Requests, Gather(r) PROVE Promise!AcqNext
  BY <1>2, GatherPublishes DEF Promise!AcqNext
<1>3. ASSUME NEW r \in Requests, NEW c \in active, Enter(r, c) \/ Return(r, c) \/ Timeout(r, c)
      PROVE  [Promise!AcqNext]_Promise!acqVars
  <2>1. request[r].site # 0
    BY <1>3 DEF FetchInv, Placed, Enter, Return, Timeout, Running
  <2>2. Settles(r, c) \/ Asks(r, c)
    BY <1>3, <2>1, TaskStep DEF FetchInv
  <2>3. CASE Settles(r, c)
    <3>1. Promise!Fill(r)
      BY <1>3, <2>3, SettlesFill
    <3> QED BY <3>1 DEF Promise!AcqNext
  <2>4. CASE Asks(r, c)
    BY <1>3, <2>4, AsksDiscard
  <2> QED BY <2>2, <2>3, <2>4
<1>4. CASE Crash \/ \E r \in Requests, c \in active : CrashInSave(r, c)
  BY <1>4, CrashLoses DEF Promise!AcqNext
<1>5. CASE UNCHANGED <<active, files, request, task>>
  BY <1>5 DEF Promise!acqVars, Ended
<1> QED BY <1>1, <1>2, <1>3, <1>4, <1>5 DEF Next, Step, Tick, Done, vars

LEMMA InitPromised == Init => Promise!AcqInit
<1> SUFFICES ASSUME Init PROVE Promise!AcqInit
  OBVIOUS
<1>1. KnownOf(files) = {}
  BY DEF Init, KnownOf
<1>2. Phases = [r \in Requests |-> "idle"] /\ Asked = [r \in Requests |-> 0]
  BY DEF Init, Phases, Asked
<1>3. Values = [r \in Requests |-> [d \in {} |-> Promise!Nothing]]
  <2>1. \A r \in Requests : EndedOf(r) = {}
    BY DEF Init, EndedOf, Ended, NotStarted
  <2> QED BY <2>1 DEF Values, ValuesOf
<1>4. KnownOf(files) \subseteq (active \X Sites \X Times)
  BY <1>1
<1> QED BY Zenon, <1>2, <1>3, <1>4
        DEF Promise!AcqInit, Values, ValuesOf, EndedOf, Phases, Asked, KnownOf

\* fetch_all with its connectors, timeouts, snapshots, failing writes and crashes answers
\* once, with a value per domain; what it calls live was obtained for the site of the
\* request, and what comes from a snapshot was obtained by the same connector before.
THEOREM FetchImplementsPromise == Spec => AcquisitionSpec
BY InitInv, NextInv, InitPromised, NextPromised, PTL DEF Spec, AcquisitionSpec, Promise!AcqSpec
=============================================================================

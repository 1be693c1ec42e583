--------------------------- MODULE AssessmentProofs ---------------------------
(***************************************************************************)
(* Theorems about Assessment, for any rules, sites, receptions and         *)
(* statistics of past projects that meet its assumptions.                  *)
(***************************************************************************)
EXTENDS Assessment, SublistProofs

-----------------------------------------------------------------------------
(* The rules and the cards they give *)

LEMMA FourSeverities == ToSet(Severities) = {"critical", "major", "review", "info"}
BY DEF Severities, ToSet

\* Every rule has one severity.
LEMMA Graded ==
  /\ DOMAIN Grade = ToSet(Severities)
  /\ \A s \in ToSet(Severities) : Grade[s] \subseteq RuleIds
  /\ \A id \in RuleIds : \E s \in ToSet(Severities) : id \in Grade[s]
  /\ \A s, t \in ToSet(Severities) : s # t => Grade[s] \cap Grade[t] = {}
<1>1. \A q, r \in ToSet(Rules) : q.id = r.id => q = r
  <2>1. Rules \in Seq(Rule)
    BY RulesAssumption
  <2>2. \A x : x \in ToSet(Rules) <=> \E i \in 1..Len(Rules) : Rules[i] = x
    BY <2>1, ElementsIn
  <2> QED BY <2>2, RulesAssumption
<1>2. \A s \in ToSet(Severities) : Grade[s] = {r.id : r \in {q \in ToSet(Rules) : q.severity = s}}
  BY DEF Grade
<1>3. \A r \in ToSet(Rules) : r.severity \in ToSet(Severities)
  <2>1. ToSet(Rules) \subseteq Rule
    BY RulesAssumption, ElementsIn
  <2> QED BY <2>1 DEF Rule
<1>4. DOMAIN Grade = ToSet(Severities)
  BY DEF Grade
<1>5. \A s \in ToSet(Severities) : Grade[s] \subseteq RuleIds
  BY <1>2 DEF RuleIds
<1>6. \A id \in RuleIds : \E s \in ToSet(Severities) : id \in Grade[s]
  BY <1>2, <1>3 DEF RuleIds
<1>7. \A s, t \in ToSet(Severities) : s # t => Grade[s] \cap Grade[t] = {}
  BY <1>1, <1>2
<1> QED BY <1>4, <1>5, <1>6, <1>7

LEMMA SeverityOfGraded ==
  ASSUME NEW s \in ToSet(Severities), NEW id \in Grade[s]
  PROVE  SeverityOf(id) = s
BY Graded DEF SeverityOf

LEMMA OfSeverityIs ==
  ASSUME NEW q \in Seq(RuleIds), NEW s \in ToSet(Severities)
  PROVE  /\ OfSeverity(q, s) \in Seq(RuleIds)
         /\ ToSet(OfSeverity(q, s)) = ToSet(q) \cap Grade[s]
         /\ IsInjective(q) => IsInjective(OfSeverity(q, s))
BY KeepIsSeq, KeepSet, KeepInjective DEF OfSeverity

\* Sorting keeps the cards, and those of a severity in their order.
LEMMA Sorted ==
  ASSUME NEW q \in Seq(RuleIds)
  PROVE  /\ BySeverity(q) \in Seq(RuleIds)
         /\ ToSet(BySeverity(q)) = ToSet(q)
         /\ IsInjective(q) => IsInjective(BySeverity(q))
         /\ \A S : Keep(BySeverity(q), S) =
                       Keep(OfSeverity(q, "critical"), S) \o Keep(OfSeverity(q, "major"), S)
                       \o Keep(OfSeverity(q, "review"), S) \o Keep(OfSeverity(q, "info"), S)
<1> DEFINE c == OfSeverity(q, "critical")
           m == OfSeverity(q, "major")
           r == OfSeverity(q, "review")
           i == OfSeverity(q, "info")
<1>1. /\ c \in Seq(RuleIds) /\ m \in Seq(RuleIds) /\ r \in Seq(RuleIds) /\ i \in Seq(RuleIds)
      /\ ToSet(c) = ToSet(q) \cap Grade["critical"] /\ ToSet(m) = ToSet(q) \cap Grade["major"]
      /\ ToSet(r) = ToSet(q) \cap Grade["review"] /\ ToSet(i) = ToSet(q) \cap Grade["info"]
      /\ IsInjective(q) => IsInjective(c) /\ IsInjective(m) /\ IsInjective(r) /\ IsInjective(i)
  BY OfSeverityIs, FourSeverities
<1>2. BySeverity(q) = c \o m \o r \o i
  BY DEF BySeverity
<1>3. ToSet(q) \subseteq RuleIds
  BY ElementsIn
<1> HIDE DEF c, m, r, i
<1>4. c \o m \in Seq(RuleIds) /\ c \o m \o r \in Seq(RuleIds) /\ c \o m \o r \o i \in Seq(RuleIds)
  BY <1>1, ConcatProperties
<1>5. /\ ToSet(c \o m) = ToSet(c) \cup ToSet(m)
      /\ ToSet(c \o m \o r) = ToSet(c) \cup ToSet(m) \cup ToSet(r)
      /\ ToSet(c \o m \o r \o i) = ToSet(c) \cup ToSet(m) \cup ToSet(r) \cup ToSet(i)
  <2>1. ToSet(c \o m) = ToSet(c) \cup ToSet(m)
    BY <1>1, ToSetConcat
  <2>2. \A s, t \in Seq(RuleIds) : ToSet(s \o t) = ToSet(s) \cup ToSet(t)
    BY ToSetConcat
  <2>3. ToSet((c \o m) \o r) = ToSet(c \o m) \cup ToSet(r)
    BY <1>1, <1>4, <2>2, Zenon
  <2>4. ToSet((c \o m \o r) \o i) = ToSet(c \o m \o r) \cup ToSet(i)
    BY <1>1, <1>4, <2>2, Zenon
  <2> QED BY <2>1, <2>3, <2>4
<1>6. ToSet(BySeverity(q)) = ToSet(q)
  BY <1>1, <1>2, <1>3, <1>5, Graded, FourSeverities
<1>7. ASSUME IsInjective(q) PROVE IsInjective(BySeverity(q))
  <2>1. /\ ToSet(c) \cap ToSet(m) = {} /\ ToSet(c \o m) \cap ToSet(r) = {}
        /\ ToSet(c \o m \o r) \cap ToSet(i) = {}
    BY <1>1, <1>5, Graded, FourSeverities
  <2>2. IsInjective(c \o m)
    BY <1>1, <1>7, <2>1, InjectiveConcat
  <2>3. IsInjective(c \o m \o r)
    BY <1>1, <1>4, <1>7, <2>1, <2>2, InjectiveConcat
  <2>4. IsInjective(c \o m \o r \o i)
    BY <1>1, <1>4, <1>7, <2>1, <2>3, InjectiveConcat
  <2> QED BY <1>2, <2>4
<1>8. ASSUME NEW S PROVE Keep(BySeverity(q), S) = Keep(c, S) \o Keep(m, S) \o Keep(r, S) \o Keep(i, S)
  <2>1. Keep(c \o m \o r \o i, S) = Keep(c \o m \o r, S) \o Keep(i, S)
    BY <1>1, <1>4, KeepConcat
  <2>2. Keep(c \o m \o r, S) = Keep(c \o m, S) \o Keep(r, S)
    BY <1>1, <1>4, KeepConcat
  <2>3. Keep(c \o m, S) = Keep(c, S) \o Keep(m, S)
    BY <1>1, KeepConcat
  <2> QED BY <1>2, <2>1, <2>2, <2>3
<1> QED BY <1>2, <1>4, <1>6, <1>7, <1>8 DEF c, m, r, i

\* Of a sorted list each severity is what it was, and sorting it again changes nothing.
LEMMA SortedOnce ==
  ASSUME NEW q \in Seq(RuleIds)
  PROVE  /\ \A s \in ToSet(Severities) : OfSeverity(BySeverity(q), s) = OfSeverity(q, s)
         /\ BySeverity(BySeverity(q)) = BySeverity(q)
         /\ Severe(BySeverity(q)) = OfSeverity(q, "critical") \o OfSeverity(q, "major")
<1> DEFINE c == OfSeverity(q, "critical")
           m == OfSeverity(q, "major")
           r == OfSeverity(q, "review")
           i == OfSeverity(q, "info")
           Kept4(S) == Keep(c, S) \o Keep(m, S) \o Keep(r, S) \o Keep(i, S)
<1>1. ASSUME NEW s \in ToSet(Severities), NEW S
      PROVE  /\ Grade[s] \subseteq S => Keep(OfSeverity(q, s), S) = OfSeverity(q, s)
             /\ Grade[s] \cap S = {} => Keep(OfSeverity(q, s), S) = <<>>
  BY OfSeverityIs, KeepAll, KeepNone
<1>2. /\ c \in Seq(RuleIds) /\ m \in Seq(RuleIds) /\ r \in Seq(RuleIds) /\ i \in Seq(RuleIds)
      /\ c \o m \in Seq(RuleIds)
  BY OfSeverityIs, FourSeverities, ConcatProperties
<1>3. ASSUME NEW S
      PROVE  /\ Grade["critical"] \subseteq S => Keep(c, S) = c
             /\ Grade["critical"] \cap S = {} => Keep(c, S) = <<>>
             /\ Grade["major"] \subseteq S => Keep(m, S) = m
             /\ Grade["major"] \cap S = {} => Keep(m, S) = <<>>
             /\ Grade["review"] \subseteq S => Keep(r, S) = r
             /\ Grade["review"] \cap S = {} => Keep(r, S) = <<>>
             /\ Grade["info"] \subseteq S => Keep(i, S) = i
             /\ Grade["info"] \cap S = {} => Keep(i, S) = <<>>
  BY <1>1, FourSeverities
<1>4. \A S : Keep(BySeverity(q), S) = Kept4(S)
  BY Sorted
<1>5. <<>> \in Seq(RuleIds) /\ <<>> \o <<>> = <<>> /\ BySeverity(q) = c \o m \o r \o i
  BY EmptySeq, ConcatEmptySeq DEF BySeverity
<1>6. /\ Grade["critical"] \cap Grade["major"] = {} /\ Grade["critical"] \cap Grade["review"] = {}
      /\ Grade["critical"] \cap Grade["info"] = {} /\ Grade["major"] \cap Grade["review"] = {}
      /\ Grade["major"] \cap Grade["info"] = {} /\ Grade["review"] \cap Grade["info"] = {}
  BY Graded, FourSeverities
<1>7. /\ OfSeverity(BySeverity(q), "critical") = Kept4(Grade["critical"])
      /\ OfSeverity(BySeverity(q), "major") = Kept4(Grade["major"])
      /\ OfSeverity(BySeverity(q), "review") = Kept4(Grade["review"])
      /\ OfSeverity(BySeverity(q), "info") = Kept4(Grade["info"])
      /\ Severe(BySeverity(q)) = Kept4(Grade["critical"] \cup Grade["major"])
  BY <1>4, Zenon DEF OfSeverity, Severe
<1> HIDE DEF c, m, r, i
<1>8. Kept4(Grade["critical"]) = c
  <2>1. Kept4(Grade["critical"]) = c \o <<>> \o <<>> \o <<>>
    BY <1>3, <1>6
  <2> QED BY <1>2, <2>1, ConcatEmptySeq
<1>9. Kept4(Grade["major"]) = m
  <2>1. Kept4(Grade["major"]) = <<>> \o m \o <<>> \o <<>>
    BY <1>3, <1>6
  <2> QED BY <1>2, <2>1, ConcatEmptySeq
<1>10. Kept4(Grade["review"]) = r
  <2>1. Kept4(Grade["review"]) = <<>> \o <<>> \o r \o <<>>
    BY <1>3, <1>6
  <2> QED BY <1>2, <1>5, <2>1, ConcatEmptySeq
<1>11. Kept4(Grade["info"]) = i
  <2>1. Kept4(Grade["info"]) = <<>> \o <<>> \o <<>> \o i
    BY <1>3, <1>6
  <2> QED BY <1>2, <1>5, <2>1, ConcatEmptySeq
<1>12. Kept4(Grade["critical"] \cup Grade["major"]) = c \o m
  <2>1. Kept4(Grade["critical"] \cup Grade["major"]) = c \o m \o <<>> \o <<>>
    BY <1>3, <1>6
  <2> QED BY <1>2, <2>1, ConcatEmptySeq
<1>13. BySeverity(BySeverity(q)) = BySeverity(q)
  BY <1>5, <1>7, <1>8, <1>9, <1>10, <1>11 DEF BySeverity
<1> QED BY <1>7, <1>8, <1>9, <1>10, <1>11, <1>12, <1>13, FourSeverities DEF c, m, r, i

\* The cards are those of the matching rules, each once, sorted.
LEMMA RiskCardsAre ==
  ASSUME NEW data
  PROVE  /\ RiskCards(data) \in Seq(RuleIds) /\ IsInjective(RiskCards(data))
         /\ BySeverity(RiskCards(data)) = RiskCards(data)
         /\ ToSet(RiskCards(data)) = {r.id : r \in {q \in ToSet(Rules) : Matches(q, data)}}
<1> DEFINE M == {r \in ToSet(Rules) : Matches(r, data)}
           k == Keep(Rules, M)
           ids == [i \in 1..Len(k) |-> k[i].id]
<1>1. Rules \in Seq(Rule) /\ IsInjective(Rules)
  <2>1. DOMAIN Rules = 1..Len(Rules)
    BY RulesAssumption, LenProperties
  <2> QED BY <2>1, RulesAssumption DEF IsInjective
<1>2. k \in Seq(Rule) /\ IsInjective(k) /\ ToSet(k) = M
  BY <1>1, KeepIsSeq, KeepInjective, KeepSet
<1>3. \A x : x \in ToSet(Rules) <=> \E i \in 1..Len(Rules) : Rules[i] = x
  BY <1>1, ElementsIn
<1>4. \A x : x \in M <=> \E i \in 1..Len(k) : k[i] = x
  <2> HIDE DEF k, M
  <2> QED BY <1>2, ElementsIn
<1>5. Len(k) \in Nat /\ DOMAIN k = 1..Len(k)
  BY <1>2, LenProperties
<1>6. M \subseteq ToSet(Rules)
  OBVIOUS
<1> HIDE DEF k, M
<1>7. ids \in [1..Len(k) -> RuleIds] /\ \A i \in 1..Len(k) : ids[i] = k[i].id
  BY <1>4, <1>6 DEF RuleIds
<1>8. {ids[i] : i \in 1..Len(k)} = {r.id : r \in M}
  BY <1>4, <1>7
<1> HIDE DEF ids
<1>9. ids \in Seq(RuleIds) /\ DOMAIN ids = 1..Len(k)
  BY <1>5, <1>7, ListOf
<1>10. ToSet(ids) = {r.id : r \in M}
  BY <1>8, <1>9 DEF ToSet
<1>11. IsInjective(ids)
  <2>1. ASSUME NEW i \in 1..Len(k), NEW j \in 1..Len(k), ids[i] = ids[j] PROVE i = j
    <3>1. PICK a \in 1..Len(Rules), b \in 1..Len(Rules) : Rules[a] = k[i] /\ Rules[b] = k[j]
      BY <1>3, <1>4, <1>6
    <3>2. a = b
      BY <1>7, <2>1, <3>1, RulesAssumption
    <3>3. k[i] = k[j]
      BY <3>1, <3>2
    <3> QED BY <1>2, <1>5, <3>3 DEF IsInjective
  <2> QED BY <1>9, <2>1 DEF IsInjective
<1>12. RiskCards(data) = BySeverity(ids)
  BY DEF RiskCards, ids, k, M
<1> QED BY <1>9, <1>10, <1>11, <1>12, Sorted, SortedOnce DEF M

-----------------------------------------------------------------------------
(* The data of a site, and what a partial reception makes of it *)

LEMMA SevenElements ==
  ASSUME NEW A, NEW a \in A, NEW b \in A, NEW c \in A, NEW d \in A, NEW e \in A, NEW f \in A, NEW g \in A
  PROVE  <<a, b, c, d, e, f, g>> \in Seq(A) /\ ToSet(<<a, b, c, d, e, f, g>>) = {a, b, c, d, e, f, g}
BY DEF ToSet

LEMMA ThreeElements ==
  ASSUME NEW A, NEW a \in A, NEW b \in A, NEW c \in A
  PROVE  <<a, b, c>> \in Seq(A) /\ ToSet(<<a, b, c>>) = {a, b, c}
BY DEF ToSet

LEMMA OneElement ==
  ASSUME NEW A, NEW a \in A
  PROVE  <<a>> \in Seq(A) /\ ToSet(<<a>>) = {a} /\ Len(<<a>>) = 1 /\ IsInjective(<<a>>)
<1>1. <<a>> \in Seq(A) /\ ToSet(<<a>>) = {a} /\ Len(<<a>>) = 1 /\ DOMAIN <<a>> = {1}
  BY DEF ToSet
<1> QED BY <1>1 DEF IsInjective

ZoneRows ==
    { <<"residential", "UQ111">>, <<"greenery", "UQ111">>, <<"planned", "UQ112">>,
      <<"conservationMgmt", "UQ112">>, <<"unnamed", "UQ112">>, <<"farmForest", "UQ113">>,
      <<"natureReserve", "UQ114">> }

NamedZones ==
    {"residential", "greenery", "planned", "conservationMgmt", "farmForest", "natureReserve"}

LEMMA ZoneOrderIs == ZoneOrder \in Seq(ZoneRows) /\ ToSet(ZoneOrder) = ZoneRows
<1> DEFINE a == <<"residential", "UQ111">>
           b == <<"greenery", "UQ111">>
           c == <<"planned", "UQ112">>
           d == <<"conservationMgmt", "UQ112">>
           e == <<"unnamed", "UQ112">>
           f == <<"farmForest", "UQ113">>
           g == <<"natureReserve", "UQ114">>
<1>1. ZoneOrder = <<a, b, c, d, e, f, g>> /\ ZoneRows = {a, b, c, d, e, f, g}
  BY DEF ZoneOrder, ZoneRows
<1>2. /\ a \in ZoneRows /\ b \in ZoneRows /\ c \in ZoneRows /\ d \in ZoneRows
      /\ e \in ZoneRows /\ f \in ZoneRows /\ g \in ZoneRows
  BY DEF ZoneRows
<1> HIDE DEF a, b, c, d, e, f, g
<1>3. /\ <<a, b, c, d, e, f, g>> \in Seq(ZoneRows)
      /\ ToSet(<<a, b, c, d, e, f, g>>) = {a, b, c, d, e, f, g}
  BY <1>2, SevenElements, SMTT(30)
<1> QED BY <1>1, <1>3

\* The zones named are those of the site in a layer that was found.
LEMMA ZoneTypesAre ==
  ASSUME NEW s, NEW rec
  PROVE  /\ ZoneTypes(s, rec) \in Seq(NamedZones)
         /\ \A z : z \in ToSet(ZoneTypes(s, rec)) <=>
                \E y \in ZoneRows : y[1] = z /\ z # "unnamed" /\ z \in s.zones /\ y[2] \in Found(s, rec)
<1> DEFINE S == {z \in ToSet(ZoneOrder) : z[1] \in s.zones \ {"unnamed"} /\ z[2] \in Found(s, rec)}
           k == Keep(ZoneOrder, S)
           types == [i \in 1..Len(k) |-> k[i][1]]
<1>1. k \in Seq(ZoneRows) /\ ToSet(k) = S
  BY ZoneOrderIs, KeepIsSeq, KeepSet
<1>2. Len(k) \in Nat
  BY <1>1, LenProperties
<1>3. \A x : x \in S <=> \E i \in 1..Len(k) : k[i] = x
  <2> HIDE DEF k, S
  <2> QED BY <1>1, ElementsIn
<1>4. \A x : x \in S <=> x \in ZoneRows /\ x[1] \in s.zones \ {"unnamed"} /\ x[2] \in Found(s, rec)
  BY ZoneOrderIs
<1>5. \A x \in ZoneRows : x[1] # "unnamed" => x[1] \in NamedZones
  BY DEF ZoneRows, NamedZones
<1> HIDE DEF k, S
<1>6. types \in [1..Len(k) -> NamedZones] /\ \A i \in 1..Len(k) : types[i] = k[i][1]
  BY <1>3, <1>4, <1>5
<1> HIDE DEF types
<1>7. types \in Seq(NamedZones) /\ Len(types) = Len(k)
  BY <1>2, <1>6, ListOf
<1>8. \A x : x \in ToSet(types) <=> \E i \in 1..Len(k) : types[i] = x
  BY <1>7, ElementsIn
<1>9. ASSUME NEW z
      PROVE  z \in ToSet(types) <=>
                \E y \in ZoneRows : y[1] = z /\ z # "unnamed" /\ z \in s.zones /\ y[2] \in Found(s, rec)
  BY <1>3, <1>4, <1>6, <1>8
<1>10. ZoneTypes(s, rec) = types
  BY DEF ZoneTypes, types, k, S
<1> QED BY <1>7, <1>9, <1>10

\* Complete data has found whatever partial data has.
LEMMA FoundMore ==
  ASSUME NEW s, NEW rec
  PROVE  /\ Found(s, rec) \subseteq Found(s, Complete)
         /\ \A c : Has(Complete, c)
         /\ Complete.landcover = TRUE /\ Complete.geology = "whole"
         /\ ToSet(ZoneTypes(s, rec)) \subseteq ToSet(ZoneTypes(s, Complete))
<1>1. /\ \A c : Has(Complete, c)
      /\ Complete.landcover = TRUE /\ Complete.geology = "whole" /\ Complete.deaf = {}
  BY DEF Complete, Has
<1>2. Found(s, rec) \subseteq Found(s, Complete)
  BY <1>1 DEF Found
<1> QED BY <1>1, <1>2, ZoneTypesAre

\* A flag of partial data is one of complete data.
Lost(some, all) == some \in {0, 1} /\ (some = all \/ some = 0)

LEMMA LandUseHides ==
  ASSUME NEW s, NEW type, NEW rec
  PROVE  LET some == LandUse(s, type, rec)
             all  == LandUse(s, type, Complete)
         IN  /\ Lost(some.zone_conflict, all.zone_conflict)
             /\ Lost(some.conservation_zone_overlap, all.conservation_zone_overlap)
             /\ Lost(some.greenbelt_overlap, all.greenbelt_overlap)
             /\ Lost(some.agricultural_zone_overlap, all.agricultural_zone_overlap)
             /\ Lost(some.river_zone_overlap, all.river_zone_overlap)
             /\ some.zone_types = ZoneTypes(s, rec) /\ all.zone_types = ZoneTypes(s, Complete)
             /\ some.zone_conflict = 1 =>
                    some.conservation_zone_overlap = 1 \/ some.agricultural_zone_overlap = 1
             /\ some.agricultural_zone_overlap = 1 <=> "UQ113" \in Found(s, rec)
<1> DEFINE found == Found(s, rec)
           whole == Found(s, Complete)
           Conflict(f) == type # "none" /\ ("UQ114" \in f \/ ("UQ113" \in f /\ type \in Developments))
<1>1. found \subseteq whole
  BY FoundMore
<1>2. ASSUME NEW r
      PROVE  /\ LandUse(s, type, r).zone_types = ZoneTypes(s, r)
             /\ LandUse(s, type, r).zone_conflict = IF Conflict(Found(s, r)) THEN 1 ELSE 0
             /\ LandUse(s, type, r).conservation_zone_overlap = IF "UQ114" \in Found(s, r) THEN 1 ELSE 0
             /\ LandUse(s, type, r).greenbelt_overlap = IF "UQ141" \in Found(s, r) THEN 1 ELSE 0
             /\ LandUse(s, type, r).agricultural_zone_overlap = IF "UQ113" \in Found(s, r) THEN 1 ELSE 0
             /\ LandUse(s, type, r).river_zone_overlap = IF "WKMSTRM" \in Found(s, r) THEN 1 ELSE 0
  BY DEF LandUse, Bit
<1> HIDE DEF found, whole
<1>4. Conflict(found) => Conflict(whole) /\ ("UQ114" \in found \/ "UQ113" \in found)
  BY <1>1
<1> HIDE DEF Conflict
<1>6. Lost(IF Conflict(found) THEN 1 ELSE 0, IF Conflict(whole) THEN 1 ELSE 0)
  BY <1>4 DEF Lost
<1>7. \A l : Lost(IF l \in found THEN 1 ELSE 0, IF l \in whole THEN 1 ELSE 0)
  BY <1>1 DEF Lost
<1> QED BY <1>2, <1>4, <1>6, <1>7 DEF found, whole

\* A grade that is there is one of three.  What is missing of it can only raise it.
LEMMA EcologyHides ==
  ASSUME NEW s, NEW type, NEW rec
  PROVE  LET some == Ecology(s, LandUse(s, type, rec), rec)
             all  == Ecology(s, LandUse(s, type, Complete), Complete)
         IN  /\ some.eco_grade \in {Absent, 1, 2, 3}
             /\ some.eco_grade = 1 => all.eco_grade = 1
             /\ some.eco_grade = 2 => all.eco_grade \in {1, 2}
             /\ some.forest_wetland_distance_m \in {0, Absent}
             /\ some.forest_wetland_distance_m = 0 => all.forest_wetland_distance_m = 0
             /\ some.eco_landscape_conservation_overlap \in {0, 1}
             /\ some.eco_landscape_conservation_overlap = 1 =>
                    all.eco_landscape_conservation_overlap = 1 /\ some.eco_grade \in {1, 2}
             /\ LandUse(s, type, rec).conservation_zone_overlap = 1 => some.eco_grade = 1
<1> DEFINE land == LandUse(s, type, rec)
           whole == LandUse(s, type, Complete)
           Cover(r) == IF Has(r, "ecology") /\ r.landcover THEN s.cover ELSE "none"
           Reserved(l, r) == IF l.conservation_zone_overlap = 1 THEN Raise(CoverGrade(Cover(r)), 1)
                             ELSE CoverGrade(Cover(r))
           Strict(l, r) == Has(r, "marine") /\ ToSet(l.zone_types) \cap NamedConservation # {}
           Managed(l, r) == Has(r, "marine") /\ ToSet(l.zone_types) \cap NamedManagement # {}
           Graded3(l, r) == IF Strict(l, r) THEN Raise(Reserved(l, r), 1)
                           ELSE IF Managed(l, r) THEN Raise(Reserved(l, r), 2) ELSE Reserved(l, r)
<1>1. /\ land.conservation_zone_overlap = 1 => whole.conservation_zone_overlap = 1
      /\ ToSet(land.zone_types) \subseteq ToSet(whole.zone_types)
  <2>1. Lost(land.conservation_zone_overlap, whole.conservation_zone_overlap)
    BY LandUseHides
  <2>2. land.zone_types = ZoneTypes(s, rec) /\ whole.zone_types = ZoneTypes(s, Complete)
    BY LandUseHides
  <2>3. ToSet(ZoneTypes(s, rec)) \subseteq ToSet(ZoneTypes(s, Complete))
    BY FoundMore
  <2> HIDE DEF land, whole
  <2> QED BY <2>1, <2>2, <2>3 DEF Lost
<1>2. Cover(Complete) = s.cover /\ (Cover(rec) = s.cover \/ Cover(rec) = "none")
  BY FoundMore
<1>3. /\ Strict(land, rec) => Strict(whole, Complete)
      /\ Managed(land, rec) => Managed(whole, Complete)
  BY <1>1, FoundMore
<1>4. \A l, r : /\ Ecology(s, l, r).eco_grade = Graded3(l, r)
                /\ Ecology(s, l, r).forest_wetland_distance_m =
                      IF Cover(r) \in {"forest", "wetland"} THEN 0 ELSE Absent
                /\ Ecology(s, l, r).eco_landscape_conservation_overlap = Bit(Strict(l, r) \/ Managed(l, r))
  BY DEF Ecology
<1> HIDE DEF land, whole, Strict, Managed, Cover
<1>5. \A g : g \in {Absent, 1, 2, 3} =>
          /\ Raise(g, 1) = 1
          /\ Raise(g, 2) = IF g = 1 THEN 1 ELSE 2
  BY DEF Raise, MinOf, Absent
<1>6. \A r : CoverGrade(Cover(r)) \in {Absent, 1, 2, 3} /\ CoverGrade("none") = Absent
  BY DEF CoverGrade
<1>7. \A l, r : Reserved(l, r) \in {Absent, 1, 2, 3}
  BY <1>5, <1>6
<1>8. /\ Reserved(land, rec) = 1 => Reserved(whole, Complete) = 1
      /\ Reserved(land, rec) = 2 => Reserved(whole, Complete) \in {1, 2}
      /\ land.conservation_zone_overlap = 1 => Reserved(land, rec) = 1
  BY <1>1, <1>2, <1>5, <1>6 DEF Absent
<1> HIDE DEF Reserved
<1>9. /\ Graded3(land, rec) \in {Absent, 1, 2, 3}
      /\ Graded3(land, rec) = 1 => Graded3(whole, Complete) = 1
      /\ Graded3(land, rec) = 2 => Graded3(whole, Complete) \in {1, 2}
      /\ Strict(land, rec) \/ Managed(land, rec) => Graded3(land, rec) \in {1, 2}
      /\ land.conservation_zone_overlap = 1 => Graded3(land, rec) = 1
  BY <1>3, <1>5, <1>7, <1>8 DEF Absent
<1> HIDE DEF Graded3
<1> QED BY <1>2, <1>3, <1>4, <1>9 DEF Absent, Bit, land, whole

\* What a field of partial data says: the same as of complete data, nothing, or less.
\* The names of the zones are no field for a rule.
Says(some, all, field) ==
    \/ some = all
    \/ some = Absent
    \/ field \in Flags /\ some = 0
    \/ field = "eco_grade" /\ (some # 1 \/ all = 1)
    \/ field = "zone_types"

SaysLess(some, all) ==
    /\ DOMAIN some = DOMAIN all
    /\ \A f \in DOMAIN some : Says(some[f], all[f], f)

LEMMA DataHides ==
  ASSUME NEW s, NEW type, NEW rec
  PROVE  /\ DOMAIN SpatialData(s, type, rec) = DOMAIN SpatialData(s, type, Complete)
         /\ \A d \in DOMAIN SpatialData(s, type, rec) :
                SaysLess(SpatialData(s, type, rec)[d], SpatialData(s, type, Complete)[d])
<1> DEFINE land == LandUse(s, type, rec)
           whole == LandUse(s, type, Complete)
           found == Found(s, rec)
           all == Found(s, Complete)
           some == SpatialData(s, type, rec)
           full == SpatialData(s, type, Complete)
<1>1. SaysLess(land, whole)
  <2>1. /\ Lost(land.zone_conflict, whole.zone_conflict)
        /\ Lost(land.conservation_zone_overlap, whole.conservation_zone_overlap)
        /\ Lost(land.greenbelt_overlap, whole.greenbelt_overlap)
        /\ Lost(land.agricultural_zone_overlap, whole.agricultural_zone_overlap)
        /\ Lost(land.river_zone_overlap, whole.river_zone_overlap)
    BY LandUseHides
  <2>2. \A l \in {land, whole} : DOMAIN l = {"zone_types", "zone_conflict", "conservation_zone_overlap",
            "greenbelt_overlap", "agricultural_zone_overlap", "river_zone_overlap"}
    BY DEF LandUse
  <2> HIDE DEF land, whole
  <2> QED BY <2>1, <2>2 DEF SaysLess, Says, Lost, Flags
<1>2. SaysLess(Ecology(s, land, rec), Ecology(s, whole, Complete))
  <2> DEFINE e == Ecology(s, land, rec)
             w == Ecology(s, whole, Complete)
  <2>1. /\ e.eco_grade # 1 \/ w.eco_grade = 1
        /\ e.forest_wetland_distance_m \in {w.forest_wetland_distance_m, Absent}
        /\ e.eco_landscape_conservation_overlap \in {0, w.eco_landscape_conservation_overlap}
    <3>1. /\ e.eco_grade = 1 => w.eco_grade = 1
          /\ e.forest_wetland_distance_m \in {0, Absent}
          /\ e.forest_wetland_distance_m = 0 => w.forest_wetland_distance_m = 0
          /\ e.eco_landscape_conservation_overlap \in {0, 1}
          /\ e.eco_landscape_conservation_overlap = 1 => w.eco_landscape_conservation_overlap = 1
      BY EcologyHides
    <3> QED BY <3>1
  <2>2. \A l \in {e, w} : DOMAIN l = {"eco_grade", "forest_wetland_distance_m",
            "eco_landscape_conservation_overlap"}
    BY DEF Ecology
  <2> HIDE DEF e, w
  <2> QED BY <2>1, <2>2 DEF SaysLess, Says, Flags, e, w
<1>3. found \subseteq all /\ (\A c : Has(Complete, c)) /\ Complete.geology = "whole"
  BY FoundMore
<1>4. SaysLess(Water(found), Water(all))
  BY <1>3 DEF SaysLess, Says, Water
<1>5. SaysLess(Noise(found), Noise(all))
  BY <1>3 DEF SaysLess, Says, Noise
<1>6. SaysLess(Cultural(found), Cultural(all))
  BY <1>3 DEF SaysLess, Says, Cultural, Flags, Bit
<1>7. SaysLess(AirQuality(s, rec), AirQuality(s, Complete))
  BY <1>3 DEF SaysLess, Says, AirQuality
<1>8. SaysLess(Traffic(s, type, rec), Traffic(s, type, Complete))
  BY <1>3 DEF SaysLess, Says, Traffic
<1>9. SaysLess(Geology(rec), Geology(Complete))
  BY <1>3 DEF SaysLess, Says, Geology
<1>10. SaysLess(Species(rec), Species(Complete))
  BY <1>3 DEF SaysLess, Says, Species, Flags, Bit
<1>11. SaysLess(Hydrology(s, rec), Hydrology(s, Complete))
  BY <1>3 DEF SaysLess, Says, Hydrology, Flags, Bit
<1>12. SaysLess(Ocean(s, rec), Ocean(s, Complete))
  BY <1>3 DEF SaysLess, Says, Ocean, Flags, Bit
<1>13. SaysLess(Climate(type), Climate(type))
  BY DEF SaysLess, Says
<1>14. \A r : DOMAIN SpatialData(s, type, r) = {"land_use", "ecology", "water", "air_quality", "noise",
          "traffic", "geology", "cultural", "species", "hydrology", "ocean", "climate"}
  BY DEF SpatialData
<1>15. \A r : /\ SpatialData(s, type, r).land_use = LandUse(s, type, r)
              /\ SpatialData(s, type, r).ecology = Ecology(s, LandUse(s, type, r), r)
              /\ SpatialData(s, type, r).water = Water(Found(s, r))
              /\ SpatialData(s, type, r).air_quality = AirQuality(s, r)
              /\ SpatialData(s, type, r).noise = Noise(Found(s, r))
              /\ SpatialData(s, type, r).traffic = Traffic(s, type, r)
              /\ SpatialData(s, type, r).geology = Geology(r)
              /\ SpatialData(s, type, r).cultural = Cultural(Found(s, r))
              /\ SpatialData(s, type, r).species = Species(r)
              /\ SpatialData(s, type, r).hydrology = Hydrology(s, r)
              /\ SpatialData(s, type, r).ocean = Ocean(s, r)
              /\ SpatialData(s, type, r).climate = Climate(type)
  BY DEF SpatialData
<1> HIDE DEF some, full
<1>16. /\ SaysLess(some.land_use, full.land_use) /\ SaysLess(some.ecology, full.ecology)
       /\ SaysLess(some.water, full.water) /\ SaysLess(some.air_quality, full.air_quality)
       /\ SaysLess(some.noise, full.noise) /\ SaysLess(some.traffic, full.traffic)
       /\ SaysLess(some.geology, full.geology) /\ SaysLess(some.cultural, full.cultural)
       /\ SaysLess(some.species, full.species) /\ SaysLess(some.hydrology, full.hydrology)
       /\ SaysLess(some.ocean, full.ocean) /\ SaysLess(some.climate, full.climate)
  BY <1>1, <1>2, <1>4, <1>5, <1>6, <1>7, <1>8, <1>9, <1>10, <1>11, <1>12, <1>13, <1>15 DEF some, full
<1>17. DOMAIN some = DOMAIN full
  BY <1>14 DEF some, full
<1>18. \A d \in DOMAIN some : SaysLess(some[d], full[d])
  BY <1>14, <1>16 DEF some
<1> QED BY <1>17, <1>18 DEF some, full

\* The cards of partial data are cards of complete data.
LEMMA CardsHide ==
  ASSUME NEW s, NEW type, NEW rec
  PROVE  ToSet(RiskCards(SpatialData(s, type, rec))) \subseteq ToSet(RiskCards(SpatialData(s, type, Complete)))
<1> DEFINE some == SpatialData(s, type, rec)
           full == SpatialData(s, type, Complete)
<1>1. /\ DOMAIN some = DOMAIN full
      /\ \A d \in DOMAIN some : SaysLess(some[d], full[d])
  BY DataHides
<1> HIDE DEF some, full
<1>2. ASSUME NEW r \in ToSet(Rules), Matches(r, some) PROVE Matches(r, full)
  <2>1. /\ r.domain \in DOMAIN some /\ r.field \in DOMAIN some[r.domain]
        /\ some[r.domain][r.field] # Absent /\ Holds(r.op, some[r.domain][r.field], r.limit)
    BY <1>2 DEF Matches, Resolve
  <2>2. /\ r.domain \in DOMAIN full /\ r.field \in DOMAIN full[r.domain]
        /\ Says(some[r.domain][r.field], full[r.domain][r.field], r.field)
    BY <1>1, <2>1 DEF SaysLess
  <2>3. full[r.domain][r.field] # Absent /\ Holds(r.op, full[r.domain][r.field], r.limit)
    <3>1. CASE some[r.domain][r.field] = full[r.domain][r.field]
      BY <2>1, <3>1
    <3>2. CASE some[r.domain][r.field] # full[r.domain][r.field]
      <4>1. /\ r.field # "zone_types"
            /\ r.field \in Flags \cup {"eco_grade"} => r.op = "eq" /\ r.limit = 1
        BY RuleFilesAssumption
      <4>2. r.field \in Flags \cup {"eco_grade"}
        BY <2>1, <2>2, <3>2, <4>1 DEF Says
      <4>3. some[r.domain][r.field] = 1
        BY <2>1, <4>1, <4>2 DEF Holds
      <4>4. full[r.domain][r.field] = 1
        BY <2>2, <3>2, <4>1, <4>3 DEF Says, Absent
      <4> QED BY <2>1, <4>3, <4>4
    <3> QED BY <3>1, <3>2
  <2> QED BY <2>2, <2>3 DEF Matches, Resolve
<1>3. /\ ToSet(RiskCards(some)) = {r.id : r \in {q \in ToSet(Rules) : Matches(q, some)}}
      /\ ToSet(RiskCards(full)) = {r.id : r \in {q \in ToSet(Rules) : Matches(q, full)}}
  BY RiskCardsAre
<1> QED BY <1>2, <1>3 DEF some, full

\* Without the project type three fields may say less, the others say the same.
SaysUntyped(some, all) ==
    /\ DOMAIN some = DOMAIN all
    /\ \A f \in DOMAIN some :
           some[f] = all[f] \/ (f \in OfTheType /\ (some[f] = Absent \/ (f \in Flags /\ some[f] = 0)))

LEMMA UntypedHides ==
  ASSUME NEW s, NEW type, type \in ProjectTypes, NEW rec
  PROVE  /\ DOMAIN SpatialData(s, "none", rec) = DOMAIN SpatialData(s, type, rec)
         /\ \A d \in DOMAIN SpatialData(s, "none", rec) :
                SaysUntyped(SpatialData(s, "none", rec)[d], SpatialData(s, type, rec)[d])
<1> DEFINE some == SpatialData(s, "none", rec)
           full == SpatialData(s, type, rec)
           land == LandUse(s, "none", rec)
           typed == LandUse(s, type, rec)
<1>1. SaysUntyped(land, typed)
  <2>1. \A l \in {land, typed} : DOMAIN l = {"zone_types", "zone_conflict", "conservation_zone_overlap",
            "greenbelt_overlap", "agricultural_zone_overlap", "river_zone_overlap"}
    BY DEF LandUse
  <2>2. /\ land.zone_types = typed.zone_types
        /\ land.conservation_zone_overlap = typed.conservation_zone_overlap
        /\ land.greenbelt_overlap = typed.greenbelt_overlap
        /\ land.agricultural_zone_overlap = typed.agricultural_zone_overlap
        /\ land.river_zone_overlap = typed.river_zone_overlap
        /\ land.zone_conflict = 0
    BY DEF LandUse, Bit
  <2> HIDE DEF land, typed
  <2> QED BY <2>1, <2>2 DEF SaysUntyped, OfTheType, Flags
<1>2. Ecology(s, land, rec) = Ecology(s, typed, rec)
  <2>1. land.zone_types = typed.zone_types /\ land.conservation_zone_overlap = typed.conservation_zone_overlap
    BY DEF LandUse
  <2> HIDE DEF land, typed
  <2> QED BY <2>1 DEF Ecology
<1>3. SaysUntyped(Traffic(s, "none", rec), Traffic(s, type, rec))
  BY DEF SaysUntyped, Traffic, OfTheType, Assessed
<1>4. SaysUntyped(Climate("none"), Climate(type))
  BY DEF SaysUntyped, Climate, OfTheType, Flags, Bit
<1>5. \A x : SaysUntyped(x, x)
  BY DEF SaysUntyped
<1>6. \A t : DOMAIN SpatialData(s, t, rec) = {"land_use", "ecology", "water", "air_quality", "noise",
          "traffic", "geology", "cultural", "species", "hydrology", "ocean", "climate"}
  BY DEF SpatialData
<1>7. \A t : /\ SpatialData(s, t, rec).land_use = LandUse(s, t, rec)
             /\ SpatialData(s, t, rec).ecology = Ecology(s, LandUse(s, t, rec), rec)
             /\ SpatialData(s, t, rec).water = Water(Found(s, rec))
             /\ SpatialData(s, t, rec).air_quality = AirQuality(s, rec)
             /\ SpatialData(s, t, rec).noise = Noise(Found(s, rec))
             /\ SpatialData(s, t, rec).traffic = Traffic(s, t, rec)
             /\ SpatialData(s, t, rec).geology = Geology(rec)
             /\ SpatialData(s, t, rec).cultural = Cultural(Found(s, rec))
             /\ SpatialData(s, t, rec).species = Species(rec)
             /\ SpatialData(s, t, rec).hydrology = Hydrology(s, rec)
             /\ SpatialData(s, t, rec).ocean = Ocean(s, rec)
             /\ SpatialData(s, t, rec).climate = Climate(t)
  BY DEF SpatialData
<1> HIDE DEF some, full
<1>8. /\ SaysUntyped(some.land_use, full.land_use) /\ SaysUntyped(some.ecology, full.ecology)
      /\ SaysUntyped(some.water, full.water) /\ SaysUntyped(some.air_quality, full.air_quality)
      /\ SaysUntyped(some.noise, full.noise) /\ SaysUntyped(some.traffic, full.traffic)
      /\ SaysUntyped(some.geology, full.geology) /\ SaysUntyped(some.cultural, full.cultural)
      /\ SaysUntyped(some.species, full.species) /\ SaysUntyped(some.hydrology, full.hydrology)
      /\ SaysUntyped(some.ocean, full.ocean) /\ SaysUntyped(some.climate, full.climate)
  BY <1>1, <1>2, <1>3, <1>4, <1>5, <1>7 DEF some, full
<1>9. DOMAIN some = DOMAIN full
  BY <1>6 DEF some, full
<1>10. \A d \in DOMAIN some : SaysUntyped(some[d], full[d])
  BY <1>6, <1>8 DEF some
<1> QED BY <1>9, <1>10 DEF some, full

\* The cards of data collected without the project type are cards of the same data with it,
\* and all but those of the three rules that ask for the type.
LEMMA UntypedCards ==
  ASSUME NEW s, NEW type, type \in ProjectTypes, NEW rec
  PROVE  LET told  == ToSet(RiskCards(SpatialData(s, "none", rec)))
             typed == ToSet(RiskCards(SpatialData(s, type, rec)))
         IN  told \subseteq typed /\ typed \ told \subseteq NeedTheType
<1> DEFINE some == SpatialData(s, "none", rec)
           full == SpatialData(s, type, rec)
<1>1. /\ DOMAIN some = DOMAIN full
      /\ \A d \in DOMAIN some : SaysUntyped(some[d], full[d])
  BY UntypedHides
<1> HIDE DEF some, full
<1>2. ASSUME NEW r \in ToSet(Rules), Matches(r, some) PROVE Matches(r, full)
  <2>1. /\ r.domain \in DOMAIN some /\ r.field \in DOMAIN some[r.domain]
        /\ some[r.domain][r.field] # Absent /\ Holds(r.op, some[r.domain][r.field], r.limit)
    BY <1>2 DEF Matches, Resolve
  <2>2. r.field \in Flags => r.op = "eq" /\ r.limit = 1
    BY RuleFilesAssumption
  <2>3. /\ r.domain \in DOMAIN full /\ r.field \in DOMAIN full[r.domain]
        /\ some[r.domain][r.field] = full[r.domain][r.field]
    BY <1>1, <2>1, <2>2 DEF SaysUntyped, Holds
  <2> QED BY <2>1, <2>3 DEF Matches, Resolve
<1>3. ASSUME NEW r \in ToSet(Rules), Matches(r, full), ~Matches(r, some) PROVE r.id \in NeedTheType
  <2>1. Resolve(full, r) # Resolve(some, r)
    BY <1>3 DEF Matches
  <2>2. r.field \in OfTheType
    BY <1>1, <2>1 DEF Resolve, SaysUntyped
  <2> QED BY <2>2, RuleFilesAssumption
<1>4. /\ ToSet(RiskCards(some)) = {r.id : r \in {q \in ToSet(Rules) : Matches(q, some)}}
      /\ ToSet(RiskCards(full)) = {r.id : r \in {q \in ToSet(Rules) : Matches(q, full)}}
  BY RiskCardsAre
<1>5. ToSet(RiskCards(some)) \subseteq ToSet(RiskCards(full))
  BY <1>2, <1>4
<1>6. ToSet(RiskCards(full)) \ ToSet(RiskCards(some)) \subseteq NeedTheType
  BY <1>3, <1>4
<1> QED BY <1>5, <1>6 DEF some, full

-----------------------------------------------------------------------------
(* The regulations *)

Records == [code: RegulationCodes, permit: BOOLEAN]
Asking == {r \in Records : r.permit}

LEMMA CodesAre == ZoneCodes \subseteq RegulationCodes /\ Protections \subseteq RegulationCodes
BY DEF RegulationCodes

LEMMA AskingIs == Asking \subseteq Records
BY DEF Asking

LEMMA PermitsAre ==
  ASSUME NEW regs \in Seq(Records)
  PROVE  Permits(regs) = Keep(regs, Asking) /\ Permits(regs) \in Seq(Records) /\ Len(Permits(regs)) \in Nat
<1> DEFINE S == {r \in ToSet(regs) : r.permit}
<1>1. ToSet(regs) \subseteq Records
  BY ElementsIn
<1>2. ToSet(regs) \cap S = ToSet(regs) \cap Asking
  BY <1>1 DEF Asking
<1>3. Permits(regs) = Keep(regs, S)
  BY DEF Permits
<1> HIDE DEF S
<1>4. Permits(regs) = Keep(regs, Asking)
  BY <1>2, <1>3, KeepSame
<1>5. Permits(regs) \in Seq(Records)
  BY <1>4, KeepIsSeq
<1> QED BY <1>4, <1>5, LenProperties

LEMMA PermitsConcat ==
  ASSUME NEW s \in Seq(Records), NEW t \in Seq(Records)
  PROVE  /\ s \o t \in Seq(Records)
         /\ Len(Permits(s \o t)) = Len(Permits(s)) + Len(Permits(t))
         /\ \A r : r \in ToSet(s \o t) <=> r \in ToSet(s) \/ r \in ToSet(t)
<1>1. s \o t \in Seq(Records)
  BY ConcatProperties
<1>2. Permits(s \o t) = Permits(s) \o Permits(t)
  <2>1. Permits(s \o t) = Keep(s \o t, Asking) /\ Permits(s) = Keep(s, Asking) /\ Permits(t) = Keep(t, Asking)
    BY <1>1, PermitsAre
  <2>2. Keep(s \o t, Asking) = Keep(s, Asking) \o Keep(t, Asking)
    BY KeepConcat
  <2> QED BY <2>1, <2>2
<1>3. Len(Permits(s) \o Permits(t)) = Len(Permits(s)) + Len(Permits(t))
  BY PermitsAre, ConcatProperties
<1> QED BY <1>1, <1>2, <1>3, ToSetConcat

LEMMA NoRegulation ==
  <<>> \in Seq(Records) /\ Len(Permits(<<>>)) = 0 /\ \A r : r \notin ToSet(<<>>)
<1>1. <<>> \in Seq(Records) /\ Len(<<>>) = 0 /\ ToSet(<<>>) = {}
  BY EmptySeq DEF ToSet
<1>2. Permits(<<>>) = <<>>
  BY <1>1, PermitsAre, KeepEmpty
<1> QED BY <1>1, <1>2

LEMMA OneRegulation ==
  ASSUME NEW r \in Records
  PROVE  /\ <<r>> \in Seq(Records)
         /\ Len(Permits(<<r>>)) = IF r \in Asking THEN 1 ELSE 0
         /\ \A q : q \in ToSet(<<r>>) <=> q = r
<1>1. <<r>> \in Seq(Records) /\ ToSet(<<r>>) = {r} /\ Len(<<r>>) = 1
  BY OneElement
<1>2. Permits(<<r>>) = Keep(<<r>>, Asking)
  BY <1>1, PermitsAre
<1>3. CASE r \in Asking
  <2>1. ToSet(<<r>>) \subseteq Asking
    BY <1>1, <1>3
  <2>2. Keep(<<r>>, Asking) = <<r>>
    BY <1>1, <2>1, KeepAll
  <2> QED BY <1>1, <1>2, <1>3, <2>2
<1>4. CASE r \notin Asking
  <2>1. ToSet(<<r>>) \cap Asking = {}
    BY <1>1, <1>4
  <2>2. Keep(<<r>>, Asking) = <<>>
    BY <1>1, <2>1, KeepNone
  <2> QED BY <1>1, <1>2, <1>4, <2>2, EmptySeq
<1> QED BY <1>1, <1>3, <1>4

Asked(code) == Regulation(code, TRUE)
NotAsked(code) == Regulation(code, FALSE)

LEMMA AskedFor ==
  ASSUME NEW code \in RegulationCodes
  PROVE  /\ Asked(code) \in Asking /\ Asked(code).code = code
         /\ NotAsked(code) \in Records \ Asking /\ NotAsked(code).code = code
<1>1. Asked(code) \in Records
  BY DEF Asked, Regulation, Records
<1>2. Asked(code).permit /\ Asked(code).code = code
  BY DEF Asked, Regulation
<1>3. NotAsked(code) \in Records
  BY DEF NotAsked, Regulation, Records
<1>4. ~NotAsked(code).permit /\ NotAsked(code).code = code
  BY DEF NotAsked, Regulation
<1> QED BY <1>1, <1>2, <1>3, <1>4 DEF Asking

\* The rows of the protections, and how many of them ask for a permit.
LEMMA GradeIs ==
  ASSUME NEW grade, grade \in {Absent, 1, 2, 3}
  PROVE  /\ GradeRegulation(grade) \in Seq(Records)
         /\ Len(Permits(GradeRegulation(grade))) = IF grade \in {1, 2} THEN 1 ELSE 0
         /\ \A r : r \in ToSet(GradeRegulation(grade)) <=>
                      \/ grade = 1 /\ r = Asked("eco_grade_1")
                      \/ grade = 2 /\ r = Asked("eco_grade_2")
                      \/ grade = 3 /\ r = NotAsked("eco_grade_3")
<1> DEFINE x == Asked("eco_grade_1")
           y == Asked("eco_grade_2")
           z == NotAsked("eco_grade_3")
           a == When(grade = 1, x)
           b == When(grade = 2, y)
           c == When(grade = 3, z)
<1>1. x \in Asking /\ y \in Asking /\ z \in Records \ Asking
  BY AskedFor, CodesAre DEF Protections
<1>2. GradeRegulation(grade) = a \o b \o c
  BY DEF GradeRegulation, Asked, NotAsked
<1> HIDE DEF x, y, z
<1>3. /\ a \in Seq(Records) /\ Len(Permits(a)) = IF grade = 1 THEN 1 ELSE 0
      /\ \A r : r \in ToSet(a) <=> grade = 1 /\ r = x
  BY <1>1, AskingIs, NoRegulation, OneRegulation DEF When
<1>4. /\ b \in Seq(Records) /\ Len(Permits(b)) = IF grade = 2 THEN 1 ELSE 0
      /\ \A r : r \in ToSet(b) <=> grade = 2 /\ r = y
  BY <1>1, AskingIs, NoRegulation, OneRegulation DEF When
<1>5. /\ c \in Seq(Records) /\ Len(Permits(c)) = 0
      /\ \A r : r \in ToSet(c) <=> grade = 3 /\ r = z
  BY <1>1, AskingIs, NoRegulation, OneRegulation DEF When
<1> HIDE DEF a, b, c
<1>6. /\ a \o b \in Seq(Records) /\ Len(Permits(a \o b)) = Len(Permits(a)) + Len(Permits(b))
      /\ \A r : r \in ToSet(a \o b) <=> r \in ToSet(a) \/ r \in ToSet(b)
  BY <1>3, <1>4, PermitsConcat
<1>7. /\ a \o b \o c \in Seq(Records) /\ Len(Permits(a \o b \o c)) = Len(Permits(a \o b)) + Len(Permits(c))
      /\ \A r : r \in ToSet(a \o b \o c) <=> r \in ToSet(a \o b) \/ r \in ToSet(c)
  BY <1>5, <1>6, PermitsConcat
<1>8. Len(Permits(a \o b \o c)) = IF grade \in {1, 2} THEN 1 ELSE 0
  BY <1>3, <1>4, <1>5, <1>6, <1>7
<1> QED BY <1>2, <1>3, <1>4, <1>5, <1>6, <1>7, <1>8 DEF x, y, z

LEMMA ConservationIs ==
  ASSUME NEW data, data.ecology.eco_grade \in {Absent, 1, 2, 3}
  PROVE  /\ MatchConservation(data) \in Seq(Records)
         /\ Len(Permits(MatchConservation(data))) =
               (IF data.ecology.eco_grade \in {1, 2} THEN 1 ELSE 0)
               + (IF Within(data.ecology.forest_wetland_distance_m, 500) THEN 1 ELSE 0)
               + (IF data.cultural.heritage_protection_overlap = 1 THEN 1 ELSE 0)
               + (IF Within(data.cultural.buried_heritage_distance_m, 300) THEN 1 ELSE 0)
               + (IF data.land_use.greenbelt_overlap = 1 THEN 1 ELSE 0)
               + (IF data.land_use.agricultural_zone_overlap = 1 THEN 1 ELSE 0)
         /\ \A r : r \in ToSet(MatchConservation(data)) <=>
               \/ data.ecology.eco_grade = 1 /\ r = Asked("eco_grade_1")
               \/ data.ecology.eco_grade = 2 /\ r = Asked("eco_grade_2")
               \/ data.ecology.eco_grade = 3 /\ r = NotAsked("eco_grade_3")
               \/ /\ Within(data.ecology.forest_wetland_distance_m, 500)
                  /\ r = Asked("wetland_protected")
               \/ /\ data.cultural.heritage_protection_overlap = 1
                  /\ r = Asked("cultural_heritage_protection")
               \/ /\ Within(data.cultural.buried_heritage_distance_m, 300)
                  /\ r = Asked("buried_cultural_heritage")
               \/ data.land_use.greenbelt_overlap = 1 /\ r = Asked("greenbelt")
               \/ /\ data.land_use.agricultural_zone_overlap = 1
                  /\ r = Asked("agricultural_promotion")
<1> DEFINE grade == data.ecology.eco_grade
           wet    == Within(data.ecology.forest_wetland_distance_m, 500)
           sight  == data.cultural.heritage_protection_overlap = 1
           buried == Within(data.cultural.buried_heritage_distance_m, 300)
           belt   == data.land_use.greenbelt_overlap = 1
           farm   == data.land_use.agricultural_zone_overlap = 1
           a == GradeRegulation(grade)
           w == Asked("wetland_protected")
           h == Asked("cultural_heritage_protection")
           u == Asked("buried_cultural_heritage")
           g == Asked("greenbelt")
           p == Asked("agricultural_promotion")
           b == When(wet, w)
           c == When(sight, h)
           d == When(buried, u)
           e == When(belt, g)
           f == When(farm, p)
<1>1. w \in Asking /\ h \in Asking /\ u \in Asking /\ g \in Asking /\ p \in Asking
  BY AskedFor, CodesAre DEF Protections
<1>2. MatchConservation(data) = a \o b \o c \o d \o e \o f
  BY DEF MatchConservation, Asked
<1> HIDE DEF w, h, u, g, p
<1>3. /\ a \in Seq(Records) /\ Len(Permits(a)) = IF grade \in {1, 2} THEN 1 ELSE 0
      /\ \A r : r \in ToSet(a) <=>
                      \/ grade = 1 /\ r = Asked("eco_grade_1")
                      \/ grade = 2 /\ r = Asked("eco_grade_2")
                      \/ grade = 3 /\ r = NotAsked("eco_grade_3")
  <2>1. grade \in {Absent, 1, 2, 3}
    OBVIOUS
  <2> HIDE DEF grade
  <2> QED BY <2>1, GradeIs
<1>4. /\ b \in Seq(Records) /\ Len(Permits(b)) = IF wet THEN 1 ELSE 0
      /\ \A r : r \in ToSet(b) <=> wet /\ r = w
  BY <1>1, AskingIs, NoRegulation, OneRegulation DEF When
<1>5. /\ c \in Seq(Records) /\ Len(Permits(c)) = IF sight THEN 1 ELSE 0
      /\ \A r : r \in ToSet(c) <=> sight /\ r = h
  BY <1>1, AskingIs, NoRegulation, OneRegulation DEF When
<1>6. /\ d \in Seq(Records) /\ Len(Permits(d)) = IF buried THEN 1 ELSE 0
      /\ \A r : r \in ToSet(d) <=> buried /\ r = u
  BY <1>1, AskingIs, NoRegulation, OneRegulation DEF When
<1>7. /\ e \in Seq(Records) /\ Len(Permits(e)) = IF belt THEN 1 ELSE 0
      /\ \A r : r \in ToSet(e) <=> belt /\ r = g
  BY <1>1, AskingIs, NoRegulation, OneRegulation DEF When
<1>8. /\ f \in Seq(Records) /\ Len(Permits(f)) = IF farm THEN 1 ELSE 0
      /\ \A r : r \in ToSet(f) <=> farm /\ r = p
  BY <1>1, AskingIs, NoRegulation, OneRegulation DEF When
<1> HIDE DEF a, b, c, d, e, f
<1>9. /\ a \o b \in Seq(Records) /\ Len(Permits(a \o b)) = Len(Permits(a)) + Len(Permits(b))
      /\ \A r : r \in ToSet(a \o b) <=> r \in ToSet(a) \/ r \in ToSet(b)
  BY <1>3, <1>4, PermitsConcat
<1>10. /\ a \o b \o c \in Seq(Records) /\ Len(Permits(a \o b \o c)) = Len(Permits(a \o b)) + Len(Permits(c))
       /\ \A r : r \in ToSet(a \o b \o c) <=> r \in ToSet(a \o b) \/ r \in ToSet(c)
  BY <1>5, <1>9, PermitsConcat
<1>11. /\ a \o b \o c \o d \in Seq(Records)
       /\ Len(Permits(a \o b \o c \o d)) = Len(Permits(a \o b \o c)) + Len(Permits(d))
       /\ \A r : r \in ToSet(a \o b \o c \o d) <=> r \in ToSet(a \o b \o c) \/ r \in ToSet(d)
  BY <1>6, <1>10, PermitsConcat
<1>12. /\ a \o b \o c \o d \o e \in Seq(Records)
       /\ Len(Permits(a \o b \o c \o d \o e)) = Len(Permits(a \o b \o c \o d)) + Len(Permits(e))
       /\ \A r : r \in ToSet(a \o b \o c \o d \o e) <=> r \in ToSet(a \o b \o c \o d) \/ r \in ToSet(e)
  BY <1>7, <1>11, PermitsConcat
<1>13. /\ a \o b \o c \o d \o e \o f \in Seq(Records)
       /\ Len(Permits(a \o b \o c \o d \o e \o f)) = Len(Permits(a \o b \o c \o d \o e)) + Len(Permits(f))
       /\ \A r : r \in ToSet(a \o b \o c \o d \o e \o f) <=> r \in ToSet(a \o b \o c \o d \o e) \/ r \in ToSet(f)
  BY <1>8, <1>12, PermitsConcat
<1>14. \A r : r \in ToSet(a \o b \o c \o d \o e \o f) <=>
          \/ r \in ToSet(a) \/ r \in ToSet(b) \/ r \in ToSet(c) \/ r \in ToSet(d) \/ r \in ToSet(e) \/ r \in ToSet(f)
  BY <1>9, <1>10, <1>11, <1>12, <1>13
<1>15. Len(Permits(a \o b \o c \o d \o e \o f)) =
          Len(Permits(a)) + Len(Permits(b)) + Len(Permits(c)) + Len(Permits(d)) + Len(Permits(e)) + Len(Permits(f))
  BY <1>9, <1>10, <1>11, <1>12, <1>13
<1> HIDE DEF wet, sight, buried, belt, farm, grade
<1>16. ASSUME NEW r
       PROVE  r \in ToSet(MatchConservation(data)) <=>
          \/ grade = 1 /\ r = Asked("eco_grade_1")
          \/ grade = 2 /\ r = Asked("eco_grade_2")
          \/ grade = 3 /\ r = NotAsked("eco_grade_3")
          \/ wet /\ r = w
          \/ sight /\ r = h
          \/ buried /\ r = u
          \/ belt /\ r = g
          \/ farm /\ r = p
  BY <1>2, <1>3, <1>4, <1>5, <1>6, <1>7, <1>8, <1>14, Zenon
<1>17. MatchConservation(data) \in Seq(Records)
  BY <1>2, <1>13
<1>18. Len(Permits(MatchConservation(data))) =
           (IF grade \in {1, 2} THEN 1 ELSE 0) + (IF wet THEN 1 ELSE 0) + (IF sight THEN 1 ELSE 0)
           + (IF buried THEN 1 ELSE 0) + (IF belt THEN 1 ELSE 0) + (IF farm THEN 1 ELSE 0)
  BY <1>2, <1>3, <1>4, <1>5, <1>6, <1>7, <1>8, <1>15
<1> QED BY <1>16, <1>17, <1>18 DEF wet, sight, buried, belt, farm, grade, w, h, u, g, p

-----------------------------------------------------------------------------
(* The regulations of the zones *)

LEMMA CodesOfAre ==
  ASSUME NEW z \in NamedZones
  PROVE  /\ CodesOf(z) \in Seq(ZoneCodes)
         /\ "AGR" \in ToSet(CodesOf(z)) <=> z = "farmForest"
         /\ "ZON-GB" \notin ToSet(CodesOf(z))
<1>0. \A c \in ZoneCodes : <<c>> \in Seq(ZoneCodes) /\ ToSet(<<c>>) = {c}
  BY OneElement
<1>1. CASE z = "residential"
  <2>1. CodesOf(z) = <<"URA-R2-1">> /\ "URA-R2-1" \in ZoneCodes
    BY <1>1 DEF CodesOf, ZoneCodes
  <2>2. CodesOf(z) \in Seq(ZoneCodes) /\ ToSet(CodesOf(z)) = {"URA-R2-1"}
    BY <1>0, <2>1
  <2> QED BY <1>1, <2>2
<1>2. CASE z = "greenery"
  <2>1. CodesOf(z) = <<"URA-G1">> /\ "URA-G1" \in ZoneCodes
    BY <1>2 DEF CodesOf, ZoneCodes
  <2>2. CodesOf(z) \in Seq(ZoneCodes) /\ ToSet(CodesOf(z)) = {"URA-G1"}
    BY <1>0, <2>1
  <2> QED BY <1>2, <2>2
<1>3. CASE z = "farmForest"
  <2>1. CodesOf(z) = <<"AGR">> /\ "AGR" \in ZoneCodes
    BY <1>3 DEF CodesOf, ZoneCodes
  <2>2. CodesOf(z) \in Seq(ZoneCodes) /\ ToSet(CodesOf(z)) = {"AGR"}
    BY <1>0, <2>1
  <2> QED BY <1>3, <2>2
<1>4. CASE z = "natureReserve"
  <2>1. CodesOf(z) = <<"NPA">> /\ "NPA" \in ZoneCodes
    BY <1>4 DEF CodesOf, ZoneCodes
  <2>2. CodesOf(z) \in Seq(ZoneCodes) /\ ToSet(CodesOf(z)) = {"NPA"}
    BY <1>0, <2>1
  <2> QED BY <1>4, <2>2
<1>5. CASE z \in {"planned", "conservationMgmt"}
  <2>1. CodesOf(z) = <<"MGA-P", "MGA-A", "MGA-D">>
    BY <1>5 DEF CodesOf
  <2>2. "MGA-P" \in ZoneCodes /\ "MGA-A" \in ZoneCodes /\ "MGA-D" \in ZoneCodes
    BY DEF ZoneCodes
  <2>3. CodesOf(z) \in Seq(ZoneCodes) /\ ToSet(CodesOf(z)) = {"MGA-P", "MGA-A", "MGA-D"}
    BY <2>1, <2>2, ThreeElements
  <2> QED BY <1>5, <2>3
<1> QED BY <1>1, <1>2, <1>3, <1>4, <1>5 DEF NamedZones

\* The codes a site comes under by its zones.
NamedCodes(land) == UNION {ToSet(CodesOf(z)) : z \in ToSet(land.zone_types)}
CodesUnder(land) ==
    NamedCodes(land)
    \cup (IF land.greenbelt_overlap = 1 THEN {"ZON-GB"} ELSE {})
    \cup (IF land.agricultural_zone_overlap = 1 THEN {"AGR"} ELSE {})

LEMMA NamedCodesAre ==
  ASSUME NEW land, land.zone_types \in Seq(NamedZones)
  PROVE  LET named == [i \in 1..Len(land.zone_types) |-> CodesOf(land.zone_types[i])]
             codes == Distinct(FlattenSeq(named))
         IN  /\ codes \in Seq(ZoneCodes) /\ IsInjective(codes)
             /\ ToSet(codes) = NamedCodes(land)
             /\ "ZON-GB" \notin NamedCodes(land)
             /\ "AGR" \in NamedCodes(land) <=> "farmForest" \in ToSet(land.zone_types)
<1> DEFINE types == land.zone_types
           named == [i \in 1..Len(types) |-> CodesOf(types[i])]
           flat == FlattenSeq(named)
<1>1. /\ Len(types) \in Nat /\ \A i \in 1..Len(types) : types[i] \in NamedZones
      /\ \A z : z \in ToSet(types) <=> \E i \in 1..Len(types) : types[i] = z
  BY LenProperties, ElementsIn
<1>2. named \in [1..Len(types) -> Seq(ZoneCodes)]
  BY <1>1, CodesOfAre
<1>3. named \in Seq(Seq(ZoneCodes)) /\ DOMAIN named = 1..Len(types)
  BY <1>1, <1>2, ListOf
<1>4. flat \in Seq(ZoneCodes)
  BY <1>3, FlattenIsSeq
<1>5. ASSUME NEW c
      PROVE  c \in ToSet(flat) <=> c \in NamedCodes(land)
  <2>1. c \in ToSet(flat) <=> \E i \in DOMAIN named : c \in ToSet(named[i])
    BY <1>3, InFlatten
  <2>2. c \in NamedCodes(land) <=> \E z \in ToSet(types) : c \in ToSet(CodesOf(z))
    BY DEF NamedCodes
  <2>3. \A i \in 1..Len(types) : named[i] = CodesOf(types[i])
    OBVIOUS
  <2> HIDE DEF named, flat
  <2> QED BY <1>1, <1>3, <2>1, <2>2, <2>3
<1>6. "ZON-GB" \notin NamedCodes(land)
  BY <1>1, CodesOfAre DEF NamedCodes
<1>7. "AGR" \in NamedCodes(land) <=> "farmForest" \in ToSet(types)
  BY <1>1, CodesOfAre DEF NamedCodes
<1> HIDE DEF flat
<1> QED BY <1>4, <1>5, <1>6, <1>7, DistinctIs DEF flat

\* An entry of the list for every code the site comes under, each once, and each asks for a permit.
LEMMA ZonesIs ==
  ASSUME NEW land, land.zone_types \in Seq(NamedZones)
  PROVE  /\ MatchZones(land) \in Seq(Records)
         /\ IsFiniteSet(CodesUnder(land))
         /\ Len(Permits(MatchZones(land))) = Cardinality(CodesUnder(land))
         /\ \A r : r \in ToSet(MatchZones(land)) <=> \E c \in CodesUnder(land) : r = Asked(c)
<1> DEFINE named == [i \in 1..Len(land.zone_types) |-> CodesOf(land.zone_types[i])]
           codes == Distinct(FlattenSeq(named))
           farm == (land.agricultural_zone_overlap = 1 /\ "AGR" \notin ToSet(codes))
           a == When(land.greenbelt_overlap = 1, "ZON-GB")
           b == When(farm, "AGR")
           all == codes \o a \o b
           list == [i \in 1..Len(all) |-> Asked(all[i])]
<1>1. /\ codes \in Seq(ZoneCodes) /\ IsInjective(codes) /\ ToSet(codes) = NamedCodes(land)
      /\ "ZON-GB" \notin NamedCodes(land)
  BY NamedCodesAre
<1>2. MatchZones(land) = list
  BY DEF MatchZones, Asked
<1> HIDE DEF codes
<1>3. /\ a \in Seq(ZoneCodes) /\ IsInjective(a)
      /\ ToSet(a) = IF land.greenbelt_overlap = 1 THEN {"ZON-GB"} ELSE {}
  <2>1. <<>> \in Seq(ZoneCodes) /\ IsInjective(<<>>) /\ ToSet(<<>>) = {}
    BY EmptySeq DEF ToSet, IsInjective
  <2>2. "ZON-GB" \in ZoneCodes
    BY DEF ZoneCodes
  <2> QED BY <2>1, <2>2, OneElement DEF When
<1>4. /\ b \in Seq(ZoneCodes) /\ IsInjective(b)
      /\ ToSet(b) = IF farm THEN {"AGR"} ELSE {}
  <2>1. <<>> \in Seq(ZoneCodes) /\ IsInjective(<<>>) /\ ToSet(<<>>) = {}
    BY EmptySeq DEF ToSet, IsInjective
  <2>2. "AGR" \in ZoneCodes
    BY DEF ZoneCodes
  <2> HIDE DEF farm
  <2> QED BY <2>1, <2>2, OneElement DEF When
<1> HIDE DEF a, b
<1>5. /\ codes \o a \in Seq(ZoneCodes) /\ IsInjective(codes \o a)
      /\ ToSet(codes \o a) = ToSet(codes) \cup ToSet(a)
  <2>1. ToSet(codes) \cap ToSet(a) = {}
    BY <1>1, <1>3
  <2> QED BY <1>1, <1>3, <2>1, InjectiveConcat, ToSetConcat, ConcatProperties
<1>6. /\ all \in Seq(ZoneCodes) /\ IsInjective(all)
      /\ ToSet(all) = ToSet(codes) \cup ToSet(a) \cup ToSet(b)
  <2> DEFINE ca == codes \o a
  <2>1. ca \in Seq(ZoneCodes) /\ IsInjective(ca) /\ ToSet(ca) = ToSet(codes) \cup ToSet(a) /\ all = ca \o b
    BY <1>5
  <2> HIDE DEF ca, all
  <2>2. ToSet(ca) \cap ToSet(b) = {}
    BY <1>3, <1>4, <2>1
  <2>3. ca \o b \in Seq(ZoneCodes) /\ IsInjective(ca \o b)
    BY <1>4, <2>1, <2>2, InjectiveConcat, ConcatProperties
  <2>4. ToSet(ca \o b) = ToSet(ca) \cup ToSet(b)
    BY <1>4, <2>1, ToSetConcat
  <2> QED BY <2>1, <2>3, <2>4
<1>7. ToSet(all) = CodesUnder(land)
  BY <1>1, <1>3, <1>4, <1>6 DEF CodesUnder
<1> HIDE DEF all
<1>8. Len(all) \in Nat /\ IsFiniteSet(ToSet(all)) /\ Cardinality(ToSet(all)) = Len(all)
  BY <1>6, LenProperties, InjectiveLen
<1>9. \A i \in 1..Len(all) : all[i] \in RegulationCodes
  BY <1>6, CodesAre
<1>10. list \in [1..Len(all) -> Asking]
  BY <1>9, AskedFor
<1>11. list \in Seq(Asking) /\ Len(list) = Len(all) /\ ToSet(list) = {list[i] : i \in 1..Len(all)}
  <2>1. PICK n \in Nat : n = Len(all)
    BY <1>8
  <2>2. list \in [1..n -> Asking]
    BY <1>10, <2>1
  <2> HIDE DEF list
  <2>3. list \in Seq(Asking) /\ Len(list) = n /\ ToSet(list) = {list[i] : i \in 1..n}
    BY <2>2, ListOf
  <2> QED BY <2>1, <2>3
<1>12. list \in Seq(Records) /\ ToSet(list) \subseteq Asking
  <2>1. list \in [1..Len(all) -> Records]
    BY <1>10, AskingIs
  <2> QED BY <1>8, <1>11, <2>1, ListOf, ElementsIn
<1>13. Permits(list) = list
  BY <1>12, PermitsAre, KeepAll
<1>14. \A r : r \in ToSet(list) <=> \E c \in ToSet(all) : r = Asked(c)
  <2>1. \A c : c \in ToSet(all) <=> \E i \in 1..Len(all) : all[i] = c
    BY <1>6, ElementsIn
  <2>2. \A i \in 1..Len(all) : list[i] = Asked(all[i])
    OBVIOUS
  <2> HIDE DEF list
  <2> QED BY <1>11, <2>1, <2>2
<1> HIDE DEF list
<1> QED BY <1>2, <1>7, <1>8, <1>11, <1>12, <1>13, <1>14

-----------------------------------------------------------------------------
(* Evaluations *)

LEMMA ThresholdIs ==
  ASSUME NEW type \in ProjectTypes
  PROVE  ThresholdOf[type] \in RegulationCodes /\ ThresholdOf[type] \notin ZoneCodes \cup Protections
<1>1. ThresholdOf[type] \in RegulationCodes
  BY DEF RegulationCodes
<1>2. ThresholdOf[type] \in
        {"housing_development", "industrial_complex", "power_plant", "dam", "river_improvement",
         "tourism_complex", "mining", "sports_facility", "waste_facility", "military_facility",
         "logistics_complex", "port", "road", "railway", "airport", "reclamation"}
  BY DEF ThresholdOf, ProjectTypes
<1> QED BY <1>1, <1>2 DEF ZoneCodes, Protections

LEMMA RegulationsAre ==
  ASSUME NEW type \in ProjectTypes, NEW data, data.land_use.zone_types \in Seq(NamedZones),
         data.ecology.eco_grade \in {Absent, 1, 2, 3}
  PROVE  /\ Regulations(type, data) \in Seq(Records)
         /\ IsFiniteSet(CodesUnder(data.land_use))
         /\ Len(Permits(Regulations(type, data))) =
               Cardinality(CodesUnder(data.land_use)) + Len(Permits(MatchConservation(data))) + 1
         /\ \A r : r \in ToSet(Regulations(type, data)) <=>
               \/ \E c \in CodesUnder(data.land_use) : r = Asked(c)
               \/ r \in ToSet(MatchConservation(data))
               \/ r = Asked(ThresholdOf[type])
<1> DEFINE a == MatchZones(data.land_use)
           b == MatchConservation(data)
           r == Asked(ThresholdOf[type])
           c == <<r>>
<1>1. Regulations(type, data) = a \o b \o c
  BY DEF Regulations, MatchThreshold, Asked
<1>2. /\ a \in Seq(Records) /\ Len(Permits(a)) = Cardinality(CodesUnder(data.land_use))
      /\ IsFiniteSet(CodesUnder(data.land_use))
      /\ \A q : q \in ToSet(a) <=> \E x \in CodesUnder(data.land_use) : q = Asked(x)
  BY ZonesIs
<1>3. b \in Seq(Records)
  BY ConservationIs
<1>4. r \in Asking
  BY ThresholdIs, AskedFor
<1> HIDE DEF r
<1>5. c \in Seq(Records) /\ Len(Permits(c)) = 1 /\ \A q : q \in ToSet(c) <=> q = r
  BY <1>4, AskingIs, OneRegulation
<1> HIDE DEF a, b, c
<1>6. /\ a \o b \in Seq(Records) /\ Len(Permits(a \o b)) = Len(Permits(a)) + Len(Permits(b))
      /\ \A q : q \in ToSet(a \o b) <=> q \in ToSet(a) \/ q \in ToSet(b)
  BY <1>2, <1>3, PermitsConcat
<1>7. /\ a \o b \o c \in Seq(Records) /\ Len(Permits(a \o b \o c)) = Len(Permits(a \o b)) + Len(Permits(c))
      /\ \A q : q \in ToSet(a \o b \o c) <=> q \in ToSet(a \o b) \/ q \in ToSet(c)
  BY <1>5, <1>6, PermitsConcat
<1>8. \A q : q \in ToSet(a \o b \o c) <=> q \in ToSet(a) \/ q \in ToSet(b) \/ q = r
  BY <1>5, <1>6, <1>7
<1>9. Len(Permits(a \o b \o c)) = Cardinality(CodesUnder(data.land_use)) + Len(Permits(b)) + 1
  BY <1>2, <1>5, <1>6, <1>7
<1> QED BY <1>1, <1>2, <1>7, <1>8, <1>9, Zenon DEF b, r

\* Each card once, the cards sorted.
WellFormed(ev) == IsEvaluation(ev) /\ IsInjective(ev.cards) /\ BySeverity(ev.cards) = ev.cards

LEMMA DataIs ==
  ASSUME NEW s, NEW type, NEW rec
  PROVE  LET data == SpatialData(s, type, rec) IN
         /\ data.land_use = LandUse(s, type, rec)
         /\ data.ecology = Ecology(s, LandUse(s, type, rec), rec)
         /\ data.cultural = Cultural(Found(s, rec))
         /\ data.land_use.zone_types \in Seq(NamedZones)
         /\ data.land_use.zone_types = ZoneTypes(s, rec)
         /\ data.ecology.eco_grade \in {Absent, 1, 2, 3}
<1>1. /\ SpatialData(s, type, rec).land_use = LandUse(s, type, rec)
      /\ SpatialData(s, type, rec).ecology = Ecology(s, LandUse(s, type, rec), rec)
      /\ SpatialData(s, type, rec).cultural = Cultural(Found(s, rec))
  BY DEF SpatialData
<1>2. LandUse(s, type, rec).zone_types = ZoneTypes(s, rec)
  BY LandUseHides
<1>3. Ecology(s, LandUse(s, type, rec), rec).eco_grade \in {Absent, 1, 2, 3}
  BY EcologyHides
<1> QED BY <1>1, <1>2, <1>3, ZoneTypesAre

LEMMA EvaluationIs ==
  ASSUME NEW s, NEW type, NEW matchType \in ProjectTypes, NEW rec
  PROVE  LET ev == EvaluationOf(s, type, matchType, rec) IN
         /\ WellFormed(ev)
         /\ ev.cards = RiskCards(SpatialData(s, type, rec))
         /\ ev.regs = Regulations(matchType, SpatialData(s, type, rec))
<1> DEFINE data == SpatialData(s, type, rec)
           ev == EvaluationOf(s, type, matchType, rec)
<1>1. ev.cards = RiskCards(data) /\ ev.regs = Regulations(matchType, data)
  BY DEF EvaluationOf, Evaluation
<1>2. data.land_use.zone_types \in Seq(NamedZones) /\ data.ecology.eco_grade \in {Absent, 1, 2, 3}
  BY DataIs
<1> HIDE DEF data, ev
<1>3. Regulations(matchType, data) \in Seq(Records)
  BY <1>2, RegulationsAre
<1>4. /\ RiskCards(data) \in Seq(RuleIds) /\ IsInjective(RiskCards(data))
      /\ BySeverity(RiskCards(data)) = RiskCards(data)
  BY RiskCardsAre
<1> QED BY <1>1, <1>3, <1>4 DEF WellFormed, IsEvaluation, Records, data, ev

LEMMA EmptyIs == WellFormed(Empty) /\ Empty.cards = <<>> /\ Empty.regs = <<>>
<1>1. Empty.cards = <<>> /\ Empty.regs = <<>>
  BY DEF Empty, Evaluation
<1>2. <<>> \in Seq(RuleIds) /\ <<>> \in Seq(Records) /\ IsInjective(<<>>)
  BY EmptySeq DEF IsInjective
<1>3. ToSet(BySeverity(<<>>)) = {} /\ BySeverity(<<>>) \in Seq(RuleIds)
  <2>1. ToSet(<<>>) = {}
    BY EmptySeq DEF ToSet
  <2> QED BY <1>2, <2>1, Sorted
<1>4. BySeverity(<<>>) = <<>>
  <2> DEFINE q == BySeverity(<<>>)
  <2>1. q \in Seq(RuleIds) /\ ToSet(q) = {}
    BY <1>3
  <2> HIDE DEF q
  <2>2. Keep(q, {}) = q /\ Keep(q, {}) = <<>>
    BY <2>1, KeepAll, KeepNone
  <2> QED BY <2>2 DEF q
<1> QED BY <1>1, <1>2, <1>4 DEF WellFormed, IsEvaluation, Records

-----------------------------------------------------------------------------
(* Counts and scores *)

LEMMA CountIs ==
  ASSUME NEW q \in Seq(RuleIds), NEW s \in ToSet(Severities)
  PROVE  /\ Count(q, s) \in Nat
         /\ IsFiniteSet(ToSet(q) \cap Grade[s])
         /\ IsInjective(q) => Count(q, s) = Cardinality(ToSet(q) \cap Grade[s])
<1>1. /\ OfSeverity(q, s) \in Seq(RuleIds)
      /\ ToSet(OfSeverity(q, s)) = ToSet(q) \cap Grade[s]
      /\ IsInjective(q) => IsInjective(OfSeverity(q, s))
  BY OfSeverityIs
<1> QED BY <1>1, InjectiveLen, LenProperties DEF Count

\* Of two evaluations the one with the fewer cards has no higher count of any severity.
LEMMA CountsHide ==
  ASSUME NEW a, NEW b, IsEvaluation(a), IsEvaluation(b), IsInjective(a.cards), IsInjective(b.cards),
         ToSet(a.cards) \subseteq ToSet(b.cards), NEW s \in ToSet(Severities)
  PROVE  Summary(a).of[s] <= Summary(b).of[s]
<1>1. a.cards \in Seq(RuleIds) /\ b.cards \in Seq(RuleIds)
  BY DEF IsEvaluation
<1>2. /\ Count(a.cards, s) = Cardinality(ToSet(a.cards) \cap Grade[s])
      /\ Count(b.cards, s) = Cardinality(ToSet(b.cards) \cap Grade[s])
      /\ IsFiniteSet(ToSet(b.cards) \cap Grade[s])
      /\ Count(a.cards, s) \in Nat /\ Count(b.cards, s) \in Nat
  BY <1>1, CountIs
<1>3. (ToSet(a.cards) \cap Grade[s]) \subseteq (ToSet(b.cards) \cap Grade[s])
  OBVIOUS
<1>4. Cardinality(ToSet(a.cards) \cap Grade[s]) <= Cardinality(ToSet(b.cards) \cap Grade[s])
  BY <1>2, <1>3, FS_Subset
<1>5. Summary(a).of[s] = Count(a.cards, s) /\ Summary(b).of[s] = Count(b.cards, s)
  BY DEF Summary
<1> QED BY <1>2, <1>4, <1>5

\* What is lost of the data loses codes of zones and protections, never brings one.
LEMMA PermitsHide ==
  ASSUME NEW s, NEW type, NEW matchType \in ProjectTypes, NEW rec
  PROVE  Len(Permits(Regulations(matchType, SpatialData(s, type, rec))))
             <= Len(Permits(Regulations(matchType, SpatialData(s, type, Complete))))
<1> DEFINE some == SpatialData(s, type, rec)
           all == SpatialData(s, type, Complete)
           land == LandUse(s, type, rec)
           whole == LandUse(s, type, Complete)
<1>1. /\ some.land_use = land /\ all.land_use = whole
      /\ some.ecology = Ecology(s, land, rec) /\ all.ecology = Ecology(s, whole, Complete)
      /\ some.cultural = Cultural(Found(s, rec)) /\ all.cultural = Cultural(Found(s, Complete))
      /\ land.zone_types \in Seq(NamedZones) /\ land.zone_types = ZoneTypes(s, rec)
      /\ whole.zone_types \in Seq(NamedZones) /\ whole.zone_types = ZoneTypes(s, Complete)
      /\ some.ecology.eco_grade \in {Absent, 1, 2, 3} /\ all.ecology.eco_grade \in {Absent, 1, 2, 3}
  BY DataIs
<1> HIDE DEF some, all, land, whole
<1>2. CodesUnder(land) \subseteq CodesUnder(whole)
  <2>1. ToSet(land.zone_types) \subseteq ToSet(whole.zone_types)
    BY <1>1, FoundMore
  <2>2. NamedCodes(land) \subseteq NamedCodes(whole)
    BY <2>1 DEF NamedCodes
  <2>3. /\ land.greenbelt_overlap = 1 => whole.greenbelt_overlap = 1
        /\ land.agricultural_zone_overlap = 1 => whole.agricultural_zone_overlap = 1
    BY LandUseHides DEF Lost, land, whole
  <2> QED BY <2>2, <2>3 DEF CodesUnder
<1>3. /\ IsFiniteSet(CodesUnder(land)) /\ IsFiniteSet(CodesUnder(whole))
      /\ Cardinality(CodesUnder(land)) <= Cardinality(CodesUnder(whole))
      /\ Cardinality(CodesUnder(land)) \in Nat /\ Cardinality(CodesUnder(whole)) \in Nat
  <2>1. IsFiniteSet(CodesUnder(land)) /\ IsFiniteSet(CodesUnder(whole))
    BY <1>1, ZonesIs
  <2> QED BY <1>2, <2>1, FS_Subset, FS_CardinalityType
<1>4. /\ some.ecology.eco_grade \in {1, 2} => all.ecology.eco_grade \in {1, 2}
      /\ Within(some.ecology.forest_wetland_distance_m, 500)
            => Within(all.ecology.forest_wetland_distance_m, 500)
      /\ some.land_use.greenbelt_overlap = 1 => all.land_use.greenbelt_overlap = 1
      /\ some.land_use.agricultural_zone_overlap = 1 => all.land_use.agricultural_zone_overlap = 1
  <2>1. /\ some.ecology.eco_grade \in {1, 2} => all.ecology.eco_grade \in {1, 2}
        /\ some.ecology.forest_wetland_distance_m \in {0, Absent}
        /\ some.ecology.forest_wetland_distance_m = 0 => all.ecology.forest_wetland_distance_m = 0
    BY <1>1, EcologyHides DEF land, whole
  <2>2. /\ some.land_use.greenbelt_overlap = 1 => all.land_use.greenbelt_overlap = 1
        /\ some.land_use.agricultural_zone_overlap = 1 => all.land_use.agricultural_zone_overlap = 1
    BY <1>1, LandUseHides DEF Lost, land, whole
  <2> QED BY <2>1, <2>2 DEF Within, Absent
<1>5. /\ some.cultural.heritage_protection_overlap = 1 => all.cultural.heritage_protection_overlap = 1
      /\ Within(some.cultural.buried_heritage_distance_m, 300)
            => Within(all.cultural.buried_heritage_distance_m, 300)
  <2>1. Found(s, rec) \subseteq Found(s, Complete)
    BY FoundMore
  <2> QED BY <1>1, <2>1 DEF Cultural, Bit, Within, Absent
<1> DEFINE P(data) == (IF data.ecology.eco_grade \in {1, 2} THEN 1 ELSE 0)
               + (IF Within(data.ecology.forest_wetland_distance_m, 500) THEN 1 ELSE 0)
               + (IF data.cultural.heritage_protection_overlap = 1 THEN 1 ELSE 0)
               + (IF Within(data.cultural.buried_heritage_distance_m, 300) THEN 1 ELSE 0)
               + (IF data.land_use.greenbelt_overlap = 1 THEN 1 ELSE 0)
               + (IF data.land_use.agricultural_zone_overlap = 1 THEN 1 ELSE 0)
<1>6. P(some) <= P(all) /\ P(some) \in Nat /\ P(all) \in Nat
  BY <1>4, <1>5
<1>7. Len(Permits(MatchConservation(some))) = P(some) /\ Len(Permits(MatchConservation(all))) = P(all)
  <2>1. ASSUME NEW data, data.ecology.eco_grade \in {Absent, 1, 2, 3}
        PROVE  Len(Permits(MatchConservation(data))) = P(data)
    BY <2>1, ConservationIs
  <2> HIDE DEF P
  <2> QED BY <1>1, <2>1
<1> HIDE DEF P
<1>8. /\ Len(Permits(Regulations(matchType, some))) =
            Cardinality(CodesUnder(land)) + Len(Permits(MatchConservation(some))) + 1
      /\ Len(Permits(Regulations(matchType, all))) =
            Cardinality(CodesUnder(whole)) + Len(Permits(MatchConservation(all))) + 1
  BY <1>1, RegulationsAre
<1> QED BY <1>3, <1>6, <1>7, <1>8 DEF some, all

-----------------------------------------------------------------------------
(* Cards and regulations of the same data *)

LEMMA OneRule ==
  ASSUME NEW id, NEW domain, NEW field, Asks(id, domain, field), NEW data
  PROVE  \E r \in ToSet(Rules) :
            /\ r.id = id /\ r.domain = domain /\ r.field = field
            /\ id \in ToSet(RiskCards(data)) <=> Matches(r, data)
<1>1. PICK r \in ToSet(Rules) : r.id = id /\ r.domain = domain /\ r.field = field
  BY DEF Asks
<1>2. ASSUME NEW q \in ToSet(Rules), q.id = id
      PROVE  q = r
  <2>1. PICK i \in 1..Len(Rules) : Rules[i] = q
    BY RulesAssumption, ElementsIn
  <2>2. PICK j \in 1..Len(Rules) : Rules[j] = r
    BY RulesAssumption, ElementsIn
  <2> QED BY <1>1, <1>2, <2>1, <2>2, RulesAssumption
<1>3. id \in ToSet(RiskCards(data)) <=> \E q \in ToSet(Rules) : Matches(q, data) /\ q.id = id
  <2>1. ToSet(RiskCards(data)) = {q.id : q \in {p \in ToSet(Rules) : Matches(p, data)}}
    BY RiskCardsAre
  <2> QED BY <2>1
<1> QED BY <1>1, <1>2, <1>3

\* A rule that asks for a flag, or for the grade, gives its card when it is 1.
LEMMA CardOfFlag ==
  ASSUME NEW id, NEW domain, NEW field, Asks(id, domain, field), field \in Flags \cup {"eco_grade"},
         NEW data, domain \in DOMAIN data, field \in DOMAIN data[domain]
  PROVE  id \in ToSet(RiskCards(data)) <=> data[domain][field] = 1
<1>1. PICK r \in ToSet(Rules) :
         /\ r.id = id /\ r.domain = domain /\ r.field = field
         /\ id \in ToSet(RiskCards(data)) <=> Matches(r, data)
  BY OneRule
<1>2. r.op = "eq" /\ r.limit = 1
  BY <1>1, RuleFilesAssumption
<1>3. Resolve(data, r) = data[domain][field]
  BY <1>1 DEF Resolve
<1>4. Matches(r, data) <=> data[domain][field] # Absent /\ data[domain][field] = 1
  BY <1>2, <1>3 DEF Matches, Holds
<1> QED BY <1>1, <1>4 DEF Absent

LEMMA CardOfDistance ==
  ASSUME NEW id, NEW domain, Asks(id, domain, "forest_wetland_distance_m"),
         NEW data, domain \in DOMAIN data, "forest_wetland_distance_m" \in DOMAIN data[domain],
         data[domain]["forest_wetland_distance_m"] \in {0, Absent}
  PROVE  id \in ToSet(RiskCards(data)) <=> data[domain]["forest_wetland_distance_m"] = 0
<1> DEFINE value == data[domain]["forest_wetland_distance_m"]
<1>1. PICK r \in ToSet(Rules) :
         /\ r.id = id /\ r.domain = domain /\ r.field = "forest_wetland_distance_m"
         /\ id \in ToSet(RiskCards(data)) <=> Matches(r, data)
  BY OneRule
<1>2. r.op = "within" /\ r.limit >= 0
  BY <1>1, RuleFilesAssumption
<1>3. Resolve(data, r) = value
  BY <1>1 DEF Resolve
<1>4. r.limit \in Int
  <2>1. r \in Rule
    BY RulesAssumption, ElementsIn
  <2> QED BY <2>1 DEF Rule
<1>5. Matches(r, data) <=> value # Absent /\ value <= r.limit
  BY <1>2, <1>3 DEF Matches, Holds
<1> QED BY <1>1, <1>2, <1>4, <1>5 DEF Absent

LEMMA HasIs ==
  ASSUME NEW ev, ev.regs \in Seq(Records), NEW code
  PROVE  HasRegulation(ev, code) <=> \E r \in ToSet(ev.regs) : r.code = code
BY ElementsIn DEF HasRegulation

\* The codes of the regulations of an evaluation.
LEMMA CodesOfEvaluation ==
  ASSUME NEW s, NEW type, NEW matchType \in ProjectTypes, NEW rec
  PROVE  LET data == SpatialData(s, type, rec)
             ev   == EvaluationOf(s, type, matchType, rec)
         IN  /\ HasRegulation(ev, "greenbelt") <=> data.land_use.greenbelt_overlap = 1
             /\ HasRegulation(ev, "ZON-GB") <=> data.land_use.greenbelt_overlap = 1
             /\ HasRegulation(ev, "agricultural_promotion") <=> data.land_use.agricultural_zone_overlap = 1
             /\ HasRegulation(ev, "AGR") <=> data.land_use.agricultural_zone_overlap = 1
             /\ HasRegulation(ev, "eco_grade_1") <=> data.ecology.eco_grade = 1
             /\ HasRegulation(ev, "eco_grade_3") <=> data.ecology.eco_grade = 3
             /\ HasRegulation(ev, "wetland_protected") <=> data.ecology.forest_wetland_distance_m = 0
             /\ HasRegulation(ev, "cultural_heritage_protection")
                    <=> data.cultural.heritage_protection_overlap = 1
<1> DEFINE data == SpatialData(s, type, rec)
           ev == EvaluationOf(s, type, matchType, rec)
           land == data.land_use
           cons == MatchConservation(data)
           last == ThresholdOf[matchType]
<1>1. /\ land = LandUse(s, type, rec) /\ data.ecology = Ecology(s, LandUse(s, type, rec), rec)
      /\ land.zone_types \in Seq(NamedZones) /\ land.zone_types = ZoneTypes(s, rec)
      /\ data.ecology.eco_grade \in {Absent, 1, 2, 3}
  BY DataIs
<1>2. ev.regs = Regulations(matchType, data) /\ ev.regs \in Seq(Records)
  BY EvaluationIs DEF WellFormed, IsEvaluation, Records
<1>3. /\ data.ecology.forest_wetland_distance_m \in {0, Absent}
      /\ "farmForest" \in ToSet(land.zone_types) => land.agricultural_zone_overlap = 1
  <2>1. data.ecology.forest_wetland_distance_m \in {0, Absent}
    BY <1>1, EcologyHides
  <2>2. "farmForest" \in ToSet(land.zone_types) => "UQ113" \in Found(s, rec)
    BY <1>1, ZoneTypesAre DEF ZoneRows
  <2>3. land.agricultural_zone_overlap = 1 <=> "UQ113" \in Found(s, rec)
    BY <1>1, LandUseHides
  <2> QED BY <2>1, <2>2, <2>3
<1> HIDE DEF data, ev, land
<1>4. \A code : HasRegulation(ev, code) <=> \E r \in ToSet(ev.regs) : r.code = code
  BY <1>2, HasIs
<1>5. \A r : r \in ToSet(ev.regs) <=>
                \/ \E c \in CodesUnder(land) : r = Asked(c)
                \/ r \in ToSet(cons)
                \/ r = Asked(last)
  BY <1>1, <1>2, RegulationsAre DEF land
<1>6. last \in RegulationCodes /\ last \notin ZoneCodes \cup Protections
  BY ThresholdIs
<1>7. /\ CodesUnder(land) \subseteq ZoneCodes
      /\ "ZON-GB" \in CodesUnder(land) <=> land.greenbelt_overlap = 1
      /\ "AGR" \in CodesUnder(land) <=> land.agricultural_zone_overlap = 1
  <2>1. /\ NamedCodes(land) \subseteq ZoneCodes /\ "ZON-GB" \notin NamedCodes(land)
        /\ "AGR" \in NamedCodes(land) <=> "farmForest" \in ToSet(land.zone_types)
    <3> DEFINE codes == Distinct(FlattenSeq([i \in 1..Len(land.zone_types) |-> CodesOf(land.zone_types[i])]))
    <3>1. /\ codes \in Seq(ZoneCodes) /\ ToSet(codes) = NamedCodes(land)
          /\ "ZON-GB" \notin NamedCodes(land)
          /\ "AGR" \in NamedCodes(land) <=> "farmForest" \in ToSet(land.zone_types)
      BY <1>1, NamedCodesAre
    <3> HIDE DEF codes
    <3> QED BY <3>1, ElementsIn
  <2>2. "ZON-GB" \in ZoneCodes /\ "AGR" \in ZoneCodes
    BY DEF ZoneCodes
  <2> QED BY <1>3, <2>1, <2>2 DEF CodesUnder
<1>8. \A c \in RegulationCodes : Asked(c).code = c
  BY AskedFor
<1>9. ASSUME NEW r \in ToSet(cons)
      PROVE  /\ r.code \in Protections
             /\ r.code = "eco_grade_1" => data.ecology.eco_grade = 1
             /\ r.code = "eco_grade_3" => data.ecology.eco_grade = 3
             /\ r.code = "wetland_protected" => Within(data.ecology.forest_wetland_distance_m, 500)
             /\ r.code = "cultural_heritage_protection" => data.cultural.heritage_protection_overlap = 1
             /\ r.code = "greenbelt" => land.greenbelt_overlap = 1
             /\ r.code = "agricultural_promotion" => land.agricultural_zone_overlap = 1
  <2>1. \/ data.ecology.eco_grade = 1 /\ r = Asked("eco_grade_1")
        \/ data.ecology.eco_grade = 2 /\ r = Asked("eco_grade_2")
        \/ data.ecology.eco_grade = 3 /\ r = NotAsked("eco_grade_3")
        \/ /\ Within(data.ecology.forest_wetland_distance_m, 500)
           /\ r = Asked("wetland_protected")
        \/ /\ data.cultural.heritage_protection_overlap = 1
           /\ r = Asked("cultural_heritage_protection")
        \/ r = Asked("buried_cultural_heritage")
        \/ land.greenbelt_overlap = 1 /\ r = Asked("greenbelt")
        \/ land.agricultural_zone_overlap = 1 /\ r = Asked("agricultural_promotion")
    BY <1>1, <1>9, ConservationIs DEF land
  <2>2. /\ Asked("eco_grade_1").code = "eco_grade_1" /\ NotAsked("eco_grade_3").code = "eco_grade_3"
        /\ Asked("eco_grade_2").code = "eco_grade_2"
        /\ Asked("wetland_protected").code = "wetland_protected" /\ Asked("greenbelt").code = "greenbelt"
        /\ Asked("cultural_heritage_protection").code = "cultural_heritage_protection"
        /\ Asked("buried_cultural_heritage").code = "buried_cultural_heritage"
        /\ Asked("agricultural_promotion").code = "agricultural_promotion"
    BY AskedFor, CodesAre DEF Protections
  <2> QED BY <2>1, <2>2 DEF Protections
<1>10. /\ data.ecology.eco_grade = 1 => Asked("eco_grade_1") \in ToSet(cons)
       /\ data.ecology.eco_grade = 3 => NotAsked("eco_grade_3") \in ToSet(cons)
       /\ Within(data.ecology.forest_wetland_distance_m, 500) => Asked("wetland_protected") \in ToSet(cons)
       /\ data.cultural.heritage_protection_overlap = 1 => Asked("cultural_heritage_protection") \in ToSet(cons)
       /\ land.greenbelt_overlap = 1 => Asked("greenbelt") \in ToSet(cons)
       /\ land.agricultural_zone_overlap = 1 => Asked("agricultural_promotion") \in ToSet(cons)
  BY <1>1, ConservationIs DEF land
<1>11. Within(data.ecology.forest_wetland_distance_m, 500) <=> data.ecology.forest_wetland_distance_m = 0
  BY <1>3 DEF Within, Absent
<1> HIDE DEF cons, last
<1>12. ASSUME NEW code \in Protections
       PROVE  HasRegulation(ev, code) <=> \E r \in ToSet(cons) : r.code = code
  <2>1. code \notin ZoneCodes
    BY DEF ZoneCodes, Protections
  <2>2. ASSUME NEW c \in CodesUnder(land) PROVE Asked(c).code # code
    BY <1>7, <1>8, <2>1, CodesAre
  <2>3. Asked(last).code # code
    BY <1>6, <1>8
  <2> QED BY <1>4, <1>5, <2>2, <2>3
<1>13. ASSUME NEW code \in ZoneCodes
       PROVE  HasRegulation(ev, code) <=> code \in CodesUnder(land)
  <2>1. code \notin Protections
    BY DEF ZoneCodes, Protections
  <2>2. \A c \in CodesUnder(land) : Asked(c).code = c
    BY <1>7, <1>8, CodesAre
  <2>3. Asked(last).code # code
    BY <1>6, <1>8
  <2> QED BY <1>4, <1>5, <1>9, <2>1, <2>2, <2>3
<1>14. /\ Asked("eco_grade_1").code = "eco_grade_1" /\ NotAsked("eco_grade_3").code = "eco_grade_3"
       /\ Asked("wetland_protected").code = "wetland_protected" /\ Asked("greenbelt").code = "greenbelt"
       /\ Asked("cultural_heritage_protection").code = "cultural_heritage_protection"
       /\ Asked("agricultural_promotion").code = "agricultural_promotion"
  BY AskedFor, CodesAre DEF Protections
<1>15. /\ HasRegulation(ev, "ZON-GB") <=> land.greenbelt_overlap = 1
       /\ HasRegulation(ev, "AGR") <=> land.agricultural_zone_overlap = 1
  BY <1>7, <1>13 DEF ZoneCodes
<1>16. /\ HasRegulation(ev, "greenbelt") <=> land.greenbelt_overlap = 1
       /\ HasRegulation(ev, "agricultural_promotion") <=> land.agricultural_zone_overlap = 1
       /\ HasRegulation(ev, "eco_grade_1") <=> data.ecology.eco_grade = 1
  BY <1>9, <1>10, <1>12, <1>14 DEF Protections
<1>17. /\ HasRegulation(ev, "eco_grade_3") <=> data.ecology.eco_grade = 3
       /\ HasRegulation(ev, "wetland_protected") <=> data.ecology.forest_wetland_distance_m = 0
       /\ HasRegulation(ev, "cultural_heritage_protection") <=> data.cultural.heritage_protection_overlap = 1
  BY <1>9, <1>10, <1>11, <1>12, <1>14 DEF Protections
<1> QED BY <1>15, <1>16, <1>17 DEF data, ev, land

\* The data has the fields that the rules and the matcher both read.
LEMMA FieldsAre ==
  ASSUME NEW s, NEW type, NEW rec
  PROVE  LET data == SpatialData(s, type, rec) IN
         /\ {"land_use", "ecology", "cultural"} \subseteq DOMAIN data
         /\ {"zone_conflict", "greenbelt_overlap", "agricultural_zone_overlap"} \subseteq DOMAIN data.land_use
         /\ {"eco_grade", "forest_wetland_distance_m", "eco_landscape_conservation_overlap"}
                \subseteq DOMAIN data.ecology
         /\ "heritage_protection_overlap" \in DOMAIN data.cultural
<1>1. {"land_use", "ecology", "cultural"} \subseteq DOMAIN SpatialData(s, type, rec)
  BY DEF SpatialData
<1>2. {"zone_conflict", "greenbelt_overlap", "agricultural_zone_overlap"} \subseteq DOMAIN LandUse(s, type, rec)
  BY DEF LandUse
<1>3. \A land : {"eco_grade", "forest_wetland_distance_m", "eco_landscape_conservation_overlap"}
                    \subseteq DOMAIN Ecology(s, land, rec)
  BY DEF Ecology
<1>4. "heritage_protection_overlap" \in DOMAIN Cultural(Found(s, rec))
  BY DEF Cultural
<1> QED BY <1>1, <1>2, <1>3, <1>4, DataIs

\* What the one calls a risk the other has a regulation for.
LEMMA Agreed ==
  ASSUME NEW s, NEW type \in ProjectTypes, NEW rec
  PROVE  LET ev == EvaluationOf(s, type, type, rec) IN
         /\ HasCard(ev, "LAND-003") <=> HasRegulation(ev, "greenbelt") /\ HasRegulation(ev, "ZON-GB")
         /\ HasCard(ev, "LAND-005") <=> HasRegulation(ev, "agricultural_promotion") /\ HasRegulation(ev, "AGR")
         /\ HasCard(ev, "ECO-001") <=> HasRegulation(ev, "eco_grade_1")
         /\ HasCard(ev, "ECO-003") <=> HasRegulation(ev, "wetland_protected")
         /\ HasCard(ev, "CUL-001") <=> HasRegulation(ev, "cultural_heritage_protection")
         /\ HasCard(ev, "ECO-006") => ~HasRegulation(ev, "eco_grade_3")
         /\ HasCard(ev, "LAND-001") => HasCard(ev, "ECO-001") \/ HasRegulation(ev, "AGR")
<1> DEFINE data == SpatialData(s, type, rec)
           ev == EvaluationOf(s, type, type, rec)
<1>1. /\ data.land_use = LandUse(s, type, rec) /\ data.ecology = Ecology(s, LandUse(s, type, rec), rec)
      /\ data.ecology.eco_grade \in {Absent, 1, 2, 3}
  BY DataIs
<1>2. /\ data.ecology.forest_wetland_distance_m \in {0, Absent}
      /\ data.ecology.eco_landscape_conservation_overlap = 1 => data.ecology.eco_grade \in {1, 2}
      /\ data.land_use.conservation_zone_overlap = 1 => data.ecology.eco_grade = 1
  BY <1>1, EcologyHides
<1>3. data.land_use.zone_conflict = 1 =>
         data.land_use.conservation_zone_overlap = 1 \/ data.land_use.agricultural_zone_overlap = 1
  BY <1>1, LandUseHides
<1>4. /\ {"land_use", "ecology", "cultural"} \subseteq DOMAIN data
      /\ {"zone_conflict", "greenbelt_overlap", "agricultural_zone_overlap"} \subseteq DOMAIN data.land_use
      /\ {"eco_grade", "forest_wetland_distance_m", "eco_landscape_conservation_overlap"}
             \subseteq DOMAIN data.ecology
      /\ "heritage_protection_overlap" \in DOMAIN data.cultural
  BY FieldsAre
<1>5. \A id : HasCard(ev, id) <=> id \in ToSet(RiskCards(data))
  BY EvaluationIs DEF HasCard
<1>6. /\ HasRegulation(ev, "greenbelt") <=> data.land_use.greenbelt_overlap = 1
      /\ HasRegulation(ev, "ZON-GB") <=> data.land_use.greenbelt_overlap = 1
      /\ HasRegulation(ev, "agricultural_promotion") <=> data.land_use.agricultural_zone_overlap = 1
      /\ HasRegulation(ev, "AGR") <=> data.land_use.agricultural_zone_overlap = 1
      /\ HasRegulation(ev, "eco_grade_1") <=> data.ecology.eco_grade = 1
      /\ HasRegulation(ev, "eco_grade_3") <=> data.ecology.eco_grade = 3
      /\ HasRegulation(ev, "wetland_protected") <=> data.ecology.forest_wetland_distance_m = 0
      /\ HasRegulation(ev, "cultural_heritage_protection")
             <=> data.cultural.heritage_protection_overlap = 1
  BY CodesOfEvaluation
<1> HIDE DEF data, ev
<1>7. /\ HasCard(ev, "LAND-003") <=> data.land_use.greenbelt_overlap = 1
      /\ HasCard(ev, "LAND-005") <=> data.land_use.agricultural_zone_overlap = 1
      /\ HasCard(ev, "LAND-001") <=> data.land_use.zone_conflict = 1
      /\ HasCard(ev, "ECO-001") <=> data.ecology.eco_grade = 1
      /\ HasCard(ev, "ECO-006") <=> data.ecology.eco_landscape_conservation_overlap = 1
      /\ HasCard(ev, "CUL-001") <=> data.cultural.heritage_protection_overlap = 1
      /\ HasCard(ev, "ECO-003") <=> data.ecology.forest_wetland_distance_m = 0
  <2>1. ASSUME NEW id, NEW domain, NEW field, Asks(id, domain, field), field \in Flags \cup {"eco_grade"},
               domain \in DOMAIN data, field \in DOMAIN data[domain]
        PROVE  HasCard(ev, id) <=> data[domain][field] = 1
    BY <1>5, <2>1, CardOfFlag
  <2>2. /\ Asks("LAND-001", "land_use", "zone_conflict")
        /\ Asks("LAND-003", "land_use", "greenbelt_overlap")
        /\ Asks("LAND-005", "land_use", "agricultural_zone_overlap")
        /\ Asks("ECO-001", "ecology", "eco_grade")
        /\ Asks("ECO-003", "ecology", "forest_wetland_distance_m")
        /\ Asks("ECO-006", "ecology", "eco_landscape_conservation_overlap")
        /\ Asks("CUL-001", "cultural", "heritage_protection_overlap")
    BY RuleFilesAssumption
  <2>3. {"zone_conflict", "greenbelt_overlap", "agricultural_zone_overlap", "heritage_protection_overlap",
         "eco_landscape_conservation_overlap"} \subseteq Flags
    BY DEF Flags
  <2>4. HasCard(ev, "ECO-003") <=> data.ecology.forest_wetland_distance_m = 0
    BY <1>2, <1>4, <1>5, <2>2, CardOfDistance
  <2>5. /\ HasCard(ev, "LAND-003") <=> data["land_use"]["greenbelt_overlap"] = 1
        /\ HasCard(ev, "LAND-005") <=> data["land_use"]["agricultural_zone_overlap"] = 1
        /\ HasCard(ev, "LAND-001") <=> data["land_use"]["zone_conflict"] = 1
    BY <1>4, <2>1, <2>2, <2>3
  <2>6. /\ HasCard(ev, "ECO-001") <=> data["ecology"]["eco_grade"] = 1
        /\ HasCard(ev, "ECO-006") <=> data["ecology"]["eco_landscape_conservation_overlap"] = 1
        /\ HasCard(ev, "CUL-001") <=> data["cultural"]["heritage_protection_overlap"] = 1
    BY <1>4, <2>1, <2>2, <2>3
  <2> QED BY <2>4, <2>5, <2>6
<1> QED BY <1>1, <1>2, <1>3, <1>6, <1>7 DEF Absent, ev

\* An evaluation of partial data against one of all the data.
LEMMA Hidden ==
  ASSUME NEW s, NEW type, NEW matchType \in ProjectTypes, NEW rec
  PROVE  LET some  == EvaluationOf(s, type, matchType, rec)
             whole == EvaluationOf(s, type, matchType, Complete)
         IN  /\ ToSet(some.cards) \subseteq ToSet(whole.cards)
             /\ Len(Permits(some.regs)) <= Len(Permits(whole.regs))
             /\ \A t \in ToSet(Severities) : Summary(some).of[t] <= Summary(whole).of[t]
<1> DEFINE some == EvaluationOf(s, type, matchType, rec)
           whole == EvaluationOf(s, type, matchType, Complete)
<1>1. /\ WellFormed(some) /\ some.cards = RiskCards(SpatialData(s, type, rec))
      /\ some.regs = Regulations(matchType, SpatialData(s, type, rec))
      /\ WellFormed(whole) /\ whole.cards = RiskCards(SpatialData(s, type, Complete))
      /\ whole.regs = Regulations(matchType, SpatialData(s, type, Complete))
  BY EvaluationIs
<1> HIDE DEF some, whole
<1>2. ToSet(some.cards) \subseteq ToSet(whole.cards)
  BY <1>1, CardsHide
<1>3. Len(Permits(some.regs)) <= Len(Permits(whole.regs))
  BY <1>1, PermitsHide
<1>4. \A t \in ToSet(Severities) : Summary(some).of[t] <= Summary(whole).of[t]
  BY <1>1, <1>2, CountsHide DEF WellFormed
<1> QED BY <1>2, <1>3, <1>4 DEF some, whole

-----------------------------------------------------------------------------
(* The inductive invariant: the record is as it was created or has one     *)
(* evaluation of its site, and a reply is the document of the record or of *)
(* data collected for it.                                                  *)

Recorded ==
    /\ site \in Sites
    /\ \/ stored = [done |-> FALSE, ev |-> Empty]
       \/ \E rec \in Receptions : stored = [done |-> TRUE, ev |-> Evaluated[site][rec]]

Kinds == {"none", "error", "evaluation", "regulations", "checklist", "draft",
          "section", "opinions", "quality", "brief", "full", "printed"}

Answered ==
    /\ reply.kind \in Kinds
    /\ reply.kind = "checklist" =>
          /\ reply.rec \in Receptions /\ reply.list = Checklist(reply.ev)
          /\ reply.ev = IF UsesRecord THEN stored.ev ELSE Evaluated[site][reply.rec]
    /\ reply.kind = "draft" =>
          /\ reply.rec \in Receptions /\ reply.type \in ProjectTypes
          /\ reply.ev = Basis(reply.rec, reply.type)
          /\ reply.draft = Draft(reply.type, reply.ev) /\ reply.emphasis = Emphasis(reply.type)
    /\ reply.kind = "section" =>
          /\ \E rec \in Receptions : reply.ev = Basis(rec, reply.type)
          /\ reply.section.by # "rules" => reply.section.text = Prompt(reply.type, reply.ev)
    /\ reply.kind = "opinions" =>
          \E rec \in Receptions : reply.opinions = Opinions(site.type, Basis(rec, site.type).cards)
    /\ reply.kind = "quality" =>
          \E rec \in Receptions :
             reply.quality = Quality(Draft(site.type, Basis(rec, site.type)), Basis(rec, site.type).cards)

IInv == Recorded /\ Answered

LEMMA OtherKinds ==
  ASSUME NEW kind,
         kind \in Kinds \ {"checklist", "draft", "section", "opinions", "quality"},
         reply'.kind = kind
  PROVE  Answered'
BY DEF Answered

LEMMA Unchanged ==
  ASSUME site' = site, stored' = stored
  PROVE  /\ Recorded => Recorded'
         /\ UsesRecord' <=> UsesRecord
         /\ \A rec, type : Basis(rec, type)' = Basis(rec, type)
<1>1. Recorded => Recorded'
  BY DEF Recorded
<1>2. UsesRecord' <=> UsesRecord
  BY DEF UsesRecord
<1>3. ASSUME NEW rec, NEW type
      PROVE  Basis(rec, type)' = Basis(rec, type)
  BY <1>2 DEF Basis
<1> QED BY <1>1, <1>2, <1>3

LEMMA RequestIInv ==
  ASSUME Recorded, Request
  PROVE  IInv'
<1> USE DEF IInv
<1>1. CASE EvaluateAgain
  <2>1. reply'.kind = "evaluation" /\ site' = site /\ stored' = stored
    BY <1>1 DEF EvaluateAgain, Answer
  <2> QED BY <2>1, OtherKinds, Unchanged DEF Kinds
<1>2. CASE ShowRegulations
  <2>1. reply'.kind = "regulations" /\ site' = site /\ stored' = stored
    BY <1>2 DEF ShowRegulations, Answer
  <2> QED BY <2>1, OtherKinds, Unchanged DEF Kinds
<1>3. CASE Report
  <2>1. reply'.kind \in {"brief", "full", "printed"} /\ site' = site /\ stored' = stored
    BY <1>3 DEF Report, Answer
  <2> QED BY <2>1, OtherKinds, Unchanged DEF Kinds
<1>4. ASSUME NEW rec \in Receptions, NEW force \in BOOLEAN, Evaluate(rec, force)
      PROVE  IInv'
  <2>1. PICK ev \in {Evaluated[site][rec]} :
            /\ stored' = [done |-> TRUE, ev |-> ev]
            /\ reply' = [kind |-> "evaluation", ev |-> ev, summary |-> Summary(ev)]
    BY <1>4 DEF Evaluate, Answer
  <2>2. site' = site
    BY <1>4 DEF Evaluate
  <2>3. reply'.kind = "evaluation"
    BY <2>1
  <2>4. Recorded'
    BY <2>1, <2>2 DEF Recorded
  <2> QED BY <2>3, <2>4, OtherKinds DEF Kinds
<1>5. ASSUME NEW rec \in Receptions, NEW force \in BOOLEAN, CollectionFails(rec, force)
      PROVE  IInv'
  <2>1. reply'.kind = "error" /\ site' = site /\ stored' = stored
    BY <1>5 DEF CollectionFails, Answer, Failed
  <2> QED BY <2>1, OtherKinds, Unchanged DEF Kinds
<1>6. ASSUME NEW rec \in Receptions, NEW type \in Overrides \cup {site.type}, DraftReport(rec, type)
      PROVE  IInv'
  <2>1. /\ reply' = [kind |-> "draft", draft |-> Draft(type, Basis(rec, type)), emphasis |-> Emphasis(type),
                     ev |-> Basis(rec, type), rec |-> rec, type |-> type]
        /\ site' = site /\ stored' = stored
    BY <1>6 DEF DraftReport, Answer
  <2>2. type \in ProjectTypes
    BY SitesAssumption DEF Recorded
  <2>3. Basis(rec, type)' = Basis(rec, type)
    BY <2>1, Unchanged
  <2> DEFINE ev == Basis(rec, type)
             dr == Draft(type, ev)
             em == Emphasis(type)
  <2>4. /\ reply'.kind = "draft" /\ reply'.rec = rec /\ reply'.type = type /\ reply'.ev = ev
        /\ reply'.draft = dr /\ reply'.emphasis = em
    <3> HIDE DEF dr, em, ev
    <3> QED BY <2>1 DEF dr, em, ev
  <2>5. Answered'
    BY <2>2, <2>3, <2>4 DEF Answered, Kinds
  <2> QED BY <2>1, <2>5, Unchanged
<1>7. ASSUME NEW rec \in Receptions, NEW type \in Overrides \cup {site.type}, NEW section \in SingleSections,
             NEW outcome \in LlmOutcomes, NEW passage \in BOOLEAN,
             DraftSection(section, rec, type, outcome, passage)
      PROVE  IInv'
  <2> DEFINE ev == Basis(rec, type)
             re == SectionReply(section, type, ev, outcome, passage)
  <2>1. /\ reply' = [kind |-> "section", section |-> re, ev |-> ev, type |-> type]
        /\ site' = site /\ stored' = stored
    BY <1>7 DEF DraftSection, Answer
  <2>2. re.by # "rules" => re.text = Prompt(type, ev)
    BY DEF SectionReply
  <2>3. Basis(rec, type)' = Basis(rec, type)
    BY <2>1, Unchanged
  <2>4. reply'.kind = "section" /\ reply'.section = re /\ reply'.ev = ev /\ reply'.type = type
    <3> HIDE DEF re, ev
    <3> QED BY <2>1
  <2> HIDE DEF re
  <2>5. Answered'
    BY <2>2, <2>3, <2>4 DEF Answered, Kinds
  <2> QED BY <2>1, <2>5, Unchanged
<1>8. ASSUME NEW rec \in Receptions, ShowChecklist(rec)
      PROVE  IInv'
  <2> DEFINE ev == IF UsesRecord THEN stored.ev ELSE Evaluated[site][rec]
  <2>1. /\ reply' = [kind |-> "checklist", list |-> Checklist(ev), ev |-> ev, rec |-> rec]
        /\ site' = site /\ stored' = stored
    BY <1>8 DEF ShowChecklist, Answer
  <2>2. UsesRecord' <=> UsesRecord
    BY <2>1, Unchanged
  <2>3. reply'.kind = "checklist" /\ reply'.list = Checklist(ev) /\ reply'.ev = ev /\ reply'.rec = rec
    <3> HIDE DEF ev
    <3> QED BY <2>1
  <2>4. Answered'
    BY <2>1, <2>2, <2>3 DEF Answered, Kinds
  <2> QED BY <2>1, <2>4, Unchanged
<1>9. ASSUME NEW rec \in Receptions, PredictReview(rec)
       PROVE  IInv'
  <2>1. reply'.kind = "opinions" /\ reply'.opinions = Opinions(site.type, Basis(rec, site.type).cards)
    BY <1>9 DEF PredictReview, Answer
  <2>2. site' = site /\ stored' = stored
    BY <1>9 DEF PredictReview
  <2>3. \A type : Basis(rec, type)' = Basis(rec, type)
    BY <2>2, Unchanged
  <2>4. Answered'
    BY <2>1, <2>2, <2>3 DEF Answered, Kinds
  <2> QED BY <2>2, <2>4, Unchanged
<1>10. ASSUME NEW rec \in Receptions, QualityCheck(rec)
       PROVE  IInv'
  <2>1. /\ reply'.kind = "quality"
        /\ reply'.quality = Quality(Draft(site.type, Basis(rec, site.type)), Basis(rec, site.type).cards)
    BY <1>10 DEF QualityCheck, Answer
  <2>2. site' = site /\ stored' = stored
    BY <1>10 DEF QualityCheck
  <2>3. \A type : Basis(rec, type)' = Basis(rec, type)
    BY <2>2, Unchanged
  <2>4. Answered'
    BY <2>1, <2>2, <2>3 DEF Answered, Kinds
  <2> QED BY <2>2, <2>4, Unchanged
<1> QED BY <1>1, <1>2, <1>3, <1>4, <1>5, <1>6, <1>7, <1>8, <1>9, <1>10 DEF Request

LEMMA IInvHolds == Spec => []IInv
<1>1. Init => IInv
  <2> SUFFICES ASSUME Init PROVE IInv
    OBVIOUS
  <2>1. site \in Sites /\ stored = [done |-> FALSE, ev |-> Empty] /\ reply.kind = "none"
    BY DEF Init, NoReply
  <2> QED BY <2>1 DEF IInv, Recorded, Answered, Kinds
<1>2. IInv /\ [Next]_vars => IInv'
  <2> SUFFICES ASSUME IInv, [Next]_vars PROVE IInv'
    OBVIOUS
  <2>1. CASE reply = NoReply /\ Request
    BY <2>1, RequestIInv DEF IInv
  <2>2. CASE Deliver
    <3>1. reply'.kind = "none" /\ site' = site /\ stored' = stored
      BY <2>2 DEF Deliver, NoReply
    <3> QED BY <3>1, OtherKinds, Unchanged DEF IInv, Kinds
  <2>3. CASE UNCHANGED vars
    <3>1. site' = site /\ stored' = stored /\ reply' = reply
      BY <2>3 DEF vars
    <3>2. (UsesRecord' <=> UsesRecord) /\ \A rec, type : Basis(rec, type)' = Basis(rec, type)
      BY <3>1, Unchanged
    <3>3. Answered'
      BY <3>1, <3>2 DEF IInv, Answered
    <3> QED BY <3>1, <3>3, Unchanged DEF IInv
  <2> QED BY <2>1, <2>2, <2>3 DEF Next
<1> QED BY <1>1, <1>2, PTL DEF Spec

-----------------------------------------------------------------------------
(* What the inductive invariant says of the record *)

LEMMA EvaluatedIs ==
  ASSUME NEW s \in Sites, NEW rec \in Receptions
  PROVE  /\ s.type \in ProjectTypes
         /\ Evaluated[s][rec] = EvaluationOf(s, s.type, s.type, rec)
         /\ Untyped[s][rec] = EvaluationOf(s, "none", s.type, rec)
         /\ WellFormed(Evaluated[s][rec]) /\ WellFormed(Untyped[s][rec])
<1>1. s.type \in ProjectTypes
  BY SitesAssumption
<1>2. Evaluated[s][rec] = EvaluationOf(s, s.type, s.type, rec)
  BY DEF Evaluated
<1>3. Untyped[s][rec] = EvaluationOf(s, "none", s.type, rec)
  BY DEF Untyped
<1>4. WellFormed(EvaluationOf(s, s.type, s.type, rec)) /\ WellFormed(EvaluationOf(s, "none", s.type, rec))
  BY <1>1, EvaluationIs
<1> QED BY <1>1, <1>2, <1>3, <1>4

LEMMA RecordIs ==
  ASSUME Recorded
  PROVE  /\ site \in Sites /\ site.type \in ProjectTypes
         /\ stored.done \in BOOLEAN /\ WellFormed(stored.ev)
         /\ ~stored.done => stored.ev = Empty
         /\ stored.done => \E rec \in Receptions : stored.ev = EvaluationOf(site, site.type, site.type, rec)
<1>1. site \in Sites
  BY DEF Recorded
<1>2. site.type \in ProjectTypes
  BY <1>1, SitesAssumption
<1>3. CASE stored = [done |-> FALSE, ev |-> Empty]
  <2>1. stored.done = FALSE /\ stored.ev = Empty
    BY <1>3, Zenon
  <2> QED BY <1>1, <1>2, <2>1, EmptyIs
<1>4. ASSUME NEW rec \in Receptions, stored = [done |-> TRUE, ev |-> Evaluated[site][rec]]
      PROVE  /\ stored.done = TRUE /\ WellFormed(stored.ev)
             /\ stored.ev = EvaluationOf(site, site.type, site.type, rec)
  <2>1. stored.done = TRUE /\ stored.ev = Evaluated[site][rec]
    BY <1>4, Zenon
  <2> QED BY <1>1, <2>1, EvaluatedIs
<1> QED BY <1>1, <1>2, <1>3, <1>4 DEF Recorded

\* A document is written of an evaluation of the site: its cards are once and sorted, and
\* are those of data collected without the type when the record has none.
LEMMA BasisIs ==
  ASSUME Recorded, NEW rec \in Receptions, NEW type
  PROVE  /\ Basis(rec, type).cards \in Seq(RuleIds) /\ IsInjective(Basis(rec, type).cards)
         /\ BySeverity(Basis(rec, type).cards) = Basis(rec, type).cards
         /\ UsesRecord => Basis(rec, type) = stored.ev
         /\ ~UsesRecord => Basis(rec, type).cards = RiskCards(SpatialData(site, "none", rec))
<1>1. /\ site \in Sites /\ site.type \in ProjectTypes /\ WellFormed(stored.ev)
  BY RecordIs
<1>2. CASE UsesRecord
  BY <1>1, <1>2 DEF Basis, WellFormed, IsEvaluation
<1>3. CASE ~UsesRecord
  <2>1. Basis(rec, type) = WithType(Untyped[site][rec], type)
    BY <1>3 DEF Basis
  <2>2. WithType(Untyped[site][rec], type).cards = Untyped[site][rec].cards
    BY DEF WithType, Evaluation
  <2>3. /\ Untyped[site][rec] = EvaluationOf(site, "none", site.type, rec)
        /\ WellFormed(Untyped[site][rec])
    BY <1>1, EvaluatedIs
  <2>4. EvaluationOf(site, "none", site.type, rec).cards = RiskCards(SpatialData(site, "none", rec))
    BY <1>1, EvaluationIs
  <2> QED BY <1>3, <2>1, <2>2, <2>3, <2>4 DEF WellFormed, IsEvaluation
<1> QED BY <1>2, <1>3

-----------------------------------------------------------------------------
(* Theorems *)

\* The record and the reply have their shapes.
THEOREM TypeCorrect == Spec => []TypeOK
<1>1. IInv => TypeOK
  BY RecordIs DEF IInv, Answered, Kinds, WellFormed, TypeOK
<1> QED BY <1>1, IInvHolds, PTL

\* Whatever a connector or a layer did not bring, the evaluation of what came has no card
\* that the evaluation of everything has not, no more permits and no worse a score.
THEOREM PartialDataOnlyHides == Spec => []LossOnlyHides
<1>1. IInv => LossOnlyHides
  <2> SUFFICES ASSUME IInv, stored.done PROVE LossOnlyHides
    BY DEF LossOnlyHides
  <2>1. PICK rec \in Receptions : stored.ev = EvaluationOf(site, site.type, site.type, rec)
    BY RecordIs DEF IInv
  <2>2. site \in Sites /\ site.type \in ProjectTypes
    BY RecordIs DEF IInv
  <2>3. Evaluated[site][Complete] = EvaluationOf(site, site.type, site.type, Complete)
    BY <2>2, SitesAssumption, EvaluatedIs
  <2> QED BY <2>1, <2>2, <2>3, Hidden DEF LossOnlyHides
<1> QED BY <1>1, IInvHolds, PTL

\* The rules and the regulation matcher agree about every site and whatever came of its data,
\* for any rules that read the fields they are named for.
THEOREM RulesAndMatcherAgree == Spec => []CardsAndRegulationsAgree
<1>1. IInv => CardsAndRegulationsAgree
  <2> SUFFICES ASSUME IInv, stored.done PROVE CardsAndRegulationsAgree
    BY DEF CardsAndRegulationsAgree
  <2>1. PICK rec \in Receptions : stored.ev = EvaluationOf(site, site.type, site.type, rec)
    BY RecordIs DEF IInv
  <2>2. site.type \in ProjectTypes
    BY RecordIs DEF IInv
  <2>3. /\ HasCard(stored.ev, "LAND-003") <=>
             HasRegulation(stored.ev, "greenbelt") /\ HasRegulation(stored.ev, "ZON-GB")
        /\ HasCard(stored.ev, "LAND-005") <=>
             HasRegulation(stored.ev, "agricultural_promotion") /\ HasRegulation(stored.ev, "AGR")
        /\ HasCard(stored.ev, "ECO-001") <=> HasRegulation(stored.ev, "eco_grade_1")
        /\ HasCard(stored.ev, "ECO-003") <=> HasRegulation(stored.ev, "wetland_protected")
        /\ HasCard(stored.ev, "CUL-001") <=> HasRegulation(stored.ev, "cultural_heritage_protection")
        /\ HasCard(stored.ev, "ECO-006") => ~HasRegulation(stored.ev, "eco_grade_3")
        /\ HasCard(stored.ev, "LAND-001") =>
             HasCard(stored.ev, "ECO-001") \/ HasRegulation(stored.ev, "AGR")
    BY <2>1, <2>2, Agreed
  <2> QED BY <2>3 DEF CardsAndRegulationsAgree
<1> QED BY <1>1, IInvHolds, PTL

-----------------------------------------------------------------------------
(* The drafts *)

\* What the sections with a list of cards tell of.
LEMMA DraftShows ==
  ASSUME NEW type, NEW ev
  PROVE  /\ Draft(type, ev).ch1_s3.cards = ev.cards
         /\ Draft(type, ev).ch5_s1.counts = Summary(ev).of
         /\ Draft(type, ev).ch4_s2.cards = Severe(ev.cards)
         /\ Draft(type, ev).ch7_s1.cards = OfSeverity(ev.cards, "critical")
         /\ Draft(type, ev).ch5_s2.cards = First(5, Severe(ev.cards))
<1>1. /\ "ch1_s3" \in Sections /\ "ch5_s1" \in Sections /\ "ch4_s2" \in Sections
      /\ "ch7_s1" \in Sections /\ "ch5_s2" \in Sections
  BY DEF Sections
<1>2. /\ Draft(type, ev).ch1_s3 = Section("ch1_s3", type, ev)
      /\ Draft(type, ev).ch5_s1 = Section("ch5_s1", type, ev)
      /\ Draft(type, ev).ch4_s2 = Section("ch4_s2", type, ev)
      /\ Draft(type, ev).ch7_s1 = Section("ch7_s1", type, ev)
      /\ Draft(type, ev).ch5_s2 = Section("ch5_s2", type, ev)
  BY <1>1 DEF Draft
<1>3. Section("ch1_s3", type, ev) = LegalFramework(ev)
  BY DEF Section
<1>4. Section("ch5_s1", type, ev) = Comprehensive(ev.cards)
  BY DEF Section
<1>5. Section("ch4_s2", type, ev) = OperationMitigation(ev.cards)
  BY DEF Section
<1>6. Section("ch7_s1", type, ev) = Alternatives(ev.cards)
  BY DEF Section
<1>7. Section("ch5_s2", type, ev) = Conclusion(ev.cards)
  BY DEF Section
<1>8. \A cards : Telling(cards).cards = cards
  BY DEF Telling, Blank
<1>9. LegalFramework(ev).cards = ev.cards
  BY DEF LegalFramework, Telling, Blank
<1>10. Comprehensive(ev.cards).counts = Summary(ev).of
  BY DEF Comprehensive, Summary, Blank
<1> QED BY <1>2, <1>3, <1>4, <1>5, <1>6, <1>7, <1>8, <1>9, <1>10
        DEF OperationMitigation, Alternatives, Conclusion

\* Once an evaluation with a card is stored, the draft tells of its cards and the checklist
\* lists them, whatever the connectors bring when they are asked again.
THEOREM DocumentsOfOneEvaluation == Spec => []OneEvaluation
<1>1. IInv => OneEvaluation
  <2> SUFFICES ASSUME IInv, UsesRecord PROVE OneEvaluation
    BY DEF OneEvaluation
  <2>1. ASSUME reply.kind = "draft"
        PROVE  reply.draft.ch1_s3.cards = stored.ev.cards /\ reply.draft.ch5_s1.counts = Summary(stored.ev).of
    <3>1. reply.draft = Draft(reply.type, reply.ev) /\ reply.ev = stored.ev
      BY <2>1 DEF IInv, Answered, Basis
    <3> QED BY <3>1, DraftShows
  <2>2. ASSUME reply.kind = "checklist" PROVE reply.list = Checklist(stored.ev)
    BY <2>2 DEF IInv, Answered
  <2> QED BY <2>1, <2>2 DEF OneEvaluation
<1> QED BY <1>1, IInvHolds, PTL

\* A draft without a stored evaluation is of the same risks but for the three rules that ask
\* for the project type, whatever came of the data.
THEOREM DraftsMissNoOtherRisk == Spec => []LiveDocumentsOnlyMiss
<1>1. IInv => LiveDocumentsOnlyMiss
  <2> SUFFICES ASSUME IInv, reply.kind = "draft", ~UsesRecord PROVE LiveDocumentsOnlyMiss
    BY DEF LiveDocumentsOnlyMiss
  <2>1. /\ reply.rec \in Receptions /\ reply.ev = Basis(reply.rec, reply.type)
        /\ reply.draft = Draft(reply.type, reply.ev)
    BY DEF IInv, Answered
  <2>2. reply.ev.cards = RiskCards(SpatialData(site, "none", reply.rec))
    BY <2>1, BasisIs DEF IInv
  <2>3. site \in Sites /\ site.type \in ProjectTypes
    BY RecordIs DEF IInv
  <2>4. Evaluated[site][reply.rec].cards = RiskCards(SpatialData(site, site.type, reply.rec))
    <3>1. Evaluated[site][reply.rec] = EvaluationOf(site, site.type, site.type, reply.rec)
      BY <2>1, <2>3, EvaluatedIs
    <3> QED BY <2>3, <3>1, EvaluationIs
  <2>5. reply.draft.ch1_s3.cards = reply.ev.cards
    BY <2>1, DraftShows
  <2>6. /\ ToSet(reply.draft.ch1_s3.cards) \subseteq ToSet(Evaluated[site][reply.rec].cards)
        /\ (ToSet(Evaluated[site][reply.rec].cards) \ ToSet(reply.draft.ch1_s3.cards)) \subseteq NeedTheType
    BY <2>2, <2>3, <2>4, <2>5, UntypedCards
  <2> QED BY <2>6 DEF LiveDocumentsOnlyMiss
<1> QED BY <1>1, IInvHolds, PTL

\* The beginning of a list.
LEMMA FirstIs ==
  ASSUME NEW A, NEW q \in Seq(A), NEW n \in Nat
  PROVE  /\ First(n, q) \in Seq(A) /\ Len(First(n, q)) = (IF n < Len(q) THEN n ELSE Len(q))
         /\ \A i \in 1..Len(First(n, q)) : First(n, q)[i] = q[i]
         /\ ToSet(First(n, q)) \subseteq ToSet(q)
<1> DEFINE m == MinOf(n, Len(q))
           f == SubSeq(q, 1, m)
<1>1. Len(q) \in Nat /\ m \in Nat /\ m = (IF n < Len(q) THEN n ELSE Len(q)) /\ m <= Len(q)
  BY LenProperties DEF MinOf
<1>2. First(n, q) = f
  BY DEF First
<1> HIDE DEF m
<1>3. \A i \in 1..m : q[i] \in A
  BY <1>1, LenProperties
<1>4. /\ f \in Seq(A) /\ Len(f) = (IF 1 <= m THEN m - 1 + 1 ELSE 0)
      /\ \A i \in 1..(m - 1 + 1) : f[i] = q[1 + i - 1]
  BY <1>1, <1>3, SubSeqProperties
<1>5. Len(f) = m /\ \A i \in 1..m : f[i] = q[i]
  BY <1>1, <1>4
<1>6. ASSUME NEW x \in ToSet(f) PROVE x \in ToSet(q)
  <2>1. PICK i \in 1..Len(f) : f[i] = x
    BY <1>4, <1>6, ElementsIn
  <2>2. i \in 1..Len(q) /\ q[i] = x
    BY <1>1, <1>5, <2>1
  <2> QED BY <2>2, ElementsIn
<1> HIDE DEF f
<1> QED BY <1>1, <1>2, <1>4, <1>5, <1>6

\* Of a list in two parts the beginning has all of the first part, or nothing else.
LEMMA FirstOfTwo ==
  ASSUME NEW A, NEW s \in Seq(A), NEW t \in Seq(A), NEW n \in Nat
  PROVE  \/ ToSet(s) \subseteq ToSet(First(n, s \o t))
         \/ ToSet(First(n, s \o t)) \subseteq ToSet(s)
<1> DEFINE q == s \o t
           f == First(n, q)
<1>1. /\ q \in Seq(A) /\ Len(q) = Len(s) + Len(t) /\ \A i \in 1..Len(s) : q[i] = s[i]
      /\ Len(s) \in Nat /\ Len(t) \in Nat
  BY ConcatProperties, LenProperties
<1> HIDE DEF q
<1>2. /\ f \in Seq(A) /\ Len(f) = (IF n < Len(q) THEN n ELSE Len(q))
      /\ \A i \in 1..Len(f) : f[i] = q[i]
  BY <1>1, FirstIs
<1> HIDE DEF f
<1>3. CASE n <= Len(s)
  <2>1. ASSUME NEW x \in ToSet(f) PROVE x \in ToSet(s)
    <3>1. PICK i \in 1..Len(f) : f[i] = x
      BY <1>2, <2>1, ElementsIn
    <3>2. i \in 1..Len(s) /\ s[i] = x
      BY <1>1, <1>2, <1>3, <3>1
    <3> QED BY <3>2, ElementsIn
  <2> QED BY <2>1 DEF f, q
<1>4. CASE n > Len(s)
  <2>1. ASSUME NEW x \in ToSet(s) PROVE x \in ToSet(f)
    <3>1. PICK i \in 1..Len(s) : s[i] = x
      BY <2>1, ElementsIn
    <3>2. i \in 1..Len(f) /\ f[i] = x
      BY <1>1, <1>2, <1>4, <3>1
    <3> QED BY <1>2, <3>2, ElementsIn
  <2> QED BY <2>1 DEF f, q
<1> QED BY <1>1, <1>3, <1>4

\* The critical cards come first, the major ones after them.
LEMMA WorstFirst ==
  ASSUME NEW q \in Seq(RuleIds), BySeverity(q) = q, NEW n \in Nat
  PROVE  LET c == OfSeverity(q, "critical") IN
         /\ ToSet(c) \subseteq ToSet(Severe(q))
         /\ ToSet(c) \subseteq ToSet(First(n, Severe(q))) \/ ToSet(First(n, Severe(q))) \subseteq ToSet(c)
         /\ ToSet(c) \subseteq ToSet(First(n, q)) \/ ToSet(First(n, q)) \subseteq ToSet(c)
<1> DEFINE c == OfSeverity(q, "critical")
           m == OfSeverity(q, "major")
           r == OfSeverity(q, "review")
           i == OfSeverity(q, "info")
<1>1. c \in Seq(RuleIds) /\ m \in Seq(RuleIds) /\ r \in Seq(RuleIds) /\ i \in Seq(RuleIds)
  BY FourSeverities, OfSeverityIs
<1>2. Severe(q) = c \o m
  BY SortedOnce
<1>3. q = c \o m \o r \o i
  BY DEF BySeverity
<1> HIDE DEF c, m, r, i
<1>4. c \o m \o r \o i = c \o (m \o r \o i) /\ m \o r \o i \in Seq(RuleIds)
  <2>1. Regroups(c, m, r, i) /\ m \o r \o i \in Seq(RuleIds)
    BY <1>1, FourLists, Zenon
  <2> QED BY <2>1 DEF Regroups
<1>5. ToSet(c) \subseteq ToSet(c \o m)
  BY <1>1, ToSetConcat
<1>6. \/ ToSet(c) \subseteq ToSet(First(n, c \o m)) \/ ToSet(First(n, c \o m)) \subseteq ToSet(c)
  BY <1>1, FirstOfTwo
<1>7. \/ ToSet(c) \subseteq ToSet(First(n, c \o (m \o r \o i)))
      \/ ToSet(First(n, c \o (m \o r \o i))) \subseteq ToSet(c)
  BY <1>1, <1>4, FirstOfTwo
<1> QED BY <1>2, <1>3, <1>4, <1>5, <1>6, <1>7 DEF c

\* However few cards a place has room for, it names no lesser risk before all the critical ones.
THEOREM TheWorstIsTold == Spec => []DraftTellsTheWorst
<1>1. IInv => DraftTellsTheWorst
  <2> SUFFICES ASSUME IInv PROVE DraftTellsTheWorst
    OBVIOUS
  <2>1. ASSUME reply.kind = "draft"
        PROVE  /\ Criticals(reply.ev) \subseteq ToSet(reply.draft.ch4_s2.cards) \cap ToSet(reply.draft.ch7_s1.cards)
               /\ NamesTheWorst(reply.draft.ch5_s2.cards, reply.ev)
    <3>1. /\ reply.ev = Basis(reply.rec, reply.type) /\ reply.rec \in Receptions
          /\ reply.draft = Draft(reply.type, reply.ev)
      BY <2>1 DEF IInv, Answered
    <3>2. reply.ev.cards \in Seq(RuleIds) /\ BySeverity(reply.ev.cards) = reply.ev.cards
      BY <3>1, BasisIs DEF IInv
    <3>3. /\ reply.draft.ch4_s2.cards = Severe(reply.ev.cards)
          /\ reply.draft.ch7_s1.cards = OfSeverity(reply.ev.cards, "critical")
          /\ reply.draft.ch5_s2.cards = First(5, Severe(reply.ev.cards))
      BY <3>1, DraftShows
    <3> QED BY <3>2, <3>3, WorstFirst DEF Criticals, NamesTheWorst
  <2>2. ASSUME reply.kind = "section", reply.section.by # "rules"
        PROVE  NamesTheWorst(reply.section.text.cards, reply.ev)
    <3>1. PICK rec \in Receptions : reply.ev = Basis(rec, reply.type)
      BY <2>2 DEF IInv, Answered
    <3>2. reply.ev.cards \in Seq(RuleIds) /\ BySeverity(reply.ev.cards) = reply.ev.cards
      BY <3>1, BasisIs DEF IInv
    <3>3. reply.section.text = Prompt(reply.type, reply.ev)
      BY <2>2 DEF IInv, Answered
    <3>4. reply.section.text.cards = First(5, reply.ev.cards)
      BY <3>3 DEF Prompt
    <3> QED BY <3>2, <3>4, WorstFirst DEF Criticals, NamesTheWorst
  <2> QED BY <2>1, <2>2 DEF DraftTellsTheWorst
<1> QED BY <1>1, IInvHolds, PTL

\* The sections that are out of the scope of a project type are those the generators list.
LEMMA ScopeIs ==
  ASSUME NEW type, NEW ev, NEW section \in Sections
  PROVE  Draft(type, ev)[section].inScope <=> (section \in DOMAIN ScopeOf => type \in ScopeOf[section])
<1>0. DOMAIN ScopeOf = {"ch3_s7", "ch3_s8", "ch3_s9"}
  BY DEF ScopeOf
<1>1. Draft(type, ev)[section] = Section(section, type, ev)
  BY DEF Draft
<1>2. /\ Blank.inScope /\ ~OutOfScope.inScope /\ \A cards : Telling(cards).inScope
      /\ LegalFramework(ev).inScope
      /\ \A ids, word, cards, past : AssessmentSection(ids, word, cards, past).inScope
      /\ \A past : ConstructionMitigation(past).inScope /\ MonitoringPlan(past).inScope
      /\ \A cards : Comprehensive(cards).inScope
  BY DEF Blank, OutOfScope, Telling, LegalFramework, AssessmentSection, ConstructionMitigation,
         MonitoringPlan, Comprehensive
<1> DEFINE past == Predicted(type)
<1>3. CASE section = "ch3_s7"
  <2>1. Section(section, type, ev) = MarineSection(type, ev.cards, past)
    BY <1>3 DEF Section
  <2>2. MarineSection(type, ev.cards, past).inScope <=> type \in ScopeOf["ch3_s7"]
    BY <1>2 DEF MarineSection, InScope
  <2> QED BY <1>0, <1>1, <1>3, <2>1, <2>2
<1>4. CASE section = "ch3_s8"
  <2>1. Section(section, type, ev) = GreenhouseSection(type, ev.cards, past)
    BY <1>4 DEF Section
  <2>2. GreenhouseSection(type, ev.cards, past).inScope <=> type \in ScopeOf["ch3_s8"]
    BY <1>2 DEF GreenhouseSection, InScope
  <2> QED BY <1>0, <1>1, <1>4, <2>1, <2>2
<1>5. CASE section = "ch3_s9"
  <2>1. Section(section, type, ev) = OdorSection(type, ev.cards, past)
    BY <1>5 DEF Section
  <2>2. OdorSection(type, ev.cards, past).inScope <=> type \in ScopeOf["ch3_s9"]
    BY <1>2 DEF OdorSection, InScope
  <2> QED BY <1>0, <1>1, <1>5, <2>1, <2>2
<1>6. CASE section \notin {"ch3_s7", "ch3_s8", "ch3_s9"}
  <2>1. Section(section, type, ev).inScope
    <3>1. CASE section \in {"ch1_s1", "ch1_s2", "ch6_s2", "ch1_s3", "ch2_s1", "ch2_s2", "ch2_s3"}
      BY <1>2, <3>1 DEF Section, NaturalEnv, LivingEnv, SocialEnv
    <3>2. CASE section \in {"ch3_s1", "ch3_s2", "ch3_s3", "ch3_s4", "ch3_s5", "ch3_s6"}
      BY <1>2, <3>2 DEF Section, AirQualitySection, WaterSection, NoiseSection, SoilSection,
                        EcologySection, LandscapeSection
    <3>3. CASE section \in {"ch4_s1", "ch4_s2", "ch5_s1", "ch5_s2", "ch6_s1", "ch7_s1"}
      BY <1>2, <3>3 DEF Section, OperationMitigation, Conclusion, Alternatives
    <3> QED BY <1>6, <3>1, <3>2, <3>3 DEF Sections
  <2> QED BY <1>0, <1>1, <1>6, <2>1
<1> QED BY <1>3, <1>4, <1>5, <1>6

LEMMA EmphasisAre ==
  ASSUME NEW type, NEW section \in Emphasis(type)
  PROVE  /\ section \in Sections
         /\ section \in DOMAIN ScopeOf => type \in ScopeOf[section]
<1>1. /\ section \in {"ch3_s1", "ch3_s2", "ch3_s3", "ch3_s4", "ch3_s5", "ch3_s6", "ch3_s7", "ch3_s8", "ch3_s9"}
      /\ section = "ch3_s7" => type \in {"port", "river", "reclamation"}
      /\ section = "ch3_s8" => type = "energy"
      /\ section = "ch3_s9" => type \in {"industrial", "waste"}
  BY DEF Emphasis
<1> QED BY <1>1 DEF Sections, ScopeOf

\* The table of the emphases and the generators' lists of types agree for every project type.
THEOREM EmphasesAreInScope == Spec => []EmphasisIsInScope
<1>1. IInv => EmphasisIsInScope
  <2> SUFFICES ASSUME IInv, reply.kind = "draft", NEW section \in reply.emphasis
      PROVE reply.draft[section].inScope
    BY DEF EmphasisIsInScope
  <2>1. reply.draft = Draft(reply.type, reply.ev) /\ reply.emphasis = Emphasis(reply.type)
    BY DEF IInv, Answered
  <2> QED BY <2>1, EmphasisAre, ScopeIs
<1> QED BY <1>1, IInvHolds, PTL

\* Of the verdicts on the program's own draft only those on surveys of a subject that is out of
\* scope are against it.
LEMMA OwnVerdicts ==
  ASSUME NEW type, NEW ev, ev.cards \in Seq(RuleIds)
  PROVE  Quality(Draft(type, ev), ev.cards).warnings =
            {<<"survey", s>> : s \in {x \in DOMAIN ScopeOf \cap Surveyed : type \notin ScopeOf[x]}}
<1> DEFINE draft == Draft(type, ev)
           all == Verdicts(draft, ev.cards)
           Survey(s) == Verdict("survey", s, draft[s].inScope)
           Scoped(s) == s \in DOMAIN ScopeOf => type \in ScopeOf[s]
<1>1. DOMAIN draft = Sections /\ Surveyed \subseteq Sections
  BY DEF Draft, Surveyed, Sections
<1>2. ASSUME NEW s \in Surveyed
      PROVE  /\ Survey(s) \in all /\ Survey(s).kind = "survey" /\ Survey(s).about = s
             /\ Survey(s).ok <=> Scoped(s)
  <2>1. Survey(s) \in all
    BY <1>1 DEF Verdicts
  <2>2. Survey(s).kind = "survey" /\ Survey(s).about = s
    BY DEF Verdict
  <2>3. Survey(s).ok <=> draft[s].inScope
    BY DEF Verdict
  <2>4. draft[s].inScope <=> Scoped(s)
    BY <1>1, ScopeIs
  <2> HIDE DEF Survey, Scoped, draft, all
  <2> QED BY <2>1, <2>2, <2>3, <2>4
<1>3. ASSUME NEW v \in all
      PROVE  v.ok \/ \E s \in Surveyed : v = Survey(s)
  <2> DEFINE Fine == v.ok \/ \E s \in Surveyed : v = Survey(s)
             IsRequired == \E s \in Required : v = Verdict("required", s, s \in DOMAIN draft)
             IsLaw == \E s \in LegalSubjects : v = Verdict("law", s, s \in DOMAIN draft)
             IsMitigation == \E id \in Examined(ev.cards) : v = Verdict("mitigation", id, id \in ToSet(draft.ch4_s2.cards))
             IsBasis == \E id \in Examined(ev.cards) : v = Verdict("legal basis", id, TRUE)
             IsSurvey == \E s \in Surveyed : v = Survey(s)
             IsDisclaimer == v = Verdict("disclaimer", "draft", DOMAIN draft # {})
  <2>1. ASSUME IsRequired PROVE Fine
    <3>1. PICK s \in Required : v = Verdict("required", s, s \in DOMAIN draft)
      BY <2>1
    <3>2. s \in DOMAIN draft
      BY <1>1 DEF Required, Sections
    <3> QED BY <3>1, <3>2 DEF Verdict
  <2>2. ASSUME IsLaw PROVE Fine
    <3>1. PICK s \in LegalSubjects : v = Verdict("law", s, s \in DOMAIN draft)
      BY <2>2
    <3>2. s \in DOMAIN draft
      BY <1>1 DEF LegalSubjects, Sections
    <3> QED BY <3>1, <3>2 DEF Verdict
  <2>3. ASSUME IsMitigation PROVE Fine
    <3>1. PICK id \in Examined(ev.cards) : v = Verdict("mitigation", id, id \in ToSet(draft.ch4_s2.cards))
      BY <2>3
    <3>2. id \in ToSet(draft.ch4_s2.cards)
      <4>1. draft.ch4_s2.cards = Severe(ev.cards)
        BY DraftShows
      <4>2. Severe(ev.cards) \in Seq(RuleIds)
        BY KeepIsSeq DEF Severe
      <4>3. ToSet(First(5, Severe(ev.cards))) \subseteq ToSet(Severe(ev.cards))
        BY <4>2, FirstIs
      <4> QED BY <4>1, <4>3 DEF Examined
    <3> QED BY <3>1, <3>2 DEF Verdict
  <2>4. ASSUME IsBasis PROVE Fine
    <3>1. PICK id \in Examined(ev.cards) : v = Verdict("legal basis", id, TRUE)
      BY <2>4
    <3>2. v.ok
      BY <3>1 DEF Verdict
    <3> QED BY <3>2
  <2>5. ASSUME IsSurvey PROVE Fine
    BY <2>5
  <2>6. ASSUME IsDisclaimer PROVE Fine
    <3>1. DOMAIN draft # {}
      BY <1>1 DEF Sections
    <3> QED BY <2>6, <3>1 DEF Verdict
  <2>7. IsRequired \/ IsLaw \/ IsMitigation \/ IsBasis \/ IsSurvey \/ IsDisclaimer
    BY DEF Verdicts
  <2> HIDE DEF Fine, IsRequired, IsLaw, IsMitigation, IsBasis, IsSurvey, IsDisclaimer
  <2>8. Fine
    BY <2>1, <2>2, <2>3, <2>4, <2>5, <2>6, <2>7
  <2> QED BY <2>8 DEF Fine
<1>4. Quality(draft, ev.cards).warnings = {<<v.kind, v.about>> : v \in all \ {v \in all : v.ok}}
  BY DEF Quality
<1>5. {x \in DOMAIN ScopeOf \cap Surveyed : type \notin ScopeOf[x]} = {s \in Surveyed : ~Scoped(s)}
  OBVIOUS
<1> HIDE DEF Survey, Scoped, all, draft
<1>6. ASSUME NEW v \in all, ~v.ok
      PROVE  \E s \in {t \in Surveyed : ~Scoped(t)} : <<v.kind, v.about>> = <<"survey", s>>
  <2>1. PICK s \in Surveyed : v = Survey(s)
    BY <1>3, <1>6
  <2> QED BY <1>2, <1>6, <2>1
<1>7. ASSUME NEW s \in Surveyed, ~Scoped(s)
      PROVE  \E v \in all \ {w \in all : w.ok} : <<"survey", s>> = <<v.kind, v.about>>
  <2>1. Survey(s) \in all \ {w \in all : w.ok}
    BY <1>2, <1>7
  <2>2. <<"survey", s>> = <<Survey(s).kind, Survey(s).about>>
    BY <1>2
  <2> QED BY <2>1, <2>2
<1>8. {<<v.kind, v.about>> : v \in all \ {v \in all : v.ok}} = {<<"survey", s>> : s \in {t \in Surveyed : ~Scoped(t)}}
  BY <1>6, <1>7
<1> QED BY <1>4, <1>5, <1>8 DEF draft

\* The quality check has nothing else to say of the program's own draft.
THEOREM OwnDraftPasses == Spec => []OwnDraftHolds
<1>1. IInv => OwnDraftHolds
  <2> SUFFICES ASSUME IInv, reply.kind = "quality" PROVE OwnDraftHolds
    BY DEF OwnDraftHolds
  <2>1. PICK rec \in Receptions :
            reply.quality = Quality(Draft(site.type, Basis(rec, site.type)), Basis(rec, site.type).cards)
    BY DEF IInv, Answered
  <2>2. Basis(rec, site.type).cards \in Seq(RuleIds)
    BY BasisIs DEF IInv
  <2>3. reply.quality.warnings =
            {<<"survey", s>> : s \in {x \in DOMAIN ScopeOf \cap Surveyed : site.type \notin ScopeOf[x]}}
    BY <2>1, <2>2, OwnVerdicts
  <2> QED BY <2>3 DEF OwnDraftHolds
<1> QED BY <1>1, IInvHolds, PTL

-----------------------------------------------------------------------------
(* The checklist *)

\* The list as it is numbered through.
Listing(q) == [i \in 1..Len(q) |-> [id |-> i, about |-> q[i]]]
After(n, q) == [i \in 1..Len(q) |-> [id |-> n + i, about |-> q[i]]]
NumberedAll(abouts) == [k \in 1..Len(abouts) |-> Numbered(abouts, k)]
ItemsOf(X) == [id: Nat, about: X]

LEMMA AfterIs ==
  ASSUME NEW X, NEW q \in Seq(X), NEW n \in Nat
  PROVE  /\ After(n, q) \in Seq(ItemsOf(X)) /\ Len(After(n, q)) = Len(q)
         /\ \A i \in 1..Len(q) : After(n, q)[i] = [id |-> n + i, about |-> q[i]]
<1>1. Len(q) \in Nat /\ \A i \in 1..Len(q) : q[i] \in X
  BY LenProperties
<1>2. PICK m \in Nat : m = Len(q)
  BY <1>1
<1>3. After(n, q) \in [1..m -> ItemsOf(X)]
  BY <1>1, <1>2 DEF After, ItemsOf
<1>4. \A i \in 1..Len(q) : After(n, q)[i] = [id |-> n + i, about |-> q[i]]
  BY DEF After
<1>5. After(n, q) \in Seq(ItemsOf(X)) /\ Len(After(n, q)) = m
  BY <1>3, ListOf
<1> QED BY <1>2, <1>4, <1>5

LEMMA ListingIs ==
  ASSUME NEW X, NEW q \in Seq(X)
  PROVE  /\ Listing(q) \in Seq(ItemsOf(X)) /\ Len(Listing(q)) = Len(q)
         /\ \A i \in 1..Len(q) : Listing(q)[i].id = i /\ Listing(q)[i].about = q[i]
<1>1. Listing(q) = After(0, q)
  BY DEF Listing, After
<1>2. \A i \in 1..Len(q) : Listing(q)[i].id = i /\ Listing(q)[i].about = q[i]
  BY DEF Listing
<1> QED BY <1>1, <1>2, AfterIs

LEMMA ConcatIs ==
  ASSUME NEW A, NEW s \in Seq(A), NEW t \in Seq(A)
  PROVE  /\ s \o t \in Seq(A) /\ Len(s \o t) = Len(s) + Len(t)
         /\ Len(s) \in Nat /\ Len(t) \in Nat
         /\ \A i \in 1..Len(s) : (s \o t)[i] = s[i]
         /\ \A i \in 1..Len(t) : (s \o t)[Len(s) + i] = t[i]
<1>1. Len(s) \in Nat /\ Len(t) \in Nat
  BY LenProperties
<1>2. /\ s \o t \in Seq(A) /\ Len(s \o t) = Len(s) + Len(t)
      /\ \A i \in 1..(Len(s) + Len(t)) : (s \o t)[i] = IF i <= Len(s) THEN s[i] ELSE t[i - Len(s)]
  BY ConcatProperties
<1>3. ASSUME NEW i \in 1..Len(t) PROVE (s \o t)[Len(s) + i] = t[i]
  <2>1. /\ Len(s) + i \in 1..(Len(s) + Len(t)) /\ ~(Len(s) + i <= Len(s))
        /\ Len(s) + i - Len(s) = i
    BY <1>1
  <2> QED BY <1>2, <2>1
<1>4. ASSUME NEW i \in 1..Len(s) PROVE (s \o t)[i] = s[i]
  <2>1. i \in 1..(Len(s) + Len(t)) /\ i <= Len(s)
    BY <1>1
  <2> QED BY <1>2, <2>1
<1> QED BY <1>1, <1>2, <1>3, <1>4

LEMMA ConcatOf ==
  ASSUME NEW A, NEW s \in Seq(A), NEW t \in Seq(A), NEW l \in Seq(A),
         Len(l) = Len(s) + Len(t),
         \A i \in 1..Len(s) : l[i] = s[i],
         \A i \in 1..Len(t) : l[Len(s) + i] = t[i]
  PROVE  l = s \o t
<1> DEFINE u == s \o t
<1>1. /\ u \in Seq(A) /\ Len(u) = Len(s) + Len(t)
      /\ Len(s) \in Nat /\ Len(t) \in Nat
      /\ \A i \in 1..Len(s) : u[i] = s[i]
      /\ \A i \in 1..Len(t) : u[Len(s) + i] = t[i]
  BY ConcatIs
<1> HIDE DEF u
<1>2. ASSUME NEW i \in 1..Len(l) PROVE l[i] = u[i]
  <2>1. i \in Int /\ 1 <= i /\ i <= Len(s) + Len(t)
    BY <1>1
  <2>2. CASE i <= Len(s)
    BY <1>1, <2>1, <2>2
  <2>3. CASE i > Len(s)
    <3>1. PICK k \in 1..Len(t) : Len(s) + k = i
      <4>1. i - Len(s) \in 1..Len(t) /\ Len(s) + (i - Len(s)) = i
        BY <1>1, <2>1, <2>3
      <4> QED BY <4>1
    <3>2. l[Len(s) + k] = t[k] /\ u[Len(s) + k] = t[k]
      BY <1>1
    <3> QED BY <3>1, <3>2
  <2> QED BY <1>1, <2>1, <2>2, <2>3
<1> QED BY <1>1, <1>2, SeqEqual DEF u

LEMMA ListingConcat ==
  ASSUME NEW X, NEW q \in Seq(X), NEW e \in Seq(X)
  PROVE  Listing(q \o e) = Listing(q) \o After(Len(q), e)
<1>1. /\ q \o e \in Seq(X) /\ Len(q \o e) = Len(q) + Len(e) /\ Len(q) \in Nat /\ Len(e) \in Nat
      /\ \A i \in 1..Len(q) : (q \o e)[i] = q[i]
      /\ \A i \in 1..Len(e) : (q \o e)[Len(q) + i] = e[i]
  BY ConcatIs
<1>2. PICK u \in Seq(X) : u = q \o e
  BY <1>1
<1>3. /\ Len(u) = Len(q) + Len(e)
      /\ \A i \in 1..Len(q) : u[i] = q[i]
      /\ \A i \in 1..Len(e) : u[Len(q) + i] = e[i]
  BY <1>1, <1>2
<1>4. Listing(q) \in Seq(ItemsOf(X)) /\ Len(Listing(q)) = Len(q)
  BY ListingIs
<1>5. After(Len(q), e) \in Seq(ItemsOf(X)) /\ Len(After(Len(q), e)) = Len(e)
  BY <1>1, AfterIs
<1>6. Listing(u) \in Seq(ItemsOf(X)) /\ Len(Listing(u)) = Len(u)
  BY ListingIs
<1>7. ASSUME NEW i \in 1..Len(Listing(q)) PROVE Listing(u)[i] = Listing(q)[i]
  <2>1. i \in 1..Len(q) /\ i \in 1..Len(u)
    BY <1>1, <1>3, <1>4
  <2> QED BY <1>3, <2>1 DEF Listing
<1>8. ASSUME NEW i \in 1..Len(After(Len(q), e))
      PROVE  Listing(u)[Len(Listing(q)) + i] = After(Len(q), e)[i]
  <2>1. i \in 1..Len(e) /\ Len(q) + i \in 1..Len(u)
    BY <1>1, <1>3, <1>5
  <2>2. Listing(u)[Len(q) + i] = [id |-> Len(q) + i, about |-> e[i]]
    BY <1>3, <2>1 DEF Listing
  <2> QED BY <1>4, <2>1, <2>2 DEF After
<1>9. Len(Listing(u)) = Len(Listing(q)) + Len(After(Len(q), e))
  BY <1>3, <1>4, <1>5, <1>6
<1>10. PICK l \in Seq(ItemsOf(X)), s \in Seq(ItemsOf(X)), t \in Seq(ItemsOf(X)) :
          l = Listing(u) /\ s = Listing(q) /\ t = After(Len(q), e)
  BY <1>4, <1>5, <1>6
<1>11. l = s \o t
  <2>1. /\ Len(l) = Len(s) + Len(t)
        /\ \A i \in 1..Len(s) : l[i] = s[i]
        /\ \A i \in 1..Len(t) : l[Len(s) + i] = t[i]
    BY <1>7, <1>8, <1>9, <1>10
  <2> QED BY <2>1, ConcatOf
<1> QED BY <1>2, <1>10, <1>11

\* What comes before a list does not depend on what is appended.
LEMMA NumberedAppend ==
  ASSUME NEW X, NEW q \in Seq(Seq(X)), NEW e \in Seq(X)
  PROVE  NumberedAll(Append(q, e)) = Append(NumberedAll(q), After(Len(FlattenSeq(q)), e))
<1> DEFINE t == Append(q, e)
<1>1. /\ t \in Seq(Seq(X)) /\ Len(t) = Len(q) + 1 /\ Len(q) \in Nat
      /\ \A i \in 1..Len(q) : t[i] = q[i] /\ q[i] \in Seq(X)
      /\ t[Len(q) + 1] = e
  BY AppendProperties, LenProperties
<1> HIDE DEF t
<1>2. ASSUME NEW k \in 0..Len(q)
      PROVE  SubSeq(t, 1, k) = SubSeq(q, 1, k)
  <2>1. \A i \in 1..k : t[i] = q[i] /\ t[i] \in Seq(X) /\ q[i] \in Seq(X)
    BY <1>1
  <2>2. k \in Int /\ 1 \in Int
    BY <1>1
  <2>3. /\ SubSeq(t, 1, k) \in Seq(Seq(X)) /\ Len(SubSeq(t, 1, k)) = (IF 1 <= k THEN k - 1 + 1 ELSE 0)
        /\ \A i \in 1..(k - 1 + 1) : SubSeq(t, 1, k)[i] = t[1 + i - 1]
    BY <2>1, <2>2, SubSeqProperties
  <2>4. /\ SubSeq(q, 1, k) \in Seq(Seq(X)) /\ Len(SubSeq(q, 1, k)) = (IF 1 <= k THEN k - 1 + 1 ELSE 0)
        /\ \A i \in 1..(k - 1 + 1) : SubSeq(q, 1, k)[i] = q[1 + i - 1]
    BY <2>1, <2>2, SubSeqProperties
  <2>5. ASSUME NEW i \in 1..Len(SubSeq(t, 1, k)) PROVE SubSeq(t, 1, k)[i] = SubSeq(q, 1, k)[i]
    BY <1>1, <2>1, <2>3, <2>4
  <2>6. Len(SubSeq(t, 1, k)) = Len(SubSeq(q, 1, k))
    BY <2>3, <2>4
  <2> QED BY <2>3, <2>4, <2>5, <2>6, SeqEqual
<1>3. ASSUME NEW k \in 1..Len(q)
      PROVE  Numbered(t, k) = Numbered(q, k)
  <2>1. Before(t, k) = Before(q, k)
    <3>1. k - 1 \in 0..Len(q)
      BY <1>1
    <3> QED BY <1>2, <3>1 DEF Before
  <2>2. t[k] = q[k]
    BY <1>1
  <2> QED BY <2>1, <2>2 DEF Numbered
<1>4. Numbered(t, Len(q) + 1) = After(Len(FlattenSeq(q)), e)
  <2>1. Before(t, Len(q) + 1) = Len(FlattenSeq(q))
    <3>0. Len(q) + 1 - 1 = Len(q) /\ Len(q) \in 0..Len(q)
      BY <1>1
    <3>1. SubSeq(t, 1, Len(q)) = SubSeq(q, 1, Len(q))
      BY <1>2, <3>0
    <3>2. SubSeq(q, 1, Len(q)) = q
      BY SubSeqFull
    <3>3. SubSeq(t, 1, Len(q) + 1 - 1) = q
      BY <3>0, <3>1, <3>2
    <3>4. Before(t, Len(q) + 1) = Len(FlattenSeq(SubSeq(t, 1, Len(q) + 1 - 1)))
      BY DEF Before
    <3> QED BY <3>3, <3>4
  <2> QED BY <1>1, <2>1 DEF Numbered, After
<1> DEFINE a == NumberedAll(t)
           b == NumberedAll(q)
           f == After(Len(FlattenSeq(q)), e)
           c == Append(b, f)
<1>5. /\ DOMAIN a = 1..(Len(q) + 1)
      /\ \A k \in 1..Len(q) : a[k] = Numbered(q, k)
      /\ a[Len(q) + 1] = f
  BY <1>1, <1>3, <1>4 DEF NumberedAll
<1>6. b \in [1..Len(q) -> {Numbered(q, k) : k \in 1..Len(q)} \cup {f}]
      /\ \A k \in 1..Len(q) : b[k] = Numbered(q, k)
  BY DEF NumberedAll
<1>7. b \in Seq({Numbered(q, k) : k \in 1..Len(q)} \cup {f}) /\ Len(b) = Len(q)
  <2>1. PICK n \in Nat : n = Len(q)
    BY <1>1
  <2> HIDE DEF b, f
  <2>2. b \in [1..n -> {Numbered(q, k) : k \in 1..Len(q)} \cup {f}]
    BY <1>6, <2>1
  <2> QED BY <2>1, <2>2, ListOf
<1> HIDE DEF a, b, f
<1>8. /\ Len(c) = Len(q) + 1 /\ DOMAIN c = 1..(Len(q) + 1)
      /\ \A k \in 1..Len(q) : c[k] = Numbered(q, k)
      /\ c[Len(q) + 1] = f
      /\ c \in Seq({Numbered(q, k) : k \in 1..Len(q)} \cup {f})
  BY <1>6, <1>7, AppendProperties, LenProperties
<1> HIDE DEF c
<1>9. ASSUME NEW k \in 1..(Len(q) + 1) PROVE a[k] = c[k]
  <2>1. k \in 1..Len(q) \/ k = Len(q) + 1
    BY <1>1
  <2> QED BY <1>5, <1>8, <2>1
<1>10. a = [k \in 1..(Len(q) + 1) |-> a[k]]
  BY <1>1, <1>5 DEF NumberedAll, a
<1>11. c = [k \in 1..(Len(q) + 1) |-> c[k]]
  BY <1>8
<1> QED BY <1>9, <1>10, <1>11 DEF a, b, c, f, t

\* Numbered section by section the items are numbered through.
LEMMA NumberedThrough ==
  ASSUME NEW X, NEW abouts \in Seq(Seq(X))
  PROVE  FlattenSeq(NumberedAll(abouts)) = Listing(FlattenSeq(abouts))
<1> DEFINE T == {q \in Seq(Seq(X)) : /\ NumberedAll(q) \in Seq(Seq(ItemsOf(X)))
                                     /\ FlattenSeq(NumberedAll(q)) = Listing(FlattenSeq(q))}
<1>1. <<>> \in T
  <2>1. NumberedAll(<<>>) = <<>> /\ Listing(<<>>) = <<>>
    BY EmptySeq DEF NumberedAll, Listing
  <2> QED BY <2>1, FlattenEmpty, EmptySeq
<1>2. ASSUME NEW q \in Seq(Seq(X)), NEW e \in Seq(X), q \in T
      PROVE  Append(q, e) \in T
  <2> DEFINE f == FlattenSeq(q)
             b == NumberedAll(q)
             n == After(Len(f), e)
  <2>1. Append(q, e) \in Seq(Seq(X)) /\ f \in Seq(X) /\ Len(f) \in Nat
    BY AppendProperties, FlattenIsSeq, LenProperties
  <2>2. NumberedAll(Append(q, e)) = Append(b, n)
    BY NumberedAppend
  <2>3. b \in Seq(Seq(ItemsOf(X))) /\ FlattenSeq(b) = Listing(f)
    BY <1>2
  <2>4. FlattenSeq(Append(q, e)) = f \o e
    BY FlattenAppend
  <2> HIDE DEF f, b
  <2>5. n \in Seq(ItemsOf(X))
    BY <2>1, AfterIs
  <2> HIDE DEF n
  <2>6. Append(b, n) \in Seq(Seq(ItemsOf(X))) /\ FlattenSeq(Append(b, n)) = FlattenSeq(b) \o n
    BY <2>3, <2>5, AppendProperties, FlattenAppend
  <2>7. Listing(f \o e) = Listing(f) \o n
    BY <2>1, ListingConcat DEF n
  <2> QED BY <2>1, <2>2, <2>3, <2>4, <2>6, <2>7
<1> HIDE DEF T
<1>3. Seq(Seq(X)) \subseteq T
  BY <1>1, <1>2, SequencesByInduction
<1> QED BY <1>3 DEF T

Holding(G, X) == \A g \in G : g.about \in Seq(X)

LEMMA AboutsAre ==
  ASSUME NEW G, NEW X, Holding(G, X), NEW q \in Seq(G)
  PROVE  /\ Abouts(q) \in Seq(Seq(X)) /\ Len(Abouts(q)) = Len(q)
         /\ \A k \in 1..Len(q) : Abouts(q)[k] = q[k].about
<1>1. Len(q) \in Nat /\ \A k \in 1..Len(q) : q[k] \in G
  BY LenProperties
<1>2. PICK n \in Nat : n = Len(q)
  BY <1>1
<1>3. \A k \in 1..n : q[k].about \in Seq(X)
  BY <1>1, <1>2 DEF Holding
<1>4. Abouts(q) = [k \in 1..n |-> q[k].about]
  BY <1>2 DEF Abouts
<1>5. Abouts(q) \in [1..n -> Seq(X)]
  BY <1>3, <1>4
<1>6. Abouts(q) \in Seq(Seq(X)) /\ Len(Abouts(q)) = n
  BY <1>5, ListOf
<1> QED BY <1>2, <1>4, <1>6

LEMMA AboutsAppend ==
  ASSUME NEW G, NEW X, Holding(G, X), NEW q \in Seq(G), NEW g \in G
  PROVE  Abouts(Append(q, g)) = Append(Abouts(q), g.about)
<1>1. PICK t \in Seq(G) : t = Append(q, g)
  BY AppendProperties
<1>2. /\ Len(t) = Len(q) + 1 /\ Len(q) \in Nat /\ t[Len(q) + 1] = g
      /\ \A i \in 1..Len(q) : t[i] = q[i]
  BY <1>1, AppendProperties, LenProperties
<1>3. /\ Abouts(t) \in Seq(Seq(X)) /\ Len(Abouts(t)) = Len(t)
      /\ \A k \in 1..Len(t) : Abouts(t)[k] = t[k].about
  BY AboutsAre
<1>4. /\ Abouts(q) \in Seq(Seq(X)) /\ Len(Abouts(q)) = Len(q)
      /\ \A k \in 1..Len(q) : Abouts(q)[k] = q[k].about
  BY AboutsAre
<1>5. g.about \in Seq(X)
  BY DEF Holding
<1>6. PICK a \in Seq(Seq(X)), e \in Seq(X) : a = Abouts(q) /\ e = g.about
  BY <1>4, <1>5
<1>7. /\ Append(a, e) \in Seq(Seq(X)) /\ Len(Append(a, e)) = Len(a) + 1
      /\ Append(a, e)[Len(a) + 1] = e
      /\ \A i \in 1..Len(a) : Append(a, e)[i] = a[i]
  BY AppendProperties
<1>8. PICK l \in Seq(Seq(X)) : l = Append(a, e)
  BY <1>7
<1>9. ASSUME NEW k \in 1..Len(Abouts(t)) PROVE Abouts(t)[k] = l[k]
  <2>1. k \in 1..Len(q) \/ k = Len(q) + 1
    BY <1>2, <1>3
  <2>2. CASE k \in 1..Len(q)
    <3>1. k \in 1..Len(t) /\ k \in 1..Len(a)
      BY <1>2, <1>4, <1>6, <2>2
    <3>2. Abouts(t)[k] = q[k].about /\ l[k] = a[k] /\ a[k] = q[k].about
      BY <1>2, <1>3, <1>4, <1>6, <1>7, <1>8, <2>2, <3>1
    <3> QED BY <3>2
  <2>3. CASE k = Len(q) + 1
    <3>1. k \in 1..Len(t) /\ k = Len(a) + 1
      BY <1>2, <1>4, <1>6, <2>3
    <3>2. Abouts(t)[k] = t[k].about /\ t[k] = g
      BY <1>2, <1>3, <2>3, <3>1
    <3>3. l[k] = e
      BY <1>7, <1>8, <3>1
    <3> QED BY <1>6, <3>2, <3>3
  <2> QED BY <2>1, <2>2, <2>3
<1>10. Len(Abouts(t)) = Len(l)
  BY <1>2, <1>3, <1>4, <1>6, <1>7, <1>8
<1>11. Abouts(t) = l
  BY <1>3, <1>8, <1>9, <1>10, SeqEqual
<1> QED BY <1>1, <1>6, <1>8, <1>11

\* A group without anything adds no item.
LEMMA DropEmpty ==
  ASSUME NEW G, NEW X, Holding(G, X), NEW S, \A g \in G : g \notin S => g.about = <<>>,
         NEW s \in Seq(G)
  PROVE  FlattenSeq(Abouts(Keep(s, S))) = FlattenSeq(Abouts(s))
<1> DEFINE T == {q \in Seq(G) : FlattenSeq(Abouts(Keep(q, S))) = FlattenSeq(Abouts(q))}
<1>1. <<>> \in T
  BY KeepEmpty, EmptySeq
<1>2. ASSUME NEW q \in Seq(G), NEW e \in G, q \in T PROVE Append(q, e) \in T
  <2>1. /\ Append(q, e) \in Seq(G) /\ Keep(q, S) \in Seq(G) /\ e.about \in Seq(X)
        /\ FlattenSeq(Abouts(Keep(q, S))) = FlattenSeq(Abouts(q))
    BY <1>2, AppendProperties, KeepIsSeq DEF Holding
  <2>2. /\ Abouts(q) \in Seq(Seq(X)) /\ Abouts(Append(q, e)) = Append(Abouts(q), e.about)
    BY AboutsAre, AboutsAppend
  <2>3. FlattenSeq(Append(Abouts(q), e.about)) = FlattenSeq(Abouts(q)) \o e.about
    BY <2>1, <2>2, FlattenAppend
  <2>4. CASE e \in S
    <3>1. Keep(Append(q, e), S) = Append(Keep(q, S), e)
      BY <2>4, KeepWanted
    <3>2. PICK p \in Seq(G) : p = Keep(q, S)
      BY <2>1
    <3>3. Abouts(p) \in Seq(Seq(X)) /\ Abouts(Append(p, e)) = Append(Abouts(p), e.about)
      BY AboutsAre, AboutsAppend
    <3>4. FlattenSeq(Append(Abouts(p), e.about)) = FlattenSeq(Abouts(p)) \o e.about
      BY <2>1, <3>3, FlattenAppend
    <3> QED BY <2>1, <2>2, <2>3, <3>1, <3>2, <3>3, <3>4
  <2>5. CASE e \notin S
    <3>1. Keep(Append(q, e), S) = Keep(q, S) /\ e.about = <<>>
      BY <2>5, KeepUnwanted
    <3>2. FlattenSeq(Abouts(q)) \in Seq(X)
      BY <2>2, FlattenIsSeq
    <3>3. FlattenSeq(Abouts(q)) \o <<>> = FlattenSeq(Abouts(q))
      BY <3>2, ConcatEmptySeq
    <3> QED BY <2>1, <2>2, <2>3, <3>1, <3>3
  <2> QED BY <2>4, <2>5
<1> HIDE DEF T
<1>3. Seq(G) \subseteq T
  BY <1>1, <1>2, SequencesByInduction
<1> QED BY <1>3 DEF T

LEMMA Tuples ==
  ASSUME NEW A, NEW c \in A, NEW m \in A, NEW r \in A, NEW i \in A
  PROVE  /\ Append(<<>>, c) = <<c>> /\ Append(<<c>>, m) = <<c, m>>
         /\ Append(<<c, m>>, r) = <<c, m, r>> /\ Append(<<c, m, r>>, i) = <<c, m, r, i>>
<1>0. \A s, t \in Seq(A) : (Len(s) = Len(t) /\ \A k \in 1..Len(s) : s[k] = t[k]) => s = t
  BY SeqEqual
<1>1. Append(<<>>, c) = <<c>>
  OBVIOUS
<1>2. Append(<<c>>, m) = <<c, m>>
  <2>1. /\ <<c>> \in Seq(A) /\ Len(<<c>>) = 1 /\ <<c>>[1] = c
        /\ <<c, m>> \in Seq(A) /\ Len(<<c, m>>) = 2 /\ <<c, m>>[1] = c /\ <<c, m>>[2] = m
    OBVIOUS
  <2> DEFINE p == <<c>>
             q == <<c, m>>
  <2> HIDE DEF p, q
  <2>2. Append(p, m) = q
    <3>1. /\ Append(p, m) \in Seq(A) /\ Len(Append(p, m)) = 2
          /\ Append(p, m)[1] = c /\ Append(p, m)[2] = m
      BY <2>1, AppendProperties DEF p
    <3>2. /\ q \in Seq(A) /\ Len(q) = 2
          /\ \A k \in 1..2 : Append(p, m)[k] = q[k]
      <4>1. \A k \in 1..2 : k = 1 \/ k = 2
        OBVIOUS
      <4> QED BY <2>1, <3>1, <4>1 DEF q
    <3> QED BY <1>0, <3>1, <3>2
  <2> QED BY <2>2 DEF p, q
<1>3. Append(<<c, m>>, r) = <<c, m, r>>
  <2>1. /\ <<c, m>> \in Seq(A) /\ Len(<<c, m>>) = 2 /\ <<c, m>>[1] = c /\ <<c, m>>[2] = m
        /\ <<c, m, r>> \in Seq(A) /\ Len(<<c, m, r>>) = 3
        /\ <<c, m, r>>[1] = c /\ <<c, m, r>>[2] = m /\ <<c, m, r>>[3] = r
    OBVIOUS
  <2> DEFINE p == <<c, m>>
             q == <<c, m, r>>
  <2> HIDE DEF p, q
  <2>2. Append(p, r) = q
    <3>1. /\ Append(p, r) \in Seq(A) /\ Len(Append(p, r)) = 3
          /\ Append(p, r)[1] = c /\ Append(p, r)[2] = m /\ Append(p, r)[3] = r
      BY <2>1, AppendProperties DEF p
    <3>2. /\ q \in Seq(A) /\ Len(q) = 3
          /\ \A k \in 1..3 : Append(p, r)[k] = q[k]
      <4>1. \A k \in 1..3 : k = 1 \/ k = 2 \/ k = 3
        OBVIOUS
      <4> QED BY <2>1, <3>1, <4>1 DEF q
    <3> QED BY <1>0, <3>1, <3>2
  <2> QED BY <2>2 DEF p, q
<1>4. Append(<<c, m, r>>, i) = <<c, m, r, i>>
  <2>1. /\ <<c, m, r>> \in Seq(A) /\ Len(<<c, m, r>>) = 3
        /\ <<c, m, r>>[1] = c /\ <<c, m, r>>[2] = m /\ <<c, m, r>>[3] = r
        /\ <<c, m, r, i>> \in Seq(A) /\ Len(<<c, m, r, i>>) = 4
        /\ <<c, m, r, i>>[1] = c /\ <<c, m, r, i>>[2] = m /\ <<c, m, r, i>>[3] = r
        /\ <<c, m, r, i>>[4] = i
    OBVIOUS
  <2> DEFINE p == <<c, m, r>>
             q == <<c, m, r, i>>
  <2> HIDE DEF p, q
  <2>2. Append(p, i) = q
    <3>1. /\ Append(p, i) \in Seq(A) /\ Len(Append(p, i)) = 4
          /\ Append(p, i)[1] = c /\ Append(p, i)[2] = m /\ Append(p, i)[3] = r
          /\ Append(p, i)[4] = i
      BY <2>1, AppendProperties DEF p
    <3>2. /\ q \in Seq(A) /\ Len(q) = 4
          /\ \A k \in 1..4 : Append(p, i)[k] = q[k]
      <4>1. \A k \in 1..4 : k = 1 \/ k = 2 \/ k = 3 \/ k = 4
        OBVIOUS
      <4> QED BY <2>1, <3>1, <4>1 DEF q
    <3> QED BY <1>0, <3>1, <3>2
  <2> QED BY <2>2 DEF p, q
<1> QED BY <1>1, <1>2, <1>3, <1>4

Flattens(X, c, m, r, i, e) ==
  /\ Append(<<c, m, r, i>>, e) \in Seq(Seq(X))
  /\ FlattenSeq(Append(<<c, m, r, i>>, e)) = (c \o m \o r \o i) \o e

LEMMA FlattenFour ==
  ASSUME NEW X, NEW c \in Seq(X), NEW m \in Seq(X), NEW r \in Seq(X), NEW i \in Seq(X), NEW e \in Seq(X)
  PROVE  Flattens(X, c, m, r, i, e)
<1>1. <<>> \in Seq(X) /\ <<>> \in Seq(Seq(X)) /\ FlattenSeq(<<>>) = <<>>
  BY EmptySeq, FlattenEmpty
<1> DEFINE Grows(q, l) == Append(q, l) \in Seq(Seq(X)) /\ FlattenSeq(Append(q, l)) = FlattenSeq(q) \o l
<1>2. \A q \in Seq(Seq(X)), l \in Seq(X) : Grows(q, l)
  BY FlattenAppend, AppendProperties
<1> HIDE DEF Grows
<1>3. /\ Append(<<>>, c) = <<c>> /\ Append(<<c>>, m) = <<c, m>>
      /\ Append(<<c, m>>, r) = <<c, m, r>> /\ Append(<<c, m, r>>, i) = <<c, m, r, i>>
  BY Tuples
<1>4. <<>> \o c = c
  BY ConcatEmptySeq
<1>5. <<c>> \in Seq(Seq(X)) /\ FlattenSeq(<<c>>) = c
  <2>1. Grows(<<>>, c)
    BY <1>1, <1>2, Zenon
  <2> QED BY <1>1, <1>3, <1>4, <2>1 DEF Grows
<1>6. <<c, m>> \in Seq(Seq(X)) /\ FlattenSeq(<<c, m>>) = c \o m
  <2>1. Grows(<<c>>, m)
    BY <1>5, <1>2, Zenon
  <2> QED BY <1>3, <1>5, <2>1 DEF Grows
<1>7. <<c, m, r>> \in Seq(Seq(X)) /\ FlattenSeq(<<c, m, r>>) = c \o m \o r
  <2>1. Grows(<<c, m>>, r)
    BY <1>6, <1>2, Zenon
  <2> QED BY <1>3, <1>6, <2>1 DEF Grows
<1>8. <<c, m, r, i>> \in Seq(Seq(X)) /\ FlattenSeq(<<c, m, r, i>>) = c \o m \o r \o i
  <2>1. Grows(<<c, m, r>>, i)
    BY <1>7, <1>2, Zenon
  <2> QED BY <1>3, <1>7, <2>1 DEF Grows
<1>9. Grows(<<c, m, r, i>>, e)
  BY <1>8, <1>2, Zenon
<1> QED BY <1>8, <1>9 DEF Grows, Flattens

\* The groups in their order make up the cards, in their order, and then the permits.
LEMMA GroupsAre ==
  ASSUME NEW ev, WellFormed(ev)
  PROVE  LET X == RuleIds \cup RegulationCodes
             codes == Codes(Permits(ev.regs))
         IN  /\ Holding(ToSet(Groups(ev)), X) /\ Groups(ev) \in Seq(ToSet(Groups(ev)))
             /\ ev.cards \in Seq(X) /\ codes \in Seq(X) /\ Len(codes) = Len(Permits(ev.regs))
             /\ FlattenSeq(Abouts(Groups(ev))) = ev.cards \o codes
<1> DEFINE X == RuleIds \cup RegulationCodes
           permits == Permits(ev.regs)
           codes == Codes(permits)
           c == OfSeverity(ev.cards, "critical")
           m == OfSeverity(ev.cards, "major")
           r == OfSeverity(ev.cards, "review")
           i == OfSeverity(ev.cards, "info")
           four == <<Group("critical", c), Group("major", m), Group("review", r), Group("info", i)>>
           last == Group("regulation", codes)
           G == {Group("critical", c), Group("major", m), Group("review", r), Group("info", i), last}
<1>1. /\ ev.cards \in Seq(RuleIds) /\ BySeverity(ev.cards) = ev.cards
      /\ ev.regs \in Seq([code: RegulationCodes, permit: BOOLEAN])
  BY DEF WellFormed, IsEvaluation
<1>2. \A A, B : A \subseteq B => Seq(A) \subseteq Seq(B)
  OBVIOUS
<1>3. ev.cards \in Seq(X) /\ Seq(RuleIds) \subseteq Seq(X)
  <2>1. Seq(RuleIds) \subseteq Seq(X)
    BY <1>2
  <2> QED BY <1>1, <2>1
<1>4. c \in Seq(X) /\ m \in Seq(X) /\ r \in Seq(X) /\ i \in Seq(X)
  BY <1>3, KeepIsSeq DEF OfSeverity
<1>5. permits \in Seq([code: RegulationCodes, permit: BOOLEAN])
  BY <1>1, KeepIsSeq DEF Permits
<1> HIDE DEF permits
<1>6. codes \in Seq(X) /\ Len(codes) = Len(permits)
  <2>1. Len(permits) \in Nat /\ \A k \in 1..Len(permits) : permits[k] \in [code: RegulationCodes, permit: BOOLEAN]
    BY <1>5, LenProperties
  <2>2. PICK n \in Nat : n = Len(permits)
    BY <2>1
  <2>3. \A k \in 1..n : permits[k].code \in X
    BY <2>1, <2>2
  <2>4. codes = [k \in 1..n |-> permits[k].code]
    BY <2>2 DEF Codes
  <2>5. codes \in [1..n -> X]
    BY <2>3, <2>4
  <2> HIDE DEF codes, X
  <2>6. codes \in Seq(X) /\ Len(codes) = n
    BY <2>5, ListOf
  <2> QED BY <2>2, <2>6
<1>7. OfSeverities(ev.cards) = four
  BY DEF OfSeverities, Severities
<1> HIDE DEF c, m, r, i, codes, X
<1>8. Groups(ev) = four \o <<last>>
  BY <1>7 DEF Groups, codes, permits
<1>9. four \in Seq(G) /\ last \in G
  OBVIOUS
<1>10. Groups(ev) = Append(four, last)
  <2> HIDE DEF four, last, G
  <2>1. Append(four, last) = four \o <<last>>
    BY <1>9, AppendIsConcat
  <2> QED BY <1>8, <2>1
<1>11. Holding(G, X)
  BY <1>4, <1>6 DEF Holding, Group
<1>12. Abouts(four) = <<c, m, r, i>>
  BY DEF Abouts, Group
<1>13. last.about = codes
  BY DEF Group
<1> HIDE DEF four, last, G
<1>14. Abouts(Groups(ev)) = Append(<<c, m, r, i>>, codes)
  BY <1>9, <1>10, <1>11, <1>12, <1>13, AboutsAppend
<1>15. FlattenSeq(Abouts(Groups(ev))) = (c \o m \o r \o i) \o codes
  <2>1. Flattens(X, c, m, r, i, codes)
    BY <1>4, <1>6, FlattenFour
  <2> QED BY <1>14, <2>1 DEF Flattens
<1>16. c \o m \o r \o i = ev.cards
  BY <1>1 DEF BySeverity, c, m, r, i
<1>17. Groups(ev) \in Seq(G)
  BY <1>9, <1>10, AppendProperties
<1>18. Groups(ev) \in Seq(ToSet(Groups(ev))) /\ ToSet(Groups(ev)) \subseteq G
  BY <1>17, ElementsIn DEF ToSet
<1>19. Holding(ToSet(Groups(ev)), X)
  BY <1>11, <1>18 DEF Holding
<1> QED BY <1>3, <1>6, <1>15, <1>16, <1>18, <1>19 DEF codes, permits, X
\* Empty groups dropped and the items numbered, the checklist is the cards and the permits.
LEMMA ChecklistIs ==
  ASSUME NEW ev, WellFormed(ev)
  PROVE  LET all == ev.cards \o Codes(Permits(ev.regs))
         IN  Items(Checklist(ev)) = Listing(all) /\ Checklist(ev).total = Len(all)
<1> DEFINE X == RuleIds \cup RegulationCodes
           gs == Groups(ev)
           S == {g \in ToSet(gs) : g.about # <<>>}
           groups == Keep(gs, S)
           abouts == Abouts(groups)
           all == ev.cards \o Codes(Permits(ev.regs))
           sections == [k \in 1..Len(groups) |-> [name |-> groups[k].name, items |-> Numbered(abouts, k)]]
<1>1. Holding(ToSet(gs), X) /\ gs \in Seq(ToSet(gs)) /\ FlattenSeq(Abouts(gs)) = all
  BY GroupsAre
<1>2. \A g \in ToSet(gs) : g \notin S => g.about = <<>>
  OBVIOUS
<1>3. Checklist(ev).sections = sections /\ Checklist(ev).total = Len(FlattenSeq(abouts))
  BY DEF Checklist
<1> HIDE DEF gs, S, X, all
<1>4. groups \in Seq(ToSet(gs)) /\ FlattenSeq(abouts) = all
  <2>1. FlattenSeq(Abouts(Keep(gs, S))) = FlattenSeq(Abouts(gs))
    BY <1>1, <1>2, DropEmpty
  <2> QED BY <1>1, <2>1, KeepIsSeq
<1> HIDE DEF groups
<1>5. abouts \in Seq(Seq(X)) /\ Len(abouts) = Len(groups) /\ Len(groups) \in Nat
  BY <1>1, <1>4, AboutsAre, LenProperties
<1> HIDE DEF abouts
<1>6. /\ Len(sections) = Len(groups)
      /\ \A k \in 1..Len(groups) : sections[k].items = Numbered(abouts, k)
  <2>1. PICK n \in Nat : n = Len(groups)
    BY <1>5
  <2>2. sections = [k \in 1..n |-> [name |-> groups[k].name, items |-> Numbered(abouts, k)]]
    BY <2>1
  <2>3. sections \in [1..n -> {[name |-> groups[k].name, items |-> Numbered(abouts, k)] : k \in 1..n}]
    BY <2>2
  <2>4. \A k \in 1..n : sections[k].items = Numbered(abouts, k)
    BY <2>2
  <2> HIDE DEF sections
  <2>5. Len(sections) = n
    BY <2>3, ListOf
  <2> QED BY <2>1, <2>4, <2>5
<1> HIDE DEF sections
<1>7. [k \in 1..Len(sections) |-> sections[k].items] = NumberedAll(abouts)
  BY <1>5, <1>6 DEF NumberedAll
<1>8. Items(Checklist(ev)) = FlattenSeq(NumberedAll(abouts))
  BY <1>3, <1>7 DEF Items
<1>9. FlattenSeq(NumberedAll(abouts)) = Listing(FlattenSeq(abouts))
  BY <1>5, NumberedThrough
<1> QED BY <1>3, <1>4, <1>8, <1>9 DEF all

\* The checklist has an item for each card and each regulation that asks for a permit, in
\* their order, and for nothing else; its items are numbered through; and so is its total.
THEOREM ChecklistIsComplete == Spec => []ChecklistAccountsForAll
<1>1. IInv => ChecklistAccountsForAll
  <2> SUFFICES ASSUME IInv, reply.kind = "checklist" PROVE ChecklistAccountsForAll
    BY DEF ChecklistAccountsForAll
  <2> DEFINE ev == reply.ev
             X == RuleIds \cup RegulationCodes
             permits == Permits(ev.regs)
             codes == Codes(permits)
             all == ev.cards \o codes
             items == Items(reply.list)
  <2>1. WellFormed(ev)
    <3>1. site \in Sites /\ WellFormed(stored.ev)
      BY RecordIs DEF IInv
    <3>2. reply.rec \in Receptions /\ ev = (IF UsesRecord THEN stored.ev ELSE Evaluated[site][reply.rec])
      BY DEF IInv, Answered
    <3>3. WellFormed(Evaluated[site][reply.rec])
      BY <3>1, <3>2, EvaluatedIs
    <3> QED BY <3>1, <3>2, <3>3
  <2>2. items = Listing(all) /\ reply.list.total = Len(all)
    <3>1. reply.list = Checklist(ev)
      BY DEF IInv, Answered
    <3> QED BY <2>1, <3>1, ChecklistIs
  <2>3. ev.cards \in Seq(X) /\ codes \in Seq(X) /\ Len(codes) = Len(permits)
    BY <2>1, GroupsAre
  <2> HIDE DEF items, X, codes, permits
  <2>4. /\ all \in Seq(X) /\ Len(all) = Len(ev.cards) + Len(codes)
        /\ Len(ev.cards) \in Nat /\ Len(codes) \in Nat
        /\ \A i \in 1..Len(ev.cards) : all[i] = ev.cards[i]
        /\ \A i \in 1..Len(codes) : all[Len(ev.cards) + i] = codes[i]
    <3> DEFINE Joins(s, t) ==
          /\ s \o t \in Seq(X) /\ Len(s \o t) = Len(s) + Len(t)
          /\ Len(s) \in Nat /\ Len(t) \in Nat
          /\ \A i \in 1..Len(s) : (s \o t)[i] = s[i]
          /\ \A i \in 1..Len(t) : (s \o t)[Len(s) + i] = t[i]
    <3>1. \A s, t \in Seq(X) : Joins(s, t)
      BY ConcatIs
    <3> HIDE DEF Joins
    <3>2. Joins(ev.cards, codes)
      BY <2>3, <3>1, Zenon
    <3> QED BY <3>2 DEF Joins
  <2> HIDE DEF all
  <2>5. /\ Len(items) = Len(all)
        /\ \A i \in 1..Len(all) : items[i].id = i /\ items[i].about = all[i]
    BY <2>2, <2>4, ListingIs
  <2>6. \A i \in 1..Len(permits) : codes[i] = permits[i].code
    BY DEF codes, Codes
  <2>7. ASSUME NEW i \in 1..Len(ev.cards) PROVE items[i].about = ev.cards[i]
    <3>1. i \in 1..Len(all)
      BY <2>4
    <3> QED BY <2>4, <2>5, <3>1
  <2>8. ASSUME NEW i \in 1..Len(permits) PROVE items[Len(ev.cards) + i].about = permits[i].code
    <3>1. i \in 1..Len(codes) /\ Len(ev.cards) + i \in 1..Len(all)
      BY <2>3, <2>4
    <3> QED BY <2>4, <2>5, <2>6, <3>1
  <2>9. Len(items) = reply.list.total /\ Len(items) = Len(ev.cards) + Len(permits)
    BY <2>2, <2>3, <2>4, <2>5
  <2> QED BY <2>5, <2>7, <2>8, <2>9 DEF ChecklistAccountsForAll, items, permits
<1> QED BY <1>1, IInvHolds, PTL

-----------------------------------------------------------------------------
(* The expected opinions *)

\* Those that are put before the one at a place, its rank, and the one of a rank.
Above(ops, i) == {j \in 1..Len(ops) : \/ ops[j].pct > ops[i].pct
                                      \/ ops[j].pct = ops[i].pct /\ j < i}
RankOf(ops, i) == 1 + Cardinality(Above(ops, i))
PlaceOf(ops, k) == CHOOSE i \in 1..Len(ops) : RankOf(ops, i) = k

Rated(O) == \A o \in O : o.pct \in Int

LEMMA AboveIs ==
  ASSUME NEW O, Rated(O), NEW ops \in Seq(O)
  PROVE  /\ \A i \in 1..Len(ops) : i \notin Above(ops, i)
         /\ \A i, j \in 1..Len(ops) : i # j => i \in Above(ops, j) \/ j \in Above(ops, i)
         /\ \A i, j \in 1..Len(ops) : j \in Above(ops, i) => Above(ops, j) \subseteq Above(ops, i)
<1>1. Len(ops) \in Nat /\ \A i \in 1..Len(ops) : ops[i].pct \in Int
  BY LenProperties DEF Rated
<1> QED BY <1>1 DEF Above

\* Every rank is taken, by one opinion.
LEMMA RankIs ==
  ASSUME NEW O, Rated(O), NEW ops \in Seq(O)
  PROVE  /\ \A i, j \in 1..Len(ops) : j \in Above(ops, i) => RankOf(ops, j) < RankOf(ops, i)
         /\ \A k \in 1..Len(ops) : PlaceOf(ops, k) \in 1..Len(ops) /\ RankOf(ops, PlaceOf(ops, k)) = k
<1> DEFINE n == Len(ops)
<1>1. n \in Nat
  BY LenProperties
<1>2. IsFiniteSet(1..n) /\ Cardinality(1..n) = n
  BY <1>1, FS_Interval
<1>3. ASSUME NEW i \in 1..n
      PROVE  /\ IsFiniteSet(Above(ops, i)) /\ Cardinality(Above(ops, i)) \in Nat
             /\ Cardinality(Above(ops, i)) < n
  <2>1. Above(ops, i) \in SUBSET (1..n) /\ Above(ops, i) # 1..n
    BY AboveIs DEF Above
  <2>2. /\ IsFiniteSet(Above(ops, i)) /\ Cardinality(Above(ops, i)) <= n
        /\ Cardinality(Above(ops, i)) # n
    BY <1>2, <2>1, FS_Subset
  <2>3. Cardinality(Above(ops, i)) \in Nat
    BY <2>2, FS_CardinalityType
  <2> QED BY <1>1, <2>2, <2>3
<1>4. ASSUME NEW i \in 1..n, NEW j \in 1..n, j \in Above(ops, i)
      PROVE  RankOf(ops, j) < RankOf(ops, i)
  <2>1. Above(ops, j) \in SUBSET Above(ops, i) /\ Above(ops, j) # Above(ops, i)
    BY <1>4, AboveIs
  <2>2. /\ Cardinality(Above(ops, j)) <= Cardinality(Above(ops, i))
        /\ Cardinality(Above(ops, j)) # Cardinality(Above(ops, i))
    BY <1>3, <2>1, FS_Subset
  <2> QED BY <1>3, <2>2 DEF RankOf
<1>5. \A i \in 1..n : RankOf(ops, i) \in 1..n
  BY <1>1, <1>3 DEF RankOf
<1> DEFINE f == [i \in 1..n |-> RankOf(ops, i)]
<1>6. ASSUME NEW i \in 1..n, NEW j \in 1..n, RankOf(ops, i) = RankOf(ops, j)
      PROVE  i = j
  <2>1. ~(RankOf(ops, i) < RankOf(ops, j)) /\ ~(RankOf(ops, j) < RankOf(ops, i))
    BY <1>5, <1>6
  <2> QED BY <1>4, <2>1, AboveIs
<1>7. f \in Injection(1..n, 1..n)
  <2>1. f \in [1..n -> 1..n]
    BY <1>5
  <2>2. IsInjective(f)
    BY <1>6 DEF IsInjective
  <2> QED BY <2>1, <2>2 DEF Injection
<1>8. f \in Surjection(1..n, 1..n)
  BY <1>2, <1>7, FS_Injection
<1>9. \A k \in 1..n : \E i \in 1..n : RankOf(ops, i) = k
  BY <1>8 DEF Surjection
<1> QED BY <1>4, <1>9 DEF PlaceOf

\* Ranked reorders: no opinion is added or told twice, and none has a likelier one after it.
LEMMA RankedIs ==
  ASSUME NEW O, Rated(O), NEW ops \in Seq(O)
  PROVE  /\ Ranked(ops) \in Seq(O) /\ Len(Ranked(ops)) = Len(ops)
         /\ \A k \in 1..Len(ops) : PlaceOf(ops, k) \in 1..Len(ops) /\ Ranked(ops)[k] = ops[PlaceOf(ops, k)]
         /\ \A k, l \in 1..Len(ops) : k < l => /\ PlaceOf(ops, k) # PlaceOf(ops, l)
                                               /\ Ranked(ops)[l].pct <= Ranked(ops)[k].pct
<1>1. Len(ops) \in Nat /\ \A i \in 1..Len(ops) : ops[i] \in O /\ ops[i].pct \in Int
  BY LenProperties DEF Rated
<1>2. PICK n \in Nat : n = Len(ops)
  BY <1>1
<1>3. Ranked(ops) = [k \in 1..n |-> ops[PlaceOf(ops, k)]]
  BY <1>2 DEF Ranked, PlaceOf, RankOf, Above
<1>4. \A k \in 1..n : PlaceOf(ops, k) \in 1..n /\ RankOf(ops, PlaceOf(ops, k)) = k
  BY <1>2, RankIs
<1>5. Ranked(ops) \in [1..n -> O] /\ \A k \in 1..n : Ranked(ops)[k] = ops[PlaceOf(ops, k)]
  BY <1>1, <1>2, <1>3, <1>4
<1>6. Ranked(ops) \in Seq(O) /\ Len(Ranked(ops)) = n
  BY <1>5, ListOf
<1>7. ASSUME NEW k \in 1..n, NEW l \in 1..n, k < l
      PROVE  PlaceOf(ops, k) # PlaceOf(ops, l) /\ Ranked(ops)[l].pct <= Ranked(ops)[k].pct
  <2> DEFINE p == PlaceOf(ops, k)
             q == PlaceOf(ops, l)
  <2>1. /\ p \in 1..n /\ q \in 1..n /\ RankOf(ops, p) = k /\ RankOf(ops, q) = l
        /\ Ranked(ops)[k] = ops[p] /\ Ranked(ops)[l] = ops[q]
    BY <1>4, <1>5
  <2> HIDE DEF p, q
  <2>2. p # q
    BY <1>7, <2>1
  <2>3. q \notin Above(ops, p)
    <3>1. ~(RankOf(ops, q) < RankOf(ops, p))
      BY <1>7, <2>1
    <3> QED BY <1>2, <2>1, <3>1, RankIs
  <2>4. ops[q].pct \in Int /\ ops[p].pct \in Int /\ ~(ops[q].pct > ops[p].pct)
    BY <1>1, <1>2, <2>1, <2>3 DEF Above
  <2>5. ops[q].pct <= ops[p].pct
    BY <2>4
  <2> QED BY <2>1, <2>2, <2>5 DEF p, q
<1>8. \A k, l \in 1..n : k < l => /\ PlaceOf(ops, k) # PlaceOf(ops, l)
                                 /\ Ranked(ops)[l].pct <= Ranked(ops)[k].pct
  BY <1>7
<1>9. \A k \in 1..n : PlaceOf(ops, k) \in 1..n /\ Ranked(ops)[k] = ops[PlaceOf(ops, k)]
  BY <1>4, <1>5
<1> QED BY <1>2, <1>6, <1>8, <1>9

\* What the opinions are given of, each subject once, and how likely they were: the subjects of
\* the past issues that are looked at, or those of the program.
Top(type) == First(10, Predicted(type).issues)
Chosen(type) ==
  {i \in 1..Len(Top(type)) : /\ Top(type)[i].subject # "none"
                             /\ \A j \in 1..(i - 1) : Top(type)[j].subject # Top(type)[i].subject}
Bases(type) ==
  IF Predicted(type).issues # <<>> /\ Predicted(type).total > 0
  THEN {<<Top(type)[i].subject, Top(type)[i].pct>> : i \in Chosen(type)}
  ELSE {DefaultSubjects[i] : i \in 1..6}
GivenOf(type, cards) == {Opinion(b[1], b[2], cards) : b \in Bases(type)}
AllOpinions(type, cards) ==
  IF Predicted(type).issues # <<>> /\ Predicted(type).total > 0
  THEN FromPatterns(Predicted(type).issues, cards) ELSE DefaultOpinions(cards)
Different(ops) == \A k, l \in 1..Len(ops) : ops[k].subject = ops[l].subject => k = l

LEMMA OpinionIs ==
  ASSUME NEW subject, NEW pct \in Int, NEW cards
  PROVE  LET o == Opinion(subject, pct, cards) IN
         /\ o.subject = subject /\ o.pct \in Int
         /\ cards = <<>> => o.pct = pct
         /\ o.matched /\ pct < 99 => o.pct > pct
<1>1. cards = <<>> => ToSet(cards) = {}
  BY EmptySeq DEF ToSet
<1> DEFINE matched == ToSet(cards) \cap Speaks[subject] # {}
           raised == IF matched THEN MinOf(pct + 5, 99) ELSE pct
           o == Opinion(subject, pct, cards)
<1>2. /\ o.subject = subject /\ o.pct = raised /\ (o.matched <=> matched)
  BY Zenon DEF Opinion
<1>3. cards = <<>> => ~matched
  BY <1>1
<1> HIDE DEF matched, o
<1>4. /\ raised \in Int /\ (~matched => raised = pct)
      /\ matched /\ pct < 99 => raised > pct
  BY DEF MinOf
<1> QED BY <1>2, <1>3, <1>4 DEF o

LEMMA TopIs ==
  ASSUME NEW type
  PROVE  Top(type) \in Seq(PastIssue) /\ \A i \in 1..Len(Top(type)) : Top(type)[i].pct \in Int
<1>1. Predicted(type).issues \in Seq(PastIssue)
  <2> DEFINE kind == KoreanTypes[type][1]
  <2>1. CASE kind \in DOMAIN Archive
    BY <2>1, ArchiveAssumption DEF Predicted
  <2>2. CASE kind \notin DOMAIN Archive
    <3>1. Predicted(type).issues = <<>>
      BY <2>2 DEF Predicted
    <3> QED BY <3>1, EmptySeq
  <2> QED BY <2>1, <2>2
<1>2. Top(type) \in Seq(PastIssue)
  BY <1>1, FirstIs DEF Top
<1>3. \A i \in 1..Len(Top(type)) : Top(type)[i] \in PastIssue
  BY <1>2, LenProperties
<1>4. \A issue \in PastIssue : issue.pct \in Int
  BY DEF PastIssue
<1> QED BY <1>2, <1>3, <1>4

LEMMA BasesAre ==
  ASSUME NEW type
  PROVE  /\ \A b \in Bases(type) : b[2] \in Int
         /\ \A b, c \in Bases(type) : b[1] = c[1] => b[2] = c[2]
<1>1. CASE Predicted(type).issues # <<>> /\ Predicted(type).total > 0
  <2>1. Bases(type) = {<<Top(type)[i].subject, Top(type)[i].pct>> : i \in Chosen(type)}
    BY <1>1 DEF Bases
  <2>2. Len(Top(type)) \in Nat /\ \A i \in 1..Len(Top(type)) : Top(type)[i].pct \in Int
    BY TopIs, LenProperties
  <2>3. \A i \in Chosen(type) : i \in 1..Len(Top(type))
    BY DEF Chosen
  <2>4. ASSUME NEW i \in Chosen(type), NEW j \in Chosen(type), Top(type)[i].subject = Top(type)[j].subject
        PROVE  i = j
    <3>1. ~(i < j) /\ ~(j < i)
      BY <2>2, <2>4 DEF Chosen
    <3> QED BY <2>2, <2>3, <3>1
  <2> QED BY <2>1, <2>2, <2>3, <2>4
<1>2. CASE ~(Predicted(type).issues # <<>> /\ Predicted(type).total > 0)
  <2>1. Bases(type) = {DefaultSubjects[i] : i \in 1..6}
    BY <1>2 DEF Bases
  <2>2. \A i \in 1..6 : i = 1 \/ i = 2 \/ i = 3 \/ i = 4 \/ i = 5 \/ i = 6
    OBVIOUS
  <2>3. \A i \in 1..6 : DefaultSubjects[i][2] \in Int
    BY <2>2 DEF DefaultSubjects
  <2>4. \A i, j \in 1..6 : DefaultSubjects[i][1] = DefaultSubjects[j][1] => i = j
    BY <2>2 DEF DefaultSubjects
  <2> QED BY <2>1, <2>3, <2>4
<1> QED BY <1>1, <1>2

\* All the opinions are given of them, one each.
LEMMA AllOpinionsAre ==
  ASSUME NEW type, NEW cards
  PROVE  AllOpinions(type, cards) \in Seq(GivenOf(type, cards)) /\ Different(AllOpinions(type, cards))
<1> DEFINE top == Top(type)
           S == Chosen(type)
           p == Keep(Places(top), S)
           G == GivenOf(type, cards)
           past == Predicted(type).issues # <<>> /\ Predicted(type).total > 0
<1>1. ASSUME past PROVE AllOpinions(type, cards) \in Seq(G) /\ Different(AllOpinions(type, cards))
  <2>1. top \in Seq(PastIssue) /\ Len(top) \in Nat /\ \A i \in 1..Len(top) : top[i].pct \in Int
    BY TopIs, LenProperties
  <2>2. /\ p \in Seq(1..Len(top)) /\ IsInjective(p) /\ ToSet(p) = (1..Len(top)) \cap S
    BY <2>1, PlacesOf, KeepIsSeq, KeepInjective, KeepSet
  <2>3. AllOpinions(type, cards) =
            [k \in 1..Len(p) |-> Opinion(top[p[k]].subject, top[p[k]].pct, cards)]
    BY <1>1 DEF AllOpinions, FromPatterns, Top, Chosen
  <2> HIDE DEF p
  <2>4. PICK n \in Nat : n = Len(p)
    BY <2>2, LenProperties
  <2>5. DOMAIN p = 1..n /\ \A k \in 1..n : p[k] \in 1..Len(top) /\ p[k] \in S
    <3>1. \A k \in 1..Len(p) : p[k] \in ToSet(p)
      BY <2>2, ElementsIn
    <3> QED BY <2>2, <2>4, <3>1, LenProperties
  <2> DEFINE Says1(k) == Opinion(top[p[k]].subject, top[p[k]].pct, cards)
  <2>6. \A k \in 1..n : Says1(k) \in G
    <3> TAKE k \in 1..n
    <3> DEFINE b == <<top[p[k]].subject, top[p[k]].pct>>
    <3>1. b \in Bases(type)
      BY <1>1, <2>5 DEF Bases
    <3>2. b[1] = top[p[k]].subject /\ b[2] = top[p[k]].pct
      OBVIOUS
    <3> HIDE DEF b
    <3>3. Opinion(b[1], b[2], cards) \in G
      BY <3>1 DEF GivenOf
    <3> QED BY <3>2, <3>3
  <2>7. \A k \in 1..n : Says1(k).subject = top[p[k]].subject
    BY <2>1, <2>5, OpinionIs
  <2> DEFINE f == [k \in 1..n |-> Says1(k)]
  <2>8. AllOpinions(type, cards) = f
    BY <2>3, <2>4
  <2>9. f \in [1..n -> G] /\ \A k \in 1..n : f[k].subject = top[p[k]].subject
    <3> HIDE DEF Says1, G
    <3> QED BY <2>6, <2>7
  <2> HIDE DEF f
  <2>10. f \in Seq(G) /\ Len(f) = n
    BY <2>9, ListOf
  <2>11. ASSUME NEW k \in 1..n, NEW l \in 1..n, f[k].subject = f[l].subject PROVE k = l
    <3>1. top[p[k]].subject = top[p[l]].subject
      BY <2>9, <2>11
    <3>2. p[k] \in S /\ p[l] \in S /\ p[k] \in 1..Len(top) /\ p[l] \in 1..Len(top)
      BY <2>5
    <3>3. ~(p[k] < p[l]) /\ ~(p[l] < p[k])
      BY <2>1, <3>1, <3>2 DEF Chosen
    <3>4. p[k] = p[l]
      BY <2>1, <3>2, <3>3
    <3> QED BY <2>2, <2>5, <3>4 DEF IsInjective
  <2> QED BY <2>8, <2>10, <2>11 DEF Different
<1>2. ASSUME ~past PROVE AllOpinions(type, cards) \in Seq(G) /\ Different(AllOpinions(type, cards))
  <2> DEFINE f == DefaultOpinions(cards)
  <2>1. \A i \in 1..6 : i = 1 \/ i = 2 \/ i = 3 \/ i = 4 \/ i = 5 \/ i = 6
    OBVIOUS
  <2>2. /\ \A i \in 1..6 : DefaultSubjects[i][2] \in Int
        /\ \A i, j \in 1..6 : DefaultSubjects[i][1] = DefaultSubjects[j][1] => i = j
    BY <2>1 DEF DefaultSubjects
  <2>3. Len(DefaultSubjects) = 6
    BY DEF DefaultSubjects
  <2>4. f = [i \in 1..6 |-> Opinion(DefaultSubjects[i][1], DefaultSubjects[i][2], cards)]
    BY <2>3 DEF DefaultOpinions
  <2>5. \A i \in 1..6 : DefaultSubjects[i] \in Bases(type)
    BY <1>2 DEF Bases
  <2>6. \A i \in 1..6 : Opinion(DefaultSubjects[i][1], DefaultSubjects[i][2], cards) \in G
    BY <2>5 DEF GivenOf
  <2>7. AllOpinions(type, cards) = f
    BY <1>2 DEF AllOpinions
  <2> HIDE DEF f, G
  <2>8. f \in [1..6 -> G] /\ \A i \in 1..6 : f[i] = Opinion(DefaultSubjects[i][1], DefaultSubjects[i][2], cards)
    BY <2>4, <2>6
  <2>9. f \in Seq(G) /\ Len(f) = 6
    BY <2>8, ListOf
  <2>10. \A i \in 1..6 : f[i].subject = DefaultSubjects[i][1]
    <3> TAKE i \in 1..6
    <3> DEFINE subject == DefaultSubjects[i][1]
               pct == DefaultSubjects[i][2]
    <3>1. pct \in Int /\ f[i] = Opinion(subject, pct, cards)
      BY <2>2, <2>8
    <3> HIDE DEF subject, pct
    <3>2. Opinion(subject, pct, cards).subject = subject
      BY <3>1, OpinionIs
    <3> QED BY <3>1, <3>2 DEF subject
  <2> QED BY <2>2, <2>7, <2>9, <2>10 DEF Different
<1> QED BY <1>1, <1>2

\* The opinions given: each is one of those on its subject, none has a likelier one after it,
\* and no subject is told twice.
LEMMA OpinionsAre ==
  ASSUME NEW type, NEW cards
  PROVE  LET ops == Opinions(type, cards) IN
         /\ \A i \in 1..Len(ops) : ops[i] \in GivenOf(type, cards) /\ ops[i].pct \in Int
         /\ \A i, j \in 1..Len(ops) : i < j => /\ ops[i].subject # ops[j].subject
                                               /\ ops[j].pct <= ops[i].pct
         /\ Len(ops) \in Nat
<1> DEFINE G == GivenOf(type, cards)
           all == AllOpinions(type, cards)
           ranked == Ranked(all)
           ops == First(5, ranked)
<1>1. all \in Seq(G) /\ Different(all)
  BY AllOpinionsAre
<1>2. Rated(G)
  <2>1. \A b \in Bases(type) : Opinion(b[1], b[2], cards).pct \in Int
    BY BasesAre, OpinionIs
  <2> QED BY <2>1 DEF Rated, GivenOf
<1>3. Opinions(type, cards) = ops
  BY DEF Opinions, AllOpinions
<1> HIDE DEF G, all
<1>4. /\ ranked \in Seq(G) /\ Len(ranked) = Len(all)
      /\ \A k \in 1..Len(all) : PlaceOf(all, k) \in 1..Len(all) /\ ranked[k] = all[PlaceOf(all, k)]
      /\ \A k, l \in 1..Len(all) : k < l => /\ PlaceOf(all, k) # PlaceOf(all, l)
                                            /\ ranked[l].pct <= ranked[k].pct
  BY <1>1, <1>2, RankedIs
<1>5. \A k, l \in 1..Len(ranked) : k < l => ranked[k].subject # ranked[l].subject
  BY <1>1, <1>4 DEF Different
<1> HIDE DEF ranked
<1>6. /\ ops \in Seq(G) /\ Len(ops) = (IF 5 < Len(ranked) THEN 5 ELSE Len(ranked))
      /\ \A i \in 1..Len(ops) : ops[i] = ranked[i]
  BY <1>4, FirstIs
<1> HIDE DEF ops
<1>7. Len(ops) \in Nat /\ Len(ranked) \in Nat /\ \A i \in 1..Len(ops) : ops[i] \in G
  BY <1>4, <1>6, LenProperties
<1>8. \A i \in 1..Len(ops) : i \in 1..Len(ranked) /\ i \in 1..Len(all)
  BY <1>4, <1>6, <1>7
<1>9. \A i \in 1..Len(ops) : ops[i].pct \in Int
  BY <1>2, <1>7 DEF Rated
<1>10. \A i, j \in 1..Len(ops) : i < j => ops[i].subject # ops[j].subject /\ ops[j].pct <= ops[i].pct
  BY <1>4, <1>5, <1>6, <1>8
<1> QED BY <1>3, <1>7, <1>9, <1>10 DEF G

\* Whatever the past projects say, a risk raises the opinion on its subject unless it is at the
\* cap already, and the opinions given are of different subjects, the likeliest first.
THEOREM RiskRaisesTheOpinion == Spec => []RiskNeverLowersAnOpinion
<1>1. IInv => RiskNeverLowersAnOpinion
  <2> SUFFICES ASSUME IInv, reply.kind = "opinions" PROVE RiskNeverLowersAnOpinion
    BY DEF RiskNeverLowersAnOpinion
  <2>1. PICK cards : reply.opinions = Opinions(site.type, cards)
    BY DEF IInv, Answered
  <2> DEFINE ops == reply.opinions
             without == Opinions(site.type, <<>>)
             B == Bases(site.type)
  <2>2. /\ \A i \in 1..Len(ops) : ops[i] \in GivenOf(site.type, cards) /\ ops[i].pct \in Int
        /\ \A i, j \in 1..Len(ops) : i < j => /\ ops[i].subject # ops[j].subject
                                              /\ ops[j].pct <= ops[i].pct
        /\ Len(ops) \in Nat
    BY <2>1, OpinionsAre
  <2>3. \A k \in 1..Len(without) : without[k] \in GivenOf(site.type, <<>>)
    BY OpinionsAre
  <2>4. ASSUME NEW i \in 1..Len(ops), ops[i].matched, NEW k \in 1..Len(without),
               without[k].subject = ops[i].subject, without[k].pct < 99
        PROVE  ops[i].pct > without[k].pct
    <3>1. PICK b \in B : ops[i] = Opinion(b[1], b[2], cards)
      BY <2>2 DEF GivenOf
    <3>2. PICK c \in B : without[k] = Opinion(c[1], c[2], <<>>)
      BY <2>3 DEF GivenOf
    <3>3. b[2] \in Int /\ c[2] \in Int
      BY BasesAre
    <3>4. without[k].subject = c[1] /\ without[k].pct = c[2]
      BY <3>2, <3>3, OpinionIs
    <3>5. ops[i].subject = b[1] /\ (b[2] < 99 => ops[i].pct > b[2])
      BY <2>4, <3>1, <3>3, OpinionIs
    <3>6. b[2] = c[2]
      BY <2>4, <3>4, <3>5, BasesAre
    <3> QED BY <2>4, <3>4, <3>5, <3>6
  <2> HIDE DEF ops, without
  <2>5. ASSUME NEW i \in 1..Len(ops), i > 1 PROVE ops[i].pct <= ops[i - 1].pct
    <3>1. i - 1 \in 1..Len(ops) /\ i - 1 < i
      BY <2>2, <2>5
    <3> QED BY <2>2, <3>1
  <2>6. ASSUME NEW i \in 1..Len(ops) PROVE ops[i].subject \notin {ops[j].subject : j \in 1..(i - 1)}
    <3>1. \A j \in 1..(i - 1) : j \in 1..Len(ops) /\ j < i
      BY <2>2
    <3> QED BY <2>2, <3>1
  <2> QED BY <2>4, <2>5, <2>6 DEF RiskNeverLowersAnOpinion, ops, without
<1> QED BY <1>1, IInvHolds, PTL
=============================================================================

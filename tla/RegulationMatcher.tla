--------------------------- MODULE RegulationMatcher ---------------------------
(***************************************************************************)
(* services/regulation_matcher.py over the reference data of               *)
(* data/regulations: the regulations a site falls under, each with its     *)
(* code and whether it asks for a permit.                                  *)
(***************************************************************************)
EXTENDS SiteData

When(condition, item) == IF condition THEN <<item>> ELSE <<>>
Regulation(code, permit) == [code |-> code, permit |-> permit]

Within(distance, limit) == distance # Absent /\ distance < limit

(* The codes of the reference data a site may come under.                   *)
ZoneCodes ==
    {"URA-R2-1", "URA-G1", "AGR", "NPA", "MGA-P", "MGA-A", "MGA-D", "ZON-GB"}
Protections ==
    {"eco_grade_1", "eco_grade_2", "eco_grade_3", "wetland_protected", "greenbelt",
     "cultural_heritage_protection", "buried_cultural_heritage", "agricultural_promotion"}

(* The entries of zone_code_mapping.json whose name matches the name of a
   zone.  A name without a qualifier in brackets matches every entry of its
   group: each of the management zones matches all three.                   *)
CodesOf(zone) ==
    CASE zone = "residential"   -> <<"URA-R2-1">>
      [] zone = "greenery"      -> <<"URA-G1">>
      [] zone = "farmForest"    -> <<"AGR">>
      [] zone = "natureReserve" -> <<"NPA">>
      [] zone \in {"planned", "conservationMgmt"} -> <<"MGA-P", "MGA-A", "MGA-D">>

MatchZonesByNameOnly(land) ==           \* mutant: the overlays are forgotten
    LET named == [i \in 1..Len(land.zone_types) |-> CodesOf(land.zone_types[i])]
        codes == Distinct(FlattenSeq(named))
    IN  [i \in 1..Len(codes) |-> Regulation(codes[i], TRUE)]

(* Every entry restricts some use, so that every zone asks for a permit; no
   entry's name holds the keyword of the military overlay.                  *)
MatchZones(land) ==
    LET named == [i \in 1..Len(land.zone_types) |-> CodesOf(land.zone_types[i])]
        codes == Distinct(FlattenSeq(named))
        all   == codes \o When(land.greenbelt_overlap = 1, "ZON-GB")
                       \o When(land.agricultural_zone_overlap = 1 /\ "AGR" \notin ToSet(codes),
                               "AGR")
    IN  [i \in 1..Len(all) |-> Regulation(all[i], TRUE)]

(* conservation_type_mapping.json: an absolute or high restriction asks for
   a permit, the moderate one of the third grade does not.                  *)
GradeRegulation(grade) ==
    When(grade = 1, Regulation("eco_grade_1", TRUE))
    \o When(grade = 2, Regulation("eco_grade_2", TRUE))
    \o When(grade = 3, Regulation("eco_grade_3", FALSE))

MatchConservation(data) ==
    GradeRegulation(data.ecology.eco_grade)
    \o When(Within(data.ecology.forest_wetland_distance_m, 500),
            Regulation("wetland_protected", TRUE))
    \o When(data.cultural.heritage_protection_overlap = 1,
            Regulation("cultural_heritage_protection", TRUE))
    \o When(Within(data.cultural.buried_heritage_distance_m, 300),
            Regulation("buried_cultural_heritage", TRUE))
    \o When(data.land_use.greenbelt_overlap = 1, Regulation("greenbelt", TRUE))
    \o When(data.land_use.agricultural_zone_overlap = 1,
            Regulation("agricultural_promotion", TRUE))

(* The project types of the screening form and the entry of
   eia_thresholds.json each is taken for.                                   *)
ThresholdOf ==
    [urban_dev |-> "housing_development", industrial |-> "industrial_complex",
     energy |-> "power_plant", water_resource |-> "dam", river |-> "river_improvement",
     tourism |-> "tourism_complex", mountain |-> "mining", sports |-> "sports_facility",
     waste |-> "waste_facility", military |-> "military_facility",
     etc |-> "logistics_complex", other |-> "logistics_complex",
     port |-> "port", road |-> "road", railway |-> "railway", airport |-> "airport",
     mining |-> "mining", reclamation |-> "reclamation"]

ProjectTypes == DOMAIN ThresholdOf
RegulationCodes == ZoneCodes \cup Protections \cup {ThresholdOf[type] : type \in ProjectTypes}

MatchThreshold(type) == <<Regulation(ThresholdOf[type], TRUE)>>

Regulations(type, data) ==
    MatchZones(data.land_use) \o MatchConservation(data) \o MatchThreshold(type)
=============================================================================

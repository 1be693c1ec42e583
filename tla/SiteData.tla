------------------------------- MODULE SiteData -------------------------------
(***************************************************************************)
(* What an evaluation knows of a site: the answers of the connectors,      *)
(* turned by DataFetcher.fetch_all_as_spatial_data into the fields the     *)
(* rules and the regulation matcher read.                                  *)
(*                                                                         *)
(* A site is what is there, a reception what the connectors brought of it  *)
(* this time.  Fields are integers: Absent is Python's None, and a boolean *)
(* is 0 or 1, as it is in Python.  A field that no normaliser and no       *)
(* connector ever sets to anything but None or False is left out, and      *)
(* Resolve (RiskEngine) reads it as Absent.                                *)
(***************************************************************************)
EXTENDS Sublists, SequencesExt

CONSTANT CutFillMean    \* mean cut plus mean fill of the past projects' file

ASSUME CutFillAssumption == CutFillMean \in Nat

Absent == -1
Bit(b) == IF b THEN 1 ELSE 0
MinOf(a, b) == IF a < b THEN a ELSE b

(* The zones whose names the layers give, each with its layer, in the order
   in which the layers are looked through.  "unnamed" is a feature of the
   management layer that carries none of the name fields.                   *)
ZoneOrder ==
    << <<"residential", "UQ111">>, <<"greenery", "UQ111">>,
       <<"planned", "UQ112">>, <<"conservationMgmt", "UQ112">>, <<"unnamed", "UQ112">>,
       <<"farmForest", "UQ113">>, <<"natureReserve", "UQ114">> >>

Zones == {z[1] : z \in ToSet(ZoneOrder)}
Overlays == {"UQ141", "WKMSTRM", "AISRESC", "SPBD"}
Layers == Overlays \cup {"UQ111", "UQ112", "UQ113", "UQ114"}
Covers == {"forest", "wetland", "farmland", "built"}
Connected == {"land_use", "ecology", "air_quality", "traffic", "cultural", "marine",
              "hydrology", "ocean", "geology", "species"}

(* The two zones with "conservation" in their Korean names, and the two with
   "management": the names are searched for these words, wherever they are. *)
NamedConservation == {"greenery", "conservationMgmt", "natureReserve"}
NamedManagement   == {"planned", "conservationMgmt"}

(* A reception: the connectors that brought nothing, the layers whose own
   request failed, whether the land cover came (the first source of the
   ecology connector has none), whether the marine service answered, and how
   much of the geology files could be read.                                 *)
Complete == [lost |-> {}, deaf |-> {}, landcover |-> TRUE, geology |-> "whole"]

Has(rec, connector) == connector \notin rec.lost

-----------------------------------------------------------------------------
(* V-world: a layer is found when it has a feature near the site; one whose
   request failed is missing from the answer, and looks as if not found.    *)
LayersOf(site) ==
    {z[2] : z \in {y \in ToSet(ZoneOrder) : y[1] \in site.zones}} \cup site.overlays

Found(site, rec) == IF Has(rec, "land_use") THEN LayersOf(site) \ rec.deaf ELSE {}

ZoneTypes(site, rec) ==
    LET named == Keep(ZoneOrder, {z \in ToSet(ZoneOrder) :
                    z[1] \in site.zones \ {"unnamed"} /\ z[2] \in Found(site, rec)})
    IN  [i \in 1..Len(named) |-> named[i][1]]

Developments == {"urban_dev", "industrial", "energy", "waste", "port", "airport",
                 "mining", "reclamation"}

(* type is "none" when the caller gave no project type.                     *)
LandUse(site, type, rec) ==
    LET found == Found(site, rec)
        conflict == /\ type # "none"
                    /\ \/ "UQ114" \in found
                       \/ "UQ113" \in found /\ type \in Developments
    IN  [zone_types                |-> ZoneTypes(site, rec),
         zone_conflict             |-> Bit(conflict),
         conservation_zone_overlap |-> Bit("UQ114" \in found),
         greenbelt_overlap         |-> Bit("UQ141" \in found),
         agricultural_zone_overlap |-> Bit("UQ113" \in found),
         river_zone_overlap        |-> Bit("WKMSTRM" \in found)]

(* The grade is a guess from the land cover, raised by what the land use and
   the marine data say.  The marine connector asks without coordinates: it
   has content for every site whenever its service answers.                 *)
CoverGrade(cover) ==
    CASE cover = "wetland" -> 1 [] cover = "forest" -> 2 [] cover = "farmland" -> 3
      [] OTHER -> Absent

Raise(grade, to) == MinOf(IF grade = Absent THEN 99 ELSE grade, to)

Ecology(site, land, rec) ==
    LET cover    == IF Has(rec, "ecology") /\ rec.landcover THEN site.cover ELSE "none"
        guess    == CoverGrade(cover)
        reserved == IF land.conservation_zone_overlap = 1 THEN Raise(guess, 1) ELSE guess
        names    == ToSet(land.zone_types)
        coastal  == Has(rec, "marine")
        strict   == coastal /\ names \cap NamedConservation # {}
        managed  == coastal /\ names \cap NamedManagement # {}
    IN  [eco_grade |-> IF strict THEN Raise(reserved, 1)
                       ELSE IF managed THEN Raise(reserved, 2) ELSE reserved,
         forest_wetland_distance_m |-> IF cover \in {"forest", "wetland"} THEN 0 ELSE Absent,
         eco_landscape_conservation_overlap |-> Bit(strict \/ managed)]

(* Where a stream, a building or a heritage site is found within the buffer,
   500 m is assumed.                                                        *)
Water(found)    == [river_distance_m |-> IF "WKMSTRM" \in found THEN 500 ELSE Absent]
Noise(found)    == [residential_distance_m |-> IF "SPBD" \in found THEN 500 ELSE Absent]
Cultural(found) == [heritage_protection_overlap |-> Bit("AISRESC" \in found),
                    buried_heritage_distance_m  |-> IF "AISRESC" \in found THEN 500 ELSE Absent]

(* A measurement of this hour, filed under the name of the yearly average.  *)
AirQuality(site, rec) ==
    IF Has(rec, "air_quality")
    THEN [pm25_annual_avg |-> site.air.pm25, pm10_annual_avg |-> site.air.pm10,
          regulated_zone  |-> Bit(site.air.capital)]
    ELSE [pm25_annual_avg |-> Absent, pm10_annual_avg |-> Absent, regulated_zone |-> Absent]

Assessed == {"urban_dev", "industrial", "energy", "road", "railway", "port", "airport",
             "tourism", "sports", "water_resource"}

TrafficByDefault(site, type, rec) ==    \* mutant: assessed unless the type is known not to be
    [traffic_volume_daily |->
        IF Has(rec, "traffic") /\ site.traffic > 0 THEN site.traffic ELSE Absent,
     traffic_impact_assessment_required |->
        IF type \in Assessed \cup {"none"} THEN 1 ELSE Absent]

Traffic(site, type, rec) ==
    [traffic_volume_daily |->
        IF Has(rec, "traffic") /\ site.traffic > 0 THEN site.traffic ELSE Absent,
     traffic_impact_assessment_required |-> IF type \in Assessed THEN 1 ELSE Absent]

(* The earthwork of the site is the mean of all past projects.              *)
Geology(rec) ==
    [cut_fill_volume_m3 |->
        IF Has(rec, "geology") /\ rec.geology = "whole" /\ CutFillMean > 0 THEN CutFillMean
        ELSE Absent]

(* Without its overview file the geology connector still has data, whose
   overview is None: reading its volumes raises, and nothing catches it.    *)
Raises(rec) == Has(rec, "geology") /\ rec.geology = "no overview"

(* A rate of 0 is as good as none here: "or" replaces it.                   *)
RateOr(rate, default) == IF rate \in {Absent, 0} THEN default ELSE rate

HydrologyUnknownIsLow(site, rec) ==     \* mutant: no data is a low rate
    LET rate == IF Has(rec, "hydrology") THEN RateOr(site.damRate, 0) ELSE 0
    IN  [flood_risk_zone |-> Bit(rate > 90), low_flow_section |-> Bit(rate < 20)]

Hydrology(site, rec) ==
    IF Has(rec, "hydrology")
    THEN [flood_risk_zone  |-> Bit(RateOr(site.damRate, 0) > 90),
          low_flow_section |-> Bit(RateOr(site.damRate, 100) < 20)]
    ELSE [flood_risk_zone |-> 0, low_flow_section |-> 0]

(* The nearest tide station, asked for when it is within 50 km.             *)
Ocean(site, rec) ==
    [tidal_impact_review_needed |-> Bit(Has(rec, "ocean") /\ site.tideKm < 10)]

(* The list of endangered species is not of the site: it has a second grade
   species and no field for the first.                                      *)
Species(rec) == [has_endangered_grade_2 |-> Bit(Has(rec, "species"))]

Climate(type) == [sunshine_review_required |-> Bit(type = "urban_dev")]

SpatialData(site, type, rec) ==
    LET land  == LandUse(site, type, rec)
        found == Found(site, rec)
    IN  [land_use    |-> land,
         ecology     |-> Ecology(site, land, rec),
         water       |-> Water(found),
         air_quality |-> AirQuality(site, rec),
         noise       |-> Noise(found),
         traffic     |-> Traffic(site, type, rec),
         geology     |-> Geology(rec),
         cultural    |-> Cultural(found),
         species     |-> Species(rec),
         hydrology   |-> Hydrology(site, rec),
         ocean       |-> Ocean(site, rec),
         climate     |-> Climate(type)]
=============================================================================

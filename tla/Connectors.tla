------------------------------ MODULE Connectors ------------------------------
(***************************************************************************)
(* The connectors of backend/app/connectors, each reduced to the shape of  *)
(* its fetch(): the settings without which it calls nobody, the remote     *)
(* sources it tries in order, what it takes for an answer, and what it     *)
(* returns when nothing answered.  The state machine that runs them is     *)
(* DataFetcher.                                                            *)
(***************************************************************************)
EXTENDS Naturals, Sequences

(***************************************************************************)
(* A remote source.  An HTTP 200 whose body reports an error ("errorBody") *)
(* is an answer for a source that stores any JSON ("loose") and a failure  *)
(* for one that looks into it.  A "deaf" source turns its own failures     *)
(* into an empty answer.  needs is what has to be configured besides the   *)
(* connector's own key.                                                    *)
(***************************************************************************)
Strict == [loose |-> FALSE, deaf |-> FALSE, needs |-> {}]
Loose  == [loose |-> TRUE,  deaf |-> FALSE, needs |-> {}]
Deaf   == [loose |-> TRUE,  deaf |-> TRUE,  needs |-> {}]

Outcomes == {"answer", "errorBody", "failure"}

Accepts(source, outcome) ==
    \/ outcome = "answer"
    \/ outcome = "errorBody" /\ source.loose
    \/ source.deaf

(***************************************************************************)
(* A connector that calls remote sources.  keys: alternatives, each a set  *)
(* of settings that must all be there (none: no key is asked for).  last:  *)
(* what is returned without an answer and without a snapshot, an error or  *)
(* the connector's default values.                                         *)
(***************************************************************************)
Remote(keys, sources, last) ==
    [remote  |-> TRUE, keys |-> keys, sources |-> sources, last |-> last,
     merges  |-> FALSE,    \* first source that answers wins
     guarded |-> TRUE,     \* the snapshot is written inside the try
     ranged  |-> FALSE,    \* asks only when a station is near the site
     reads   |-> TRUE,     \* the parsed data depend on the answer
     offline |-> "cache",  \* without a key: the snapshots, then last
     label   |-> "live"]

(* A connector that reads files when it is constructed.                     *)
Local(missing, label) ==
    [remote |-> FALSE, missing |-> missing, label |-> label]

Portal == {{"DATA_GO_KR"}}

-----------------------------------------------------------------------------
(* One definition per connector.                                            *)

(* Both sources are always asked and their answers merged; the snapshot is
   written outside of any try.                                              *)
LandUse == [Remote(Portal, <<Loose, [Loose EXCEPT !.needs = {"VWORLD"}]>>, "error")
               EXCEPT !.merges = TRUE, !.guarded = FALSE]

(* The ecological map, then the WMS layers, which count only when one of
   them has a feature.                                                      *)
Ecology == Remote(Portal, <<Loose, Strict>>, "error")

(* The nearest station, then the whole province.                            *)
AirQuality == Remote({{"AIRKOREA"}, {"DATA_GO_KR"}}, <<Strict, Strict>>, "error")

(* The remote data set is fixed (2007-2011), so it is never called live.    *)
WaterQuality == [Remote(Portal, <<Strict>>, "error") EXCEPT !.label = "stale"]

(* Six searches in parallel, each returning an empty list when it fails.    *)
EiaInfo == Remote(Portal, <<Deaf>>, "error")

(* Without a management number, which fetch_all never passes, only the
   second source is asked.                                                  *)
Marine == Remote(Portal, <<Strict>>, "error")

Weather == Remote(Portal, <<Loose>>, "error")

Traffic == Remote({{"DATA_EX"}}, <<Loose>>, "error")

Odor == Remote(Portal, <<Loose>>, "defaults")

(* These three return constants whatever the service answers, and do not
   look for a snapshot when no key is set.                                  *)
Radio ==
    [Remote(Portal, <<Loose>>, "defaults") EXCEPT !.reads = FALSE, !.offline = "defaults"]
Industry ==
    [Remote(Portal, <<Loose>>, "defaults") EXCEPT !.reads = FALSE, !.offline = "defaults"]
Facilities ==
    [Remote({{"VWORLD"}}, <<Loose>>, "defaults") EXCEPT !.reads = FALSE, !.offline = "defaults"]

(* Only where a dam, or a tide station, is within 50 km.                    *)
Hydrology == [Remote(Portal, <<Loose>>, "defaults") EXCEPT !.ranged = TRUE]
Ocean == [Remote({{"KHOA"}, {"DATA_GO_KR"}}, <<Deaf>>, "defaults") EXCEPT !.ranged = TRUE]

WasteData == Remote({{"WASTE_KEY", "WASTE_USER"}}, <<Loose>>, "defaults")

(* Local files.  species calls its list live, and returns one even when the
   file is missing.                                                         *)
Soil        == Local("empty", "cached")
Noise       == Local("empty", "cached")
Population  == Local("empty", "cached")
Geology     == Local("empty", "cached")
Greenhouse  == Local("empty", "cached")
ProjectArea == Local("error", "cached")
Species     == Local("defaults", "live")

(* Not among the connectors of DataFetcher.                                 *)
Cultural  == Remote(Portal, <<Loose>>, "error")
Landscape == Remote(Portal, <<Loose>>, "error")
Vworld    == Remote({{"VWORLD"}}, <<Loose>>, "error")

(* DataFetcher.__init__: the connectors that fetch_all calls.               *)
Script ==
    [land_use |-> LandUse, ecology |-> Ecology, air_quality |-> AirQuality,
     water_quality |-> WaterQuality, soil |-> Soil, noise |-> Noise,
     population |-> Population, project_area |-> ProjectArea,
     eia_info |-> EiaInfo, marine |-> Marine, geology |-> Geology,
     greenhouse |-> Greenhouse, weather |-> Weather, traffic |-> Traffic,
     odor |-> Odor, radio |-> Radio, industry |-> Industry,
     facilities |-> Facilities, species |-> Species, hydrology |-> Hydrology,
     ocean |-> Ocean, waste_data |-> WasteData]

(* The three that share the shape of the others but are fetched by nobody.  *)
Unlisted == [cultural |-> Cultural, landscape |-> Landscape, vworld |-> Vworld]

Names == DOMAIN Script
=============================================================================

------------------------------- MODULE RuleFiles -------------------------------
(***************************************************************************)
(* The rules of backend/app/rules/v1: one sequence per file, and all of    *)
(* them in the order in which load_rules reads them.                       *)
(***************************************************************************)
EXTENDS Integers, Sequences

(* The rules of a file about one domain: identifier, field, operator, limit
   (1 for true, 30 for the ratio 0.3 in per cent) and severity.             *)
On(domain, rows) ==
    [i \in 1..Len(rows) |->
        [id |-> rows[i][1], domain |-> domain, field |-> rows[i][2],
         op |-> rows[i][3], limit |-> rows[i][4], severity |-> rows[i][5]]]

AirRules ==
    On("air_quality", <<
        <<"AIR-001", "pm25_annual_avg", "gt", 35, "major">>,
        <<"AIR-002", "dust_source_distance_m", "within", 2000, "review">>,
        <<"AIR-003", "regulated_zone", "eq", 1, "major">>,
        <<"AIR-004", "pm10_annual_avg", "gt", 50, "review">>,
        <<"AIR-005", "odor_management_zone", "eq", 1, "review">>>>)

CulturalRules ==
    On("cultural", <<
        <<"CUL-001", "heritage_protection_overlap", "eq", 1, "critical">>,
        <<"CUL-002", "buried_heritage_distance_m", "within", 300, "major">>,
        <<"CUL-003", "natural_monument_distance_m", "within", 500, "critical">>>>)

EcologyRules ==
       On("ecology", <<
        <<"ECO-001", "eco_grade", "eq", 1, "critical">>,
        <<"ECO-002", "endangered_species_distance_m", "within", 1000, "major">>,
        <<"ECO-003", "forest_wetland_distance_m", "within", 500, "review">>,
        <<"ECO-004", "natural_park_distance_m", "within", 1000, "review">>,
        <<"ECO-005", "baekdudaegan_distance_m", "within", 500, "critical">>,
        <<"ECO-006", "eco_landscape_conservation_overlap", "eq", 1, "critical">>,
        <<"ECO-007", "eco_corridor_distance_m", "within", 200, "major">>>>)
    \o On("species", <<
        <<"ECO-008", "has_endangered_grade_1", "eq", 1, "critical">>,
        <<"ECO-009", "has_endangered_grade_2", "eq", 1, "major">>>>)

GeologyRules ==
    On("geology", <<
        <<"GEO-001", "steep_slope_risk", "eq", 1, "major">>,
        <<"GEO-002", "subsidence_risk", "eq", 1, "review">>,
        <<"GEO-003", "cut_fill_volume_m3", "gt", 100000, "review">>>>)

GreenhouseRules ==
    On("greenhouse", <<
        <<"GHG-001", "estimated_annual_emission_tco2", "gt", 25000, "major">>,
        <<"GHG-002", "emission_trading_target", "eq", 1, "review">>,
        <<"GHG-003", "carbon_neutral_zone", "eq", 1, "review">>>>)

HazardRules ==
    On("hazard", <<
        <<"HAZ-001", "hazardous_facility_distance_m", "within", 500, "major">>,
        <<"HAZ-002", "natural_disaster_risk_zone", "eq", 1, "major">>,
        <<"HAZ-003", "seismic_assessment_required", "eq", 1, "review">>>>)

LandRules ==
    On("land_use", <<
        <<"LAND-001", "zone_conflict", "eq", 1, "critical">>,
        <<"LAND-002", "conservation_zone_overlap", "eq", 1, "critical">>,
        <<"LAND-003", "greenbelt_overlap", "eq", 1, "critical">>,
        <<"LAND-004", "military_zone_overlap", "eq", 1, "major">>,
        <<"LAND-005", "agricultural_zone_overlap", "eq", 1, "major">>,
        <<"LAND-006", "forest_conservation_overlap", "eq", 1, "critical">>,
        <<"LAND-007", "river_zone_overlap", "eq", 1, "major">>,
        <<"LAND-008", "road_buffer_zone_overlap", "eq", 1, "review">>>>)

LandscapeRules ==
    On("landscape", <<
        <<"LAN-001", "scenic_resource_distance_m", "within", 500, "review">>,
        <<"LAN-002", "viewpoint_impact", "eq", 1, "review">>,
        <<"LAN-003", "light_pollution_sensitive", "eq", 1, "info">>>>)

MarineRules ==
       On("marine", <<
        <<"MAR-001", "marine_protected_distance_m", "within", 500, "critical">>,
        <<"MAR-002", "coastal_wetland_overlap", "eq", 1, "critical">>,
        <<"MAR-003", "fishery_zone_overlap", "eq", 1, "major">>,
        <<"MAR-004", "beach_distance_m", "within", 500, "review">>>>)
    \o On("ocean", <<
        <<"OCN-001", "tidal_impact_review_needed", "eq", 1, "review">>,
        <<"OCN-002", "depth_change_expected", "eq", 1, "review">>>>)

NoiseRules ==
    On("noise", <<
        <<"NOI-001", "residential_distance_m", "within", 300, "major">>,
        <<"NOI-002", "quiet_facility_distance_m", "within", 200, "major">>,
        <<"NOI-003", "noise_countermeasure_zone", "eq", 1, "major">>,
        <<"NOI-004", "vibration_sensitive_distance_m", "within", 100, "review">>>>)

OdorRules ==
    On("odor", <<
        <<"ODR-001", "management_area_overlap", "eq", 1, "major">>,
        <<"ODR-002", "nearest_odor_facility_m", "within", 1000, "review">>,
        <<"ODR-003", "odor_exceed", "eq", 1, "review">>>>)

PopulationRules ==
    On("population", <<
        <<"POP-001", "population_density_per_km2", "gt", 10000, "major">>,
        <<"POP-002", "vulnerable_population_ratio", "gt", 30, "review">>,
        <<"POP-003", "relocation_households", "gt", 50, "major">>>>)

RadioRules ==
    On("radio", <<
        <<"RAD-001", "radio_interference_risk", "eq", 1, "review">>>>)

SocialRules ==
       On("social", <<
        <<"SOC-001", "repeated_complaints", "gte", 3, "major">>,
        <<"SOC-002", "similar_project_supplement_count", "gte", 2, "review">>,
        <<"SOC-003", "environmental_justice_vulnerable", "eq", 1, "review">>>>)
    \o On("industry", <<
        <<"IND-001", "industrial_complex_distance_m", "within", 500, "review">>>>)
    \o On("facilities", <<
        <<"REC-001", "recreation_density_area", "eq", 1, "review">>>>)

SoilRules ==
    On("soil", <<
        <<"SOI-001", "contamination_risk", "eq", 1, "major">>,
        <<"SOI-002", "groundwater_level_m", "lt", 3, "review">>,
        <<"SOI-003", "landfill_distance_m", "within", 500, "major">>,
        <<"SOI-004", "geological_hazard_risk", "eq", 1, "review">>>>)

SunshineRules ==
    On("climate", <<
        <<"SUN-001", "sunshine_review_required", "eq", 1, "review">>>>)

TrafficRules ==
    On("traffic", <<
        <<"TRF-001", "traffic_volume_daily", "gt", 50000, "major">>,
        <<"TRF-002", "school_route_distance_m", "within", 300, "major">>,
        <<"TRF-003", "traffic_impact_assessment_required", "eq", 1, "review">>,
        <<"TRF-004", "public_transit_distance_m", "gt", 1000, "info">>>>)

WasteRules ==
    On("waste", <<
        <<"WST-001", "estimated_construction_waste_ton", "gt", 1000, "review">>,
        <<"WST-002", "waste_facility_capacity_shortage", "eq", 1, "review">>>>)

WaterRules ==
       On("water", <<
        <<"WAT-001", "river_distance_m", "within", 100, "major">>,
        <<"WAT-002", "water_source_protection_distance_m", "within", 500, "critical">>,
        <<"WAT-003", "sensitive_water_zone", "eq", 1, "major">>,
        <<"WAT-004", "total_pollution_load_area", "eq", 1, "major">>,
        <<"WAT-005", "underground_water_protection_distance_m", "within", 300, "review">>>>)
    \o On("hydrology", <<
        <<"HYD-001", "flood_risk_zone", "eq", 1, "major">>,
        <<"HYD-002", "low_flow_section", "eq", 1, "review">>>>)

(* The files in the order of their names, each with its rules in its order. *)
Release ==
    AirRules \o CulturalRules \o EcologyRules \o GeologyRules \o GreenhouseRules
    \o HazardRules \o LandRules \o LandscapeRules \o MarineRules \o NoiseRules
    \o OdorRules \o PopulationRules \o RadioRules \o SocialRules \o SoilRules
    \o SunshineRules \o TrafficRules \o WasteRules \o WaterRules
=============================================================================

------------------------------ MODULE Assessment ------------------------------
(***************************************************************************)
(* One screening, from its evaluation to the documents written about it:   *)
(* the handlers of api/evaluation.py, api/draft.py, api/review.py,         *)
(* api/patterns.py and the report of api/cases.py, over what the           *)
(* connectors bring each time one of them collects data.                   *)
(*                                                                         *)
(* The record is the one in memory or in its file.  A row of the database  *)
(* never has cards; what is read of rows, and the comparison of screenings *)
(* (api/compare.py), which reads nothing else, are in ScreeningStore.      *)
(*                                                                         *)
(* A handler is one step here: what it reads and writes of the record is   *)
(* interleaved with other requests in ScreeningStore, and what collecting  *)
(* data may meet is in DataFetcher.  A reply is what the client gets; its  *)
(* fields rec and type are not sent, they say what the step was given.     *)
(***************************************************************************)
EXTENDS Drafts, RegulationMatcher

CONSTANTS
    Sites,        \* the sites a screening may be of, each with its project type
    Receptions,   \* what the connectors may bring
    Overrides,    \* project types a request for a draft may give instead
    SingleSections   \* sections that are asked for on their own

ASSUME SitesAssumption ==
    /\ \A s \in Sites :
          s.type \in ProjectTypes /\ s.zones \subseteq Zones /\ s.overlays \subseteq Overlays
    /\ Complete \in Receptions
    /\ Overrides \subseteq ProjectTypes

IsEvaluation(ev) ==
    /\ ev.cards \in Seq(RuleIds)
    /\ ev.regs \in Seq([code: RegulationCodes, permit: BOOLEAN])

(* What the properties below take from the rule files: a flag, or the grade,
   is asked for by the value 1, the rules that CardsAndRegulationsAgree names
   read the fields they are named for, and three rules ask for the type.    *)
Flags ==
    {"zone_conflict", "conservation_zone_overlap", "greenbelt_overlap",
     "agricultural_zone_overlap", "river_zone_overlap", "eco_landscape_conservation_overlap",
     "heritage_protection_overlap", "flood_risk_zone", "low_flow_section",
     "tidal_impact_review_needed", "has_endangered_grade_2", "sunshine_review_required"}

OfTheType == {"zone_conflict", "traffic_impact_assessment_required", "sunshine_review_required"}
NeedTheType == {"LAND-001", "TRF-003", "SUN-001"}

Asks(id, domain, field) ==
    \E r \in ToSet(Rules) : r.id = id /\ r.domain = domain /\ r.field = field

ASSUME RuleFilesAssumption ==
    /\ \A r \in ToSet(Rules) :
          /\ r.field # "zone_types"
          /\ r.field \in Flags \cup {"eco_grade"} => r.op = "eq" /\ r.limit = 1
          /\ r.field = "forest_wetland_distance_m" => r.op = "within" /\ r.limit >= 0
          /\ r.field \in OfTheType => r.id \in NeedTheType
    /\ Asks("LAND-001", "land_use", "zone_conflict")
    /\ Asks("LAND-003", "land_use", "greenbelt_overlap")
    /\ Asks("LAND-005", "land_use", "agricultural_zone_overlap")
    /\ Asks("ECO-001", "ecology", "eco_grade")
    /\ Asks("ECO-003", "ecology", "forest_wetland_distance_m")
    /\ Asks("ECO-006", "ecology", "eco_landscape_conservation_overlap")
    /\ Asks("CUL-001", "cultural", "heritage_protection_overlap")

VARIABLES
    site,     \* what is there; the record has its type and its coordinates
    stored,   \* the record: [done |-> status is "evaluated", ev |-> its evaluation]
    reply     \* the answer that is on its way, or NoReply

vars == <<site, stored, reply>>

NoReply == [kind |-> "none"]
Failed  == [kind |-> "error"]

-----------------------------------------------------------------------------
(* Data collected with a project type, rules and regulations applied.       *)
EvaluationOf(s, type, matchType, rec) ==
    LET data == SpatialData(s, type, rec)
    IN  Evaluation(RiskCards(data), Regulations(matchType, data))

(* What evaluate and the checklist compute.                                 *)
Evaluated ==
    [s \in Sites |-> [rec \in Receptions |-> EvaluationOf(s, s.type, s.type, rec)]]

(* draft.py and review.py collect the data without the project type.        *)
Untyped == [s \in Sites |-> [rec \in Receptions |-> EvaluationOf(s, "none", s.type, rec)]]

WithType(ev, type) ==
    Evaluation(ev.cards, Append(Front(ev.regs), Regulation(ThresholdOf[type], TRUE)))

(* A record without a card is taken for one without an evaluation.          *)
UsesRecord == stored.ev.cards # <<>>

(* With the evaluation of the record nothing is collected, and one reception
   stands for all of them; otherwise the collection must not raise.         *)
Proceeds(rec) == IF UsesRecord THEN rec = Complete ELSE ~Raises(rec)

Answer(r) == reply' = r

-----------------------------------------------------------------------------
Init ==
    /\ site \in Sites
    /\ stored = [done |-> FALSE, ev |-> Empty]
    /\ reply = NoReply

(* POST /evaluate: an evaluated record is answered with, unless force; a
   new evaluation replaces the stored one.                                  *)
EvaluateAgain ==
    /\ stored.done
    /\ Answer([kind |-> "evaluation", ev |-> stored.ev, summary |-> Summary(stored.ev)])
    /\ UNCHANGED <<site, stored>>

EvaluateUnmarked(rec, force) ==         \* mutant: the status stays as it was
    /\ stored.done => force
    /\ ~Raises(rec)
    /\ \E ev \in {Evaluated[site][rec]} :
        /\ stored' = [stored EXCEPT !.ev = ev]
        /\ Answer([kind |-> "evaluation", ev |-> ev, summary |-> Summary(ev)])
    /\ UNCHANGED site

Evaluate(rec, force) ==
    /\ stored.done => force
    /\ ~Raises(rec)
    /\ \E ev \in {Evaluated[site][rec]} :
        /\ stored' = [done |-> TRUE, ev |-> ev]
        /\ Answer([kind |-> "evaluation", ev |-> ev, summary |-> Summary(ev)])
    /\ UNCHANGED site

(* Reading the collected data raises: the request ends with a 500, whichever
   handler asked for data.                                                  *)
CollectionFails(rec, force) ==
    /\ Raises(rec)
    /\ stored.done => (force \/ ~UsesRecord)
    /\ Answer(Failed)
    /\ UNCHANGED <<site, stored>>

(* GET /regulations: those of the record.                                   *)
ShowRegulations ==
    /\ Answer([kind |-> "regulations", regs |-> stored.ev.regs])
    /\ UNCHANGED <<site, stored>>

(* GET /checklist                                                           *)
ShowChecklist(rec) ==
    /\ Proceeds(rec)
    /\ \E ev \in {IF UsesRecord THEN stored.ev ELSE Evaluated[site][rec]} :
        Answer([kind |-> "checklist", list |-> Checklist(ev), ev |-> ev, rec |-> rec])
    /\ UNCHANGED <<site, stored>>

(* _get_screening_data and _get_screening_eval: the record's evaluation, or
   one computed now; matchType is the type the regulations are matched for. *)
BasisAlwaysLive(rec, matchType) ==      \* mutant: the record is not asked
    WithType(Untyped[site][rec], matchType)

Basis(rec, matchType) ==
    IF UsesRecord THEN stored.ev ELSE WithType(Untyped[site][rec], matchType)

(* POST /draft, with a type of the request's instead of the record's.       *)
DraftReport(rec, type) ==
    /\ Proceeds(rec)
    /\ \E ev \in {Basis(rec, type)} :
        Answer([kind |-> "draft", draft |-> Draft(type, ev), emphasis |-> Emphasis(type),
                ev |-> ev, rec |-> rec, type |-> type])
    /\ UNCHANGED <<site, stored>>

(* POST /draft/{section}                                                    *)
DraftSection(section, rec, type, outcome, passage) ==
    /\ Proceeds(rec)
    /\ \E ev \in {Basis(rec, type)} :
        Answer([kind |-> "section", section |-> SectionReply(section, type, ev, outcome, passage),
                ev |-> ev, type |-> type])
    /\ UNCHANGED <<site, stored>>

(* POST /predict-review                                                     *)
PredictReview(rec) ==
    /\ Proceeds(rec)
    /\ \E ev \in {Basis(rec, site.type)} :
        Answer([kind |-> "opinions", opinions |-> Opinions(site.type, ev.cards),
                statistics |-> Patterns(site.type)])
    /\ UNCHANGED <<site, stored>>

(* POST /quality-check: of a draft written for the purpose.                 *)
QualityCheck(rec) ==
    /\ Proceeds(rec)
    /\ \E ev \in {Basis(rec, site.type)} :
        Answer([kind |-> "quality", quality |-> Quality(Draft(site.type, ev), ev.cards)])
    /\ UNCHANGED <<site, stored>>

(* POST /report: the record as it is, evaluated or not.                     *)
Report ==
    /\ \E r \in {[kind |-> "brief", report |-> Brief(stored.ev)],
                 [kind |-> "full", report |-> FullReport(stored.ev)],
                 [kind |-> "printed", report |-> ChecklistReport(stored.ev)]} : Answer(r)
    /\ UNCHANGED <<site, stored>>

Deliver ==
    /\ reply # NoReply
    /\ reply' = NoReply
    /\ UNCHANGED <<site, stored>>

Request ==
    \/ EvaluateAgain
    \/ ShowRegulations
    \/ Report
    \/ \E rec \in Receptions :
        \/ \E force \in BOOLEAN : Evaluate(rec, force) \/ CollectionFails(rec, force)
        \/ \E type \in Overrides \cup {site.type} :
            \/ DraftReport(rec, type)
            \/ \E section \in SingleSections, outcome \in LlmOutcomes, passage \in BOOLEAN :
                    DraftSection(section, rec, type, outcome, passage)
        \/ ShowChecklist(rec)
        \/ PredictReview(rec)
        \/ QualityCheck(rec)

Next == (reply = NoReply /\ Request) \/ Deliver

Spec == Init /\ [][Next]_vars

-----------------------------------------------------------------------------
(* TypeOK: the record and the reply have their shapes.                      *)
TypeOK ==
    /\ site \in Sites
    /\ stored.done \in BOOLEAN /\ IsEvaluation(stored.ev)
    /\ ~stored.done => stored.ev = Empty
    /\ reply.kind \in {"none", "error", "evaluation", "regulations", "checklist", "draft",
                       "section", "opinions", "quality", "brief", "full", "printed"}

(* What a connector or a layer did not bring only hides risks: an evaluation
   of partial data has no card that one of all the data has not, no more
   permits, and no severity is counted more often in its summary
   (data_fetcher.py, "rules are not triggered").                            *)
LossOnlyHides ==
    stored.done =>
        LET whole == Evaluated[site][Complete] IN
        /\ ToSet(stored.ev.cards) \subseteq ToSet(whole.cards)
        /\ Len(Permits(stored.ev.regs)) <= Len(Permits(whole.regs))
        /\ \A s \in ToSet(Severities) : Summary(stored.ev).of[s] <= Summary(whole).of[s]

(* The rules and the regulation matcher read the same data on their own:
   what the one calls a risk the other has a regulation for.                *)
HasCard(ev, id) == id \in ToSet(ev.cards)
HasRegulation(ev, code) == \E i \in 1..Len(ev.regs) : ev.regs[i].code = code

CardsAndRegulationsAgree ==
    stored.done =>
        /\ HasCard(stored.ev, "LAND-003") <=>
              HasRegulation(stored.ev, "greenbelt") /\ HasRegulation(stored.ev, "ZON-GB")
        /\ HasCard(stored.ev, "LAND-005") <=>
              HasRegulation(stored.ev, "agricultural_promotion") /\ HasRegulation(stored.ev, "AGR")
        /\ HasCard(stored.ev, "ECO-001") <=> HasRegulation(stored.ev, "eco_grade_1")
        /\ HasCard(stored.ev, "ECO-003") <=> HasRegulation(stored.ev, "wetland_protected")
        /\ HasCard(stored.ev, "CUL-001") <=> HasRegulation(stored.ev, "cultural_heritage_protection")
        /\ HasCard(stored.ev, "ECO-006") => ~HasRegulation(stored.ev, "eco_grade_3")
        /\ HasCard(stored.ev, "LAND-001") =>
              HasCard(stored.ev, "ECO-001") \/ HasRegulation(stored.ev, "AGR")

(* The checklist has every card and every permit once, in sections of one
   severity each from the worst on, and numbers its items from 1 through the
   sections without a gap.                                                  *)
Items(list) == FlattenSeq([k \in 1..Len(list.sections) |-> list.sections[k].items])

ChecklistAccountsForAll ==
    reply.kind = "checklist" =>
        LET items  == Items(reply.list)
            permits == Permits(reply.ev.regs)
        IN  /\ Len(items) = reply.list.total
            /\ \A i \in 1..Len(items) : items[i].id = i
            /\ Len(items) = Len(reply.ev.cards) + Len(permits)
            /\ \A i \in 1..Len(reply.ev.cards) : items[i].about = reply.ev.cards[i]
            /\ \A i \in 1..Len(permits) : items[Len(reply.ev.cards) + i].about = permits[i].code

(* Once an evaluation with a card is stored, whatever the connectors bring,
   every document is of that evaluation: the draft tells of its cards and
   the checklist lists them.                                                *)
OneEvaluation ==
    UsesRecord =>
        /\ reply.kind = "draft" => reply.draft.ch1_s3.cards = stored.ev.cards
        /\ reply.kind = "draft" => reply.draft.ch5_s1.counts = Summary(stored.ev).of
        /\ reply.kind = "checklist" => reply.list = Checklist(stored.ev)

(* A draft of a screening without stored cards is of data collected without
   the project type.  Against an evaluation of the same data it can only
   miss the three rules that ask for the type.                              *)
LiveDocumentsOnlyMiss ==
    reply.kind = "draft" /\ ~UsesRecord =>
        LET typed == ToSet(Evaluated[site][reply.rec].cards)
            told  == ToSet(reply.draft.ch1_s3.cards)
        IN  told \subseteq typed /\ typed \ told \subseteq NeedTheType

(* The places that have room for a few cards name the worst: no lesser risk
   is in the conclusion of a draft, or in what the language model is told for
   a section, while a critical one is left out.  Every critical risk has its
   mitigation and its alternative.                                          *)
Criticals(ev) == ToSet(OfSeverity(ev.cards, "critical"))
NamesTheWorst(cards, ev) == Criticals(ev) \subseteq ToSet(cards) \/ ToSet(cards) \subseteq Criticals(ev)

DraftTellsTheWorst ==
    /\ reply.kind = "draft" =>
        LET d == reply.draft
        IN  /\ Criticals(reply.ev) \subseteq ToSet(d.ch4_s2.cards) \cap ToSet(d.ch7_s1.cards)
            /\ NamesTheWorst(d.ch5_s2.cards, reply.ev)
    /\ reply.kind = "section" /\ reply.section.by # "rules" =>
        NamesTheWorst(reply.section.text.cards, reply.ev)

(* What a draft marks as the emphasis of its project type it does not declare
   out of that type's scope: the table of the emphases and the generators'
   own lists of types are kept apart (draft_copilot.py).                    *)
EmphasisIsInScope ==
    reply.kind = "draft" => \A section \in reply.emphasis : reply.draft[section].inScope

(* The quality check of the program's own draft has nothing to say but that
   the sections the draft declared out of scope hold no measurements.       *)
OwnDraftHolds ==
    reply.kind = "quality" =>
        reply.quality.warnings =
            {<<"survey", s>> : s \in {x \in DOMAIN ScopeOf \cap Surveyed : site.type \notin ScopeOf[x]}}

(* A risk never lowers the opinion on its subject, below the cap of 99 per
   cent, and the opinions given are the likeliest of all.                   *)
RiskNeverLowersAnOpinion ==
    reply.kind = "opinions" =>
        \A i \in 1..Len(reply.opinions) :
            LET o == reply.opinions[i]
                without == Opinions(site.type, <<>>)
            IN  /\ o.matched => \A k \in 1..Len(without) :
                        without[k].subject = o.subject /\ without[k].pct < 99 =>
                            o.pct > without[k].pct
                /\ i > 1 => o.pct <= reply.opinions[i - 1].pct
                /\ o.subject \notin {reply.opinions[j].subject : j \in 1..(i - 1)}

(* The brief report's summary of the risks counts them (report_generator.py,
   "risk summary"; the code counts severities that no card has).            *)
BriefCountsTheRisks ==
    reply.kind = "brief" =>
        (stored.ev.cards # <<>> => \E level \in BriefLevels : reply.report.counts[level] > 0)
=============================================================================

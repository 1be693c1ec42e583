-------------------------------- MODULE Drafts --------------------------------
(***************************************************************************)
(* What the program drafts from an evaluation and from the statistics of   *)
(* past projects: the assessment report's sections (draft_copilot.py), the *)
(* check of their quality (quality_checker.py), the statistics themselves  *)
(* (pattern_advisor.py) and the expected opinions of the reviewers         *)
(* (review_predictor.py).                                                  *)
(***************************************************************************)
EXTENDS Documents

CONSTANT Archive    \* [Korean project type -> [total, issues, measures]], the analysed past projects

(* An issue is the subject its wording is matched to by the prediction, "none"
   for no subject, the share of the projects it was raised in, in per cent,
   and the words of the draft's sections its wording holds.  A measure is the
   words of the issue it was a remedy of.                                   *)
PastIssue == [subject: STRING, pct: 0..100, words: SUBSET STRING]

ASSUME ArchiveAssumption ==
    \A kind \in DOMAIN Archive :
        Archive[kind].total \in Nat /\ Archive[kind].issues \in Seq(PastIssue)

-----------------------------------------------------------------------------
(* The Korean types a project type stands for; the prediction looks at the
   first alone, the statistics add up all of them.                          *)
KoreanTypes ==
    [urban_dev |-> <<"city plan", "city development", "housing site", "land preparation">>,
     industrial |-> <<"industrial park", "industrial site", "rural industry">>,
     energy |-> <<"power plant", "thermal", "nuclear", "solar", "wind">>,
     port |-> <<"port", "fishing port", "marina">>,
     road |-> <<"road", "national road", "motorway">>,
     water_resource |-> <<"dam", "reservoir", "estuary", "water supply">>,
     railway |-> <<"railway", "fast railway", "city railway", "light rail">>,
     airport |-> <<"airport", "runway", "airfield">>,
     river |-> <<"river", "river works", "river repair">>,
     tourism |-> <<"resort complex", "tourism", "resort", "golf course", "theme park">>,
     mountain |-> <<"quarry", "mining works", "forest conversion", "stone mountain">>,
     sports |-> <<"sports", "ski slope", "stadium", "golf">>,
     waste |-> <<"waste", "incineration", "night soil">>,
     military |-> <<"military", "defence", "shooting range", "training ground">>,
     mining |-> <<"soil and stone", "aggregate", "mineral", "extraction">>,
     reclamation |-> <<"reclaimed land", "land reclamation", "public waters">>,
     etc |-> <<"logistics", "distribution", "education", "medical", "waterworks">>,
     other |-> <<"river", "city plan", "resort complex", "park", "port", "misc">>]

Analysed(type) == Keep(KoreanTypes[type], DOMAIN Archive)

(* GET /patterns/{type}                                                     *)
Patterns(type) ==
    LET kinds == Analysed(type)
    IN  [kinds |-> kinds,
         total |-> FoldLeft(LAMBDA acc, kind : acc + Archive[kind].total, 0, kinds)]

(* predict_issues: what the draft and the opinions are based on.            *)
Predicted(type) ==
    LET kind == KoreanTypes[type][1]
    IN  IF kind \in DOMAIN Archive THEN Archive[kind] ELSE [total |-> 0, issues |-> <<>>, measures |-> <<>>]

-----------------------------------------------------------------------------
(* The draft, in the sections of the report template.                       *)
Sections ==
    {"ch1_s1", "ch1_s2", "ch1_s3", "ch2_s1", "ch2_s2", "ch2_s3", "ch3_s1", "ch3_s2",
     "ch3_s3", "ch3_s4", "ch3_s5", "ch3_s6", "ch3_s7", "ch3_s8", "ch3_s9", "ch4_s1",
     "ch4_s2", "ch5_s1", "ch5_s2", "ch6_s1", "ch6_s2", "ch7_s1"}

IdsOf(domains) == {r.id : r \in {q \in ToSet(Rules) : q.domain \in domains}}
EcoIds == IdsOf({"ecology", "species"})
AirIds == IdsOf({"air_quality"})
WatIds == IdsOf({"water"})
NoiIds == IdsOf({"noise"})
SoiIds == IdsOf({"soil"})
SocIds == IdsOf({"social"})
(* The prefix of the landscape rules is also the one of the land rules.     *)
LanIds == IdsOf({"landscape", "land_use"})
MarIds == IdsOf({"marine"})
GhgIds == IdsOf({"greenhouse"})
OdrIds == IdsOf({"odor"})

(* What a section tells of: risk cards, regulations, the count of cards by
   severity, past issues and their measures; or that its subject is out of
   the scope of the project type.                                           *)
Blank ==
    [cards |-> <<>>, regs |-> <<>>, counts |-> [s \in {} |-> 0], issues |-> <<>>,
     measures |-> <<>>, inScope |-> TRUE]
OutOfScope == [Blank EXCEPT !.inScope = FALSE]
Telling(cards) == [Blank EXCEPT !.cards = cards]

OfIds(cards, ids) == Keep(cards, ids)
Severe(cards) == Keep(cards, Grade["critical"] \cup Grade["major"])

(* The legal table has ten rows; below it are all the cards.                *)
LegalFramework(ev) == [Telling(ev.cards) EXCEPT !.regs = First(10, ev.regs)]

NaturalEnv(cards) == Telling(OfIds(cards, EcoIds))
LivingEnv(cards)  == Telling(OfIds(cards, AirIds \cup WatIds \cup NoiIds \cup SoiIds))
SocialEnv(cards)  == Telling(OfIds(cards, SocIds))

(* A subject of chapter 3: its cards, and the past issues and measures whose
   issue has the subject's word.                                            *)
AssessmentSection(ids, word, cards, past) ==
    [Telling(OfIds(cards, ids)) EXCEPT
        !.issues   = Keep(past.issues, {issue \in ToSet(past.issues) : word \in issue.words}),
        !.measures = Keep(past.measures, {words \in ToSet(past.measures) : word \in words})]

AirQualitySection(cards, past)  == AssessmentSection(AirIds, "air", cards, past)
WaterSection(cards, past)       == AssessmentSection(WatIds, "water", cards, past)
NoiseSection(cards, past)       == AssessmentSection(NoiIds, "noise", cards, past)
SoilSection(cards, past)        == AssessmentSection(SoiIds, "soil", cards, past)
EcologySection(cards, past)     == AssessmentSection(EcoIds, "ecology", cards, past)
LandscapeSection(cards, past)   == AssessmentSection(LanIds, "landscape", cards, past)

(* The subjects that only some project types have.                          *)
ScopeOfNarrow ==                        \* mutant: the types the generators' descriptions name
    [ch3_s7 |-> {"port", "reclamation"},
     ch3_s8 |-> {"energy"},
     ch3_s9 |-> {"industrial", "waste"}]

ScopeOf ==
    [ch3_s7 |-> {"port", "reclamation", "river"},
     ch3_s8 |-> {"energy", "industrial", "waste"},
     ch3_s9 |-> {"industrial", "waste", "reclamation"}]

InScope(section, type) == type \in ScopeOf[section]

MarineSection(type, cards, past) ==
    IF InScope("ch3_s7", type) THEN AssessmentSection(MarIds, "marine", cards, past) ELSE OutOfScope
GreenhouseSection(type, cards, past) ==
    IF InScope("ch3_s8", type) THEN AssessmentSection(GhgIds, "greenhouse", cards, past) ELSE OutOfScope
OdorSection(type, cards, past) ==
    IF InScope("ch3_s9", type) THEN AssessmentSection(OdrIds, "odor", cards, past) ELSE OutOfScope

ConstructionMitigation(past) == [Blank EXCEPT !.measures = past.measures]

OperationMitigationShort(cards) == Telling(First(3, Severe(cards)))     \* mutant: three are enough
OperationMitigation(cards)      == Telling(Severe(cards))

Comprehensive(cards)  == [Blank EXCEPT !.counts = [s \in ToSet(Severities) |-> Count(cards, s)]]
Conclusion(cards)     == Telling(First(5, Severe(cards)))
MonitoringPlan(past)  == [Blank EXCEPT !.issues = First(5, past.issues)]
Alternatives(cards)   == Telling(OfSeverity(cards, "critical"))

(* The purpose, the contents of the project and the monitoring points tell of
   neither risks nor statistics.  The expected results of the consultation,
   in the chapter that sums up, are left out.                               *)
Section(section, type, ev) ==
    LET cards == ev.cards
        past  == Predicted(type)
    IN  CASE section \in {"ch1_s1", "ch1_s2", "ch6_s2"} -> Blank
          [] section = "ch1_s3" -> LegalFramework(ev)
          [] section = "ch2_s1" -> NaturalEnv(cards)
          [] section = "ch2_s2" -> LivingEnv(cards)
          [] section = "ch2_s3" -> SocialEnv(cards)
          [] section = "ch3_s1" -> AirQualitySection(cards, past)
          [] section = "ch3_s2" -> WaterSection(cards, past)
          [] section = "ch3_s3" -> NoiseSection(cards, past)
          [] section = "ch3_s4" -> SoilSection(cards, past)
          [] section = "ch3_s5" -> EcologySection(cards, past)
          [] section = "ch3_s6" -> LandscapeSection(cards, past)
          [] section = "ch3_s7" -> MarineSection(type, cards, past)
          [] section = "ch3_s8" -> GreenhouseSection(type, cards, past)
          [] section = "ch3_s9" -> OdorSection(type, cards, past)
          [] section = "ch4_s1" -> ConstructionMitigation(past)
          [] section = "ch4_s2" -> OperationMitigation(cards)
          [] section = "ch5_s1" -> Comprehensive(cards)
          [] section = "ch5_s2" -> Conclusion(cards)
          [] section = "ch6_s1" -> MonitoringPlan(past)
          [] section = "ch7_s1" -> Alternatives(cards)

Draft(type, ev) == [section \in Sections |-> Section(section, type, ev)]

(* The sections a full draft marks as the emphasis of the project type.     *)
Emphasis(type) ==
    CASE type = "energy"                      -> {"ch3_s1", "ch3_s8"}
      [] type = "port"                        -> {"ch3_s2", "ch3_s7"}
      [] type = "river"                       -> {"ch3_s2", "ch3_s7"}
      [] type = "reclamation"                 -> {"ch3_s5", "ch3_s7"}
      [] type \in {"industrial", "waste"}     -> {"ch3_s1", "ch3_s9"}
      [] type = "tourism"                     -> {"ch3_s5", "ch3_s6"}
      [] type \in {"road", "railway"}         -> {"ch3_s3", "ch3_s5"}
      [] type = "urban_dev"                   -> {"ch3_s1", "ch3_s3"}
      [] type = "water_resource"              -> {"ch3_s2", "ch3_s5"}
      [] type = "mountain"                    -> {"ch3_s4", "ch3_s5"}
      [] type = "mining"                      -> {"ch3_s1", "ch3_s4"}
      [] OTHER                                -> {}

(* One section, on request by the language model: its prompt has the first
   five cards, regulations and issues, and a passage of an earlier report
   when the index has one.  The text of an error is delivered as the section,
   although it says that the draft by rules is used instead.  A section of
   its own is not marked as an emphasis.                                    *)
LlmOutcomes == {"not asked", "no client", "written", "failed"}

Prompt(type, ev) ==
    [cards |-> First(5, ev.cards), regs |-> First(5, ev.regs),
     issues |-> First(5, Predicted(type).issues)]

CallLlm(outcome) == IF outcome = "written" THEN "model" ELSE "error text"

SectionReply(section, type, ev, outcome, passage) ==
    IF outcome \in {"not asked", "no client"}
    THEN [by |-> "rules", text |-> Section(section, type, ev)]
    ELSE [by |-> CallLlm(outcome), text |-> Prompt(type, ev), passage |-> passage]

-----------------------------------------------------------------------------
(* The quality check, of the draft the program writes for the evaluation.   *)
Required ==
    {"ch1_s1", "ch1_s2", "ch1_s3", "ch2_s1", "ch2_s2", "ch3_s1", "ch3_s2", "ch3_s3",
     "ch3_s5", "ch4_s1", "ch4_s2", "ch5_s1", "ch6_s1"}

(* The sections whose subject a law asks for.  The table of the laws has the
   types of an earlier version: every type of today falls back on the road's. *)
LegalSubjects == {"ch1_s1", "ch3_s3", "ch3_s5", "ch3_s1"}

(* Sections the template has a field survey for; the text of one out of scope
   does not speak of measurements.                                          *)
Surveyed ==
    {"ch3_s1", "ch3_s2", "ch3_s3", "ch3_s4", "ch3_s5", "ch3_s6", "ch3_s7", "ch3_s9", "ch6_s2"}

Verdict(kind, about, ok) == [kind |-> kind, about |-> about, ok |-> ok]

(* The risks whose mitigation and legal basis are looked at: five at most.  *)
Examined(cards) == ToSet(First(5, Severe(cards)))

Verdicts(draft, cards) ==
    {Verdict("required", s, s \in DOMAIN draft) : s \in Required}
    \cup {Verdict("law", s, s \in DOMAIN draft) : s \in LegalSubjects}
    \cup {Verdict("mitigation", id, id \in ToSet(draft.ch4_s2.cards)) : id \in Examined(cards)}
    \cup {Verdict("legal basis", id, TRUE) : id \in Examined(cards)}
    \cup {Verdict("survey", s, draft[s].inScope) : s \in Surveyed \cap DOMAIN draft}
    \cup {Verdict("disclaimer", "draft", DOMAIN draft # {})}

Quality(draft, cards) ==
    LET all    == Verdicts(draft, cards)
        passed == {v \in all : v.ok}
    IN  [warnings |-> {<<v.kind, v.about>> : v \in all \ passed},
         score    |-> (Cardinality(passed) * 100) \div Cardinality(all),
         overall  |-> IF passed = all THEN "pass" ELSE "warning"]

-----------------------------------------------------------------------------
(* The expected opinions.  Speaks: the rules whose title or rationale holds
   one of the words of a subject, of those that can give a card.            *)
Speaks ==
    [noise     |-> {"GEO-003"},
     ecosystem |-> {"ECO-001", "ECO-006", "ECO-009", "OCN-001"},
     water     |-> {"AIR-001", "AIR-003", "GEO-003", "HYD-001", "HYD-002"},
     air       |-> {"AIR-001", "AIR-003", "AIR-004"},
     farmland  |-> {"ECO-003", "LAND-005"},
     odor      |-> {}]

Level(pct) == IF pct >= 70 THEN "high" ELSE IF pct >= 40 THEN "medium" ELSE "low"

OpinionCapped(subject, pct, cards) ==   \* mutant: a cap below what the past may say
    LET matched == ToSet(cards) \cap Speaks[subject] # {}
        raised  == IF matched THEN MinOf(pct + 5, 95) ELSE pct
    IN  [subject |-> subject, pct |-> raised, matched |-> matched, level |-> Level(raised)]

Opinion(subject, pct, cards) ==
    LET matched == ToSet(cards) \cap Speaks[subject] # {}
        raised  == IF matched THEN MinOf(pct + 5, 99) ELSE pct
    IN  [subject |-> subject, pct |-> raised, matched |-> matched, level |-> Level(raised)]

DefaultSubjects ==
    << <<"noise", 50>>, <<"ecosystem", 45>>, <<"water", 40>>, <<"air", 38>>,
       <<"farmland", 35>>, <<"odor", 30>> >>

DefaultOpinions(cards) ==
    [i \in 1..Len(DefaultSubjects) |-> Opinion(DefaultSubjects[i][1], DefaultSubjects[i][2], cards)]

(* Of the first ten issues, the first of each subject.                      *)
FromPatterns(issues, cards) ==
    LET top    == First(10, issues)
        chosen == Keep(Places(top), {i \in 1..Len(top) :
                    /\ top[i].subject # "none"
                    /\ \A j \in 1..(i - 1) : top[j].subject # top[i].subject})
    IN  [k \in 1..Len(chosen) |-> Opinion(top[chosen[k]].subject, top[chosen[k]].pct, cards)]

(* By falling probability, in the order given where it is equal.            *)
Ranked(opinions) ==
    LET Rank(i) == 1 + Cardinality({j \in 1..Len(opinions) :
                        \/ opinions[j].pct > opinions[i].pct
                        \/ opinions[j].pct = opinions[i].pct /\ j < i})
    IN  [k \in 1..Len(opinions) |-> opinions[CHOOSE i \in 1..Len(opinions) : Rank(i) = k]]

Opinions(type, cards) ==
    LET past == Predicted(type)
        all  == IF past.issues # <<>> /\ past.total > 0
                THEN FromPatterns(past.issues, cards) ELSE DefaultOpinions(cards)
    IN  First(5, Ranked(all))
=============================================================================

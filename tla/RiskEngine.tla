------------------------------ MODULE RiskEngine ------------------------------
(***************************************************************************)
(* services/risk_engine.py: a rule looks at one field of the spatial data  *)
(* and gives a risk card of its severity when the field has a value that   *)
(* meets its condition.                                                    *)
(***************************************************************************)
EXTENDS SiteData

Severities == <<"critical", "major", "review", "info">>

CONSTANT Rules      \* what load_rules has read, in the order of the files and of the rules in them

Rule ==
    [id: STRING, domain: STRING, field: STRING, op: STRING, limit: Int,
     severity: ToSet(Severities)]

ASSUME RulesAssumption ==
    /\ Rules \in Seq(Rule)
    /\ \A i, j \in 1..Len(Rules) : Rules[i].id = Rules[j].id => i = j

RuleIds == {r.id : r \in ToSet(Rules)}
Grade == [s \in ToSet(Severities) |-> {r.id : r \in {q \in ToSet(Rules) : q.severity = s}}]
SeverityOf(id) == CHOOSE s \in ToSet(Severities) : id \in Grade[s]

-----------------------------------------------------------------------------
(* A field of a domain, or Absent when there is no such domain or field.    *)
Resolve(data, rule) ==
    IF rule.domain \in DOMAIN data
    THEN IF rule.field \in DOMAIN data[rule.domain]
         THEN data[rule.domain][rule.field] ELSE Absent
    ELSE Absent

Holds(op, value, limit) ==
    \/ op = "eq" /\ value = limit
    \/ op = "gt" /\ value > limit
    \/ op = "gte" /\ value >= limit
    \/ op = "lt" /\ value < limit
    \/ op = "within" /\ value <= limit

(* A rule whose field has no value says nothing.                            *)
Matches(rule, data) ==
    LET value == Resolve(data, rule)
    IN  value # Absent /\ Holds(rule.op, value, rule.limit)

OfSeverity(cards, s) == Keep(cards, Grade[s])
BySeverity(cards) ==
    OfSeverity(cards, "critical") \o OfSeverity(cards, "major")
    \o OfSeverity(cards, "review") \o OfSeverity(cards, "info")

RiskCardsUnsorted(data) ==              \* mutant: in the order of the rules
    LET matched == Keep(Rules, {r \in ToSet(Rules) : Matches(r, data)})
    IN  [i \in 1..Len(matched) |-> matched[i].id]

(* The cards, by their rules' identifiers, the most severe first and within
   a severity in the order of the rules.                                    *)
RiskCards(data) ==
    LET matched == Keep(Rules, {r \in ToSet(Rules) : Matches(r, data)})
    IN  BySeverity([i \in 1..Len(matched) |-> matched[i].id])
=============================================================================

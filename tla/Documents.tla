------------------------------ MODULE Documents ------------------------------
(***************************************************************************)
(* What the program writes about an evaluation without asking anyone: the  *)
(* summary, the field checklist and the three reports.  An evaluation is   *)
(* the record of its risk cards (rule identifiers, in their order) and its *)
(* regulations.                                                            *)
(***************************************************************************)
EXTENDS RiskEngine, FiniteSetsExt

Evaluation(cards, regs) == [cards |-> cards, regs |-> regs]
Empty == Evaluation(<<>>, <<>>)

Count(cards, s) == Len(OfSeverity(cards, s))
Permits(regs) == Keep(regs, {r \in ToSet(regs) : r.permit})
First(n, seq) == SubSeq(seq, 1, MinOf(n, Len(seq)))

(* EvaluationSummary                                                        *)
Summary(ev) ==
    [risks       |-> Len(ev.cards),
     of          |-> [s \in ToSet(Severities) |-> Count(ev.cards, s)],
     regulations |-> Len(ev.regs),
     permits     |-> Len(Permits(ev.regs))]

-----------------------------------------------------------------------------
Group(name, about) == [name |-> name, about |-> about]
Codes(regs) == [i \in 1..Len(regs) |-> regs[i].code]
OfSeverities(cards) ==
    [k \in 1..Len(Severities) |-> Group(Severities[k], OfSeverity(cards, Severities[k]))]

GroupsWithEveryRegulation(ev) ==        \* mutant: no look at the permit
    OfSeverities(ev.cards) \o <<Group("regulation", Codes(ev.regs))>>

(* The checklist: a section per severity that has cards, then one of the
   regulations that ask for a permit.  Items are numbered through.          *)
Groups(ev) == OfSeverities(ev.cards) \o <<Group("regulation", Codes(Permits(ev.regs)))>>

Abouts(groups) == [k \in 1..Len(groups) |-> groups[k].about]
Before(abouts, k) == Len(FlattenSeq(SubSeq(abouts, 1, k - 1)))
Numbered(abouts, k) ==
    [i \in 1..Len(abouts[k]) |-> [id |-> Before(abouts, k) + i, about |-> abouts[k][i]]]

Checklist(ev) ==
    LET groups == Keep(Groups(ev), {g \in ToSet(Groups(ev)) : g.about # <<>>})
        abouts == Abouts(groups)
    IN  [sections |-> [k \in 1..Len(groups) |->
                           [name |-> groups[k].name, items |-> Numbered(abouts, k)]],
         total    |-> Len(FlattenSeq(abouts))]

(* What is printed of a checklist: its sections, every box unchecked, without
   the total.                                                               *)
Printed(checklist) == checklist.sections

-----------------------------------------------------------------------------
(* The brief counts the cards whose severity is called high, middle or low
   in Korean; the severities of the cards are the four of the rules.        *)
BriefLevels == {"high", "middle", "low"}

Brief(ev) ==
    [counts |-> [level \in BriefLevels |->
                    Cardinality({i \in 1..Len(ev.cards) : SeverityOf(ev.cards[i]) = level})],
     regs   |-> First(3, ev.regs)]

FullReport(ev) ==
    [counts    |-> Summary(ev).of,
     total     |-> Len(ev.cards),
     cards     |-> BySeverity(ev.cards),
     regs      |-> ev.regs,
     checklist |-> Printed(Checklist(ev))]

ChecklistReport(ev) == Printed(Checklist(ev))

=============================================================================

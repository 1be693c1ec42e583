-------------------------- MODULE ScreeningRegister --------------------------
(***************************************************************************)
(* What the screening store promises: one atomic record per screening.     *)
(* A screening is created once and is there from then on; each evaluation  *)
(* replaces the findings by the next ones, and no evaluation is skipped or *)
(* undone; an interpretation is about findings the screening has or had;   *)
(* and a reader sees the record as it is at one moment.  There is no       *)
(* memory, file, write or restart here.                                    *)
(***************************************************************************)
EXTENDS Naturals

CONSTANTS Screening, Request, Absent, NoText, ErrorText

VARIABLES
  record,  \* record[id]: the screening, or Absent
  seen     \* seen[r]: what a reader was shown, while it is being shown

vars == <<record, seen>>

Nothing == [what |-> "nothing"]
Missing(id) == [what |-> "missing", id |-> id]
Shown(id, cards, regs) == [what |-> "record", id |-> id, cards |-> cards, regs |-> regs]

Init ==
  /\ record = [id \in Screening |-> Absent]
  /\ seen = [r \in Request |-> Nothing]

Create(id) ==
  /\ record[id] = Absent
  /\ record' = [record EXCEPT ![id] =
                  [status |-> "completed", cards |-> 0, regs |-> 0, text |-> NoText]]
  /\ UNCHANGED seen

\* The findings of the next evaluation.
Evaluate(id) ==
  /\ record[id] # Absent
  /\ record' = [record EXCEPT ![id].status = "evaluated",
                              ![id].cards = @ + 1, ![id].regs = @ + 1]
  /\ UNCHANGED seen

\* An interpretation, about the present findings or earlier ones.
Annotate(id) ==
  /\ record[id] # Absent
  /\ \E text \in 0..record[id].cards \cup {ErrorText} :
       record' = [record EXCEPT ![id].status = "evaluated", ![id].text = text]
  /\ UNCHANGED seen

Look(r, id) ==
  /\ seen' = [seen EXCEPT ![r] =
                IF record[id] = Absent THEN Missing(id)
                ELSE Shown(id, record[id].cards, record[id].regs)]
  /\ UNCHANGED record

Leave(r) ==
  /\ seen' = [seen EXCEPT ![r] = Nothing]
  /\ UNCHANGED record

Next ==
  \/ \E id \in Screening : Create(id) \/ Evaluate(id) \/ Annotate(id)
  \/ \E r \in Request : Leave(r) \/ \E id \in Screening : Look(r, id)

Spec == Init /\ [][Next]_vars
=============================================================================

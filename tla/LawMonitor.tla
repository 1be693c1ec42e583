----------------------------- MODULE LawMonitor -----------------------------
(***************************************************************************)
(* The monitor of amendments to the laws the rules were written for, its   *)
(* connector and its three administration endpoints.                       *)
(*                                                                         *)
(* Each worker reads law_versions.json into _versions when it starts, and  *)
(* from then on writes the whole dictionary back.  A check asks the public *)
(* law service for one law after the other, with an await for each, and    *)
(* stores all the answers at its end.  A version is a number: 0 is the one *)
(* the rules were written for, and each amendment in force is the next.    *)
(***************************************************************************)
EXTENDS Naturals, Sequences

CONSTANTS
  Worker,         \* server processes
  Laws,           \* how many laws are monitored
  Check,          \* slots for POST /law-check requests being served
  MaxAmendments,  \* bound: amendments of one law
  MaxRestarts,    \* bound: process restarts
  MaxSaveFaults,  \* bound: file writes that raise
  AbruptRestart,  \* whether a process may die inside a file write
  None, Torn, NoFile, Idle

Law == 1..Laws

ASSUME LawAssumption ==
  /\ Laws \in Nat
  /\ MaxAmendments \in Nat
  /\ MaxRestarts \in Nat
  /\ MaxSaveFaults \in Nat
  /\ AbruptRestart \in BOOLEAN

VARIABLES
  published,  \* the version of each law that is in force
  versions,   \* _versions of each worker
  file,       \* data/law_versions.json
  saving,     \* where each worker is in _save_versions
  check,      \* the checks under way, with the answers they have
  reported,   \* history: the latest amendment a check of this law ever stored
  restarts, faults

vars == <<published, versions, file, saving, check, reported, restarts, faults>>

-----------------------------------------------------------------------------
(* Types *)

Amendment == Nat \cup {None}
Entry == [system: Nat, amendment: Amendment, acknowledged: BOOLEAN]
Versions == [Law -> Entry]
Checking == [worker: Worker, got: Seq(Amendment)]

ASSUME SentinelsAssumption ==
  /\ None \notin Nat
  /\ Torn \notin Versions /\ NoFile \notin Versions /\ Torn # NoFile
  /\ Idle \notin Checking

TypeOK ==
  /\ published \in [Law -> Nat]
  /\ versions \in [Worker -> Versions]
  /\ file \in Versions \cup {Torn, NoFile}
  /\ saving \in [Worker -> {"no", "begun", "opened"}]
  /\ check \in [Check -> Checking \cup {Idle}]
  /\ \A c \in Check : check[c] # Idle => Len(check[c].got) <= Laws
  /\ reported \in [Law -> Nat]
  /\ restarts \in 0..MaxRestarts
  /\ faults \in 0..MaxSaveFaults

\* What _load_versions makes when there is no file, or none that parses.
Default == [l \in Law |-> [system |-> 0, amendment |-> None, acknowledged |-> FALSE]]

Load == IF file \in {Torn, NoFile} THEN Default ELSE file

Init ==
  /\ published = [l \in Law |-> 0]
  /\ versions = [w \in Worker |-> Default]
  /\ file = NoFile
  /\ saving = [w \in Worker |-> "no"]
  /\ check = [c \in Check |-> Idle]
  /\ reported = [l \in Law |-> 0]
  /\ restarts = 0
  /\ faults = 0

-----------------------------------------------------------------------------
(* What is shown of a law *)

\* LawStatus.is_outdated: a known amendment later than the version of the rules.
IsOutdated(entry) == entry.amendment # None /\ entry.amendment > entry.system

\* has_outdated of GET /law-status, which is what shows the banner.
HasOutdated(w) == \E l \in Law : IsOutdated(versions[w][l]) /\ ~versions[w][l].acknowledged

-----------------------------------------------------------------------------
(* Steps *)

Free(w) == saving[w] = "no"

\* Mutant of StartSave: the write is left to the next change.
StartNoSave(w) == UNCHANGED saving

\* _save_versions begins: the worker is blocked until it ends.
StartSave(w) == saving' = [saving EXCEPT ![w] = "begun"]

\* The legislature amends a law.
Amend(l) ==
  /\ published[l] < MaxAmendments
  /\ published' = [published EXCEPT ![l] = @ + 1]
  /\ UNCHANGED <<versions, file, saving, check, reported, restarts, faults>>

\* POST /law-check begins.
StartCheck(c, w) ==
  /\ check[c] = Idle /\ Free(w)
  /\ check' = [check EXCEPT ![c] = [worker |-> w, got |-> <<>>]]
  /\ UNCHANGED <<published, versions, file, saving, reported, restarts, faults>>

\* Mutants of Answers: the date of a version that is announced and not yet in force;
\* the date of the version before.
AnswersAnnounced(l) == {published[l] + 1, None}
AnswersPrevious(l) == {published[l] - 1, None}

\* The service answers with the date in force, or not at all: an error, a timeout
\* and an unknown law all become None.
Answers(l) == {published[l], None}

\* The next law of the check has been asked for.
FetchLaw(c) ==
  /\ check[c] # Idle /\ Free(check[c].worker)
  /\ Len(check[c].got) < Laws
  /\ \E answer \in Answers(Len(check[c].got) + 1) :
       check' = [check EXCEPT ![c].got = Append(@, answer)]
  /\ UNCHANGED <<published, versions, file, saving, reported, restarts, faults>>

\* Mutant of Checked: every check asks for a new acknowledgement.
CheckedAgain(entry, answer) == [entry EXCEPT !.amendment = answer, !.acknowledged = FALSE]

\* What a check changes in the entry of a law, whatever the service answered.
Checked(entry, answer) == [entry EXCEPT !.amendment = answer]

\* All the laws have been asked for: the answers are stored and saved.
FinishCheck(c) ==
  LET w == check[c].worker
      got == check[c].got
  IN /\ check[c] # Idle /\ Free(w) /\ Len(got) = Laws
     /\ versions' = [versions EXCEPT ![w] = [l \in Law |-> Checked(@[l], got[l])]]
     /\ reported' = [l \in Law |-> IF got[l] # None /\ got[l] > reported[l]
                                   THEN got[l] ELSE reported[l]]
     /\ StartSave(w)
     /\ check' = [check EXCEPT ![c] = Idle]
     /\ UNCHANGED <<published, file, restarts, faults>>

\* The snapshot the connector keeps of the answers cannot be written: the check fails.
AbortCheck(c) ==
  /\ check[c] # Idle /\ Free(check[c].worker) /\ Len(check[c].got) = Laws
  /\ check' = [check EXCEPT ![c] = Idle]
  /\ UNCHANGED <<published, versions, file, saving, reported, restarts, faults>>

\* The rules are declared up to date with the amendment that is known, if one is.
Acknowledged(entry) ==
  [entry EXCEPT !.acknowledged = TRUE,
                !.system = IF entry.amendment = None THEN entry.system ELSE entry.amendment]

\* POST /law-acknowledge/{law_name}
Acknowledge(w, l) ==
  /\ Free(w)
  /\ versions' = [versions EXCEPT ![w][l] = Acknowledged(versions[w][l])]
  /\ StartSave(w)
  /\ UNCHANGED <<published, file, check, reported, restarts, faults>>

\* write_text empties the file, and then writes it.
SaveOpen(w) ==
  /\ saving[w] = "begun"
  /\ saving' = [saving EXCEPT ![w] = "opened"]
  /\ file' = Torn
  /\ UNCHANGED <<published, versions, check, reported, restarts, faults>>

\* Two workers that write at once may leave a mixture, which does not parse.
SaveWrite(w) ==
  /\ saving[w] = "opened"
  /\ saving' = [saving EXCEPT ![w] = "no"]
  /\ \/ file' = versions[w]
     \/ file # Torn /\ file' = Torn
  /\ UNCHANGED <<published, versions, check, reported, restarts, faults>>

\* The write raises, the request fails, and what it changed in memory stays.
SaveFails(w) ==
  /\ saving[w] # "no" /\ faults < MaxSaveFaults
  /\ faults' = faults + 1
  /\ saving' = [saving EXCEPT ![w] = "no"]
  /\ UNCHANGED <<published, versions, file, check, reported, restarts>>

\* A worker ends and starts again, with what the file has.
Restart(w) ==
  /\ restarts < MaxRestarts
  /\ AbruptRestart \/ Free(w)
  /\ restarts' = restarts + 1
  /\ versions' = [versions EXCEPT ![w] = Load]
  /\ saving' = [saving EXCEPT ![w] = "no"]
  /\ check' = [c \in Check |->
                 IF check[c] # Idle /\ check[c].worker = w THEN Idle ELSE check[c]]
  /\ UNCHANGED <<published, file, reported, faults>>

Next ==
  \/ \E l \in Law : Amend(l) \/ \E w \in Worker : Acknowledge(w, l)
  \/ \E c \in Check :
       FetchLaw(c) \/ FinishCheck(c) \/ AbortCheck(c) \/ \E w \in Worker : StartCheck(c, w)
  \/ \E w \in Worker : SaveOpen(w) \/ SaveWrite(w) \/ SaveFails(w) \/ Restart(w)

Spec == Init /\ [][Next]_vars

-----------------------------------------------------------------------------
(* Properties *)

\* The rules are never declared up to date with a version of a law that is not in
\* force, in whatever worker or file, however stale the answers of a check are.
NeverAhead ==
  /\ \A w \in Worker, l \in Law : versions[w][l].system <= published[l]
  /\ \A l \in Law : file \notin {Torn, NoFile} => file[l].system <= published[l]

\* With one worker and one check at a time an acknowledgement stands: neither a check
\* that was under way, nor a later one that fails, nor a restart takes it back or
\* moves the version of the rules backwards.
AcknowledgementStands ==
  [][\A w \in Worker, l \in Law :
       versions[w][l].acknowledged =>
         /\ versions'[w][l].acknowledged
         /\ versions'[w][l].system >= versions[w][l].system]_vars

\* GET /law-status "returns the law status that is stored": outside a write it is what
\* the file has.
StatusIsStored == \A w \in Worker : (\A v \in Worker : Free(v)) => versions[w] = Load

-----------------------------------------------------------------------------
(* Properties the documentation states and the code does not have *)

\* The banner is shown whenever a law is outdated.
BannerWhenOutdated ==
  \A w \in Worker : (\E l \in Law : IsOutdated(versions[w][l])) => HasOutdated(w)

\* Once a check has found an amendment, the law is shown as outdated until the rules
\* are declared up to date with it.
DetectedIsOutdated ==
  \A w \in Worker, l \in Law :
    reported[l] > versions[w][l].system => IsOutdated(versions[w][l])
=============================================================================

-------------------------- MODULE LawMonitorProofs --------------------------
(***************************************************************************)
(* Theorems about LawMonitor.                                              *)
(***************************************************************************)
EXTENDS LawMonitor, TLAPS

-----------------------------------------------------------------------------
(* Nothing is ahead of the law, with any number of workers and checks *)

\* NeverAhead is not inductive: what the rules are declared up to date with comes from
\* the amendment that is known, and that from the answers of a check.
InForce(entry, l) ==
  /\ entry.system <= published[l]
  /\ entry.amendment # None => entry.amendment <= published[l]

VersionsInForce == \A w \in Worker, l \in Law : InForce(versions[w][l], l)
FileInForce == file \notin {Torn, NoFile} => \A l \in Law : InForce(file[l], l)
AnswersInForce ==
  \A c \in Check : check[c] # Idle =>
    \A l \in 1..Len(check[c].got) :
      check[c].got[l] # None => check[c].got[l] <= published[l]

InForceInv == TypeOK /\ VersionsInForce /\ FileInForce /\ AnswersInForce

\* The dictionary a worker starts with.
LEMMA LoadType ==
  ASSUME TypeOK
  PROVE  Default \in Versions /\ Load \in Versions
BY DEF TypeOK, Default, Load, Versions, Entry, Amendment

LEMMA InitInForce == Init => InForceInv
<1> SUFFICES ASSUME Init PROVE InForceInv
  OBVIOUS
<1>1. Default \in Versions
  BY DEF Default, Versions, Entry, Amendment
<1>2. TypeOK
  BY <1>1, LawAssumption, SentinelsAssumption DEF Init, TypeOK
<1>3. VersionsInForce /\ FileInForce /\ AnswersInForce
  BY SentinelsAssumption DEF Init, VersionsInForce, FileInForce, AnswersInForce, InForce, Default
<1> QED BY <1>2, <1>3 DEF InForceInv

\* A request that is being served, its worker and its answers.
LEMMA CheckingOf ==
  ASSUME TypeOK, NEW c \in Check, check[c] # Idle
  PROVE  /\ check[c] \in Checking /\ check[c].worker \in Worker
         /\ check[c].got \in Seq(Amendment) /\ Len(check[c].got) \in 0..Laws
BY DEF TypeOK, Checking

LEMMA AmendInForce ==
  ASSUME InForceInv, NEW l \in Law, Amend(l)
  PROVE  InForceInv'
<1> USE DEF InForceInv
<1>1. published' \in [Law -> Nat] /\ \A i \in Law : published[i] <= published'[i] /\ published[i] \in Nat
  BY DEF Amend, TypeOK
<1>2. TypeOK'
  BY <1>1 DEF Amend, TypeOK
<1>3. VersionsInForce'
  <2> SUFFICES ASSUME NEW w \in Worker, NEW i \in Law
               PROVE  InForce(versions[w][i], i)'
    BY DEF VersionsInForce
  <2>1. versions[w][i] \in Entry
    BY DEF TypeOK, Versions
  <2> QED BY <1>1, <2>1 DEF Amend, VersionsInForce, InForce, Entry, Amendment
<1>4. FileInForce'
  <2> SUFFICES ASSUME NEW i \in Law, file \notin {Torn, NoFile}
               PROVE  InForce(file[i], i)'
    BY DEF FileInForce, Amend
  <2>1. file[i] \in Entry
    BY DEF TypeOK, Versions
  <2> QED BY <1>1, <2>1 DEF Amend, FileInForce, InForce, Entry, Amendment
<1>5. AnswersInForce'
  <2> SUFFICES ASSUME NEW c \in Check, check[c] # Idle,
                      NEW i \in 1..Len(check[c].got), check[c].got[i] # None
               PROVE  check[c].got[i] <= published'[i]
    BY DEF AnswersInForce, Amend
  <2>1. check[c].got[i] \in Nat /\ i \in Law
    BY CheckingOf, LawAssumption DEF Amendment, Law
  <2> QED BY <1>1, <2>1 DEF AnswersInForce
<1> QED BY <1>2, <1>3, <1>4, <1>5

\* A step that leaves the law alone.
LEMMA FetchInForce ==
  ASSUME InForceInv, NEW c \in Check, FetchLaw(c)
  PROVE  InForceInv'
<1> DEFINE n == Len(check[c].got) + 1
<1> USE DEF InForceInv
<1>1. PICK answer \in Answers(n) : check' = [check EXCEPT ![c].got = Append(@, answer)]
  BY DEF FetchLaw
<1>2. check[c] \in Checking /\ check[c].got \in Seq(Amendment) /\ n \in Law
  BY CheckingOf, LawAssumption DEF FetchLaw, Law
<1>3. answer \in Amendment /\ (answer # None => answer <= published[n])
  BY <1>1, <1>2, SentinelsAssumption DEF Answers, Amendment, TypeOK
<1>4. /\ Append(check[c].got, answer) \in Seq(Amendment)
      /\ Len(Append(check[c].got, answer)) = n
      /\ \A i \in 1..n : Append(check[c].got, answer)[i] = IF i = n THEN answer ELSE check[c].got[i]
  BY <1>2, <1>3
<1>5. [check[c] EXCEPT !.got = Append(@, answer)] \in Checking
  BY <1>2, <1>4 DEF Checking
<1>6. /\ check'[c].got = Append(check[c].got, answer)
      /\ check'[c] \in Checking
      /\ \A d \in Check : d # c => check'[d] = check[d]
      /\ check' \in [Check -> Checking \cup {Idle}]
  BY <1>1, <1>2, <1>5 DEF TypeOK, Checking
<1>7. UNCHANGED <<published, versions, file, saving, reported, restarts, faults>>
  BY DEF FetchLaw
<1>8. \A d \in Check : check'[d] # Idle => Len(check'[d].got) <= Laws
  BY <1>2, <1>4, <1>6 DEF TypeOK, Law
<1>9. TypeOK'
  BY <1>6, <1>7, <1>8 DEF TypeOK
<1>10. AnswersInForce'
  <2> SUFFICES ASSUME NEW d \in Check, check'[d] # Idle,
                      NEW i \in 1..Len(check'[d].got), check'[d].got[i] # None
               PROVE  check'[d].got[i] <= published'[i]
    BY DEF AnswersInForce
  <2>1. CASE d # c
    BY <1>6, <1>7, <2>1 DEF AnswersInForce
  <2>2. CASE d = c /\ i = n
    BY <1>3, <1>4, <1>6, <1>7, <2>2
  <2>3. CASE d = c /\ i # n
    <3>1. check'[c].got[i] = check[c].got[i] /\ i \in 1..Len(check[c].got)
      BY <1>2, <1>4, <1>6, <2>3
    <3> QED BY <1>7, <2>3, <3>1 DEF AnswersInForce, FetchLaw
  <2> QED BY <2>1, <2>2, <2>3
<1> QED BY <1>7, <1>9, <1>10 DEF VersionsInForce, FileInForce, InForce

\* The entry of a law after a check, and after an acknowledgement.
LEMMA EntryUpdates ==
  ASSUME NEW entry \in Entry, NEW answer \in Amendment
  PROVE  /\ Checked(entry, answer) \in Entry
         /\ Checked(entry, answer).system = entry.system
         /\ Checked(entry, answer).amendment = answer
         /\ Checked(entry, answer).acknowledged = entry.acknowledged
BY DEF Checked, Entry

\* The answers of a check that has them all.
LEMMA AnswersOf ==
  ASSUME TypeOK, NEW c \in Check, FinishCheck(c)
  PROVE  /\ check[c] # Idle /\ check[c] \in Checking /\ check[c].worker \in Worker
         /\ \A l \in Law : check[c].got[l] \in Amendment
         /\ \A l \in Law : l \in 1..Len(check[c].got)
BY CheckingOf, LawAssumption DEF FinishCheck, Law

LEMMA FinishInForce ==
  ASSUME InForceInv, NEW c \in Check, FinishCheck(c)
  PROVE  InForceInv'
<1> DEFINE w == check[c].worker
           got == check[c].got
           new == [l \in Law |-> Checked(versions[w][l], got[l])]
<1> USE DEF InForceInv
<1>1. /\ w \in Worker /\ check[c] # Idle
      /\ \A l \in Law : got[l] \in Amendment /\ l \in 1..Len(got)
  BY AnswersOf
<1>2. \A l \in Law : versions[w][l] \in Entry
  BY <1>1 DEF TypeOK, Versions
<1>3. /\ new \in Versions
      /\ \A l \in Law : new[l].system = versions[w][l].system /\ new[l].amendment = got[l]
  BY <1>1, <1>2, EntryUpdates DEF Versions
<1>4. /\ versions' = [versions EXCEPT ![w] = new]
      /\ StartSave(w) /\ check' = [check EXCEPT ![c] = Idle]
      /\ UNCHANGED <<published, file, restarts, faults>>
      /\ reported' = [l \in Law |-> IF got[l] # None /\ got[l] > reported[l]
                                    THEN got[l] ELSE reported[l]]
  BY DEF FinishCheck
<1>5. reported' \in [Law -> Nat]
  BY <1>1, <1>4 DEF TypeOK, Amendment
<1>6. saving' \in [Worker -> {"no", "begun", "opened"}]
  BY <1>4 DEF TypeOK, StartSave
<1>7. versions' \in [Worker -> Versions]
  <2> HIDE DEF new
  <2> QED BY <1>3, <1>4 DEF TypeOK
<1>8. check' \in [Check -> Checking \cup {Idle}]
      /\ \A d \in Check : check'[d] = check[d] \/ check'[d] = Idle
  BY <1>4 DEF TypeOK
<1>9. TypeOK'
  BY <1>4, <1>5, <1>6, <1>7, <1>8 DEF TypeOK
<1>10. VersionsInForce'
  <2> SUFFICES ASSUME NEW v \in Worker, NEW l \in Law PROVE InForce(versions[v][l], l)'
    BY DEF VersionsInForce
  <2>1. CASE v = w
    <3>1. versions'[v] = new
      <4> HIDE DEF new
      <4> QED BY <1>1, <1>4, <2>1 DEF TypeOK
    <3>2. got[l] # None => got[l] <= published[l]
      BY <1>1 DEF AnswersInForce
    <3>3. versions'[v][l].system = versions[w][l].system /\ versions'[v][l].amendment = got[l]
      BY <1>3, <3>1
    <3> QED BY <1>1, <1>4, <3>2, <3>3 DEF VersionsInForce, InForce
  <2>2. CASE v # w
    BY <1>4, <2>2 DEF TypeOK, VersionsInForce, InForce
  <2> QED BY <2>1, <2>2
<1> QED BY <1>4, <1>8, <1>9, <1>10 DEF FileInForce, AnswersInForce, InForce

LEMMA AcknowledgeEffect ==
  ASSUME TypeOK, NEW w \in Worker, NEW l \in Law, Acknowledge(w, l)
  PROVE  /\ versions' \in [Worker -> Versions]
         /\ \A v \in Worker, i \in Law : (v # w \/ i # l) => versions'[v][i] = versions[v][i]
         /\ versions'[w][l].acknowledged
         /\ versions'[w][l].amendment = versions[w][l].amendment
         /\ versions'[w][l].system = IF versions[w][l].amendment = None
                                     THEN versions[w][l].system ELSE versions[w][l].amendment
<1> DEFINE entry == versions[w][l]
           new == Acknowledged(entry)
<1>1. entry \in Entry
  BY DEF TypeOK, Versions
<1>2. /\ new \in Entry
      /\ new.acknowledged
      /\ new.amendment = entry.amendment
      /\ new.system = IF entry.amendment = None THEN entry.system ELSE entry.amendment
  BY <1>1 DEF Acknowledged, Entry, Amendment
<1>3. versions' = [versions EXCEPT ![w][l] = new]
  BY DEF Acknowledge
<1>4. versions'[w][l] = new
  BY <1>3 DEF TypeOK, Versions
<1>5. \A v \in Worker, i \in Law : (v # w \/ i # l) => versions'[v][i] = versions[v][i]
  BY <1>3 DEF TypeOK, Versions
<1>6. versions' \in [Worker -> Versions]
  <2> HIDE DEF new
  <2> QED BY <1>2, <1>3 DEF TypeOK, Versions
<1> QED BY <1>2, <1>4, <1>5, <1>6

LEMMA AcknowledgeInForce ==
  ASSUME InForceInv, NEW w \in Worker, NEW l \in Law, Acknowledge(w, l)
  PROVE  InForceInv'
<1> USE DEF InForceInv
<1>1. StartSave(w) /\ UNCHANGED <<published, file, check, reported, restarts, faults>>
  BY DEF Acknowledge
<1>2. TypeOK'
  BY <1>1, AcknowledgeEffect DEF TypeOK, StartSave
<1>3. VersionsInForce'
  <2> SUFFICES ASSUME NEW v \in Worker, NEW i \in Law PROVE InForce(versions[v][i], i)'
    BY DEF VersionsInForce
  <2>1. CASE v = w /\ i = l
    BY <1>1, <2>1, AcknowledgeEffect DEF VersionsInForce, InForce
  <2>2. CASE v # w \/ i # l
    <3>1. versions'[v][i] = versions[v][i]
      BY <2>2, AcknowledgeEffect
    <3> QED BY <1>1, <3>1 DEF VersionsInForce, InForce
  <2> QED BY <2>1, <2>2
<1> QED BY <1>1, <1>2, <1>3 DEF FileInForce, AnswersInForce, InForce

LEMMA SaveInForce ==
  ASSUME InForceInv, NEW w \in Worker, SaveOpen(w) \/ SaveWrite(w) \/ SaveFails(w)
  PROVE  InForceInv'
<1> USE DEF InForceInv
<1>1. /\ UNCHANGED <<published, versions, check, reported, restarts>>
      /\ file' = file \/ file' = Torn \/ file' = versions[w]
  BY DEF SaveOpen, SaveWrite, SaveFails
<1>2. saving' \in [Worker -> {"no", "begun", "opened"}]
  <2>1. saving' = [saving EXCEPT ![w] = "opened"] \/ saving' = [saving EXCEPT ![w] = "no"]
    BY DEF SaveOpen, SaveWrite, SaveFails
  <2> QED BY <2>1 DEF TypeOK
<1>3. faults' \in 0..MaxSaveFaults
  <2>1. UNCHANGED faults \/ (faults < MaxSaveFaults /\ faults' = faults + 1)
    BY DEF SaveOpen, SaveWrite, SaveFails
  <2> QED BY <2>1, LawAssumption DEF TypeOK
<1>4. TypeOK'
  BY <1>1, <1>2, <1>3 DEF TypeOK
<1>5. FileInForce'
  BY <1>1 DEF FileInForce, VersionsInForce, InForce
<1> QED BY <1>1, <1>4, <1>5 DEF VersionsInForce, AnswersInForce, InForce

LEMMA RestartInForce ==
  ASSUME InForceInv, NEW w \in Worker, Restart(w)
  PROVE  InForceInv'
<1> USE DEF InForceInv
<1>1. /\ UNCHANGED <<published, file, reported, faults>>
      /\ versions' = [versions EXCEPT ![w] = Load]
      /\ saving' = [saving EXCEPT ![w] = "no"]
      /\ restarts' \in 0..MaxRestarts
      /\ check' = [c \in Check |->
                     IF check[c] # Idle /\ check[c].worker = w THEN Idle ELSE check[c]]
  BY LawAssumption DEF Restart, TypeOK
<1>2. \A c \in Check : check'[c] = check[c] \/ check'[c] = Idle
  BY <1>1
<1>3. TypeOK'
  BY <1>1, LoadType DEF TypeOK
<1>4. VersionsInForce'
  <2>1. \A l \in Law : InForce(Load[l], l)
    BY DEF Load, FileInForce, Default, InForce, TypeOK
  <2> QED BY <1>1, <2>1 DEF VersionsInForce, InForce, TypeOK
<1> QED BY <1>1, <1>2, <1>3, <1>4 DEF FileInForce, AnswersInForce, InForce

LEMMA CheckBordersInForce ==
  ASSUME InForceInv, NEW c \in Check, AbortCheck(c) \/ \E w \in Worker : StartCheck(c, w)
  PROVE  InForceInv'
<1> USE DEF InForceInv
<1>1. UNCHANGED <<published, versions, file, saving, reported, restarts, faults>>
  BY DEF AbortCheck, StartCheck
<1>2. PICK new \in Checking \cup {Idle} :
        check' = [check EXCEPT ![c] = new] /\ (new = Idle \/ new.got = <<>>)
  <2>1. CASE AbortCheck(c)
    BY <2>1 DEF AbortCheck
  <2>2. ASSUME NEW w \in Worker, StartCheck(c, w)
        PROVE  \E new \in Checking \cup {Idle} :
                 check' = [check EXCEPT ![c] = new] /\ (new = Idle \/ new.got = <<>>)
    <3>1. [worker |-> w, got |-> <<>>] \in Checking
      BY DEF Checking
    <3>2. [worker |-> w, got |-> <<>>].got = <<>>
      OBVIOUS
    <3>3. check' = [check EXCEPT ![c] = [worker |-> w, got |-> <<>>]]
      BY <2>2 DEF StartCheck
    <3> QED BY <3>1, <3>2, <3>3
  <2> QED BY <2>1, <2>2
<1>3. TypeOK'
  BY <1>1, <1>2, LawAssumption DEF TypeOK
<1>4. AnswersInForce'
  BY <1>1, <1>2 DEF TypeOK, AnswersInForce
<1> QED BY <1>1, <1>3, <1>4 DEF VersionsInForce, FileInForce, InForce

LEMMA NextInForce == InForceInv /\ [Next]_vars => InForceInv'
<1> SUFFICES ASSUME InForceInv, [Next]_vars PROVE InForceInv'
  OBVIOUS
<1>1. CASE UNCHANGED vars
  BY <1>1 DEF vars, InForceInv, TypeOK, VersionsInForce, FileInForce, AnswersInForce, InForce
<1> QED BY <1>1, AmendInForce, FetchInForce, FinishInForce, AcknowledgeInForce, SaveInForce,
           RestartInForce, CheckBordersInForce DEF Next

LEMMA InForceInvariance == Spec => []InForceInv
BY InitInForce, NextInForce, PTL DEF Spec

\* The state of the monitor always has the types TypeOK gives it.
THEOREM TypeCorrect == Spec => []TypeOK
BY InForceInvariance, PTL DEF InForceInv

\* With any number of workers, overlapping checks, crashes and failing writes, the rules
\* are never declared up to date with a version that is not in force.
THEOREM NeverAheadOfTheLaw == Spec => []NeverAhead
<1>1. InForceInv => NeverAhead
  BY DEF InForceInv, VersionsInForce, FileInForce, InForce, NeverAhead
<1> QED BY <1>1, InForceInvariance, PTL

-----------------------------------------------------------------------------
(* One worker and one check at a time *)

\* The deployment in which acknowledgements stand.
OneAtATime ==
  /\ \A v, w \in Worker : v = w
  /\ \A c, d \in Check : c = d
  /\ MaxSaveFaults = 0
  /\ AbruptRestart = FALSE

\* Outside a write, a restart brings back what memory has.
Stored ==
  \A w \in Worker :
    /\ saving[w] = "no" => versions[w] = Load
    /\ saving[w] = "opened" => file = Torn

\* What is known of a law, and what a check is about to store of it, is never before
\* the version the rules are declared up to date with: the answers are those of the
\* only check, and each was given after what is known was.
Ordered ==
  /\ \A w \in Worker, l \in Law :
       versions[w][l].amendment # None => versions[w][l].amendment >= versions[w][l].system
  /\ \A c \in Check, w \in Worker :
       check[c] # Idle =>
         \A l \in 1..Len(check[c].got) :
           check[c].got[l] # None =>
             /\ check[c].got[l] >= versions[w][l].system
             /\ versions[w][l].amendment # None => check[c].got[l] >= versions[w][l].amendment

OneInv == InForceInv /\ Stored /\ Ordered

\* The step property that AcknowledgementStands is about, for every entry.
Forward ==
  \A w \in Worker, l \in Law :
    versions[w][l].acknowledged =>
      /\ versions'[w][l].acknowledged
      /\ versions'[w][l].system >= versions[w][l].system

\* What is in an entry, with its types.
LEMMA EntryOf ==
  ASSUME TypeOK, NEW w \in Worker, NEW l \in Law
  PROVE  /\ versions[w][l] \in Entry
         /\ versions[w][l].system \in Nat
         /\ versions[w][l].amendment # None => versions[w][l].amendment \in Nat
         /\ published[l] \in Nat
BY DEF TypeOK, Versions, Entry, Amendment

LEMMA UnchangedForward == ASSUME TypeOK, UNCHANGED versions PROVE Forward
BY EntryOf DEF Forward

LEMMA FetchOrdered ==
  ASSUME OneInv, NEW c \in Check, FetchLaw(c)
  PROVE  Ordered'
<1> DEFINE n == Len(check[c].got) + 1
<1> USE DEF OneInv, InForceInv
<1>1. PICK answer \in Answers(n) : check' = [check EXCEPT ![c].got = Append(@, answer)]
  BY DEF FetchLaw
<1>2. check[c] \in Checking /\ check[c].got \in Seq(Amendment) /\ n \in Law /\ check[c] # Idle
  BY CheckingOf, LawAssumption DEF FetchLaw, Law
<1>3. answer \in Amendment /\ (answer # None => answer = published[n])
  BY <1>1, <1>2, SentinelsAssumption DEF Answers, Amendment, TypeOK
<1>4. /\ Len(Append(check[c].got, answer)) = n
      /\ \A i \in 1..n : Append(check[c].got, answer)[i] = IF i = n THEN answer ELSE check[c].got[i]
  BY <1>2, <1>3
<1>5. /\ check'[c].got = Append(check[c].got, answer)
      /\ \A d \in Check : d # c => check'[d] = check[d]
  BY <1>1, <1>2 DEF TypeOK, Checking
<1>6. UNCHANGED versions
  BY DEF FetchLaw
<1>7. ASSUME NEW d \in Check, NEW w \in Worker, check'[d] # Idle,
             NEW l \in 1..Len(check'[d].got), check'[d].got[l] # None
      PROVE  /\ check'[d].got[l] >= versions[w][l].system
             /\ versions[w][l].amendment # None => check'[d].got[l] >= versions[w][l].amendment
  <2>1. CASE d = c /\ l = n
    <3>1. check'[d].got[l] = published[l] /\ l \in Law
      BY <1>2, <1>3, <1>4, <1>5, <1>7, <2>1
    <3>2. InForce(versions[w][l], l)
      BY <3>1 DEF VersionsInForce
    <3> QED BY <3>1, <3>2, EntryOf DEF InForce
  <2>2. CASE d = c /\ l # n
    <3>1. check'[c].got[l] = check[c].got[l] /\ l \in 1..Len(check[c].got)
      BY <1>2, <1>4, <1>5, <1>7, <2>2
    <3> QED BY <1>2, <1>7, <2>2, <3>1 DEF Ordered
  <2>3. CASE d # c
    BY <1>5, <1>7, <2>3 DEF Ordered
  <2> QED BY <2>1, <2>2, <2>3
<1> QED BY <1>6, <1>7 DEF Ordered

LEMMA FinishOne ==
  ASSUME OneInv, OneAtATime, NEW c \in Check, FinishCheck(c)
  PROVE  Stored' /\ Ordered' /\ Forward
<1> DEFINE w == check[c].worker
           got == check[c].got
           new == [l \in Law |-> Checked(versions[w][l], got[l])]
<1> USE DEF OneInv, InForceInv
<1>1. /\ w \in Worker /\ check[c] # Idle
      /\ \A l \in Law : got[l] \in Amendment /\ l \in 1..Len(got)
  BY AnswersOf
<1>2. \A l \in Law : /\ new[l].system = versions[w][l].system
                     /\ new[l].amendment = got[l]
                     /\ new[l].acknowledged = versions[w][l].acknowledged
  BY <1>1, EntryOf, EntryUpdates
<1>3. versions'[w] = new
  <2>1. versions' = [versions EXCEPT ![w] = new]
    BY DEF FinishCheck
  <2> HIDE DEF new
  <2> QED BY <1>1, <2>1 DEF TypeOK
<1>4. /\ \A v \in Worker : v = w
      /\ saving'[w] = "begun"
      /\ \A d \in Check : check'[d] = Idle
  BY <1>1 DEF OneAtATime, FinishCheck, StartSave, TypeOK
<1>5. Stored'
  BY <1>4 DEF Stored
<1>6. Ordered'
  BY <1>1, <1>2, <1>3, <1>4 DEF Ordered
<1>7. Forward
  BY <1>1, <1>2, <1>3, <1>4, EntryOf DEF Forward
<1> QED BY <1>5, <1>6, <1>7

LEMMA AcknowledgeOne ==
  ASSUME OneInv, OneAtATime, NEW w \in Worker, NEW l \in Law, Acknowledge(w, l)
  PROVE  Stored' /\ Ordered' /\ Forward
<1> USE DEF OneInv, InForceInv
<1>1. /\ \A v \in Worker : v = w
      /\ saving'[w] = "begun" /\ UNCHANGED check
  BY DEF OneAtATime, Acknowledge, StartSave, TypeOK
<1>2. /\ \A i \in Law : i # l => versions'[w][i] = versions[w][i]
      /\ versions'[w][l].acknowledged
      /\ versions'[w][l].amendment = versions[w][l].amendment
      /\ versions'[w][l].system = IF versions[w][l].amendment = None
                                  THEN versions[w][l].system ELSE versions[w][l].amendment
  BY AcknowledgeEffect
<1>3. \A i \in Law :
        /\ versions'[w][i].amendment = versions[w][i].amendment
        /\ versions'[w][i].system \in {versions[w][i].system, versions[w][i].amendment}
        /\ versions[w][i].amendment = None => versions'[w][i].system = versions[w][i].system
        /\ versions[w][i].acknowledged => versions'[w][i].acknowledged
  BY <1>2
<1>4. \A i \in Law : versions'[w][i].system >= versions[w][i].system
  BY <1>3, EntryOf DEF Ordered
<1>5. \A c \in Check : check[c] # Idle => \A i \in 1..Len(check[c].got) : i \in Law
  BY CheckingOf, LawAssumption DEF Law
<1>6. Ordered'
  <2>1. ASSUME NEW i \in Law, versions'[w][i].amendment # None
        PROVE  versions'[w][i].amendment >= versions'[w][i].system
    BY <1>3, <2>1, EntryOf DEF Ordered
  <2>2. ASSUME NEW c \in Check, check[c] # Idle, NEW i \in 1..Len(check[c].got),
               check[c].got[i] # None
        PROVE  /\ check[c].got[i] >= versions'[w][i].system
               /\ versions'[w][i].amendment # None => check[c].got[i] >= versions'[w][i].amendment
    BY <1>3, <1>5, <2>2 DEF Ordered
  <2> QED BY <1>1, <2>1, <2>2 DEF Ordered
<1> QED BY <1>1, <1>3, <1>4, <1>6 DEF Stored, Forward

\* A write that does not fail, and the restart of a worker that is not in one.
LEMMA SaveOne ==
  ASSUME OneInv, OneAtATime, NEW w \in Worker,
         SaveOpen(w) \/ SaveWrite(w) \/ SaveFails(w) \/ Restart(w)
  PROVE  Stored' /\ UNCHANGED versions /\ \A c \in Check : check'[c] = check[c] \/ check'[c] = Idle
<1> USE DEF OneInv, InForceInv
<1>1. \A v \in Worker : v = w
  BY DEF OneAtATime
<1>2. ~SaveFails(w)
  BY DEF OneAtATime, SaveFails, TypeOK
<1>3. CASE SaveOpen(w)
  BY <1>1, <1>3 DEF SaveOpen, Stored, TypeOK
<1>4. CASE SaveWrite(w)
  <2>1. /\ file' = versions[w] /\ saving'[w] = "no"
        /\ UNCHANGED <<versions, check>>
    BY <1>4 DEF SaveWrite, Stored, TypeOK
  <2>2. Load' = versions[w]
    BY <2>1, SentinelsAssumption DEF Load, TypeOK
  <2> QED BY <1>1, <2>1, <2>2 DEF Stored
<1>5. CASE Restart(w)
  <2>1. saving[w] = "no" /\ saving'[w] = "no" /\ UNCHANGED file
    BY <1>5 DEF Restart, OneAtATime, Free, TypeOK
  <2>2. versions' = [versions EXCEPT ![w] = versions[w]]
    BY <1>5, <2>1 DEF Restart, Stored
  <2>3. versions' = versions
    BY <2>2 DEF TypeOK
  <2>4. Load' = Load
    BY <2>1 DEF Load
  <2> QED BY <1>1, <1>5, <2>1, <2>3, <2>4 DEF Stored, Restart
<1> QED BY <1>2, <1>3, <1>4, <1>5

LEMMA NextOne ==
  ASSUME OneAtATime
  PROVE  OneInv /\ [Next]_vars => OneInv' /\ Forward
<1> SUFFICES ASSUME OneInv, [Next]_vars PROVE OneInv' /\ Forward
  OBVIOUS
<1> USE DEF OneInv, InForceInv
<1>1. InForceInv'
  BY NextInForce
<1>2. ASSUME UNCHANGED versions, Stored',
             \A c \in Check : check'[c] = check[c] \/ check'[c] = Idle \/ check'[c].got = <<>>
      PROVE  Stored' /\ Ordered' /\ Forward
  BY <1>2, UnchangedForward DEF Ordered
<1>3. ASSUME UNCHANGED <<versions, file, saving>> PROVE Stored'
  BY <1>3 DEF Stored, Load
<1>4. ASSUME UNCHANGED vars PROVE Stored' /\ Ordered' /\ Forward
  <2>1. UNCHANGED <<versions, file, saving, check>>
    BY <1>4 DEF vars
  <2>2. \A c \in Check : check'[c] = check[c]
    BY <2>1
  <2> QED BY <1>2, <1>3, <2>1, <2>2
<1>5. ASSUME NEW l \in Law, Amend(l) PROVE Stored' /\ Ordered' /\ Forward
  BY <1>2, <1>3, <1>5 DEF Amend
<1>6. ASSUME NEW c \in Check, FetchLaw(c) PROVE Stored' /\ Ordered' /\ Forward
  <2>1. UNCHANGED <<versions, file, saving>>
    BY <1>6 DEF FetchLaw
  <2> QED BY <1>3, <1>6, <2>1, FetchOrdered, UnchangedForward
<1>7. ASSUME NEW c \in Check, AbortCheck(c) \/ \E w \in Worker : StartCheck(c, w)
      PROVE  Stored' /\ Ordered' /\ Forward
  <2>1. UNCHANGED <<versions, file, saving>>
    BY <1>7 DEF AbortCheck, StartCheck
  <2>2. \A d \in Check : check'[d] = check[d] \/ check'[d] = Idle \/ check'[d].got = <<>>
    BY <1>7 DEF AbortCheck, StartCheck, TypeOK
  <2> QED BY <1>2, <1>3, <2>1, <2>2
<1>8. ASSUME NEW w \in Worker, SaveOpen(w) \/ SaveWrite(w) \/ SaveFails(w) \/ Restart(w)
      PROVE  Stored' /\ Ordered' /\ Forward
  BY <1>2, <1>8, SaveOne
<1> QED BY <1>1, <1>4, <1>5, <1>6, <1>7, <1>8, FinishOne, AcknowledgeOne DEF Next

LEMMA OneInvariance ==
  ASSUME OneAtATime
  PROVE  Spec => []OneInv
<1>1. Init => OneInv
  BY InitInForce DEF Init, OneInv, Stored, Ordered, Load, Default
<1>2. OneInv /\ [Next]_vars => OneInv'
  BY NextOne
<1> QED BY <1>1, <1>2, PTL DEF Spec

\* With one worker and one check at a time, an acknowledgement is never taken back and
\* the version of the rules never goes backwards.
THEOREM AcknowledgementsStand ==
  ASSUME OneAtATime
  PROVE  Spec => AcknowledgementStands
<1>1. OneInv /\ [Next]_vars => [Forward]_vars
  BY NextOne
<1>2. [Forward]_vars <=>
        [\A w \in Worker, l \in Law :
           versions[w][l].acknowledged =>
             /\ versions'[w][l].acknowledged
             /\ versions'[w][l].system >= versions[w][l].system]_vars
  BY DEF Forward
<1> QED BY <1>1, <1>2, OneInvariance, PTL DEF AcknowledgementStands, Spec

\* With one worker, the status served outside a write is the one that is stored.
THEOREM StatusServedIsStored ==
  ASSUME OneAtATime
  PROVE  Spec => []StatusIsStored
<1>1. OneInv => StatusIsStored
  BY DEF OneInv, Stored, StatusIsStored, Free
<1> QED BY <1>1, OneInvariance, PTL
=============================================================================

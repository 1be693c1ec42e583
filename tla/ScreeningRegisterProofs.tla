------------------------ MODULE ScreeningRegisterProofs ------------------------
(***************************************************************************)
(* One worker on its own files implements ScreeningRegister: memory, files,*)
(* blocking writes and restarts are one atomic record per screening.       *)
(***************************************************************************)
EXTENDS ScreeningStoreProofs

-----------------------------------------------------------------------------
(* The refinement mapping and the invariant *)

\* The record of each screening, and what each reader is being shown.
Content == [id \in Screening |-> Held(CHOOSE w \in Worker : TRUE, id)]

Answers == {"not found", "cached", "stored"}

Seen == [r \in Request |->
           IF req[r] = Idle \/ req[r].pc # "done" THEN Nothing
           ELSE IF req[r].kind = "not found" THEN Missing(req[r].id)
           ELSE IF req[r].kind \in {"cached", "stored"}
                THEN Shown(req[r].id, req[r].cards, req[r].regs)
           ELSE Nothing]

\* An interpretation under way is about findings the screening has had, and a handler
\* that gives a reader an answer is done with it.
JobsFollow ==
  \A r \in Request : req[r] # Idle =>
    /\ req[r].pc = "llm" => req[r].cards <= evaluated[req[r].id]
    /\ req[r].pc # "done" => req[r].kind \notin Answers

\* What has been evaluated says so.
SaysEvaluated ==
  \A w \in Worker, id \in Screening : evaluated[id] > 0 => Held(w, id).status = "evaluated"

RegisterInv == OneWorkerInv /\ PairedInv /\ JobsFollow /\ SaysEvaluated

\* The only worker is the one the mapping names.
LEMMA TheWorker ==
  ASSUME OneWorkerOnFiles, NEW w \in Worker
  PROVE  /\ (CHOOSE v \in Worker : TRUE) = w
         /\ \A id \in Screening : Content[id] = Held(w, id) /\ Content'[id] = Held(w, id)'
<1>1. (CHOOSE v \in Worker : TRUE) = w
  BY DEF OneWorkerOnFiles
<1> QED BY <1>1 DEF Content

\* What the store has of a screening that was made.
LEMMA HeldRecord ==
  ASSUME RegisterInv, NEW w \in Worker, NEW id \in created
  PROVE  /\ id \in Screening /\ db[id] = Absent
         /\ Held(w, id) \in Record /\ Held(w, id) # Absent
         /\ evaluated[id] \in Nat
         /\ Held(w, id).cards = evaluated[id] /\ Held(w, id).regs = evaluated[id]
<1> USE DEF RegisterInv, OneWorkerInv, TypeInv, StoreInv
<1>1. id \in Screening /\ evaluated[id] \in Nat
  BY DEF TypeOK
<1>2. Held(w, id) # Absent /\ Held(w, id).cards = evaluated[id]
  BY <1>1 DEF HeldIsLast
<1>3. Held(w, id).cards = Held(w, id).regs
  BY <1>1, <1>2, HeldPaired DEF PairedInv
<1> QED BY <1>1, <1>2, <1>3, HeldType DEF NoRows

-----------------------------------------------------------------------------
(* The requests *)

\* What a reader is shown by a handler that starts.
ShownBy(pc, kind, id, cards, regs) ==
  IF pc # "done" THEN Nothing
  ELSE IF kind = "not found" THEN Missing(id)
  ELSE IF kind \in {"cached", "stored"} THEN Shown(id, cards, regs)
  ELSE Nothing

LEMMA BeginShows ==
  ASSUME TypeOK, NEW r \in Request, NEW w \in Worker, NEW id \in Screening,
         NEW pc \in Step, NEW kind \in Kind, NEW cards \in Nat, NEW regs \in Nat,
         NEW source \in Source,
         Begin(r, w, id, pc, kind, cards, regs, source)
  PROVE  Seen' = [Seen EXCEPT ![r] = ShownBy(pc, kind, id, cards, regs)]
<1> DEFINE job == [pc |-> pc, worker |-> w, id |-> id, kind |-> kind,
                   cards |-> cards, regs |-> regs, source |-> source]
<1>1. job \in Job /\ job # Idle
  BY SentinelsAssumption DEF Job
<1>2. req'[r] = job /\ \A q \in Request : q # r => req'[q] = req[q]
  BY DEF Begin, TypeOK
<1>3. \A q \in Request : q # r => Seen'[q] = Seen[q]
  BY <1>2 DEF Seen
<1>4. Seen'[r] = ShownBy(pc, kind, id, cards, regs)
  <2>1. job.pc = pc /\ job.kind = kind /\ job.id = id /\ job.cards = cards /\ job.regs = regs
    OBVIOUS
  <2> HIDE DEF job
  <2> QED BY <1>1, <1>2, <2>1 DEF Seen, ShownBy
<1> QED BY <1>3, <1>4 DEF Seen

\* A handler that starts keeps what the handlers know.
LEMMA BeginFollows ==
  ASSUME RegisterInv, NEW r \in Request, NEW w \in Worker, NEW id \in Screening,
         NEW pc, NEW kind, NEW cards \in Nat, NEW regs, NEW source,
         Begin(r, w, id, pc, kind, cards, regs, source),
         \A i \in Screening : evaluated'[i] \in Nat /\ evaluated'[i] >= evaluated[i],
         pc = "llm" => cards <= evaluated[id],
         pc # "done" => kind \notin Answers
  PROVE  JobsFollow'
<1> USE DEF RegisterInv, PairedInv, TypeInv
<1> SUFFICES ASSUME NEW q \in Request, req'[q] # Idle
             PROVE  /\ req'[q].pc = "llm" => req'[q].cards <= evaluated'[req'[q].id]
                    /\ req'[q].pc # "done" => req'[q].kind \notin Answers
  BY DEF JobsFollow
<1>1. CASE q = r
  <2>1. evaluated[id] \in Nat
    BY DEF TypeOK
  <2> QED BY <1>1, <2>1 DEF Begin, TypeOK
<1>2. CASE q # r
  <2>1. req'[q] = req[q]
    BY <1>2 DEF Begin, TypeOK
  <2>2. req[q].id \in Screening /\ req[q].cards \in Nat
    BY <2>1, JobOf
  <2>3. evaluated[req[q].id] \in Nat
    BY <2>2 DEF TypeOK
  <2> QED BY <2>1, <2>2, <2>3 DEF JobsFollow
<1> QED BY <1>1, <1>2

\* Without a database and with the screening in memory or file, a lookup has one answer.
LEMMA LookupBegins ==
  ASSUME RegisterInv, OneWorkerOnFiles,
         NEW r \in Request, NEW w \in Worker, NEW id \in Screening, Lookup(r, w, id)
  PROVE  LET record == Held(w, id)
         IN  \/ \E kind \in {"cached", "stored"} :
                  Answer(r, w, id, kind, record.cards, record.regs)
             \/ \E kind \in {"live", "no location"} : Answer(r, w, id, kind, 0, 0)
             \/ Begin(r, w, id, "fetching", "evaluated", 0, 0, "store")
             \/ Begin(r, w, id, "viewing", "live", 0, 0, "store")
             \/ Begin(r, w, id, "llm", "interpreted", record.cards, record.regs, "store")
<1>1. id \in created
  BY LookupEffect DEF RegisterInv, PairedInv, TypeInv
<1>2. Held(w, id) # Absent /\ db[id] = Absent
  BY <1>1, HeldRecord
<1>3. Gets(w, id) = {Held(w, id)}
  BY <1>2 DEF Gets
<1>4. ASSUME NEW force \in Forces, Evaluate(r, w, id, force)
      PROVE  \/ Answer(r, w, id, "cached", Held(w, id).cards, Held(w, id).regs)
             \/ Answer(r, w, id, "no location", 0, 0)
             \/ Begin(r, w, id, "fetching", "evaluated", 0, 0, "store")
  BY <1>2, <1>3, <1>4 DEF Evaluate
<1>5. CASE Read(r, w, id)
  BY <1>2, <1>3, <1>5 DEF Read
<1>6. CASE GetRegulations(r, w, id)
  BY <1>2, <1>3, <1>6 DEF GetRegulations, OneWorkerOnFiles
<1>7. CASE View(r, w, id)
  BY <1>2, <1>3, <1>7 DEF View
<1>8. CASE Interpret(r, w, id)
  BY <1>2, <1>3, <1>8 DEF Interpret
<1> QED BY <1>4, <1>5, <1>6, <1>7, <1>8 DEF Lookup

-----------------------------------------------------------------------------
(* The steps of the register *)

\* The register's step, from what a store's step does to content and readers.
LEMMA RegisterCreates ==
  ASSUME NEW id \in Screening, Content[id] = Absent,
         Content' = [Content EXCEPT ![id] =
                       [status |-> "completed", cards |-> 0, regs |-> 0, text |-> NoText]],
         Seen' = Seen
  PROVE  Register!Next
<1>1. Register!Create(id)
  BY DEF Register!Create, Content, Seen
<1> QED BY <1>1 DEF Register!Next

LEMMA RegisterEvaluates ==
  ASSUME NEW id \in Screening, Content[id] # Absent,
         Content' = [Content EXCEPT ![id].status = "evaluated",
                                    ![id].cards = @ + 1, ![id].regs = @ + 1],
         Seen' = Seen
  PROVE  Register!Next
<1>1. Register!Evaluate(id)
  BY DEF Register!Evaluate, Content, Seen
<1> QED BY <1>1 DEF Register!Next

LEMMA RegisterAnnotates ==
  ASSUME NEW id \in Screening, Content[id] # Absent,
         NEW text \in 0..Content[id].cards \cup {ErrorText},
         Content' = [Content EXCEPT ![id].status = "evaluated", ![id].text = text],
         Seen' = Seen
  PROVE  Register!Next
<1>1. Register!Annotate(id)
  BY DEF Register!Annotate, Content, Seen
<1> QED BY <1>1 DEF Register!Next

LEMMA RegisterShows ==
  ASSUME NEW r \in Request, NEW id \in Screening, Content[id] # Absent, Content' = Content,
         Seen' = [Seen EXCEPT ![r] = Shown(id, Content[id].cards, Content[id].regs)]
  PROVE  Register!Next
<1>1. Register!Look(r, id)
  BY DEF Register!Look, Content, Seen, Shown, Register!Shown, Missing, Register!Missing
<1> QED BY <1>1 DEF Register!Next

LEMMA RegisterLeaves ==
  ASSUME NEW r \in Request, Content' = Content, Seen' = [Seen EXCEPT ![r] = Nothing]
  PROVE  Register!Next
<1>1. Register!Leave(r)
  BY DEF Register!Leave, Content, Seen, Nothing, Register!Nothing
<1> QED BY <1>1 DEF Register!Next

LEMMA RegisterRests ==
  ASSUME Content' = Content, Seen' = Seen
  PROVE  UNCHANGED Register!vars
BY DEF Register!vars, Content, Seen

-----------------------------------------------------------------------------
(* The steps of the store *)

\* What a step of the store is to the register, and what it keeps.
Simulates ==
  /\ Register!Next \/ UNCHANGED Register!vars
  /\ JobsFollow'
  /\ SaysEvaluated'

\* A step that leaves what the store has as it was.
LEMMA SaysEvaluatedKept ==
  ASSUME SaysEvaluated, UNCHANGED evaluated,
         \A w \in Worker, id \in Screening : Held(w, id)' = Held(w, id)
  PROVE  SaysEvaluated'
BY DEF SaysEvaluated

LEMMA LookupSimulates ==
  ASSUME RegisterInv, OneWorkerOnFiles,
         NEW r \in Request, NEW w \in Worker, NEW id \in Screening, Lookup(r, w, id)
  PROVE  Simulates
<1> DEFINE record == Held(w, id)
<1> USE DEF RegisterInv, PairedInv, TypeInv
<1>1. /\ id \in created /\ CacheHeld(w, id) /\ req[r] = Idle
      /\ UNCHANGED <<created, file, evaluated>>
  BY LookupEffect DEF Lookup, Evaluate, Read, GetRegulations, View, Interpret
<1>2. record \in Record /\ record # Absent /\ record.cards = evaluated[id] /\ evaluated[id] \in Nat
      /\ record.cards \in Nat /\ record.regs \in Nat
  BY <1>1, HeldRecord
<1>3. \A v \in Worker, i \in Screening : Held(v, i)' = Held(v, i)
  <2>1. /\ mem'[w][id] = record
        /\ \A v \in Worker, i \in Screening :
             (v # w \/ i # id \/ mem[v][i] # Absent) => mem'[v][i] = mem[v][i]
    BY <1>1, CacheHeldEffect
  <2> QED BY <1>1, <1>2, <2>1 DEF Held
<1>4. Content' = Content /\ Content[id] = record
  <2>1. \A i \in Screening : Content'[i] = Content[i]
    BY <1>3, TheWorker
  <2> QED BY <2>1, TheWorker DEF Content
<1>5. SaysEvaluated'
  BY <1>1, <1>3, SaysEvaluatedKept
<1>6. \A i \in Screening : evaluated'[i] \in Nat /\ evaluated'[i] >= evaluated[i]
  BY <1>1 DEF TypeOK
<1>7. Seen[r] = Nothing
  BY <1>1 DEF Seen
<1>8. ASSUME NEW kind \in {"cached", "stored"},
             Begin(r, w, id, "done", kind, record.cards, record.regs, "store")
      PROVE  Simulates
  <2>1. Seen' = [Seen EXCEPT ![r] = Shown(id, record.cards, record.regs)]
    <3> HIDE DEF record
    <3>1. kind \in Kind /\ "done" \in Step /\ "store" \in Source
      BY DEF Kind, Step, Source
    <3>2. ShownBy("done", kind, id, record.cards, record.regs) = Shown(id, record.cards, record.regs)
      BY DEF ShownBy
    <3> QED BY <1>2, <1>8, <3>1, <3>2, BeginShows
  <2>2. JobsFollow'
    BY <1>2, <1>6, <1>8, BeginFollows
  <2> QED BY <1>2, <1>4, <1>5, <2>1, <2>2, RegisterShows DEF Simulates
<1>9. ASSUME NEW pc \in Step, NEW kind \in Kind \ Answers, NEW cards \in Nat, NEW regs \in Nat,
             Begin(r, w, id, pc, kind, cards, regs, "store"),
             pc = "llm" => cards <= evaluated[id]
      PROVE  Simulates
  <2>1. Seen' = [Seen EXCEPT ![r] = Nothing]
    <3>1. ShownBy(pc, kind, id, cards, regs) = Nothing /\ "store" \in Source
      BY <1>9 DEF ShownBy, Answers, Source
    <3> QED BY <1>9, <3>1, BeginShows
  <2>2. Seen' = Seen
    BY <1>7, <2>1 DEF Seen
  <2>3. JobsFollow'
    BY <1>6, <1>9, BeginFollows
  <2> QED BY <1>4, <1>5, <2>2, <2>3, RegisterRests DEF Simulates
<1>10. CASE Begin(r, w, id, "llm", "interpreted", record.cards, record.regs, "store")
  <2> HIDE DEF record
  <2>1. "llm" \in Step /\ "interpreted" \in Kind \ Answers /\ record.cards <= evaluated[id]
    BY <1>2 DEF Step, Kind, Answers
  <2> QED BY <1>2, <1>9, <1>10, <2>1
<1>11. CASE \/ Begin(r, w, id, "fetching", "evaluated", 0, 0, "store")
            \/ Begin(r, w, id, "viewing", "live", 0, 0, "store")
            \/ \E kind \in {"live", "no location"} : Answer(r, w, id, kind, 0, 0)
  BY <1>9, <1>11 DEF Step, Kind, Answers, Answer
<1> QED BY <1>8, <1>10, <1>11, LookupBegins DEF Answer

\* A comparison is of rows, of which the register knows nothing.
LEMMA CompareSimulates ==
  ASSUME RegisterInv, NEW r \in Request, NEW w \in Worker, NEW id \in Screening,
         Compare(r, w, id)
  PROVE  Simulates
<1> USE DEF RegisterInv, PairedInv, TypeInv
<1>1. /\ req[r] = Idle /\ UNCHANGED <<mem, file, evaluated>>
  BY CompareEffect DEF Compare
<1>2. PICK kind \in {"compared", "demo", "refused"}, cards \in Nat, regs \in Nat :
        Begin(r, w, id, "done", kind, cards, regs, "store")
  BY CompareEffect
<1>3. Content' = Content /\ SaysEvaluated'
  BY <1>1 DEF Content, Held, SaysEvaluated
<1>4. Seen' = Seen
  <2>1. /\ kind \in Kind /\ "done" \in Step /\ "store" \in Source
        /\ ShownBy("done", kind, id, cards, regs) = Nothing /\ Seen[r] = Nothing
    BY <1>1 DEF Kind, Step, Source, ShownBy, Seen
  <2>2. Seen' = [Seen EXCEPT ![r] = Nothing]
    BY <1>2, <2>1, BeginShows
  <2> QED BY <2>1, <2>2 DEF Seen
<1>5. JobsFollow'
  <2>1. \A i \in Screening : evaluated'[i] \in Nat /\ evaluated'[i] >= evaluated[i]
    BY <1>1 DEF TypeOK
  <2> QED BY <1>2, <2>1, BeginFollows
<1> QED BY <1>3, <1>4, <1>5, RegisterRests DEF Simulates

LEMMA ListSimulates ==
  ASSUME RegisterInv, OneWorkerOnFiles, NEW r \in Request, NEW w \in Worker, List(r, w)
  PROVE  Simulates
<1> USE DEF RegisterInv, PairedInv, TypeInv
<1>1. UNCHANGED <<file, req, evaluated>>
  BY DEF List, history
<1>2. \A v \in Worker, i \in Screening : Held(v, i)' = Held(v, i)
  <2>1. /\ \A i \in Screening : mem'[w][i] = Held(w, i)
        /\ \A v \in Worker, i \in Screening :
             (v # w \/ mem[v][i] # Absent) => mem'[v][i] = mem[v][i]
    BY ListEffect
  <2> QED BY <1>1, <2>1 DEF Held
<1>3. Content' = Content /\ Seen' = Seen
  <2>1. \A i \in Screening : Content'[i] = Content[i]
    BY <1>2, TheWorker
  <2> QED BY <1>1, <2>1 DEF Content, Seen
<1> QED BY <1>1, <1>2, <1>3, RegisterRests, SaysEvaluatedKept DEF Simulates, JobsFollow

LEMMA CreateSimulates ==
  ASSUME RegisterInv, OneWorkerOnFiles,
         NEW r \in Request, NEW w \in Worker, NEW id \in Screening, Create(r, w, id)
  PROVE  Simulates
<1> DEFINE new == NewRecord("completed")
<1>1. TypeOK /\ SaysEvaluated /\ HeldIsLast /\ \A v \in Worker : v = w
  BY DEF RegisterInv, PairedInv, TypeInv, OneWorkerInv, StoreInv, OneWorkerOnFiles
<1>2. /\ id \notin created /\ req[r] = Idle
      /\ mem' = [mem EXCEPT ![w][id] = new]
      /\ Begin(r, w, id, "storing", "created", 0, 0, "store")
      /\ UNCHANGED <<file, evaluated>>
  BY DEF Create, OneWorkerOnFiles
<1>3. Held(w, id) = Absent /\ evaluated[id] = 0 /\ \A i \in Screening : evaluated[i] \in Nat
  BY <1>1, <1>2 DEF HeldIsLast, Held, TypeOK
<1>4. new # Absent
  BY NewRecordType, SentinelsAssumption DEF Status
<1>5. /\ Held(w, id)' = new
      /\ \A v \in Worker, i \in Screening : i # id => Held(v, i)' = Held(v, i)
  <2>1. /\ mem'[w][id] = new
        /\ \A v \in Worker, i \in Screening : i # id => mem'[v][i] = mem[v][i]
    BY <1>1, <1>2 DEF TypeOK
  <2> QED BY <1>2, <1>4, <2>1 DEF Held
<1>6. Content[id] = Absent /\ Content' = [Content EXCEPT ![id] = new]
  <2>1. Content[id] = Absent /\ Content'[id] = new
        /\ \A i \in Screening : i # id => Content'[i] = Content[i]
    BY <1>3, <1>5, TheWorker
  <2> QED BY <2>1 DEF Content
<1>7. Seen' = Seen
  <2>1. /\ "storing" \in Step /\ "created" \in Kind /\ "store" \in Source
        /\ ShownBy("storing", "created", id, 0, 0) = Nothing /\ Seen[r] = Nothing
    BY <1>2 DEF Step, Kind, Source, ShownBy, Seen
  <2>2. Seen' = [Seen EXCEPT ![r] = Nothing]
    BY <1>1, <1>2, <2>1, BeginShows
  <2> QED BY <2>1, <2>2 DEF Seen
<1>8. JobsFollow'
  <2>1. \A i \in Screening : evaluated'[i] \in Nat /\ evaluated'[i] >= evaluated[i]
    BY <1>2, <1>3
  <2>2. "storing" # "llm" /\ "created" \notin Answers
    BY DEF Answers
  <2> QED BY <1>2, <2>1, <2>2, BeginFollows
<1>9. SaysEvaluated'
  BY <1>1, <1>2, <1>3, <1>5 DEF SaysEvaluated
<1> QED BY <1>6, <1>7, <1>8, <1>9, RegisterCreates DEF Simulates, NewRecord

\* What update_evaluation makes of a record.
Updated(record, cards, regs) ==
  [record EXCEPT !.status = "evaluated", !.cards = cards, !.regs = regs]

\* update_evaluation changes what the store has of one screening.
LEMMA UpdateChangesContent ==
  ASSUME RegisterInv, OneWorkerOnFiles,
         NEW w \in Worker, NEW id \in Screening, NEW record \in Record,
         NEW cards \in Nat, NEW regs \in Nat,
         UpdateEvaluation(w, id, record, cards, regs), UNCHANGED file
  PROVE  /\ Content' = [Content EXCEPT ![id] = Updated(record, cards, regs)]
         /\ Held(w, id)' = Updated(record, cards, regs)
         /\ \A v \in Worker, i \in Screening : i # id => Held(v, i)' = Held(v, i)
<1> DEFINE new == Updated(record, cards, regs)
<1> USE DEF RegisterInv, PairedInv, TypeInv
<1>1. new \in Record /\ new # Absent /\ record # Absent
  BY SentinelsAssumption DEF Record, Status, Updated
<1>2. mem' = [mem EXCEPT ![w][id] = new]
  BY <1>1 DEF UpdateEvaluation, Updated
<1> HIDE DEF new
<1>3. /\ mem'[w][id] = new
      /\ \A v \in Worker, i \in Screening : i # id => mem'[v][i] = mem[v][i]
  BY <1>2 DEF TypeOK
<1>4. /\ Held(w, id)' = new
      /\ \A v \in Worker, i \in Screening : i # id => Held(v, i)' = Held(v, i)
  BY <1>1, <1>3 DEF Held
<1>5. Content'[id] = new /\ \A i \in Screening : i # id => Content'[i] = Content[i]
  BY <1>4, TheWorker
<1>6. Content' = [Content EXCEPT ![id] = new]
  BY <1>5 DEF Content
<1> QED BY <1>4, <1>6 DEF new

LEMMA EvaluateFetchedSimulates ==
  ASSUME RegisterInv, OneWorkerOnFiles, NEW r \in Request, EvaluateFetched(r)
  PROVE  Simulates
<1>1. TypeOK /\ SaysEvaluated /\ JobsBehind
  BY DEF RegisterInv, PairedInv, TypeInv, OneWorkerInv, StoreInv
<1>2. req[r] # Idle /\ req[r].pc = "fetching"
  BY DEF EvaluateFetched, Ready
<1>3. PICK w \in Worker, id \in Screening :
        w = req[r].worker /\ id = req[r].id /\ id \in created
  BY <1>1, <1>2, JobOf DEF JobsBehind
<1>4. PICK n \in Nat : n = evaluated[id] + 1
  BY <1>1 DEF TypeOK
<1> DEFINE old == Held(w, id)
           new == Updated(old, n, n)
<1>5. /\ evaluated' = [evaluated EXCEPT ![id] = n]
      /\ UpdateEvaluation(w, id, old, n, n)
      /\ Begin(r, w, id, "storing", "evaluated", n, n, "store")
      /\ UNCHANGED file
  BY <1>3, <1>4 DEF EvaluateFetched
<1>6. /\ old \in Record /\ old # Absent /\ old.cards = evaluated[id] /\ old.regs = evaluated[id]
      /\ evaluated[id] \in Nat /\ n \in Nat
  BY <1>3, <1>4, HeldRecord
<1>7. /\ Content' = [Content EXCEPT ![id] = new]
      /\ Held(w, id)' = new
      /\ \A v \in Worker, i \in Screening : i # id => Held(v, i)' = Held(v, i)
  <2> HIDE DEF old
  <2> QED BY <1>3, <1>5, <1>6, UpdateChangesContent
<1>8. Content[id] = old
  BY <1>3, <1>4, TheWorker
<1>9. Content' = [Content EXCEPT ![id].status = "evaluated",
                                 ![id].cards = @ + 1, ![id].regs = @ + 1]
  <2>1. new = [old EXCEPT !.status = "evaluated", !.cards = old.cards + 1, !.regs = old.regs + 1]
    BY <1>4, <1>6 DEF Updated
  <2> HIDE DEF old, new
  <2>2. [old EXCEPT !.status = "evaluated", !.cards = old.cards + 1, !.regs = old.regs + 1]
        = [Content[id] EXCEPT !.status = "evaluated", !.cards = @ + 1, !.regs = @ + 1]
    BY <1>8
  <2>3. Content' = [Content EXCEPT ![id] =
                      [Content[id] EXCEPT !.status = "evaluated", !.cards = @ + 1, !.regs = @ + 1]]
    BY <1>7, <2>1, <2>2
  <2> QED BY <1>3, <1>6, <1>8, <2>3 DEF Content
<1>10. Seen' = Seen
  <2>1. /\ "storing" \in Step /\ "evaluated" \in Kind /\ "store" \in Source
        /\ ShownBy("storing", "evaluated", id, n, n) = Nothing
    BY DEF Step, Kind, Source, ShownBy
  <2>2. Seen[r] = Nothing
    BY <1>2 DEF Seen
  <2>3. Seen' = [Seen EXCEPT ![r] = Nothing]
    <3> QED BY <1>1, <1>3, <1>4, <1>5, <1>6, <2>1, BeginShows
  <2> QED BY <2>2, <2>3 DEF Seen
<1>11. /\ \A i \in Screening : evaluated'[i] \in Nat /\ evaluated'[i] >= evaluated[i]
      /\ \A i \in Screening : i # id => evaluated'[i] = evaluated[i]
  BY <1>1, <1>3, <1>4, <1>5, <1>6 DEF TypeOK
<1>12. JobsFollow'
  <2>1. "storing" # "llm" /\ "evaluated" \notin Answers
    BY DEF Answers
  <2> QED BY <1>3, <1>4, <1>5, <1>11, <2>1, BeginFollows
<1>13. SaysEvaluated'
  <2>1. new.status = "evaluated"
    BY <1>6 DEF Record, Updated
  <2>2. \A v \in Worker : v = w
    BY <1>3, <1>4 DEF OneWorkerOnFiles
  <2> HIDE DEF old, new
  <2> QED BY <1>1, <1>3, <1>4, <1>7, <1>11, <2>1, <2>2 DEF SaysEvaluated
<1>14. Content[id] # Absent
  BY <1>6, <1>8
<1> QED BY <1>3, <1>4, <1>9, <1>10, <1>12, <1>13, <1>14, RegisterEvaluates DEF Simulates

LEMMA InterpretedSimulates ==
  ASSUME RegisterInv, OneWorkerOnFiles, NEW r \in Request, Interpreted(r)
  PROVE  Simulates
<1>1. TypeOK /\ SaysEvaluated /\ JobsBehind /\ HoldsRecord /\ JobsFollow
  BY DEF RegisterInv, PairedInv, TypeInv, OneWorkerInv, StoreInv
<1>2. req[r] # Idle /\ req[r].pc = "llm"
  BY DEF Interpreted, Ready
<1>3. PICK w \in Worker, id \in Screening :
        w = req[r].worker /\ id = req[r].id /\ id \in created
  BY <1>1, <1>2, JobOf DEF JobsBehind
<1>4. req[r] \in Job /\ req[r].source = "store" /\ mem[w][id] # Absent
      /\ req[r].cards \in Nat /\ req[r].cards <= evaluated[id] /\ req[r].kind \notin Answers
  BY <1>1, <1>2, <1>3, JobOf DEF JobsBehind, HoldsRecord, JobsFollow
<1> DEFINE old == Held(w, id)
<1>5. RecordNow(r) = old
  BY <1>3, <1>4 DEF RecordNow, Held
<1>6. /\ old \in Record /\ old # Absent /\ old.cards = evaluated[id]
      /\ old.cards \in Nat /\ old.regs \in Nat
  BY <1>3, HeldRecord
<1>7. PICK text \in {req[r].cards, ErrorText} :
        UpdateEvaluation(w, id, [old EXCEPT !.text = text], old.cards, old.regs)
  BY <1>3, <1>4, <1>5 DEF Interpreted
<1>8. /\ req' = [req EXCEPT ![r].pc = "storing"]
      /\ UNCHANGED <<file, evaluated>>
  BY DEF Interpreted
<1> DEFINE noted == [old EXCEPT !.text = text]
           new == Updated(noted, old.cards, old.regs)
<1>9. noted \in Record
  BY <1>4, <1>6, <1>7 DEF Record, Text
<1>10. /\ Content' = [Content EXCEPT ![id] = new]
       /\ Held(w, id)' = new
       /\ \A v \in Worker, i \in Screening : i # id => Held(v, i)' = Held(v, i)
  <2> HIDE DEF old
  <2>1. UpdateEvaluation(w, id, noted, old.cards, old.regs) /\ UNCHANGED file
    BY <1>7, <1>8
  <2> HIDE DEF noted
  <2> QED BY <1>3, <1>6, <1>9, <2>1, UpdateChangesContent
<1>11. Content[id] = old
  BY <1>3, TheWorker
<1>12. Content' = [Content EXCEPT ![id].status = "evaluated", ![id].text = text]
  <2>1. new = [old EXCEPT !.status = "evaluated", !.text = text]
    BY <1>6 DEF Updated, Record
  <2> HIDE DEF old, noted, new
  <2> QED BY <1>3, <1>10, <1>11, <2>1 DEF Content
<1>13. text \in 0..Content[id].cards \cup {ErrorText}
  BY <1>4, <1>6, <1>7, <1>11
<1>14. Seen' = Seen
  <2>1. req'[r] = [req[r] EXCEPT !.pc = "storing"] /\ \A q \in Request : q # r => req'[q] = req[q]
    BY <1>1, <1>8 DEF TypeOK
  <2>2. req'[r].pc = "storing"
    BY <1>4, <2>1 DEF Job
  <2>3. \A q \in Request : Seen'[q] = Seen[q]
    BY <1>2, <2>1, <2>2 DEF Seen
  <2> QED BY <2>3 DEF Seen
<1>15. JobsFollow'
  <2>1. \A q \in Request : q # r => req'[q] = req[q]
    BY <1>1, <1>8 DEF TypeOK
  <2>2. req'[r].pc = "storing" /\ req'[r].kind = req[r].kind
    BY <1>1, <1>4, <1>8 DEF TypeOK, Job
  <2> QED BY <1>1, <1>4, <1>8, <2>1, <2>2 DEF JobsFollow
<1>16. SaysEvaluated'
  <2>1. new.status = "evaluated"
    BY <1>9 DEF Record, Updated
  <2>2. \A v \in Worker : v = w
    BY <1>3 DEF OneWorkerOnFiles
  <2> HIDE DEF old, noted, new
  <2> QED BY <1>1, <1>3, <1>8, <1>10, <2>1, <2>2 DEF SaysEvaluated
<1>17. Content[id] # Absent
  BY <1>6, <1>11
<1> QED BY <1>3, <1>12, <1>13, <1>14, <1>15, <1>16, <1>17, RegisterAnnotates DEF Simulates

\* A handler that ends shows a reader nothing, one that was read out nothing any more.
LEMMA RequestSimulates ==
  ASSUME RegisterInv, NEW r \in Request, Respond(r) \/ ViewFetched(r) \/ Deliver(r)
  PROVE  Simulates
<1>1. TypeOK /\ JobsFollow /\ SaysEvaluated
  BY DEF RegisterInv, PairedInv, TypeInv
<1>2. req[r] # Idle /\ req[r] \in Job /\ UNCHANGED <<mem, file, evaluated>>
  BY <1>1, JobOf DEF Respond, ViewFetched, Deliver, Ready, store, history
<1>3. Content' = Content /\ SaysEvaluated'
  BY <1>1, <1>2 DEF Content, Held, SaysEvaluated
<1>4. CASE Deliver(r)
  <2>1. req'[r] = Idle /\ \A q \in Request : q # r => req'[q] = req[q]
    BY <1>1, <1>4 DEF Deliver, TypeOK
  <2>2. Seen' = [Seen EXCEPT ![r] = Nothing]
    BY <2>1 DEF Seen
  <2>3. JobsFollow'
    BY <1>1, <1>2, <2>1 DEF JobsFollow
  <2> QED BY <1>3, <2>2, <2>3, RegisterLeaves DEF Simulates
<1>5. CASE Respond(r) \/ ViewFetched(r)
  <2>1. req' = [req EXCEPT ![r].pc = "done"] /\ req[r].pc # "done"
    BY <1>5 DEF Respond, ViewFetched, Ready
  <2>2. \A q \in Request : q # r => req'[q] = req[q]
    BY <1>1, <2>1 DEF TypeOK
  <2>3. req'[r].pc = "done" /\ req'[r].kind = req[r].kind /\ req[r].kind \notin Answers
    BY <1>1, <1>2, <2>1 DEF TypeOK, Job, JobsFollow
  <2>4. \A q \in Request : Seen'[q] = Seen[q]
    <3>1. \A q \in Request : q # r => Seen'[q] = Seen[q]
      BY <2>2 DEF Seen
    <3>2. Seen[r] = Nothing
      BY <2>1 DEF Seen
    <3>3. Seen'[r] = Nothing
      <4>1. req'[r].kind \notin {"not found", "cached", "stored"}
        BY <2>3 DEF Answers
      <4> QED BY <4>1 DEF Seen
    <3> QED BY <3>1, <3>2, <3>3
  <2>5. Seen' = Seen
    BY <2>4 DEF Seen
  <2>6. JobsFollow'
    BY <1>1, <1>2, <2>2, <2>3 DEF JobsFollow
  <2> QED BY <1>3, <2>5, <2>6, RegisterRests DEF Simulates
<1> QED BY <1>4, <1>5

LEMMA SaveSimulates ==
  ASSUME RegisterInv, OneWorkerOnFiles, NEW w \in Worker,
         SaveOpen(w) \/ SaveWrite(w) \/ SaveFails(w) \/ Restart(w)
  PROVE  Simulates
<1>1. JobsFollow /\ SaysEvaluated
  BY DEF RegisterInv
<1>2. UNCHANGED evaluated
  BY DEF SaveOpen, SaveWrite, SaveFails, Restart, history
<1>3. \A v \in Worker, i \in Screening : Held(v, i)' = Held(v, i)
  <2>1. \A i \in Screening : Held(w, i)' = Held(w, i)
    BY SavingKeepsFiles DEF RegisterInv
  <2>2. \A v \in Worker : v = w
    BY DEF OneWorkerOnFiles
  <2> QED BY <2>1, <2>2
<1>4. Content' = Content
  <2>1. \A i \in Screening : Content'[i] = Content[i]
    BY <1>3, TheWorker
  <2> QED BY <2>1 DEF Content
<1>5. \A r \in Request : req'[r] = req[r] \/ (req'[r] = Idle /\ req[r].pc # "done")
  BY DEF SaveOpen, SaveWrite, SaveFails, Restart
<1>6. Seen' = Seen
  <2>1. \A r \in Request : Seen'[r] = Seen[r]
    BY <1>5 DEF Seen
  <2> QED BY <2>1 DEF Seen
<1>7. JobsFollow'
  BY <1>1, <1>2, <1>5 DEF JobsFollow
<1> QED BY <1>1, <1>2, <1>3, <1>4, <1>6, <1>7, RegisterRests, SaysEvaluatedKept DEF Simulates

LEMMA NextSimulates ==
  ASSUME OneWorkerOnFiles, RegisterInv, [Next]_vars
  PROVE  Simulates
<1>1. CASE UNCHANGED vars
  <2>1. Content' = Content /\ Seen' = Seen
    BY <1>1 DEF vars, Content, Held, Seen
  <2>2. JobsFollow' /\ SaysEvaluated'
    BY <1>1 DEF vars, RegisterInv, JobsFollow, SaysEvaluated, Held
  <2> QED BY <2>1, <2>2, RegisterRests DEF Simulates
<1> QED BY <1>1, CreateSimulates, LookupSimulates, CompareSimulates, ListSimulates, EvaluateFetchedSimulates,
           InterpretedSimulates, RequestSimulates, SaveSimulates DEF Next, Lookup

LEMMA RegisterInvariance ==
  ASSUME OneWorkerOnFiles
  PROVE  Spec => []RegisterInv
<1>1. Init => Paired /\ JobsPaired /\ JobsFollow /\ SaysEvaluated
  BY DEF Init, Paired, JobsPaired, JobsFollow, SaysEvaluated
<1>2. RegisterInv /\ [Next]_vars => RegisterInv'
  BY NextOneWorker, NextTypeInv, NextPaired, NextSimulates DEF RegisterInv, PairedInv, Simulates
<1>3. Spec => []OneWorkerInv
  BY OneWorkerInvariance
<1>4. OneWorkerInv => TypeInv
  BY DEF OneWorkerInv
<1> QED BY <1>1, <1>2, <1>3, <1>4, PTL DEF Spec, RegisterInv, PairedInv

-----------------------------------------------------------------------------
(* The theorems *)

\* One worker without a database: through every interleaving of evaluations,
\* interpretations, reads, lists, blocking writes and restarts, memory and files are one
\* atomic record per screening, and a reader sees it as it is at one moment.
THEOREM StoreImplementsRegister ==
  ASSUME OneWorkerOnFiles
  PROVE  Spec => RegisterSpec
<1>1. Init => Register!Init
  <2> SUFFICES ASSUME Init PROVE Register!Init
    OBVIOUS
  <2>1. (CHOOSE w \in Worker : TRUE) \in Worker
    BY DEF OneWorkerOnFiles
  <2>2. \A id \in Screening : Held(CHOOSE w \in Worker : TRUE, id) = Absent
    BY <2>1 DEF Init, Held
  <2>3. \A r \in Request : req[r] = Idle
    BY DEF Init
  <2> QED BY <2>2, <2>3 DEF Register!Init, Nothing, Register!Nothing
<1>2. RegisterInv /\ [Next]_vars => [Register!Next]_(Register!vars)
  BY NextSimulates DEF Simulates
<1> QED BY <1>1, <1>2, RegisterInvariance, PTL DEF Spec, RegisterSpec, Register!Spec

\* One worker without a database: an evaluation that no client forces is begun only for a
\* screening of which no evaluation was reported yet, before a restart or after it.
THEOREM EvaluatedAtMostOnce ==
  ASSUME OneWorkerOnFiles
  PROVE  Spec => EvaluatedOnce
<1>1. RegisterInv /\ [Next]_vars =>
        [\A r \in Request, w \in Worker, id \in Screening :
           Evaluate(r, w, id, FALSE) /\ req'[r].pc = "fetching" => answered[id] = 0]_vars
  <2> SUFFICES ASSUME RegisterInv,
                      NEW r \in Request, NEW w \in Worker, NEW id \in Screening,
                      Evaluate(r, w, id, FALSE), req'[r].pc = "fetching"
               PROVE  answered[id] = 0
    OBVIOUS
  <2>1. TypeOK /\ JobsBehind /\ id \in created
    BY DEF RegisterInv, OneWorkerInv, TypeInv, StoreInv, Evaluate
  <2>2. Held(w, id) # Absent /\ Gets(w, id) = {Held(w, id)}
    BY <2>1, HeldRecord DEF Gets
  <2>3. Held(w, id).status # "evaluated"
    <3>1. ASSUME NEW kind, NEW cards, NEW regs, Answer(r, w, id, kind, cards, regs)
          PROVE  FALSE
      <4>1. req'[r].pc = "done"
        BY <2>1, <3>1 DEF Answer, Begin, TypeOK
      <4> QED BY <4>1
    <3> QED BY <2>2, <3>1 DEF Evaluate
  <2>4. evaluated[id] \in Nat /\ answered[id] \in Nat /\ answered[id] <= evaluated[id]
    BY <2>1 DEF TypeOK, JobsBehind
  <2> QED BY <2>3, <2>4 DEF RegisterInv, SaysEvaluated
<1> QED BY <1>1, RegisterInvariance, PTL DEF Spec, EvaluatedOnce
=============================================================================

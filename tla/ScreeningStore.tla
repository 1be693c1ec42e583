--------------------------- MODULE ScreeningStore ---------------------------
(***************************************************************************)
(* The screening store of the backend and the HTTP handlers that use it.   *)
(*                                                                         *)
(* A screening lives either in PostgreSQL or in the file store, depending  *)
(* on whether the database answered when it was created.  The file store   *)
(* is one JSON file per screening, shared by all server processes          *)
(* (workers), behind a dictionary in the memory of each worker.  A worker  *)
(* is one asyncio event loop: what a handler does between two awaits that  *)
(* suspend it is one step of that worker, and the blocking file write of   *)
(* _save_to_file stops the whole worker while other workers go on.         *)
(*                                                                         *)
(* An evaluation is its number: the n-th evaluation of a screening to      *)
(* finish leaves risk cards n and regulation matches n, and 0 stands for   *)
(* the empty lists of a new screening.                                     *)
(***************************************************************************)
EXTENDS Naturals, FiniteSets

CONSTANTS
  Worker,          \* server processes
  Screening,       \* screening ids
  Request,         \* slots for HTTP requests being served
  Located,         \* screenings created with coordinates
  RiskFree,        \* evaluation numbers whose list of risk cards is empty
  RegulationFree,  \* evaluation numbers whose list of matches is empty
  DbAnswers,       \* what check_db_connection() may return, a set of Booleans
  Forces,          \* values of EvaluateRequest.force that clients send
  MaxEvaluations,  \* bound: evaluations of one screening
  MaxRestarts,     \* bound: process restarts
  MaxSaveFaults,   \* bound: file writes that raise
  AbruptRestart,   \* whether a process may die inside a file write
  Absent, Torn, NoText, ErrorText, NoSave, Idle

ASSUME RequestsAssumption ==
  /\ Located \subseteq Screening
  /\ RiskFree \subseteq Nat /\ 0 \in RiskFree
  /\ RegulationFree \subseteq Nat /\ 0 \in RegulationFree
  /\ DbAnswers \subseteq BOOLEAN /\ DbAnswers # {}
  /\ Forces \subseteq BOOLEAN

ASSUME BoundsAssumption ==
  /\ MaxEvaluations \in Nat
  /\ MaxRestarts \in Nat
  /\ MaxSaveFaults \in Nat
  /\ AbruptRestart \in BOOLEAN

VARIABLES
  created,    \* the screenings that POST /api/screening has made
  mem,        \* _in_memory of each worker
  file,       \* data/screenings/{id}.json
  db,         \* rows of screening_requests with their cards and matches
  saving,     \* the _save_to_file call a worker is blocked in
  req,        \* the requests being served
  evaluated,  \* history: evaluations of each screening finished so far
  answered,   \* history: the latest evaluation a client was told about
  restarts, faults

store == <<created, mem, file, db, saving>>
history == <<evaluated, answered>>
budget == <<restarts, faults>>
vars == <<created, mem, file, db, saving, req, evaluated, answered, restarts, faults>>

-----------------------------------------------------------------------------
(* Types *)

Status == {"completed", "pending", "evaluated"}
Text == Nat \cup {NoText, ErrorText}  \* an interpretation, by the cards it is about
Record == [status: Status, cards: Nat, regs: Nat, text: Text]
Save == [id: Screening, opened: BOOLEAN]

Kind == {"created", "evaluated", "cached", "stored", "live", "interpreted",
         "not found", "no location", "compared", "demo", "refused"}
Step == {"fetching", "viewing", "llm", "storing", "done"}
Source == {"store", "detached", "row"}

\* A request: where its handler stands, and its local variables.
Job == [pc: Step, worker: Worker, id: Screening, kind: Kind,
        cards: Nat, regs: Nat, source: Source]

ASSUME SentinelsAssumption ==
  /\ NoText \notin Nat /\ ErrorText \notin Nat /\ NoText # ErrorText
  /\ Absent \notin Record /\ Torn \notin Record /\ Absent # Torn
  /\ NoSave \notin Save /\ Idle \notin Job

TypeOK ==
  /\ created \subseteq Screening
  /\ mem \in [Worker -> [Screening -> Record \cup {Absent}]]
  /\ file \in [Screening -> Record \cup {Absent, Torn}]
  /\ db \in [Screening -> Record \cup {Absent}]
  /\ saving \in [Worker -> Save \cup {NoSave}]
  /\ req \in [Request -> Job \cup {Idle}]
  /\ evaluated \in [Screening -> Nat]
  /\ answered \in [Screening -> Nat]
  /\ restarts \in 0..MaxRestarts
  /\ faults \in 0..MaxSaveFaults

Init ==
  /\ created = {}
  /\ mem = [w \in Worker |-> [id \in Screening |-> Absent]]
  /\ file = [id \in Screening |-> Absent]
  /\ db = [id \in Screening |-> Absent]
  /\ saving = [w \in Worker |-> NoSave]
  /\ req = [r \in Request |-> Idle]
  /\ evaluated = [id \in Screening |-> 0]
  /\ answered = [id \in Screening |-> 0]
  /\ restarts = 0
  /\ faults = 0

-----------------------------------------------------------------------------
(* The store's own functions *)

\* A worker's event loop runs handlers only while it is not blocked in a write.
Free(w) == saving[w] = NoSave

\* Mutant of NewRecord: a status no reader knows.
NewRecordUnknownStatus(status) == [status |-> "draft", cards |-> 0, regs |-> 0, text |-> NoText]

NewRecord(status) == [status |-> status, cards |-> 0, regs |-> 0, text |-> NoText]

\* What memory, or else the file, has of a screening; a file that does not
\* parse counts as none.
Held(w, id) ==
  IF mem[w][id] # Absent THEN mem[w][id]
  ELSE IF file[id] # Torn THEN file[id] ELSE Absent

\* Mutant of CacheHeld: get() also caches what it had to read from the database.
CacheHeldOrRow(w, id) ==
  mem' = [mem EXCEPT ![w][id] =
            IF Held(w, id) # Absent \/ db[id] = Absent THEN Held(w, id) ELSE db[id]]

\* get() leaves in memory what it had to read from the file.
CacheHeld(w, id) == mem' = [mem EXCEPT ![w][id] = Held(w, id)]

\* The dictionary get() builds from a row has no llm_interpretation.
RowRecord(id) == IF db[id] = Absent THEN Absent ELSE [db[id] EXCEPT !.text = NoText]

\* What get() may return: the row, or nothing, once memory and file have failed.
Gets(w, id) ==
  IF Held(w, id) # Absent THEN {Held(w, id)}
  ELSE {IF db_ok THEN RowRecord(id) ELSE Absent : db_ok \in DbAnswers}

\* A handler takes an empty list like a screening that was not found.
NoCards(record) == record # Absent => record.cards \in RiskFree
NoMatches(record) == record # Absent => record.regs \in RegulationFree

\* Mutant of StartSave: the store is memory only.
StartNoSave(w, id) == UNCHANGED saving

\* _save_to_file begins: the worker is blocked until SaveWrite or SaveFails.
StartSave(w, id) == saving' = [saving EXCEPT ![w] = [id |-> id, opened |-> FALSE]]

\* Mutants of UpdateEvaluation: the matches are not replaced with the cards; the
\* status is not set; a record rebuilt without its interpretation; a write that is
\* skipped when the evaluation is the one already stored.
UpdateCardsOnly(w, id, record, cards, regs) ==
  IF record = Absent
  THEN UNCHANGED <<mem, saving>>
  ELSE /\ mem' = [mem EXCEPT ![w][id] = [record EXCEPT !.status = "evaluated", !.cards = cards]]
       /\ StartSave(w, id)

UpdateWithoutStatus(w, id, record, cards, regs) ==
  IF record = Absent
  THEN UNCHANGED <<mem, saving>>
  ELSE /\ mem' = [mem EXCEPT ![w][id] = [record EXCEPT !.cards = cards, !.regs = regs]]
       /\ StartSave(w, id)

UpdateRebuilt(w, id, record, cards, regs) ==
  IF record = Absent
  THEN UNCHANGED <<mem, saving>>
  ELSE /\ mem' = [mem EXCEPT ![w][id] =
                    [NewRecord("evaluated") EXCEPT !.cards = cards, !.regs = regs]]
       /\ StartSave(w, id)

UpdateIfNew(w, id, record, cards, regs) ==
  IF record = Absent
  THEN UNCHANGED <<mem, saving>>
  ELSE /\ mem' = [mem EXCEPT ![w][id] =
                    [record EXCEPT !.status = "evaluated", !.cards = cards, !.regs = regs]]
       /\ IF record.cards = cards THEN UNCHANGED saving ELSE StartSave(w, id)

\* update_evaluation on what memory or the file has: a silent no-op when that
\* is nothing.
UpdateEvaluation(w, id, record, cards, regs) ==
  IF record = Absent
  THEN UNCHANGED <<mem, saving>>
  ELSE /\ mem' = [mem EXCEPT ![w][id] =
                    [record EXCEPT !.status = "evaluated", !.cards = cards, !.regs = regs]]
       /\ StartSave(w, id)

-----------------------------------------------------------------------------
(* Requests *)

Begin(r, w, id, pc, kind, cards, regs, source) ==
  req' = [req EXCEPT ![r] =
            [pc |-> pc, worker |-> w, id |-> id, kind |-> kind,
             cards |-> cards, regs |-> regs, source |-> source]]

Answer(r, w, id, kind, cards, regs) == Begin(r, w, id, "done", kind, cards, regs, "store")

\* Mutant of Ready: without a database nobody runs what follows the LLM call.
ReadyWithDb(r, pc) ==
  /\ req[r] # Idle /\ req[r].pc = pc /\ Free(req[r].worker)
  /\ pc = "llm" => TRUE \in DbAnswers

\* The handler of r is at pc and its worker can run it.
Ready(r, pc) == req[r] # Idle /\ req[r].pc = pc /\ Free(req[r].worker)

\* POST /api/screening: a row when the database answers, memory and file otherwise.
Create(r, w, id) ==
  /\ req[r] = Idle /\ Free(w) /\ id \notin created
  /\ created' = created \cup {id}
  /\ \/ /\ TRUE \in DbAnswers
        /\ db' = [db EXCEPT ![id] = NewRecord("pending")]
        /\ Answer(r, w, id, "created", 0, 0)
        /\ UNCHANGED <<mem, saving>>
     \/ /\ FALSE \in DbAnswers
        /\ mem' = [mem EXCEPT ![w][id] = NewRecord("completed")]
        /\ StartSave(w, id)
        /\ Begin(r, w, id, "storing", "created", 0, 0, "store")
        /\ UNCHANGED db
  /\ UNCHANGED <<file, evaluated, answered, restarts, faults>>

\* How many evaluations of id there will be once those under way have ended.
Expected(id) ==
  evaluated[id] + Cardinality({r \in Request :
                     req[r] # Idle /\ req[r].id = id /\ req[r].pc = "fetching"})

\* POST /api/screening/{id}/evaluate, up to the collection of data.
Evaluate(r, w, id, force) ==
  /\ req[r] = Idle /\ Free(w) /\ id \in created
  /\ CacheHeld(w, id)
  /\ \E record \in Gets(w, id) :
       \/ /\ record = Absent
          /\ Answer(r, w, id, "not found", 0, 0)
       \/ /\ record # Absent
          /\ ~force /\ record.status = "evaluated"
          /\ Answer(r, w, id, "cached", record.cards, record.regs)
       \/ /\ record # Absent
          /\ force \/ record.status # "evaluated"
          /\ id \notin Located
          /\ Answer(r, w, id, "no location", 0, 0)
       \/ /\ record # Absent
          /\ force \/ record.status # "evaluated"
          /\ id \in Located
          /\ Expected(id) < MaxEvaluations
          /\ Begin(r, w, id, "fetching", "evaluated", 0, 0, "store")
  /\ UNCHANGED <<created, file, db, saving, evaluated, answered, restarts, faults>>

\* The data have arrived: rules and matcher run, and update_evaluation stores.
EvaluateFetched(r) ==
  LET w == req[r].worker
      id == req[r].id
      n == evaluated[id] + 1
  IN /\ Ready(r, "fetching")
     /\ evaluated' = [evaluated EXCEPT ![id] = n]
     /\ UpdateEvaluation(w, id, Held(w, id), n, n)
     /\ Begin(r, w, id, "storing", "evaluated", n, n, "store")
     /\ UNCHANGED <<created, file, db, answered, restarts, faults>>

\* POST /api/screening/{id}/interpret, up to the call of the LLM: the prompt is
\* built from the cards the handler sees now.
Interpret(r, w, id) ==
  /\ req[r] = Idle /\ Free(w) /\ id \in created
  /\ CacheHeld(w, id)
  /\ \E record \in Gets(w, id), db_ok \in DbAnswers :
       \/ /\ record # Absent
          /\ Begin(r, w, id, "llm", "interpreted", record.cards, record.regs,
                   IF Held(w, id) # Absent THEN "store" ELSE "detached")
       \/ /\ record = Absent /\ db_ok /\ db[id] # Absent
          /\ Begin(r, w, id, "llm", "interpreted", db[id].cards, db[id].regs, "row")
       \/ /\ record = Absent /\ ~(db_ok /\ db[id] # Absent)
          /\ Answer(r, w, id, "not found", 0, 0)
  /\ UNCHANGED <<created, file, db, saving, evaluated, answered, restarts, faults>>

\* Mutant of RecordNow: what interpret read before it called the LLM.
RecordBefore(r) ==
  [mem[req[r].worker][req[r].id] EXCEPT !.cards = req[r].cards, !.regs = req[r].regs]

\* interpret holds on to the record across the call of the LLM, and it is the
\* object in _in_memory: the cards it stores again are those of the record now.
RecordNow(r) == mem[req[r].worker][req[r].id]

\* The LLM has answered, or failed: interpret() returns the error as the text.
\* The record of a row is a dictionary of the handler's own, so that the text
\* is lost; the commit to a row looked up by the handler itself may fail.
Interpreted(r) ==
  LET w == req[r].worker
      id == req[r].id
      now == RecordNow(r)
  IN /\ Ready(r, "llm")
     /\ \E text \in {req[r].cards, ErrorText} :
          \/ /\ req[r].source = "store"
             /\ UpdateEvaluation(w, id, [now EXCEPT !.text = text], now.cards, now.regs)
             /\ UNCHANGED db
          \/ /\ req[r].source = "detached"
             /\ UpdateEvaluation(w, id, Held(w, id), req[r].cards, req[r].regs)
             /\ UNCHANGED db
          \/ /\ req[r].source = "row"
             /\ db' \in {db, [db EXCEPT ![id].text = text]}
             /\ UNCHANGED <<mem, saving>>
     /\ req' = [req EXCEPT ![r].pc = "storing"]
     /\ UNCHANGED <<created, file, evaluated, answered, restarts, faults>>

\* The handler runs on after its write.  evaluate then tries to copy the result
\* to the row: reading screening.risk_cards, which was not loaded with the row,
\* raises on an AsyncSession, the exception is caught, and nothing is committed.
Respond(r) ==
  LET id == req[r].id
  IN /\ Ready(r, "storing")
     /\ req' = [req EXCEPT ![r].pc = "done"]
     /\ answered' = IF req[r].kind = "evaluated" /\ req[r].cards > answered[id]
                    THEN [answered EXCEPT ![id] = req[r].cards] ELSE answered
     /\ UNCHANGED <<store, evaluated, budget>>

\* GET /api/screening/{id} and POST .../report: the record as get() returns it;
\* report alone looks the row up itself when get() has found nothing.
Read(r, w, id) ==
  /\ req[r] = Idle /\ Free(w) /\ id \in created
  /\ CacheHeld(w, id)
  /\ \E record \in Gets(w, id) :
       \/ record # Absent /\ Answer(r, w, id, "stored", record.cards, record.regs)
       \/ record = Absent /\ Answer(r, w, id, "not found", 0, 0)
       \/ /\ record = Absent /\ TRUE \in DbAnswers /\ db[id] # Absent
          /\ Answer(r, w, id, "stored", db[id].cards, db[id].regs)
  /\ UNCHANGED <<created, file, db, saving, evaluated, answered, restarts, faults>>

\* GET /api/screening/{id}/regulations: with no match stored the row decides.
GetRegulations(r, w, id) ==
  /\ req[r] = Idle /\ Free(w) /\ id \in created
  /\ CacheHeld(w, id)
  /\ \E record \in Gets(w, id), db_ok \in DbAnswers :
       \/ /\ ~NoMatches(record)
          /\ Answer(r, w, id, "stored", record.cards, record.regs)
       \/ /\ record # Absent /\ NoMatches(record) /\ ~db_ok
          /\ Answer(r, w, id, "stored", record.cards, record.regs)
       \/ /\ record = Absent /\ ~db_ok
          /\ Answer(r, w, id, "not found", 0, 0)
       \/ /\ NoMatches(record) /\ db_ok
          /\ IF db[id] = Absent THEN Answer(r, w, id, "not found", 0, 0)
             ELSE Answer(r, w, id, "stored", db[id].cards, db[id].regs)
  /\ UNCHANGED <<created, file, db, saving, evaluated, answered, restarts, faults>>

\* Checklist, draft, review and quality check: stored cards if there are any,
\* else an evaluation of their own, made for this answer and stored nowhere.
View(r, w, id) ==
  /\ req[r] = Idle /\ Free(w) /\ id \in created
  /\ CacheHeld(w, id)
  /\ \E record \in Gets(w, id) :
       \/ /\ ~NoCards(record)
          /\ Answer(r, w, id, "stored", record.cards, record.regs)
       \/ /\ record # Absent /\ NoCards(record) /\ id \in Located
          /\ Begin(r, w, id, "viewing", "live", 0, 0, "store")
       \/ /\ NoCards(record) /\ (record # Absent => id \notin Located)
          /\ Answer(r, w, id, "live", 0, 0)
  /\ UNCHANGED <<created, file, db, saving, evaluated, answered, restarts, faults>>

ViewFetched(r) ==
  /\ Ready(r, "viewing")
  /\ req' = [req EXCEPT ![r].pc = "done"]
  /\ UNCHANGED <<store, history, budget>>

\* POST /api/compare and its PDF, of this screening and others.  Only rows are
\* compared, and neither memory nor the files are asked; rows are never deleted, so
\* that one step stands for the queries.  Without a database there is the demo's empty
\* answer, and one identifier without a row (404), or malformed (400), refuses it all.
Compare(r, w, id) ==
  /\ req[r] = Idle /\ Free(w) /\ id \in created
  /\ \/ FALSE \in DbAnswers /\ Answer(r, w, id, "demo", 0, 0)
     \/ TRUE \in DbAnswers /\ Answer(r, w, id, "refused", 0, 0)
     \/ /\ TRUE \in DbAnswers /\ db[id] # Absent
        /\ Answer(r, w, id, "compared", db[id].cards, db[id].regs)
  /\ UNCHANGED <<store, history, budget>>

\* GET /api/screening: every file that parses ends up in memory.
List(r, w) ==
  /\ req[r] = Idle /\ Free(w)
  /\ mem' = [mem EXCEPT ![w] = [id \in Screening |-> Held(w, id)]]
  /\ UNCHANGED <<created, file, db, saving, req, history, budget>>

\* The response reaches the client.
Deliver(r) ==
  /\ req[r] # Idle /\ req[r].pc = "done"
  /\ req' = [req EXCEPT ![r] = Idle]
  /\ UNCHANGED <<store, history, budget>>

-----------------------------------------------------------------------------
(* Files and processes *)

\* write_text opens the file for writing, which empties it.
SaveOpen(w) ==
  /\ saving[w] # NoSave /\ ~saving[w].opened
  /\ saving' = [saving EXCEPT ![w].opened = TRUE]
  /\ file' = [file EXCEPT ![saving[w].id] = Torn]
  /\ UNCHANGED <<created, mem, db, req, history, budget>>

\* The text is written and the file closed.  Over what another worker has
\* written since the file was opened, a shorter text leaves the other's tail.
SaveWrite(w) ==
  LET id == saving[w].id
  IN /\ saving[w] # NoSave /\ saving[w].opened
     /\ \/ file' = [file EXCEPT ![id] = mem[w][id]]
        \/ file[id] # Torn /\ file' = [file EXCEPT ![id] = Torn]
     /\ saving' = [saving EXCEPT ![w] = NoSave]
     /\ UNCHANGED <<created, mem, db, req, history, budget>>

\* An exception in the write is logged and swallowed.
SaveFails(w) ==
  /\ saving[w] # NoSave /\ faults < MaxSaveFaults
  /\ faults' = faults + 1
  /\ saving' = [saving EXCEPT ![w] = NoSave]
  /\ UNCHANGED <<created, mem, file, db, req, history, restarts>>

\* The process ends and starts again: memory is gone, and so are its requests.
\* A reload or an orderly stop lets a blocking write finish first.
Restart(w) ==
  /\ restarts < MaxRestarts
  /\ AbruptRestart \/ Free(w)
  /\ restarts' = restarts + 1
  /\ mem' = [mem EXCEPT ![w] = [id \in Screening |-> Absent]]
  /\ saving' = [saving EXCEPT ![w] = NoSave]
  /\ req' = [r \in Request |->
               IF req[r] # Idle /\ req[r].worker = w /\ req[r].pc # "done"
               THEN Idle ELSE req[r]]
  /\ UNCHANGED <<created, file, db, history, faults>>

-----------------------------------------------------------------------------
(* Specification *)

Next ==
  \/ \E r \in Request, w \in Worker, id \in Screening :
       \/ Create(r, w, id)
       \/ \E force \in Forces : Evaluate(r, w, id, force)
       \/ Interpret(r, w, id)
       \/ Read(r, w, id)
       \/ GetRegulations(r, w, id)
       \/ View(r, w, id)
       \/ Compare(r, w, id)
  \/ \E r \in Request, w \in Worker : List(r, w)
  \/ \E r \in Request :
       EvaluateFetched(r) \/ Interpreted(r) \/ Respond(r) \/ ViewFetched(r) \/ Deliver(r)
  \/ \E w \in Worker : SaveOpen(w) \/ SaveWrite(w) \/ SaveFails(w) \/ Restart(w)

Spec == Init /\ [][Next]_vars

\* A write ends by itself.  The data collection and the LLM call end by their
\* timeouts, and the event loop runs the handlers that are ready in the order
\* they became ready, so a handler that is ready again and again is run.
Fairness ==
  /\ \A w \in Worker : WF_vars(SaveOpen(w)) /\ WF_vars(SaveWrite(w))
  /\ \A r \in Request :
       /\ SF_vars(EvaluateFetched(r)) /\ SF_vars(Interpreted(r))
       /\ SF_vars(ViewFetched(r)) /\ SF_vars(Respond(r))
       /\ WF_vars(Deliver(r))

FairSpec == Spec /\ Fairness

-----------------------------------------------------------------------------
(* Properties *)

\* Risk cards and regulation matches of one record always come from the same
\* evaluation, however evaluate, interpret, writes and restarts of any number of
\* workers interleave (update_evaluation sets them together, interpret re-reads
\* both after its await, a file is replaced as a whole).
Paired ==
  /\ \A w \in Worker, id \in Screening : mem[w][id] # Absent => mem[w][id].cards = mem[w][id].regs
  /\ \A id \in Screening : file[id] \notin {Absent, Torn} => file[id].cards = file[id].regs
  /\ \A id \in Screening : db[id] # Absent => db[id].cards = db[id].regs

\* With one worker, outside a write of it the file of a cached screening is what
\* memory has, interpretation included: nothing that changes a record forgets to
\* save it.
WriteThrough ==
  \A w \in Worker, id \in Screening :
    mem[w][id] # Absent /\ ~(saving[w] # NoSave /\ saving[w].id = id) => file[id] = mem[w][id]

\* What the module's docstring promises of restarts: a screening that was made
\* in the file store can be read back from its file, unless it is being written.
Restorable ==
  \A id \in created :
    \/ db[id] # Absent
    \/ file[id] \notin {Absent, Torn}
    \/ \E w \in Worker : saving[w] # NoSave /\ saving[w].id = id

\* What a worker serves of a screening, when the database answers.
Served(w, id) == IF Held(w, id) # Absent THEN Held(w, id) ELSE RowRecord(id)

\* An evaluation reported to a client as "evaluated" is what the store serves
\* from then on, until a later evaluation replaces it: no interpretation under
\* way, no overlapping evaluation and no restart brings back an earlier one.
AnsweredEvaluationSurvives ==
  \A w \in Worker, id \in Screening :
    answered[id] > 0 => Served(w, id) # Absent /\ Served(w, id).cards >= answered[id]

\* An evaluation that no client forces is begun only for a screening of which no
\* evaluation was reported to a client yet, before a restart or after it ("already
\* evaluated: return the cached result").
EvaluatedOnce ==
  [][\A r \in Request, w \in Worker, id \in Screening :
       Evaluate(r, w, id, FALSE) /\ req'[r].pc = "fetching" => answered[id] = 0]_vars

\* A write never returns a screening whose evaluation was reported to a client
\* to the state before evaluation, not even the write of a worker with an old copy.
NeverUnevaluated ==
  [][\A id \in Screening :
       answered[id] > 0 /\ file'[id] # file[id] /\ file'[id] \notin {Absent, Torn}
         => file'[id].status = "evaluated"]_vars

\* A screening with a row is in no memory and in no file, so that get(), which
\* looks there first, never serves a copy that hides the row.
OneHome ==
  \A id \in Screening :
    db[id] # Absent => file[id] = Absent /\ \A w \in Worker : mem[w][id] = Absent

\* With one worker, orderly restarts and no failing write, memory, file, blocking
\* writes and restarts together are one atomic record per screening.
Nothing == [what |-> "nothing"]
Missing(id) == [what |-> "missing", id |-> id]
Shown(id, cards, regs) == [what |-> "record", id |-> id, cards |-> cards, regs |-> regs]

Register == INSTANCE ScreeningRegister WITH
  record <- [id \in Screening |-> Held(CHOOSE w \in Worker : TRUE, id)],
  seen <- [r \in Request |->
             IF req[r] = Idle \/ req[r].pc # "done" THEN Nothing
             ELSE IF req[r].kind = "not found" THEN Missing(req[r].id)
             ELSE IF req[r].kind \in {"cached", "stored"}
                  THEN Shown(req[r].id, req[r].cards, req[r].regs)
             ELSE Nothing]

RegisterSpec == Register!Spec

\* Every request is answered, or ends with its worker.
EveryRequestEnds == \A r \in Request : req[r] # Idle ~> req[r] = Idle

-----------------------------------------------------------------------------
(* Properties the documentation states and the code does not have *)

\* evaluate: a cached answer is given for a screening that has been evaluated.
CachedOnlyIfEvaluated ==
  \A r \in Request : req[r] # Idle /\ req[r].kind = "cached" => evaluated[req[r].id] > 0

\* get_regulations asks the database about what memory does not have: what is in
\* memory is not "not found".
InMemoryIsFound ==
  \A r \in Request :
    req[r] # Idle /\ req[r].kind = "not found" => mem[req[r].worker][req[r].id] = Absent

\* compare: a comparison is of the results of the screenings, so that it shows at
\* least the evaluation a client was last told of.
ComparisonShowsTheEvaluation ==
  [][\A r \in Request, w \in Worker, id \in Screening :
       Compare(r, w, id) /\ req'[r].kind = "compared" => req'[r].cards >= answered[id]]_vars
=============================================================================

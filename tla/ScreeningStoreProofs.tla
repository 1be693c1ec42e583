------------------------ MODULE ScreeningStoreProofs ------------------------
(***************************************************************************)
(* Theorems about ScreeningStore, for any number of workers, screenings    *)
(* and requests and any values of the bounds: of one worker on its own     *)
(* files, and of workers that share them while the database comes and      *)
(* goes, processes die inside their writes and writes fail.                *)
(***************************************************************************)
EXTENDS ScreeningStore, TLAPS

-----------------------------------------------------------------------------
(* What the helpers return *)

\* get() looks for a screening in memory and in the file: what it finds there is
\* a record, never a file that is half written.
LEMMA HeldType ==
  ASSUME TypeOK, NEW w \in Worker, NEW id \in Screening
  PROVE  Held(w, id) \in Record \cup {Absent}
BY DEF TypeOK, Held

\* Whatever get() returns is a record or nothing.
LEMMA GetsType ==
  ASSUME TypeOK, NEW w \in Worker, NEW id \in Screening, NEW record \in Gets(w, id)
  PROVE  record \in Record \cup {Absent}
<1>1. RowRecord(id) \in Record \cup {Absent}
  BY DEF TypeOK, RowRecord, Record, Text
<1> QED BY <1>1, HeldType DEF Gets

\* A new screening is a record.
LEMMA NewRecordType ==
  ASSUME NEW status \in Status
  PROVE  NewRecord(status) \in Record
BY DEF NewRecord, Record, Text

\* get() keeps the type of memory.
LEMMA CacheHeldType ==
  ASSUME TypeOK, NEW w \in Worker, NEW id \in Screening, CacheHeld(w, id)
  PROVE  mem' \in [Worker -> [Screening -> Record \cup {Absent}]]
BY HeldType DEF TypeOK, CacheHeld

\* The local variables of a handler that starts are of their types.
LEMMA BeginType ==
  ASSUME TypeOK,
         NEW r \in Request, NEW w \in Worker, NEW id \in Screening,
         NEW pc \in Step, NEW kind \in Kind, NEW cards \in Nat, NEW regs \in Nat,
         NEW source \in Source,
         Begin(r, w, id, pc, kind, cards, regs, source)
  PROVE  req' \in [Request -> Job \cup {Idle}]
BY DEF TypeOK, Begin, Job

\* update_evaluation on a record stores an evaluated record and begins its write.
LEMMA UpdateEvaluationStores ==
  ASSUME NEW w \in Worker, NEW id \in Screening, NEW record \in Record,
         NEW cards \in Nat, NEW regs \in Nat,
         UpdateEvaluation(w, id, record, cards, regs)
  PROVE  \E new \in Record :
           /\ new.status = "evaluated" /\ new.cards = cards /\ new.regs = regs
           /\ mem' = [mem EXCEPT ![w][id] = new]
           /\ StartSave(w, id)
<1> DEFINE new == [record EXCEPT !.status = "evaluated", !.cards = cards, !.regs = regs]
<1>1. new \in Record /\ new.status = "evaluated" /\ new.cards = cards /\ new.regs = regs
  BY DEF Record, Status
<1>2. mem' = [mem EXCEPT ![w][id] = new] /\ StartSave(w, id)
  BY SentinelsAssumption DEF UpdateEvaluation
<1> QED BY <1>1, <1>2

\* update_evaluation keeps the types of memory and of the write under way.
LEMMA UpdateEvaluationType ==
  ASSUME TypeOK,
         NEW w \in Worker, NEW id \in Screening, NEW record \in Record \cup {Absent},
         NEW cards \in Nat, NEW regs \in Nat,
         UpdateEvaluation(w, id, record, cards, regs)
  PROVE  /\ mem' \in [Worker -> [Screening -> Record \cup {Absent}]]
         /\ saving' \in [Worker -> Save \cup {NoSave}]
<1>1. CASE record = Absent
  BY <1>1 DEF TypeOK, UpdateEvaluation
<1>2. CASE record # Absent
  <2>1. PICK new \in Record : mem' = [mem EXCEPT ![w][id] = new] /\ StartSave(w, id)
    BY <1>2, UpdateEvaluationStores
  <2>2. mem' \in [Worker -> [Screening -> Record \cup {Absent}]]
    BY <2>1 DEF TypeOK
  <2>3. saving' \in [Worker -> Save \cup {NoSave}]
    BY <2>1 DEF TypeOK, StartSave, Save
  <2> QED BY <2>2, <2>3
<1> QED BY <1>1, <1>2

\* update_evaluation changes no other record, and takes none away.
LEMMA UpdateEvaluationEffect ==
  ASSUME TypeOK,
         NEW w \in Worker, NEW id \in Screening, NEW record \in Record \cup {Absent},
         NEW cards \in Nat, NEW regs \in Nat,
         UpdateEvaluation(w, id, record, cards, regs)
  PROVE  /\ \A v \in Worker, i \in Screening : v # w \/ i # id => mem'[v][i] = mem[v][i]
         /\ \A v \in Worker, i \in Screening : mem[v][i] # Absent => mem'[v][i] # Absent
<1>1. CASE record = Absent
  BY <1>1 DEF UpdateEvaluation
<1>2. CASE record # Absent
  <2>1. PICK new \in Record : mem' = [mem EXCEPT ![w][id] = new]
    BY <1>2, UpdateEvaluationStores
  <2> QED BY <2>1, SentinelsAssumption DEF TypeOK
<1> QED BY <1>1, <1>2

-----------------------------------------------------------------------------
(* What the steps do to memory and to the requests *)

\* get() forgets nothing, and memory then has what it returned.
LEMMA CacheHeldEffect ==
  ASSUME TypeOK, NEW w \in Worker, NEW id \in Screening, CacheHeld(w, id)
  PROVE  /\ mem'[w][id] = Held(w, id)
         /\ \A v \in Worker, i \in Screening :
              (v # w \/ i # id \/ mem[v][i] # Absent) => mem'[v][i] = mem[v][i]
BY DEF TypeOK, CacheHeld, Held

\* The requests that only look a screening up, and what they have in common: they
\* cache what they found, write nothing, and end or go on to collect data.
Lookup(r, w, id) ==
  \/ \E force \in Forces : Evaluate(r, w, id, force)
  \/ Read(r, w, id)
  \/ GetRegulations(r, w, id)
  \/ View(r, w, id)
  \/ Interpret(r, w, id)

\* The handler of r starts with findings that go together, and it waits for the LLM
\* only when it has a record to put the text in.
Starts(r, w, id) ==
  \E pc \in Step \ {"storing"}, kind \in Kind, cards \in Nat, regs \in Nat, source \in Source :
    /\ Begin(r, w, id, pc, kind, cards, regs, source)
    /\ kind = "evaluated" => cards = 0
    /\ pc = "llm" /\ source = "store" => Held(w, id) # Absent
    /\ pc = "llm" /\ source = "row" => db[id] # Absent
    /\ pc = "llm" /\ source = "detached" => Held(w, id) = Absent
    /\ Paired => cards = regs

\* What a lookup does to the store and to its request.
LEMMA LookupEffect ==
  ASSUME TypeOK,
         NEW r \in Request, NEW w \in Worker, NEW id \in Screening,
         Lookup(r, w, id)
  PROVE  /\ id \in created /\ CacheHeld(w, id) /\ Free(w)
         /\ UNCHANGED <<created, file, db, saving, evaluated, answered, restarts, faults>>
         /\ Starts(r, w, id)
<1>1. \A record \in Gets(w, id) :
        record # Absent =>
          record.cards \in Nat /\ record.regs \in Nat /\ (Paired => record.cards = record.regs)
  <2> SUFFICES ASSUME NEW record \in Gets(w, id), record # Absent
               PROVE  record.cards \in Nat /\ record.regs \in Nat /\ (Paired => record.cards = record.regs)
    OBVIOUS
  <2>1. record \in Record
    BY GetsType
  <2>2. CASE Held(w, id) # Absent
    BY <2>1, <2>2, HeldType DEF Gets, Held, Paired, Record
  <2>3. CASE Held(w, id) = Absent
    <3>1. record = [db[id] EXCEPT !.text = NoText] /\ db[id] # Absent
      BY <2>3 DEF Gets, RowRecord
    <3>2. db[id] \in Record
      BY <3>1 DEF TypeOK
    <3>3. record.cards = db[id].cards /\ record.regs = db[id].regs
      BY <3>1, <3>2 DEF Record
    <3> QED BY <2>1, <3>1, <3>3 DEF Paired, Record
  <2> QED BY <2>2, <2>3
<1>2. db[id] # Absent => db[id].cards \in Nat /\ db[id].regs \in Nat /\ (Paired => db[id].cards = db[id].regs)
  BY DEF TypeOK, Record, Paired
<1>3. ASSUME NEW kind \in Kind, NEW cards \in Nat, NEW regs \in Nat,
             Answer(r, w, id, kind, cards, regs),
             kind = "evaluated" => cards = 0, Paired => cards = regs
      PROVE  Starts(r, w, id)
  BY <1>3 DEF Answer, Starts, Step, Source
<1>4. ASSUME NEW force \in Forces, Evaluate(r, w, id, force) PROVE Starts(r, w, id)
  <2>1. PICK record \in Gets(w, id) :
          \/ record = Absent /\ Answer(r, w, id, "not found", 0, 0)
          \/ record # Absent /\ Answer(r, w, id, "cached", record.cards, record.regs)
          \/ Answer(r, w, id, "no location", 0, 0)
          \/ Begin(r, w, id, "fetching", "evaluated", 0, 0, "store")
    BY <1>4 DEF Evaluate
  <2>2. CASE Begin(r, w, id, "fetching", "evaluated", 0, 0, "store")
    BY <2>2 DEF Kind, Starts, Step, Source
  <2> QED BY <1>1, <1>3, <2>1, <2>2 DEF Kind
<1>5. ASSUME Read(r, w, id) \/ GetRegulations(r, w, id) PROVE Starts(r, w, id)
  <2>1. PICK record \in Gets(w, id) :
          \/ Answer(r, w, id, "not found", 0, 0)
          \/ record # Absent /\ Answer(r, w, id, "stored", record.cards, record.regs)
          \/ db[id] # Absent /\ Answer(r, w, id, "stored", db[id].cards, db[id].regs)
    BY <1>5 DEF Read, GetRegulations, NoMatches
  <2> QED BY <1>1, <1>2, <1>3, <2>1 DEF Kind
<1>6. ASSUME View(r, w, id) PROVE Starts(r, w, id)
  <2>1. PICK record \in Gets(w, id) :
          \/ record # Absent /\ Answer(r, w, id, "stored", record.cards, record.regs)
          \/ Begin(r, w, id, "viewing", "live", 0, 0, "store")
          \/ Answer(r, w, id, "live", 0, 0)
    BY <1>6 DEF View, NoCards
  <2>2. CASE Begin(r, w, id, "viewing", "live", 0, 0, "store")
    BY <2>2 DEF Kind, Starts, Step, Source
  <2> QED BY <1>1, <1>3, <2>1, <2>2 DEF Kind
<1>7. ASSUME Interpret(r, w, id) PROVE Starts(r, w, id)
  <2>1. PICK record \in Gets(w, id) :
          \/ /\ record # Absent
             /\ Begin(r, w, id, "llm", "interpreted", record.cards, record.regs,
                      IF Held(w, id) # Absent THEN "store" ELSE "detached")
          \/ /\ db[id] # Absent
             /\ Begin(r, w, id, "llm", "interpreted", db[id].cards, db[id].regs, "row")
          \/ Answer(r, w, id, "not found", 0, 0)
    BY <1>7 DEF Interpret
  <2>2. CASE /\ record # Absent
             /\ Begin(r, w, id, "llm", "interpreted", record.cards, record.regs,
                      IF Held(w, id) # Absent THEN "store" ELSE "detached")
    BY <1>1, <2>2 DEF Starts, Step, Kind, Source
  <2>3. CASE /\ db[id] # Absent
             /\ Begin(r, w, id, "llm", "interpreted", db[id].cards, db[id].regs, "row")
    BY <1>2, <2>3 DEF Starts, Step, Kind, Source
  <2> QED BY <1>3, <2>1, <2>2, <2>3 DEF Kind
<1>8. Starts(r, w, id)
  BY <1>4, <1>5, <1>6, <1>7 DEF Lookup
<1>9. /\ id \in created /\ CacheHeld(w, id) /\ Free(w)
      /\ UNCHANGED <<created, file, db, saving, evaluated, answered, restarts, faults>>
  BY DEF Lookup, Evaluate, Read, GetRegulations, View, Interpret
<1> QED BY <1>8, <1>9

\* A comparison leaves the store alone and ends at once, with what rows have.
LEMMA CompareEffect ==
  ASSUME TypeOK,
         NEW r \in Request, NEW w \in Worker, NEW id \in Screening,
         Compare(r, w, id)
  PROVE  /\ id \in created
         /\ UNCHANGED <<created, mem, file, db, saving, evaluated, answered, restarts, faults>>
         /\ \E kind \in {"compared", "demo", "refused"}, cards \in Nat, regs \in Nat :
              /\ Begin(r, w, id, "done", kind, cards, regs, "store")
              /\ Paired => cards = regs
<1>1. id \in created
      /\ UNCHANGED <<created, mem, file, db, saving, evaluated, answered, restarts, faults>>
  BY DEF Compare, store, history, budget
<1>2. db[id] # Absent => db[id].cards \in Nat /\ db[id].regs \in Nat /\ (Paired => db[id].cards = db[id].regs)
  BY DEF TypeOK, Record, Paired
<1>3. \/ \E kind \in {"demo", "refused"} : Begin(r, w, id, "done", kind, 0, 0, "store")
      \/ db[id] # Absent /\ Begin(r, w, id, "done", "compared", db[id].cards, db[id].regs, "store")
  BY DEF Compare, Answer
<1> QED BY <1>1, <1>2, <1>3

-----------------------------------------------------------------------------
(* Type correctness *)

\* While interpret waits for the LLM, the record it will put the text in stays
\* where it found it: get() has put it in memory, and memory only grows until the
\* worker, and the request with it, ends; a row is never deleted.
HoldsRecord ==
  \A r \in Request :
    req[r] # Idle /\ req[r].pc = "llm" =>
      /\ req[r].source = "store" => mem[req[r].worker][req[r].id] # Absent
      /\ req[r].source = "row" => db[req[r].id] # Absent

TypeInv == TypeOK /\ HoldsRecord

\* A step that takes no record away and starts no call of the LLM without one
\* leaves HoldsRecord true.
LEMMA HoldsRecordKept ==
  ASSUME TypeInv,
         \A w \in Worker, id \in Screening : mem[w][id] # Absent => mem'[w][id] # Absent,
         \A id \in Screening : db[id] # Absent => db'[id] # Absent,
         \A r \in Request : req'[r] # Idle /\ req'[r].pc = "llm" => req'[r] = req[r]
  PROVE  HoldsRecord'
<1> SUFFICES ASSUME NEW r \in Request, req'[r] # Idle, req'[r].pc = "llm"
             PROVE  /\ req'[r].source = "store" => mem'[req'[r].worker][req'[r].id] # Absent
                    /\ req'[r].source = "row" => db'[req'[r].id] # Absent
  BY DEF HoldsRecord
<1>1. req'[r] = req[r] /\ req[r] \in Job
  BY DEF TypeInv, TypeOK
<1> QED BY <1>1 DEF TypeInv, HoldsRecord, Job

\* What a request that is not idle remembers.
LEMMA JobOf ==
  ASSUME TypeOK, NEW r \in Request, req[r] # Idle
  PROVE  /\ req[r] \in Job
         /\ req[r].worker \in Worker /\ req[r].id \in Screening
         /\ req[r].cards \in Nat /\ req[r].regs \in Nat
BY DEF TypeOK, Job

LEMMA InitTypeInv == Init => TypeInv
BY BoundsAssumption, SentinelsAssumption DEF Init, TypeInv, TypeOK, HoldsRecord

\* A lookup keeps the invariant.
LEMMA LookupTypeInv ==
  ASSUME TypeInv, NEW r \in Request, NEW w \in Worker, NEW id \in Screening, Lookup(r, w, id)
  PROVE  TypeInv'
<1> USE DEF TypeInv
<1>1. /\ CacheHeld(w, id)
      /\ UNCHANGED <<created, file, db, saving, evaluated, answered, restarts, faults>>
  BY LookupEffect
<1>2. PICK pc \in Step \ {"storing"}, kind \in Kind, cards \in Nat, regs \in Nat, source \in Source :
        /\ Begin(r, w, id, pc, kind, cards, regs, source)
        /\ pc = "llm" /\ source = "store" => Held(w, id) # Absent
        /\ pc = "llm" /\ source = "row" => db[id] # Absent
  BY LookupEffect DEF Starts
<1>3. TypeOK'
  <2>1. mem' \in [Worker -> [Screening -> Record \cup {Absent}]]
    BY <1>1, CacheHeldType
  <2>2. req' \in [Request -> Job \cup {Idle}]
    BY <1>2, BeginType
  <2> QED BY <1>1, <2>1, <2>2 DEF TypeOK
<1>4. HoldsRecord'
  <2> SUFFICES ASSUME NEW s \in Request, req'[s] # Idle, req'[s].pc = "llm"
               PROVE  /\ req'[s].source = "store" => mem'[req'[s].worker][req'[s].id] # Absent
                      /\ req'[s].source = "row" => db'[req'[s].id] # Absent
    BY DEF HoldsRecord
  <2>1. CASE s = r
    BY <1>1, <1>2, <2>1, CacheHeldEffect DEF Begin, TypeOK
  <2>2. CASE s # r
    <3>1. req'[s] = req[s]
      BY <1>2, <2>2 DEF Begin, TypeOK
    <3>2. req[s].worker \in Worker /\ req[s].id \in Screening
      BY <3>1, JobOf
    <3> QED BY <1>1, <3>1, <3>2, CacheHeldEffect DEF HoldsRecord
  <2> QED BY <2>1, <2>2
<1> QED BY <1>3, <1>4

\* A comparison keeps the invariant.
LEMMA CompareTypeInv ==
  ASSUME TypeInv, NEW r \in Request, NEW w \in Worker, NEW id \in Screening, Compare(r, w, id)
  PROVE  TypeInv'
<1> USE DEF TypeInv
<1>1. UNCHANGED <<created, mem, file, db, saving, evaluated, answered, restarts, faults>>
  BY CompareEffect
<1>2. PICK kind \in {"compared", "demo", "refused"}, cards \in Nat, regs \in Nat :
        Begin(r, w, id, "done", kind, cards, regs, "store")
  BY CompareEffect
<1>3. req' \in [Request -> Job \cup {Idle}]
  <2>1. kind \in Kind /\ "done" \in Step /\ "store" \in Source
    BY DEF Step, Kind, Source
  <2> QED BY <1>2, <2>1, BeginType
<1>4. \A s \in Request : req'[s] # Idle /\ req'[s].pc = "llm" => req'[s] = req[s]
  BY <1>2 DEF Begin, TypeOK
<1>5. HoldsRecord'
  BY <1>1, <1>4, HoldsRecordKept
<1> QED BY <1>1, <1>3, <1>5 DEF TypeOK

\* The call of the LLM ends: its record is there to take the text.
LEMMA InterpretedTypeInv ==
  ASSUME TypeInv, NEW r \in Request, Interpreted(r)
  PROVE  TypeInv'
<1> DEFINE w == req[r].worker
           id == req[r].id
<1> USE DEF TypeInv
<1>1. /\ req[r] \in Job /\ w \in Worker /\ id \in Screening
      /\ req[r].cards \in Nat /\ req[r].regs \in Nat
  BY JobOf DEF Interpreted, Ready
<1>2. /\ req' = [req EXCEPT ![r].pc = "storing"]
      /\ UNCHANGED <<created, file, evaluated, answered, restarts, faults>>
  BY DEF Interpreted
<1>3. req' \in [Request -> Job \cup {Idle}]
  BY <1>1, <1>2 DEF TypeOK, Job, Step
<1>4. PICK text \in {req[r].cards, ErrorText} :
        \/ /\ req[r].source = "store"
           /\ UpdateEvaluation(w, id, [RecordNow(r) EXCEPT !.text = text],
                               RecordNow(r).cards, RecordNow(r).regs)
           /\ UNCHANGED db
        \/ /\ req[r].source = "detached"
           /\ UpdateEvaluation(w, id, Held(w, id), req[r].cards, req[r].regs)
           /\ UNCHANGED db
        \/ /\ req[r].source = "row"
           /\ db' \in {db, [db EXCEPT ![id].text = text]}
           /\ UNCHANGED <<mem, saving>>
  BY DEF Interpreted
<1>5. text \in Text
  BY <1>1, <1>4 DEF Text
<1>6. /\ mem' \in [Worker -> [Screening -> Record \cup {Absent}]]
      /\ saving' \in [Worker -> Save \cup {NoSave}]
      /\ db' \in [Screening -> Record \cup {Absent}]
      /\ \A v \in Worker, i \in Screening : mem[v][i] # Absent => mem'[v][i] # Absent
      /\ \A i \in Screening : db[i] # Absent => db'[i] # Absent
  <2>1. CASE req[r].source = "row"
    <3>1. db[id] \in Record
      BY <1>1, <2>1 DEF Interpreted, Ready, HoldsRecord, TypeOK
    <3>2. [db[id] EXCEPT !.text = text] \in Record
      BY <1>5, <3>1 DEF Record
    <3>3. /\ db' \in [Screening -> Record \cup {Absent}]
          /\ \A i \in Screening : db[i] # Absent => db'[i] # Absent
      BY <1>1, <1>4, <2>1, <3>2, SentinelsAssumption DEF TypeOK
    <3> QED BY <1>4, <2>1, <3>3 DEF TypeOK
  <2>2. CASE req[r].source # "row"
    <3>1. PICK record \in Record \cup {Absent}, cards \in Nat, regs \in Nat :
            UpdateEvaluation(w, id, record, cards, regs)
      <4>1. CASE req[r].source = "store"
        <5>1. RecordNow(r) \in Record
          <6>1. req[r] # Idle /\ req[r].pc = "llm"
            BY DEF Interpreted, Ready
          <6>2. mem[w][id] # Absent
            BY <4>1, <6>1 DEF HoldsRecord
          <6> QED BY <1>1, <6>2 DEF TypeOK, RecordNow
        <5>2. /\ [RecordNow(r) EXCEPT !.text = text] \in Record
              /\ RecordNow(r).cards \in Nat /\ RecordNow(r).regs \in Nat
          BY <1>5, <5>1 DEF Record
        <5> QED BY <1>4, <4>1, <5>2
      <4>2. CASE req[r].source # "store"
        BY <1>1, <1>4, <2>2, <4>2, HeldType
      <4> QED BY <4>1, <4>2
    <3>2. \A v \in Worker, i \in Screening : mem[v][i] # Absent => mem'[v][i] # Absent
      BY <1>1, <3>1, UpdateEvaluationEffect
    <3> QED BY <1>1, <1>4, <2>2, <3>1, <3>2, UpdateEvaluationType DEF TypeOK
  <2> QED BY <2>1, <2>2
<1>7. \A s \in Request : req'[s] # Idle /\ req'[s].pc = "llm" => req'[s] = req[s]
  BY <1>1, <1>2 DEF TypeOK, Job
<1>8. HoldsRecord'
  BY <1>6, <1>7, HoldsRecordKept
<1> QED BY <1>2, <1>3, <1>6, <1>8 DEF TypeOK

\* An evaluation ends, and what it found goes to the record there is, if any.
LEMMA EvaluateFetchedTypeInv ==
  ASSUME TypeInv, NEW r \in Request, EvaluateFetched(r)
  PROVE  TypeInv'
<1> DEFINE w == req[r].worker
           id == req[r].id
           n == evaluated[id] + 1
<1> USE DEF TypeInv
<1>1. w \in Worker /\ id \in Screening
  BY JobOf DEF EvaluateFetched, Ready
<1>2. /\ n \in Nat
      /\ Held(w, id) \in Record \cup {Absent}
      /\ evaluated' = [evaluated EXCEPT ![id] = n]
      /\ UpdateEvaluation(w, id, Held(w, id), n, n)
      /\ Begin(r, w, id, "storing", "evaluated", n, n, "store")
      /\ UNCHANGED <<created, file, db, answered, restarts, faults>>
  BY <1>1, HeldType DEF EvaluateFetched, TypeOK
<1>3. req' \in [Request -> Job \cup {Idle}]
  BY <1>1, <1>2, BeginType DEF Step, Kind, Source
<1>4. /\ mem' \in [Worker -> [Screening -> Record \cup {Absent}]]
      /\ saving' \in [Worker -> Save \cup {NoSave}]
      /\ \A v \in Worker, i \in Screening : mem[v][i] # Absent => mem'[v][i] # Absent
  BY <1>1, <1>2, UpdateEvaluationType, UpdateEvaluationEffect
<1>5. \A s \in Request : req'[s] # Idle /\ req'[s].pc = "llm" => req'[s] = req[s]
  BY <1>2 DEF Begin, TypeOK
<1>6. HoldsRecord'
  BY <1>2, <1>4, <1>5, HoldsRecordKept
<1> QED BY <1>1, <1>2, <1>3, <1>4, <1>6 DEF TypeOK

\* A screening is made, as a row or in memory.
LEMMA CreateTypeInv ==
  ASSUME TypeInv, NEW r \in Request, NEW w \in Worker, NEW id \in Screening, Create(r, w, id)
  PROVE  TypeInv'
<1> USE DEF TypeInv
<1>1. NewRecord("pending") \in Record /\ NewRecord("completed") \in Record
  BY NewRecordType DEF Status
<1>2. PICK pc \in {"done", "storing"} : Begin(r, w, id, pc, "created", 0, 0, "store")
  <2>1. \/ Answer(r, w, id, "created", 0, 0)
        \/ Begin(r, w, id, "storing", "created", 0, 0, "store")
    BY DEF Create
  <2> QED BY <2>1 DEF Answer
<1>3. req' \in [Request -> Job \cup {Idle}]
  BY <1>2, BeginType DEF Step, Kind, Source
<1>4. /\ mem' \in [Worker -> [Screening -> Record \cup {Absent}]]
      /\ db' \in [Screening -> Record \cup {Absent}]
      /\ \A v \in Worker, i \in Screening : mem[v][i] # Absent => mem'[v][i] # Absent
      /\ \A i \in Screening : db[i] # Absent => db'[i] # Absent
  <2>1. \/ db' = [db EXCEPT ![id] = NewRecord("pending")] /\ UNCHANGED mem
        \/ mem' = [mem EXCEPT ![w][id] = NewRecord("completed")] /\ UNCHANGED db
    BY DEF Create
  <2>2. CASE db' = [db EXCEPT ![id] = NewRecord("pending")] /\ UNCHANGED mem
    BY <1>1, <2>2, SentinelsAssumption DEF TypeOK
  <2>3. CASE mem' = [mem EXCEPT ![w][id] = NewRecord("completed")] /\ UNCHANGED db
    BY <1>1, <2>3, SentinelsAssumption DEF TypeOK
  <2> QED BY <2>1, <2>2, <2>3
<1>5. saving' \in [Worker -> Save \cup {NoSave}]
  <2>1. UNCHANGED saving \/ StartSave(w, id)
    BY DEF Create
  <2>2. [id |-> id, opened |-> FALSE] \in Save
    BY DEF Save
  <2> QED BY <2>1, <2>2 DEF StartSave, TypeOK
<1>6. \A s \in Request : req'[s] # Idle /\ req'[s].pc = "llm" => req'[s] = req[s]
  BY <1>2 DEF Begin, TypeOK
<1>7. HoldsRecord'
  BY <1>4, <1>6, HoldsRecordKept
<1> QED BY <1>3, <1>4, <1>5, <1>7 DEF Create, TypeOK

\* GET /api/screening only adds to memory.
LEMMA ListEffect ==
  ASSUME TypeOK, NEW r \in Request, NEW w \in Worker, List(r, w)
  PROVE  /\ mem' \in [Worker -> [Screening -> Record \cup {Absent}]]
         /\ \A i \in Screening : mem'[w][i] = Held(w, i)
         /\ \A v \in Worker, i \in Screening :
              (v # w \/ mem[v][i] # Absent) => mem'[v][i] = mem[v][i]
<1>1. \A i \in Screening : Held(w, i) \in Record \cup {Absent}
  BY HeldType
<1> QED BY <1>1 DEF List, TypeOK, Held

\* The rest of the life of a request whose handler has its data.
LEMMA RequestTypeInv ==
  ASSUME TypeInv, NEW r \in Request, Respond(r) \/ ViewFetched(r) \/ Deliver(r)
  PROVE  TypeInv'
<1> USE DEF TypeInv
<1>1. req[r] \in Job /\ req[r].id \in Screening /\ req[r].cards \in Nat
  BY JobOf DEF Respond, ViewFetched, Deliver, Ready
<1>2. req' = [req EXCEPT ![r].pc = "done"] \/ req' = [req EXCEPT ![r] = Idle]
  BY DEF Respond, ViewFetched, Deliver
<1>3. req' \in [Request -> Job \cup {Idle}]
  <2>1. [req[r] EXCEPT !.pc = "done"] \in Job
    BY <1>1 DEF Job, Step
  <2> QED BY <1>2, <2>1 DEF TypeOK
<1>4. answered' \in [Screening -> Nat]
  <2>1. \/ UNCHANGED answered
        \/ answered' = [answered EXCEPT ![req[r].id] = req[r].cards]
    BY DEF Respond, ViewFetched, Deliver, history
  <2> QED BY <1>1, <2>1 DEF TypeOK
<1>5. \A s \in Request : req'[s] # Idle /\ req'[s].pc = "llm" => req'[s] = req[s]
  BY <1>1, <1>2 DEF TypeOK, Job
<1>6. UNCHANGED <<created, mem, file, db, saving, evaluated, restarts, faults>>
  BY DEF Respond, ViewFetched, Deliver, store, history, budget
<1>7. HoldsRecord'
  BY <1>5, <1>6, HoldsRecordKept
<1> QED BY <1>3, <1>4, <1>6, <1>7 DEF TypeOK

\* The three steps of a write.
LEMMA SaveTypeInv ==
  ASSUME TypeInv, NEW w \in Worker, SaveOpen(w) \/ SaveWrite(w) \/ SaveFails(w)
  PROVE  TypeInv'
<1> USE DEF TypeInv
<1>1. saving[w] \in Save
  BY DEF SaveOpen, SaveWrite, SaveFails, TypeOK
<1>2. saving' \in [Worker -> Save \cup {NoSave}]
  <2>1. [saving[w] EXCEPT !.opened = TRUE] \in Save
    BY <1>1 DEF Save
  <2>2. \/ saving' = [saving EXCEPT ![w] = [saving[w] EXCEPT !.opened = TRUE]]
        \/ saving' = [saving EXCEPT ![w] = NoSave]
    BY DEF SaveOpen, SaveWrite, SaveFails
  <2> QED BY <2>1, <2>2 DEF TypeOK
<1>3. file' \in [Screening -> Record \cup {Absent, Torn}]
  <2>1. saving[w].id \in Screening
    BY <1>1 DEF Save
  <2>2. \/ UNCHANGED file
        \/ file' = [file EXCEPT ![saving[w].id] = Torn]
        \/ file' = [file EXCEPT ![saving[w].id] = mem[w][saving[w].id]]
    BY DEF SaveOpen, SaveWrite, SaveFails
  <2> QED BY <2>1, <2>2 DEF TypeOK
<1>4. faults' \in 0..MaxSaveFaults
  BY BoundsAssumption DEF SaveOpen, SaveWrite, SaveFails, TypeOK, budget
<1>5. UNCHANGED <<created, mem, db, req, evaluated, answered, restarts>>
  BY DEF SaveOpen, SaveWrite, SaveFails, history, budget
<1>6. HoldsRecord'
  BY <1>5, HoldsRecordKept
<1> QED BY <1>2, <1>3, <1>4, <1>5, <1>6 DEF TypeOK

\* A worker starts again: the requests that held on to its memory are gone with it.
LEMMA RestartTypeInv ==
  ASSUME TypeInv, NEW w \in Worker, Restart(w)
  PROVE  TypeInv'
<1> USE DEF TypeInv
<1>1. /\ mem' \in [Worker -> [Screening -> Record \cup {Absent}]]
      /\ saving' \in [Worker -> Save \cup {NoSave}]
      /\ req' \in [Request -> Job \cup {Idle}]
      /\ restarts' \in 0..MaxRestarts
      /\ UNCHANGED <<created, file, db, evaluated, answered, faults>>
  BY BoundsAssumption DEF Restart, TypeOK, history
<1>2. HoldsRecord'
  <2> SUFFICES ASSUME NEW r \in Request, req'[r] # Idle, req'[r].pc = "llm"
               PROVE  /\ req'[r].source = "store" => mem'[req'[r].worker][req'[r].id] # Absent
                      /\ req'[r].source = "row" => db'[req'[r].id] # Absent
    BY DEF HoldsRecord
  <2>1. req'[r] = req[r] /\ req[r].worker # w
    BY DEF Restart, TypeOK
  <2>2. req[r].worker \in Worker /\ req[r].id \in Screening
    BY <2>1, JobOf
  <2>3. mem'[req[r].worker] = mem[req[r].worker]
    BY <2>1, <2>2 DEF Restart, TypeOK
  <2> QED BY <1>1, <2>1, <2>3 DEF HoldsRecord
<1> QED BY <1>1, <1>2 DEF TypeOK

\* Every step keeps TypeInv.
LEMMA NextTypeInv == TypeInv /\ [Next]_vars => TypeInv'
<1> SUFFICES ASSUME TypeInv, [Next]_vars PROVE TypeInv'
  OBVIOUS
<1>1. CASE UNCHANGED vars
  BY <1>1 DEF vars, TypeInv, TypeOK, HoldsRecord
<1>2. ASSUME NEW r \in Request, NEW w \in Worker, NEW id \in Screening, Create(r, w, id)
      PROVE  TypeInv'
  BY <1>2, CreateTypeInv
<1>3. ASSUME NEW r \in Request, NEW w \in Worker, NEW id \in Screening, Lookup(r, w, id)
      PROVE  TypeInv'
  BY <1>3, LookupTypeInv
<1>4. ASSUME NEW r \in Request, NEW w \in Worker, List(r, w)
      PROVE  TypeInv'
  <2>1. UNCHANGED <<created, file, db, saving, req, evaluated, answered, restarts, faults>>
    BY <1>4 DEF List, history, budget
  <2>2. HoldsRecord'
    BY <1>4, <2>1, ListEffect, HoldsRecordKept DEF TypeInv
  <2> QED BY <1>4, <2>1, <2>2, ListEffect DEF TypeInv, TypeOK
<1>5. ASSUME NEW r \in Request, EvaluateFetched(r)
      PROVE  TypeInv'
  BY <1>5, EvaluateFetchedTypeInv
<1>6. ASSUME NEW r \in Request, Interpreted(r)
      PROVE  TypeInv'
  BY <1>6, InterpretedTypeInv
<1>7. ASSUME NEW r \in Request, Respond(r) \/ ViewFetched(r) \/ Deliver(r)
      PROVE  TypeInv'
  BY <1>7, RequestTypeInv
<1>8. ASSUME NEW w \in Worker, SaveOpen(w) \/ SaveWrite(w) \/ SaveFails(w)
      PROVE  TypeInv'
  BY <1>8, SaveTypeInv
<1>9. ASSUME NEW w \in Worker, Restart(w)
      PROVE  TypeInv'
  BY <1>9, RestartTypeInv
<1>10. ASSUME NEW r \in Request, NEW w \in Worker, NEW id \in Screening, Compare(r, w, id)
       PROVE  TypeInv'
  BY <1>10, CompareTypeInv
<1> QED BY <1>1, <1>2, <1>3, <1>4, <1>5, <1>6, <1>7, <1>8, <1>9, <1>10 DEF Next, Lookup

\* The state always has the types TypeOK gives it, and a handler that waits for the
\* LLM keeps its record.
THEOREM TypeInvariance == Spec => []TypeInv
<1>1. Init => TypeInv
  BY InitTypeInv
<1>2. TypeInv /\ [Next]_vars => TypeInv'
  BY NextTypeInv
<1> QED BY <1>1, <1>2, PTL DEF Spec

\* The state always has the types TypeOK gives it, a record where a record is used.
THEOREM TypeCorrect == Spec => []TypeOK
BY TypeInvariance, PTL DEF TypeInv

-----------------------------------------------------------------------------
(* Findings of one evaluation stay together *)

\* Paired is not inductive: interpret carries cards and matches across the call of
\* the LLM in its local variables and stores them again, so those go together too.
JobsPaired == \A r \in Request : req[r] # Idle => req[r].cards = req[r].regs

PairedInv == TypeInv /\ Paired /\ JobsPaired

\* The three places a record is kept, one by one.
MemPaired ==
  \A w \in Worker, id \in Screening : mem[w][id] # Absent => mem[w][id].cards = mem[w][id].regs
FilePaired ==
  \A id \in Screening : file[id] \notin {Absent, Torn} => file[id].cards = file[id].regs
DbPaired ==
  \A id \in Screening : db[id] # Absent => db[id].cards = db[id].regs

LEMMA PairedParts == /\ Paired <=> MemPaired /\ FilePaired /\ DbPaired
                     /\ Paired' <=> MemPaired' /\ FilePaired' /\ DbPaired'
BY DEF Paired, MemPaired, FilePaired, DbPaired

\* What memory or the file has is paired.
LEMMA HeldPaired ==
  ASSUME Paired, NEW w \in Worker, NEW id \in Screening, Held(w, id) # Absent
  PROVE  Held(w, id).cards = Held(w, id).regs
BY DEF Paired, Held

\* update_evaluation keeps memory paired when it is given findings that are.
LEMMA UpdateEvaluationPaired ==
  ASSUME TypeOK, MemPaired,
         NEW w \in Worker, NEW id \in Screening, NEW record \in Record \cup {Absent},
         NEW cards \in Nat, UpdateEvaluation(w, id, record, cards, cards)
  PROVE  MemPaired'
<1>1. CASE record = Absent
  BY <1>1 DEF UpdateEvaluation, MemPaired
<1>2. CASE record # Absent
  <2>1. PICK new \in Record : new.cards = new.regs /\ mem' = [mem EXCEPT ![w][id] = new]
    BY <1>2, UpdateEvaluationStores
  <2> QED BY <2>1 DEF TypeOK, MemPaired
<1> QED BY <1>1, <1>2

\* A handler that starts with paired findings keeps the requests paired.
LEMMA BeginPaired ==
  ASSUME TypeOK, JobsPaired,
         NEW r \in Request, NEW w, NEW id, NEW pc, NEW kind, NEW cards, NEW source,
         Begin(r, w, id, pc, kind, cards, cards, source)
  PROVE  JobsPaired'
BY DEF TypeOK, JobsPaired, Begin

LEMMA LookupPaired ==
  ASSUME PairedInv, NEW r \in Request, NEW w \in Worker, NEW id \in Screening, Lookup(r, w, id)
  PROVE  Paired' /\ JobsPaired'
<1> USE DEF PairedInv, TypeInv
<1>1. CacheHeld(w, id) /\ UNCHANGED <<file, db>>
  BY LookupEffect
<1>2. MemPaired'
  <2> SUFFICES ASSUME NEW v \in Worker, NEW i \in Screening, mem'[v][i] # Absent
               PROVE  mem'[v][i].cards = mem'[v][i].regs
    BY DEF MemPaired
  <2>1. CASE v = w /\ i = id
    BY <1>1, <2>1, CacheHeldEffect, HeldPaired
  <2>2. CASE v # w \/ i # id
    BY <1>1, <2>2, CacheHeldEffect DEF Paired
  <2> QED BY <2>1, <2>2
<1>3. FilePaired' /\ DbPaired'
  BY <1>1 DEF FilePaired, DbPaired, Paired
<1>4. JobsPaired'
  BY LookupEffect, BeginPaired DEF Starts
<1> QED BY <1>2, <1>3, <1>4, PairedParts

LEMMA ComparePaired ==
  ASSUME PairedInv, NEW r \in Request, NEW w \in Worker, NEW id \in Screening, Compare(r, w, id)
  PROVE  Paired' /\ JobsPaired'
<1> USE DEF PairedInv, TypeInv
<1>1. UNCHANGED <<mem, file, db>>
  BY CompareEffect
<1>2. Paired'
  BY <1>1 DEF Paired
<1>3. JobsPaired'
  BY CompareEffect, BeginPaired
<1> QED BY <1>2, <1>3

LEMMA CreatePaired ==
  ASSUME PairedInv, NEW r \in Request, NEW w \in Worker, NEW id \in Screening, Create(r, w, id)
  PROVE  Paired' /\ JobsPaired'
<1> USE DEF PairedInv, TypeInv
<1>1. \A status \in Status : NewRecord(status).cards = NewRecord(status).regs
  BY DEF NewRecord
<1>2. \/ db' = [db EXCEPT ![id] = NewRecord("pending")] /\ UNCHANGED mem
      \/ mem' = [mem EXCEPT ![w][id] = NewRecord("completed")] /\ UNCHANGED db
  BY DEF Create
<1>3. MemPaired'
  <2> SUFFICES ASSUME NEW v \in Worker, NEW i \in Screening, mem'[v][i] # Absent
               PROVE  mem'[v][i].cards = mem'[v][i].regs
    BY DEF MemPaired
  <2>1. mem'[v][i] = mem[v][i] \/ mem'[v][i] = NewRecord("completed")
    BY <1>2 DEF TypeOK
  <2> QED BY <1>1, <2>1 DEF Paired, Status
<1>4. DbPaired'
  BY <1>1, <1>2 DEF DbPaired, Paired, TypeOK, Status
<1>5. FilePaired'
  BY DEF FilePaired, Paired, Create
<1>6. PICK pc \in {"done", "storing"} : Begin(r, w, id, pc, "created", 0, 0, "store")
  <2>1. \/ Answer(r, w, id, "created", 0, 0)
        \/ Begin(r, w, id, "storing", "created", 0, 0, "store")
    BY DEF Create
  <2> QED BY <2>1 DEF Answer
<1>7. JobsPaired'
  BY <1>6, BeginPaired
<1> QED BY <1>3, <1>4, <1>5, <1>7, PairedParts

LEMMA EvaluateFetchedPaired ==
  ASSUME PairedInv, NEW r \in Request, EvaluateFetched(r)
  PROVE  Paired' /\ JobsPaired'
<1> DEFINE w == req[r].worker
           id == req[r].id
           n == evaluated[id] + 1
<1> USE DEF PairedInv, TypeInv
<1>1. w \in Worker /\ id \in Screening
  BY JobOf DEF EvaluateFetched, Ready
<1>2. /\ n \in Nat
      /\ Held(w, id) \in Record \cup {Absent}
      /\ UpdateEvaluation(w, id, Held(w, id), n, n)
      /\ Begin(r, w, id, "storing", "evaluated", n, n, "store")
      /\ UNCHANGED <<file, db>>
  BY <1>1, HeldType DEF EvaluateFetched, TypeOK
<1>3. MemPaired'
  BY <1>1, <1>2, UpdateEvaluationPaired, PairedParts
<1>4. FilePaired' /\ DbPaired'
  BY <1>2 DEF FilePaired, DbPaired, Paired
<1>5. JobsPaired'
  BY <1>2, BeginPaired
<1> QED BY <1>3, <1>4, <1>5, PairedParts

LEMMA InterpretedPaired ==
  ASSUME PairedInv, NEW r \in Request, Interpreted(r)
  PROVE  Paired' /\ JobsPaired'
<1> DEFINE w == req[r].worker
           id == req[r].id
           now == RecordNow(r)
<1> USE DEF PairedInv, TypeInv
<1>1. /\ req[r] \in Job /\ w \in Worker /\ id \in Screening
      /\ req[r].cards \in Nat /\ req[r].cards = req[r].regs
      /\ req[r].pc = "llm" /\ req[r] # Idle
  BY JobOf DEF Interpreted, Ready, JobsPaired
<1>2. req' = [req EXCEPT ![r].pc = "storing"] /\ UNCHANGED file
  BY DEF Interpreted
<1>3. JobsPaired'
  BY <1>1, <1>2 DEF JobsPaired, TypeOK, Job
<1>4. PICK text \in {req[r].cards, ErrorText} :
        \/ /\ req[r].source = "store"
           /\ UpdateEvaluation(w, id, [now EXCEPT !.text = text], now.cards, now.regs)
           /\ UNCHANGED db
        \/ /\ req[r].source = "detached"
           /\ UpdateEvaluation(w, id, Held(w, id), req[r].cards, req[r].regs)
           /\ UNCHANGED db
        \/ /\ req[r].source = "row"
           /\ db' \in {db, [db EXCEPT ![id].text = text]}
           /\ UNCHANGED <<mem, saving>>
  BY DEF Interpreted
<1>5. text \in Text
  BY <1>1, <1>4 DEF Text
<1>6. MemPaired' /\ DbPaired'
  <2>1. CASE req[r].source = "store"
    <3>1. now \in Record
      BY <1>1, <2>1 DEF HoldsRecord, TypeOK, RecordNow
    <3>2. /\ [now EXCEPT !.text = text] \in Record
          /\ now.cards \in Nat /\ now.cards = now.regs
      BY <1>1, <1>5, <2>1, <3>1 DEF Record, RecordNow, Paired, HoldsRecord
    <3>3. MemPaired'
      BY <1>1, <1>4, <2>1, <3>2, UpdateEvaluationPaired, PairedParts
    <3> QED BY <1>4, <2>1, <3>3 DEF DbPaired, Paired
  <2>2. CASE req[r].source = "detached"
    <3>1. MemPaired'
      BY <1>1, <1>4, <2>2, HeldType, UpdateEvaluationPaired, PairedParts
    <3> QED BY <1>4, <2>2, <3>1 DEF DbPaired, Paired
  <2>3. CASE req[r].source = "row"
    <3>1. db[id] \in Record
      BY <1>1, <2>3 DEF HoldsRecord, TypeOK
    <3>2. [db[id] EXCEPT !.text = text].cards = [db[id] EXCEPT !.text = text].regs
      BY <1>1, <3>1, SentinelsAssumption DEF Record, Paired
    <3>3. db' = db \/ db' = [db EXCEPT ![id] = [db[id] EXCEPT !.text = text]]
      BY <1>4, <2>3
    <3>4. DbPaired'
      BY <1>1, <3>2, <3>3 DEF DbPaired, Paired, TypeOK
    <3> QED BY <1>4, <2>3, <3>4 DEF MemPaired, Paired
  <2> QED BY <1>1, <2>1, <2>2, <2>3 DEF Job, Source
<1>7. FilePaired'
  BY <1>2 DEF FilePaired, Paired
<1> QED BY <1>3, <1>6, <1>7, PairedParts

\* Writes put in a file what memory has, and a restart only takes records away.
LEMMA SavePaired ==
  ASSUME PairedInv, NEW w \in Worker,
         SaveOpen(w) \/ SaveWrite(w) \/ SaveFails(w) \/ Restart(w)
  PROVE  Paired' /\ JobsPaired'
<1> USE DEF PairedInv, TypeInv
<1>1. CASE Restart(w)
  <2>1. MemPaired'
    BY <1>1 DEF Restart, MemPaired, Paired, TypeOK
  <2>2. JobsPaired'
    BY <1>1 DEF Restart, JobsPaired, TypeOK
  <2>3. FilePaired' /\ DbPaired'
    BY <1>1 DEF Restart, FilePaired, DbPaired, Paired
  <2> QED BY <2>1, <2>2, <2>3, PairedParts
<1>2. CASE SaveOpen(w) \/ SaveWrite(w) \/ SaveFails(w)
  <2>1. saving[w].id \in Screening
    BY <1>2 DEF SaveOpen, SaveWrite, SaveFails, TypeOK, Save
  <2>2. \/ UNCHANGED file
        \/ file' = [file EXCEPT ![saving[w].id] = Torn]
        \/ file' = [file EXCEPT ![saving[w].id] = mem[w][saving[w].id]]
    BY <1>2 DEF SaveOpen, SaveWrite, SaveFails
  <2>3. FilePaired'
    BY <2>1, <2>2 DEF FilePaired, Paired, TypeOK
  <2>4. UNCHANGED <<mem, db, req>>
    BY <1>2 DEF SaveOpen, SaveWrite, SaveFails
  <2> QED BY <2>3, <2>4, PairedParts DEF MemPaired, DbPaired, Paired, JobsPaired
<1> QED BY <1>1, <1>2

\* The steps of a request that leave the store alone.
LEMMA RequestPaired ==
  ASSUME PairedInv, NEW r \in Request, Respond(r) \/ ViewFetched(r) \/ Deliver(r)
  PROVE  Paired' /\ JobsPaired'
<1> USE DEF PairedInv, TypeInv
<1>1. UNCHANGED <<mem, file, db>>
  BY DEF Respond, ViewFetched, Deliver, store
<1>2. req[r] \in Job /\ req[r] # Idle
  BY JobOf DEF Respond, ViewFetched, Deliver, Ready
<1>3. req' = [req EXCEPT ![r].pc = "done"] \/ req' = [req EXCEPT ![r] = Idle]
  BY DEF Respond, ViewFetched, Deliver
<1>4. JobsPaired'
  BY <1>2, <1>3 DEF JobsPaired, TypeOK, Job
<1> QED BY <1>1, <1>4 DEF Paired

\* Every step keeps findings together.
LEMMA NextPaired == PairedInv /\ [Next]_vars => Paired' /\ JobsPaired'
<1> SUFFICES ASSUME PairedInv, [Next]_vars PROVE Paired' /\ JobsPaired'
  OBVIOUS
<1>1. CASE UNCHANGED vars
  BY <1>1 DEF vars, PairedInv, Paired, JobsPaired
<1>2. ASSUME NEW r \in Request, NEW w \in Worker, List(r, w)
      PROVE  Paired' /\ JobsPaired'
  <2>1. UNCHANGED <<file, db, req>>
    BY <1>2 DEF List
  <2>2. MemPaired'
    BY <1>2, ListEffect, HeldPaired DEF MemPaired, Paired, PairedInv, TypeInv
  <2> QED BY <2>1, <2>2, PairedParts DEF FilePaired, DbPaired, Paired, PairedInv, JobsPaired
<1> QED BY <1>1, <1>2, CreatePaired, LookupPaired, ComparePaired, EvaluateFetchedPaired,
           InterpretedPaired, RequestPaired, SavePaired DEF Next, Lookup

\* For any number of workers on the same files, with crashes and failing writes at any
\* moment: risk cards and regulation matches of a record come from one evaluation.
THEOREM FindingsStayTogether == Spec => []Paired
<1>1. Init => Paired /\ JobsPaired
  BY DEF Init, Paired, JobsPaired
<1>2. PairedInv /\ [Next]_vars => PairedInv'
  BY NextTypeInv, NextPaired DEF PairedInv
<1> QED BY <1>1, <1>2, InitTypeInv, PTL DEF Spec, PairedInv

-----------------------------------------------------------------------------
(* One worker on its own files *)

\* The deployment in which the store keeps its promises: one process, no database,
\* no write that fails and no process that dies inside one.
OneWorkerOnFiles ==
  /\ \E w \in Worker : Worker = {w}
  /\ DbAnswers = {FALSE}
  /\ MaxSaveFaults = 0
  /\ AbruptRestart = FALSE

\* A file is half written exactly while the worker is in the write of it.
TornWhileOpen ==
  /\ \A id \in Screening :
       file[id] = Torn => \E w \in Worker : saving[w] # NoSave /\ saving[w].opened /\ saving[w].id = id
  /\ \A w \in Worker : saving[w] # NoSave /\ saving[w].opened => file[saving[w].id] = Torn

\* What is being written is in memory.
SavesMemory == \A w \in Worker : saving[w] # NoSave => mem[w][saving[w].id] # Absent

\* Nothing is known of a screening that was not made, and what memory or the file has
\* of the others is their last evaluation.
HeldIsLast ==
  \A w \in Worker, id \in Screening :
    /\ id \notin created => mem[w][id] = Absent /\ file[id] = Absent /\ evaluated[id] = 0
    /\ id \in created => Held(w, id) # Absent /\ Held(w, id).cards = evaluated[id]

NoRows == \A id \in Screening : db[id] = Absent

\* Clients and handlers know of no evaluation that has not happened, and interpret
\* has the record of memory itself.
JobsBehind ==
  /\ \A id \in Screening : answered[id] <= evaluated[id]
  /\ \A r \in Request :
       req[r] # Idle =>
         /\ req[r].id \in created
         /\ req[r].kind = "evaluated" => req[r].cards <= evaluated[req[r].id]
         /\ req[r].pc = "llm" => req[r].source = "store"

StoreInv ==
  /\ WriteThrough /\ TornWhileOpen /\ SavesMemory /\ HeldIsLast /\ NoRows /\ JobsBehind

OneWorkerInv == TypeInv /\ StoreInv

\* The part of the invariant that is about memory, files and rows.
FilesInv == WriteThrough /\ TornWhileOpen /\ SavesMemory /\ HeldIsLast /\ NoRows

\* Reading a screening, or all of them, into memory changes nothing a reader can see.
LEMMA CachingKeepsFiles ==
  ASSUME OneWorkerInv,
         \A v \in Worker, i \in Screening :
           mem'[v][i] = mem[v][i] \/ (mem[v][i] = Absent /\ mem'[v][i] = Held(v, i)),
         UNCHANGED <<created, file, db, saving, evaluated>>
  PROVE  FilesInv'
<1> USE DEF OneWorkerInv, StoreInv
<1>1. \A v \in Worker, i \in Screening : Held(v, i)' = Held(v, i)
  BY DEF Held
<1>2. WriteThrough'
  <2> SUFFICES ASSUME NEW w \in Worker, NEW id \in Screening,
                      mem'[w][id] # Absent, ~(saving'[w] # NoSave /\ saving'[w].id = id)
               PROVE  file'[id] = mem'[w][id]
    BY DEF WriteThrough
  <2>1. CASE mem[w][id] # Absent
    BY <2>1 DEF WriteThrough
  <2>2. CASE mem[w][id] = Absent
    BY <2>2 DEF Held
  <2> QED BY <2>1, <2>2
<1>3. TornWhileOpen' /\ NoRows'
  BY DEF TornWhileOpen, NoRows
<1>4. SavesMemory'
  <2> SUFFICES ASSUME NEW w \in Worker, saving'[w] # NoSave
               PROVE  mem'[w][saving'[w].id] # Absent
    BY DEF SavesMemory
  <2>1. saving[w].id \in Screening /\ mem[w][saving[w].id] # Absent
    BY DEF SavesMemory, TypeInv, TypeOK, Save
  <2> QED BY <2>1
<1>5. HeldIsLast'
  <2> SUFFICES ASSUME NEW w \in Worker, NEW id \in Screening
               PROVE  /\ id \notin created => mem'[w][id] = Absent /\ file[id] = Absent /\ evaluated[id] = 0
                      /\ id \in created => Held(w, id)' # Absent /\ Held(w, id)'.cards = evaluated[id]
    BY DEF HeldIsLast
  <2>1. CASE id \in created
    BY <1>1, <2>1 DEF HeldIsLast
  <2>2. CASE id \notin created
    BY <2>2 DEF HeldIsLast, Held
  <2> QED BY <2>1, <2>2
<1> QED BY <1>2, <1>3, <1>4, <1>5 DEF FilesInv

\* A worker that is not in a write of its own is, alone, sure of the files.
LEMMA FreeMeansWritten ==
  ASSUME OneWorkerInv, OneWorkerOnFiles, NEW w \in Worker, Free(w)
  PROVE  \A id \in Screening :
           /\ file[id] # Torn
           /\ mem[w][id] # Absent => file[id] = mem[w][id]
           /\ Held(w, id) = file[id]
BY DEF OneWorkerInv, StoreInv, OneWorkerOnFiles, Free, WriteThrough, TornWhileOpen, Held

\* A record is stored, by create or by update_evaluation, and its write begins.
LEMMA StoringKeepsFiles ==
  ASSUME OneWorkerInv, OneWorkerOnFiles,
         NEW w \in Worker, NEW id \in Screening, NEW new \in Record,
         Free(w), mem' = [mem EXCEPT ![w][id] = new], StartSave(w, id),
         UNCHANGED <<file, db>>, created' = created \cup {id},
         \A i \in Screening : i # id => evaluated'[i] = evaluated[i],
         evaluated'[id] = new.cards
  PROVE  FilesInv'
<1> USE DEF OneWorkerInv, StoreInv
<1>1. /\ mem'[w][id] = new /\ new # Absent
      /\ \A i \in Screening : i # id => mem'[w][i] = mem[w][i]
  BY SentinelsAssumption DEF TypeInv, TypeOK
<1>2. saving'[w] = [id |-> id, opened |-> FALSE] /\ saving'[w] # NoSave
  <2>1. [id |-> id, opened |-> FALSE] \in Save
    BY DEF Save
  <2>2. saving'[w] = [id |-> id, opened |-> FALSE]
    BY DEF StartSave, TypeInv, TypeOK
  <2> QED BY <2>1, <2>2, SentinelsAssumption
<1>3. \A v \in Worker : v = w
  BY DEF OneWorkerOnFiles
<1>4. WriteThrough'
  BY <1>1, <1>2, <1>3, FreeMeansWritten DEF WriteThrough
<1>5. TornWhileOpen'
  BY <1>2, <1>3, FreeMeansWritten DEF TornWhileOpen
<1>6. SavesMemory'
  BY <1>1, <1>2, <1>3 DEF SavesMemory
<1>7. HeldIsLast'
  <2> SUFFICES ASSUME NEW i \in Screening
               PROVE  /\ i \notin created' => mem'[w][i] = Absent /\ file'[i] = Absent /\ evaluated'[i] = 0
                      /\ i \in created' => Held(w, i)' # Absent /\ Held(w, i)'.cards = evaluated'[i]
    BY <1>3 DEF HeldIsLast
  <2>1. CASE i = id
    BY <1>1, <2>1 DEF Held
  <2>2. CASE i # id
    BY <1>1, <2>2 DEF HeldIsLast, Held
  <2> QED BY <2>1, <2>2
<1>8. NoRows'
  BY DEF NoRows
<1> QED BY <1>4, <1>5, <1>6, <1>7, <1>8 DEF FilesInv

\* The steps of a write, none of which fails, and the restart of an idle worker.
LEMMA SavingKeepsFiles ==
  ASSUME OneWorkerInv, OneWorkerOnFiles, NEW w \in Worker,
         SaveOpen(w) \/ SaveWrite(w) \/ SaveFails(w) \/ Restart(w)
  PROVE  FilesInv' /\ \A id \in Screening : Held(w, id)' = Held(w, id)
<1> USE DEF OneWorkerInv, StoreInv
<1>1. \A v \in Worker : v = w
  BY DEF OneWorkerOnFiles
<1>2. ~SaveFails(w)
  BY DEF SaveFails, OneWorkerOnFiles, TypeInv, TypeOK
<1>3. UNCHANGED <<created, db, evaluated>>
  BY <1>2 DEF SaveOpen, SaveWrite, Restart, history
<1>4. CASE Restart(w)
  <2>1. Free(w) /\ saving'[w] = NoSave /\ \A i \in Screening : mem'[w][i] = Absent
    BY <1>4 DEF Restart, OneWorkerOnFiles, TypeInv, TypeOK
  <2>2. UNCHANGED file
    BY <1>4 DEF Restart
  <2>3. \A id \in Screening : Held(w, id)' = Held(w, id)
    BY <2>1, <2>2, FreeMeansWritten DEF Held
  <2>4. WriteThrough' /\ SavesMemory' /\ NoRows'
    BY <1>1, <1>3, <2>1 DEF WriteThrough, SavesMemory, NoRows
  <2>5. TornWhileOpen'
    BY <1>1, <2>1, <2>2, FreeMeansWritten DEF TornWhileOpen
  <2>6. HeldIsLast'
    BY <1>1, <1>3, <2>1, <2>2, <2>3 DEF HeldIsLast
  <2> QED BY <2>3, <2>4, <2>5, <2>6 DEF FilesInv
<1>5. CASE SaveOpen(w) \/ SaveWrite(w)
  <2> DEFINE id == saving[w].id
  <2>1. /\ saving[w] \in Save /\ saving[w] # NoSave /\ id \in Screening
        /\ mem[w][id] # Absent /\ UNCHANGED mem
    BY <1>5 DEF SaveOpen, SaveWrite, SavesMemory, TypeInv, TypeOK, Save
  <2>2. \A i \in Screening : i # id => file'[i] = file[i]
    BY <1>5, <2>1 DEF SaveOpen, SaveWrite, TypeInv, TypeOK
  <2>3. \/ saving'[w] # NoSave /\ saving'[w].id = id /\ saving'[w].opened /\ file'[id] = Torn
        \/ saving'[w] = NoSave /\ file'[id] = mem[w][id]
    <3>1. CASE SaveOpen(w)
      <4>1. [saving[w] EXCEPT !.opened = TRUE] \in Save
        BY <2>1 DEF Save
      <4>2. saving'[w] = [saving[w] EXCEPT !.opened = TRUE]
        BY <3>1 DEF SaveOpen, TypeInv, TypeOK
      <4>3. saving'[w].id = id /\ saving'[w].opened
        BY <2>1, <4>2 DEF Save
      <4>4. file'[id] = Torn
        BY <2>1, <3>1 DEF SaveOpen, TypeInv, TypeOK
      <4> QED BY <4>1, <4>2, <4>3, <4>4, SentinelsAssumption
    <3>2. CASE SaveWrite(w)
      <4>1. file[id] = Torn
        BY <2>1, <3>2 DEF SaveWrite, TornWhileOpen
      <4> QED BY <2>1, <3>2, <4>1 DEF SaveWrite, TypeInv, TypeOK
    <3> QED BY <1>5, <3>1, <3>2
  <2>4. \A i \in Screening : Held(w, i)' = Held(w, i)
    BY <2>1, <2>2 DEF Held
  <2>5. mem[w][id] # Torn
    BY <2>1, SentinelsAssumption DEF TypeInv, TypeOK
  <2>6. WriteThrough'
    BY <1>1, <2>1, <2>2, <2>3 DEF WriteThrough
  <2>7. TornWhileOpen'
    BY <1>1, <2>1, <2>2, <2>3, <2>5 DEF TornWhileOpen
  <2>8. SavesMemory' /\ NoRows'
    BY <1>1, <1>3, <2>1, <2>3 DEF SavesMemory, NoRows
  <2>9. HeldIsLast'
    BY <1>1, <1>3, <2>1, <2>2, <2>4 DEF HeldIsLast
  <2> QED BY <2>4, <2>6, <2>7, <2>8, <2>9 DEF FilesInv
<1> QED BY <1>2, <1>4, <1>5

\* A request begins on a screening that was made, about no evaluation that has not
\* happened, and it waits for the LLM only with the record of memory.
LEMMA BeginKeepsJobs ==
  ASSUME OneWorkerInv,
         NEW r \in Request, NEW w \in Worker, NEW id \in Screening, NEW pc, NEW kind,
         NEW cards \in Nat, NEW regs, NEW source,
         Begin(r, w, id, pc, kind, cards, regs, source),
         created \subseteq created', id \in created',
         \A i \in Screening : evaluated'[i] >= evaluated[i] /\ evaluated'[i] \in Nat,
         kind = "evaluated" => cards <= evaluated'[id],
         pc = "llm" => source = "store",
         UNCHANGED answered
  PROVE  JobsBehind'
<1> USE DEF OneWorkerInv, StoreInv, TypeInv
<1>1. \A i \in Screening : answered'[i] <= evaluated'[i]
  BY DEF JobsBehind, TypeOK
<1>2. ASSUME NEW s \in Request, req'[s] # Idle
      PROVE  /\ req'[s].id \in created'
             /\ req'[s].kind = "evaluated" => req'[s].cards <= evaluated'[req'[s].id]
             /\ req'[s].pc = "llm" => req'[s].source = "store"
  <2>1. CASE s = r
    BY <2>1 DEF Begin, TypeOK
  <2>2. CASE s # r
    <3>1. req'[s] = req[s]
      BY <2>2 DEF Begin, TypeOK
    <3>2. req[s].id \in Screening /\ req[s].cards \in Nat
      BY <1>2, <3>1, JobOf
    <3>3. evaluated[req[s].id] \in Nat
      BY <3>2 DEF TypeOK
    <3> QED BY <1>2, <3>1, <3>2, <3>3 DEF JobsBehind
  <2> QED BY <2>1, <2>2
<1> QED BY <1>1, <1>2 DEF JobsBehind

LEMMA LookupStoreInv ==
  ASSUME OneWorkerInv, NEW r \in Request, NEW w \in Worker, NEW id \in Screening,
         Lookup(r, w, id)
  PROVE  StoreInv'
<1> USE DEF OneWorkerInv, TypeInv
<1>1. /\ id \in created /\ CacheHeld(w, id)
      /\ UNCHANGED <<created, file, db, saving, evaluated, answered>>
  BY LookupEffect
<1>2. FilesInv'
  <2>1. \A v \in Worker, i \in Screening :
          mem'[v][i] = mem[v][i] \/ (mem[v][i] = Absent /\ mem'[v][i] = Held(v, i))
    <3>1. mem'[w][id] = Held(w, id)
      BY <1>1, CacheHeldEffect
    <3>2. \A v \in Worker, i \in Screening :
            (v # w \/ i # id \/ mem[v][i] # Absent) => mem'[v][i] = mem[v][i]
      BY <1>1, CacheHeldEffect
    <3> QED BY <3>1, <3>2
  <2> QED BY <1>1, <2>1, CachingKeepsFiles
<1>3. PICK pc \in Step \ {"storing"}, kind \in Kind, cards \in Nat, regs \in Nat, source \in Source :
        /\ Begin(r, w, id, pc, kind, cards, regs, source)
        /\ kind = "evaluated" => cards = 0
        /\ pc = "llm" /\ source = "row" => db[id] # Absent
        /\ pc = "llm" /\ source = "detached" => Held(w, id) = Absent
  BY LookupEffect DEF Starts
<1>4. db[id] = Absent /\ Held(w, id) # Absent
  BY <1>1 DEF StoreInv, NoRows, HeldIsLast
<1>5. pc = "llm" => source = "store"
  BY <1>3, <1>4 DEF Source
<1>6. evaluated[id] \in Nat /\ \A i \in Screening : evaluated[i] \in Nat
  BY DEF TypeOK
<1>7. JobsBehind'
  BY <1>1, <1>3, <1>5, <1>6, BeginKeepsJobs
<1> QED BY <1>2, <1>7 DEF StoreInv, FilesInv

LEMMA CompareStoreInv ==
  ASSUME OneWorkerInv, NEW r \in Request, NEW w \in Worker, NEW id \in Screening,
         Compare(r, w, id)
  PROVE  StoreInv'
<1> USE DEF OneWorkerInv, TypeInv
<1>1. /\ id \in created
      /\ UNCHANGED <<created, mem, file, db, saving, evaluated, answered>>
  BY CompareEffect
<1>2. FilesInv'
  BY <1>1 DEF StoreInv, FilesInv, WriteThrough, TornWhileOpen, SavesMemory, HeldIsLast, NoRows, Held
<1>3. PICK kind \in {"compared", "demo", "refused"}, cards \in Nat, regs \in Nat :
        Begin(r, w, id, "done", kind, cards, regs, "store")
  BY CompareEffect
<1>4. \A i \in Screening : evaluated[i] \in Nat
  BY DEF TypeOK
<1>5. JobsBehind'
  BY <1>1, <1>3, <1>4, BeginKeepsJobs
<1> QED BY <1>2, <1>5 DEF StoreInv, FilesInv

LEMMA CreateStoreInv ==
  ASSUME OneWorkerInv, OneWorkerOnFiles,
         NEW r \in Request, NEW w \in Worker, NEW id \in Screening, Create(r, w, id)
  PROVE  StoreInv'
<1> DEFINE new == NewRecord("completed")
<1> USE DEF OneWorkerInv, TypeInv
<1>1. /\ Free(w) /\ id \notin created /\ created' = created \cup {id}
      /\ mem' = [mem EXCEPT ![w][id] = new] /\ StartSave(w, id)
      /\ Begin(r, w, id, "storing", "created", 0, 0, "store")
      /\ UNCHANGED <<file, db, evaluated, answered>>
  BY DEF Create, OneWorkerOnFiles
<1>2. new \in Record /\ new.cards = 0
  BY NewRecordType DEF Status, NewRecord
<1>3. evaluated[id] = 0
  BY <1>1 DEF StoreInv, HeldIsLast
<1>4. FilesInv'
  BY <1>1, <1>2, <1>3, StoringKeepsFiles
<1>5. \A i \in Screening : evaluated[i] \in Nat
  BY DEF TypeOK
<1>6. JobsBehind'
  BY <1>1, <1>3, <1>5, BeginKeepsJobs
<1> QED BY <1>4, <1>6 DEF StoreInv, FilesInv

LEMMA EvaluateFetchedStoreInv ==
  ASSUME OneWorkerInv, OneWorkerOnFiles, NEW r \in Request, EvaluateFetched(r)
  PROVE  StoreInv'
<1> DEFINE w == req[r].worker
           id == req[r].id
           n == evaluated[id] + 1
<1> USE DEF OneWorkerInv, TypeInv
<1>1. w \in Worker /\ id \in Screening /\ id \in created
  BY JobOf DEF EvaluateFetched, Ready, StoreInv, JobsBehind
<1>2. /\ n \in Nat /\ Free(w)
      /\ Held(w, id) \in Record
      /\ evaluated' = [evaluated EXCEPT ![id] = n]
      /\ UpdateEvaluation(w, id, Held(w, id), n, n)
      /\ Begin(r, w, id, "storing", "evaluated", n, n, "store")
      /\ UNCHANGED <<created, file, db, answered>>
  BY <1>1, HeldType DEF EvaluateFetched, Ready, TypeOK, StoreInv, HeldIsLast
<1>3. PICK new \in Record :
        new.cards = n /\ mem' = [mem EXCEPT ![w][id] = new] /\ StartSave(w, id)
  <2> HIDE DEF w, id, n
  <2> QED BY <1>1, <1>2, UpdateEvaluationStores
<1>4. /\ evaluated'[id] = n
      /\ \A i \in Screening : i # id => evaluated'[i] = evaluated[i]
      /\ \A i \in Screening : evaluated'[i] >= evaluated[i] /\ evaluated'[i] \in Nat
  BY <1>1, <1>2 DEF TypeOK
<1>5. created' = created \cup {id}
  BY <1>1, <1>2
<1>6. FilesInv'
  <2>1. UNCHANGED <<file, db>> /\ evaluated'[id] = new.cards
    BY <1>2, <1>3, <1>4
  <2> HIDE DEF w, id, n
  <2> QED BY <1>1, <1>2, <1>3, <1>4, <1>5, <2>1, StoringKeepsFiles
<1>7. JobsBehind'
  <2>1. created \subseteq created' /\ id \in created' /\ n <= evaluated'[id]
    BY <1>1, <1>2, <1>4
  <2> HIDE DEF w, id, n
  <2> QED BY <1>1, <1>2, <1>4, <2>1, BeginKeepsJobs
<1> QED BY <1>6, <1>7 DEF StoreInv, FilesInv

LEMMA InterpretedStoreInv ==
  ASSUME OneWorkerInv, OneWorkerOnFiles, NEW r \in Request, Interpreted(r)
  PROVE  StoreInv'
<1> DEFINE w == req[r].worker
           id == req[r].id
           now == RecordNow(r)
<1> USE DEF OneWorkerInv, TypeInv
<1>1. /\ req[r] \in Job /\ req[r] # Idle
      /\ w \in Worker /\ id \in Screening /\ id \in created
      /\ req[r].cards \in Nat /\ req[r].source = "store" /\ Free(w)
      /\ mem[w][id] # Absent
  BY JobOf DEF Interpreted, Ready, StoreInv, JobsBehind, HoldsRecord
<1>2. /\ now \in Record /\ now.cards = evaluated[id] /\ now.regs \in Nat /\ now.cards \in Nat
      /\ evaluated[id] \in Nat
  <2>1. now \in Record
    BY <1>1 DEF TypeOK, RecordNow
  <2> QED BY <1>1, <2>1 DEF TypeOK, RecordNow, StoreInv, HeldIsLast, Held, Record
<1>3. PICK text \in {req[r].cards, ErrorText} :
        /\ UpdateEvaluation(w, id, [now EXCEPT !.text = text], now.cards, now.regs)
        /\ UNCHANGED db
  BY <1>1 DEF Interpreted
<1>4. [now EXCEPT !.text = text] \in Record
  BY <1>1, <1>2 DEF Record, Text
<1>5. PICK new \in Record :
        new.cards = now.cards /\ mem' = [mem EXCEPT ![w][id] = new] /\ StartSave(w, id)
  <2> HIDE DEF w, id, now
  <2> QED BY <1>1, <1>2, <1>3, <1>4, UpdateEvaluationStores
<1>6. /\ req' = [req EXCEPT ![r].pc = "storing"]
      /\ UNCHANGED <<created, file, evaluated, answered>>
  BY DEF Interpreted
<1>7. created' = created \cup {id}
  BY <1>1, <1>6
<1>8. FilesInv'
  BY <1>1, <1>2, <1>3, <1>5, <1>6, <1>7, StoringKeepsFiles
<1>9. JobsBehind'
  BY <1>1, <1>6 DEF StoreInv, JobsBehind, TypeOK, Job
<1> QED BY <1>8, <1>9 DEF StoreInv, FilesInv

\* The steps of a request that leave the store alone; a client is told of no evaluation
\* but one that has happened.
LEMMA RequestStoreInv ==
  ASSUME OneWorkerInv, NEW r \in Request, Respond(r) \/ ViewFetched(r) \/ Deliver(r)
  PROVE  StoreInv'
<1> USE DEF OneWorkerInv, TypeInv
<1>1. /\ UNCHANGED <<created, mem, file, db, saving, evaluated>>
      /\ req[r] \in Job /\ req[r] # Idle /\ req[r].id \in Screening /\ req[r].cards \in Nat
  BY JobOf DEF Respond, ViewFetched, Deliver, store, Ready, history
<1>2. FilesInv'
  BY <1>1 DEF StoreInv, FilesInv, WriteThrough, TornWhileOpen, SavesMemory, HeldIsLast, NoRows, Held
<1>3. \/ UNCHANGED answered
      \/ req[r].kind = "evaluated" /\ answered' = [answered EXCEPT ![req[r].id] = req[r].cards]
  BY DEF Respond, ViewFetched, Deliver, history
<1>4. \A id \in Screening : answered'[id] <= evaluated'[id]
  BY <1>1, <1>3 DEF StoreInv, JobsBehind, TypeOK
<1>5. req' = [req EXCEPT ![r].pc = "done"] \/ req' = [req EXCEPT ![r] = Idle]
  BY DEF Respond, ViewFetched, Deliver
<1>6. ASSUME NEW s \in Request, req'[s] # Idle
      PROVE  /\ req[s] # Idle
             /\ req'[s].id = req[s].id /\ req'[s].kind = req[s].kind
             /\ req'[s].cards = req[s].cards /\ req'[s].source = req[s].source
             /\ req'[s].pc = "llm" => req[s].pc = "llm"
  BY <1>1, <1>5, <1>6 DEF TypeOK, Job
<1>7. JobsBehind'
  BY <1>1, <1>4, <1>6 DEF StoreInv, JobsBehind
<1> QED BY <1>2, <1>7 DEF StoreInv, FilesInv

LEMMA SaveStoreInv ==
  ASSUME OneWorkerInv, OneWorkerOnFiles, NEW w \in Worker,
         SaveOpen(w) \/ SaveWrite(w) \/ SaveFails(w) \/ Restart(w)
  PROVE  StoreInv'
<1>1. FilesInv'
  BY SavingKeepsFiles
<1>2. UNCHANGED <<created, evaluated, answered>>
  BY DEF SaveOpen, SaveWrite, SaveFails, Restart, history
<1>3. \A r \in Request : req'[r] = req[r] \/ req'[r] = Idle
  BY DEF SaveOpen, SaveWrite, SaveFails, Restart
<1>4. JobsBehind'
  BY <1>2, <1>3 DEF OneWorkerInv, StoreInv, JobsBehind
<1> QED BY <1>1, <1>4 DEF StoreInv, FilesInv

\* Every step of the one worker keeps the invariant.
LEMMA NextOneWorker ==
  ASSUME OneWorkerOnFiles
  PROVE  OneWorkerInv /\ [Next]_vars => OneWorkerInv'
<1> SUFFICES ASSUME OneWorkerInv, [Next]_vars PROVE OneWorkerInv'
  OBVIOUS
<1>1. TypeInv'
  BY NextTypeInv DEF OneWorkerInv
<1>2. CASE UNCHANGED vars
  BY <1>1, <1>2 DEF vars, OneWorkerInv, StoreInv, WriteThrough, TornWhileOpen, SavesMemory,
                    HeldIsLast, NoRows, JobsBehind, Held
<1>3. ASSUME NEW r \in Request, NEW w \in Worker, List(r, w)
      PROVE  StoreInv'
  <2>1. UNCHANGED <<created, file, db, saving, req, evaluated, answered>>
    BY <1>3 DEF List, history
  <2>2. \A v \in Worker, i \in Screening :
          mem'[v][i] = mem[v][i] \/ (mem[v][i] = Absent /\ mem'[v][i] = Held(v, i))
    <3>1. /\ \A i \in Screening : mem'[w][i] = Held(w, i)
          /\ \A v \in Worker, i \in Screening :
               (v # w \/ mem[v][i] # Absent) => mem'[v][i] = mem[v][i]
      BY <1>3, ListEffect DEF OneWorkerInv, TypeInv
    <3> QED BY <3>1
  <2>3. FilesInv'
    BY <2>1, <2>2, CachingKeepsFiles
  <2> QED BY <2>1, <2>3 DEF OneWorkerInv, StoreInv, FilesInv, JobsBehind
<1> QED BY <1>1, <1>2, <1>3, CreateStoreInv, LookupStoreInv, CompareStoreInv, EvaluateFetchedStoreInv,
           InterpretedStoreInv, RequestStoreInv, SaveStoreInv DEF Next, Lookup, OneWorkerInv

LEMMA OneWorkerInvariance ==
  ASSUME OneWorkerOnFiles
  PROVE  Spec => []OneWorkerInv
<1>1. Init => StoreInv
  <2> SUFFICES ASSUME Init PROVE StoreInv
    OBVIOUS
  <2>1. \A w \in Worker, id \in Screening :
          mem[w][id] = Absent /\ file[id] = Absent
    BY DEF Init
  <2>2. WriteThrough /\ TornWhileOpen /\ SavesMemory
    BY <2>1, SentinelsAssumption DEF Init, WriteThrough, TornWhileOpen, SavesMemory
  <2>3. HeldIsLast /\ NoRows /\ JobsBehind
    BY <2>1 DEF Init, HeldIsLast, NoRows, JobsBehind
  <2> QED BY <2>2, <2>3 DEF StoreInv
<1>2. OneWorkerInv /\ [Next]_vars => OneWorkerInv'
  BY NextOneWorker
<1> QED BY <1>1, <1>2, InitTypeInv, PTL DEF Spec, OneWorkerInv

\* One worker without a database: outside a write, the file of every screening in
\* memory is what memory has.
THEOREM FilesFollowMemory ==
  ASSUME OneWorkerOnFiles
  PROVE  Spec => []WriteThrough
BY OneWorkerInvariance, PTL DEF OneWorkerInv, StoreInv

\* One worker without a database: whenever it is not in a write, a restart loses no
\* screening.
THEOREM RestartLosesNothing ==
  ASSUME OneWorkerOnFiles
  PROVE  Spec => []Restorable
<1>1. OneWorkerInv => Restorable
  <2> SUFFICES ASSUME OneWorkerInv, NEW id \in created,
                      \A w \in Worker : ~(saving[w] # NoSave /\ saving[w].id = id)
               PROVE  file[id] \notin {Absent, Torn}
    BY DEF Restorable
  <2>1. id \in Screening /\ file[id] # Torn
    BY DEF OneWorkerInv, TypeInv, TypeOK, StoreInv, TornWhileOpen
  <2>2. PICK w \in Worker : TRUE
    BY DEF OneWorkerOnFiles
  <2>3. Held(w, id) # Absent /\ (mem[w][id] # Absent => file[id] = mem[w][id])
    BY <2>1 DEF OneWorkerInv, StoreInv, HeldIsLast, WriteThrough
  <2> QED BY <2>1, <2>3 DEF Held, OneWorkerInv, StoreInv, HeldIsLast
<1> QED BY <1>1, OneWorkerInvariance, PTL

\* One worker without a database: an evaluation a client was told of is served until a
\* later one replaces it, through every interleaving of evaluations, interpretations,
\* lists, writes and restarts.
THEOREM AnsweredEvaluationsSurvive ==
  ASSUME OneWorkerOnFiles
  PROVE  Spec => []AnsweredEvaluationSurvives
<1>1. OneWorkerInv => AnsweredEvaluationSurvives
  <2> SUFFICES ASSUME OneWorkerInv, NEW w \in Worker, NEW id \in Screening, answered[id] > 0
               PROVE  Served(w, id) # Absent /\ Served(w, id).cards >= answered[id]
    BY DEF AnsweredEvaluationSurvives
  <2>1. answered[id] \in Nat /\ evaluated[id] \in Nat /\ answered[id] <= evaluated[id]
    BY DEF OneWorkerInv, TypeInv, TypeOK, StoreInv, JobsBehind
  <2>2. id \in created
    BY <2>1 DEF OneWorkerInv, StoreInv, HeldIsLast
  <2>3. Held(w, id) # Absent /\ Held(w, id).cards = evaluated[id]
    BY <2>2 DEF OneWorkerInv, StoreInv, HeldIsLast
  <2> QED BY <2>1, <2>3 DEF Served
<1> QED BY <1>1, OneWorkerInvariance, PTL


-----------------------------------------------------------------------------
(* Workers that share the files: the invariant *)

\* A screening that was not made is nowhere, and nobody asks for it.
NotCreated ==
  /\ \A id \in Screening \ created :
       /\ db[id] = Absent /\ file[id] = Absent /\ answered[id] = 0
       /\ \A w \in Worker : mem[w][id] = Absent
  /\ \A r \in Request : req[r] # Idle => req[r].id \in created

\* The worker is in the write of a record that is not evaluated.
WritesNew(w, id) ==
  saving[w] # NoSave /\ saving[w].id = id /\ mem[w][id].status # "evaluated"

\* No handler but the one that made the screening is under way.
OnlyItsCreator(id) ==
  \A r \in Request :
    req[r] # Idle /\ req[r].id = id =>
      req[r].pc = "done" \/ (req[r].pc = "storing" /\ req[r].kind = "created")

\* That is the first write of a new screening, which nobody else has seen yet.
FirstWrite ==
  \A w \in Worker, id \in Screening : WritesNew(w, id) =>
    /\ answered[id] = 0
    /\ \A v \in Worker \ {w} : mem[v][id] = Absent
    /\ file[id] \in {Absent, Torn}
    /\ OnlyItsCreator(id)

HomeInv == TypeInv /\ OneHome /\ SavesMemory /\ NotCreated
SharedInv == HomeInv /\ FirstWrite

-----------------------------------------------------------------------------
(* A row excludes memory and file *)

\* A step keeps a screening at home if memory gains only what the file or the
\* caller's memory had, files only what memory has, and the database nothing.
LEMMA HomeKept ==
  ASSUME HomeInv, UNCHANGED created,
         \A w \in Worker, id \in Screening :
           mem'[w][id] # Absent => mem[w][id] # Absent \/ file[id] # Absent,
         \A id \in Screening :
           file'[id] # Absent => file[id] # Absent \/ \E w \in Worker : mem[w][id] # Absent,
         \A id \in Screening : db'[id] # Absent => db[id] # Absent,
         \A w \in Worker : saving'[w] # NoSave => mem'[w][saving'[w].id] # Absent,
         \A id \in Screening : answered'[id] # answered[id] => id \in created,
         \A r \in Request : req'[r] # Idle => req'[r].id \in created
  PROVE  OneHome' /\ SavesMemory' /\ NotCreated'
<1>1. OneHome'
  BY DEF HomeInv, OneHome
<1>2. NotCreated'
  BY DEF HomeInv, NotCreated
<1>3. SavesMemory'
  BY DEF SavesMemory
<1> QED BY <1>1, <1>2, <1>3

\* The writes under way, and what memory keeps for them.
LEMMA SavingOf ==
  ASSUME HomeInv, NEW w \in Worker, saving[w] # NoSave
  PROVE  /\ saving[w] \in Save /\ saving[w].id \in Screening
         /\ mem[w][saving[w].id] \in Record /\ mem[w][saving[w].id] # Absent
BY DEF HomeInv, TypeInv, TypeOK, Save, SavesMemory

LEMMA LookupHome ==
  ASSUME HomeInv, NEW r \in Request, NEW w \in Worker, NEW id \in Screening, Lookup(r, w, id)
  PROVE  OneHome' /\ SavesMemory' /\ NotCreated'
<1> USE DEF HomeInv, TypeInv
<1>1. /\ id \in created /\ CacheHeld(w, id)
      /\ UNCHANGED <<created, file, db, saving, evaluated, answered, restarts, faults>>
  BY LookupEffect
<1>2. PICK pc, kind, cards, regs, source : Begin(r, w, id, pc, kind, cards, regs, source)
  BY LookupEffect DEF Starts
<1>3. \A q \in Request : req'[q] # Idle => req'[q].id \in created
  BY <1>1, <1>2 DEF Begin, TypeOK, NotCreated
<1>4. \A v \in Worker, i \in Screening :
        mem'[v][i] # Absent => mem[v][i] # Absent \/ file[i] # Absent
  BY <1>1, CacheHeldEffect DEF Held
<1>5. \A v \in Worker : saving'[v] # NoSave => mem'[v][saving'[v].id] # Absent
  BY <1>1, CacheHeldEffect, SavingOf
<1> QED BY <1>1, <1>3, <1>4, <1>5, HomeKept

LEMMA CompareHome ==
  ASSUME HomeInv, NEW r \in Request, NEW w \in Worker, NEW id \in Screening, Compare(r, w, id)
  PROVE  OneHome' /\ SavesMemory' /\ NotCreated'
<1> USE DEF HomeInv, TypeInv
<1>1. /\ id \in created
      /\ UNCHANGED <<created, mem, file, db, saving, answered>>
  BY CompareEffect
<1>2. PICK kind, cards, regs : Begin(r, w, id, "done", kind, cards, regs, "store")
  BY CompareEffect
<1>3. \A q \in Request : req'[q] # Idle => req'[q].id \in created
  BY <1>1, <1>2 DEF Begin, TypeOK, NotCreated
<1> QED BY <1>1, <1>3 DEF OneHome, SavesMemory, NotCreated

LEMMA ListHome ==
  ASSUME HomeInv, NEW r \in Request, NEW w \in Worker, List(r, w)
  PROVE  OneHome' /\ SavesMemory' /\ NotCreated'
<1> USE DEF HomeInv, TypeInv
<1>1. UNCHANGED <<created, file, db, saving, req, answered>>
  BY DEF List, history
<1>2. \A v \in Worker, i \in Screening :
        mem'[v][i] # Absent => mem[v][i] # Absent \/ file[i] # Absent
  BY ListEffect DEF Held
<1>3. \A v \in Worker : saving'[v] # NoSave => mem'[v][saving'[v].id] # Absent
  BY <1>1, ListEffect, SavingOf
<1>4. \A q \in Request : req'[q] # Idle => req'[q].id \in created
  BY <1>1 DEF NotCreated
<1> QED BY <1>1, <1>2, <1>3, <1>4, HomeKept

\* update_evaluation writes only what memory or the file already has.
LEMMA UpdateEvaluationHome ==
  ASSUME HomeInv, NEW w \in Worker, Free(w), NEW id \in Screening,
         NEW record \in Record \cup {Absent},
         record # Absent => mem[w][id] # Absent \/ file[id] # Absent,
         NEW cards \in Nat, NEW regs \in Nat,
         UpdateEvaluation(w, id, record, cards, regs)
  PROVE  /\ \A v \in Worker, i \in Screening :
              mem'[v][i] # Absent => mem[v][i] # Absent \/ file[i] # Absent
         /\ \A v \in Worker : saving'[v] # NoSave => mem'[v][saving'[v].id] # Absent
<1> USE DEF HomeInv, TypeInv
<1>1. CASE record = Absent
  BY <1>1, SavingOf DEF UpdateEvaluation
<1>2. CASE record # Absent
  <2>1. PICK new \in Record : mem' = [mem EXCEPT ![w][id] = new] /\ StartSave(w, id)
    BY <1>2, UpdateEvaluationStores
  <2>2. \A v \in Worker, i \in Screening : v # w \/ i # id => mem'[v][i] = mem[v][i]
    BY <2>1 DEF TypeOK
  <2>3. mem'[w][id] = new /\ new # Absent
    BY <2>1, SentinelsAssumption DEF TypeOK
  <2>4. saving'[w].id = id /\ \A v \in Worker : v # w => saving'[v] = saving[v]
    BY <2>1 DEF StartSave, TypeOK
  <2>5. ASSUME NEW v \in Worker, saving'[v] # NoSave PROVE mem'[v][saving'[v].id] # Absent
    BY <2>2, <2>3, <2>4, <2>5, SavingOf
  <2> QED BY <1>2, <2>2, <2>5
<1> QED BY <1>1, <1>2

LEMMA CreateHome ==
  ASSUME HomeInv, NEW r \in Request, NEW w \in Worker, NEW id \in Screening, Create(r, w, id)
  PROVE  OneHome' /\ SavesMemory' /\ NotCreated'
<1> USE DEF HomeInv, TypeInv
<1>1. /\ id \notin created /\ created' = created \cup {id} /\ Free(w)
      /\ UNCHANGED <<file, answered>>
  BY DEF Create
<1>2. \A q \in Request : req'[q] # Idle => req'[q].id \in created'
  <2>1. PICK pc, kind, cards, regs, source : Begin(r, w, id, pc, kind, cards, regs, source)
    BY DEF Create, Answer
  <2> QED BY <1>1, <2>1 DEF Begin, TypeOK, NotCreated
<1>3. ASSUME db' = [db EXCEPT ![id] = NewRecord("pending")], UNCHANGED <<mem, saving>>
      PROVE  OneHome' /\ SavesMemory' /\ NotCreated'
  <2>1. \A i \in Screening : i # id => db'[i] = db[i]
    BY <1>3 DEF TypeOK
  <2>2. OneHome'
    BY <1>1, <1>3, <2>1 DEF OneHome, NotCreated
  <2>3. NotCreated'
    BY <1>1, <1>2, <1>3, <2>1 DEF NotCreated
  <2> QED BY <1>3, <2>2, <2>3 DEF SavesMemory
<1>4. ASSUME mem' = [mem EXCEPT ![w][id] = NewRecord("completed")], StartSave(w, id),
             UNCHANGED db
      PROVE  OneHome' /\ SavesMemory' /\ NotCreated'
  <2>1. \A v \in Worker, i \in Screening : v # w \/ i # id => mem'[v][i] = mem[v][i]
    BY <1>4 DEF TypeOK
  <2>2. mem'[w][id] # Absent
    BY <1>4, NewRecordType, SentinelsAssumption DEF TypeOK, Status
  <2>3. saving'[w].id = id /\ \A v \in Worker : v # w => saving'[v] = saving[v]
    BY <1>4 DEF StartSave, TypeOK
  <2>4. OneHome'
    BY <1>1, <1>4, <2>1 DEF OneHome, NotCreated
  <2>5. SavesMemory'
    BY <2>1, <2>2, <2>3, SavingOf DEF SavesMemory
  <2>6. NotCreated'
    BY <1>1, <1>2, <1>4, <2>1 DEF NotCreated
  <2> QED BY <2>4, <2>5, <2>6
<1> QED BY <1>3, <1>4 DEF Create

LEMMA EvaluateFetchedHome ==
  ASSUME HomeInv, NEW r \in Request, EvaluateFetched(r)
  PROVE  OneHome' /\ SavesMemory' /\ NotCreated'
<1> DEFINE w == req[r].worker
           id == req[r].id
           n == evaluated[id] + 1
<1> USE DEF HomeInv, TypeInv
<1>1. /\ req[r] # Idle /\ w \in Worker /\ id \in Screening /\ Free(w) /\ n \in Nat
      /\ Held(w, id) \in Record \cup {Absent} /\ id \in created
  BY JobOf, HeldType DEF EvaluateFetched, Ready, TypeOK, NotCreated
<1>2. /\ UpdateEvaluation(w, id, Held(w, id), n, n)
      /\ Begin(r, w, id, "storing", "evaluated", n, n, "store")
      /\ UNCHANGED <<created, file, db, answered>>
  BY DEF EvaluateFetched
<1>3. Held(w, id) # Absent => mem[w][id] # Absent \/ file[id] # Absent
  BY DEF Held
<1>4. /\ \A v \in Worker, i \in Screening :
           mem'[v][i] # Absent => mem[v][i] # Absent \/ file[i] # Absent
      /\ \A v \in Worker : saving'[v] # NoSave => mem'[v][saving'[v].id] # Absent
  BY <1>1, <1>2, <1>3, UpdateEvaluationHome
<1>5. \A q \in Request : req'[q] # Idle => req'[q].id \in created
  BY <1>1, <1>2 DEF Begin, TypeOK, NotCreated
<1> QED BY <1>2, <1>4, <1>5, HomeKept

LEMMA InterpretedHome ==
  ASSUME HomeInv, NEW r \in Request, Interpreted(r)
  PROVE  OneHome' /\ SavesMemory' /\ NotCreated'
<1> DEFINE w == req[r].worker
           id == req[r].id
           now == RecordNow(r)
<1> USE DEF HomeInv, TypeInv
<1>1. /\ req[r] # Idle /\ req[r] \in Job /\ w \in Worker /\ id \in Screening /\ Free(w)
      /\ req[r].pc = "llm" /\ req[r].cards \in Nat /\ req[r].regs \in Nat /\ id \in created
  BY JobOf DEF Interpreted, Ready, NotCreated
<1>2. UNCHANGED <<created, file, answered>> /\ req' = [req EXCEPT ![r].pc = "storing"]
  BY DEF Interpreted
<1>3. \A q \in Request : req'[q] # Idle => req'[q].id \in created
  BY <1>1, <1>2 DEF TypeOK, NotCreated, Job
<1>4. PICK text \in {req[r].cards, ErrorText} :
        \/ /\ req[r].source = "store"
           /\ UpdateEvaluation(w, id, [now EXCEPT !.text = text], now.cards, now.regs)
           /\ UNCHANGED db
        \/ /\ req[r].source = "detached"
           /\ UpdateEvaluation(w, id, Held(w, id), req[r].cards, req[r].regs)
           /\ UNCHANGED db
        \/ /\ req[r].source = "row"
           /\ db' \in {db, [db EXCEPT ![id].text = text]}
           /\ UNCHANGED <<mem, saving>>
  BY DEF Interpreted
<1>5. ASSUME NEW record \in Record \cup {Absent},
             record # Absent => mem[w][id] # Absent \/ file[id] # Absent,
             NEW cards \in Nat, NEW regs \in Nat,
             UpdateEvaluation(w, id, record, cards, regs), UNCHANGED db
      PROVE  OneHome' /\ SavesMemory' /\ NotCreated'
  <2>1. /\ \A v \in Worker, i \in Screening :
             mem'[v][i] # Absent => mem[v][i] # Absent \/ file[i] # Absent
        /\ \A v \in Worker : saving'[v] # NoSave => mem'[v][saving'[v].id] # Absent
    BY <1>1, <1>5, UpdateEvaluationHome
  <2> QED BY <1>2, <1>3, <1>5, <2>1, HomeKept
<1>6. CASE req[r].source = "store"
  <2>1. now \in Record /\ now # Absent /\ mem[w][id] # Absent
    BY <1>1, <1>6, SentinelsAssumption DEF HoldsRecord, TypeOK, RecordNow
  <2>2. [now EXCEPT !.text = text] \in Record /\ now.cards \in Nat /\ now.regs \in Nat
    BY <1>1, <1>4, <2>1 DEF Record, Text
  <2> QED BY <1>4, <1>5, <1>6, <2>1, <2>2
<1>7. CASE req[r].source = "detached"
  <2>1. Held(w, id) \in Record \cup {Absent}
    BY <1>1, HeldType
  <2>2. Held(w, id) # Absent => mem[w][id] # Absent \/ file[id] # Absent
    BY DEF Held
  <2> QED BY <1>1, <1>4, <1>5, <1>7, <2>1, <2>2
<1>8. CASE req[r].source = "row"
  <2>1. UNCHANGED <<mem, saving>> /\ \A i \in Screening : i # id => db'[i] = db[i]
    BY <1>4, <1>8 DEF TypeOK
  <2>2. db[id] # Absent
    BY <1>1, <1>8 DEF HoldsRecord
  <2>3. \A i \in Screening : db'[i] # Absent => db[i] # Absent
    BY <2>1, <2>2
  <2>4. \A v \in Worker : saving'[v] # NoSave => mem'[v][saving'[v].id] # Absent
    BY <2>1, SavingOf
  <2> QED BY <1>2, <1>3, <2>1, <2>3, <2>4, HomeKept
<1> QED BY <1>1, <1>6, <1>7, <1>8 DEF Job, Source

\* The steps of a request that leave the store alone.
LEMMA RequestHome ==
  ASSUME HomeInv, NEW r \in Request, Respond(r) \/ ViewFetched(r) \/ Deliver(r)
  PROVE  OneHome' /\ SavesMemory' /\ NotCreated'
<1> USE DEF HomeInv, TypeInv
<1>1. /\ req[r] \in Job /\ req[r] # Idle /\ req[r].id \in created
      /\ UNCHANGED <<created, mem, file, db, saving>>
  BY JobOf DEF Respond, ViewFetched, Deliver, store, Ready, NotCreated
<1>2. req' = [req EXCEPT ![r].pc = "done"] \/ req' = [req EXCEPT ![r] = Idle]
  BY DEF Respond, ViewFetched, Deliver
<1>3. \A q \in Request : req'[q] # Idle => req'[q].id \in created
  BY <1>1, <1>2 DEF TypeOK, Job, NotCreated
<1>4. \A i \in Screening : answered'[i] # answered[i] => i \in created
  BY <1>1 DEF Respond, ViewFetched, Deliver, history, TypeOK
<1>5. \A v \in Worker : saving'[v] # NoSave => mem'[v][saving'[v].id] # Absent
  BY <1>1, SavingOf
<1> QED BY <1>1, <1>3, <1>4, <1>5, HomeKept

LEMMA SaveHome ==
  ASSUME HomeInv, NEW w \in Worker,
         SaveOpen(w) \/ SaveWrite(w) \/ SaveFails(w) \/ Restart(w)
  PROVE  OneHome' /\ SavesMemory' /\ NotCreated'
<1> USE DEF HomeInv, TypeInv
<1>1. UNCHANGED <<created, db, answered>>
  BY DEF SaveOpen, SaveWrite, SaveFails, Restart, history
<1>2. \A q \in Request : req'[q] = req[q] \/ req'[q] = Idle
  BY DEF SaveOpen, SaveWrite, SaveFails, Restart
<1>3. \A q \in Request : req'[q] # Idle => req'[q].id \in created
  BY <1>2 DEF NotCreated
<1>4. CASE Restart(w)
  <2>1. UNCHANGED file /\ saving'[w] = NoSave
        /\ \A v \in Worker : v # w => saving'[v] = saving[v] /\ mem'[v] = mem[v]
    BY <1>4 DEF Restart, TypeOK
  <2>2. \A i \in Screening : mem'[w][i] = Absent
    BY <1>4 DEF Restart, TypeOK
  <2>3. \A v \in Worker, i \in Screening : mem'[v][i] # Absent => mem[v][i] # Absent
    BY <2>1, <2>2
  <2>4. \A v \in Worker : saving'[v] # NoSave => mem'[v][saving'[v].id] # Absent
    BY <2>1, SavingOf
  <2> QED BY <1>1, <1>3, <2>1, <2>3, <2>4, HomeKept
<1>5. CASE SaveOpen(w) \/ SaveWrite(w) \/ SaveFails(w)
  <2>1. UNCHANGED mem /\ saving[w] # NoSave
    BY <1>5 DEF SaveOpen, SaveWrite, SaveFails
  <2>2. saving[w].id \in Screening /\ mem[w][saving[w].id] # Absent
    BY <2>1, SavingOf
  <2>3. \A i \in Screening : i # saving[w].id => file'[i] = file[i]
    BY <1>5, <2>2 DEF SaveOpen, SaveWrite, SaveFails, TypeOK
  <2>4. \A i \in Screening :
          file'[i] # Absent => file[i] # Absent \/ \E v \in Worker : mem[v][i] # Absent
    BY <2>2, <2>3
  <2>5. /\ saving'[w] # NoSave => saving'[w].id = saving[w].id
        /\ \A v \in Worker : v # w => saving'[v] = saving[v]
    <3>1. saving' = [saving EXCEPT ![w] = NoSave]
          \/ saving' = [saving EXCEPT ![w] = [saving[w] EXCEPT !.opened = TRUE]]
      BY <1>5 DEF SaveOpen, SaveWrite, SaveFails
    <3>2. [saving[w] EXCEPT !.opened = TRUE].id = saving[w].id
      BY <2>1, SavingOf DEF Save
    <3> QED BY <3>1, <3>2 DEF TypeOK
  <2>6. \A v \in Worker : saving'[v] # NoSave => mem'[v][saving'[v].id] # Absent
    BY <2>1, <2>2, <2>5, SavingOf
  <2> QED BY <1>1, <1>3, <2>1, <2>4, <2>6, HomeKept
<1> QED BY <1>4, <1>5

LEMMA NextHome == HomeInv /\ [Next]_vars => HomeInv'
<1> SUFFICES ASSUME HomeInv, [Next]_vars PROVE OneHome' /\ SavesMemory' /\ NotCreated'
  BY NextTypeInv DEF HomeInv
<1>1. CASE UNCHANGED vars
  BY <1>1 DEF vars, HomeInv, OneHome, SavesMemory, NotCreated
<1> QED BY <1>1, CreateHome, LookupHome, CompareHome, ListHome, EvaluateFetchedHome, InterpretedHome,
           RequestHome, SaveHome DEF Next, Lookup

LEMMA InitHome == Init => HomeInv
BY InitTypeInv DEF Init, HomeInv, OneHome, SavesMemory, NotCreated

\* For any number of workers, and a database that comes and goes: a screening that has
\* a row is in no memory and in no file, so that no copy hides the row from get().
THEOREM OneHomeOnly == Spec => []OneHome
<1>1. HomeInv => OneHome
  BY DEF HomeInv
<1> QED BY <1>1, InitHome, NextHome, PTL DEF Spec

-----------------------------------------------------------------------------
(* No write takes back an evaluation *)

\* While the first write of a screening is under way, no other worker knows of it: a
\* request finds nothing and ends at once.
LEMMA NobodyElseFinds ==
  ASSUME HomeInv, NEW r \in Request, NEW w \in Worker, NEW id \in Screening,
         Lookup(r, w, id), Held(w, id) = Absent, db[id] = Absent
  PROVE  \E kind, cards, regs : Begin(r, w, id, "done", kind, cards, regs, "store")
<1>1. \A record \in Gets(w, id) : record = Absent
  BY DEF Gets, RowRecord
<1>2. ASSUME NEW force \in Forces, Evaluate(r, w, id, force)
      PROVE  Answer(r, w, id, "not found", 0, 0)
  BY <1>1, <1>2 DEF Evaluate
<1>3. CASE Read(r, w, id)
  BY <1>1, <1>3 DEF Read, Answer
<1>4. CASE GetRegulations(r, w, id)
  BY <1>1, <1>4 DEF GetRegulations, Answer
<1>5. CASE View(r, w, id)
  BY <1>1, <1>5 DEF View, Answer, NoCards
<1>6. CASE Interpret(r, w, id)
  BY <1>1, <1>6 DEF Interpret, Answer
<1> QED BY <1>2, <1>3, <1>4, <1>5, <1>6 DEF Lookup, Answer

\* A write of a record that is not evaluated, in a worker whose write and record a
\* step leaves alone, was one before the step.
LEMMA WritesNewBefore ==
  ASSUME NEW w \in Worker, NEW id \in Screening, WritesNew(w, id)',
         saving'[w] # NoSave => saving[w] # NoSave /\ saving'[w].id = saving[w].id,
         mem'[w][id] = mem[w][id]
  PROVE  WritesNew(w, id)
BY DEF WritesNew

\* A step after which a new screening is as unknown as before.
StillNew(w, id) ==
  /\ answered'[id] = answered[id]
  /\ \A v \in Worker \ {w} : mem'[v][id] = Absent
  /\ file'[id] \in {Absent, Torn}
  /\ \A r \in Request :
       req'[r] # Idle /\ req'[r].id = id =>
         req'[r] = req[r] \/ req'[r].pc = "done"

LEMMA FirstWriteKept ==
  ASSUME FirstWrite,
         \A w \in Worker, id \in Screening :
           WritesNew(w, id)' => WritesNew(w, id) /\ StillNew(w, id)
  PROVE  FirstWrite'
<1> SUFFICES ASSUME NEW w \in Worker, NEW id \in Screening, WritesNew(w, id)'
             PROVE  /\ answered'[id] = 0
                    /\ \A v \in Worker \ {w} : mem'[v][id] = Absent
                    /\ file'[id] \in {Absent, Torn}
                    /\ OnlyItsCreator(id)'
  BY DEF FirstWrite
<1>1. WritesNew(w, id) /\ StillNew(w, id)
  OBVIOUS
<1>2. answered[id] = 0 /\ OnlyItsCreator(id)
  BY <1>1 DEF FirstWrite
<1>3. OnlyItsCreator(id)'
  BY <1>1, <1>2 DEF OnlyItsCreator, StillNew
<1> QED BY <1>1, <1>2, <1>3 DEF StillNew

\* What FirstWrite says of a worker that is free, or in another write.
LEMMA OthersKnowNothing ==
  ASSUME SharedInv, NEW w \in Worker, NEW id \in Screening, WritesNew(w, id)
  PROVE  /\ ~Free(w) /\ db[id] = Absent
         /\ \A v \in Worker \ {w} : mem[v][id] = Absent /\ Held(v, id) = Absent
         /\ \A v \in Worker \ {w} : saving[v] # NoSave => saving[v].id # id
<1> USE DEF SharedInv
<1>1. ~Free(w) /\ mem[w][id] # Absent
  BY DEF WritesNew, Free, HomeInv, SavesMemory
<1>2. \A v \in Worker \ {w} : mem[v][id] = Absent /\ Held(v, id) = Absent
  BY DEF FirstWrite, Held
<1>3. \A v \in Worker \ {w} : saving[v] # NoSave => saving[v].id # id
  BY <1>2 DEF HomeInv, SavesMemory
<1>4. db[id] = Absent
  BY <1>1 DEF HomeInv, OneHome
<1> QED BY <1>1, <1>2, <1>3, <1>4

LEMMA LookupFirst ==
  ASSUME SharedInv, NEW r \in Request, NEW v \in Worker, NEW i \in Screening, Lookup(r, v, i)
  PROVE  FirstWrite'
<1> USE DEF SharedInv, HomeInv, TypeInv
<1>1. /\ CacheHeld(v, i) /\ Free(v)
      /\ UNCHANGED <<file, saving, answered>>
  BY LookupEffect
<1>2. PICK pc, kind, cards, regs, source : Begin(r, v, i, pc, kind, cards, regs, source)
  BY LookupEffect DEF Starts
<1>3. ASSUME NEW w \in Worker, NEW id \in Screening, WritesNew(w, id)'
      PROVE  WritesNew(w, id) /\ StillNew(w, id)
  <2>1. w # v
    BY <1>1, <1>3 DEF WritesNew, Free
  <2>2. mem'[w][id] = mem[w][id]
    BY <1>1, <2>1, CacheHeldEffect
  <2>3. WritesNew(w, id)
    BY <1>1, <1>3, <2>2, WritesNewBefore
  <2>4. \A u \in Worker \ {w} : mem'[u][id] = Absent
    BY <1>1, <2>3, CacheHeldEffect, OthersKnowNothing
  <2>5. file'[id] \in {Absent, Torn} /\ answered'[id] = answered[id]
    BY <1>1, <2>3 DEF FirstWrite
  <2>6. ASSUME NEW q \in Request, req'[q] # Idle, req'[q].id = id
        PROVE  req'[q] = req[q] \/ req'[q].pc = "done"
    <3>1. CASE q # r
      BY <1>2, <3>1 DEF Begin, TypeOK
    <3>2. CASE q = r
      <4>1. req'[r].id = i
        BY <1>2 DEF Begin, TypeOK
      <4>2. Held(v, i) = Absent /\ db[i] = Absent
        BY <2>1, <2>3, <2>6, <3>2, <4>1, OthersKnowNothing
      <4>3. PICK k, c, g : Begin(r, v, i, "done", k, c, g, "store")
        BY <4>2, NobodyElseFinds
      <4> QED BY <3>2, <4>3 DEF Begin, TypeOK
    <3> QED BY <3>1, <3>2
  <2> QED BY <2>3, <2>4, <2>5, <2>6 DEF StillNew
<1> QED BY <1>3, FirstWriteKept

LEMMA CompareFirst ==
  ASSUME SharedInv, NEW r \in Request, NEW v \in Worker, NEW i \in Screening, Compare(r, v, i)
  PROVE  FirstWrite'
<1> USE DEF SharedInv, HomeInv, TypeInv
<1>1. UNCHANGED <<mem, file, saving, answered>>
  BY CompareEffect
<1>2. PICK kind, cards, regs : Begin(r, v, i, "done", kind, cards, regs, "store")
  BY CompareEffect
<1>3. ASSUME NEW w \in Worker, NEW id \in Screening, WritesNew(w, id)'
      PROVE  WritesNew(w, id) /\ StillNew(w, id)
  <2>1. WritesNew(w, id)
    BY <1>1, <1>3 DEF WritesNew
  <2>2. \A q \in Request : req'[q] = req[q] \/ req'[q].pc = "done"
    BY <1>2 DEF Begin, TypeOK
  <2> QED BY <1>1, <2>1, <2>2 DEF StillNew, FirstWrite
<1> QED BY <1>3, FirstWriteKept

LEMMA ListFirst ==
  ASSUME SharedInv, NEW r \in Request, NEW v \in Worker, List(r, v)
  PROVE  FirstWrite'
<1> USE DEF SharedInv, HomeInv, TypeInv
<1>1. Free(v) /\ UNCHANGED <<file, saving, req, answered>>
  BY DEF List, history
<1>2. ASSUME NEW w \in Worker, NEW id \in Screening, WritesNew(w, id)'
      PROVE  WritesNew(w, id) /\ StillNew(w, id)
  <2>1. w # v
    BY <1>1, <1>2 DEF WritesNew, Free
  <2>2. mem'[w][id] = mem[w][id]
    BY <2>1, ListEffect
  <2>3. WritesNew(w, id)
    BY <1>1, <1>2, <2>2, WritesNewBefore
  <2>4. \A u \in Worker \ {w} : mem'[u][id] = Absent
    BY <2>3, ListEffect, OthersKnowNothing
  <2> QED BY <1>1, <2>3, <2>4 DEF StillNew, FirstWrite
<1> QED BY <1>2, FirstWriteKept

\* update_evaluation begins the write of an evaluated record.
LEMMA UpdateEvaluationFirst ==
  ASSUME SharedInv, NEW r \in Request, NEW v \in Worker, Free(v), NEW i \in Screening,
         req[r] # Idle, req[r].id = i, req[r].pc \notin {"done", "storing"},
         \A q \in Request \ {r} : req'[q] = req[q],
         req'[r] # Idle => req'[r].id = i,
         UNCHANGED <<file, answered>>,
         NEW record \in Record \cup {Absent}, NEW cards \in Nat, NEW regs \in Nat,
         UpdateEvaluation(v, i, record, cards, regs)
  PROVE  FirstWrite'
<1> USE DEF SharedInv, HomeInv, TypeInv
<1>1. \/ UNCHANGED <<mem, saving>>
      \/ \E new \in Record :
           new.status = "evaluated" /\ mem' = [mem EXCEPT ![v][i] = new] /\ StartSave(v, i)
  <2>1. CASE record = Absent
    BY <2>1 DEF UpdateEvaluation
  <2>2. CASE record # Absent
    BY <2>2, UpdateEvaluationStores
  <2> QED BY <2>1, <2>2
<1>2. ASSUME NEW w \in Worker, NEW id \in Screening, WritesNew(w, id)'
      PROVE  WritesNew(w, id) /\ StillNew(w, id)
  <2>1. w # v
    <3>1. CASE UNCHANGED <<mem, saving>>
      BY <1>2, <3>1 DEF WritesNew, Free
    <3>2. ASSUME NEW new \in Record, new.status = "evaluated",
                 mem' = [mem EXCEPT ![v][i] = new], StartSave(v, i)
          PROVE  w # v
      BY <1>2, <3>2 DEF WritesNew, StartSave, TypeOK
    <3> QED BY <1>1, <3>1, <3>2
  <2>2. mem'[w] = mem[w] /\ saving'[w] = saving[w]
    BY <1>1, <2>1 DEF StartSave, TypeOK
  <2>3. WritesNew(w, id)
    BY <1>2, <2>2, WritesNewBefore
  <2>4. id # i
    BY <2>3 DEF FirstWrite, OnlyItsCreator
  <2>5. \A u \in Worker : mem'[u][id] = mem[u][id]
    BY <1>1, <2>4 DEF TypeOK
  <2>6. \A u \in Worker \ {w} : mem'[u][id] = Absent
    BY <2>3, <2>5, OthersKnowNothing
  <2>7. \A q \in Request : req'[q] # Idle /\ req'[q].id = id => req'[q] = req[q]
    BY <2>4
  <2> QED BY <2>3, <2>6, <2>7 DEF StillNew, FirstWrite
<1> QED BY <1>2, FirstWriteKept

\* The first write of a screening is begun by the handler that makes it.
LEMMA CreateFirst ==
  ASSUME SharedInv, NEW r \in Request, NEW v \in Worker, NEW i \in Screening, Create(r, v, i)
  PROVE  FirstWrite'
<1> USE DEF SharedInv, HomeInv, TypeInv
<1>1. /\ i \notin created /\ req[r] = Idle /\ Free(v)
      /\ UNCHANGED <<file, answered>>
  BY DEF Create
<1>2. \A q \in Request : q # r => req'[q] = req[q]
  BY DEF Create, Answer, Begin, TypeOK
<1>3. req'[r].id = i /\ (req'[r].pc = "done" \/ (req'[r].pc = "storing" /\ req'[r].kind = "created"))
  <2>1. \/ Begin(r, v, i, "done", "created", 0, 0, "store")
        \/ Begin(r, v, i, "storing", "created", 0, 0, "store")
    BY DEF Create, Answer
  <2> QED BY <2>1 DEF Begin, TypeOK
<1>4. \/ UNCHANGED <<mem, saving>>
      \/ /\ mem' = [mem EXCEPT ![v][i] = NewRecord("completed")]
         /\ StartSave(v, i)
  BY DEF Create
<1>5. \A w \in Worker, id \in Screening : w # v \/ id # i => mem'[w][id] = mem[w][id]
  BY <1>4 DEF TypeOK
<1>6. \A w \in Worker : w # v => saving'[w] = saving[w]
  BY <1>4 DEF StartSave, TypeOK
<1>7. ASSUME NEW w \in Worker, NEW id \in Screening, WritesNew(w, id)', id # i
      PROVE  /\ answered'[id] = 0
             /\ \A u \in Worker \ {w} : mem'[u][id] = Absent
             /\ file'[id] \in {Absent, Torn}
             /\ OnlyItsCreator(id)'
  <2>1. saving'[w] = saving[w]
    BY <1>4, <1>6, <1>7 DEF WritesNew, StartSave, TypeOK
  <2>2. WritesNew(w, id)
    BY <1>5, <1>7, <2>1, WritesNewBefore
  <2>3. OnlyItsCreator(id)'
    BY <1>2, <1>3, <1>7, <2>2 DEF FirstWrite, OnlyItsCreator
  <2> QED BY <1>1, <1>5, <1>7, <2>2, <2>3 DEF FirstWrite
<1>8. ASSUME NEW w \in Worker, WritesNew(w, i)'
      PROVE  /\ answered'[i] = 0
             /\ \A u \in Worker \ {w} : mem'[u][i] = Absent
             /\ file'[i] \in {Absent, Torn}
             /\ OnlyItsCreator(i)'
  <2>1. /\ answered[i] = 0 /\ file[i] = Absent /\ \A u \in Worker : mem[u][i] = Absent
        /\ \A q \in Request : req[q] # Idle => req[q].id # i
    BY <1>1 DEF NotCreated
  <2>2. w = v
    <3> SUFFICES ASSUME w # v PROVE FALSE
      OBVIOUS
    <3>1. saving[w] # NoSave /\ saving[w].id = i
      BY <1>6, <1>8 DEF WritesNew
    <3> QED BY <2>1, <3>1 DEF SavesMemory
  <2>3. OnlyItsCreator(i)'
    BY <1>2, <1>3, <2>1 DEF OnlyItsCreator
  <2> QED BY <1>1, <1>5, <2>1, <2>2, <2>3
<1> QED BY <1>7, <1>8 DEF FirstWrite

LEMMA EvaluateFetchedFirst ==
  ASSUME SharedInv, NEW r \in Request, EvaluateFetched(r)
  PROVE  FirstWrite'
<1> DEFINE w == req[r].worker
           id == req[r].id
           n == evaluated[id] + 1
<1> USE DEF SharedInv, HomeInv, TypeInv
<1>1. /\ req[r] # Idle /\ req[r].pc = "fetching" /\ Free(w)
      /\ w \in Worker /\ id \in Screening /\ n \in Nat
      /\ Held(w, id) \in Record \cup {Absent}
  BY JobOf, HeldType DEF EvaluateFetched, Ready, TypeOK
<1>2. /\ UpdateEvaluation(w, id, Held(w, id), n, n)
      /\ Begin(r, w, id, "storing", "evaluated", n, n, "store")
      /\ UNCHANGED <<file, answered>>
  BY DEF EvaluateFetched
<1>3. req'[r].id = id /\ \A q \in Request \ {r} : req'[q] = req[q]
  BY <1>2 DEF Begin, TypeOK
<1> HIDE DEF w, id, n
<1>4. id = req[r].id
  BY DEF id
<1> QED BY <1>1, <1>2, <1>3, <1>4, UpdateEvaluationFirst

LEMMA InterpretedFirst ==
  ASSUME SharedInv, NEW r \in Request, Interpreted(r)
  PROVE  FirstWrite'
<1> DEFINE w == req[r].worker
           id == req[r].id
           now == RecordNow(r)
<1> USE DEF SharedInv, HomeInv, TypeInv
<1>1. /\ req[r] # Idle /\ req[r] \in Job /\ w \in Worker /\ id \in Screening /\ Free(w)
      /\ req[r].pc = "llm" /\ req[r].cards \in Nat /\ req[r].regs \in Nat
  BY JobOf DEF Interpreted, Ready
<1>2. UNCHANGED <<file, answered>> /\ req' = [req EXCEPT ![r].pc = "storing"]
  BY DEF Interpreted
<1>3. req'[r].id = id /\ \A q \in Request \ {r} : req'[q] = req[q]
  BY <1>1, <1>2 DEF TypeOK, Job
<1>4. PICK text \in {req[r].cards, ErrorText} :
        \/ /\ req[r].source = "store"
           /\ UpdateEvaluation(w, id, [now EXCEPT !.text = text], now.cards, now.regs)
        \/ /\ req[r].source = "detached"
           /\ UpdateEvaluation(w, id, Held(w, id), req[r].cards, req[r].regs)
        \/ /\ req[r].source = "row"
           /\ UNCHANGED <<mem, saving>>
  BY DEF Interpreted
<1>5. ASSUME NEW record \in Record \cup {Absent}, NEW cards \in Nat, NEW regs \in Nat,
             UpdateEvaluation(w, id, record, cards, regs)
      PROVE  FirstWrite'
  <2> HIDE DEF w, id, now
  <2>1. id = req[r].id
    BY DEF id
  <2> QED BY <1>1, <1>2, <1>3, <1>5, <2>1, UpdateEvaluationFirst
<1>6. CASE req[r].source = "store"
  <2>1. now \in Record
    BY <1>1, <1>6 DEF HoldsRecord, TypeOK, RecordNow
  <2>2. [now EXCEPT !.text = text] \in Record /\ now.cards \in Nat /\ now.regs \in Nat
    BY <1>1, <1>4, <2>1 DEF Record, Text
  <2> QED BY <1>4, <1>5, <1>6, <2>2
<1>7. CASE req[r].source = "detached"
  BY <1>1, <1>4, <1>5, <1>7, HeldType
<1>8. CASE req[r].source = "row"
  <2>1. ASSUME NEW v \in Worker, NEW i \in Screening, WritesNew(v, i)'
        PROVE  WritesNew(v, i) /\ StillNew(v, i)
    <3>1. WritesNew(v, i)
      BY <1>4, <1>8, <2>1 DEF WritesNew
    <3>2. i # id
      BY <1>1, <3>1 DEF FirstWrite, OnlyItsCreator
    <3> QED BY <1>2, <1>3, <1>4, <1>8, <3>1, <3>2 DEF StillNew, FirstWrite
  <2> QED BY <2>1, FirstWriteKept
<1> QED BY <1>1, <1>6, <1>7, <1>8 DEF Job, Source

\* A response that reports an evaluation is about a screening that is not new.
LEMMA RequestFirst ==
  ASSUME SharedInv, NEW r \in Request, Respond(r) \/ ViewFetched(r) \/ Deliver(r)
  PROVE  FirstWrite'
<1> USE DEF SharedInv, HomeInv, TypeInv
<1>1. UNCHANGED <<mem, file, saving>> /\ req[r] \in Job /\ req[r] # Idle
  BY JobOf DEF Respond, ViewFetched, Deliver, store, Ready
<1>2. ASSUME NEW v \in Worker, NEW i \in Screening, WritesNew(v, i)'
      PROVE  WritesNew(v, i) /\ StillNew(v, i)
  <2>1. WritesNew(v, i)
    BY <1>1, <1>2 DEF WritesNew
  <2>2. req[r].id = i => req[r].pc = "done" \/ req[r].kind = "created"
    BY <1>1, <2>1 DEF FirstWrite, OnlyItsCreator
  <2>3. answered'[i] = answered[i]
    BY <2>2 DEF Respond, Ready, ViewFetched, Deliver, history, TypeOK
  <2>4. \A q \in Request : req'[q] = req[q] \/ req'[q] = Idle \/ req'[q].pc = "done"
    <3>1. req' = [req EXCEPT ![r].pc = "done"] \/ req' = [req EXCEPT ![r] = Idle]
      BY DEF Respond, ViewFetched, Deliver
    <3> QED BY <1>1, <3>1 DEF TypeOK, Job
  <2> QED BY <1>1, <2>1, <2>3, <2>4 DEF StillNew, FirstWrite
<1> QED BY <1>2, FirstWriteKept

LEMMA SaveFirst ==
  ASSUME SharedInv, NEW v \in Worker,
         SaveOpen(v) \/ SaveWrite(v) \/ SaveFails(v) \/ Restart(v)
  PROVE  FirstWrite'
<1> USE DEF SharedInv, HomeInv, TypeInv
<1>1. UNCHANGED answered /\ \A q \in Request : req'[q] = req[q] \/ req'[q] = Idle
  BY DEF SaveOpen, SaveWrite, SaveFails, Restart, history
<1>2. ASSUME NEW w \in Worker, NEW id \in Screening, WritesNew(w, id)'
      PROVE  WritesNew(w, id) /\ StillNew(w, id)
  <2>1. /\ saving[w] # NoSave /\ saving'[w].id = saving[w].id
        /\ v = w => SaveOpen(w)
    <3>1. CASE v # w
      BY <1>2, <3>1 DEF SaveOpen, SaveWrite, SaveFails, Restart, WritesNew, TypeOK
    <3>2. CASE v = w
      <4>1. saving[w] # NoSave /\ SaveOpen(w)
        BY <1>2, <3>2 DEF SaveOpen, SaveWrite, SaveFails, Restart, WritesNew, TypeOK
      <4>2. saving[w] \in Save /\ saving'[w] = [saving[w] EXCEPT !.opened = TRUE]
        BY <4>1 DEF SaveOpen, TypeOK
      <4> QED BY <4>1, <4>2 DEF Save
    <3> QED BY <3>1, <3>2
  <2>2. mem'[w] = mem[w]
    BY <2>1 DEF SaveOpen, SaveWrite, SaveFails, Restart, TypeOK
  <2>3. WritesNew(w, id)
    BY <1>2, <2>1, <2>2, WritesNewBefore
  <2>4. \A u \in Worker \ {w} : mem'[u][id] = Absent
    BY <2>3, OthersKnowNothing DEF SaveOpen, SaveWrite, SaveFails, Restart, TypeOK
  <2>5. file'[id] \in {Absent, Torn}
    <3>1. CASE v = w
      BY <2>1, <2>3, <3>1 DEF SaveOpen, WritesNew, TypeOK, FirstWrite
    <3>2. CASE v # w
      <4>1. saving[v] # NoSave => saving[v].id # id
        BY <2>3, <3>2, OthersKnowNothing
      <4>2. file'[id] = file[id]
        BY <4>1 DEF SaveOpen, SaveWrite, SaveFails, Restart, TypeOK
      <4> QED BY <2>3, <4>2 DEF FirstWrite
    <3> QED BY <3>1, <3>2
  <2> QED BY <1>1, <2>3, <2>4, <2>5 DEF StillNew
<1> QED BY <1>2, FirstWriteKept

LEMMA NextShared == SharedInv /\ [Next]_vars => SharedInv'
<1> SUFFICES ASSUME SharedInv, [Next]_vars PROVE FirstWrite'
  BY NextHome DEF SharedInv
<1>1. CASE UNCHANGED vars
  BY <1>1 DEF vars, SharedInv, FirstWrite, WritesNew, OnlyItsCreator
<1> QED BY <1>1, CreateFirst, LookupFirst, CompareFirst, ListFirst, EvaluateFetchedFirst, InterpretedFirst,
           RequestFirst, SaveFirst DEF Next, Lookup

LEMMA InitShared == Init => SharedInv
BY InitHome DEF Init, SharedInv, FirstWrite, WritesNew

\* The one step that puts a record into a file.
LEMMA NoStepTakesBack ==
  ASSUME SharedInv, [Next]_vars, NEW id \in Screening, answered[id] > 0,
         file'[id] # file[id], file'[id] \notin {Absent, Torn}
  PROVE  file'[id].status = "evaluated"
<1> USE DEF SharedInv, HomeInv, TypeInv
<1>1. PICK w \in Worker : SaveOpen(w) \/ SaveWrite(w)
  <2>1. \A r \in Request, w \in Worker, i \in Screening :
          Create(r, w, i) \/ Lookup(r, w, i) \/ Compare(r, w, i) => UNCHANGED file
    BY LookupEffect, CompareEffect DEF Create
  <2>2. \A r \in Request :
          /\ EvaluateFetched(r) \/ Interpreted(r) => UNCHANGED file
          /\ Respond(r) \/ ViewFetched(r) \/ Deliver(r) => UNCHANGED file
          /\ \A w \in Worker : List(r, w) => UNCHANGED file
    BY DEF EvaluateFetched, Interpreted, Respond, ViewFetched, Deliver, List, store
  <2>3. \A w \in Worker : SaveFails(w) \/ Restart(w) => UNCHANGED file
    BY DEF SaveFails, Restart
  <2>4. Next
    BY DEF vars
  <2> QED BY <2>1, <2>2, <2>3, <2>4 DEF Next, Lookup
<1>2. SaveWrite(w) /\ saving[w] # NoSave /\ saving[w].id = id /\ file'[id] = mem[w][id]
  BY <1>1 DEF SaveOpen, SaveWrite, TypeOK
<1>3. ~WritesNew(w, id)
  BY DEF FirstWrite, TypeOK
<1> QED BY <1>2, <1>3 DEF WritesNew

\* For any number of workers, restarts inside a write, failing writes and a database
\* that comes and goes: no write returns a screening whose evaluation a client was
\* told of to the state before evaluation, not even that of a worker with an old copy.
THEOREM NeverTakenBack == Spec => NeverUnevaluated
<1>1. SharedInv /\ [Next]_vars =>
        [\A id \in Screening :
           answered[id] > 0 /\ file'[id] # file[id] /\ file'[id] \notin {Absent, Torn}
             => file'[id].status = "evaluated"]_vars
  BY NoStepTakesBack DEF vars
<1> QED BY <1>1, InitShared, NextShared, PTL DEF Spec, NeverUnevaluated
=============================================================================

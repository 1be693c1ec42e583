------------------------------ MODULE ReportIndex ------------------------------
(***************************************************************************)
(* services/report_rag.py: the vector index of the past assessment reports.*)
(* index_reports reads the extracted reports one file after another and    *)
(* adds the chunks the collection does not have; with overwrite it first   *)
(* deletes the collection and creates it anew.  Each process, the server's *)
(* workers and the script of the README, keeps a handle of the collection  *)
(* it has once opened.                                                     *)
(*                                                                         *)
(* Neither index_reports nor search awaits: within a process they exclude  *)
(* each other.  Processes interleave between the deletion and the making   *)
(* of the collection, and between the sections of a report; the chunks of  *)
(* one section are added in one step.                                      *)
(***************************************************************************)
EXTENDS Integers, Sequences

CONSTANTS
    Process,      \* what opens the index
    Reports,      \* the extracted files are 1..Reports, in the order of their names
    Heading,      \* "chapter__section" of a section
    Text,         \* the contents of sections
    ChunksOf,     \* [Text -> number of chunks it is cut into], 0 for an empty one
    Extracts,     \* what extraction may make of a report: sequences of sections
    MaxExtracts, MaxRebuilds, MaxRestarts,   \* bounds
    None

Report == 1..Reports
Section == [heading : Heading, text : Text]

ASSUME ReportsAssumption == Reports \in Nat
ASSUME ChunksAssumption  == ChunksOf \in [Text -> Nat]
ASSUME ExtractsAssumption == Extracts \subseteq Seq(Section)
ASSUME BoundsAssumption == MaxExtracts \in Nat /\ MaxRebuilds \in Nat /\ MaxRestarts \in Nat

ChunkId == Report \X Heading \X Nat
Chunk   == Text \X Nat
Run     == [step : {"create", "files"}, report : 1..(Reports + 1),
            sections : Extracts \cup {None}, done : Nat, calm : BOOLEAN, emptied : BOOLEAN]

ASSUME NoneAssumption == None \notin Process \cup ChunkId \cup Run

VARIABLES
    extracted,    \* [Report -> its sections, or None when its file cannot be read]
    current,      \* the number of the collection there is, 0 for none
    made,         \* collections made so far
    docs,         \* the collection: [chunk identifiers -> chunks]
    handle,       \* [Process -> the number of the collection it opened, 0 for none]
    ready,        \* [Process -> whether the embedding model is loaded, too]
    task,         \* [Process -> its run of index_reports, or None]
    builder,      \* history: the process that created the current collection
    told,         \* history: a run has ended that nothing disturbed
    afresh,       \* history: and it had begun with an empty collection
    extracts, rebuilds, restarts

vars == <<extracted, current, made, docs, handle, ready, task, builder, told, afresh,
          extracts, rebuilds, restarts>>

(* A chunk is identified by report, heading and number: sections of a report
   under the same heading have the same identifiers.                        *)
DocId(f, heading, i) == <<f, heading, i>>

Ids(f, section) == {DocId(f, section.heading, i) : i \in 1..ChunksOf[section.text]}
Chunks(f, section) == [id \in Ids(f, section) |-> <<section.text, id[3]>>]

MergedOver(old, new) ==                 \* mutant: no look at what there is
    [id \in DOMAIN old \cup DOMAIN new |-> IF id \in DOMAIN new THEN new[id] ELSE old[id]]

(* What the collection has is kept.                                         *)
Merged(old, new) ==
    [id \in DOMAIN old \cup DOMAIN new |-> IF id \in DOMAIN old THEN old[id] ELSE new[id]]

NoDocs == [id \in {} |-> <<>>]
Live(p) == handle[p] # 0 /\ handle[p] = current

Init ==
    /\ extracted \in [Report -> Extracts]
    /\ current = 0 /\ made = 0 /\ docs = NoDocs
    /\ handle = [p \in Process |-> 0]
    /\ ready = [p \in Process |-> FALSE]
    /\ task = [p \in Process |-> None]
    /\ builder = None
    /\ told = FALSE /\ afresh = FALSE
    /\ extracts = 0 /\ rebuilds = 0 /\ restarts = 0

-----------------------------------------------------------------------------
(* load, by every request until it has succeeded: the collection is opened or
   made; the embedding model may be missing.                                *)
Load(p) ==
    /\ ~ready[p] /\ task[p] = None
    /\ IF current = 0
       THEN /\ made' = made + 1 /\ current' = made'
            /\ builder' = p
       ELSE UNCHANGED <<made, current, builder>>
    /\ handle' = [handle EXCEPT ![p] = current']
    /\ \E model \in BOOLEAN : ready' = [ready EXCEPT ![p] = model]
    /\ UNCHANGED <<extracted, docs, task, told, afresh, extracts, rebuilds, restarts>>

(* index_reports: at begins a run, of the report whose turn it is, with the
   sections of its file once it is read, and the number of those done; calm
   says that nothing has disturbed the run.                                 *)
Begun(step, emptied) ==
    [step |-> step, report |-> 1, sections |-> None, done |-> 0,
     calm |-> TRUE, emptied |-> emptied]

Index(p) ==
    /\ task[p] = None /\ handle[p] # 0
    /\ task' = [task EXCEPT ![p] = Begun("files", FALSE)]
    /\ UNCHANGED <<extracted, current, made, docs, handle, ready, builder, told, afresh,
                   extracts, rebuilds, restarts>>

Disturbed(p, q) == IF task[q] = None \/ q = p THEN task[q] ELSE [task[q] EXCEPT !.calm = FALSE]

(* With overwrite.  Where another process has just deleted the collection the
   call raises, and the request ends.                                       *)
Delete(p) ==
    /\ task[p] = None /\ handle[p] # 0
    /\ rebuilds < MaxRebuilds
    /\ current # 0
    /\ rebuilds' = rebuilds + 1
    /\ current' = 0 /\ docs' = NoDocs
    /\ told' = FALSE /\ afresh' = FALSE
    /\ task' = [q \in Process |->
                  IF q = p THEN Begun("create", TRUE) ELSE Disturbed(p, q)]
    /\ UNCHANGED <<extracted, made, handle, ready, builder, extracts, restarts>>

CreateForOthers(p) ==                   \* mutant: the handle is not renewed
    /\ task[p] # None /\ task[p].step = "create"
    /\ current = 0
    /\ made' = made + 1 /\ current' = made'
    /\ builder' = p
    /\ task' = [task EXCEPT ![p].step = "files"]
    /\ UNCHANGED <<extracted, docs, handle, ready, told, afresh, extracts, rebuilds, restarts>>

CreateUncounted(p) ==                   \* mutant: a number is given again
    /\ task[p] # None /\ task[p].step = "create"
    /\ current = 0
    /\ current' = made + 1
    /\ handle' = [handle EXCEPT ![p] = current']
    /\ builder' = p
    /\ task' = [task EXCEPT ![p].step = "files"]
    /\ UNCHANGED <<extracted, made, docs, ready, told, afresh, extracts, rebuilds, restarts>>

Create(p) ==
    /\ task[p] # None /\ task[p].step = "create"
    /\ current = 0
    /\ made' = made + 1 /\ current' = made'
    /\ handle' = [handle EXCEPT ![p] = current']
    /\ builder' = p
    /\ task' = [task EXCEPT ![p].step = "files"]
    /\ UNCHANGED <<extracted, docs, ready, told, afresh, extracts, rebuilds, restarts>>

(* Another process has made one meanwhile: create_collection raises.        *)
CreateRefused(p) ==
    /\ task[p] # None /\ task[p].step = "create"
    /\ current # 0
    /\ task' = [task EXCEPT ![p] = None]
    /\ UNCHANGED <<extracted, current, made, docs, handle, ready, builder, told, afresh,
                   extracts, rebuilds, restarts>>

Running(p) == task[p] # None /\ task[p].step = "files" /\ task[p].report \in Report

Onward(t, calm) ==
    [t EXCEPT !.report = @ + 1, !.sections = None, !.done = 0, !.calm = @ /\ calm]

(* A file that cannot be read is passed over.                               *)
ReadFile(p) ==
    /\ Running(p) /\ task[p].sections = None
    /\ LET t == task[p] IN
        task' = [task EXCEPT ![p] =
                   IF extracted[t.report] = None THEN Onward(t, TRUE)
                   ELSE [t EXCEPT !.sections = extracted[t.report]]]
    /\ UNCHANGED <<extracted, current, made, docs, handle, ready, builder, told, afresh,
                   extracts, rebuilds, restarts>>

(* The chunks of one section.  Without the model nothing is added and nothing
   is said; with a handle of a deleted collection the calls raise, and the
   rest of the file is passed over.                                         *)
AddSection(p) ==
    /\ Running(p) /\ task[p].sections # None /\ task[p].done < Len(task[p].sections)
    /\ LET t == task[p]
           section == t.sections[t.done + 1]
           adds == Live(p) /\ ready[p]
       IN  /\ docs' = IF adds THEN Merged(docs, Chunks(t.report, section)) ELSE docs
           /\ task' = [task EXCEPT ![p] =
                         IF Live(p) \/ Ids(t.report, section) = {}
                         THEN [t EXCEPT !.done = @ + 1, !.calm = @ /\ adds]
                         ELSE Onward(t, FALSE)]
    /\ UNCHANGED <<extracted, current, made, handle, ready, builder, told, afresh,
                   extracts, rebuilds, restarts>>

EndFile(p) ==
    /\ Running(p) /\ task[p].sections # None /\ task[p].done = Len(task[p].sections)
    /\ task' = [task EXCEPT ![p] = Onward(task[p], TRUE)]
    /\ UNCHANGED <<extracted, current, made, docs, handle, ready, builder, told, afresh,
                   extracts, rebuilds, restarts>>

End(p) ==
    /\ task[p] # None /\ task[p].step = "files" /\ task[p].report \notin Report
    /\ told' = (told \/ task[p].calm)
    /\ afresh' = (afresh \/ (task[p].calm /\ task[p].emptied))
    /\ task' = [task EXCEPT ![p] = None]
    /\ UNCHANGED <<extracted, current, made, docs, handle, ready, builder,
                   extracts, rebuilds, restarts>>

(* The extraction script writes a report's file anew; one that is being
   written, or whose script was stopped, cannot be read.                    *)
Extract(f) ==
    /\ extracts < MaxExtracts
    /\ extracts' = extracts + 1
    /\ \E sections \in Extracts \cup {None} : extracted' = [extracted EXCEPT ![f] = sections]
    /\ told' = FALSE /\ afresh' = FALSE
    /\ task' = [q \in Process |-> Disturbed(None, q)]
    /\ UNCHANGED <<current, made, docs, handle, ready, builder, rebuilds, restarts>>

Restart(p) ==
    /\ restarts < MaxRestarts
    /\ restarts' = restarts + 1
    /\ handle' = [handle EXCEPT ![p] = 0]
    /\ ready' = [ready EXCEPT ![p] = FALSE]
    /\ task' = [task EXCEPT ![p] = None]
    /\ UNCHANGED <<extracted, current, made, docs, builder, told, afresh, extracts, rebuilds>>

Next ==
    \/ \E p \in Process :
        \/ Load(p)
        \/ Index(p)
        \/ Delete(p)
        \/ Create(p)
        \/ CreateRefused(p)
        \/ ReadFile(p)
        \/ AddSection(p)
        \/ EndFile(p)
        \/ End(p)
        \/ Restart(p)
    \/ \E f \in Report : Extract(f)

Spec == Init /\ [][Next]_vars

-----------------------------------------------------------------------------
(* search among the reports of a project type: an error when the handle is of
   a deleted collection, nothing without a collection or the model.         *)
Search(p, reports) ==
    IF handle[p] = 0 THEN {}
    ELSE IF ~Live(p) THEN {None}
         ELSE {id \in DOMAIN docs : ready[p] /\ id[1] \in reports}

(* query, draft_assist and get_stats.  Where nothing is found the answer is
   that the reports have to be indexed first, whatever the reason.          *)
Query(p, reports) ==
    LET found == Search(p, reports)
    IN  IF None \in found THEN "error" ELSE IF found = {} THEN "index first" ELSE "answer"

DraftAssist(p, reports) ==
    LET found == Search(p, reports)
    IN  IF None \in found THEN "error" ELSE IF found = {} THEN "unavailable" ELSE "reference"

Stats(p) ==
    IF handle[p] = 0 THEN "not_initialized"
    ELSE IF ~Live(p) THEN "error" ELSE IF docs = NoDocs THEN "empty" ELSE "ready"

(* TypeOK: the index, the runs and the handles have their shapes.           *)
TypeOK ==
    /\ extracted \in [Report -> Extracts \cup {None}]
    /\ made \in Nat /\ current \in 0..made
    /\ handle \in [Process -> 0..made]
    /\ ready \in [Process -> BOOLEAN]
    /\ DOMAIN docs \subseteq ChunkId /\ docs \in [DOMAIN docs -> Chunk]
    /\ task \in [Process -> Run \cup {None}]
    /\ told \in BOOLEAN /\ afresh \in BOOLEAN
    /\ extracts \in 0..MaxExtracts /\ rebuilds \in 0..MaxRebuilds /\ restarts \in 0..MaxRestarts

(* The process that made the collection can search it: only a rebuild by
   another leaves a process with a handle that fails (report_rag.py, the
   deleted collection).                                                     *)
RebuilderAnswers ==
    current # 0 =>
        \A p \in Process : builder = p /\ handle[p] # 0 =>
            "error" \notin {Query(p, Report), DraftAssist(p, Report), Stats(p)}

(* After a run that nothing disturbed whoever can search finds every report
   that can be read and has a text, and the index has all the identifiers of
   its chunks.  If the collection was made anew for the run it is what the
   reports say: each of its chunks is of the first section of a report that
   has the identifier, and of the report as it is extracted now.            *)
Wanted(f, k) == Chunks(f, extracted[f][k])

IsOf(f, id) ==
    \E k \in 1..Len(extracted[f]) :
        /\ id \in DOMAIN Wanted(f, k) /\ docs[id] = Wanted(f, k)[id]
        /\ \A j \in 1..(k - 1) : id \notin DOMAIN Wanted(f, j)

IndexTellsTheReports ==
    /\ told =>
          \A f \in Report : extracted[f] # None =>
              \A k \in 1..Len(extracted[f]) :
                  /\ DOMAIN Wanted(f, k) \subseteq DOMAIN docs
                  /\ DOMAIN Wanted(f, k) # {} =>
                        \A p \in Process : ready[p] /\ Live(p) => Query(p, {f}) = "answer"
    /\ afresh =>
          \A id \in DOMAIN docs : \E f \in Report : extracted[f] # None /\ IsOf(f, id)

-----------------------------------------------------------------------------
(* What the documentation states and the code does not have: with overwrite
   the extracted text is indexed (README.md, "RAG").  Of two sections of a
   report under one heading the second is passed over.                      *)
IndexHasTheText ==
    afresh =>
        \A f \in Report : extracted[f] # None =>
            \A k \in 1..Len(extracted[f]) :
                \A id \in DOMAIN Wanted(f, k) : docs[id] = Wanted(f, k)[id]
=============================================================================

--------------------------- MODULE ReportIndexProofs ---------------------------
(***************************************************************************)
(* Theorems about ReportIndex, for any number of processes, reports and    *)
(* sections.                                                               *)
(***************************************************************************)
EXTENDS ReportIndex, TLAPS

-----------------------------------------------------------------------------
(* Chunks and runs *)

LEMMA IdsType ==
  ASSUME NEW f \in Report, NEW section \in Section
  PROVE  /\ Ids(f, section) \subseteq ChunkId
         /\ \A id \in Ids(f, section) : id[1] = f /\ id[2] = section.heading /\ id[3] \in Nat
<1>1. section.heading \in Heading /\ ChunksOf[section.text] \in Nat
  BY ChunksAssumption DEF Section
<1> QED BY <1>1 DEF Ids, DocId, ChunkId

LEMMA ChunksType ==
  ASSUME NEW f \in Report, NEW section \in Section
  PROVE  /\ DOMAIN Chunks(f, section) = Ids(f, section)
         /\ Chunks(f, section) \in [Ids(f, section) -> Chunk]
         /\ \A id \in Ids(f, section) : Chunks(f, section)[id] = <<section.text, id[3]>>
<1>1. section.text \in Text
  BY DEF Section
<1>2. \A id \in Ids(f, section) : <<section.text, id[3]>> \in Chunk
  BY <1>1, IdsType DEF Chunk
<1> QED BY <1>2 DEF Chunks

\* Adding keeps what there is.
LEMMA MergedEffect ==
  ASSUME NEW old, NEW new
  PROVE  /\ DOMAIN Merged(old, new) = DOMAIN old \cup DOMAIN new
         /\ \A id \in DOMAIN old : Merged(old, new)[id] = old[id]
         /\ \A id \in DOMAIN new \ DOMAIN old : Merged(old, new)[id] = new[id]
BY DEF Merged

LEMMA MergedType ==
  ASSUME NEW old, old \in [DOMAIN old -> Chunk], NEW new, new \in [DOMAIN new -> Chunk]
  PROVE  Merged(old, new) \in [DOMAIN Merged(old, new) -> Chunk]
BY DEF Merged

LEMMA RunOf ==
  ASSUME TypeOK, NEW p \in Process, task[p] # None
  PROVE  /\ task[p] \in Run /\ task[p].report \in 1..(Reports + 1) /\ task[p].done \in Nat
         /\ task[p].sections \in Extracts \cup {None} /\ task[p].calm \in BOOLEAN
BY DEF TypeOK, Run

\* The sections a run has read.
LEMMA SectionsOf ==
  ASSUME TypeOK, NEW p \in Process, task[p] # None, task[p].sections # None
  PROVE  /\ task[p].sections \in Seq(Section) /\ Len(task[p].sections) \in Nat
         /\ \A k \in 1..Len(task[p].sections) : task[p].sections[k] \in Section
<1>1. task[p].sections \in Seq(Section)
  BY RunOf, ExtractsAssumption
<1> QED BY <1>1

LEMMA OnwardEffect ==
  ASSUME NEW t \in Run, t.report \in Report, NEW calm \in BOOLEAN
  PROVE  /\ Onward(t, calm) \in Run /\ Onward(t, calm) # None
         /\ Onward(t, calm).step = t.step /\ Onward(t, calm).report = t.report + 1
         /\ Onward(t, calm).sections = None /\ Onward(t, calm).done = 0
         /\ (Onward(t, calm).calm <=> t.calm /\ calm)
         /\ Onward(t, calm).emptied = t.emptied
<1>1. t.report + 1 \in 1..(Reports + 1)
  BY ReportsAssumption DEF Report
<1>2. Onward(t, calm) \in Run
  BY <1>1 DEF Onward, Run
<1> QED BY <1>2, NoneAssumption DEF Onward, Run

LEMMA BegunType ==
  ASSUME NEW step \in {"create", "files"}, NEW emptied \in BOOLEAN
  PROVE  Begun(step, emptied) \in Run /\ Begun(step, emptied) # None
<1>1. 1 \in 1..(Reports + 1)
  BY ReportsAssumption
<1>2. Begun(step, emptied) \in Run
  BY <1>1 DEF Begun, Run
<1> QED BY <1>2, NoneAssumption

\* A disturbed run is not calm, and otherwise what it was.
LEMMA DisturbedEffect ==
  ASSUME TypeOK, NEW p, NEW q \in Process
  PROVE  /\ Disturbed(p, q) \in Run \cup {None}
         /\ task[q] = None <=> Disturbed(p, q) = None
         /\ task[q] # None =>
              /\ Disturbed(p, q).step = task[q].step /\ Disturbed(p, q).report = task[q].report
              /\ Disturbed(p, q).sections = task[q].sections
              /\ Disturbed(p, q).done = task[q].done
              /\ q # p => ~Disturbed(p, q).calm
<1>1. CASE task[q] = None \/ q = p
  BY <1>1 DEF Disturbed, TypeOK
<1>2. CASE task[q] # None /\ q # p
  <2>1. task[q] \in Run
    BY <1>2, RunOf
  <2>2. Disturbed(p, q) = [task[q] EXCEPT !.calm = FALSE]
    BY <1>2 DEF Disturbed
  <2>3. [task[q] EXCEPT !.calm = FALSE] \in Run
    BY <2>1 DEF Run
  <2> QED BY <1>2, <2>1, <2>2, <2>3, NoneAssumption DEF Run
<1> QED BY <1>1, <1>2

-----------------------------------------------------------------------------
(* Types *)

LEMMA InitType == Init => TypeOK
<1> SUFFICES ASSUME Init PROVE TypeOK
  OBVIOUS
<1>1. /\ DOMAIN docs = {} /\ docs \in [DOMAIN docs -> Chunk]
      /\ extracted \in [Report -> Extracts \cup {None}]
  BY DEF Init, NoDocs
<1>2. task \in [Process -> Run \cup {None}] /\ ready \in [Process -> BOOLEAN]
  BY DEF Init
<1>3. handle \in [Process -> 0..made] /\ made \in Nat /\ current \in 0..made
  BY DEF Init
<1>4. extracts = 0 /\ rebuilds = 0 /\ restarts = 0 /\ told \in BOOLEAN /\ afresh \in BOOLEAN
  BY DEF Init
<1>5. extracts \in 0..MaxExtracts /\ rebuilds \in 0..MaxRebuilds /\ restarts \in 0..MaxRestarts
  BY <1>4, BoundsAssumption
<1> QED BY <1>1, <1>2, <1>3, <1>4, <1>5 DEF TypeOK

LEMMA RunNextType ==
  ASSUME TypeOK, NEW p \in Process,
         \/ Index(p) \/ CreateRefused(p) \/ ReadFile(p) \/ AddSection(p) \/ EndFile(p) \/ End(p)
  PROVE  TypeOK'
<1>1. CASE Index(p)
  BY <1>1, BegunType DEF Index, TypeOK
<1>2. CASE CreateRefused(p)
  BY <1>2 DEF CreateRefused, TypeOK
<1>3. CASE ReadFile(p)
  <2>1. task[p] \in Run /\ task[p].report \in Report
    BY <1>3, RunOf DEF ReadFile, Running
  <2>2. extracted[task[p].report] \in Extracts \cup {None}
    BY <2>1 DEF TypeOK
  <2>3. [task[p] EXCEPT !.sections = extracted[task[p].report]] \in Run
    BY <2>1, <2>2 DEF Run
  <2>4. \E new \in Run : task' = [task EXCEPT ![p] = new]
    BY <1>3, <2>1, <2>3, OnwardEffect DEF ReadFile
  <2> QED BY <1>3, <2>4 DEF ReadFile, TypeOK
<1>4. CASE AddSection(p)
  <2> DEFINE t == task[p]
             section == t.sections[t.done + 1]
             adds == Live(p) /\ ready[p]
  <2>1. t \in Run /\ t.report \in Report /\ t.done \in Nat
    BY <1>4, RunOf DEF AddSection, Running
  <2>2. section \in Section
    BY <1>4, <2>1, SectionsOf DEF AddSection, Running
  <2>3. adds \in BOOLEAN
    BY DEF TypeOK, Live
  <2>4. [t EXCEPT !.done = @ + 1, !.calm = @ /\ adds] \in Run
    <3>1. (t.calm /\ adds) \in BOOLEAN /\ t.done + 1 \in Nat
      BY <2>1
    <3> HIDE DEF adds, t
    <3> QED BY <2>1, <3>1 DEF Run
  <2>5. \E new \in Run : task' = [task EXCEPT ![p] = new]
    <3>1. \/ task' = [task EXCEPT ![p] = [t EXCEPT !.done = @ + 1, !.calm = @ /\ adds]]
          \/ task' = [task EXCEPT ![p] = Onward(t, FALSE)]
      BY <1>4 DEF AddSection
    <3> HIDE DEF t, adds
    <3> QED BY <2>1, <2>4, <3>1, OnwardEffect
  <2>6. docs' = docs \/ docs' = Merged(docs, Chunks(t.report, section))
    BY <1>4 DEF AddSection
  <2>7. DOMAIN docs' \subseteq ChunkId /\ docs' \in [DOMAIN docs' -> Chunk]
    <3>1. DOMAIN docs \subseteq ChunkId /\ docs \in [DOMAIN docs -> Chunk]
      BY DEF TypeOK
    <3> DEFINE new == Chunks(t.report, section)
    <3>2. DOMAIN new \subseteq ChunkId /\ new \in [DOMAIN new -> Chunk]
      <4> HIDE DEF t, section
      <4> QED BY <2>1, <2>2, IdsType, ChunksType
    <3>3. docs' = docs \/ docs' = Merged(docs, new)
      BY <2>6
    <3> HIDE DEF new
    <3>4. /\ DOMAIN Merged(docs, new) \subseteq ChunkId
          /\ Merged(docs, new) \in [DOMAIN Merged(docs, new) -> Chunk]
      BY <3>1, <3>2, MergedEffect, MergedType
    <3> QED BY <3>1, <3>3, <3>4
  <2> QED BY <1>4, <2>5, <2>7 DEF AddSection, TypeOK
<1>5. CASE EndFile(p)
  <2>1. task[p] \in Run /\ task[p].report \in Report
    BY <1>5, RunOf DEF EndFile, Running
  <2> QED BY <1>5, <2>1, OnwardEffect DEF EndFile, TypeOK
<1>6. CASE End(p)
  <2>1. told' \in BOOLEAN /\ afresh' \in BOOLEAN
    BY <1>6 DEF End, TypeOK
  <2> QED BY <1>6, <2>1 DEF End, TypeOK
<1> QED BY <1>1, <1>2, <1>3, <1>4, <1>5, <1>6
LEMMA IndexNextType ==
  ASSUME TypeOK, Next
  PROVE  TypeOK'
<1>1. ASSUME NEW p \in Process, Load(p) PROVE TypeOK'
  <2>1. made' \in Nat /\ made <= made' /\ current' \in 0..made'
    BY <1>1 DEF Load, TypeOK
  <2>2. \A n \in 0..made : n \in 0..made'
    BY <2>1 DEF TypeOK
  <2>3. handle' \in [Process -> 0..made']
    BY <1>1, <2>1, <2>2 DEF Load, TypeOK
  <2> QED BY <1>1, <2>1, <2>3 DEF Load, TypeOK
<1>2. ASSUME NEW p \in Process, Delete(p) PROVE TypeOK'
  <2>1. task' \in [Process -> Run \cup {None}]
    BY <1>2, BegunType, DisturbedEffect DEF Delete
  <2>2. DOMAIN docs' = {} /\ docs' \in [DOMAIN docs' -> Chunk]
    BY <1>2 DEF Delete, NoDocs
  <2>3. rebuilds' \in 0..MaxRebuilds
    BY <1>2, BoundsAssumption DEF Delete, TypeOK
  <2>4. current' \in 0..made' /\ made' \in Nat /\ handle' \in [Process -> 0..made']
    BY <1>2 DEF Delete, TypeOK
  <2>5. told' \in BOOLEAN /\ afresh' \in BOOLEAN
    BY <1>2 DEF Delete
  <2>6. UNCHANGED <<extracted, ready, extracts, restarts>>
    BY <1>2 DEF Delete
  <2>7. DOMAIN docs' \subseteq ChunkId
    BY <2>2
  <2> QED BY <2>1, <2>2, <2>3, <2>4, <2>5, <2>6, <2>7 DEF TypeOK
<1>3. ASSUME NEW p \in Process, Create(p) PROVE TypeOK'
  <2>1. made' = made + 1 /\ current' = made'
    BY <1>3 DEF Create
  <2>2. handle' \in [Process -> 0..made']
    <3>1. \A n \in 0..made : n \in 0..made'
      BY <2>1 DEF TypeOK
    <3>2. made' \in 0..made'
      BY <2>1 DEF TypeOK
    <3> QED BY <1>3, <2>1, <3>1, <3>2 DEF Create, TypeOK
  <2>3. [task[p] EXCEPT !.step = "files"] \in Run
    BY <1>3, RunOf DEF Create, Run
  <2> QED BY <1>3, <2>1, <2>2, <2>3 DEF Create, TypeOK
<1>4. ASSUME NEW p \in Process, Restart(p) PROVE TypeOK'
  BY <1>4, BoundsAssumption DEF Restart, TypeOK
<1>5. ASSUME NEW f \in Report, Extract(f) PROVE TypeOK'
  <2>1. task' \in [Process -> Run \cup {None}]
    BY <1>5, DisturbedEffect DEF Extract
  <2>2. extracts' \in 0..MaxExtracts
    BY <1>5, BoundsAssumption DEF Extract, TypeOK
  <2> QED BY <1>5, <2>1, <2>2 DEF Extract, TypeOK
<1> QED BY <1>1, <1>2, <1>3, <1>4, <1>5, RunNextType DEF Next

LEMMA TypeStep == TypeOK /\ [Next]_vars => TypeOK'
<1>1. TypeOK /\ UNCHANGED vars => TypeOK'
  BY DEF vars, TypeOK
<1> QED BY <1>1, IndexNextType

\* The index, the runs and the handles keep their shapes through every interleaving of
\* runs, rebuilds, extractions and restarts.
THEOREM TypeCorrect == Spec => []TypeOK
BY InitType, TypeStep, PTL DEF Spec

-----------------------------------------------------------------------------
(* The rebuilder answers *)

\* The process that made the collection that is there has it open, or has started anew.
MakerHasIt == current # 0 => \A p \in Process : builder = p /\ handle[p] # 0 => handle[p] = current

RebuilderInv == TypeOK /\ MakerHasIt

LEMMA RebuilderImplies == RebuilderInv => RebuilderAnswers
<1> SUFFICES ASSUME RebuilderInv, current # 0, NEW p \in Process, builder = p, handle[p] # 0
             PROVE  "error" \notin {Query(p, Report), DraftAssist(p, Report), Stats(p)}
  BY DEF RebuilderAnswers
<1>1. Live(p)
  BY DEF RebuilderInv, MakerHasIt, Live
<1>2. None \notin Search(p, Report)
  BY <1>1, NoneAssumption DEF Search, RebuilderInv, TypeOK
<1>3. Query(p, Report) # "error" /\ DraftAssist(p, Report) # "error"
  BY <1>2 DEF Query, DraftAssist
<1>4. Stats(p) # "error"
  BY <1>1 DEF Stats
<1> QED BY <1>3, <1>4

LEMMA RebuilderStep == RebuilderInv /\ [Next]_vars => RebuilderInv'
<1> SUFFICES ASSUME RebuilderInv, [Next]_vars PROVE MakerHasIt'
  BY TypeStep DEF RebuilderInv
<1> USE DEF RebuilderInv
<1>1. ASSUME UNCHANGED <<current, builder, handle>> PROVE MakerHasIt'
  BY <1>1 DEF MakerHasIt
<1>2. ASSUME NEW p \in Process, Load(p) PROVE MakerHasIt'
  <2>1. handle'[p] = current' /\ \A q \in Process : q # p => handle'[q] = handle[q]
    BY <1>2 DEF Load, TypeOK
  <2>2. current = 0 => builder' = p
    BY <1>2 DEF Load
  <2>3. current # 0 => current' = current /\ builder' = builder
    BY <1>2 DEF Load
  <2> QED BY <2>1, <2>2, <2>3 DEF MakerHasIt
<1>3. ASSUME NEW p \in Process, Delete(p) PROVE MakerHasIt'
  BY <1>3 DEF Delete, MakerHasIt
<1>4. ASSUME NEW p \in Process, Create(p) PROVE MakerHasIt'
  BY <1>4 DEF Create, MakerHasIt, TypeOK
<1>5. ASSUME NEW p \in Process, Restart(p) PROVE MakerHasIt'
  BY <1>5 DEF Restart, MakerHasIt, TypeOK
<1>6. ASSUME NEW p \in Process,
             \/ Index(p) \/ CreateRefused(p) \/ ReadFile(p) \/ AddSection(p) \/ EndFile(p) \/ End(p)
      PROVE  MakerHasIt'
  BY <1>1, <1>6 DEF Index, CreateRefused, ReadFile, AddSection, EndFile, End
<1>7. ASSUME NEW f \in Report, Extract(f) PROVE MakerHasIt'
  BY <1>1, <1>7 DEF Extract
<1>8. CASE UNCHANGED vars
  BY <1>1, <1>8 DEF vars
<1> QED BY <1>2, <1>3, <1>4, <1>5, <1>6, <1>7, <1>8 DEF Next

\* The process that made the collection can search it and draft with it: a handle fails
\* only after another process has rebuilt the index.
THEOREM OnlyAnotherRebuildFails == Spec => []RebuilderAnswers
<1>1. Init => RebuilderInv
  BY InitType DEF Init, RebuilderInv, MakerHasIt
<1> QED BY <1>1, RebuilderStep, RebuilderImplies, PTL DEF Spec
-----------------------------------------------------------------------------
(* The index tells the reports *)

\* The index has the chunks of a report, and of the sections a run is past.
Complete(f) ==
  extracted[f] # None =>
    \A k \in 1..Len(extracted[f]) : Ids(f, extracted[f][k]) \subseteq DOMAIN docs
Added(p) ==
  \A k \in 1..task[p].done : Ids(task[p].report, task[p].sections[k]) \subseteq DOMAIN docs

Reading(p) == task[p] # None /\ task[p].sections # None
AsExtracted(p) == task[p].sections = extracted[task[p].report]

RunShape(p) ==
  /\ task[p] # None /\ task[p].sections = None => task[p].done = 0
  /\ Reading(p) =>
       task[p].done <= Len(task[p].sections) /\ task[p].report \in Report /\ task[p].step = "files"
  /\ task[p] # None /\ task[p].step = "create" => task[p].report = 1

\* What a run that nothing disturbed has behind it, and what one does that can write.
CalmTells(p) ==
  task[p] # None /\ task[p].calm /\ task[p].step = "files" =>
    /\ \A f \in Report : f < task[p].report => Complete(f)
    /\ Reading(p) => AsExtracted(p) /\ Added(p)
LiveAdds(p) == Reading(p) /\ Live(p) /\ ready[p] => Added(p)

\* The collection was made for a run that goes on undisturbed, or for one that has ended so:
\* nobody who can write has read anything else than what is extracted.
Anew(p) == task[p] # None /\ task[p].calm /\ task[p].emptied /\ task[p].step = "files"
Fresh == afresh \/ \E p \in Process : Anew(p)
ReadsAsIs(p) == Reading(p) /\ Live(p) => AsExtracted(p)
Faithful == \A id \in DOMAIN docs : \E f \in Report : extracted[f] # None /\ IsOf(f, id)

RunsInv  == \A p \in Process : RunShape(p) /\ CalmTells(p) /\ LiveAdds(p)
ToldInv  == (told => \A f \in Report : Complete(f)) /\ (afresh => told)
FreshInv == Fresh => (\A p \in Process : ReadsAsIs(p)) /\ Faithful
TellsInv == TypeOK /\ (current = 0 => docs = NoDocs) /\ RunsInv /\ ToldInv /\ FreshInv

LEMMA OnwardQuietly ==
  ASSUME NEW t \in Run, t.report \in Report, NEW new, new = Onward(t, TRUE)
  PROVE  /\ new.step = t.step /\ new.report = t.report + 1 /\ new.sections = None
         /\ new.done = 0 /\ new.calm = t.calm /\ new.emptied = t.emptied /\ new # None
<1>1. Onward(t, TRUE).calm = (t.calm /\ TRUE)
  BY DEF Onward, Run
<1>2. (t.calm /\ TRUE) = t.calm
  BY DEF Run
<1>3. TRUE \in BOOLEAN
  OBVIOUS
<1> QED BY <1>1, <1>2, <1>3, OnwardEffect

LEMMA OnwardDisturbed ==
  ASSUME NEW t \in Run, t.report \in Report, NEW new, new = Onward(t, FALSE)
  PROVE  new.step = t.step /\ new.sections = None /\ new.done = 0 /\ ~new.calm
<1>1. Onward(t, FALSE).calm = (t.calm /\ FALSE)
  BY DEF Onward, Run
<1>2. FALSE \in BOOLEAN
  OBVIOUS
<1> QED BY <1>1, <1>2, OnwardEffect

\* A run of no one.
LEMMA NoRun ==
  ASSUME NEW p \in Process, task'[p] = None
  PROVE  RunShape(p)' /\ CalmTells(p)' /\ LiveAdds(p)' /\ ReadsAsIs(p)' /\ ~Anew(p)'
BY DEF RunShape, CalmTells, LiveAdds, ReadsAsIs, Reading, Anew

\* Chunks that are added leave a report complete.
LEMMA CompleteStays ==
  ASSUME NEW f \in Report, Complete(f), extracted' = extracted, DOMAIN docs \subseteq DOMAIN docs'
  PROVE  Complete(f)'
BY DEF Complete

\* The steps of others.
LEMMA Bystander ==
  ASSUME TypeOK, NEW q \in Process, RunShape(q), CalmTells(q), LiveAdds(q),
         task'[q] = task[q], ready'[q] = ready[q], Live(q)' => Live(q),
         extracted' = extracted, DOMAIN docs \subseteq DOMAIN docs'
  PROVE  RunShape(q)' /\ CalmTells(q)' /\ LiveAdds(q)'
<1>1. RunShape(q)'
  BY DEF RunShape, Reading
<1>2. Added(q) => Added(q)'
  BY DEF Added
<1>3. CalmTells(q)'
  <2> SUFFICES ASSUME task[q] # None, task[q].calm, task[q].step = "files"
               PROVE  /\ \A f \in Report : f < task[q].report => Complete(f)'
                      /\ Reading(q)' => AsExtracted(q)' /\ Added(q)'
    BY DEF CalmTells
  <2>1. \A f \in Report : f < task[q].report => Complete(f)'
    BY CompleteStays DEF CalmTells
  <2>2. Reading(q)' => AsExtracted(q)' /\ Added(q)'
    BY <1>2 DEF CalmTells, Reading, AsExtracted
  <2> QED BY <2>1, <2>2
<1>4. LiveAdds(q)'
  BY <1>2 DEF LiveAdds, Reading
<1> QED BY <1>1, <1>3, <1>4

\* A run that a deletion or an extraction disturbs: it has nothing to tell any more.
LEMMA DisturbedRun ==
  ASSUME TypeOK, NEW p, NEW q \in Process, q # p, RunShape(q), LiveAdds(q),
         task'[q] = Disturbed(p, q),
         Live(q)' => Live(q) /\ ready'[q] = ready[q] /\ docs' = docs
  PROVE  RunShape(q)' /\ CalmTells(q)' /\ LiveAdds(q)' /\ ~Anew(q)'
<1>1. CASE task[q] = None
  BY <1>1, DisturbedEffect, NoRun
<1>2. CASE task[q] # None
  <2>1. /\ task'[q] # None /\ task'[q].step = task[q].step /\ task'[q].report = task[q].report
        /\ task'[q].sections = task[q].sections /\ task'[q].done = task[q].done
        /\ ~task'[q].calm
    BY <1>2, DisturbedEffect
  <2>2. RunShape(q)'
    BY <1>2, <2>1 DEF RunShape, Reading
  <2>3. CalmTells(q)' /\ ~Anew(q)'
    BY <2>1 DEF CalmTells, Anew
  <2>4. LiveAdds(q)'
    BY <1>2, <2>1 DEF LiveAdds, Reading, Added
  <2> QED BY <2>2, <2>3, <2>4
<1> QED BY <1>1, <1>2

\* What is of a report stays so while its chunk is kept.
LEMMA OfStays ==
  ASSUME NEW f \in Report, NEW id, IsOf(f, id), extracted' = extracted, docs'[id] = docs[id]
  PROVE  IsOf(f, id)'
BY DEF IsOf, Wanted

LEMMA FaithfulStays ==
  ASSUME Faithful, UNCHANGED <<extracted, docs>>
  PROVE  Faithful'
BY OfStays DEF Faithful

LEMMA FreshFrom ==
  ASSUME NEW p \in Process, afresh' = afresh, \A q \in Process \ {p} : task'[q] = task[q], Fresh'
  PROVE  Fresh \/ Anew(p)'
BY DEF Fresh, Anew

\* A step of p that leaves the documents as they are.
LEMMA QuietStep ==
  ASSUME TellsInv, TypeOK', NEW p \in Process, UNCHANGED <<extracted, docs, told, afresh>>,
         current' = 0 => current = 0,
         \A q \in Process \ {p} :
            task'[q] = task[q] /\ ready'[q] = ready[q] /\ (Live(q)' => Live(q)),
         RunShape(p)', CalmTells(p)', LiveAdds(p)', ReadsAsIs(p)' \/ ~Fresh',
         Anew(p)' => \/ Anew(p)
                     \/ docs = NoDocs /\ \A q \in Process \ {p} : ~Live(q)'
  PROVE  TellsInv'
<1>1. TypeOK /\ RunsInv /\ ToldInv /\ FreshInv
  BY DEF TellsInv
<1>2. RunsInv'
  <2>1. \A q \in Process \ {p} : RunShape(q)' /\ CalmTells(q)' /\ LiveAdds(q)'
    BY <1>1, Bystander DEF RunsInv
  <2> QED BY <2>1 DEF RunsInv
<1>3. ToldInv'
  BY <1>1, CompleteStays DEF ToldInv
<1>4. FreshInv'
  <2> SUFFICES ASSUME Fresh' PROVE (\A q \in Process : ReadsAsIs(q)') /\ Faithful'
    BY DEF FreshInv
  <2>1. Fresh \/ (docs = NoDocs /\ \A q \in Process \ {p} : ~Live(q)')
    BY FreshFrom DEF Fresh
  <2>2. ASSUME NEW q \in Process, q # p PROVE ReadsAsIs(q)'
    <3>1. CASE Fresh
      <4>1. ReadsAsIs(q)
        BY <1>1, <3>1 DEF FreshInv
      <4>2. task'[q] = task[q] /\ (Live(q)' => Live(q))
        BY <2>2
      <4> QED BY <4>1, <4>2 DEF ReadsAsIs, Reading, AsExtracted
    <3>2. CASE ~Live(q)'
      BY <3>2 DEF ReadsAsIs
    <3> QED BY <2>1, <2>2, <3>1, <3>2
  <2>3. Faithful'
    <3>1. CASE Fresh
      BY <1>1, <3>1, FaithfulStays DEF FreshInv
    <3>2. CASE docs = NoDocs
      BY <3>2 DEF Faithful, NoDocs
    <3> QED BY <2>1, <3>1, <3>2
  <2> QED BY <2>2, <2>3
<1>5. current' = 0 => docs' = NoDocs
  BY DEF TellsInv
<1> QED BY <1>2, <1>3, <1>4, <1>5 DEF TellsInv

LEMMA LoadTells ==
  ASSUME TellsInv, TypeOK', NEW p \in Process, Load(p)
  PROVE  TellsInv'
<1>1. TypeOK /\ task'[p] = None
  BY DEF TellsInv, Load
<1>2. RunShape(p)' /\ CalmTells(p)' /\ LiveAdds(p)' /\ ReadsAsIs(p)' /\ ~Anew(p)'
  BY <1>1, NoRun
<1>3. current' = 0 => current = 0
  BY <1>1 DEF Load, TypeOK
<1>4. ASSUME NEW q \in Process \ {p}
      PROVE  task'[q] = task[q] /\ ready'[q] = ready[q] /\ (Live(q)' => Live(q))
  <2>1. task'[q] = task[q] /\ ready'[q] = ready[q] /\ handle'[q] = handle[q]
    BY <1>1 DEF Load, TypeOK
  <2>2. current' = current \/ current' = made + 1
    BY DEF Load
  <2>3. handle[q] # made + 1
    BY <1>1 DEF TypeOK
  <2> QED BY <2>1, <2>2, <2>3 DEF Live
<1>5. UNCHANGED <<extracted, docs, told, afresh>>
  BY DEF Load
<1> HIDE DEF Load
<1> QED BY <1>2, <1>3, <1>4, <1>5, QuietStep

LEMMA IndexTells ==
  ASSUME TellsInv, TypeOK', NEW p \in Process, Index(p)
  PROVE  TellsInv'
<1>1. TypeOK /\ task'[p] = Begun("files", FALSE) /\ task'[p] # None
  BY BegunType DEF TellsInv, Index, TypeOK
<1>2. /\ task'[p].step = "files" /\ task'[p].report = 1 /\ task'[p].sections = None
      /\ task'[p].done = 0 /\ task'[p].emptied = FALSE
  BY <1>1 DEF Begun
<1>3. RunShape(p)' /\ LiveAdds(p)' /\ ReadsAsIs(p)' /\ ~Anew(p)'
  BY <1>1, <1>2 DEF RunShape, LiveAdds, ReadsAsIs, Reading, Anew
<1>6. CalmTells(p)'
  BY <1>2, ReportsAssumption DEF CalmTells, Reading, Report
<1>4. \A q \in Process \ {p} : task'[q] = task[q] /\ ready'[q] = ready[q] /\ (Live(q)' => Live(q))
  BY <1>1 DEF Index, TypeOK, Live
<1>5. UNCHANGED <<extracted, docs, told, afresh, current>>
  BY DEF Index
<1> QED BY <1>3, <1>4, <1>5, <1>6, QuietStep

LEMMA CreateTells ==
  ASSUME TellsInv, TypeOK', NEW p \in Process, Create(p)
  PROVE  TellsInv'
<1>1. TypeOK /\ RunShape(p) /\ task[p] # None /\ task[p].step = "create" /\ task[p] \in Run
  BY RunOf DEF TellsInv, RunsInv, Create
<1>2. task[p].report = 1 /\ task[p].sections = None /\ task[p].done = 0
  BY <1>1 DEF RunShape, Reading
<1>3. task'[p] = [task[p] EXCEPT !.step = "files"]
  BY <1>1 DEF Create, TypeOK
<1>4. task'[p].report = 1 /\ task'[p].sections = None /\ task'[p].done = 0 /\ task'[p].step = "files"
  BY <1>1, <1>2, <1>3 DEF Run
<1>5. RunShape(p)' /\ CalmTells(p)' /\ LiveAdds(p)' /\ ReadsAsIs(p)'
  BY <1>4 DEF RunShape, CalmTells, LiveAdds, ReadsAsIs, Reading, Report
<1>6. current = 0 /\ docs = NoDocs
  BY DEF Create, TellsInv
<1>7. ASSUME NEW q \in Process \ {p}
      PROVE  task'[q] = task[q] /\ ready'[q] = ready[q] /\ ~Live(q)'
  <2>1. task'[q] = task[q] /\ ready'[q] = ready[q] /\ handle'[q] = handle[q] /\ current' = made + 1
    BY <1>1 DEF Create, TypeOK
  <2>2. handle[q] # made + 1
    BY <1>1 DEF TypeOK
  <2> QED BY <2>1, <2>2 DEF Live
<1>8. UNCHANGED <<extracted, docs, told, afresh>>
  BY DEF Create
<1> QED BY <1>5, <1>6, <1>7, <1>8, QuietStep

LEMMA StopTells ==
  ASSUME TellsInv, TypeOK', NEW p \in Process, CreateRefused(p) \/ Restart(p)
  PROVE  TellsInv'
<1>1. TypeOK /\ task'[p] = None
  BY DEF TellsInv, CreateRefused, Restart, TypeOK
<1>2. RunShape(p)' /\ CalmTells(p)' /\ LiveAdds(p)' /\ ReadsAsIs(p)' /\ ~Anew(p)'
  BY <1>1, NoRun
<1>3. UNCHANGED <<extracted, docs, told, afresh, current>>
  BY DEF CreateRefused, Restart
<1>4. ASSUME NEW q \in Process \ {p}
      PROVE  task'[q] = task[q] /\ ready'[q] = ready[q] /\ handle'[q] = handle[q]
  BY <1>1 DEF CreateRefused, Restart, TypeOK
<1>5. \A q \in Process \ {p} : Live(q)' => Live(q)
  BY <1>3, <1>4 DEF Live
<1> QED BY <1>2, <1>3, <1>4, <1>5, QuietStep

LEMMA ReadTells ==
  ASSUME TellsInv, TypeOK', NEW p \in Process, ReadFile(p)
  PROVE  TellsInv'
<1> DEFINE t == task[p]
<1>1. /\ TypeOK /\ RunShape(p) /\ CalmTells(p)
      /\ t # None /\ t \in Run /\ t.step = "files" /\ t.report \in Report /\ t.sections = None
  BY RunOf DEF TellsInv, RunsInv, ReadFile, Running
<1>2. t.done = 0 /\ (t.calm => \A f \in Report : f < t.report => Complete(f))
  BY <1>1 DEF RunShape, CalmTells
<1>3. UNCHANGED <<extracted, docs, told, afresh, current, ready, handle>>
  BY DEF ReadFile
<1>4. \A q \in Process \ {p} : task'[q] = task[q] /\ ready'[q] = ready[q] /\ (Live(q)' => Live(q))
  BY <1>1, <1>3 DEF ReadFile, TypeOK, Live
<1>5. \A f \in Report : Complete(f)' <=> Complete(f)
  BY <1>3 DEF Complete
<1>6. CASE extracted[t.report] = None
  <2>1. task'[p] = Onward(t, TRUE)
    BY <1>1, <1>6 DEF ReadFile, TypeOK
  <2>2. /\ task'[p].step = "files" /\ task'[p].report = t.report + 1 /\ task'[p].sections = None
        /\ task'[p].done = 0 /\ task'[p].calm = t.calm /\ task'[p].emptied = t.emptied
        /\ task'[p] # None
    BY <1>1, <2>1, OnwardQuietly
  <2>3. Complete(t.report)
    BY <1>6 DEF Complete
  <2>4. task'[p].calm => \A f \in Report : f < task'[p].report => Complete(f)
    <3>1. \A f \in Report : f < t.report + 1 => f < t.report \/ f = t.report
      BY <1>1 DEF Report
    <3> QED BY <1>2, <2>2, <2>3, <3>1
  <2>5. CalmTells(p)'
    BY <1>5, <2>2, <2>4 DEF CalmTells, Reading
  <2>6. RunShape(p)' /\ LiveAdds(p)' /\ ReadsAsIs(p)'
    BY <2>2 DEF RunShape, LiveAdds, ReadsAsIs, Reading
  <2>7. Anew(p)' => Anew(p)
    BY <1>1, <2>2 DEF Anew
  <2> QED BY <1>3, <1>4, <2>5, <2>6, <2>7, QuietStep
<1>7. CASE extracted[t.report] # None
  <2>1. task'[p] = [t EXCEPT !.sections = extracted[t.report]]
    BY <1>1, <1>7 DEF ReadFile, TypeOK
  <2>2. /\ task'[p].step = "files" /\ task'[p].report = t.report /\ task'[p].done = 0
        /\ task'[p].sections = extracted[t.report] /\ task'[p].calm = t.calm
        /\ task'[p].emptied = t.emptied
    BY <1>1, <1>2, <2>1 DEF Run
  <2>3. AsExtracted(p)' /\ Added(p)' /\ ReadsAsIs(p)' /\ LiveAdds(p)'
    BY <1>3, <2>2 DEF AsExtracted, Added, ReadsAsIs, LiveAdds
  <2>4. CalmTells(p)'
    BY <1>1, <1>2, <1>5, <2>2, <2>3 DEF CalmTells
  <2>5. Len(task'[p].sections) \in Nat
    <3>1. extracted[t.report] \in Extracts
      BY <1>1, <1>7 DEF TypeOK
    <3>2. extracted[t.report] \in Seq(Section)
      BY <3>1, ExtractsAssumption
    <3> QED BY <2>2, <3>2
  <2>6. RunShape(p)'
    BY <1>1, <1>7, <2>2, <2>5 DEF RunShape, Reading
  <2>7. Anew(p)' => Anew(p)
    BY <1>1, <2>2 DEF Anew
  <2> QED BY <1>3, <1>4, <2>3, <2>4, <2>6, <2>7, QuietStep
<1> QED BY <1>6, <1>7

LEMMA EndFileTells ==
  ASSUME TellsInv, TypeOK', NEW p \in Process, EndFile(p)
  PROVE  TellsInv'
<1> DEFINE t == task[p]
<1>1. /\ TypeOK /\ CalmTells(p)
      /\ t # None /\ t \in Run /\ t.step = "files" /\ t.report \in Report /\ t.sections # None
      /\ t.done = Len(t.sections)
  BY RunOf DEF TellsInv, RunsInv, EndFile, Running
<1>2. task'[p] = Onward(t, TRUE)
  BY <1>1 DEF EndFile, TypeOK
<1>3. /\ task'[p].step = "files" /\ task'[p].report = t.report + 1 /\ task'[p].sections = None
      /\ task'[p].done = 0 /\ task'[p].calm = t.calm /\ task'[p].emptied = t.emptied
      /\ task'[p] # None
  BY <1>1, <1>2, OnwardQuietly
<1>4. UNCHANGED <<extracted, docs, told, afresh, current, ready, handle>>
  BY DEF EndFile
<1>5. \A q \in Process \ {p} : task'[q] = task[q] /\ ready'[q] = ready[q] /\ (Live(q)' => Live(q))
  BY <1>1, <1>4 DEF EndFile, TypeOK, Live
<1>6. t.calm => \A f \in Report : f < t.report + 1 => Complete(f)
  <2> SUFFICES ASSUME t.calm, NEW f \in Report, f < t.report + 1 PROVE Complete(f)
    OBVIOUS
  <2>1. CASE f < t.report
    BY <1>1, <2>1 DEF CalmTells
  <2>2. CASE f = t.report
    <3>1. t.sections = extracted[f] /\ \A k \in 1..t.done : Ids(f, t.sections[k]) \subseteq DOMAIN docs
      BY <1>1, <2>2 DEF CalmTells, Reading, AsExtracted, Added
    <3> QED BY <1>1, <3>1 DEF Complete
  <2>3. f < t.report \/ f = t.report
    BY <1>1 DEF Report
  <2> QED BY <2>1, <2>2, <2>3
<1>7. CalmTells(p)'
  <2>1. \A f \in Report : Complete(f)' <=> Complete(f)
    BY <1>4 DEF Complete
  <2> QED BY <1>3, <1>6, <2>1 DEF CalmTells, Reading
<1>8. RunShape(p)' /\ LiveAdds(p)' /\ ReadsAsIs(p)' /\ (Anew(p)' => Anew(p))
  BY <1>1, <1>3 DEF RunShape, LiveAdds, ReadsAsIs, Reading, Anew
<1> QED BY <1>4, <1>5, <1>7, <1>8, QuietStep

\* Sections added in their order leave the text of the first one that has an identifier.
LEMMA AddedInOrder ==
  ASSUME TypeOK, NEW r \in Report, extracted[r] # None, extracted' = extracted,
         NEW j \in 1..Len(extracted[r]),
         \A k \in 1..(j - 1) : Ids(r, extracted[r][k]) \subseteq DOMAIN docs,
         docs' = Merged(docs, Chunks(r, extracted[r][j])),
         Faithful
  PROVE  Faithful'
<1> SUFFICES ASSUME NEW id \in DOMAIN docs'
             PROVE  \E f \in Report : extracted[f] # None /\ IsOf(f, id)'
  BY DEF Faithful
<1>1. CASE id \in DOMAIN docs
  <2>1. docs'[id] = docs[id]
    BY <1>1, MergedEffect
  <2>2. PICK f \in Report : extracted[f] # None /\ IsOf(f, id)
    BY <1>1 DEF Faithful
  <2> QED BY <2>1, <2>2, OfStays
<1>2. CASE id \notin DOMAIN docs
  <2> DEFINE new == Chunks(r, extracted[r][j])
  <2>1. extracted[r] \in Seq(Section)
    BY ExtractsAssumption DEF TypeOK
  <2>2. \A k \in 1..Len(extracted[r]) : DOMAIN Chunks(r, extracted[r][k]) = Ids(r, extracted[r][k])
    BY <2>1, ChunksType
  <2>3. id \in DOMAIN new /\ docs'[id] = new[id]
    <3>1. docs' = Merged(docs, new)
      OBVIOUS
    <3> HIDE DEF new
    <3>2. /\ DOMAIN Merged(docs, new) = DOMAIN docs \cup DOMAIN new
          /\ \A x \in DOMAIN new \ DOMAIN docs : Merged(docs, new)[x] = new[x]
      BY MergedEffect
    <3>3. id \in DOMAIN new \ DOMAIN docs
      BY <1>2, <3>1, <3>2
    <3> QED BY <3>1, <3>2, <3>3
  <2>4. ASSUME NEW k \in 1..(j - 1)
        PROVE  id \notin DOMAIN Chunks(r, extracted[r][k])
    <3>1. k \in 1..Len(extracted[r])
      BY <2>1
    <3> QED BY <1>2, <2>2, <3>1
  <2>5. IsOf(r, id)'
    BY <2>3, <2>4 DEF IsOf, Wanted
  <2> QED BY <2>5
<1> QED BY <1>1, <1>2

LEMMA AddTells ==
  ASSUME TellsInv, TypeOK', NEW p \in Process, AddSection(p)
  PROVE  TellsInv'
<1> DEFINE t == task[p]
           section == t.sections[t.done + 1]
           adds == Live(p) /\ ready[p]
<1>1. /\ TypeOK /\ RunsInv /\ ToldInv /\ FreshInv
      /\ t # None /\ t \in Run /\ t.step = "files" /\ t.report \in Report /\ t.sections # None
      /\ t.done \in Nat /\ t.done < Len(t.sections)
  BY RunOf DEF TellsInv, AddSection, Running
<1>2. RunShape(p) /\ CalmTells(p) /\ LiveAdds(p) /\ Reading(p)
  BY <1>1 DEF RunsInv, Reading
<1>3. /\ Len(t.sections) \in Nat /\ section \in Section
  BY <1>1, SectionsOf
<1>4. UNCHANGED <<extracted, told, afresh, current, ready, handle>>
  BY DEF AddSection
<1>5. docs' = (IF adds THEN Merged(docs, Chunks(t.report, section)) ELSE docs)
  BY DEF AddSection
<1>6. /\ DOMAIN docs \subseteq DOMAIN docs'
      /\ adds => Ids(t.report, section) \subseteq DOMAIN docs'
  <2> DEFINE new == Chunks(t.report, section)
  <2>1. DOMAIN new = Ids(t.report, section)
    <3> HIDE DEF section
    <3> QED BY <1>1, <1>3, ChunksType
  <2>2. docs' = (IF adds THEN Merged(docs, new) ELSE docs)
    BY <1>5
  <2> HIDE DEF new, adds, section, t
  <2>3. CASE adds
    <3>1. docs' = Merged(docs, new)
      BY <2>2, <2>3
    <3>2. DOMAIN Merged(docs, new) = DOMAIN docs \cup DOMAIN new
      BY MergedEffect
    <3>3. DOMAIN docs' = DOMAIN docs \cup Ids(t.report, section)
      BY <2>1, <3>1, <3>2
    <3> QED BY <3>3
  <2>4. CASE ~adds
    BY <2>2, <2>4
  <2> QED BY <2>3, <2>4
<1>7. \A q \in Process \ {p} : task'[q] = task[q]
  BY <1>1 DEF AddSection, TypeOK
<1>8. \A q \in Process : Live(q)' <=> Live(q)
  BY <1>4 DEF Live
<1>9. \A q \in Process \ {p} : RunShape(q)' /\ CalmTells(q)' /\ LiveAdds(q)'
  BY <1>1, <1>4, <1>6, <1>7, <1>8, Bystander DEF RunsInv
<1>10. RunShape(p)' /\ CalmTells(p)' /\ LiveAdds(p)' /\ (Anew(p)' => Anew(p))
       /\ (Reading(p)' /\ Live(p)' => Live(p) /\ task'[p].sections = t.sections /\ task'[p].report = t.report)
  <2>1. CASE Live(p) \/ Ids(t.report, section) = {}
    <3>1. task'[p] = [t EXCEPT !.done = @ + 1, !.calm = @ /\ adds]
      BY <1>1, <2>1 DEF AddSection, TypeOK
    <3>2. /\ task'[p].step = "files" /\ task'[p].report = t.report /\ task'[p].sections = t.sections
          /\ task'[p].done = t.done + 1 /\ task'[p].emptied = t.emptied
      <4> HIDE DEF adds, t
      <4> QED BY <1>1, <3>1 DEF Run
    <3>3. task'[p].calm = (t.calm /\ adds)
      <4> HIDE DEF adds, t
      <4> QED BY <1>1, <3>1 DEF Run
    <3>4. task'[p] # None
      <4>1. (t.calm /\ adds) \in BOOLEAN /\ t.done + 1 \in Nat
        BY <1>1 DEF Live
      <4> HIDE DEF adds, t
      <4>2. task'[p] \in Run
        BY <1>1, <3>1, <4>1 DEF Run
      <4> QED BY <4>2, NoneAssumption
    <3>5. Added(p) /\ adds => Added(p)'
      <4> SUFFICES ASSUME Added(p), adds, NEW k \in 1..(t.done + 1)
                   PROVE  Ids(t.report, t.sections[k]) \subseteq DOMAIN docs'
        BY <3>2 DEF Added
      <4>1. CASE k = t.done + 1
        BY <1>6, <4>1
      <4>2. CASE k \in 1..t.done
        BY <1>6, <4>2 DEF Added
      <4> QED BY <1>1, <4>1, <4>2
    <3>6. RunShape(p)'
      BY <1>1, <1>3, <3>2 DEF RunShape, Reading
    <3>7. CalmTells(p)'
      <4> SUFFICES ASSUME task'[p].calm
                   PROVE  /\ \A f \in Report : f < t.report => Complete(f)'
                          /\ AsExtracted(p)' /\ Added(p)'
        BY <3>2 DEF CalmTells
      <4>1. t.calm /\ adds
        BY <3>3
      <4>2. (\A f \in Report : f < t.report => Complete(f)) /\ AsExtracted(p) /\ Added(p)
        BY <1>1, <1>2, <4>1 DEF CalmTells
      <4>3. \A f \in Report : f < t.report => Complete(f)'
        BY <1>4, <1>6, <4>2, CompleteStays
      <4>4. AsExtracted(p)'
        BY <1>4, <3>2, <4>2 DEF AsExtracted
      <4> QED BY <3>5, <4>1, <4>2, <4>3, <4>4
    <3>8. LiveAdds(p)'
      BY <1>2, <1>4, <1>8, <3>5 DEF LiveAdds
    <3>9. Anew(p)' => Anew(p)
      BY <1>1, <3>2, <3>3 DEF Anew
    <3> QED BY <1>8, <3>2, <3>6, <3>7, <3>8, <3>9
  <2>2. CASE ~(Live(p) \/ Ids(t.report, section) = {})
    <3>1. task'[p] = Onward(t, FALSE)
      BY <1>1, <2>2 DEF AddSection, TypeOK
    <3>2. /\ task'[p].step = "files" /\ task'[p].sections = None /\ task'[p].done = 0
          /\ ~task'[p].calm
      <4> HIDE DEF t
      <4> QED BY <1>1, <3>1, OnwardDisturbed
    <3> QED BY <3>2 DEF RunShape, CalmTells, LiveAdds, Reading, Anew
  <2> QED BY <2>1, <2>2
<1>11. RunsInv'
  BY <1>9, <1>10 DEF RunsInv
<1>12. ToldInv'
  BY <1>1, <1>4, <1>6, CompleteStays DEF ToldInv
<1>13. FreshInv'
  <2> SUFFICES ASSUME Fresh' PROVE (\A q \in Process : ReadsAsIs(q)') /\ Faithful'
    BY DEF FreshInv
  <2>1. Fresh
    BY <1>4, <1>7, <1>10, FreshFrom DEF Fresh
  <2>2. (\A q \in Process : ReadsAsIs(q)) /\ Faithful
    BY <1>1, <2>1 DEF FreshInv
  <2>3. ASSUME NEW q \in Process PROVE ReadsAsIs(q)'
    <3>1. ReadsAsIs(q)
      BY <2>2
    <3>2. CASE q = p
      <4>1. Live(p) => AsExtracted(p)
        BY <1>2, <3>1, <3>2 DEF ReadsAsIs
      <4> QED BY <1>4, <1>10, <3>2, <4>1 DEF ReadsAsIs, AsExtracted
    <3>3. CASE q # p
      BY <1>4, <1>7, <1>8, <3>1, <3>3 DEF ReadsAsIs, Reading, AsExtracted
    <3> QED BY <3>2, <3>3
  <2>4. Faithful'
    <3>1. CASE ~adds
      BY <1>4, <1>5, <2>2, <3>1, FaithfulStays
    <3>2. CASE adds
      <4>1. Added(p) /\ AsExtracted(p)
        BY <1>2, <2>2, <3>2 DEF LiveAdds, ReadsAsIs
      <4>2. t.sections = extracted[t.report]
        BY <4>1 DEF AsExtracted
      <4> DEFINE j == t.done + 1
      <4>3. j \in 1..Len(extracted[t.report])
        BY <1>1, <1>3, <4>2
      <4>4. \A k \in 1..(j - 1) : Ids(t.report, extracted[t.report][k]) \subseteq DOMAIN docs
        BY <1>1, <4>1, <4>2 DEF Added
      <4>5. docs' = Merged(docs, Chunks(t.report, extracted[t.report][j]))
        BY <1>5, <3>2, <4>2
      <4>6. extracted[t.report] # None
        BY <1>1, <4>2
      <4> HIDE DEF j, t
      <4> QED BY <1>1, <1>4, <2>2, <4>3, <4>4, <4>5, <4>6, AddedInOrder
    <3> QED BY <3>1, <3>2
  <2> QED BY <2>3, <2>4
<1>14. current' = 0 => docs' = NoDocs
  BY <1>4, <1>5 DEF TellsInv, Live
<1> QED BY <1>11, <1>12, <1>13, <1>14 DEF TellsInv

LEMMA EndTells ==
  ASSUME TellsInv, TypeOK', NEW p \in Process, End(p)
  PROVE  TellsInv'
<1> DEFINE t == task[p]
<1>1. /\ TypeOK /\ RunsInv /\ ToldInv /\ FreshInv /\ CalmTells(p)
      /\ t # None /\ t \in Run /\ t.step = "files" /\ t.report \notin Report
  BY RunOf DEF TellsInv, RunsInv, End
<1>2. task'[p] = None /\ \A q \in Process \ {p} : task'[q] = task[q]
  BY <1>1 DEF End, TypeOK
<1>3. UNCHANGED <<extracted, docs, current, ready, handle>>
  BY DEF End
<1>4. \A q \in Process : Live(q)' <=> Live(q)
  BY <1>3 DEF Live
<1>5. RunsInv'
  <2>1. \A q \in Process \ {p} : RunShape(q)' /\ CalmTells(q)' /\ LiveAdds(q)'
    BY <1>1, <1>2, <1>3, <1>4, Bystander DEF RunsInv
  <2> QED BY <1>2, <2>1, NoRun DEF RunsInv
<1>6. t.calm => \A f \in Report : Complete(f)
  <2>1. \A f \in Report : f < t.report
    BY <1>1, ReportsAssumption DEF Report, Run
  <2> QED BY <1>1, <2>1 DEF CalmTells
<1>7. (told' <=> told \/ t.calm) /\ (afresh' <=> afresh \/ (t.calm /\ t.emptied))
  BY DEF End
<1>8. ToldInv'
  <2>1. told' => \A f \in Report : Complete(f)
    BY <1>1, <1>6, <1>7 DEF ToldInv
  <2>2. told' => \A f \in Report : Complete(f)'
    BY <1>3, <2>1, CompleteStays
  <2> QED BY <1>1, <1>7, <2>2 DEF ToldInv
<1>9. FreshInv'
  <2> SUFFICES ASSUME Fresh' PROVE (\A q \in Process : ReadsAsIs(q)') /\ Faithful'
    BY DEF FreshInv
  <2>1. Fresh
    <3>1. CASE afresh'
      BY <1>1, <1>7, <3>1 DEF Fresh, Anew
    <3>2. CASE ~afresh'
      <4>1. PICK q \in Process : Anew(q)'
        BY <3>2 DEF Fresh
      <4>2. Anew(q)
        BY <1>2, <4>1, NoRun DEF Anew
      <4> QED BY <4>2 DEF Fresh
    <3> QED BY <3>1, <3>2
  <2>2. (\A q \in Process : ReadsAsIs(q)) /\ Faithful
    BY <1>1, <2>1 DEF FreshInv
  <2>3. \A q \in Process \ {p} : ReadsAsIs(q)'
    BY <1>2, <1>3, <1>4, <2>2 DEF ReadsAsIs, Reading, AsExtracted
  <2>4. Faithful'
    BY <1>3, <2>2, FaithfulStays
  <2> QED BY <1>2, <2>3, <2>4, NoRun
<1>10. current' = 0 => docs' = NoDocs
  BY <1>3 DEF TellsInv
<1> QED BY <1>5, <1>8, <1>9, <1>10 DEF TellsInv

LEMMA DeleteTells ==
  ASSUME TellsInv, TypeOK', NEW p \in Process, Delete(p)
  PROVE  TellsInv'
<1>1. TypeOK /\ RunsInv
  BY DEF TellsInv
<1>2. task'[p] = Begun("create", TRUE) /\ \A q \in Process \ {p} : task'[q] = Disturbed(p, q)
  BY <1>1 DEF Delete
<1>3. current' = 0 /\ docs' = NoDocs /\ told' = FALSE /\ afresh' = FALSE
  BY DEF Delete
<1>4. \A q \in Process : ~Live(q)'
  BY <1>3 DEF Live
<1>5. /\ task'[p].step = "create" /\ task'[p].report = 1 /\ task'[p].sections = None
      /\ task'[p].done = 0
  BY <1>2 DEF Begun
<1>6. RunShape(p)' /\ CalmTells(p)' /\ LiveAdds(p)' /\ ~Anew(p)'
  BY <1>5 DEF RunShape, CalmTells, LiveAdds, Reading, Anew
<1>7. \A q \in Process \ {p} : RunShape(q)' /\ CalmTells(q)' /\ LiveAdds(q)' /\ ~Anew(q)'
  BY <1>1, <1>2, <1>4, DisturbedRun DEF RunsInv
<1>8. RunsInv' /\ ToldInv' /\ FreshInv'
  BY <1>3, <1>6, <1>7 DEF RunsInv, ToldInv, FreshInv, Fresh
<1> QED BY <1>3, <1>8 DEF TellsInv

LEMMA ExtractTells ==
  ASSUME TellsInv, TypeOK', NEW f \in Report, Extract(f)
  PROVE  TellsInv'
<1>1. TypeOK /\ RunsInv /\ (current = 0 => docs = NoDocs)
  BY DEF TellsInv
<1>2. \A q \in Process : q # None /\ task'[q] = Disturbed(None, q)
  BY <1>1, NoneAssumption DEF Extract
<1>3. UNCHANGED <<current, docs, handle, ready>> /\ told' = FALSE /\ afresh' = FALSE
  BY DEF Extract
<1>4. \A q \in Process : Live(q)' <=> Live(q)
  BY <1>3 DEF Live
<1>5. \A q \in Process : RunShape(q)' /\ CalmTells(q)' /\ LiveAdds(q)' /\ ~Anew(q)'
  BY <1>1, <1>2, <1>3, <1>4, DisturbedRun DEF RunsInv
<1>6. RunsInv' /\ ToldInv' /\ FreshInv'
  BY <1>3, <1>5 DEF RunsInv, ToldInv, FreshInv, Fresh
<1> QED BY <1>1, <1>3, <1>6 DEF TellsInv

LEMMA InitTells == Init => TellsInv
<1> SUFFICES ASSUME Init PROVE TellsInv
  OBVIOUS
<1>1. TypeOK /\ docs = NoDocs /\ ~told /\ ~afresh /\ \A p \in Process : task[p] = None
  BY InitType DEF Init
<1>2. RunsInv /\ ToldInv /\ FreshInv
  BY <1>1 DEF RunsInv, RunShape, CalmTells, LiveAdds, Reading, ToldInv, FreshInv, Fresh, Anew
<1> QED BY <1>1, <1>2 DEF TellsInv

LEMMA TellsStep == TellsInv /\ [Next]_vars => TellsInv'
<1> SUFFICES ASSUME TellsInv, [Next]_vars PROVE TellsInv'
  OBVIOUS
<1>1. TypeOK'
  BY TypeStep DEF TellsInv
<1>2. CASE UNCHANGED vars
  BY <1>2 DEF vars, TellsInv, TypeOK, RunsInv, RunShape, CalmTells, LiveAdds, ToldInv, FreshInv, Fresh,
              ReadsAsIs, Faithful, IsOf, Wanted, Reading, Added, AsExtracted, Anew, Complete, Live
<1>3. CASE Next
  BY <1>1, <1>3, LoadTells, IndexTells, DeleteTells, CreateTells, StopTells, ReadTells, AddTells,
     EndFileTells, EndTells, ExtractTells DEF Next
<1> QED BY <1>2, <1>3

LEMMA TellsImplies == TellsInv => IndexTellsTheReports
<1> SUFFICES ASSUME TellsInv PROVE IndexTellsTheReports
  OBVIOUS
<1>1. TypeOK /\ ToldInv /\ FreshInv
  BY DEF TellsInv
<1>2. ASSUME told, NEW f \in Report, extracted[f] # None, NEW k \in 1..Len(extracted[f])
      PROVE  /\ DOMAIN Wanted(f, k) \subseteq DOMAIN docs
             /\ DOMAIN Wanted(f, k) # {} =>
                    \A p \in Process : ready[p] /\ Live(p) => Query(p, {f}) = "answer"
  <2>1. extracted[f][k] \in Section
    <3>1. extracted[f] \in Seq(Section)
      BY <1>1, <1>2, ExtractsAssumption DEF TypeOK
    <3> QED BY <3>1
  <2>2. DOMAIN Wanted(f, k) = Ids(f, extracted[f][k]) /\ \A id \in DOMAIN Wanted(f, k) : id[1] = f
    BY <2>1, ChunksType, IdsType DEF Wanted
  <2>3. DOMAIN Wanted(f, k) \subseteq DOMAIN docs
    BY <1>1, <1>2, <2>2 DEF ToldInv, Complete
  <2>4. ASSUME NEW id \in DOMAIN Wanted(f, k), NEW p \in Process, ready[p], Live(p)
        PROVE  Query(p, {f}) = "answer"
    <3>1. Search(p, {f}) = {x \in DOMAIN docs : ready[p] /\ x[1] \in {f}}
      BY <2>4 DEF Search, Live
    <3>2. id \in Search(p, {f})
      BY <2>2, <2>3, <2>4, <3>1
    <3>3. None \notin Search(p, {f})
      BY <1>1, <3>1, NoneAssumption DEF TypeOK
    <3> QED BY <3>2, <3>3 DEF Query
  <2> QED BY <2>3, <2>4
<1>3. afresh => \A id \in DOMAIN docs : \E f \in Report : extracted[f] # None /\ IsOf(f, id)
  BY <1>1 DEF FreshInv, Fresh, Faithful
<1> QED BY <1>2, <1>3 DEF IndexTellsTheReports

\* After a run that nothing disturbed every report that can be read is found by whoever can
\* search, and has the identifiers of all its chunks in the index; made anew for the run,
\* the index holds nothing but chunks of the reports as they are extracted, each of the
\* first section that has its identifier.
THEOREM UndisturbedRunTells == Spec => []IndexTellsTheReports
BY InitTells, TellsStep, TellsImplies, PTL DEF Spec
=============================================================================

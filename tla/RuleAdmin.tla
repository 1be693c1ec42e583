------------------------------- MODULE RuleAdmin -------------------------------
(***************************************************************************)
(* The rule administration of api/admin.py: update_rule reads the YAML     *)
(* files of the rules in the order of their names up to the one that has   *)
(* the rule, rewrites that file in place and then appends what it changed  *)
(* to rule_changes.jsonl.  The risk engines read the files when a worker   *)
(* starts.  It runs beside the accounts, whose tokens say who may do it.   *)
(*                                                                         *)
(* The handler never awaits: within a worker an update is alone, and the   *)
(* updates of different workers interleave at their file operations.       *)
(***************************************************************************)
EXTENDS Accounts

CONSTANTS
    Worker,       \* the server's processes
    Files,        \* the YAML files are 1..Files, in the order of their names
    RulesIn,      \* and each has the rules 1..RulesIn
    Field,        \* what an update may change of a rule
    Value,        \* the values of the fields
    Loadable,     \* those of them the schema of the rules accepts
    Original,     \* the value every field has in the release
    MaxUpdates,   \* bound on the updates
    MaxFaults     \* bound on failing file operations, crashes and restarts

ASSUME FilesAssumption == Files \in Nat /\ RulesIn \in Nat \ {0}
ASSUME ValuesAssumption == Loadable \subseteq Value /\ Original \in Loadable
ASSUME BoundsAssumption == MaxUpdates \in Nat /\ MaxFaults \in Nat

VARIABLES
    files,        \* [1..Files -> the rules in it]; a torn file has none
    task,         \* [Worker -> its update, or None]
    logged,       \* what the log of changes makes of the rules of the release
    engine,       \* [Worker -> the rules of each file it has loaded]
    clean,        \* history: the files no two updates and no fault have touched
    excused,      \* history: the files a worker may have had a reason not to load
    updates, faults

ruleVars == <<files, task, logged, engine, clean, excused, updates, faults>>
vars == <<accountVars, ruleVars>>

File == 1..Files
Rule == [Field -> Value]

(* A file is the sequence of its rules, and shorter after a write that ended
   before its time.                                                         *)
Contents == UNION {[1..n -> Rule] : n \in 0..RulesIn}
Torn  == [i \in 1..0 |-> None]
Whole == [i \in 1..RulesIn |-> [x \in Field |-> Original]]
Cuts(data) ==
    {[i \in 1..n |-> data[i]] : n \in {m \in 0..RulesIn : 1..m \subseteq DOMAIN data}}

Changes == UNION {[xs -> Value] : xs \in SUBSET Field \ {{}}}
Changed(rule, change) ==
    [x \in Field |-> IF x \in DOMAIN change THEN change[x] ELSE rule[x]]

Task == [step : {"read", "opened", "written"}, file : File, rule : 1..RulesIn,
         change : Changes, data : Contents]

ASSUME NoTaskAssumption == None \notin Task

Updates(w, f) == task[w] # None /\ task[w].file = f
Rewrites(w, f) == Updates(w, f) /\ task[w].step = "opened"

(* load_rules: a file that does not parse, has no rule, or has one the schema
   refuses is left out as a whole, and the others are loaded.               *)
LoadUnchecked(fs) ==                    \* mutant: a file is loaded with what it was given
    [f \in File |-> IF fs[f] = Torn THEN None ELSE fs[f]]

LoadAllOrNothing(fs) ==                 \* mutant: one failure ends the loading
    IF \A f \in File : fs[f] # Torn THEN fs ELSE [f \in File |-> Torn]

Load(fs) ==
    [f \in File |->
        IF \A i \in DOMAIN fs[f], x \in Field : fs[f][i][x] \in Loadable THEN fs[f] ELSE Torn]

RulesInit ==
    /\ files = [f \in File |-> Whole]
    /\ task = [w \in Worker |-> None]
    /\ logged = files
    /\ engine = [w \in Worker |-> Load(files)]
    /\ clean = [f \in File |-> TRUE]
    /\ excused = [f \in File |-> FALSE]
    /\ updates = 0 /\ faults = 0

-----------------------------------------------------------------------------
BeginFromEngine(w, t, f, i, change) ==  \* mutant: the rules are those the engine has
    /\ task[w] = None
    /\ updates < MaxUpdates
    /\ MayAdminister(t)
    /\ \A g \in 1..f : files[g] # Torn
    /\ i \in DOMAIN engine[w][f]
    /\ updates' = updates + 1
    /\ task' = [task EXCEPT ![w] =
                  [step |-> "read", file |-> f, rule |-> i, change |-> change,
                   data |-> [engine[w][f] EXCEPT ![i] = Changed(@, change)]]]
    /\ clean' = [clean EXCEPT ![f] = @ /\ \A v \in Worker : ~Updates(v, f)]
    /\ excused' = [excused EXCEPT ![f] = @ \/ \E x \in DOMAIN change : change[x] \notin Loadable]
    /\ UNCHANGED <<files, logged, engine, faults>>

(* update_rule reads: a torn file on the way to the rule's makes it raise, an
   empty change is refused, and so are who may not administer.              *)
Begin(w, t, f, i, change) ==
    /\ task[w] = None
    /\ updates < MaxUpdates
    /\ MayAdminister(t)
    /\ \A g \in 1..f : files[g] # Torn
    /\ i \in DOMAIN files[f]
    /\ updates' = updates + 1
    /\ task' = [task EXCEPT ![w] =
                  [step |-> "read", file |-> f, rule |-> i, change |-> change,
                   data |-> [files[f] EXCEPT ![i] = Changed(@, change)]]]
    /\ clean' = [clean EXCEPT ![f] = @ /\ \A v \in Worker : ~Updates(v, f)]
    /\ excused' = [excused EXCEPT ![f] = @ \/ \E x \in DOMAIN change : change[x] \notin Loadable]
    /\ UNCHANGED <<files, logged, engine, faults>>

(* Opening the file for writing empties it.                                 *)
Open(w) ==
    /\ task[w] # None /\ task[w].step = "read"
    /\ files' = [files EXCEPT ![task[w].file] = Torn]
    /\ task' = [task EXCEPT ![w].step = "opened"]
    /\ UNCHANGED <<logged, engine, clean, excused, updates, faults>>

(* Two workers that write at once may leave a mixture, which does not parse. *)
Write(w) ==
    /\ task[w] # None /\ task[w].step = "opened"
    /\ \E left \in {task[w].data, Torn} :
        /\ left = Torn => \E v \in Worker \ {w} : Updates(v, task[w].file)
        /\ files' = [files EXCEPT ![task[w].file] = left]
    /\ task' = [task EXCEPT ![w].step = "written"]
    /\ UNCHANGED <<logged, engine, clean, excused, updates, faults>>

(* _log_rule_change, and the answer                                         *)
Log(w) ==
    /\ task[w] # None /\ task[w].step = "written"
    /\ logged' = [logged EXCEPT ![task[w].file][task[w].rule] = Changed(@, task[w].change)]
    /\ task' = [task EXCEPT ![w] = None]
    /\ UNCHANGED <<files, engine, clean, excused, updates, faults>>

(* An update that ends before its time leaves what it has done: nothing, a
   file that is empty or cut short, or a change that the log does not have. *)
Abandoned(w) ==
    /\ task' = [task EXCEPT ![w] = None]
    /\ IF task[w] = None
       THEN UNCHANGED <<files, clean>>
       ELSE LET f == task[w].file IN
            /\ clean' = [clean EXCEPT ![f] = @ /\ task[w].step = "read"]
            /\ IF task[w].step = "opened"
               THEN \E left \in Cuts(task[w].data) : files' = [files EXCEPT ![f] = left]
               ELSE UNCHANGED files

Fail(w) ==
    /\ task[w] # None
    /\ faults < MaxFaults
    /\ faults' = faults + 1
    /\ Abandoned(w)
    /\ UNCHANGED <<logged, engine, excused, updates>>

(* The files a worker may find torn because another one rewrites them.      *)
Excuse(w) == [f \in File |-> excused[f] \/ \E v \in Worker \ {w} : Rewrites(v, f)]

(* A worker crashes or is stopped, and starts anew: its engines read the
   files, one of which another worker may be rewriting.                     *)
Restart(w) ==
    /\ faults < MaxFaults
    /\ faults' = faults + 1
    /\ Abandoned(w)
    /\ engine' = [engine EXCEPT ![w] = Load(files')]
    /\ excused' = Excuse(w)
    /\ UNCHANGED <<logged, updates>>

(* evaluate loads the rules once more when it has none at all.              *)
Reload(w) ==
    /\ task[w] = None
    /\ \A f \in File : engine[w][f] = Torn
    /\ engine' = [engine EXCEPT ![w] = Load(files)]
    /\ excused' = Excuse(w)
    /\ UNCHANGED <<files, task, logged, clean, updates, faults>>

RulesNext ==
    \E w \in Worker :
        \/ \E t \in tokens, f \in File, i \in 1..RulesIn, change \in Changes :
               Begin(w, t, f, i, change)
        \/ Open(w)
        \/ Write(w)
        \/ Log(w)
        \/ Fail(w)
        \/ Restart(w)
        \/ Reload(w)

Init == AccountsInit /\ RulesInit
Next ==
    \/ AccountsNext /\ UNCHANGED ruleVars
    \/ RulesNext /\ UNCHANGED accountVars
Spec == Init /\ [][Next]_vars

-----------------------------------------------------------------------------
(* TypeOK: the shapes of the accounts and of the rules.                     *)
TypeOK ==
    /\ AccountsTypeOK
    /\ files \in [File -> Contents]
    /\ task \in [Worker -> Task \cup {None}]
    /\ logged \in [File -> [1..RulesIn -> Rule]]
    /\ engine \in [Worker -> [File -> Contents]]
    /\ clean \in [File -> BOOLEAN] /\ excused \in [File -> BOOLEAN]
    /\ updates \in 0..MaxUpdates /\ faults \in 0..MaxFaults

(* The log of changes accounts for the rules: between updates, a file that
   no two updates and no fault have met is what the release and the log make
   of it (api/admin.py, "record the history of changes").                   *)
LogAccountsForRules ==
    \A f \in File :
        clean[f] /\ (\A w \in Worker : ~Updates(w, f)) => files[f] = logged[f]

(* A worker evaluates without the rules of a file, or without some of them,
   only when the file met a fault or two updates, was being rewritten while a
   worker loaded the rules, or was given a value the schema of the rules refuses.    *)
EnginesComplete ==
    \A w \in Worker, f \in File :
        DOMAIN engine[w][f] # 1..RulesIn => ~clean[f] \/ excused[f]
=============================================================================

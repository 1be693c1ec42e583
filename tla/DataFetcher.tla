------------------------------ MODULE DataFetcher ------------------------------
(***************************************************************************)
(* DataFetcher.fetch_all (services/data_fetcher.py) over the connectors of *)
(* module Connectors, with the snapshot files of CacheManager              *)
(* (services/cache_manager.py) that they share.  Every request runs one    *)
(* task per connector; tasks are interleaved at their awaits, which are    *)
(* the remote calls; everything between two awaits is one step.  A task    *)
(* that is 45 s old is cancelled in the call it waits for.  httpx bounds   *)
(* each phase of a call, not the call, so any call may last that long.     *)
(***************************************************************************)
EXTENDS Connectors, FiniteSets

CONSTANTS
    Requests,     \* calls of fetch_all, by evaluate, checklist, draft, ...
    SiteCount,    \* coordinates, in the order of their names in a file name
    Near,         \* the sites within 50 km of a dam and of a tide station
    Fleets,       \* sets of connectors, one of which is looked at
    KeySets,      \* settings that may be configured together
    MaxTime,      \* bound on the clock
    TTL,          \* CACHE_TTL_HOURS
    DiskFails     \* whether writing a snapshot may fail

Sites == 1 .. SiteCount

ASSUME SitesAssumption == SiteCount \in Nat \ {0} /\ Near \subseteq Sites
ASSUME TimeAssumption == MaxTime \in Nat \ {0} /\ TTL \in Nat
ASSUME FleetAssumption == \A fleet \in Fleets : fleet \subseteq Names
ASSUME DiskAssumption == DiskFails \in BOOLEAN

VARIABLES
    active,       \* the connectors of this behaviour
    configured,   \* the settings that are set
    readable,     \* the local connectors whose files could be loaded
    now,
    files,        \* data/snapshots
    request,      \* [phase, site] of every request
    task          \* task[r][c]: the coroutine of connector c for request r

vars == <<active, configured, readable, now, files, request, task>>

-----------------------------------------------------------------------------
(* What the variables hold.                                                 *)

Times == 1 .. MaxTime
Contents == {"answer", "errorBody", "empty"}

(* "none" is data = None; "empty" stands for default values and for what is
   parsed from nothing; "static" for local files.  A result that was fetched
   or read from a snapshot says for which site and when.                    *)
Results ==
    [status : {"stable", "unstable", "unavailable"},
     label  : {"live", "cached", "stale", "unknown", "unavailable"},
     data   : Contents \cup {"none", "static"},
     kept   : BOOLEAN, site : Sites \cup {0}, at : Times \cup {0}]

Snapshots ==
    [conn : Names, site : Sites, at : Times, data : Contents, torn : BOOLEAN]

Unavailable(label) ==
    [status |-> "unavailable", label |-> label, data |-> "none",
     kept |-> FALSE, site |-> 0, at |-> 0]

(* BaseConnector._make_empty_result and _make_error.                        *)
EmptyResult == Unavailable("unavailable")
ErrorResult == Unavailable("unknown")

(* _make_result without a freshness: the default label is "live".           *)
Given(data, label) ==
    [status |-> "stable", label |-> label, data |-> data,
     kept |-> FALSE, site |-> 0, at |-> 0]
Fetched(c, s, data, status) ==
    [Given(data, Script[c].label) EXCEPT !.status = status, !.site = s, !.at = now]

NotStarted == [pc |-> "ready", src |-> 0, held |-> "none", result |-> EmptyResult]
Tasks ==
    [pc : {"ready", "call", "done"}, src : Nat, held : Contents \cup {"none"},
     result : Results]

TypeOK ==
    /\ active \in Fleets /\ readable \subseteq active
    /\ configured \in KeySets
    /\ now \in Times
    /\ files \subseteq Snapshots
    /\ request \in [Requests -> [phase : {"idle", "fetching", "answered", "lost"},
                                 site : Sites \cup {0}]]
    /\ task \in [Requests -> [active -> Tasks]]

-----------------------------------------------------------------------------
(* CacheManager                                                             *)

(* The file name holds the connector, the region (latitude and longitude) and
   the second; a second write in that second replaces the first.            *)
SameName(f, g) == f.conn = g.conn /\ f.site = g.site /\ f.at = g.at
(* Mutant: a file per connector.                                            *)
WriteOverConnector(f) == {g \in files : g.conn # f.conn} \cup {f}
Write(f) == {g \in files : ~SameName(f, g)} \cup {f}
Snapshot(c, s, data, torn) ==
    [conn |-> c, site |-> s, at |-> now, data |-> data, torn |-> torn]

(* sorted(glob, reverse=True)[0]: names compare the region before the time. *)
FilesOf(c, dir) == {f \in dir : f.conn = c}
LastByName(c, dir) ==
    CHOOSE f \in FilesOf(c, dir) : \A g \in FilesOf(c, dir) :
        f.site > g.site \/ (f.site = g.site /\ f.at >= g.at)

Age(f) == now - f.at
load_snapshot(c, dir) ==
    LET f == LastByName(c, dir)
    IN  IF FilesOf(c, dir) = {} \/ f.torn THEN ErrorResult
        ELSE [status |-> "unstable", label |-> IF Age(f) > TTL THEN "stale" ELSE "cached",
              data |-> f.data, kept |-> TRUE, site |-> f.site, at |-> f.at]

-----------------------------------------------------------------------------
(* The connectors, between two awaits                                       *)

Sources(c) == SelectSeq(Script[c].sources, LAMBDA s : s.needs \subseteq configured)

(* What a connector returns when it has neither answer nor snapshot.        *)
LastResort(c) ==
    IF Script[c].last = "defaults" THEN Given("empty", "live") ELSE ErrorResult

_fallback_to_cache(c, dir) ==
    LET found == load_snapshot(c, dir) IN IF found.data = "none" THEN LastResort(c) ELSE found

(* No key is set.  land_use calls the snapshot stable then.                 *)
Offline(c) ==
    LET found == _fallback_to_cache(c, files)
    IN  IF Script[c].offline = "defaults" THEN LastResort(c)
        ELSE IF c = "land_use" /\ found.data # "none" THEN [found EXCEPT !.status = "stable"]
        ELSE found

(* The summary computed by _load_csv, _load_data or _load_species.          *)
LocalResult(c) ==
    CASE c \in readable -> Given("static", Script[c].label)
      [] Script[c].missing = "defaults" -> Given("empty", Script[c].label)
      [] Script[c].missing = "error" -> ErrorResult
      [] OTHER -> EmptyResult

HasKey(c) == \E alternative \in Script[c].keys : alternative \subseteq configured

Put(r, c, t) == task' = [task EXCEPT ![r][c] = t]
Finish(r, c, result) == Put(r, c, [NotStarted EXCEPT !.pc = "done", !.result = result])
Ask(r, c, i, held) == Put(r, c, [NotStarted EXCEPT !.pc = "call", !.src = i, !.held = held])

(* The next source, or the snapshots when there is none left.               *)
NextSource(r, c, dir) ==
    LET i == task[r][c].src
    IN  IF i < Len(Sources(c)) THEN Ask(r, c, i + 1, "none")
        ELSE Finish(r, c, _fallback_to_cache(c, dir))

(* Mutant: a failed write goes unnoticed.                                   *)
SaveUnchecked(r, c, data, status) ==
    LET s == request[r].site
    IN  /\ \/ files' = Write(Snapshot(c, s, data, FALSE))
           \/ DiskFails /\ UNCHANGED files
        /\ Finish(r, c, Fetched(c, s, data, status))

(* A write that fails may leave an incomplete file.  It is caught with the
   failures of the source it saves, unless the connector saves outside of its
   try: then fetch() raises, and gather makes an empty result of it.        *)
Save(r, c, data, status) ==
    LET s == request[r].site
    IN  \/ /\ files' = Write(Snapshot(c, s, data, FALSE))
           /\ Finish(r, c, Fetched(c, s, data, status))
        \/ \E left \in {files, Write(Snapshot(c, s, data, TRUE))} :
            /\ DiskFails
            /\ files' = left
            /\ IF Script[c].guarded THEN NextSource(r, c, left) ELSE Finish(r, c, EmptyResult)

Parsed(c, source, outcome) ==
    IF Script[c].reads /\ (source.deaf => outcome = "answer") THEN outcome ELSE "empty"

(* Mutant: the failure of the first source is held like an answer.          *)
MergeFailures(r, c, outcome) ==
    LET i == task[r][c].src
        first == IF i = 1 THEN outcome ELSE task[r][c].held
    IN  IF i < Len(Sources(c))
        THEN Ask(r, c, i + 1, first) /\ UNCHANGED files
        ELSE Save(r, c, first, "stable")

(* land_use keeps what its first source gave while it asks the second.      *)
MergeSources(r, c, outcome) ==
    LET i == task[r][c].src
        source == Sources(c)[i]
        got == IF Accepts(source, outcome) THEN Parsed(c, source, outcome) ELSE "none"
        first == IF i = 1 THEN got ELSE task[r][c].held
    IN  IF i < Len(Sources(c))
        THEN Ask(r, c, i + 1, first) /\ UNCHANGED files
        ELSE CASE first # "none" -> Save(r, c, first, "stable")
               [] first = "none" /\ got # "none" -> Save(r, c, got, "unstable")
               [] OTHER -> Finish(r, c, _fallback_to_cache(c, files)) /\ UNCHANGED files

FirstAnswer(r, c, outcome) ==
    LET source == Sources(c)[task[r][c].src]
    IN  IF Accepts(source, outcome) THEN Save(r, c, Parsed(c, source, outcome), "stable")
        ELSE NextSource(r, c, files) /\ UNCHANGED files

-----------------------------------------------------------------------------
(* Actions                                                                  *)

(* fetch_all: one task per connector, gathered.                             *)
FetchAll(r) ==
    /\ request[r].phase = "idle"
    /\ \E s \in Sites : request' = [request EXCEPT ![r] = [phase |-> "fetching", site |-> s]]
    /\ UNCHANGED <<active, configured, readable, now, files, task>>

Running(r, c, pc) == request[r].phase = "fetching" /\ task[r][c].pc = pc

(* fetch() up to its first await.                                           *)
Enter(r, c) ==
    /\ Running(r, c, "ready")
    /\ CASE ~Script[c].remote -> Finish(r, c, LocalResult(c))
         [] Script[c].remote /\ ~HasKey(c) -> Finish(r, c, Offline(c))
         [] Script[c].remote /\ HasKey(c) /\ Script[c].ranged /\ request[r].site \notin Near ->
                Finish(r, c, EmptyResult)
         [] OTHER -> Ask(r, c, 1, "none")
    /\ UNCHANGED <<active, configured, readable, now, files, request>>

(* The call ends and fetch() runs to its next await or to its result.       *)
Return(r, c) ==
    /\ Running(r, c, "call")
    /\ \E outcome \in Outcomes :
        IF Script[c].merges THEN MergeSources(r, c, outcome) ELSE FirstAnswer(r, c, outcome)
    /\ UNCHANGED <<active, configured, readable, now, request>>

(* Mutant: the timer runs only until the task starts.                       *)
TimeoutAtStart(r, c) ==
    /\ Running(r, c, "ready")
    /\ Finish(r, c, EmptyResult)
    /\ UNCHANGED <<active, configured, readable, now, files, request>>

(* asyncio.wait_for: the task is cancelled where it waits, and what it holds
   is dropped with it.                                                      *)
Timeout(r, c) ==
    /\ Running(r, c, "call")
    /\ Finish(r, c, EmptyResult)
    /\ UNCHANGED <<active, configured, readable, now, files, request>>

(* gather returns when the last task has.                                   *)
Gather(r) ==
    /\ request[r].phase = "fetching"
    /\ \A c \in active : task[r][c].pc = "done"
    /\ request' = [request EXCEPT ![r].phase = "answered"]
    /\ UNCHANGED <<active, configured, readable, now, files, task>>

Lost == [r \in Requests |->
            IF request[r].phase = "fetching" THEN [request[r] EXCEPT !.phase = "lost"]
            ELSE request[r]]

(* The process dies between two steps, or in the write of a snapshot.       *)
Crash ==
    /\ \E r \in Requests : request[r].phase = "fetching"
    /\ request' = Lost
    /\ UNCHANGED <<active, configured, readable, now, files, task>>

CrashInSave(r, c) ==
    /\ Running(r, c, "call")
    /\ files' = Write(Snapshot(c, request[r].site, "answer", TRUE))
    /\ request' = Lost
    /\ UNCHANGED <<active, configured, readable, now, task>>

Tick ==
    /\ now < MaxTime
    /\ now' = now + 1
    /\ UNCHANGED <<active, configured, readable, files, request, task>>

(* Everything the run is about is given and no snapshot exists yet.         *)
Init ==
    /\ active \in Fleets
    /\ configured \in KeySets
    /\ readable \in SUBSET {c \in active : ~Script[c].remote}
    /\ now = 1
    /\ files = {}
    /\ request = [r \in Requests |-> [phase |-> "idle", site |-> 0]]
    /\ task = [r \in Requests |-> [c \in active |-> NotStarted]]

Done ==
    /\ \A r \in Requests : request[r].phase \in {"answered", "lost"}
    /\ now = MaxTime
    /\ UNCHANGED vars

Step(r) ==
    \/ FetchAll(r)
    \/ Gather(r)
    \/ \E c \in active : Enter(r, c) \/ Return(r, c) \/ Timeout(r, c) \/ CrashInSave(r, c)

Next == Crash \/ Tick \/ Done \/ (\E r \in Requests : Step(r))

(* The event loop runs a task that is ready and fires a timer that is due.
   Nobody promises that a remote service answers, and Return is not fair.   *)
Fairness ==
    \A r \in Requests :
        /\ WF_vars(Gather(r))
        /\ WF_vars(\E c \in active : Enter(r, c))
        /\ WF_vars(\E c \in active : Timeout(r, c))

Spec == Init /\ [][Next]_vars
FairSpec == Spec /\ Fairness

-----------------------------------------------------------------------------
(* Properties                                                               *)

Ended(r, c) == task[r][c].pc = "done"

(* A snapshot once written stays readable: it is neither removed, nor torn by
   a crash or a full disk, unless the same connector saves the same site again in the same
   second.                                                                  *)
SnapshotsKept ==
    [][\A f \in files : f \in files' \/ (\E g \in files' : SameName(f, g) /\ g.at = now)]_vars

(* fetch_all ends although the services it calls never answer: the timer of
   every call ends it.                                                      *)
EveryFetchEnds ==
    \A r \in Requests : request[r].phase = "fetching" ~> request[r].phase # "fetching"

(* The promise of module Acquisition.                                       *)
ValueOf(result) ==
    CASE result.kept -> [kind |-> "kept", site |-> result.site, at |-> result.at]
      [] ~result.kept /\ result.site # 0 ->
            [kind |-> "fresh", site |-> result.site, at |-> result.at]
      [] ~result.kept /\ result.site = 0 /\ result.data # "none" -> [kind |-> "default"]
      [] OTHER -> [kind |-> "none"]

Promise == INSTANCE Acquisition WITH
    domains <- active,
    known   <- {<<f.conn, f.site, f.at>> : f \in files},
    phase   <- [r \in Requests |-> request[r].phase],
    asked   <- [r \in Requests |-> request[r].site],
    value   <- [r \in Requests |->
                   [c \in {d \in active : Ended(r, d)} |-> ValueOf(task[r][c].result)]]

AcquisitionSpec == Promise!AcqSpec

(* docs/DATA_SOURCES.md:17: when the live call fails, the connector turns to
   the last successful snapshot.  What load_snapshot returns should then not
   be older than another one that could be read.                            *)
FallbackIsLastSuccess ==
    [][\A r \in Requests : \A c \in active :
        LET result == task'[r][c].result
        IN  (task'[r][c].pc = "done" /\ ~Ended(r, c) /\ result.kept)
            => \A f \in FilesOf(c, files') : ~f.torn => f.at <= result.at]_vars
=============================================================================

# eia-prescreen: a verification project

eia-prescreen screens a building site for environmental impact assessment. A client creates a
*screening* (a project at a place), has it *evaluated* (data of 22 public services and data
files are collected, 77 YAML rules give risk cards and a matcher gives regulations), has the
findings *interpreted* by an LLM, and reads them as checklists, drafts of an assessment report,
predicted opinions, comparisons and PDF reports. An administrator watches amendments of the
laws behind the rules, edits the rules and indexes past reports for retrieval. Paths below are
relative to `src/`; `app/` is `src/backend/app/`.

This directory has TLA+ models of that system, TLC runs that check them on small instances, and
TLAPS proofs for every value of the constants. `PROJECT.json` lists components, runs, mutants,
the map from definitions to source lines, findings, hazards and theorems.

## 1. Inventory

| component | state | operations | interacts with | hard because |
|---|---|---|---|---|
| screening store (`app/services/screening_store.py`) | `_in_memory` per process, `data/screenings/*.json`, rows in PostgreSQL | create, get, list_all, update_evaluation | every screening handler | three places for one record, several processes, writes that truncate first, swallowed failures |
| screening handlers (`app/api/evaluation.py`, `cases.py`, `screening.py`, `draft.py`, `review.py`, `compare.py`) | local variables across awaits | evaluate, interpret, report, regulations, checklist, draft, review, compare, get, list | store, fetcher, engine, LLM, database | a record read before an await and stored after it |
| law monitor (`app/services/legislation_monitor.py`, `app/connectors/legislation.py`, `app/api/admin.py:38-81`) | `_versions` per process, `data/law_versions.json` | law-status, law-check, law-acknowledge | law.go.kr, web banner | one await per law, whole-file writes by several processes |
| rule administration (`app/api/admin.py:84-270`) | `app/rules/v1/*.yaml`, `data/rule_changes.jsonl` | list, update, change log | rule engines (which cache the rules), tokens | read-modify-write of a file, log after the fact, no reload |
| users (`app/api/auth.py`, `app/core/auth.py`) | rows of users, tokens | register, login, refresh, authorize | all routers | check-then-insert, roles frozen in tokens |
| data fetcher, connectors, cache (`app/services/data_fetcher.py`, `cache_manager.py`, `app/connectors/`) | snapshots `data/snapshots/*.json` | fetch_all (parallel, 45 s each), fallback, normalise | 22 services and files | timeouts, partial failure, which snapshot is used |
| risk engine, matcher (`app/services/risk_engine.py`, `regulation_matcher.py`, `app/rules/v1/`) | `_rules`, loaded on first use | evaluate, match | fetcher's data, rules | conditions on missing values; two readings of the same data |
| checklist, composers (`checklist_generator.py`, `draft_copilot.py`, `review_predictor.py`, `quality_checker.py`, `pattern_advisor.py`, `report_generator.py`) | none | generate, check, predict | record, or data collected for the answer | lists cut short, tables of different ages, findings made twice |
| report index (`app/services/report_rag.py`, `app/api/rag.py`) | ChromaDB collection, a handle per process | load, index, rebuild, search | extraction script, draft assistance | rebuild while another process searches or indexes |
| LLM interpreter | none | interpret | record | an error text is an answer |
| web client (`frontend/src/`) | tokens, pages | calls, one retry, 90 s limit | all of the API | a retry of what is still running |
| case search, middleware, migrations, scripts | counters of libraries, files written by hand-run scripts | | | see section 6 |
| deployment | | | | decides the number of processes: `backend/Dockerfile:26` starts 4 |

What would make each correct: the store is *one atomic record per screening* whatever the
places it is kept in; a handler never brings back what it read before an await; an amendment
found is shown until the rules follow it; a rule file, its log and the rules applied agree;
rights end when they are taken; a failed service only hides risks; every document about a
screening tells the same findings; every card is in the checklist; an index that was built
undisturbed has every chunk's name, and made anew only chunks of the reports as they are; every request ends. The hazards in `PROJECT.json` give each of these
at its line.

## 2. Modules

| module | models |
|---|---|
| `ScreeningRegister` | the abstract promise of the store: one atomic record per screening |
| `ScreeningStore` | store, files, rows, workers and the handlers; implements `ScreeningRegister` |
| `LawMonitor` | the amendment monitor |
| `Acquisition` | the abstract promise of a data collection: each domain once, fresh, kept from before, defaults or nothing |
| `Connectors` | the shape of each connector's `fetch()`: keys, sources, what it takes for an answer, its last resort |
| `DataFetcher` | `fetch_all` over `Connectors` with the snapshot files; implements `Acquisition` |
| `Sublists` | keep some elements of a list, drop repetitions: what the code does with lists, in a form that can be proved about |
| `SiteData` | what the normalisers make of what the connectors bring, for a site |
| `RuleFiles` | the rules of `app/rules/v1`, one definition per file |
| `RiskEngine`, `RegulationMatcher` | the two readers of that data |
| `Documents`, `Drafts` | the checklist and the reports; the drafts, their check, statistics and opinions |
| `Assessment` | the handlers from evaluate to the documents, over all of these |
| `Accounts` | accounts, tokens and who may administer |
| `RuleAdmin` | update_rule, its files and log, and the engines' rules; beside `Accounts` |
| `ReportIndex` | the vector index of the reports and the processes that have it open |
| `MC*` | instances for TLC |
| `*Proofs` | the theorems |

`ScreeningStore` has the handlers' interleavings and treats an evaluation as a number;
`Assessment` has what an evaluation is, and treats a handler as one step; `DataFetcher` has what
a collection of data may meet, and `Assessment` takes from it only what arrived. Each abstracts
what another one models.

### ScreeningStore

| model | code |
|---|---|
| `mem[w]`, `file`, `db` | `_in_memory` of process `w`; the JSON files, which all processes share; the rows with their cards and matches |
| `saving[w]` | the `_save_to_file` call that blocks the event loop of `w`: `write_text` opens (and empties) the file, `SaveOpen`, then writes it, `SaveWrite`; `SaveFails` is the swallowed exception |
| `req[r]` | a request: the await its handler is in (`pc`), and the local variables it uses afterwards |
| an evaluation number | the lists of cards and matches: the n-th evaluation to finish leaves cards n and matches n, so that "older", "from the same evaluation" and "lost" can be said; `RiskFree` and `RegulationFree` are the evaluations whose lists are empty, which handlers confuse with "not found" |
| `DbAnswers` | what `check_db_connection()` may say; with both values each call is a new choice |
| `evaluated`, `answered` | history: evaluations finished, and the latest one a client was told about |

A worker is one asyncio event loop, so a step is what a handler does between two awaits that
suspend it: `get()` and `update_evaluation()` do not suspend when memory or file has the
record. Calls to the database are taken together with the step they follow; the database's
answer is chosen anew at each of them. `Evaluate` goes up to the collection of data and
`EvaluateFetched` from there to `update_evaluation`; `Interpret` goes up to the LLM call and
`Interpreted` from there; `Respond` is the rest of the handler after the write. The copy of an
evaluation to its row never commits: `screening.risk_cards` is not loaded with the row, and
its lazy load raises on an `AsyncSession` (`app/api/evaluation.py:160`).

`View` stands for checklist, draft, review and quality check, which share their shape: stored
cards, or an evaluation made for this answer. `Read` stands for get and report. `Compare` is the
comparison and its PDF: it reads rows and nothing else, answers with an empty demo reply
without a database, and with an error when an identifier has no row or is malformed
(`app/api/compare.py:40-74`). As the cards of a row never commit, every site it compares is
empty; the matrix and the recommendation, which would be of cards, are left out.

### LawMonitor

A version of a law is a number, 0 being the one the rules were written for (`20250218`), and
each amendment in force the next one. `versions[w]` is `_versions` of a process, `file` the
JSON file, `check[c]` a `POST /law-check` with the answers it has so far. `Answers` is the
version in force or nothing (an error, a timeout and an unknown law are all `None` in the
code). `Amend` is the legislature. A check ends by storing all answers and saving
(`FinishCheck`), or fails when the connector's own snapshot cannot be written (`AbortCheck`).

### Connectors and DataFetcher

`Connectors` has one record per connector class: which keys it cannot do without, its sources
in their order, whether it looks into an answer (`loose` takes any JSON, `deaf` turns its own
failures into an empty answer), and what it returns when nobody answered. `DataFetcher` runs
them: a task per request and connector, `Enter` up to the first remote call, `Return` from an
answer to the next call or the result, `Timeout` for `wait_for`'s 45 s, `Gather` when all have
ended. `Write` is `save_snapshot`, whose name for the file has connector, region and second;
`load_snapshot` takes the last name. A write may fail (`DiskFails`), or the process may die in it
(`CrashInSave`). `now` is the second of the clock.

### SiteData, RuleFiles, RiskEngine, RegulationMatcher

A site is what is there (zones, protected overlays, cover, air, traffic, dam and tide); a
reception says which connectors and layers brought nothing. `SiteData` makes of both the data
that `fetch_all_as_spatial_data` gives the engine, value by value as the normalisers do, the
ones they never fill left out. `RuleFiles` has every rule of the 19 files as field, operator,
threshold and severity; `RiskEngine` has the operators, the order of the cards and what makes a
rule silent (a field that is missing or has no value). `RegulationMatcher` has the three steps of
`match()`: zones, protected areas, thresholds of the project type.

### Documents, Drafts, Assessment

An evaluation is the sequence of its cards' rules and of its regulations. The documents are what
they tell of those: which cards are in which section, which entries are cut off, which items
are numbered how; `Numbered` is the counter that goes through the sections of the checklist. The
statistics of past projects are a constant (`Archive`). `Speaks` is, for
each subject of an expected opinion, the rules whose title or rationale holds one of its words.

`Assessment` has a screening with its record (`stored`) and the answer under way (`reply`);
every handler is one action. The record is the one in memory or in the file, or a new one
without an evaluation; a row never has another. `UsesRecord` is the test the code makes (`if stored_risks`): a
record without a card is taken for one without an evaluation. `Untyped` is what draft.py and
review.py compute for such a record: data collected without the project type.

### Accounts and RuleAdmin

A token is the user, role, type and expiry that were signed. Time passes in ticks of an access
token's life. No endpoint changes an account once it is made, so `Administer` is a change of
the users table by hand. `RuleAdmin` has the rule files as sequences of rules, torn files being
shorter; an update's steps are its file operations: `Begin` reads and changes, `Open` empties,
`Write`, `Log`. `engine[w]` is what the engines of process `w` have loaded, at its start, or
again when they have no rule at all (`Reload`). `clean` and `excused` are history: the files no
fault and no two updates have met, and those a process had a reason not to load.

### ReportIndex

Collections are numbered as they are made; `handle[p]` is the one process `p` opened, so that a
handle of a deleted collection can be told from a live one. A run of `index_reports` is a task
with the report whose turn it is, the sections read from its file and how many are done.
Deleting and making the collection are steps, and so is each section; the chunks of one section
are added in one step, because what could come between them either disturbs the run (another's
deletion, an extraction) or finds the names of this section's chunks and those before it as the
step leaves them. A chunk is named by report, heading and number, as in the code,
so sections under one heading share names and the first one stays. `Extract` is the extraction
script, which may leave a file that cannot be read. `calm`, `told` and `afresh` are history: a
run that nothing disturbed, and whether it began with an empty collection.

## 3. Runs

Bounds are in the `.cfg` files and the `MC` modules.

| run | instance | what it shows |
|---|---|---|
| `StoreSingle` | 1 worker, no database, 3 requests, 3 evaluations, 2 orderly restarts | the store is `ScreeningRegister` (`RegisterSpec`), files follow memory, every screening survives restarts, no reported evaluation is lost or repeated |
| `StoreWorkers` | 2 workers, a database that comes and goes, 2 requests, 2 evaluations, a crash and a failing write | what is left then: cards and matches belong together (`Paired`), row and file exclude each other (`OneHome`), no stale write takes back "evaluated" (`NeverUnevaluated`) |
| `StoreLive` | 1 worker, a crash, a failing write, fairness | every request ends |
| `LawOne` | 1 worker, 2 laws, 2 amendments each, 1 check at a time, 2 restarts | acknowledgements stand, the status served is the status stored |
| `LawMany` | 2 workers, 2 checks, 2 amendments, a crash, a failing write | the rules are never declared ahead of the law |
| `Fetch` | 2 requests, 2 sites, every connector alone and two of different shape together, three sets of keys, full disk, crashes, fairness | a collection keeps the promise of `Acquisition`, keeps snapshots, and ends although no service answers |
| `Assess` | 49 sites at the borders of the rules, among them one of each project type, 17 receptions | evaluation, regulations, checklist, draft, quality check, opinions and reports agree (ten properties) |
| `Rules` | 2 workers, 2 files of 2 rules, 2 updates, 1 fault or restart, 1 address with 2 registrations and 2 changes | the log explains the rules, an engine lacks a domain only for a cause, rights end with the token, a registration resets no account |
| `Index` | 2 processes, 2 reports, sections that share a heading, 1 re-extraction, 2 rebuilds, 1 restart | an undisturbed run leaves the names of all chunks in the index, and made anew it holds only chunks of the reports as extracted; only another's rebuild makes a handle fail |

Why these bounds. *Store*: each property is about one screening and its record; the actions of
different screenings meet only in a worker being blocked. Three requests let two handlers
overlap with a third; three evaluations let an interpretation be two evaluations late. The
evaluations 0 and 1 have no cards. *Fetch*: connectors share nothing but the directory of
snapshots, in which each has names of its own, so one connector alone, or two that interleave,
show what a fleet can do; two sites and two seconds make names sort against time. *Assess*: the
sites take every threshold of a rule that can give a card from both sides, each zone the matcher
or a rule names, and each type with a threshold or a scope of its own; the receptions lose each
connector and each layer once, and nearly all of them. *Rules* and *Index*: two of each actor
overlap; with one fault a torn file, a change without its log entry and a start during a
rewrite all happen, and with one re-extraction every part of a run may be older than its file.

Three runs expect a violation, and each is a disagreement with a text of the repository:

| run | the text in the repository | what happens |
|---|---|---|
| `StoreCached` | `app/api/evaluation.py:79`: cached when already evaluated | interpret before evaluate sets "evaluated": evaluate answers with an empty result |
| `LawBanner` | `docs/FINAL_EXECUTION_PLAN.md:454`: banner when outdated | acknowledged is never reset, so no later amendment shows the banner |
| `FetchFallback` | `docs/DATA_SOURCES.md:17`: fall back to the last successful snapshot | the last by name is of the site that sorts last, and older than the last success |

Others were met in the same way and have no run of their own; the configuration that shows each
is the named run with the change given. The comparison and the index are among the findings of
`PROJECT.json`, too.

| text | what happens | shown by |
|---|---|---|
| `app/api/evaluation.py:187`: kept in memory | the evaluation of a screening with a row is kept nowhere | `AnsweredEvaluationSurvives` in `StoreWorkers` |
| `app/services/screening_store.py:6`: restored after a restart | a crash between truncation and write loses an evaluation that was on disk | `Restorable` in `StoreSingle` with `AbruptRestart` |
| `app/api/compare.py:35`: compares up to three screening results | it reads rows alone, whose cards never commit: every site is empty, and the first one asked for is called the best | `ComparisonShowsTheEvaluation` in `StoreWorkers` |
| `README.md:164`: the extracted text is indexed | of two sections of a report under one heading the second loses its text | `IndexHasTheText` in `Index` |
| `app/api/evaluation.py:79`: no second call | with two workers the second has the old copy and evaluates again | `EvaluatedOnce` in `StoreWorkers` |
| `app/api/evaluation.py:257`: database when not in memory | 404 for a screening that is in memory with no match | `InMemoryIsFound` in `StoreSingle` |
| `docs/FINAL_EXECUTION_PLAN.md:452`: outdated once detected | a check without an answer erases the amendment | `DetectedIsOutdated` in `LawOne` |
| `frontend/src/app/cases/[id]/page.tsx:383`, the brief's main risks at a glance | the brief counts severities that no card has; its table is zero for every site | `BriefCountsTheRisks` in `Assess` |

Smaller ones, told here only: `docs/PROJECT_AUDIT.md:126` says that create writes memory, file
and database, and it writes the row alone when the database answers; with several workers
`get_status` returns the copy of its process, not the "stored" status its docstring names
(`StatusIsStored` needs one worker); two administrators on two workers lose an update, and a
rule changed is applied only by processes started later (`clean` and `excused` in `RuleAdmin`
name these cases, and the properties hold outside of them); a process keeps the handle of a
collection another one has deleted until it restarts; a run without overwrite keeps the text of
an earlier extraction under its names; chunks overlap by 50 characters
(`app/services/report_rag.py:34`) where `docs/DATA_SOURCES.md` says 100; a section whose LLM call
fails says it is replaced by the draft from the rules (`app/services/draft_copilot.py:911`) and is
that sentence alone (`SectionReply`); the sections on the sea and on odor take more project types
than their docstrings name (`app/services/draft_copilot.py:553`, `:584`), as the emphases need
(`EmphasisIsInScope`). The draft's table of laws has ten rows (`app/services/draft_copilot.py:336`)
in the matcher's order, zones first: at a site in every zone the absolute restriction around
cultural heritage is the eleventh and is left out, and with more zones than the model has, others
would be. Nothing in the repository says they should not, and `DraftTellsTheWorst` is about cards.

Every property of a passing run has a mutant, an operator next to the one it replaces: a
dropped save, a status that is not set, a record rebuilt or taken from before the await, a row
cached in memory, an update made from the engine's copy of the rules, a loader that gives up at
the first bad file, a role carried over by a refresh, a handle that is not renewed, a chunk
added without a look at what there is, a cap below what the past may say, scopes as narrow as the docstrings,
a list of mitigations one short.

`CHECK_DEADLOCK FALSE` in `Rules`: time and the changes of accounts are bounded there, and
nothing is left to do once they are used up.

### Fairness

`StoreLive` assumes `WF` of the two steps of a write (a file write ends), `SF` of the steps
that continue a handler, and `WF` of delivery. A handler waits for connectors, each under
`asyncio.wait_for(…, 45)`, or for the LLM client, which has a timeout of its own, so what it
waits for happens; then it is in the event loop's ready queue, which is served in order. It is
`SF` and not `WF` because other requests' writes block the loop again and again and the
handler is ready only in between.

`Fetch` assumes `WF` of entering a task, of a timeout that is due and of `Gather`, all of them
the event loop's own work. It assumes nothing of `Return`: a service need never answer, and
`EveryFetchEnds` rests on the timer alone. Nothing is assumed anywhere about clients, restarts
or failures.

## 4. Proofs

Constants are arbitrary, under the named assumptions of the modules.

`ScreeningStoreProofs`:

* `TypeCorrect`. `TypeOK` is not inductive: `Interpreted` reads `mem[w][id]` as a record. The
  invariant adds `HoldsRecord`: a request in its LLM call still has its record where it found
  it, since memory grows until the worker ends, and rows are not deleted.
* `FindingsStayTogether`, for any number of workers, crashes, faults and a flapping database.
  The invariant adds that the cards and matches in a handler's variables are a pair too.
* Under `OneWorkerOnFiles` (one worker, no database, no failing write, no crash inside a
  write): `FilesFollowMemory`, `RestartLosesNothing`, `AnsweredEvaluationsSurvive`. The
  invariant: a file is torn exactly while it is being written, what is being written is in
  memory, what memory or file has of a created screening is its last evaluation
  (`HeldIsLast`), and no handler or client knows of a later one (`JobsBehind`). The four
  parts of the assumption are each needed: the disagreements above refute the theorem without
  them.

`ScreeningRegisterProofs`, under `OneWorkerOnFiles`:

* `StoreImplementsRegister`: the refinement. Each step of the store is one step of
  `ScreeningRegister` or a stutter under the mapping `Register` of `ScreeningStore`. The
  invariant is the one above with `Paired`, and two more parts: an interpretation under way is
  about an evaluation that has happened, and what has been evaluated says so
  (`SaysEvaluated`). The steps of a write and a restart are stutters because `Held`, memory or
  else file, does not change in them.
* `EvaluatedAtMostOnce`: `EvaluatedOnce`, from `SaysEvaluated` and `JobsBehind`.

`ScreeningStoreProofs` again, with no assumption on workers, database, crashes or faults:

* `OneHomeOnly`: a row excludes memory and file. Needed besides: what was not created is
  nowhere, and what is being written has no row.
* `NeverTakenBack`: `NeverUnevaluated`. Needed besides: while the first write of a new
  screening is under way nobody else has seen the screening, so that it is the only write of
  a record that is not evaluated, and no evaluation of it has been reported.

`LawMonitorProofs`: `TypeCorrect`; `NeverAheadOfTheLaw` for any number of workers, checks and
laws (answers in flight, copies and file are all bounded by what is in force); and, under
`OneAtATime`, `AcknowledgementsStand` and `StatusServedIsStored`.

`DataFetcherProofs`: `TypeCorrect` (a value read from a snapshot has its shape because the last
name is a name of one of the connector's files, which exist when it is read); `SnapshotsStay`;
`FetchImplementsPromise`, the refinement of `Acquisition` for any number of requests, sites and
connectors: each step is a `Fill`, a `Discard`, a `Publish`, a `Lose` or a stutter.

`RuleAdminProofs`:

* `TypeCorrect`, `RegistrationKeepsAccounts`.
* `RightsEndWithTheToken`. The invariant `RightsInv`: a token's role is the one the account has,
  or had until `adminUntil`, and an access token expires within its life of that.
* `LogTellsTheRules`. The invariant `LogInv`: between updates a clean file is what the log makes
  of the release; while its one update is read, opened or written, the data it holds is what the
  log will make of it.
* `EnginesLackNothingUnexcused`. The invariant `EngineInv`: a clean file that nobody rewrites is
  whole, its rules loadable unless excused, and what an update is about to write is so too.

`ReportIndexProofs`:

* `TypeCorrect`, and `OnlyAnotherRebuildFails`: `RebuilderAnswers` from `MakerHasIt`, the
  process that made the collection that is there has it open or has started anew.
* `UndisturbedRunTells`: `IndexTellsTheReports`, from `TellsInv`. A calm run has the name of every
  chunk of the reports before the one whose turn it is, and a live one of the sections it is
  past; while the collection is fresh, whoever can write reads what is extracted now and has
  added the sections before, so that a chunk is of the first section that has its name
  (`Faithful`). The theorem is about names and, after a rebuild, about the text of those first
  sections; the text of the others is lost, as `IndexHasTheText` shows.

`SublistProofs`: the laws of `Keep`, `Distinct` and `FlattenSeq` for every list. `Keep` takes a
set where `SelectSeq` takes a test, so that its laws can be stated. `NatLessThanWellFounded` gives
that a set of numbers has a least one, from which come the recursive functions behind the
operators (`KeptExists`, `FlatExists`) and `SequencesByInduction`: a set with the empty list that
is closed under `Append` has all the lists. Each law is such a set.

`AssessmentProofs`, all the properties of `Assess`, for any rules, sites, receptions and
statistics that meet the named assumptions:

* `IInv`, the invariant: the record is as it was created or has one evaluation of its site
  (`Recorded`), and a reply is the document of the record or of data collected for it
  (`Answered`). `TypeOK` alone says nothing of where a reply comes from. No request replaces
  a record unless it answers as an evaluation does. What is left are facts about the operators.
* `PartialDataOnlyHides`: partial data say the same as complete data, or nothing, or that a flag
  is not set or the grade is another than the first, field by field (`SaysLess`), and rules ask
  only for flags that are set and for the first grade. The counts of the
  summary need besides that a list without repetitions is as long as its set (`CountsHide`).
* `RulesAndMatcherAgree`: for each of the seven lines, the rule's card and the matcher's regulation
  are shown to stand for the same condition on the data. The last one needs that a zone conflict
  is of the first grade or a farm zone.
* `DraftsMissNoOtherRisk`: the data collected without the type differ in three fields.
* `TheWorstIsTold`: sorting is stable and done once (`SortedOnce`), and of a list in two parts a
  beginning has all of the first part or nothing else (`FirstOfTwo`).
* `EmphasesAreInScope`, `OwnDraftPasses`: the tables compared, the lists cut at five being the
  same list on both sides.
* `ChecklistIsComplete`: a section with nothing in it can be dropped (`DropEmpty`), items numbered
  section by section are numbered through (`NumberedThrough`), and the four severities put
  together are the cards in their order.
* `RiskRaisesTheOpinion`: the ranks of the opinions are a permutation, being different numbers up
  to the length of the list (`RankIs`), and opinions with and without cards are of the same shares.
* `DocumentsOfOneEvaluation`, `TypeCorrect`.

The assumptions of `Assessment` and what it extends are that rules have different identifiers and
one of the four severities, that the sites and statistics have their shapes, and
`RuleFilesAssumption`: what the theorems take from the rule files. TLC evaluates all of them for
the release's rules. An administrator can set the value a rule compares with to anything
(`app/api/admin.py:187`): a flag's rule that no longer asks for 1 leaves `RuleFilesAssumption`, and
`PartialDataOnlyHides`, `RulesAndMatcherAgree` and `DraftsMissNoOtherRisk` say nothing of it; a
value that is no number leaves `RulesAssumption`, and no theorem of this module speaks of it.

Only model-checked: `EveryRequestEnds` and `EveryFetchEnds` (liveness is beyond the prover).

## 5. Bounds that matter

The instances bound only what is model-checked. What they leave out: more than two processes in any run; sites between the thresholds, which no rule
tells from those at them; the statistics of types other than the three in `MCArchive`.

## 6. Not modelled, and plan

Not modelled:

* Wording and layout of texts, prompts and PDF files; what the LLM and the embedding model
  answer, beyond text, error or nothing; the similarity of texts in the index.
* Case search (`case_search.py`): a filter over a file read at start, without a state that a
  request changes.
* Middleware: rate limits, metrics and logs are counters of libraries no handler reads back;
  the error handler turns any exception into a 500, which `Assessment` has as `Failed`.
* The web client: its one retry of evaluate is a second request in `ScreeningStore`, which may
  begin at any time and overlap the first one.
* Migrations: generated; what a row holds is in `ScreeningStore`.
* Collection and test scripts: run by hand, outside the server; the one the server's state
  depends on, the extraction of reports, is `Extract` in `ReportIndex`.
* The comparison of sites with cards: the matrix, the scores and the recommendation of
  `compare.py:98-201`, and its PDF. No row ever has a card, so that no run of the program
  reaches them with one.
* Within the modelled parts: malformed identifiers (but for the comparison's), response
  formatting, the parsing of the portals' formats (taken as the value it yields), and the
  conversion of cards between objects and dictionaries.

What could follow, in this order: the web client with its time limit composed with
`ScreeningStore`; the crawler of past reports, with its manifest and its resumption, in front of
`ReportIndex`.

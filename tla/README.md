# Verification of the energy agent service

This directory holds TLA+ specifications of the energy agent (`src/`): a FastAPI
service that answers questions about mobile cells and energy saving with a tool-calling
language model, keeps conversations in PostgreSQL, and speaks a Dify-compatible API to
`chat.html` and to other systems.

## 1. The system

| component | source | state it keeps | operations |
|---|---|---|---|
| HTTP API | `app/api/routes.py` | none between requests | chat (stream or blocking), list, read and delete conversations, health |
| session persistence | `app/services/database.py`, `app/agent/messages.py` | `agent_conversations` (transcript), `agent_session_states` (agent memory and version) | `load_*`, `save_conversation`, `delete_owned_conversation` |
| event adapter | `app/agent/dify_events.py` | the result of one reply, its open tool calls | one handler per agent event |
| message store and metrics | `app/services/message_store.py`, `agent_request_metrics` | an external store; one row per request | notify after the save; insert a row |
| agent loop | `app/agent/*` | working memory, tool schemas, model budget, current task of one request | plan, act, direct answer |
| task context | `app/services/query_scope.py` | the structured parameters of the current task | normalise, reduce |
| business query | `app/self_service/*` | catalog snapshot, load lock | load, search, plan, validate, compile, execute |
| energy tools and rules | `app/tools/*`, `app/services/energy_*.py`, `cell_resolver.py` | none | fetch with fallback, decide, report, export; for one cell, for the cells of an area, for the networks of a scope |
| readiness | `app/services/database_readiness.py`, `main.py` | `ready`, `_prepared`, the background loop | check, warm up, gate |
| chat page | `chat.html` | active conversation, open stream, waiting messages | send, stop, switch, new, delete |
| deployment | `scripts/*` | the project directory, its backups, a running container | unpack, verify, replace item by item, restart, poll |

The daily imports that fill the tables of the tools, docker and the host are not part of
the repository; they are modelled as what they can do to it.

**Interactions.** A chat request passes the readiness gate, loads transcript and memory
(two statements), runs the agent with no database session open, and saves the pair with
an optimistic version check. While the agent runs, its events go through the adapter to
the client; `message_end` waits for the save and for the metrics row. The page talks to
all of these over HTTP and sees only responses, in any order.

**Hard behaviours.** Concurrent turns and deletions of one conversation; locks of two
tables; saves that fail half way or whose commit reply is lost; clients that leave and
processes that stop at any await; envelopes that promise what is not stored; databases
that hang rather than fail; responses that overtake each other in the page; a tool batch
in which one call succeeds and another fails; tables that are imported between two queries of
one report; an update that stops between two moves. `PROJECT.json` lists them
under `hazards`, each with its line and the properties aimed at it.

**What makes each part correct.**
Persistence: turns of a conversation are serial, transcript and memory agree, accepted
turns are kept, refused ones leave no trace, deletion is final, users are separate, no
deadlock. Delivery: an end means stored, an error not stored, one outcome, what is stored is what was
streamed, notifications and metrics tell the truth. Readiness: recovery and outage are
noticed, the catalog is loaded once, queries are answered. Page: a stream never moves the
page to another conversation, typed messages are sent. Agent
loop: no answer without evidence of this turn, a direct answer leaves no result out, the
waiting is bounded, the task that is carried over is the one the user's words lead to.
Energy rules: a negative conclusion is a fact of the data, neighbours are dropped only
for cause; what two pieces of code say of one cell or one day agrees; the figures of an overview or a
report are of the day and the scope it names. Deployment: the old source survives any number of
failed runs, the result file is true, half a release is not served. Query: a plan that validation accepts is a statement that runs, joins that are not asked
for multiply no rows, the days that are read are bounded, an answer is whole.

## 2. Modules

| module | models | composed with |
|---|---|---|
| `SessionLedger` | abstract: a conversation is a list of turns with one owner; adding a turn and deleting are single steps | |
| `ConversationStore` | `database.py` and the load/save path of `routes.py`, statement by statement | implements `SessionLedger` (`INSTANCE ... WITH`) |
| `ConversationStoreProofs` | theorems about `ConversationStore` | extends it and `TLAPS` |
| `ChatDelivery` | `dify_events.py`, the two chat handlers, the notification task and the metrics row | sees the save as one action with three outcomes, those of `ConversationStore` |
| `ChatDeliveryProofs` | theorems about `ChatDelivery` | extends it and `TLAPS` |
| `ChatPage` | the script of `chat.html` | sees the server as what it stores and answers |
| `ChatPageProofs` | theorems about `ChatPage` | extends it and `TLAPS` |
| `ServiceReadiness` | `database_readiness.py`, the gate in `main.py`, the catalog's load lock | |
| `ServiceReadinessProofs` | theorems about `ServiceReadiness` and `Deploy` | extends the first, `ServiceUpdate` and `TLAPS` |
| `TaskContext` | the pure part of `query_scope.py`: how words change the current task | used by `AgentTurn` |
| `AgentTurn` | the loop of a turn with the four middlewares of `app/agent`, over several turns | extends `TaskContext` |
| `AgentTurnProofs` | theorems about `AgentTurn` and `TaskContext` | extends it and `TLAPS` |
| `EnergyRules` | the pure rules of `energy_analysis.py` and of the neighbour lookup | used by the next |
| `AnalysisState` | the state and the days that both analyses have | extends `EnergyRules` |
| `EnergyAnalysis` | `analyze_single_cell_energy`, beside the imports | extends `AnalysisState` |
| `BatchAnalysis` | `analyze_batch_cells_energy`, beside the imports | extends `AnalysisState` |
| `AreaAnalysis` | `BatchAnalysis` under names of its own | `INSTANCE BatchAnalysis WITH`; the module that is checked |
| `EnergyAnalysisProofs` | theorems about `EnergyAnalysis`, `EnergyRules` and `BatchAnalysis` | extends `EnergyAnalysis`, `AreaAnalysis` and `TLAPS` |
| `NetworkReport` | `query_report` and `query_anomaly`, beside the imports | |
| `NetworkReportProofs` | theorems about `NetworkReport` | extends it and `TLAPS` |
| `BusinessCatalog` | tables, grains and relationships of `business_data_catalog.yaml` | data of `MCBusinessQuery` |
| `DateRange` | conversion, default and check of date filters in `query.py` | used by `QueryPlan` |
| `QueryPlan` | `models.py`, `relationships.py` and `validate_query_plan` | extends `DateRange` |
| `QueryStatement` | `build_business_statement` and the joins of its FROM | extends `QueryPlan` |
| `BusinessQuery` | `service.py`, `planner.py`, `direct_planner.py`: one question to its answer | extends `QueryStatement` |
| `BusinessQueryProofs` | theorems about `BusinessQuery` and the modules it extends | extends it and `TLAPS` |
| `Deploy` | `deploy_production_update.sh` beside docker and the host, and the order of `verify_production_patch.py` | |
| `ServiceUpdate` | `Deploy` under names of its own | `INSTANCE Deploy`; the module that is checked |

Two components are instances in a module of their own (`AreaAnalysis`, `ServiceUpdate`), so that
their theorems can stand beside those of the component they belong with: the analysis of an area
beside that of a cell, the update of the service beside what the service does. Their properties carry the prefix `Area` or
`Update` there (`AreaOverviewIsTrue` is `OverviewIsTrue` of `BatchAnalysis`).

Each checked module has an `MC` module with its instance and one `.cfg` per run. An
operator marked *mutant* in a module is a plausible mistake in the definition that
follows it. It is used nowhere else; substituting it for that definition must make a run
fail, and `PROJECT.json` says which property.

### How the models correspond to the code

**ConversationStore.** `conv` and `state` are the committed rows of the two tables,
`convLock` and `stateLock` the row locks of PostgreSQL at READ COMMITTED, `draftConv` and
`draftState` what an open transaction has written. `pc` names the next statement of a
request: `load_conversation`, `load_agent_state`, the agent run, then
`SELECT ... FOR UPDATE`, the upsert of the transcript, the write of the memory under
`WHERE version = ...`, `COMMIT`; or the four statements of a deletion. A
transaction may abort at each statement; the reply to a commit may be lost, and a request may be
cancelled at any await. A turn is named by the request that produced it and a message
list is the list of its turns; `Legacy` is the transcript of a conversation older than
the memory table. UUIDs of new conversations are never reused (`issued`).

**ChatDelivery.** One request. `agent` and `agentCall` say what the agent has announced;
`result`, `calls` and `position` are the adapter's fields; `phase` is where the handler
is, `ending` the envelope it holds back, `sent` what the client has received, `turn` what
the transaction stored (as a number of text deltas), `notice` the fire-and-forget task,
`rows` the metrics rows. Usage and latency are left out. Cancelling a stream and
stopping the process are actions of their own. A blocking handler runs on when its client
leaves. After the agent's reply end only `internal_error` can be raised.

**ChatPage.** `conversationId` is the page's variable; `history` says whose stored
messages fill the page; `stream` is the reader and how far its request is; `timers` are
the 200 ms timeouts; `switching` and `deleting` the fetches in flight. The handlers are
split at each `await`. The sidebar is a choice of any stored or erased
conversation (the list may be stale), a message is a submission and not its text, and the
service is ready throughout.

**ServiceReadiness.** `db` is up (it answers within the timeouts), down (it refuses) or hung (a
statement is sent and nothing comes back). `loop` is where the background task is;
`ready`, `initialized`, `prepared` are the fields of `DatabaseReadiness`; `pc`, `queue`,
`holder` and `snapshot` are the catalog's users and its `asyncio.Lock`, which is granted first
come, first served. `self_service_enabled` is true; requests end before
shutdown does; disposal of the engine is left out.

**TaskContext, AgentTurn.** A user's text is a record of what the parsers find in it
(`words` and the flags the regular expressions set). A cell name and a CGI are one field,
dates are left out, features are those left when the requery words are stripped. `Reduced`
is `_reduce_task`, `Scope` is `normalize_tool_scope`. In `AgentTurn` one action is one step of the
agent loop between two waits: planning, a model call with its timeout and retry, the
start and end of each tool call of a batch, the direct answer, the end of the turn, which
the store accepts or refuses. The model obeys the tool choice it is given and is free in
everything else. The two waits of one call are one, token usage is left out.

**EnergyAnalysis.** `loaded` is the last day each table holds, `cell` everything the
tables hold for the cell, `date` is `query_date`, `job` how far the concurrent sections
under `asyncio.gather` are, and `exp`, `con`, `pre`, `param` what they have read. The report
is a function of these. Thresholds are classes (an hour is *low* or *busy*, a neighbour
within 100 m, within 200 m or *far*). The three queries behind the constriction section read
tables that do not change during the call and are one action. Rendering and the truncation of
long lists are left out, as are base information and the process evidence status.

**BatchAnalysis.** `latest` holds the maximal date read from each table, `date` the common one,
`job` how far the concurrent reads are, `exp`, `con` and `pre` what they have read. A report of the batch
gives numbers of cells; the model gives the sets of cells that are counted, and `Row` and `IsProblem` are the
texts of the summary and `_filter_empty_cells`, which reads them again. One filter, `area`, stands for the
nine columns; it has the same value in both tables. Excel sheets and wording are left out.

**NetworkReport.** One call of either tool. `loaded` as above, `latest` is `get_latest_date`, `span` the days of the
statement, `got` for each network the target row and the baseline rows. The seven scope columns are two: `city`
for those that both tools name, `rest` for those only `query_report` does. A row has seven kinds of
figures: the share of energy saved, the energy of all stations and of one, traffic (which also stands for the efficiency),
the number of inefficient cells, the energy saved, and `hours` for every count of stations, cells and hours. Each tool
compares a list of its own, as in the code: `ReportMetrics` is that of `query_report`, one per network, and `CoreMetrics`
that of `query_anomaly`. The energy of all stations and the energy saved are in kWh, which the report rounds to hundredths of
10 000 kWh (no value is exactly between two); the other figures are compared as they are stored. A date that does not parse is a choice of `Fail`; one that is written without its zeros
compares as text and is left out.

**Deploy.** `tree`, `stage` and `saved` say which version of each item lies in the project, in the staging directory and in
the backup of each run; `step` names the next command, `item` the turn of the loop; `wanted` and `code`
are docker's container and the source its process has loaded; `said` is the last line of the result file. `CommandFails` is any
command that fails (the trap writes a line), `Killed` the end of the script without a trap.
Assumed: runs do not overlap, and the backup is on the same file system as the project, so that a `mv` is one step. What
the verification looks at is one value, `Fails`; its load test, in a container of its own, is left out.

**BusinessQuery.** `step` is where `query()` is, `candidates` what the search found and
`complete_candidates` added, `pending` the plans still to be run (two for a dimension of both
networks), `query` the validated plan, `selects` the statements that returned. The plans made without the model are fixed: `ValuesPlan`
shows and groups by one column of one table, `DirectPlan` shows one table on one day. The model
answers any plan of `Plans` that `BusinessQueryPlan` admits, and may fail or err twice.
`Structured` is `validate_query_plan` up to the filters, in its order; `Tree` and `Path` are
`orient_relationships` with the expansion towards a downstream detail. A statement is
described by what PostgreSQL and SQLAlchemy look at: the tables joined directly (`Direct`), those
behind a branch (`BranchRoots`), the bare and the grouped columns, the tables that are named without
being joined, which SQLAlchemy adds to FROM (`Implicit`). `From` evaluates the outer joins over
small tables. Besides its keys a table has one column, `value`. Time is counted in half days, so
that midnight and a time of day differ. Filters on anything but the base table's date only
remove rows and are left out, and so are limits, exports, dates with a time zone and the rendering.

## 3. Runs

| run | module, configuration | asks |
|---|---|---|
| `store` | `ConversationStore`, 1 id, 2 users, 3 requests | do concurrent chats and deletions stay serial, whole and separate, implement the ledger, and end? |
| `delivery` | `ChatDelivery`, 2 tools, 3 deltas | do end, error, notification and metrics agree with what is stored? is there always an outcome? |
| `page` | `ChatPage`, 2 ids, 2 messages, 1 fetch | does a late event ever move the page? are waiting messages sent, and refused only for a cause? |
| `page_switch` | 2 fetches | *violated*: a late response fills the wrong page |
| `readiness` | `ServiceReadiness`, 2 queries | is one catalog loaded, are recovery and outage noticed, are queries answered? |
| `agent` | `AgentTurn`, 2 turns, 2 calls, 2 steps | is every answer founded on this turn's results and within the budget? does a direct answer leave nothing out, and every turn end? is the task of the next turn made of the user's own words? |
| `energy` | `EnergyAnalysis`, 98 cells, 18 calls, 2 imported days | is every negative conclusion a fact, whatever is imported meanwhile or fails? do the report's parts agree? |
| `batch` | `BatchAnalysis`, 36 pairs of cells, 15 calls, 3 tables | is every figure a fact of the day it names? does the list of problems hold what the figures count? |
| `report` | `NetworkReport`, 18 contents, 52 calls, 5 days | is all under a report's date of that date and scope? is what the diagnosis calls worse a deviation of the report, where the report looks at it? |
| `anomaly_week` | the same, with one row for each scope and day | *violated*: the baseline of the diagnosis has rows of several scopes |
| `query` | `BusinessQuery`, 9 tables, 10 relationships, plans of up to 3 tables | do accepted plans run, count nothing twice, read a bounded number of days, and give whole answers? |
| `deploy` | `Deploy`, 3 items, 5 releases, 3 runs | is the old source kept, the result file true and the service whole, wherever a run stops? |

**Bounds, and why they are enough.** *Store:* a conflict needs two requests with the same
stored version, a deletion between load and save a third. Conversations share nothing but
the ids: with one id all three requests compete for the same rows and locks, and a foreign
user is the second one; the theorems cover any number of ids. No symmetry is used, because
liveness is checked in the same run.
*Delivery:* two calls can overlap in every way, and three deltas tell "some", "all" and
"none" of a text apart. *Page:* one fetch and one stream suffice for every property that
holds; overtaking fetches need two. *Readiness* has no bound but the number of queries:
two compete for the lock with the warm-up. *Agent:* the context of one earlier
turn is what a later turn can confuse with its own; two concurrent calls and two steps
give a batch with a failure and a step after it; the budget of one wait is spent by the first
wait, so that the second meets an empty one. Seven texts (a task, another
city, a cell, a task of the whole province, a report about a vendor, a question about the last answer, a question for guidance) and
two proposals take `_reduce_task` through a new task, one of the whole province, a task whose city or cell is replaced,
a question that refers back, and a text that leaves no task. Ambiguous texts, counties, levels and targets that are
carried over, proposals for other functions, and a condition that
is carried over any number of turns are for the theorem. *Energy:* a window of two days and days 2 to 3
make the window's first day, the shown day and a day that is not yet imported differ; two
hours give every pair of a candidate and another hour; the cells are chosen so that each
rule sees every class of its inputs. *Query:* the plans are all sequences of up to three
connected tables of the catalog (`lte_*` and the `_400` and `_500` tables repeat entries of the
others), every order of their relationships, every grain they know, and requests that show, group,
order or sum a key or the value of one or two tables; rows of one cell on two days,
two wherever a table stores several for a cell and a day: a join that multiplies does so
there. A window of one day, a limit of two days and four days of values put every operator on
both sides of the limit, alone and with a second filter. *Batch:* two cells of two areas, so that a filter
drops one; six situations in which each figure counts a cell and another does not; three days, so that each
table can be empty, a day behind and grow between any two queries, and the window of two days of load has a day
outside it. *Report:* five days with a baseline of two (seven in the code; only its length differs): a
date can lie before, on and after the newest day of either table, and a scope can begin late, miss values, or have two rows.
*Deploy:* three items are two that a run wants and one that is new; the third run meets what two
failed ones left. A reboot and a restart happen once each; the theorems cover any number of all of these.

**Fairness.** `ConversationStore`: the database executes a statement that is not blocked
by a lock (weak fairness of each save and delete; nothing is assumed of arrivals or
of the model). `ChatDelivery`: the agent's reply is bounded by its steps and its budget, and the
event loop resumes a handler; client and process may leave at any time. `ChatPage`:
a timer fires and the conversation list arrives or fails; answers need not arrive.
`ServiceReadiness`: sleeps and timeouts end and the event loop resumes tasks, but a
statement lost in a silent database never answers. `AgentTurn`: a deadline fires, a
tool returns and the loop goes on; the model need not answer.

**Deadlock** is checked where nothing ends (`readiness`). The other models end: a request, a page with no more messages,
a conversation of `MaxTurns` turns.

### What the violated runs show

`PROJECT.json` quotes the line of code and the text it disagrees with. `page_switch`: two
clicks in the sidebar whose responses arrive in the other order leave the page showing the messages of the conversation
clicked first, while the one clicked last is active and gets the next message. (A click on "new conversation" while a response is
out has the same cause: the old messages then fill the empty page. `ShowsActive` speaks of stored conversations only.)
`anomaly_week`: a city has a row for the whole of it and one for a county; `query_anomaly` selects by city and vendor only, so
that both get into one baseline, and either may be the target. Bands, site types and areas mix in the same way.

### Disagreements that no run checks

Each was met while modelling; the model does what the code does, and where a property would be
violated its comment names the exception.

- In blocking mode every failed agent run is answered `agent_error`, a timeout too (`routes.py:369`), where the design of
  2026-09-23, line 167, wants `model_timeout`. `EnvelopeIsTrue` speaks of the code only while streaming.
- Stopping the first answer of a new conversation leaves an id in the page that
  the server does not know, and the next message is refused with 404 (`chat.html:1495`; the comment at line 1695 says that one
  may stop and send). `RefusedForCause`, a part of `MessagesArrive`, excepts it.
- A city named after a cell keeps the single-cell tool and hands it `dist_name`, which
  that tool does not take; likewise a report or a parameter check keeps its tool when a cell or a county is
  named (`query_scope.py:184`; line 181 says that a change of granularity drops
  the old conditions). The schema refuses such a plan and the model is asked instead. `FollowUpFits`, a part of
  `TaskIsCarriedOver`, therefore speaks of the area function only.
- The parameter check of a cell keeps a city that the model proposed and the user never named
  (`query_scope.py:215` returns its arguments as they are, where for other tools the user's scope overrules them). `BesideCell` in `TaskIsTheUsers` excepts it.
- Hours of the process joined with the hours before sleep are accepted at grain `hour`, and every pair of the
  two is shown (`query.py:201`; `business-data-self-service.md:73` wants two detail axes rejected). `OnlyDetailMultiplies` excepts it.
- The overview of an area counts a cell that only the constriction table holds as highly loaded, although nothing
  says so (`batch_energy_tool.py:718`); on the whitelist the expansion table alone decides. `FiguresAreFacts` excepts both.
- `query_report` leaves a network out without a word when its table lacks the day, and calls the
  highest of all days before the last one the peak of seven days also when the span asked for is longer. The report does not
  say either; `ReportIsOfItsDay` holds for what it does say.
- `query_anomaly` diagnoses traffic, efficiency, the number of inefficient cells and the energy of a single 5G station
  (`anomaly_query_tool.py:31`), none of which `query_report` compares (`report_query_tool.py:106`): a fall in traffic is
  worse for the one and is never a deviation of the other. `WorseIsReported` excepts these (`NotListed`).
- Energies are rounded to 100 kWh before the report compares them, so that at small energies it and `query_anomaly`
  disagree, and a peak below 50 kWh rounds to nothing, so that the report never compares with it:
  `WorseIsReported` excepts 200 kWh and such peaks. (The two also differ on purpose: the report lists every
  change by a tenth, the diagnosis what is worse by more than a tenth.)
- A restart of the docker daemon during an update starts the service on half a release, `docker start` then has
  nothing to do, and the script says "ready" (`deploy_production_update.sh:52`). `ResultIsTrue` excepts it.

Not stated as properties, because no text of the repository decides them, or because no run was spent on
them: a request that loads the catalog itself has no timeout, unlike
the warm-up, so a lost statement blocks every later query behind the lock
(`docs/operations/business-data-self-service.md:55`; `QueryAnswered` assumes it away and
says so); `LEAST` ignores the NULL of an empty expansion table, so a full analysis takes the other
table's date and says that no hour is to be expanded (the model has all tables hold `FirstDay`); a
full analysis does not consider the date of the pre-sleep table, so its count may miss
the day shown; a cell whose checked parameters are all missing is reported compliant; a text with "这个结果"
keeps the previous city although it names a new one (`query_scope.py:185`).

**What the properties of `BusinessQuery` except.** `AcceptedRuns` excepts two shapes that
validation accepts and the database refuses or answers with a product, and both
can be met with the shipped catalog: a branch whose first relationship starts at another table than the
base (expansion, constriction and parameter items at grain `constriction_record`: the branch's ON names
the constriction table, which its FROM lacks, so that the answer is always
"业务数据查询暂时失败"), and a grain whose owner lies in a branch (parameters of a cell with the
expansion at `cell_day`: the owner's columns are named but its table is not joined). `OnlyDetailMultiplies` excepts
three kinds of plan in which rows are multiplied: the relationship of a date window walked
backward, which is taken for many to one (hours before sleep with the expansion, at the default grain,
where the design promises "避免小区数和指标被重复放大"); a base that owns the detail grain and joins
another table of that detail; and a detail reached through a table of
other details (expansion, constriction, hours before sleep: a sum over the expansion
counts each row once for each pair). No run shows the exceptions; each
is stated here and at the property. Besides: `group_by` without an aggregation is ignored
when the base is stored at a finer grain, although the planner is told to fill it
(`planner.py:122`); an `in` with no values raises an exception that `query()` does not
catch (`raised`); the error at the end of `_partition_edges` cannot be reached.

## 4. Proofs

`ConversationStoreProofs` proves for every set of ids, users and requests, from
`StoreAssumption` alone (the special values are not ordinary ones, and there are users and ids):

| theorem | says |
|---|---|
| `TypeCorrect` | `Spec => []TypeOK` |
| `Inductive` | `Spec => []IInv` |
| `Serial` | `TurnsAreSerial` |
| `TablesAgree` | `MemoryMatchesTranscript` and `VersionCountsTurns` |
| `OutcomesAreTrue` | `OutcomesHold`: saved turns are kept, refused ones leave no trace, deletion is final |
| `NoDeadlock` | `NoLockCycle` |
| `OnlyGrows` | `TranscriptOnlyGrows` |
| `Private` | `AnsweredFromOwnTurns` |
| `Implements` | `ImplementsLedger` |

`NoLockCycle` and `TranscriptOnlyGrows` are proved and not run any more: `StoreAnswers` and `ImplementsLedger` fail
when they do.

None of the invariants is inductive by itself. `IInv` adds what makes them so:
`LockInv` (which statement holds which lock, and a lock's holder is at such a statement),
`FreshInv` (an id that a request generated is used by no other request and in no
table before its first save commits), `PairInv` (a memory
row belongs to its transcript, and its version counts the turns), `ReadInv` (what a
request has read is still what is stored, unless the version has grown or the
conversation is deleted), `DraftInv` (what a transaction has drafted is the stored row and one turn),
`TurnInv` (a stored turn was computed from those before it) and `SavedInv` (what an
outcome says about the tables). The argument of the code is visible in it: a request may
save only if the version it read is the version under the lock; versions count turns;
so the transcript it read is the transcript it extends. `Private` needs a second
inductive invariant, `OwnInv`, on top: turns that are read or stored under a user
are that user's. For `Implements`, every statement but a commit is a stutter of the ledger
and the two commits are its two actions; the lemmas `LedgerInit`, `LedgerStep` and `LedgerShape` say so.

The second part of `ServiceReadinessProofs` proves for every number of items, runs, reboots and restarts, for any releases and
with any command failing, from `UpdateAssumption` alone (`DeployAssumption`: what the releases hold and which items are there):

| theorem | says |
|---|---|
| `UpdateTypes` | `UpdateSpec => []UpdateTypeOK` |
| `UpdateInductive` | `UpdateSpec => []UpdateInv` |
| `NothingIsLost` | `UpdateBackupsRestore`: an old item is in the oldest backup that has it, or still in the project |
| `ResultsAreTrue` | `UpdateResultIsTrue` |
| `OneVersionIsServed` | `UpdateHalfIsNotServed` |

The invariant says for every line of the script where each item is: before the loop's item the new
release, from it on what was there when the run began, and between the two moves of one item nothing. The
staging directory holds the rest. What a run that stopped leaves behind is what the next one begins with, so the argument about
old items counts over all runs: an item leaves the project only into the backup of its run, and no
backup is written twice.

`NetworkReportProofs` proves for any days, tables of finitely many rows, scopes and arguments, from
`ReportAssumption` alone:

| theorem | says |
|---|---|
| `TypeCorrect` | `Spec => []TypeOK` |
| `Inductive` | `Spec => []IInv` |
| `OfItsDay` | `ReportIsOfItsDay` |
| `WorseIsListed` | `WorseIsReported` |

The invariant has three parts: the dates are those that were chosen (`SpanKnown`); what a query of a network has
found is the day's one row and its whole baseline, because a table that holds a day holds the days before it
(`ReadKnown`); and one of the tables reaches the latest date for good, so that it finds what is there
(`NewestKnown`). That each day has one row is counted, as in the code, by comparing numbers of rows and days (`DaysDiffer`).
`WorseIsListed` needs the arithmetic of rounding for the energy of all stations: it keeps the order, so the peak of the rounded figures is the
rounded peak (`PeakOfConverted`), and it moves no figure by more than 50 kWh.

`ChatDeliveryProofs` proves for any tools and replies of any length, from `DeliveryAssumption` alone (a reply may
have a text delta):

| theorem | says |
|---|---|
| `TypeCorrect` | `Spec => []TypeOK` |
| `Inductive` | `Spec => []IInv` |
| `Truthful` | `EnvelopeIsTrue` |
| `StreamedAsItHappened` | `StreamIsTrue` |

What the client may have heard (`ToldInv`) is true only because of the order in which the handler does things, which
`FlowInv` states phase by phase: nothing is stored before the checks are passed, an outcome is known from the
metrics on, and the envelope held back then says which. `StreamedAsItHappened` is a count on top: as many messages as
deltas and the opening one, and every position belongs to one open call or to one thought that was sent.

`ServiceReadinessProofs` proves for any set of queries, from `ReadinessAssumption` alone (the warm-up is no query):

| theorem | says |
|---|---|
| `Excludes` | `Spec => []IInv`: who is past the load lock holds it, and nobody loads a catalog that is there |
| `TypeCorrect` | `Spec => []TypeOK`: among the types, that exactly those who wait are in the lock's line |
| `LoadedOnce` | `SnapshotIsFinal` |

The lock and the look behind it are both needed: without the lock two could load after one look each, and without the second
look the next in line would load what is there. The types need more: that nobody is in the line twice
(`LineHasNoDoubles`; `asyncio.Lock` removes one entry of a waiter that is cancelled, not all), and that the warm-up asks
for the catalog once (`WarmsOnce`).

`AgentTurnProofs` proves for any texts, proposals, numbers of concurrent calls, steps, turns and budget, from
`TurnAssumption` and `ContextAssumption` (the values of different kinds differ, and a text is what the parsers can
find in one):

| theorem | says |
|---|---|
| `TypeCorrect` | `Spec => []TypeOK` |
| `Inductive` | `Spec => []IInv` |
| `Evidence` | `AnswerHasEvidence` |
| `OneBudget` | `WaitIsBounded` |
| `CarriedOver` | `TaskIsCarriedOver` |

`CarriedOver` goes through every function that makes or changes a task (`Reduced`, `Scope`, `Normalised`) and shows that
what it returns is made of words that were said, by this text or by one the task it started from was made of. A conversation
without a snapshot replays its texts (`Replayed`), any number of them: that is an induction on
their number, done with the least element of the set of prefixes for which the claim fails. `Evidence` needs to know where the turn begins in the context (`ContextIsOfTheTurn`: the saved entries, the user's
message, and one entry for each result of this turn) and that a call which has ended has left a result
(`DoneHaveResults`). `OneBudget` needs no more than that the remaining budget is what was not waited.

`ChatPageProofs` proves for any conversations, messages and fetches in flight, from `PageAssumption` alone:

| theorem | says |
|---|---|
| `TypeCorrect` | `Spec => []TypeOK` |
| `Inductive` | `Spec => []IInv` |
| `NeverSwitched` | `StreamNeverSwitches` |
| `Refusals` | `RefusedForCause`, the safety part of `MessagesArrive` |

The invariant says what the page and the server may know of an id. An id is known once it is stored,
deleted or given out for a first answer, and is never forgotten (`RequestsAreKnown`, `PageIsKnown`); two
first answers never get the same one (`FirstIdsDiffer`); so an open stream brings the id of the
conversation that is active, or the page is on none (`StreamIsCurrent`).

`EnergyAnalysisProofs` proves for any cells, calls, hours and days, from the three assumptions of `EnergyAnalysis`
(what the arguments and the rows of the tables can be):

| theorem | says |
|---|---|
| `TypeCorrect` | `Spec => []TypeOK` |
| `Inductive` | `Spec => []IInv` |
| `Negatives` | `NegativesAreFacts` |
| `Agrees` | `ReportAgrees` |

The date that is chosen is one that every table of the target holds (`DateIsHeld`), and imports only add days: so what a
section has read is what the table says (`ExpansionIsRead`, `ConstrictionIsRead`, `LoadIsRead`), in whatever order the
sections run. The rest is about the rules: which neighbour is dropped (`NeighbourRule`), which hours are queried and
which explained, and that a day that is shown is one of those counted.

Its second part proves for any cells, calls, filters, days and imports, from `DaysAssumption` and `AreaIsKnown` (the
assumptions of `BatchAnalysis`):

| theorem | says |
|---|---|
| `AreaInductive` | `AreaSpec => []AreaInv` |
| `AreaTypes` | `AreaTypeOK` |
| `AreaOverview` | `AreaOverviewIsTrue` |

Here the common date need not be one that every table holds: a table that was empty does not count. It is one that no table
which had days is behind (`DateIsReached`), so what was read of such a table is what it says of the cells in scope
(`RowsAreRead`), the neighbours' rows dropped once they are looked up, and a load that is counted is one of the days before
(`LoadsAreRead`). That no query failed when a report is made is part of the invariant too (`SourcesAreRead`):
`asyncio.gather` re-raises, and a report with a failed part would show its cells as clean.

`BusinessQueryProofs` proves for any catalog, any plans the model may write, any candidates, date filters and limits, from
`DaysAssumption`, `CatalogAssumption` and `QueryAssumption` (the relationships of the catalog join two tables each and none
of them a table with a metric; the keys of a grain are finitely many, and a table with a metric has the metric's grain only;
the lists of a plan are lists, of whatever names), and, for `DetailMultipliesOnly` alone, from
`RelationshipAssumption` (a relationship to one row names the keys of its right table, but for the day of a snapshot; one
to many rows leads to the detail it is declared for, and a table from which relationships lead on is the only one of
its details) and `DataAssumption` (the keys of a table identify its rows; of a table with a timestamp a row has only the day).
The shipped catalog keeps `RelationshipAssumption` (`business_data_catalog.yaml:1230-1506`), TLC evaluates both on the
run `query`, and the loader checks neither, so that a catalog which is edited has to be checked against it:

| theorem | says |
|---|---|
| `TypeCorrect` | `Spec => []TypeOK` |
| `Inductive` | `Spec => []IInv` |
| `AcceptedPlansRun` | `AcceptedRuns` |
| `RangeBounded` | `RangeIsBounded` |
| `DetailMultipliesOnly` | `OnlyDetailMultiplies` |
| `AnswerWhole` | `AnswerIsWhole` |

The state needs little: several plans are pending only when they are the fixed ones, of which none is refused
(`ValuesAreAllowed`), and what is executed has passed every check (`QueryValidated`). The rest is about the functions.
`AcceptedPlansRun` needs that the tree of joins is one: relationships and tables differ by one, each edge that is attached
brings one new table (`AttachGrows`, `PassGrows`, `TreeGrows`), so a tree that leaves nothing over reaches every table of the plan
(`TablesAreReached`); a table that is reached and not aggregated in a branch is joined directly, and that is what a
name in the statement needs (`StatementRuns`). An ordered formula names columns that a statement regrouped from a finer
stored table would not group (`query.py:936`); the metrics' tables are stored at the grain of their metrics, in the shipped catalog too,
so none is. The loops are folds, and that a fold is the function it means is proved
by building it for one position more at a time (`FoldExists`). `RangeBounded` shows for each operator that a row which passes lies
within the bounds the check takes from the filters (`BoundsOfFilter`), so that the days lie between the
first bound and the last (`DaysAreBounded`), also for the range that is put in by default (`DefaultIsAllowed`).

`DetailMultipliesOnly` goes by the edges of the tree in the order they are joined. An edge to many rows that an accepted plan
joins directly is not aggregated first (`ChildIsBelow`: a branch holds its own root), so its relationship leads to the
detail the grain asks for, and its table is the grain's owner, since the plan has one axis of detail (`DetailIsOwner`).
Along every other edge a row of the parent matches one row at most, because the condition names the keys of the
table, or the day of a snapshot is fixed (`OneRowMatches`). So a join keeps what held before it
(`JoinKeeps`): two joined rows that agree on the base and on the owner agree on every table (`TuplesAreDetermined`). The three
exceptions of the property are where these steps fail, and TLC found each of them.

**Only model-checked.** The liveness properties (`StoreAnswers`, `HearsTheOutcome`, the waiting part of
`MessagesArrive`, `StatusFollowsDatabase`, `QueryAnswered`, `TurnsEnd`), because
fairness and `ENABLED` are out of the prover's reach. Every invariant of a passing run is stated by a theorem.

## 5. Not modelled

Of the tools: what is only copied into a report, the Excel sheets, and the texts. Of the
catalog: its load from the database and the search by words. Of the verification script: what
each check looks at, and the load test. Charts, Excel files, prompts, schemas,
configuration and logging are formatting or declarations; the SQL scripts run by hand
before the service starts, and the diagnosis script shares no state with it.
`PROJECT.json` gives the reason for every part.

## 6. Plan

Done: persistence with its proofs, delivery, readiness, page, agent loop and task context,
single-cell and area analysis, report and diagnosis, business query, deployment, each with its proofs.

Next, in this order:

1. `CatalogSnapshot`: the search over a snapshot and tables missing at load time.
2. A composition of `ChatPage` with the ledger of `SessionLedger` in place of its own view of the server.

Theorem worth proving: that the snapshot of the catalog (1) is what the database had when it was loaded.

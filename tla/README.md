# Observability copilot: TLA+ models, model checking and proofs

This directory holds TLA+ specifications of the copilot (`copilot/`), the TLC
configurations that check them on small instances, and TLAPS proofs. Paths below
are relative to the repository; `dispatch.py:280` is line 280 of
`copilot/dispatch.py`. Every definition that stands for code is listed in
`PROJECT.json` under `map`, with its lines.

## 1. The system

One asyncio process (an add-on container) that receives alerts, enriches them,
sends notifications, runs a cost detector and answers questions with an LLM agent.
On one event loop the code between two awaits is atomic; the only real
concurrency is at awaits (and two thread pools inside adapters). What survives a
restart is a small directory: `dispatch.json` (rewritten whole), `alerts.jsonl` and
`audit.jsonl` (appended).

| component | state | operations | interacts with | what is hard | what makes it correct |
|---|---|---|---|---|---|
| Dispatcher `dispatch.py` | `_last_sent`, `_sent_today`, `_cap_notified`, `history`, file `dispatch.json` | `send` (await per channel), `decide`, `targets`, `_deliver`, `_snapshot`, `_restore` | called by the ingress tasks, the scheduler and three API routes at once; calls the channels | values read before an await and used after it; crash, cancellation or disk error between delivery and save; midnight during a call | daily cap and one notice; dedup; a RESOLVED goes to who saw the firing and re-arms it; the file is what memory says |
| Ingress `alerts/ingress.py` | `_pending`, `_inflight`, semaphore, record of each alert | `receive`, `_after`, `_process`, done-callbacks, `drain` | `decide` and `send` of the dispatcher; enrichment; AlertLog | a RESOLVED against its firing in flight; done but not yet reaped tasks; queue limit; shutdown | every accepted alert is decided; no two firings of a fingerprint in flight; the close follows the firing |
| AlertLog `alerts/ingress.py:96-134` | ring in memory, `alerts.jsonl` | `add`, `persist`, `recent`, reload | ingress, routes, tools | order of arrival against order of finishing after a reload | `recent` returns what arrived since |
| Store `store.py` | files | `State.load/save`, `Jsonl.append/tail` | dispatcher, AlertLog, audit | torn lines, rotation, errors that are only logged | atomic state; the log loses at most what was cut |
| Alertmanager parser, enrichment | none | `parse`, `enrich` | ingress | timeouts of what enrichment queries | the alert goes out anyway |
| Scheduler `scheduler.py`, lifespan `api/app.py` | detector tasks | `start`, `stop`, drain with a deadline | detector, ingress | cancellation in the middle of a delivery; a run that fails | the detector keeps running; what was accepted is delivered, or the deadline ran out |
| Cost detector `detectors/cost_spike.py` | none | `evaluate`, `run_once` | cost port, dispatcher | incomplete and missing days, midnight; runs of the scheduler and of the route overlap | one announcement per spike, of a whole day |
| Agent `agent/loop.py`, `service.py`, registry, permissions, audit | history of a turn, audit ring and file | `run`, `execute`, `record` | model, tools | parallel tools, budgets, blank answers | bounded steps, answers in the order of the calls, a turn is never blank |
| Cost adapters `adapters/cost_*.py` | cache of windows | `_records`, `daily_series`, `by_service`, `by_resource` | billing API, Prometheus | concurrent misses, expiry, months, what a sample's date means | what is read is the bill of its window |
| Prometheus adapter, query budget | none | `instant`, `range`, `label_values`, `metadata`, `targets`, `alerts`, `rules` | Prometheus | rounding against limits, cuts in several places | within the budget, and no cut in silence |
| Cloud Eye adapter | `_meta`, the list of metrics | the same | an SDK in threads | concurrent misses, pages while resources change, calls that hang | a recent and whole list, every call ends |
| Tools `agent/tools_*.py` | none | eleven tools | the adapters, the AlertLog | limits, NaN, the same figure computed twice | they hide nothing and agree with the notices |
| Configuration `config.py`, runtime `runtime.py` | none | `load`, `build` | all | routes, names and defaults combined | what starts can deliver |
| Command line `__main__.py` | its own dispatcher, when it acts alone | `notify-test`, `detect`, `ask`, `tool`, `preflight`, `serve` | the server, over HTTP; `dispatch.json` | a server that starts, stops or answers late | no message is forgotten |
| Channels | none | `send`, `check` | webhook, SMN | errors, slowness | return or raise |
| Other API routes, model adapter, telemetry, logging | none that decides | | | | |

`PROJECT.json` lists every component with its status, and every hazard at its line.

## 2. The modules

| module | what it is |
|---|---|
| `Policy` | Constants, and the pure part of `dispatch.py`: `Targets`, `Decide`, `Covers` (quiet hours), `AtCap`, `Marked`, the pruning of `_snapshot` |
| `Dispatcher` | The dispatcher with its awaits, its file, restarts and cancellations (EXTENDS `Policy`); `FileIsLedger` maps it to `Ledger` |
| `Ledger` | What the dispatcher promises of its file: it moves by whole messages (EXTENDS `Policy`) |
| `Ingress` | The ingress composed with the dispatcher: each alert is a caller of `send` (EXTENDS `Dispatcher`); `IngressIsInbox` maps it to `Inbox` |
| `Inbox` | What `POST /v1/alerts` promises of each alert, abstractly, with liveness |
| `Jsonl` | A log on disk as operators on a pair of files: append, rotation, cut lines, tail |
| `Sieve` | What a test keeps of a sequence, as a recursive function: `SelectSeq` in a form that can be proved about |
| `AlertLog` | The ring of alerts and its file, with crashes and reloads (INSTANCE `Jsonl`); `FileIsJournal` maps it to `Journal` |
| `Journal` | What a log on disk promises, without files |
| `AgentLoop` | A turn of the agent: loop, registry and audit; `LoopIsDialogue` maps it to `Dialogue` |
| `Dialogue` | What the model sees of a turn, with liveness |
| `Slices` | What a slice `s[:n]` keeps, when what is sliced are numbers in order (`First`) |
| `Budget` | The ceiling of a query: the step, the cuts (EXTENDS `Slices`) |
| `Queries` | A tool over the Prometheus adapter: what is refused, what is sent, what an answer tells (EXTENDS `Budget`) |
| `CloudEye` | The Cloud Eye adapter: coroutines over one cached list, calls that fail or hang (EXTENDS `Budget`) |
| `Costs` | The cost adapters with their cache, the runs of the spike detector and the cost tools, over days and months |
| `Config` | A configuration file: what is refused, the routing that comes of it |
| `Commands` | The server's life, its detector and the command line, over one state file (EXTENDS `Config`) |
| `MCDispatcher`, `MCIngress`, `MCAlertLog`, `MCAgentLoop`, `MCQueries`, `MCCloudEye`, `MCCosts`, `MCCommands` | Small instances for TLC: the values of the constants and nothing else |
| `DispatcherProofs` | Theorems about `Dispatcher` and, in its second half, about `Ingress` |
| `AlertLogProofs`, `AgentProofs`, `QueriesProofs`, `CloudEyeProofs`, `CostsProofs`, `CommandsProofs` | Theorems about the module of that name |
| `SlicesProofs` | Lemmas about `First` and about least and greatest elements, which four of them cite |

Operators under a comment that begins with `mutant` are deliberately wrong versions of the
definition that follows them; each property is shown to fail when one of them
takes its place (`mutants` in `PROJECT.json`). No specification uses them.

### Dispatcher: state and actions against the code

`lastSent`, `sentToday`, `capNotified` are `_last_sent`, `_sent_today` (0 when absent) and
`_cap_notified`; `disk` is `dispatch.json` as `_restore` would read it. `task[s]` is the
frame of caller `s` suspended in `canal.send`: the message, `now`, the channel, whether it is
the message or the cap notice, the counter `enviados` already read, the channels
still to visit and the deliveries made.

* `Send(s, m)`: `send` up to its first await (`dispatch.py:223-237`, with `_deliver:261-279`),
  or whole if nothing is awaited. `Return(s)`: the rest of `_deliver` (280-282) and the loop
  up to the next await or the end. Both go through `Advance`, which skips channels at their
  cap that were already notified, and ends in `HandOver` (279), `NotifyCap` (264-274) or
  `Settle` (240-257, with `_snapshot`).
* `Cancel(s)`: `CancelledError` at the await; it is no `Exception`, so `_try` lets it pass
  (284-292) and nothing after the await runs (`scheduler.stop`, the drain's timeout).
* `Restart`: the process ends at any point and a new one loads the file, which may be
  unreadable (`DiskMayFail`). A file of before F2 may be there at the start (`LegacyFps`).
* A failed `State.save` leaves the old file and a pruned memory (`Save`).
* `canal.send` returning and raising are one outcome: `_try` makes a `Delivery` of both, and
  the code counts and remembers both alike (246-250).
* `regular`, `forced`, `notices`, `firedTo`, `openSince` are observers of what the channels were
  handed; `broken` counts restarts and cancellations that lost part of a call.

Left out: titles, bodies and their cropping (`_fit`), `history`, `summary`, telemetry; the
list of channels is fixed across restarts (a changed configuration is another
instance); fingerprints are not empty, as in every caller in the repository.

### Ingress: state and actions against the code

`Senders = Alerts`: the task of an alert is the caller of `send`. `stage` is where the task is;
`pending`, `inflight`, `waitsFor` are `_pending`, `_inflight` and `previo`. `Receive(a)` is one turn of
the loop of `receive` (190-225), which never awaits: a payload of several alerts is several
`Receive` steps, and the model allows other tasks in between, which is more than the code does.
`AfterFiring` is `_after` past its wait, `Start`, `Enriched` and `Deliver` are `_process` between its
awaits (semaphore, enrichment, each `canal.send`), `Reap` is the done-callbacks (a task is
`done` before they run, which `receive` tests at 197), `Die` is a restart: a crash,
or the drain of `api/app.py:63-75` out of time. The semaphore is not assumed to be FIFO.

### AlertLog and Jsonl: state and actions against the code

`ring` is `_items`; `file` is the pair `alerts.jsonl.1`, `alerts.jsonl` as sequences of lines, with `cut`
when the last line has no newline. A record is an alert and whether it was decided.
`Skip` and `Queue` are what `receive` does to the log (`ingress.py:194-216`), `Finish` is the end of
`_after` or `_process`, whose tasks end in any order. `Persist` is `Jsonl.append`: the line is written,
or the disk fails before, between rotation and writing, or in the middle of the line, which is only
logged (`store.py:54`). `Crash` may come at any time, `CrashWriting` in the middle of a line. `Boot` is
`AlertLog.__init__` with `Jsonl.tail`: a file that cannot be opened is skipped, a line that is not
JSON too; a line cut inside a character (`Garbled`) raises. A line without newline and the
next one are read as one, and lost. The file of the audit is the same class.

Left out: the text of a record; sizes are counted in lines; without `storage.path` there is only the
ring. `received_at` does not go backwards.

### AgentLoop: state and actions against the code

`phase` is where `run` is suspended. `Ask` and `Stop` are the top of the loop (`loop.py:113-123`,
177-189), `RequestTools` and `Reply` what follows a reply, `ToolEnds` is `_one` with `_execute` of
`service.py:82-95` and `registry.execute` below it: tools of a round end in any order, and the
last one ends the round. `CloseTurn` is lines 189-209. `ModelFails` is an exception of
`model.complete`; `Cancel` is a shutdown. `history` holds the messages after the question; `audit` the
entries of this turn; `queried` what was really asked of a backend.

Left out: texts, tokens, argument parsing (a bad argument is a tool that fails), `on_step`
(called in the same step as the audit entry), other turns: they share only the audit.

### Queries and Budget: state and actions against the code

The Prometheus adapter keeps nothing between calls, so one call at a time is enough, and the model looks
at what goes in and comes out. `Call` is the tool up to its request (`_lookback`, `_guard`, the limits of
`range`: `Refused`; the span and step that go out: `Sent`), `Reply` the answer of the backend, with any
status and any content (`_get`: `Failure`; `Answer` is one operator per tool, adapter and tool
together). A backend's content is a function from names, numbers in the order of the backend, to
what is told of each; a slice is then the smallest (`First`, `Cut`). `Summarize` is
`tools_metrics.py:56-75` with NaN and infinity as values of their own.

Left out: label sets, the mean, descriptions, `by_name`, the `since` of `alerts_received` (it is
`AlertLog`'s `Recent`), and how an expression is parsed: a query is blank, has an empty selector, or is fine.

### CloudEye: state and actions against the code

`meta` is `_meta`; `task[c]` is where coroutine `c` is suspended: every await is a `_call`, that is, an
SDK call in a thread under `wait_for`. `Ask` is a call of the adapter up to its first await (a fresh list
is used at once), `Page` a page of `list_metrics` (185-209) and what follows the last one, `Batch`
a batch of `_fetch` with the loop of `instant` around it, `Alarms` and `Once` the other operations.
`Fail` is an SDK exception or the timeout; `GiveUp` is `Fail` when the time is up. `Change` creates or deletes a
resource between any two pages. Ages stand for instants, each capped where it tells nothing more
(`Ttl`, `Oldest`). `meta.missed` and `steady` are observers: what stood during a whole listing and is not in it.

Left out: the text of alarms and rules, namespaces (a metric is one name), other dimensions than one
resource, the retry flag of an error.

### Costs: state and actions against the code

`cache` is `_cache` with ages, `task[a]` is where a coroutine is: the agent's, or one of the `Runners`, which are in
`run_once` (the scheduler's task, `scheduler.py:31`, and requests of the route, `routes.py:209`; no lock keeps them
apart). `Run` and `Ask` begin a
read (`Reading`: a live answer is used without an await), `ReadCycle` reads one billing month in the thread
(`_fetch_sync`), `Store` is `_records` back in the loop, `Answer` the two PromQL readings,
`Fails` any exception, which ends the read, or, in the breakdown, leaves the notice without one
(`cost_spike.py:111-116`). `Judge` and `BreakDown` are `evaluate`, `Tell` is `cost_daily`. `Billed` is what a backend
would bill for a day if asked now: a day that is over is final, the one under way fills (`Fill`).

`Dispatcher.send` is split at its awaits, as the runs that overlap need it: `Announce` decides (`Marked`,
`dispatch.py:213-217`, with the `repeat_after` of the notice) and hands out the message, `Mark` writes the mark once the
deliveries ended (249), with the instant at which `send` was called, and `Withhold` is a send that delivers nothing
and marks nothing. `Stop` is the end of the process at any await, by the cancellation of `scheduler.stop` or a crash; it starts again without its
cache, with the marks it had or, when they were not on file, without them. `times` counts the notices of each day, `excused` those
sent while another one of that day was on its way, and the marks that a stop lost. A command of the CLI asks the route or, in a process of its
own, is in `Commands`.

Left out: services and resources one by one (a split is its total), currency, rounding, the detector's text,
`limit`, the pages of a month.

### Config and Commands: state and actions against the code

A configuration file is a record of what `from_dict`, `problems` and `build` tell apart; `Loads`, `Builds`,
`Channels`, `Schedules` are what becomes of it. `server` goes from down to checking (`build` and `check`
before the port opens: `Boot`), up (`Open`, `scheduler.start`), closing (the port is closed and requests end:
`Close`), draining (`StopScheduler`, `SendAlert`, `Drained`), and `Killed` from anywhere. `turn` is the
detector's task (`Wake`, `TurnEvaluates`, `TurnDelivers`, back to sleep in `Sleeps`), `request` the route that
works for a command. `Give` starts a command; `Connect`, `ConnectError`, `ErrorStatus`, `NoAnswer`, `Answered` are the
outcomes of `_via_server`, and `ActAlone` is the command's own process with its own dispatcher. Each process
restores the file when it is built and writes it whole after what it sends (`Recorded`). Of the dispatcher
there is only which messages it remembers: `Dispatcher` has the rest.

Left out: a command beside another command, the server's own alerts while it is checking (its port is
closed), the marks' age.

## 3. What TLC checks

| run | expects | shows |
|---|---|---|
| `dispatch_serial` | pass | one caller: the whole policy, with a restart at any await |
| `dispatch_concurrent` | pass | what survives overlapping calls, a cancellation, a restart and disk errors |
| `ingress` | pass | the ingress implements the inbox (liveness included) and closes what it opened |
| `alert_log` | pass | the files implement a journal; `recent` is right for what this process received |
| `agent_loop` | pass | the model sees a well-formed dialogue that ends; trace and audit agree; budgets |
| `queries` | pass | the backend is spared and no answer hides a cut |
| `cloudeye` | pass | concurrent callers share a recent and whole list; every call ends |
| `costs` | pass | cache, two runs of the detector and tools over months, midnights, a stop and two backends |
| `commands` | pass | the server's life with its detector and commands beside it |
| `dispatch_cap_overrun` | violation | two callers break the daily cap |
| `ingress_lost_close` | violation | a RESOLVED erases the mark of a newer firing, whose close is then dropped |
| `cost_breakdown` | violation | with PromQL costs, the services of a notice are of another day than its amount |

Properties of the passing runs, beyond the type invariants:

* `CapHolds`, `NoticeIsLast`: daily cap per channel and date, one notice when it is
  reached and nothing under the policy after it. A restart in the middle of a call may
  cost one more message and one more notice (`broken`). `dispatch.py:32-34` accepts a cap that starts from zero without a
  state file; with one, which these runs have, the code says nothing of it.
* `NoRepeat`: a firing goes out again only after its interval, after a RESOLVED, or after the
  code forgot it (`_REMEMBER_SENT`).
* `MarksAreOpenFirings`: between calls the marks are exactly the open firings.
* `Durability`: with no call suspended, the file equals memory.
* `FileIsLedger`: every change of the file is one whole message of the policy, decided on the
  file as it was: calls, awaits and crashes are invisible in it.
* `NeverCutEarly`: a counter at the cap, or a notice, only for a channel that was really
  handed `daily_cap` messages that day, under every overlap, crash and disk error.
* `ResolvedOnlyToWitnesses`: a RESOLVED is handed only to channels that were handed a firing.
* `CloseFollowsFiring`: once everything received of a fingerprint is decided and the last was a
  RESOLVED, no channel is left with an open firing, except after an overload, a cap, or an
  alert accepted while a RESOLVED was on its way (the runs expecting violations show these).
* `IngressIsInbox`: an alert is turned away at once or accepted and then decided exactly once;
  no more than `queue_max` undecided; no two firings of one fingerprint among them; and,
  under fairness, every accepted alert is decided unless the process dies.
* `FileIsJournal`: what a start would read only grows at the end and forgets from the front, never
  below a full file and a line; a write that goes wrong costs its own entry and at most the one
  before, whether the process survived it or not.
* `PendingIsInFlight`: a record that says pending belongs to a task of this process.
* `RecentSinceBoot`: `recent` gives exactly the newest records that pass its filters, before any
  reload, and for instants after the start of the process.
* `LoopIsDialogue`: all the calls of a round are answered, once, in order, before the model is asked
  again; at most `max_steps` rounds and one closing request; and, under fairness, an end.
* `AuditIsFaithful`: between rounds the trace shown to the user and the audit agree, and a query
  without its audit entry belongs to the round under way or to the one in
  which the turn was cancelled (`service.py:88` writes the entry after the await, so a shutdown
  during a triage leaves queries that no entry tells of).
* `OneLateRound`: no more than one round starts after `max_seconds`; `CutTurnSpeaks`: a turn that was cut
  is never blank.

* `BackendIsSpared`: no range past `max_range`; no more than `max_points` points (one at least, where the file says less)
  unless the coarsest step cannot do better, an explicit step included; and never coarser than it takes.
* `NothingIsHidden`: series that are dropped or not detailed are marked, `metric_metadata` without its mark is
  whole, and the counts of a list exceed it whenever a name that was asked for is not on it, as long as the
  backend holds no more than `max_series`.
* `SummaryIsHonest`: no sample passes an extreme that is given, a series with numbers is never shown as
  empty, the last value is the last one known.
* `ListIsSound`: no answer of Cloud Eye rests on a listing older than two minutes and what fifty pages take; and
  a list in the cache has every resource that stood from its first page to its last, whoever listed
  beside it and whatever failed.
* `PartIsMarked`, `InstantIsNewest`, `AlarmsAreRinging`: batches add up to what was asked for or the cut is marked; an instant
  shows the freshest resources, and something whenever one reported in the last day; a region that does not know
  `status` answers the same alarms. `EveryCallEnds` is liveness.
* `CacheIsSound`: what is kept under a window is its whole and final bill, across months and midnights and under two
  readers; what expired is not kept beside something new.
* `NoticeIsTrue`: the amount of a notice is all that was spent in a day that is over and, with BSS, its services add up to it.
  `OneNoticeADay`: while bills keep coming, each notice of a day after the first overlapped another of the same day, or
  makes up for a mark that a stop lost. The expiry of the mark, midnights and slow runs never excuse one.
* `SameNumbersIfPaid`: `cost_daily` gives the day, the amount and the median of the notice, if every day cost something.
* `NothingForgotten`: as long as no command acts by itself beside a server, whatever was sent is in the file, through stops,
  kills and commands at any moment, and the server's memory is what the file holds.
* `AcceptedIsRouted`: a configuration that starts leaves no severity without a channel.
  `DetectorKeepsRunning` is liveness: an enabled detector runs again and again while the server stays up.

### Findings

1. `dispatch.py:280` writes back a counter read before the await (`dispatch_cap_overrun`): with
   cap 2, a slow first delivery and two fast ones, the channel gets its notice and then
   another message.
2. `dispatch.py:244` (`ingress_lost_close`): `clear1` is being delivered, `fire2` of the same alert
   is accepted after the interval and ends first, `clear1` pops the mark of `fire2`, and
   `clear2` is `unpaired`. With `queue_max` full, `ingress.py:209` drops a RESOLVED too; the
   property fails in the same way.
3. `cost_promql.py:95` (`cost_breakdown`): the sample of `increase(...[1d])` at 00:00 of a day is the spend of the
   day before and gets the date of the day; the breakdown of that date is evaluated at its end. In the run, spend 9 of
   day 5 is announced as of day 6, beside the services of day 6, which is still under way.

### Divergences that no run shows

Found while modelling; each is a property of its module. Those with a configuration can be run by hand
(`tlc -config X.cfg M`).

* `TwiceIsOneNotice` (`cost_twice.cfg`, `MCCosts`): the scheduler's run and one asked through the API overlap; both find the day
  unmarked, since `dispatch.py:232` decides before the awaits and 249 marks after them, and both announce it while bills keep coming.
  `routes.py:207-208` promises that running it twice does not send two SMS. `NoRepeat` with two callers (`dispatch_twice.cfg`,
  `MCDispatcher`) is the same, seen from the dispatcher.
* `ResolvedErasesMark` (`dispatch_capped_close.cfg`, `MCDispatcher`): a RESOLVED dropped by the cap leaves its mark (`dispatch.py:240`).
* `RecentIsComplete` (`alert_log_reload.cfg`, `MCAlertLog`): after a reload an alert that ended late stands in
  front of newer ones, and `recent(since)` stops at it (`ingress.py:126`).
* `StartsAgain` (`alert_log_cut.cfg`, `MCAlertLog`): a line cut inside a character raises `UnicodeDecodeError` (`store.py:68`), which `tail` does
  not catch; the process cannot start until someone repairs the file.
* `NoBlankTurn` (`agent_blank.cfg`, `MCAgentLoop`): a blank reply without tools ends the turn in blank (`loop.py:125`).
* `SameNumbers` (`Costs`): with free days in the window the detector drops them (`cost_spike.py:89`) and the tool does not
  (`tools_cost.py:63`), so the medians differ; the comment at `tools_cost.py:65-68` wants them equal.
* `OneNoticeADay` without `BillsStopped`: when bills stop, the last spike stays the last day with an amount and is announced again every
  three days (`cost_spike.py:95`); lines 140-143 say that it is not repeated.
* `FileIsNeverOverwritten` (`Commands`): after an error status or a late answer the command acts in its own process, and
  each process overwrites the other's file; `__main__.py:112-119` says it then steps on nobody.
* `ValuesAreFound` (`Queries`): `label_values` is cut at `max_series` before `contains` is applied (`tools_metrics.py:176-179`); `alerts_received`
  cuts at its limit first, too (`tools_alerts.py:169-172`).
* `min_days: 1` passes `problems` (`config.py:348`) and then the median of no days raises (`cost_spike.py:99`): the verdict is `error`
  every time there is one day of bills. In `Costs` it is the outcome `error` of `Evaluate`.

### Bounds, and why they are enough

* Dispatcher: two channels of different severities (one channel in the
  violation runs) tell "all channels" from "those that got the firing"; three
  fingerprints (an alert, a detector with its own interval, the test message); four instants on
  two days, so that a call can cross midnight and an interval can end; daily cap 1 or 2; five
  calls one after the other, three overlapping; one restart and one cancellation, each at any
  await. The callers are symmetric (`SYMMETRY` only in a run that checks safety).
* Quiet hours are `1..0`, a window across midnight; `Accepts` gives the first channel what is
  critical only. `RememberSent` is 3 ticks, so that forgetting happens.
* Ingress: two firings and two RESOLVED of one alert in every order, `queue_max` 2 and one
  task at a time (so that alerts are turned away and tasks wait for the semaphore), three instants, one restart.
* AlertLog: four alerts, a ring of two and files of up to two lines, so that the ring drops records
  and the file rotates; two bad writes, so that a cut line is glued to the next; one restart at any
  point; three instants. No accents: `alert_log_cut.cfg` shows what they do. Two alerts fire and two are
  resolved: `SYMMETRY Alike` exchanges those that are alike (every property of that run is safety, `FileIsJournal` too).
* AgentLoop: two rounds of up to two calls over two tools and an invented name; the deadline
  may pass at any await (four instants against one of `max_seconds`).
* Queries: up to five names against `max_series` 3 and lists of 2; spans at both sides of every limit: zero, the last
  span that fits a step, one second more, `max_range` and one second more; the real table of steps; series that are empty, short, long,
  with NaN and infinity in any place.
* CloudEye: two coroutines; five resources in pages of two with at most two pages (so that a listing is cut, ends exactly, or ends
  short as the second resource comes and goes), batches of two, at most three series; one unit of time to
  live and to time out. Resources report first in each of the three windows, or in none.
* Costs: eight days in two months, of which the detector looks at three, window of four days, a tool that asks for more than `MAX_DAYS`;
  two histories (spikes among days that all cost something; free days, a missing bill and a spike with no bills after it); both adapters,
  with lag 1 and 0; a cache of one unit of time. Two runs of the detector, which are alike (`Alike` is the symmetry), beside the agent, two
  coroutines at once, and one stop (`MaxStops`), after which the agent asks nothing (`Scope`): enough for two runs or a run and a tool to miss, expire and
  cross a midnight together, and for a lost mark followed by runs that overlap. No call lasts a whole day (`NextDay`).
* Commands: every list of up to two channels over two names (the first one called `a`) and four kinds of severities, and one fault of each kind in
  the rest of the file; `MaxRuns` 2 commands, `MaxBoots` 2 starts of the server, one request at a time; one day of spike.
* `CHECK_DEADLOCK FALSE`: the bounds on calls, clock, commands and restarts end those
  runs. `queries`, `cloudeye` and `costs` check deadlock.

### Fairness

`Ingress`, `AgentLoop`, `CloudEye` and `Commands` have liveness. `Ingress`: weak fairness of `Progress(a)` for each alert's task. The event
loop runs every ready task; enrichment and the channels end or time out (HTTP clients with timeouts).
Weak fairness of a task waiting for the semaphore is enough because only finitely many
tasks can overtake it. Nothing obliges alerts, ticks or restarts to happen.
`AgentLoop`: weak fairness of `Turn`, that is, the model answers or its client times out
(`model_openai.py:71-82`), and tools end, as their HTTP clients do.
`CloudEye`: weak fairness of `Tick`, `GiveUp` and `Return`: time passes and `wait_for` gives up; that Cloud Eye answers
is not assumed. `Commands`: weak fairness of the three steps of the detector's task (`Wake`, `TurnEvaluates`, `TurnDelivers`):
`asyncio.sleep` ends and whatever a run awaits has a timeout. Nothing obliges the server to stay up: the property assumes it.

## 4. What TLAPS proves

Every invariant that a passing run checks, both of its action properties and two of its four refinements are
theorems here, for every value of the constants that the assumptions allow; of the other two refinements the
safety part is. `PROJECT.json` lists the theorems. Each proof has the same shape: an inductive invariant, one lemma for the initial
states, one for each action (with one for each piece of a call, where an action is a chain of pieces), and a
theorem that puts them together. The invariants were checked by TLC, on the runs' instances, before they were proved.

### The dispatcher (`DispatcherProofs`)

From `PolicyAssumption` (`daily_cap >= 1`; dates that do not go backwards; any number of channels, messages and days) and
`DispatcherAssumption` (any number of callers, restarts and cancellations, a disk that fails or not):

* `TypeCorrect`: `Spec => []TypeOK`. `CallType` is the part that a call can change; one lemma per piece of a call.
* `CapNeverCutsEarly`: `NeverCutEarly` is not inductive: the counter is written from a value kept in a frame and read
  back from a file that may be old. `Counted` bounds every copy: counters in memory and on file are at most what
  was handed; a recorded notice means the cap was reached; and a frame that awaits a message read strictly less than what has
  been handed. The lost updates of finding 1 only lower a counter, which is why this holds while the cap does not.
* `ResolvedFollowsFiring`: `Witnessed` follows the channels through their copies: mark, file, the deliveries of a
  firing's call and the remaining targets of a RESOLVED's call are all channels that saw the firing.
* `FileIsMemory`: `Durability`, for any number of callers. It is inductive with the types: the last call to end
  saves the whole memory, whatever the others left in it.

What overlapping calls break is proved of calls that come one after the other (`OneCaller`: a single caller, that calls as often as
it likes, as the loop of the detector does). `SoundDisk` says that there is a file and that it does not fail: without it a
restart between two calls goes back to older counters, and no count of lost calls bounds that. A suspended call is described by
what it will be when its await ends: `Reached` (its deliveries) and `Ahead` (the counters), so that the loop and the frame keep
one invariant.

* `OneCallerKeepsTheCap` (`CapHolds`) and `TheNoticeIsLast` (`NoticeIsLast`), with `OneCaller` and `SoundDisk`, for any number of
  restarts and cancellations. `Accounted` bounds what a channel was handed by each copy of its counter: the one in memory
  misses the message under way, the one on file at most one message for each channel the call is past; a call that
  is lost leaves that behind, and `broken` counts it. Nothing was handed on a date that has not come, which is what a
  midnight in the middle of a call needs.
* `MarksFollowTheChannels` (`MarksAreOpenFirings`) and `NoFiringRepeats` (`NoRepeat`), with `OneCaller` and `~DiskMayFail`. `Open`: between
  calls each mark stands for what the channels saw (`Standing`); in a call that reached some channel, what they saw is ahead of
  the mark, for its fingerprint alone. A firing that begins was not deduped, so its mark is old or gone.
* `TheFileIsALedger` (`FileIsLedger`, the whole refinement: `Ledger` has no fairness), with `OneCaller`, `SoundDisk` and `MaxCancels = 0`: a
  cancelled call leaves in memory counts of a message that the file will take up with the next one. `Whole` says how far a call is:
  its memory is the file with the message entered for the channels it is past (`Entered`), and the decision and the
  route it follows are still those of the file. A step of a call that ends is then one `Enter` of the ledger.

### The ingress (`DispatcherProofs`)

From the two assumptions above and `IngressAssumption` (alerts say firing or resolved; `queue_max`, `max_concurrent >= 1`), for any
number of alerts, all of which may be in `send` at once:

* `IngressTypeCorrect`: `IngressSpec => []IngressTypeOK`.
* `IngressIsACaller`: `IngressSpec => Spec`. The ingress is one of the programs that `Dispatcher` admits as its callers, so
  `NeverCutEarly`, `ResolvedOnlyToWitnesses` and `Durability` hold under it too.
* `IngressKeepsTheInbox`: the safety part of `IngressIsInbox`. `Roles` says who does what: a task is in a call while it is sending, for
  its own message; `_inflight` names the one firing of its fingerprint under way, or one whose callbacks have not run; a RESOLVED
  that waits does so for a firing. `Queued`: what is accepted and undecided is in `_pending`, a finite set, so the queue limit bounds it.
* `TheCloseFollows`: `CloseFollowsFiring`, with `~DiskMayFail` (a RESOLVED is `unpaired` if the file lost its mark). The
  property speaks of the end of a story; `Pledge` tells the story: once a RESOLVED was the last thing received of a
  fingerprint, either one of its RESOLVED is on its way, or its firing is closed and nothing of it is under way. It needs `Roles`
  (of a fingerprint that no alert crossed, one task at most calls, and a RESOLVED that calls is alone), `SeenRight` (the marks
  of such a fingerprint stand for what the channels saw, but for the one call that has reached a channel and not yet
  written its mark) and `Durability` (a restart that loses no call finds the marks it had).

### The other components

* `AlertLogProofs`: `LogTypeCorrect`, `NoPendingIsLeftBehind`, `WhatCameIsFound` and `TheFilesAreAJournal` (the whole of `FileIsJournal`), for any
  ring, files, alerts, bad writes and restarts (`AlertLogAssumption`: a ring of one at least). `LogSound` relates the ring to the order of arrival, records to tasks and
  the files to what a start reads of them. A walk that stops early is compared with the sieve of the whole ring; that a cut line costs its own
  entry or also the one before comes from how a file with a cut end is read.
* `AgentProofs`: `TurnTypeCorrect`, `NoSecondLateRound`, `CutTurnsSpeak`, `TheAuditIsFaithful` and `TheLoopIsADialogue` (the safety part of
  `LoopIsDialogue`), for any catalogue, budget and size of a round. `Deadline`: once a late round started the deadline is
  past and no question is pending. `CutTurns`: a cut turn is closing or over. `TurnTyped` bounds the history by its rounds. `Recorded`:
  while a round runs the audit is ahead of the trace by the tools that ended. `Talks`: what the model is shown grows by whole rounds.
* `QueriesProofs`: `QueriesTypeCorrect`, `TheBackendIsSpared`, `WhatIsCutIsTold`, `SummariesAreHonest`, for any requests, contents, limits and
  table of steps (`BudgetAssumption`, `QueriesAssumption`: finite contents, positive limits). `Told` says that what was sent comes from the arguments and an answer from the contents;
  the properties are then facts about `Pick`, `First`, `Cut` and `Summarize`.
* `CloudEyeProofs`: `AdapterTypeCorrect`, `TheListIsSound`, `EveryPartIsMarked`, `AnInstantIsNewest`, `TheAlarmsAreRinging`, for any number of
  coroutines, resources that come and go, pages, batches and timeouts (`CloudEyeAssumption`). `AdapterSound` has one part per place a coroutine can be in: a
  listing that overlaps another one keeps what stood since its own first page; a batch has asked for what is before it.
* `CostsProofs`: `CostsTypeCorrect`, `TheCacheIsSound`, `TheNoticeIsTrue`, `TheNumbersAgree`, `OneNoticeForADay`,
  `OneRunAfterAnother`, for any number of runs that overlap and of stops (`CostsAssumption`:
  windows that fit in the calendar; `RepeatAfter > 1`, which is three days in `cost_spike.py:146`; a threshold over
  100 %). `CostsSound` says what each coroutine holds of the bills as they were when it read, and what the
  cache may keep. One hypothesis more, `BillsComeLate`: with BSS `lag_days >= 1`, its default (`cost_huawei_bss.py:89`). With 0 the window
  takes in the day under way, whose bill is not final, and the properties are not true. `OneNoticeADay` is not inductive; `Accounted` is:
  unless bills stopped, the notices of a day are no more than the excused ones, or one more, and then the day is
  marked or its notice is on its way. So a notice that finds the day unmarked is the first, or excused. That a mark which expired means bills that stopped
  (`ExpiredAfterAStop`) rests on the window: the last day with a bill is then too old to be the last one. `OneRunAfterAnother` takes `Alone`, one run at a time and no
  stop: nothing is ever excused, and `TwiceIsOneNotice`, which
  overlapping runs violate, is true.
* `CommandsProofs`: `CommandsTypeCorrect`, `NothingIsForgotten`, `EverySeverityIsRouted`, for any files, messages, commands and starts
  (`CommandsAssumption`). `NothingForgotten` is not inductive: a command that acts writes its own memory over the file. `Kept` says
  that, unless `beside` tells otherwise, such a command began with no server alive and none has started since, so its memory is the file's.
* `SlicesProofs`: `First(S, n)` has at most `n` members, all of `S` when `S` is no larger, and none greater than one that it leaves
  out; a finite set of integers has a least and a greatest element (the facts that stand in for induction).

### What is only model-checked, and why

* Liveness: `EveryCallEnds`, `DetectorKeepsRunning`, and the fairness of `IngressIsInbox` and `LoopIsDialogue`. TLAPS has no rule for
  `WF` with `ENABLED` here; their safety parts are theorems.
* What a recursive function computes for every input: no induction theorem over an operator can be used. Where a proof needed
  such a fact it was found another way (a least counterexample over the naturals, in `AlertLogProofs` and `SlicesProofs`).
* What holds of several callers only up to a bound. `CapHolds`, `MarksAreOpenFirings` and `NoRepeat` do not hold of two (finding 1,
  `dispatch_twice.cfg`); what does is proved for any number.

## 5. Not modelled, and what is left

Left to prove: the abstract specifications have consequences of their own worth stating as theorems (that an inbox never holds more than
`queue_max`, that a ledger counts each message once), which the refinements would carry down to the code. Left to check:
a firing that arrives between a RESOLVED and the end of the firing before it (`ingress.py:199`, a hazard without a
property), and the pages of a billing cycle (`cost_huawei_bss.py:170`).

Not modelled: the Alertmanager parser and the text of an enrichment (pure parsing and formatting; their outcomes are
constants and choices of `Ingress`), the model adapter and the channels' HTTP requests (a reply, a delivery or a failure
after any time), authentication, telemetry and logging (never read by the program), routes that only read, deployment
files. `Commands` keeps the dispatcher abstract: counters overwritten by a second process are not counted there. Several turns of the agent at
once share only the audit, whose file is a `Jsonl`.

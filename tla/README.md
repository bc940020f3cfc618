# Formal models of larkhelm

larkhelm is a bridge between Feishu chats and AI command-line tools. It is one Python process
with many threads: the SDK event thread, one thread per query, a watcher, a stderr reader and a
heartbeat for each, a socket server for permission hooks, timers for voice messages, and the
schedulers of `bridge.py`. There is no central scheduler; the threads coordinate through a few
locks, events and dictionaries. The project models that coordination in TLA+, checks it with TLC,
and proves the main invariants with TLAPS. Source paths are relative to `src/larkhelm/`.

## 1. Inventory

| Component | State | Operations | Interacts with | What makes it correct | Modules |
|---|---|---|---|---|---|
| Per-chat query pipeline: `handlers/_query.py`, `handlers/_message.py`, `handlers/_card_action.py`, `concurrency.py` | `_chat_locks`, `_pending_msg` (one slot), `_cancel_events`, the locals of each `_do_query` | receive, queue, run, soft timeout, finish and hand over, `/cancel`, two buttons | runners (call, callback from the watcher), cards (remote calls) | one query in the foreground; no message executed twice or stranded; a cancellation reaches the query it is meant for and no other | `ChatQuery` |
| Query card: `handlers/_query_card_state.py`, the heartbeat and the last card in `_query.py` | text, tools, version, `card_patch_lock` | `on_text`, `on_tool`, `on_tool_result`, `snapshot`, `mark_pushed`, heartbeat, last patch and its fallback | query thread, runner callbacks, heartbeat, clicks | the last card is not covered by a late frame; every tool is listed once; the user learns how it ended | `QueryCard` |
| Backend runners: `runner_base.py`, `runner_claude.py` and the other CLIs | the process, `_completed`, `_cancelled_flag`, `_watch_killed`, `_result_text`, `_last_activity_ts`; `_ai_proc_sem` shared by all | wait for a place, start, read, time out, kill, clean up, retry | query pipeline (calls, `cancel_ev`, `on_soft_timeout`), OS processes | the pool bounds the processes; the caller learns why a run ended; cancellations and silence end it | `RunnerLifecycle` |
| API backends: `backend_api.py`, `backend_api_streaming.py`, `api_session.py`, `runner_deepseek.py` | the history on disk, the stream, the place in the pool | load, request, retry, stream, trim, save, cancel, clear | the same contract as the runners; `/reset`, `/btw` | the history is the conversation; a call ends and gives its place back | `ApiCalls` |
| Backend registry, routing, probes: `backend_registry.py`, `router.py`, `model_probe.py`, `_health_tick` in `config.py` | `healthy`, `failure_window` and times of each backend; the chain of each query | route, build the chain, call, record, fail over, tick, probe | query pipeline, runners, providers | a query goes only where it may; health follows reality; a hiccup disables nothing | `Routing`, `Failover` |
| Permission gate: `perm.py`, `perm_hook.py` | pending requests, Allow-all, sockets | hook connects, card, click, timeout, grant and revoke | hook process, buttons | the answer the user sees is the answer the tool gets | `PermGate` |
| Voice: `voice/merge.py`, `voice/transcribe.py`, its branch of `handle_message` | buffer, timers and `_meta` of a chat | transcribe, `add_voice`, timer, flush, dispatch | messages, query pipeline, main thread | each message is dispatched once and none is stranded | `Bridge` |
| Bridge process: `bridge.py` (main, shutdown, restart notice), `/upgrade`, `dedup.py` | shutdown flag, marker file, seen messages in memory and on disk | start, loop, SIGTERM, drain, upgrade, crash, remember, evict, save | service manager, query pipeline | a redelivered message is handled once; an upgrade is announced once; a stop stops | `Bridge` |
| Schedulers, background tasks, chat state: `bridge.py`, `bg_runner.py`, `chat_state.py` | state of the chats in memory and on disk, `_last_fired`, descriptors of tasks | set, save, load, tick, fire, persist the result, scan, report | commands, query pipeline, MCP server | what was set survives; a slot fires; one final report per task | `ChatStore` |
| Session guard: `session_guard.py`, `_context_cache.py` | session ids, turns, records of documents | count, settle, reset, commit | memory, runners, commands | nothing is cleared before it was summed up; a document is left out only where it is known | `Sessions` |
| Long-term memory: `memory.py`, `memory_io.py` | session memory, files of the layers, locks, events, places | update, cascade, merge, stamp, set, clear, collect | session guard, commands, models | no summary is lost or goes back; replaced cascades stop | `Sessions`, `Cascade` |
| Commands: `commands.py`, `command_registry.py` | (that of the others) | about forty commands | all | those that change shared state belong to the module of that state | where the state is |
| Feishu client, configuration, plugins, metrics, logs | caches, tables, counters | remote calls, look-ups | all | see "Not modelled" | |

What is hard in this code: a watcher thread that calls back into a query that may be ending; a
lock that is released by a thread that did not take it; checks and updates of one dictionary or one
file that are each atomic but not together; events that are replaced while somebody holds the old
one; card calls that fail without raising; processes whose death is reported only by a return code;
timers racing with what they time; temporary files with one name for all writers; three ways for
the process to end at the same time. `PROJECT.json` lists each hazard at its line.

## 2. Modules

| Module | What it is |
|---|---|
| `ChatQuery` | the query pipeline of one chat |
| `ChatService` | what a chat promises: each message is new, waiting, running, done or dropped, and at most one runs |
| `QueryCard` | the card of one query: callbacks, heartbeat, last card, clicks |
| `RunnerLifecycle` | `BaseProcessRunner.run()` for several runs that share the pool, their watchers and processes |
| `RunnerPool` | what a pool promises: a job waits, has a place, gives it back or gives up; implemented by the runs, by the HTTP calls and by the workers of the memory |
| `PermGate` | the approval of tool calls, over three processes and their clocks |
| `Routing` | the choice of a backend for a message, as operators over the set of healthy backends |
| `Failover` | queries in the loop of backends, the shared record of health, and the probes; uses `Routing` |
| `ApiCalls` | calls over HTTP and the history kept for them |
| `Bridge` | the life of the process, deduplication, `/upgrade`, voice messages |
| `ChatStore` | the state of a chat, its delayed save, the cron scheduler, background tasks |
| `Sessions` | session, documents and session memory of a chat: queries, guard, commands, updates |
| `Cascade` | the layers of the memory and the workers that write them |
| `MC<module>` | the instances for TLC |
| `ChatQueryProofs`, `RunnerProofs` (also of `QueryCard`), `PermProofs`, `FailoverProofs`, `BridgeProofs`, `StoreProofs` (of `ChatStore` and `ApiCalls`), `SessionsProofs`, `CascadeProofs` | the theorems |

`QueryCard` and `ApiCalls` share a proof module with another component, so that their
specifications have names of their own (`CardInit`, `CardNext`, `CardSpec`, `ApiInit`, ...).

Every module of the code has its properties at its end. An operator commented "mutant" is the
wrong version of the definition after it; no specification uses one. `PROJECT.json` says which
property must catch which mutant.

The modules meet in named steps: the backend call that is one step of `ChatQuery` is `RunnerLifecycle`,
`ApiCalls` or, over several backends, `Failover`; its card is `QueryCard`; the message that `Bridge`
hands to a query is what `ChatQuery` receives; a query that `ChatStore` fires, or that ends in
`Sessions`, is any query. `Sessions` says when a new summary exists and `Cascade` what becomes of it.
The assumption one module makes about another is stated with its fairness in section 4.

### ChatQuery

A step is the code between two accesses to shared state. `pc[t]` follows one `_do_query` thread:
`Fetch` takes the cancel event, `Acquire`/`Busy` are the two results of
`chat_lock.acquire(blocking=False)`, `Enqueue`, `PatchQueueCard`, `SendQueueCard` and `TagPending`
are the branch that queues, `Begin` and `End` enclose the backend call, and `Release`, `Settle`,
`Dispatch` are the `finally`. `soft[t]` follows the callback that the watcher of the same query
executes (`SoftFire` ... `SoftStart`), which interleaves with the end of the query. `Receive` is
`handle_message` with its `_reset_cancel`; `ProbeLock` and `ProbeRelease` are the commands that
test the lock by taking it; `CancelPop` and `CancelTrigger` are `/cancel`; the buttons are
`CancelButton` and `CancelQueueButton`. A thread slot is used again when its thread and its callback
ended, so a few slots stand for any number of consecutive queries.

The cancel events are numbers: `registered` is the one in the dictionary, `ev[t]` the one a query
fetched. Queue cards are numbers too, and `cards[c]` is the message card `c` shows as waiting.
The backend call is one step that may last for ever or end at any time: the reasons why it ends are
in `RunnerLifecycle`. `Hazards` chooses what an instance lets go wrong: soft timeouts, failing
cards, failing thread starts, commands that probe the lock, and (`EvictEvent`) the event of a chat that is
dropped an hour after it was last asked for, under the query that holds it.

### QueryCard

`main` is the query thread from the end of the call on: `Stop` sets `_stop_hb`, `Drain` is the empty
`with card_patch_lock`, and the answer is written by up to three calls, each after the one before it failed:
the last patch (`LastPatch`, `LastPatchFails`), a card of its own, a text (`SendInstead`). `AfterFailed` says
which is left for which ending. A query that is `"refused"`, because the backend its chat is locked to is not
available, gets a card of its own at once, and its first card stays as it is. What became of each call is kept
in `reached` and `missed`. The soft timeout is two steps, `SoftTimeout` and `SoftReplaces`. `hb` is the heartbeat:
`HbWake` takes the snapshot, `HbRender` renders it, `HbLock` looks at the flags again under the lock,
`HbPatched` or `HbPatchFails` is the remote call, `HbMark` is `mark_pushed`. The callbacks `OnText`,
`OnTool` and `OnToolResult` come between any two of them. What the card shows is a record of the
number of the last text, the mode and the button; `listed` counts how often each tool is listed.
A patch may also be carried out and reported as failed (`"lost"`), for which the code has no test.
`Click` is possible as long as some client shows the button, also after the last card.

### RunnerLifecycle

`pc[r]` follows the thread in `run()`: `waiting` and `polling` are `_acquire_ai_sem`, `popen` to
`reading` the body, `closing` and `release` the `finally`, `check` what follows it. `watch[r]`
follows `_watch`: a round tests `_completed` (`WatchPoll`), then the cancellation and the idle time
(`WatchCancel`, `WatchHard`, `WatchSoft`), and the kill is a step after its flags
(`WatchKill`), because the loop may end in between. `proc`, `rc` and `pipe` are the process: it
may exit or be killed by the OS at any time, and its pipe may stay open after it. A retry goes on as
the same runner with a new object (`Discard`). `idle` is what the watcher computes, capped at `Hard`;
it counts from the creation of the object, the wait for a place included.

SIGKILL ends a process in one step: the ten seconds the cleanup allows it (799-801) are not
distinguished, so a process that survives SIGKILL in the kernel is outside the model.

### PermGate

Each tool call `r` has a hook process (`hook[r]`, `perm_hook.py`), a connection with its thread in the
bridge (`conn[r]`, `perm.py`) and a card. `StartCli` is the moment the environment of the CLI is
built, when Allow-all is read for all its later calls; `HookPasses` to `HookTimesOut` are the branches
of the hook's `main`. `Accept`, `AcceptFull`, `AcceptNoThread` and `AcceptRaises` are the accept loop.
`ReadAllows` and `ReadRegisters` to `Reply` are `_handle_perm_conn`, cut where another thread can
come in: the wait that returns (`WaitReturns`) or runs out (`WaitExpires`) is one step, taking out the
decision (`Decide`) the next, and a click fits between them. `Click` is the callback of the buttons; a
click on a card that was decided long ago is possible, because some client may still show the
buttons. `hookAge` and `waitAge` are two clocks of the same length that start apart. `Revoke` is both
`/reset perm` and the end of the three hours. `lastClick` is a history variable.

### Routing and Failover

`Routing` is `resolve_backend` with the registry's look-ups: a request names what the message forces,
needs or is locked to, and the result is a backend or `Unavailable`. A table of preferences is the
first healthy backend of a list, and the registry's sorting is `HeadOf`, the least place among a set.

`pc[q]` of `Failover` follows a query: `Route`, `BuildChain` (the local list, computed from the health
at that moment), `Attempt`, one of the four ways a call can end (`CallReturns`, `CallCancelled`,
`CallTimesOut`, `CallFails`), and `NextOrRaise` or `GiveUp`. An empty chain leads to the legacy
call outside the loop. A failing call is recorded twice, by the wrapper of the runner and by the
loop, each with its own threshold; both entries are in `window[b]`, which names the query of each
entry. When a query ends its locals are reset (`Ends`): they are gone, and states that differ only in
them are one.
A probe has three steps, the tick that selects it, the probe itself and the recording of its result,
so real traffic can be recorded in between. `resting[b]` says that the interval after which the tick
looks at a backend has passed. `up` is the truth about the providers, which `Break` and `Repair` change
at any time. `Init` is the state after `health_check` and with the start-up probes sent; probes of API
backends are real calls, the default of `BACKEND_PROBE_API_REAL_CALL`.

### ApiCalls

The two kinds of HTTP calls differ in how they keep the history. `_run_streaming_api` (mode
`"whole"`) loads it first (`Load`) and replaces it at the end (`Write`) with what it loaded and one
turn more. `DeepSeekRunner` (mode `"append"`) takes a place of the pool (`Acquire`, `WaitCancelled`),
loads the history to build the request (`Build`), tries a busy server several times (`PostBusy`), and
loads it again before it writes (`Reload`). `Line` and `StreamEnds` are the loop over the answer,
`CheckCancelled`, `CheckEmpty` and `CheckAnswered` what follows it. `WatchCancel` and `WatchHard` set
the flag of DeepSeek's watcher; a server that has stalled (`Stalls`) keeps the thread in its read.
`Reset` stands for every caller that clears histories, each with the set it chooses: `/reset all`, the `/reset`
of one backend, and `_clear_sid` in the session guard and `/compact`. In `ClearHistories` any of the files may
fail to be removed. `LoadHistory` yields an empty history when the file cannot be read.
The room of a history counts messages; `said` and `raced` are history variables: the conversation
since the last clear, and the calls whose history somebody wrote after they loaded it, or that could not
read it; `torn` names the histories such a call overwrote, and those whose removal failed.

### Bridge

`main` is the main thread: the loop of the websocket, the transcription that runs in it, the shutdown
sequence (`LeaveLoop` saves the table of seen messages; `MainReturns` is the end of `wait_for_idle`, which
lasts a minute at most, and of `main`), and the notice of a new process. `upgrade[u]` is the thread of one
`/upgrade`, step by step to `Exec`; nothing in the code keeps two of them apart, nor in the model. Both end
the process, `Crash` ends it at any time, and all of them take its threads along
(`ThreadsEnd`). `Restart` depends on the service manager. `Deliver` is the head of `handle_message` with
`dedup.py`: a message that is seen is dropped, else it is remembered, the oldest entry may be evicted,
and a save is scheduled; a voice message is transcribed first (`Heard`, `NotHeard`), is then added to
the merge buffer (`AddVoice`) and reaches a query with the batch (`Flush`). A timer has two steps,
because one that fired (`TimerFires`) and waits for `_meta` (`OnTimer`) can no longer be cancelled. With the
hazard `"thread"` the thread of a query, or of a batch that is out of the buffer already, may fail to start,
and a timer may: it is then `"dead"` and stays in `_timers`. With `"age"` a new process finds the oldest
entries of the table older than a day and drops them (`NewTable`).
Feishu delivers any message again at any time. `runs`, `lost`, `notices`, `texts` and `unheard` are history variables.

### ChatStore

`memory` and `disk` are `_chat_state_store` and `state.json`, of which the job list and one number for
all other settings matter. Commands change a field and restart the save timer (`SetField`); `Save`
writes, or fails. The scheduler counts in units of five seconds: `TickBegins` copies the job list,
`NotDue`, `Fire` and `Persist` work on the copy and on the field as it is then. A background task has
a process, a descriptor that may be half written, and a watcher (`CheckNotDue`, `CheckBegins`, `CheckEnds`)
whose `Final` removes the descriptor before `Report` starts the thread that reports. It goes by the pid
(`PidAlive`), which may be that of another process by then, or of a zombie (`"reused"`). `Final` goes on when
the descriptor cannot be removed, which `stuck` counts. `Stop` is an orderly stop and a crash alike, since the
shutdown sequence does not flush the save; `Restart` loads what is on disk.

### Sessions

The session is `sid`, the documents it was `given`, the `record` of what the code believes it was
given, and its `turns`. Conversation and memory are numbers: `log` entries so far, and `memory` how many of
them the summary covers. `update[c]` follows the thread of `maybe_auto_update` for each caller `c`
(`Lock` or `LockBusy`, `Summarise`, `SaveMemory`, `Unlock`). A query looks the document up (`Ask`), sends the
body or a marker to a session (`Resume`, `Open`), may have to repeat the same text in a new session
(`Retry`), is counted (`Count`), and commits the record (`Commit`) after the guard had its turn. `guard`
follows `maybe_auto_reset`: `Settle` twice at most, then `GuardClears` and `GuardMarks`. `/compact`
waits for its own update, `/reset` and `/memory clear` wait for nothing. Of a session id that cannot be
written (`Result` with the hazard `"disk"`) the bridge knows nothing afterwards. `_clear_sid` removes the
session and then the records: in the model it is one step, since a query that begins between the two is, for
what it reads and commits, one under which the session is cleared, which is modelled. Several queries overlap
because a soft timeout lets the next one begin.

### Cascade

A worker is a chat, the number of its cascade and a layer. `Begin` is a new summary: it sets the event
of the cascade before and replaces it, and starts the workers one after the other; with `"thread"` one of the
starts fails, and that worker and the ones after it are `"lost"` (a chat without a directory has no worker for
the project either). `Enter` takes a place within half a second or `Dropped` gives up;
`ReadFile`, `Answer`, `NothingNew` and `Useless` are the call of the model with its retries; `Restamp`,
`WriteBegins`, `WriteFails` and `WriteEnds` write the file by way of one temporary file and a write
lock; `Leave` gives place and event back. A file is the set of facts in it and the stamp of the
summary merged last. `SetBegins`, `SetEnds`, `Clear`, `GcFinds` and `GcRemoves` are the user's commands.

## 3. Runs

| Run | Instance | Shows |
|---|---|---|
| `chat_serial` | 3 messages, no soft timeouts; failing thread starts and probing commands | one query at a time; a queued message is on a card; the code implements `ChatService` |
| `chat_drains` | fair, 2 messages, every hazard | no second execution, one owner, the background out of reach; a message leaves the slot |
| `query_card` | fair, two tools, one of them a workflow; one text, one click; calls that fail or are reported so | every tool once; the last card stays; changes are shown; the user is told, or every call to tell him failed |
| `runner_ends` | fair, one run and its retry, cancelled at any moment | cancellation wins; blame is right; cancellations and silence end the run |
| `runner_pool` | two runs, one place | the code implements `RunnerPool` |
| `perm_gate` | fair, two calls, one place, every hazard | only a consent lets a call through; nothing is left behind; an approval arrives; places come back |
| `failover` | fair, one query of each kind, an orchestrator and a worker | failing over spares the workers and stops at the host's failures; one query cannot disable a backend; recovery and outage are noticed |
| `api_calls` | fair, two queries and a `/btw`, one place, one `/reset`, every hazard | the history is the conversation; the calls implement `RunnerPool`; they end |
| `bridge_life` | fair, a text and two voice messages in three deliveries; two upgrades, any crashes, failing threads, old entries | a message is handled once; an upgrade is announced once; voice is not stranded; a stop stops |
| `chat_store` | fair, one job, one task, one edit, one stop, failing disk and threads, reused pids | jobs as wanted; the slot; no task is forgotten; saves; a final report, one for each time the descriptor stays |
| `sessions` | two queries, a reset every two turns, one command, failing disk, model and waits | documents are known; memory goes forward; kept before cleared |
| `cascade` | two cascades of one chat, two layers, two places, one command, failing disk, model and threads | stamps are true; replaced cascades stop; writers apart; all tidy; none stuck |

Bounds. Three messages are the fewest with which one runs, one waits and one replaces it in the slot;
more only repeat it, since the slot holds one. With every hazard at once two messages
suffice for each pair of actors (query and callback, query and command) and keep the run short.
`MaxInputs` is 1 or 2: commands only meet through the slot, the lock and the event, each of which
one command can disturb. Two tools make "a new tool completes those before it" happen, and a workflow
is the one whose result is no end; one text is enough for a change during each step of the heartbeat.
Two runs and one place are the fewest that compete; `Soft = 1`, `Hard = 2`
are the fewest steps of time that tell running, soft timeout and hard timeout apart. `runner_pool` has no
question about the soft timeout and uses 0 and 1.
Two permission calls and one place make the second call meet a full gate; `Wait = 1` tells before from after for
each of the two clocks, and their skew is that either may be at 1 first. Two clicks (`MaxClicks`) are
enough for a second word on one call and for a click on each. In `failover` one query with the three requests reaches every branch of the
chain: `Plain`, a command that asks for the worker in a chat that is locked to the orchestrator, and
a message that needs what only the worker has. The orchestrator is `Steady` there to keep the run
short. The length of `window` needs no bound: a query adds at most two
entries, which is a theorem (`EntriesSafe`).

In `api_calls` two queries that overlap after a soft timeout and a `/btw` are each pair of writers; a room
of three and four messages lets the history be cut within a turn and between turns. In `bridge_life` a
table of one entry makes every second message evict the first; three deliveries let a message come again
after its eviction, let a buffer for three fill up, and let a timer be armed again while one that has
fired still waits. Two upgrades and a SIGTERM meet in every order, and crashes are not bounded: a process that ended
is one of finitely many states. The manager of the run is the one that always restarts; with `Restart=on-failure` the
system does the same up to an end with code 0 and then stays there, where nothing moves any more
(the theorems are for any set of managers). In `chat_store` a descriptor that stays once (`MaxStuck`) is enough to see a
second report and the check after it. The first
tick comes a minute or five seconds before the slot, the two cases in which the slot is seen once and twice;
`Late = 1` is a tick that takes up to five seconds. In `sessions` two queries overlap, and the guard,
`/compact` and an update aside are three callers for one lock; in `cascade` two cascades make one
replaced and one new, and two places for four workers make one wait. What larger instances could
show of the safety properties is covered by the proofs, which are for any number. (One case, a third query
that comes between the retry of the first and the record of the second in `Sessions`, was found in the
proof and not in the run.)

`CHECK_DEADLOCK FALSE` is in every cfg because a system with no message, run or call left stops.

### Where the code surprises

The models contain what follows because the code does it; the properties are stated so that they name
it as an exception or as a premise, and the hazards of `PROJECT.json` give the lines.

* The `finally` of a query releases the chat lock also when its soft timeout did so before, so that with soft
  timeouts two queries can be in the foreground. A message can enter the slot just after its holder
  looked there, and waits for the next query. A new message clears the event a running query was
  cancelled with. A query may run with an event that was replaced before it got the lock. An hour after a chat's
  event was last asked for it is dropped, and the query that still runs with it cannot be cancelled any more. The second message
  that is queued loses the queue card of the slot. The rollback of a failed queue card never happens,
  because card calls do not raise. The queue card's button says "cancelled" also when the message has
  left already.
* A query that is refused because its chat is locked to a backend that is not available leaves its first card as
  it was, "processing" and with its button; the refusal is a card of its own. An answer whose last patch, card and
  text all fail is lost, and nobody is told.
* The idle clock of a run counts the wait for a place. Text received before a kill is returned as
  the answer. Revoking Allow-all does not reach a CLI that is running. Two failing calls reach the
  threshold of three, since each is recorded twice. A chat that is locked to a backend fails over to another.
* A click after the last card repaints it.
* An `/upgrade` may lose its race with the main thread, which ends the process with code 0; a systemd unit with
  `Restart=on-failure` does not start it again, although the comment at `commands.py` 3756 counts on it. A
  late voice timer flushes the batch of a newer message before its window is over; what is in the buffer
  is dropped when the process ends. `transcribe()` leaves timeouts to its handlers, and the handler has none.
  A batch of voice messages whose thread cannot be started is lost, since it has left the buffer by then; when
  the timer cannot be started the batch waits for the next voice message. A second `/upgrade` may run beside
  the first, and its `execv` replaces whatever the first was doing. A message whose thread cannot be
  started is remembered as seen, so that its redelivery is dropped.
* The delayed save is not flushed by the shutdown sequence, and a failed one is not repeated. A slot may fire
  twice; a job that was deleted after the tick took its copy is started all the same.
  A descriptor that cannot be removed has its task reported as ended at each check. A task whose pid is that of
  another process by the time of the check, or of a zombie, is not seen to have ended.
* `/compact` is told of success although the memory file was not written, and the guard clears the
  session after two failed settlings. The records of a document outlive a session that is cleared under a query,
  and one whose id could not be saved.
* A re-stamp of a layer writes back the body it read before, over what was written since. The event of a
  cascade is given up when the first of its two workers ends, so that the other can no longer be told. When the threads of a cascade cannot be started its event is
  left behind until the next cascade of the chat.
* `/btw` on DeepSeek reads and writes the main history, against its docstring (`commands.py` 2073). A
  server that sends nothing keeps a DeepSeek call and its place in the pool, without a read timeout. A history that cannot be read counts as
  empty, and the next answer makes that permanent; one that cannot be removed survives a `/reset`.

## 4. Fairness

`ChatQuery`: threads, callbacks and commands are scheduled (weak fairness of each), and a backend
call ends, which `RunnerLifecycle` justifies with its two timeouts. Users, timeouts and failures are
not fair. `QueryCard`: the interval passes, the threads are scheduled and remote calls return; a patch that
is repeated every interval does not fail for ever (strong fairness of `HbPatched`), without which no
card can follow anything. How long the runner takes is left open. `RunnerLifecycle`: the run thread and the watcher are scheduled, time passes, and the pipe
of a dead process closes. That last assumption is not enforced by the code: a grandchild that keeps
stdout open holds up `run()` for as long as it lives, since the watcher returns after its one kill.
A process is never assumed to write or to exit. `PermGate`: hooks, the accept loop, the handler threads
and time go on; the user need not click, and nothing that fails is fair. `Failover`: queries and the
schedule of ticks go on, calls and probes end because both have timeouts, and the intervals pass;
providers need not break or come back. `HealthFollows` speaks of a provider that stays
as it is from some moment, and of backends whose probes are definite (outside `Slow`).
`ApiCalls`: the thread of a call goes on, and a server that has not stalled answers or ends the
stream; lines, flags and timeouts are not fair, so a call ends even if nobody watches it.
`Bridge`: only the main thread is scheduled; that a transcription returns is part of it and not enforced by the
code. Timers, upgrades, the manager and queries need not go on: the shutdown does not wait for a query longer
than a minute, and for nothing else. `ChatStore`: the save timer, the
watcher and the manager act; a watcher that scans again and again gets to every task (strong fairness of
`Final`, since a check makes its descriptor unreadable for a moment). `Sessions` and `Cascade` state safety only and assume no fairness; that
nobody waits in vain in `Cascade` is the invariant `NoneStuck`, which says of each worker that waits what it
waits for; that this one goes on without waiting itself can be seen from its step.

## 5. Proofs

Everything below is for arbitrary sets of threads, messages, runners, queries, chats and bounds.

`ChatQueryProofs`. `TypeSafe`: the type invariant is inductive by itself. `MutualExclusion`: under
`"soft" \notin Hazards`, the query in the foreground is the holder of the lock (`LockInv`); the step to
watch is `Release`, which frees the lock whoever holds it: without
a soft timeout it is its own, and with one the theorem is false.
`BackgroundSafe`: every event number in use is at most `registered`, and strictly below it for a
query whose callback replaced it; registration only counts up. `AtMostOnce`: the two halves of `TakenOnce`
are inductive only together with the fact that a message to come is nowhere yet, and that an executed
message is in no waiting place (`OwnerInv`).

`VisibleSafe` needs to know who may still patch a card: `CardInv` says that a queue card is in the hands
of one thread, callback or slot at most, so that no two of them ever change the same card. Then the
message in the slot is either about to be shown, or on a card that nobody but the thread that tags it or the
slot holds (`VisibleInv`). Its two hypotheses are the two ways the code loses the card: a card call that fails
without raising, and a callback that cannot start a thread and puts the message back without its card.

`ServiceRefined` maps every step of the pipeline to one message moving in `ChatService`, or to a stutter,
from the four invariants `TypeInv`, `LockInv`, `OwnerInv` and `WorkInv` (what is worked on was taken). `StatusOf`
searches all threads for the message, so the proof first splits it into "worked on" and "waits somewhere"
(`StatusIs`, `StatusWillBe`) and shows for each action which of these change for which message. One lemma
per kind of move says what is left to prove: nothing changes (`ViewStays`), one message moves
(`ViewMoves`), one is dropped (`MessageDropped`). The hand-overs `Settle` and `Dispatch` are the stutters that matter. The
hypothesis is that of `MutualExclusion`: the service runs one message at a time. What is left of the service with soft
timeouts is `LifeSafe`, without hypotheses: messages may be worked on together, but each one lives its life in
the service's order. There every step is shown to keep six facts of each message (`Passes`), such as
that what waits afterwards came or waited before, and these suffice (`PassesLives`).

`DrainSafe` is the part of `QueueDrains` that can be proved: once a message waits in the slot beside a query in the
foreground, every step leaves the slot empty or leaves somebody who has a look at it before him (`TakesSlot`): the
query, as long as its flag `lock_released` is not set, or the callback of its soft timeout, which sets the flag.
The only fact it needs is that the flag is never set before the callback is on its way (`FlagInv`); what could go
wrong is that each of the two leaves the slot to the other.

`RunnerProofs`. `PoolSafe`: the number of runs between `Acquire` and `Release` and the value of the
semaphore add up to `MaxProcs`, and a living process implies such a run; the second part needs that a
run in `release` has waited for its process, which is the strengthening. The counting uses the
library's theorems on cardinality, hence the assumption that `Runners` is finite. `TypeSafe`: needs
`PoolSafe`, for the semaphore stays below `MaxProcs` only because of the count. `PoolRefined` maps every step
of `run()`, its watcher and its process to a step of `RunnerPool` or a stutter, from the same invariant.
`VerdictSafe` is about the return code of a killed process: `VerdictInv` says that a watcher sets its flags
before it kills, the cleanup with its kill, and that an object without a process, or one whose process could not be
started, has no watcher; so whoever reads "killed by nobody" reads the truth.
`WatchedSafe` is what `RunEnds` rests on: a process that is read has a watcher, or is dead, and a run that is flagged
is about to be killed (`WatchedInv`), which takes that no run is flagged or completed before its process starts,
in the second attempt as in the first (`FreshInv`).

Of `QueryCard`, in the same module: `ToolsSafe` is inductive with the types (`CardTypeSafe`). `FinalSafe`
needs that `_stop_hb` is set before the lock is drained and that nothing is in flight from then on
(`StopInv`); then the frame that the heartbeat has rendered meets the flag under the lock.
`AscendSafe`, an action property behind `CardFollows`: the card never goes back to an older text or to the foreground. A
frame on its way is not older than the card, and neither is ahead of the query (`AscendInv`). `ToldSafe` is the safety
half of `UserIsTold`: when a query is over, its end is on the card, covered at most by a click, or a card or text of its own
was sent, or every call there was to try for its ending has failed. Its invariant keeps, at each of the calls, what
was missed before it (`ToldInv`), and that after the last patch only a click changes the card.

`PermProofs`. `ConsentSafe` is a chain: what the hook did was in the socket, what is in the socket is
what the thread's verdict says, the verdict is the decision, and the decision is the user's last
click while the call was pending (`ConsentInv`). `ResidueSafe` ties the two tables to the places of
the thread in which it still owns its entry. `ConnSafe` counts as `PoolSafe` does; `TypeSafe` needs
that count for the bound of the semaphore. `ApprovalSafe` goes the other way along the chain: `ArrivalInv` says
what each reply in the socket tells of the verdict, and that a hook that has denied a call has read a denial or the end of the
connection, was refused it, or has waited its full time, which stays so since its clock does not run back.
`OnwardSafe`, an action property behind `PlacesComeBack`, follows from `ConsentInv` too: a connection moves only from one
stage of its handler to a later one (`Stage`), its clock is not set back, and what was decided, sent or
read is not decided, sent or read again. With the ten stages and the bound of the clock only fairness is
missing for the place to come back.

`FailoverProofs`, for any registry, tags and places. Lemmas first show that the look-ups of `Routing`
return what they should: a non-empty set of places has a least element (from the library's
well-founded induction), so `HeadOf` and the first match of a list are members of the set.
The invariant is `TypeOK`, `Course` (what the locals of a query are at each `pc`) and `Entries` (which
entries of a window can belong to a query, given what it has tried and where it is).
`TypeSafe`, `FailsOverSafe` and `EntriesSafe` follow. `HiccupSafe` needs in addition that both
thresholds are at least 3: a window that reaches three entries, of which one query has two at most,
has entries of two queries.
`HealthSafe` is what `HealthFollows` rests on: what the record knows of a backend that is not slow it keeps, unless the
truth changes or, for one that works, a call to it fails. The results of probes that were taken before the truth
changed are what the statement has to exclude (`KnownDown`, `KnownUp`).

`BridgeProofs`. The table is a sequence of which only the set of its entries matters, so lemmas about
`Append` and `Tail` come first. `HandledSafe` follows from `OnceInv`: a message that is not in
the table was not run and is not held anywhere, and one that is held (being transcribed, or in
the buffer) is held in one place and was not run. It is inductive only together with the types, which contain
that the saved copy is complete once the shutdown sequence has written it: `NewTable` would otherwise
forget messages in an orderly end. `VoiceSafe`: `VoiceIsHeard` is inductive together with the types, over timers that
are cancelled, come late or could not be started and batches whose thread could not.
`NoticeSafe`: notices, marker and the notice under way are never more than the upgrades that have written their
marker or are over (`Spent`), for any number of upgrades at the same time; the counting takes the library's theorems on
cardinality.
`EndSafe` is what `StopsInTheEnd` rests on: while the flag is set the main thread only gets nearer to its end, and the
flag goes only with the whole process. It needs that an upgrade that got as far as waiting has set the flag, and that a
process that is gone has left nothing that could act (`EndInv`).

`StoreProofs`, of `ChatStore`: `WantedSafe` needs only that a tick and its results end with the bridge (`DownInv`);
that `Persist` works on the field as it is and not on the copy does the rest. `SlotSafe` follows one job through its
slot (`SlotInv`): where its last tick was, whether it is in the copy the scheduler works on, and how
often it has run. Its hypothesis `Late <= 1` is the premise the property names, a tick of less than five
seconds: the slot is longer than the sleep by that much, and with `Late = 2` a job is missed.
`ReportedOnce` is the safety half of `EndIsReported`: there is at most one report and one more for each time the
descriptor could not be removed, and with a disk that does not fail at most one. What is still on disk, and what is about to
be reported, has not had the last of them (`ReportInv`); `StoreTypeSafe` are the types. `KeptTasks` is the other side,
as an action property: a task that has a descriptor, is about to be reported or was reported stays so, unless it is
counted in `hurt`, which says that its report was lost to a stop or a failing thread, or its descriptor to a failing
write. It rests on the watcher reporting one end at a time (`EndingInv`). `ArmedSafe` is what
`ChangesAreSaved` rests on: memory and disk differ only while a timer is armed, or after a save that failed.

Of `ApiCalls`: the places are counted as in `PoolSafe`, which bounds the semaphore (`ApiTypeSafe`); the count is why
`ApiCallsAssumption` takes the set of calls to be finite, and it is all that `PoolUsed` needs, the refinement of
`RunnerPool` by the calls: what a call, a timeout or a cancellation does is a move of one job or a stutter. `HistorySafe` rests on `LoadedInv`, that what a
call has loaded and is about to replace is what is on disk unless somebody wrote in between or the file could not be
read, and on a fact about
`Trim` (`TrimTwice`): a history that is cut, continued and cut again is the whole conversation
cut once. That needs the lengths of sequences only, no induction.

`SessionsProofs`. The invariant `SessionsInv` has four parts: the types; `LockInv`, that who is inside the
update holds the lock and what it has read is not older than the memory (`ForwardSafe`); `KeptInv`, what
each waiter's update has read and answered in relation to `base` (`KeptSafe`); and `DocInv`, that, as long as no
session was cleared under a query or lost with a failing save, every session in use was given the document or will be, and a query
leaves the body out only while there is a record (`DocSafe`). The step to watch is the retry, which sends the same text
to a new session: a marker would be wrong there, and is what `torn` records.

`CascadeProofs`. `CascadeInv` is the types with `PlacesInv` (places taken and free add up, as in `PoolSafe`),
`StampInv` (files, temporary files and what workers are about to write have true stamps), `WriterInv`
(who writes holds the lock and the temporary file is its own), `HolderInv` (who holds a lock writes), `StaleInv` (a worker that was replaced in
time has been told and has not got past its last look) and `EventInv` (an event is kept only while no worker of its cascade has
ended: each is on its way or was never started). `StampSafe`, `ApartSafe`, `StaleSafe` and `TidySafe` follow from one part each. `NoneStuckSafe`
takes `PlacesInv` and `HolderInv`: who waits for a write lock waits for the user's write or for a worker that writes, and a
worker at `"writes"` waits for nothing. `WorkersUsePool` is the third refinement of `RunnerPool`, from `PlacesInv`: a worker that is
replaced, fails or finds nothing to do gives its place back like one that wrote.

Assumptions on constants are named in the modules that declare them: `ChatQueryAssumption`, `QueryCardAssumption`,
`RunnerAssumption` (which contains `Soft < Hard`, enforced by `config.py` 773-779), `PermAssumption`,
`RoutingAssumption`, `FailoverAssumption`, `BridgeAssumption`, `SessionsAssumption`, `CascadeAssumption`, `ChatStoreAssumption` and
`ApiCallsAssumption`. TLC evaluates them in every run.

Only model-checked is what the prover does not support, liveness under fairness: `QueueDrains`, `RunEnds`,
`PlacesComeBack`, `HealthFollows`, `CardFollows`, `UserIsTold`, `StopsInTheEnd`, `ChangesAreSaved`, `CallsEnd`, and that an
end is reported at all in `EndIsReported`. For each of them the part that is no matter of scheduling is a theorem:

| Checked by TLC | Proved |
|---|---|
| `QueueDrains` | `DrainSafe`: somebody is always on the way to the slot |
| `RunEnds` | `WatchedSafe`: a process has a watcher that will kill it |
| `CardFollows`, `UserIsTold` | `AscendSafe`: the card never goes back; `ToldSafe`: no query ends untold |
| `PlacesComeBack` | `OnwardSafe`: a connection only moves on |
| `HealthFollows` | `HealthSafe`: what is known stays known |
| `StopsInTheEnd` | `EndSafe`: the flag goes only with the process |
| `ChangesAreSaved` | `ArmedSafe`: what is not saved has a timer |
| `EndIsReported` | `ReportedOnce`, `KeptTasks`: at most one report, and no task forgotten |
| `CallsEnd` | `PoolUsed`: no place is lost |

What TLC adds is that the steps these theorems speak of are taken. Every other property of a run is a theorem:
`chat_serial` checks `QueuedIsVisible`, `ForegroundExclusive` and `ImplementsService` under the hypotheses of their
theorems.

## 6. Plan

Done: `ChatQuery`, `RunnerLifecycle`, `PermGate`, `Routing` with `Failover`, `QueryCard`, `Bridge` with the voice
buffer, `ChatStore`, `Sessions`, `Cascade`, `ApiCalls`, and the proofs above. What is left, in this order:

1. `LockRegistry`: the eviction and replacement of locks by `concurrency.py` against those who hold them, composed
   with the lock of `ChatQuery`, and `wait_for_idle`, which probes every lock.
2. The PID lock of `bridge.py` against two processes that start at once.

## 7. Not modelled

Formatting of cards and prompts, the texts of commands, the parsing of the configuration, the building
of requests and command lines, the decoding of streams, logs and metrics: no other component decides on
them, and they are most of the lines of the source. The remote side of Feishu appears only through calls that fail or are
reported so, and that of a model provider only as working, busy, failing or silent. The registry of
locks is a cache whose eviction needs hundreds of chats; the replacement of a lock after the hard timeout is
in the plan. The loading of plugins
and the setup of backends run once, before the first message; the orchestration of workers is switched
off in this version (`handlers/_query.py` 1154). The recogniser of voice messages, what a provider, a tool or the
shell does, and the guarantees of the file system under a power failure are outside the program.

Within the modules, the following is left out on purpose. `Sessions`: a summary reads the last 50 entries of the log
(`memory.py` 1561), the model all of them; a session id whose file cannot be removed. `Cascade`: a body is cut at the
layer's `max_chars` (`memory.py` 475), so that facts may go under a true stamp; `load_project_memory` returns the
empty text for a file of another directory or one that cannot be read (`memory.py` 525-534), so that the merge begins
from nothing; a stamp only speaks of the summary merged last, which is not read from the file. `ApiCalls`: the histories
of one `/reset` are cleared in one step, though one after the other in the code.

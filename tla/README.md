# Formal models of eeebot / nanobot

TLA+ modules, TLC configurations and TLAPS proofs about the agent in `src/`. The
modules are written from the code; the tests and docs were read to learn what is
promised. `PROJECT.json` maps every definition to the lines it models and lists
runs, mutants, findings, hazards and theorems.

## The system

The repository is a personal agent (`nanobot`, being renamed `eeebot`) that talks to
users over chat channels, schedules its own work, and improves its own code in
supervised cycles that an ops dashboard and control scripts watch over.

| part | state | operations | interacts with | module |
|---|---|---|---|---|
| sessions and memory (`session/manager.py`, `agent/memory.py`) | cache of sessions, one file each, `last_consolidated`, `HISTORY.md`, failure counter | get, save, `/new`, consolidate, archive | agent loop; LLM | `Sessions` |
| agent loop and bus (`agent/loop.py`, `bus/`, `agent/tools/message.py`) | inbound queue, task per message, global lock, shared tool context | dispatch, turn, `/stop`, `/restart`, `process_direct` | channels, cron, heartbeat, subagents | `AgentDispatch` |
| subagents (`agent/subagent.py`) | task per subagent, telemetry file | spawn, finish, fail, cancel | results come back through the bus | `AgentDispatch` |
| cron (`cron/service.py`, `agent/tools/cron.py`) | job list in memory and `jobs.json`, timer task | add, remove, list, tick, start, stop | runs turns through `process_direct`; other processes edit the file | `CronService`, `Gateway` |
| heartbeat (`heartbeat/service.py`, `utils/evaluator.py`) | timer | tick: decide, run, evaluate, tell | `process_direct`, outbound queue | `Gateway` |
| provider retry (`providers/base.py`) | attempt, images | chat with retry | LLM services | `Gateway` |
| channels, outbound (`channels/`) | outbound queue, message in hand | dispatch, send | external services | `Outbound` |
| channels, inbound (`channels/`) | id caches, album buffers, typing tasks, mail poll | handle, deduplicate, flush, poll | external services, bus | `Inbound`, `Mochat` |
| guarded self-evolution (`runtime/autoevolve.py`, `scripts/`) | git repository, candidates, releases, `current` link | commit, push, candidate, apply, health check, rollback, export, merge | cycle reports, GitHub | `GuardedEvolution` |
| coordinator (`runtime/coordinator.py`) | plan, history, experiment, goal, requests | one cycle | approval gate, materializer, promotion | `TaskPlanner`, `Promotion` |
| materializer (`runtime/subagent_materializer.py`) | requests and results | materialize | coordinator | `TaskPlanner` |
| promotion (`runtime/promotion.py`, `runtime/state.py`) | candidate, decision, latest, packet, patch and accepted records | packet, review, readiness | coordinator, operator, dashboard | `Promotion` |
| ops control pipeline (`ops/dashboard/scripts/`) | `execution_queue.json` and artifacts | enqueue, dispatch, request, hand off, bundle, delegate, watch, redispatch, assign | one another, by files only | `ControlQueue` |
| dashboard (`ops/dashboard/src/`) | database of collections and events | collect, store, show | files of the repository and of a host | `Promotion` (promotions only) |
| CLI, configuration, tools, skills, bridge | | | | not modelled |

What is hard in it: one asyncio loop interleaves turns at every `await`, so that
objects read before an LLM call are used after it; cancellation (`/stop`, a timer
that re-arms itself) hits code in the middle; several processes rewrite the same JSON
files without locks; `/restart` and crashes cut sequences of file writes; retries
count failures in shared variables; platforms deliver events twice and answer calls
too late; a planner's rules hand work to one another without an end in sight.

## Modules

| module | models | kind |
|---|---|---|
| `Sessions` | sessions, consolidation, `/new`, turns, restart | detailed specification |
| `Sessions_proofs` | inductive invariant and theorems of `Sessions` | proofs |
| `AgentDispatch` | queue, tasks, lock, shared tools, `/stop`, subagents, restart | detailed specification |
| `AgentDispatch_proofs` | inductive invariant and theorems of `AgentDispatch` | proofs |
| `CronService` | job store, file, timer, tick, tool calls, other writers | detailed specification |
| `CronService_proofs` | inductive invariant, theorems and refinement of `CronService` | proofs |
| `Reminders` | what a one-time job promises | abstract specification, implemented by `CronService` |
| `GuardedEvolution` | commit to merge of a self-evolution run, local cycle, edits, crashes | detailed specification |
| `GuardedEvolution_proofs` | inductive invariant and theorems of `GuardedEvolution` | proofs |
| `TaskPlanner` | which task the next cycle works on; the order of a cycle's files | detailed specification |
| `TaskPlanner_proofs` | inductive invariant and theorems of `TaskPlanner` | proofs |
| `Promotion` | a candidate from the cycle over the review to the dashboard | detailed specification |
| `Promotion_proofs` | inductive invariant and theorems of `Promotion` | proofs |
| `ControlQueue` | the scripts over one queue file | detailed specification |
| `ControlQueue_proofs` | inductive invariant and theorems of `ControlQueue` | proofs |
| `Outbound` | dispatcher and the send of eleven adapters | component |
| `Gateway` | heartbeat, cron callback, model retry, over `Outbound` | composition |
| `Gateway_proofs` | inductive invariant and theorems of `Gateway` with `Outbound` | proofs |
| `Inbound` | ten adapters from the platform to the bus | detailed specification |
| `Mochat` | sockets, workers, cursors of the eleventh | detailed specification |
| `MC...` | model values and instances | for TLC |

### Sessions

One action is the code between two awaits on the LLM. A command (`Turns`, `Results`,
`News`) is the coroutine that handles one message and also stands for the messages its
turn appends; `pc[c]` is where it stands, `at[c]` the `Session` object in its local
variable. Objects live in a heap `sess`, because `/new` invalidates the cache while a
consolidation may still hold the old object: this is what makes the stale save visible.
`lock` is `_processing_lock`; `LockFree` is the per-session `asyncio.Lock`, held exactly
while its owner awaits the LLM. `DirectKeys` are the sessions of `process_direct`, which
takes no lock. The estimate of prompt sizes is a nondeterministic choice (go on, or
leave); boundaries are chosen where `pick_consolidation_boundary` allows them: before a
user message. `overtaken` and `forsaken` are observers; no action reads them.

Two exceptions are built into `NothingLost`: sessions whose consolidation was overtaken
by `/new` (it then saves the emptied session with an offset beyond its end, memory.py:352),
and archives that gave up or died with the process (memory.py:297 gives up without the
raw dump when another session's success resets the shared counter). Both are real losses
in the code; everything else is shown to survive.

### AgentDispatch

Turns are user messages, direct turns and subagent results. `lockq` is the queue of the
`asyncio.Lock`: holder first, waiters in FIFO order. `ctx` and `sent` are the state of
the shared tools. `HandleStop` pops and cancels the session's tasks and `FinishStop`
cancels the subagents once the tasks are gone, the loop being blocked in between.
Sessions and memory are left out: the two modules share the global lock and the turn's
life cycle, and each keeps what its properties need. `spoke`, `strayed`, `parent`,
`overlapped` and `arrived` are observers. Progress messages and the other slash
commands, which answer their own chat from inside the lock, are left out.

Known exceptions in the properties: a direct turn that uses the message tool silences a
chat turn at work (`overlapped`, loop.py:543), and `/stop` in a thread misses subagents,
which are filed under the chat (loop.py:298).

### CronService and Reminders

A tick runs the due jobs one after the other and awaits a turn for each; everything
else happens between two awaits. `stale` says that the file's mtime differs from
`_last_mtime`; `Loaded` is what `_load_store` returns then. `orphan` says that the store
was reloaded since the tick took its job objects, so what it writes to them is lost.
`ArmTimer` cancels the tick when it is called from a job's own turn. Other processes add,
remove, enable and disable jobs by rewriting the file. A crash may tear the file, which
the next start reads as no jobs. A job's turn may publish with the message tool before it
ends (`Tell`; commands.py:584 looks at `_sent_in_turn`), or publish its answer at the end
(`JobEnds`), so a turn that delivered can still be cut off: by a crash, or by an operation
that arms the timer, its own call of the cron tool included (service.py:231). The job is
then still due and the next turn delivers again. `Reminders` has no timers, files or
processes, and says so: what one turn publishes is one delivery, and there is none before its
time, none after a turn has ended or the reminder was removed, and a second turn only when the
turn that delivered was cut off (`CutOff`). `ImplementsReminders` maps the detailed state
onto it through `said` and `told`. It is a weaker promise than the skill's "runs once at a
specific time, then auto-deletes" (skills/cron/SKILL.md): the code does not keep that one.

Known exceptions: a one-time job in the past, or missed over a restart, stays enabled
without a next run (service.py:23); a one-time job that ran in a tick comes back and runs
twice when the file, changed by another process, is reloaded before the tick's final
save (service.py:259; `dropped`).

### GuardedEvolution

The script of the timer is a program counter `pc`; every git command, link operation and
`gh` call that can fail or be cut off on its own is an action, and so are an OSError of
`os.symlink` after the `unlink` (`LinkFails`) and a signal or exception in the wait or before
the rollback (`TrialFails`). A version is the content
of the tracked files, and a release is named by its version (two candidates of one commit
have different directories with the same content, which no property tells apart). Commit,
the clean checks and `git archive` know tracked files only; the export copies the working
tree with its untracked files (`loose`) and does `git add .`, so that a branch, the public
main and an export are a version and whether untracked files lie beside it (`Contents`). `age`
stands for everything `health_check_release` reads: the newest report, its time, and the
summary and plan that a cycle writes with it. `StartCycle` reads the link as
`run_local_cycle.sh` does, falling back to the working tree; a cycle of a version in
`Broken` ends without a report. The public repository is its `main`, the lane's branch and
its pull request; a publish remote other than `selfevo` skips the export and is the case
that `RemoteFails` ends the run there. `git push` and the link to `origin/main` that
`create_candidate_release` reads move together.

`HostRecovers` says what `current` is outside a trial. `Kept` is the verdict's demand: the
release the run found, or its candidate if the gate was passed. What the code does not avoid
is named in the formula:

* a run that is cut off in its trial, by a kill or an exception in the 300 s of waiting,
  before the rollback, or while a link is changed (`cut`), leaves its candidate current
  without a passed gate, or no release. The next run takes what is there for the release
  to go back to;
* no release at all after a run that ended between `unlink` and `symlink` (`halved`), until
  the next candidate is applied;
* a failed candidate stays where the run found no release (in `Kept`).

`OnlyVetted` says that a merge brings what this run exported after its own gate was passed,
never what a failed candidate left on the branch. It does not say that all of it was gated:
tracked files edited after the candidate was made (`edited`) and the untracked files of the
working tree are merged, too. `GetsTried` excepts a commit whose push failed, which is never
pushed later (`head # origin`).

### TaskPlanner

One action is one cycle of `run_self_evolving_cycle`: it reads the plan of the last
cycle, history, experiment and world, decides (`Feedback`, rule by rule in the order of
`_derive_feedback_decision`), builds the new plan (`Snapshot`, the steps of
`_build_task_plan_snapshot` in order) and writes `Files` in order. `DyingCycle` stops
after any number of them. The history is its newest entry and the lengths of the runs
that the rules ask for (`Runs`), since no rule looks further back. Rewards are tenths.
`World` is what other programs change: a failed candidate, its issue, no-op records;
`upsets` bounds these changes and the deaths together. `idle` is an observer: passing
cycles in a row, undisturbed, that left nothing to verify; `IdleLimit` = 14 is tight.

What the model shows of the code beside its properties: after a blocked or failed cycle
core tasks are left open, between which the planner rotates for ever, so
`KeepsVerifying` exempts that state and a failure that stays fresh; `OneActive` is about
passing plans only; a fresh failure reopens even a closed issue's analysis
(`StaysRetired`); the readiness gate of candidates never blocks; the artifact of a
materializing task is written whatever the cycle's result; `execute_queued_revert` has no
caller. The first rule of `_derive_feedback_decision`, to repeat a decision that retired a
lane while that lane is still current (coordinator.py:649), never applies to a plan that a
cycle wrote, since whoever retires a lane moves the current task away from it (proved, see
below). The outcome of an experiment compares the raw reward, while the reward it
records is raised by an artifact, so a discarded experiment need not be worse than the
last one (coordinator.py:1458, against the contract text at coordinator.py:1539).

### Promotion

Two writers, the cycle and an operator, have a list of writes before them (`job`), each
in two halves: the file is torn in between, or for good if the writer dies. `cycle.mine`
is the record the cycle made before its turn, which it writes again at its end. The
records keep what readers tell apart: review status, decision, where decision and
accepted record are, whether the provenance is complete, and the governance packet. The
collector reads a local repository through `load_runtime_state` (two steps: the record,
then the files next to it), or a host over ssh, and stores an event; `Page` is the
verdict of the web page. `crossed` and `broken` are observers: candidates whose review ran
beside their cycle, and whose writer died.

What the code does and the properties exempt: a review beside its cycle is overwritten by
the cycle's own copy, made after its turn (coordinator.py:3856), so that no property covers
this; one of the first record makes the packet's completion raise; a rejection after an acceptance leaves patch and accepted record, and
the page may go on saying "accepted"; on a host, an acceptance under way is shown before
its record exists. A review of an older candidate moves `latest.json` back to it; a torn
`latest.json` makes the reader fall back to the report. "accept" and "reject" stand for
all four decisions; the reader `_load_local_runtime_state` of the collector is not
modelled.

### ControlQueue

`disk` is the record of all files, by name; a script reads them and then replaces files
one after the other (`Write`), each at once. A crash may cut the list of writes short;
only an operator's `Complete` can come between the reading and the writing. The queue that
a script writes then overwrites the completion, and a script that does not write the queue
might as well have run before it, so the order shows only when the script dies half-way:
where it still can, the writes may be kept in `job`. Times are ticks longer than the
watchdog's threshold. Tasks, ticks and crashes share the bound `MaxEvents`, because all that
can go wrong takes few of them in any mixture.

`Trail` excepts a task that was redispatched after a script died (`Remade`), which needs one
task, one crash and one tick: the handoff script dies when handoff and request are written
and the queue is not; the Pi Dev script goes on from the handoff, so that the task has a Pi
Dev request but no handoff; the task becomes stale, is redispatched and dispatched, and at
the head of the queue gets a new request, since that consumer only asks for the handoff
(consume_execution_requests.py:107). Its Pi Dev request is still the one of the old request.

What the code does and the properties exempt: a crash between artifact and queue strands a
task until somebody redispatches it; a task that was redispatched and assigned is also
requested from Pi Dev at the head of the queue, and then stays `pi_dev_dispatch_ready`
because the assignment already set `delegated_executor_requested_at`; `locate_target_task`
falls back to a completed task and queues it again.

`Findable` says that the file, time or next action that a task's consumer looks for is there.
It does not say that the consumer gets to the task, and this code does not see to that:
- `tasks.insert(0, ...)` (enqueue_active_remediation.py:173) puts a new task before one that is
  queued or in progress, and the dispatch of a queued task (consume_execution_queue.py) and the
  request of one in progress (consume_execution_requests.py:101) look at `tasks[0]` only. The
  displaced task waits until the ones before it leave the queue; the watchdog finds it by its
  start, but
- no incident is taken while any task is `stale_blocked` with one
  (consume_stale_execution_incidents.py), and the next action that would free that task is not
  reached while an earlier file of the directory is recorded in any task of the queue
  (consume_stale_execution_next_actions.py:213-224): that file stays first and is looked at
  again and again. Then the blocked task, and every stale task after it, waits for an operator.
- an assigned task at `pi_dev_dispatch_ready` (above) waits for the executor of its assignment.

So `ops/dashboard/docs/AUTONOMOUS_EXECUTION_AND_STAGNATION_CONTROL.md:89-91`, by which the
controllers turn a stale item "back into a fresh queued redispatch line" and "restore a fresh
live delegated execution line", is not true of every task, without any script dying. `Redispatch`,
`StaleIncident`, `DispatchHead` and `RequestHead` have these guards, and no liveness property is
stated of this component.

### Outbound and Gateway

`Outbound` sends one message at a time: `hand` holds the pieces still to be sent
(attachments, chunks of text, the note that stands for attachments that failed), the
tries of the first, and the form it is sent in. A call ends `ok`, `late` (an exception
although the piece arrived), `lost`, `refused` (an error answer) or `missing` (no call).
Each adapter has its own order, retries and fallbacks, translated from its `send`. An empty text is a piece where the adapter
sends it: WhatsApp, QQ and e-mail do, Slack and Matrix if there is no attachment, while Mochat
makes the attachments' references the text and WeCom and the others send nothing.
`arrived` is what the user sees. `Gateway` adds the heartbeat's tick and the callback of a
cron job: every question to the model goes through `chat_with_retry` (`call`), and what is
worth telling is published. A turn's many calls of the model are one call.

Seen in the code: the outbound queue is not drained at stop; Matrix takes error answers
of `room_send` for success; Discord tells of failed attachments only without text and with
nothing sent; Feishu, WhatsApp, QQ, WeCom and e-mail drop media silently or with a log
line; an error of the decision is a skip, and of the evaluation a yes; there is no retry
without images after the last transient error.

### Inbound and Mochat

A behaviour of `Inbound` is about one adapter and one chat. `tasks` are the handlers under
way: at most one where the platform's loop awaits it (Telegram, Discord, Matrix, WhatsApp,
QQ), any number elsewhere, which may then overtake one another (`BusRight` promises order
only to the former). A handler stops where it awaits reactions, downloads or typing.
Redelivery happens while the cache can still hold the id. Seen in the code: Telegram turns
typing on before the permission check, for a denied sender too (`Served` exempts him);
Slack without its own user id may take a mention twice (`named`).

A call that fails in a handler loses the message (`HandlerFails`; `lost`, which `Served` exempts):
Feishu cannot write a file it downloaded (feishu.py:832) after it remembered the message's id, so
that a redelivery would be dropped; Matrix's client raises in a download (matrix.py:611), which
leaves the handler and the answer of the sync, so that the events behind it may go too before
`_sync_loop` asks again; Telegram's `get_me` raises for a group message (telegram.py:647); Slack
cannot acknowledge (slack.py:159); DingTalk's download brings nothing and there is no other text
(dingtalk.py:109). `Served` says that nothing else is lost, and no other handler stops. Of the
mails that a poll found, one whose FETCH is not OK or empty is left to a later poll
(email.py:344-350), which may bring it after later mails, so `BusRight` exempts these mails from
the order (`skipped`); one without a sender (email.py:360) is looked at by every poll and never
heard, without any error. The latter makes `MailHeard` too strong on its own; `InboundMail.cfg` has
mails with senders only. Not modelled: a media directory that cannot be created.

A behaviour of `Mochat` is about one session or panel. The connect handler's subscription,
the pushes of the server, the fallback worker, the debounced cursor file and the held-back
messages of a panel run side by side; a late handler of an earlier connection is kept
apart from the one of this connection (`live`). Seen in the code: such a handler stops the
workers of a later connection that nobody subscribed to (mochat.py:417-431), after which
the channel hears nothing (`Deaf`, exempted by `Heard`); panels have no cursor; stopping
drops what is held back; a cold session drops its first payload as history. Assumed: the
server pushes only after its answer, and payloads that reached a handler are worked off
before a save, a stop or a reconnection.

## Runs

Passing runs, with the states TLC finds:

* `sessions` (363 thousand): one chat and one direct session, two turns, one result, two
  `/new`, three failures to the raw dump, two rounds, one restart. Two turns and a result
  give chunks of different length and a non-user boundary; two `/new` let an archive, a
  second archive and a consolidation be under way together.
* `cron` (557 thousand): one job of each kind, period 2, clock up to 5, one external edit,
  one restart. The horizon holds two periods of each recurring job and an `at` in the
  past, now and in the future; one edit makes the store stale at every point of a tick.
* `dispatch` (553 thousand): two chats, a `/stop`, a direct turn, a subagent, one restart.
* `evolution` (265 thousand): versions 0 (good), 1 (broken), 2 (good), any number of crashes
  and failures, untracked files that appear once, the unit of time being the cycle's 300 s:
  `Wait` 1 and `MaxAge` 2, as README.md recommends. Three
  versions let a good release be replaced by a broken one that is rolled back, and a later
  version be exported to the branch the failed one left.
* `control` (764 thousand): one remediation key, one project, one gap, and three tasks, ticks
  and crashes together.
  Two tasks let a restored or re-enqueued task stand beside its stale predecessor, one
  tick makes a task stale and redispatched, and a crash before it needs the third.
* `planner` (111 thousand): all plans reachable with one upset, a fresh, missing or expired gate,
  failing and passing turns; undisturbed streaks of any length.
* `gateway` (311 thousand): eleven adapter settings, six shapes of messages, four failing
  calls of the platform (three exhaust the retries of a piece, the fourth its fallback)
  and four errors of the model, one message besides the run's own.
* `inbound` (342 thousand): ten adapters, three events of nine kinds, a cache of two ids,
  one redelivery, two calls that fail (a stale mailbox and its second error, or two handlers); three events let an album be crossed by others and the cache evict.
* `mochat` (444 thousand): three settings, two messages, two lives, one failing call, a
  payload of at most two, a cache of three. Two messages are enough for a cursor between
  them; the cache is not exceeded.
* `promotion` (956 thousand): two sources, a first candidate that lacks everything and a
  second that is ready, three cycles, reviews and deaths together.

Runs that exhibit a disagreement (see "findings" in `PROJECT.json`):

* `evolution_gate`: a candidate that never writes a report passes the gate with the report
  of its predecessor.
* `inbound_mail`: a poll of the mailbox that breaks off loses the mails it had fetched.

The other disagreements met while modelling are the exceptions named above; each is a
named exemption in a property rather than a run.

`CHECK_DEADLOCK FALSE` is set except in `evolution`: each instance has finitely many
commands and a bounded clock, and the program waits for input when they are used up.

`BetweenAwaits`, `HostRecovers`, `OnlyVetted`, `JobsKept`, `OnTime`, `AnsweredInOrder` and
`DeliveredOnce` are conjunctions of named parts that belong together and are checked
together.

Fairness. asyncio runs every ready task, and every LLM call ends (the retries are
bounded; that a single call ends is assumed of the client libraries), so the steps of consolidations, archives, turns, ticks and
subagents are weakly fair, each on its own. Arrivals, tool calls, failures, crashes,
`/stop`, edits by other processes and the clock are not fair. `DueRuns` does not even
need the clock: only a tick that is already due must happen.

For `GuardedEvolution`: systemd starts the script again for ever, `time.sleep` ends, and
what has begun goes on (weak fairness of the other steps). Commit, push, the archive,
unpacking and the new link can fail or be cut off, but not each time they are tried (strong
fairness). Cycles, edits, failures and
crashes are not fair; `GetsTried` holds whether reports are written or not.

For `Gateway` and `Inbound`: timers fire, the mailbox is polled again, and calls of platforms
and models end. The last is an assumption about the client libraries: the code sets no timeout
for Feishu's lark client (feishu.py:304-308) or Matrix's nio client (matrix.py:204-208), which
retries by itself, and a call that never ended would stop the dispatcher; each of the two loops is weakly fair. For `Mochat`: the loop goes on,
workers ask again, and the server answers; what fails is bounded by `MaxFaults`. For
`Promotion`: timers start cycles and collections, a writer that lives goes on, and not
every collection fails (strong fairness of storing it). `KeepsVerifying` of `TaskPlanner`
is a liveness property in the form of a bound: no fairness is needed.

Each property is accompanied by a mutation of the code (an operator named after the one
it replaces) under which TLC finds it violated.

## Proofs

`Sessions_proofs` proves for every number of sessions, commands and restarts and every
threshold: `TypeOK`, `NothingLost`, `HiddenIsArchived`, `BetweenAwaits` (from
`CacheIsSaved` and `LockHeld`) and the action property `AppendOnly`. Assumptions:
`KindsAssumption` (kinds of keys and commands are disjoint) and `BoundsAssumption`
(thresholds are positive numbers).

None of the invariants is inductive alone. `IInv` adds: `References` (every command and
cached entry refers to an existing object of its own key), `Ownership` (a task that will
still save holds the cached object, unless `/new` overtook it or it waits on an emptied
one), `Exclusive` (one consolidation of a session awaits the LLM at a time) and `InFlight`
(the chunk sent to the LLM is still what follows the offset). `Ownership` is what makes
`save` safe, and `InFlight` is what makes moving the offset safe; `/new` breaks both for
a session whose lock is held, which is exactly the set `overtaken`. There is one lemma
per action; `AppendOnly` follows from `Ownership` and `CacheIsSaved`.

The second half of `Sessions_proofs` proves `ArchivedOnce` on top of `IInv`. A turn that is not in
`HISTORY.md` is in one place only: once behind the offset of its file, or in one archive
task (`Unarchived`, `ArchiveInv`); what a consolidation has in flight is part of what
follows the offset (`ChunkInv`), and `Exclusive` keeps a second consolidation off it.
`Provenance` says that wherever a turn is found it was committed, and under its own key.
All this is promised while `crashes` is 0 (`OnceInv`): a process that dies between
`append_history` and the save of the offset archives the chunk again after the restart.

`GuardedEvolution_proofs` proves `TypeOK`, `HostRecovers` (from `Restored` and
`AlwaysInstalled`) and `OnlyVetted` (from `OnlyPublished` and the action property
`MergeVetted`) for any number of versions, any broken versions, and any `Wait` and `MaxAge`,
from `EvolutionAssumption` (they are numbers, and `None` is no version). `Inv` adds where
the facts live while a run goes on: `RunInv` (the release at the beginning is first in
`current`, then in `prev`; no verdict before the gate; what `current` is at each step of the
trial), `PublishedInv` (candidate and previous release are on the remote) and `ExportInv` (an
unedited tree is the candidate's; a branch about to be merged holds this run's export).

`CronService_proofs` proves `TypeOK`, `JobsKept`, `OnTime` and the refinement
`ImplementsReminders` for any jobs, schedules, periods and bounds, from `JobsAssumption`
(the three kinds of job are disjoint, `None` is no job) and `TimeAssumption` (the period
and the times are positive numbers). None is inductive: while a job runs the tick holds
a list that the store may no longer show, and a reload brings the file's version back.
`TickInv` says what is in memory only while something runs; `ListInv` compares memory,
file and the jobs ever created; `TimerInv` repeats `TimerCovers` for the file, which the
next reload makes the list; `PlausibleInv` bounds a job's next run by what the schedule
allows now; `RunsInv` says that whatever is scheduled may run (`Fresh`), or that the tick
in progress has recorded a run the file does not show (`Behind`). Each group is kept by
the ones before it; there is one lemma per group, with one step per action. The earliest
wake-up is the least element of a set of naturals, which comes from the well-foundedness
of `<`; a cron match is a lemma about `\div`. For the refinement `StatusIs` shows which of
`Status`'s cases the invariant leaves (`Phase`: no second end, no turn in hand after one),
and `StepReminders` shows, one step per action, which step of its life each reminder takes.

`AgentDispatch_proofs` proves `TypeOK`, `AnsweredInOrder`, `ResultsReported` and the action
property `StopIsComplete` for any sets of messages, stops, direct turns, subagents, chats
and threads, from `IdsAssumption` (the sets are disjoint) and `RoutesAssumption` (every
message has a chat and a session key). The order of the answers is an invariant of two
queues: what waits in the bus and at the lock is exactly what arrived and is not finished,
the bus continues the lock's queue, and both are in the order of arrival (`LineInv`,
`PlaceInv`); that cancellation takes a waiter out of the middle keeps this, because the
rest of the queue keeps its order (`OldPlaces`). `ToolInv` says that a turn at work alone
has context and flag for itself; `SubInv` ties a subagent's task, telemetry and chat
together; `StopInv` says that a task at the lock is in `_active_tasks` under its key or in
the hands of the `/stop` that popped it. The completeness of `/stop` is then a fact about
the two steps that answer one.

`Promotion_proofs` proves `TypeOK` and `TrailAgrees` for any number of candidates and
cycle kinds, and any number of reviews, deaths and collections, from `SourcesAssumption`,
`KindsAssumption` (kinds are given per candidate) and `NoneAssumption` (`None` and `Torn`
are no content of a file). A state where a writer is half-way satisfies `TrailAgrees`
only because of what the writer is going to do, so the invariant speaks of the files
together with `job`: `Ruled` is a verdict that a candidate has or is about to have, and
every candidate record still to be written says the same (`AgreeInv`); an accepted record
follows its decision and its patch within the job (`OrderInv`); each job writes each file
of one candidate once (`JobShape`). `Backed` says that an approval which a reader may
find, in a file, in a job or in the record a cycle holds, has a decision, and if nothing
was disturbed an accepted record that is there or coming (`SeenInv`); `ReadingInv` carries
this over to what the collector has read and not yet shown. Writers that overtake each
other (`crossed`) or die (`broken`) are excepted by name, and both sets only grow. There is
one lemma for a write, one for a death, and one per action that begins a job: all of
these are a new job with its records backed and its verdict agreeing (`NewJobKeeps`).

`ControlQueue_proofs` proves `TypeOK`, `Trail` and `Findable` for any keys and projects
and any number of tasks, ticks, gaps and crashes, from `BoundsAssumption` and
`NoneAssumption` (the bounds are numbers, `None` is none and no key or project). `Fine` says
of the files that each holds what it should (`FilesOK`), that what a task names is there
(`Linked`), that a task that has come so far has the paths and times of the way to there
(`Staged`), that no two tasks share a file (`Apart`), and, unless a script died, that a file
written for a task is named by it and in the state in which the next consumer takes it, and
that the next action of a blocked task is there (`Served`). The
scripts' own files only grow, so what a task refers to stays (`LinkedStays`). A crash may
come after any write and a completion before all of them: `JobOK` therefore asks that the
files be fine after every part of the running script's writes, which follows from their order,
own files first and the queue after them (`Between`). Each script has a lemma for the
files it leaves, one for the order of its writes and one for the step; a completion keeps
what a waiting script is going to leave fine (`CompleteFine`).

`Gateway_proofs` proves `TypeOK` and `SeenRight` for all eleven adapters, any setting of each,
any number of messages, attachments and chunks, and any calls that fail, arrive late or are
refused, from the assumptions of `Outbound` and `NoneAssumption` (`None` is no call of the
model). What is in hand is a promise, as in `Promotion`: the pieces that `send` has still to
try are in the order of the adapter and after all that arrived, and only the last piece to
arrive may be the one at hand, which is then tried again. A retry or a fallback moves `mode`
and `tries` on, so that these two count the calls made for the piece, and it has no more
copies than that; a note comes when the attachment it stands for has been given up. The queue
is the end of what was published (`Line`), so what is taken later was published later. Each
call of an adapter is one of few moves (`Goes`); that a move keeps the invariant is shown once,
and each adapter only has to make such a move. The proof asked for one change of the model:
guards of a CASE that overlap are not tried in order, and where a piece that arrived also was
at its last try, four adapters of `Outbound` left it open which of two arms was meant (TLC took
the first, which is what the code does); the guards now exclude each other.

`TaskPlanner_proofs` proves `TypeOK`, `OneActive` and the action property `StaysRetired` for
any approval gates, goals and number of cycles that die, from the assumptions of the module
(`NoneAssumption`: `None` is no task, candidate or decision). The plan under construction goes
through eight steps, and each has a lemma: it keeps `Draft` (no task twice, one active mark
that is the current task's after a pass, and a retired analysis that is closed is not
current). Some facts hold between certain steps only: `Raw` until the candidates have
become tasks, for the current task may not be in the plan yet, `Chosen` until then and `Full`
after, `Early` until a lane is completed. Where the chain starts is a decision derived from
the plan that was read, so plan and decision need an invariant together (`PlanOK`). `Feedback`
selects tasks that are in the plan or that `Candidates` will add (`FeedbackIs`); that needs
the shape of every plan (`Rooted`: it begins with the tasks of a blocked cycle, or of any
other, the reward among them), else the rotation could select the reward where there is none.
It never goes back to a retired analysis, because a task picked by class is never the analysis
(`PickIs`) and the others are open. And the plan's own decision is about a lane that is no longer
current (`FdOK`), also when a cycle without a decision carries it along, for such a cycle's
task is that of the last plan, a core task or one that no retirement selects (`Undecided`).

Only model-checked: the liveness properties (`Settles`,
`DueRuns`, `GetsTried`, `Served`, `Heard`, `CatchesUp` and the like), since liveness under
fairness and ENABLED are out of the prover's reach; `KeepsVerifying` of `TaskPlanner`, a bound on the length of any
path of passing cycles, for which an invariant would have to rank every plan; and all
properties of `Inbound` and `Mochat`. `Inbound` and `Mochat` compute what a handler or a batch leaves with
folds and filters over sequences, which are recursive; what such a definition computes for
every input takes an induction over data, which is out of reach, too. No module declares a
RECURSIVE operator.

## Not modelled

MEMORY.md and the repair of session files; MCP connections; progress messages of a turn;
the tool loop inside a subagent; `run_job` and in-process `enable_job` of the cron service
and `trigger_now` of the heartbeat, which only tests call; one-time jobs that are kept
after their run; the GitHub issue, the record files and the single-step scripts of guarded
self-evolution; rendering and parsing of messages, logins, pairing and encryption, and the
reconnection inside the clients' libraries, with the events lost while a socket is down;
reports, budgets and credits of the cycle, which no decision reads; the command of an
external executor; two control jobs at a time. The components marked `not_modelled` in
`PROJECT.json` are sequential wrappers of the file system, processes and the network
(tools, skills, security), wiring and user interface (CLI, configuration, onboarding) and
a relay in another language (the WhatsApp bridge); the dashboard's other pages present
what was collected.

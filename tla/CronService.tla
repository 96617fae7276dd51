----------------------------- MODULE CronService ------------------------------
(***************************************************************************)
(* The scheduler of the gateway (cron/service.py): the job store in memory *)
(* and in jobs.json, the timer task, and the tick that runs due jobs one   *)
(* after the other while chat turns, the job's own turn and other          *)
(* processes go on using the store.                                        *)
(*                                                                         *)
(* A tick awaits on_job (an agent turn) for each due job; every other      *)
(* operation runs between two awaits and is one action.  The tick holds    *)
(* the CronJob objects it found due: when the store is reloaded meanwhile, *)
(* what it writes to them is lost.  _arm_timer cancels the timer task,     *)
(* which is the tick itself while a job runs.                              *)
(***************************************************************************)
EXTENDS Naturals, FiniteSets

CONSTANTS
  AtJobs,      \* ids of one-time jobs; CronTool sets delete_after_run for them
  EveryJobs,   \* ids of interval jobs
  CronJobs,    \* ids of jobs with a cron expression: every multiple of Period
  Period,      \* every_ms, and the distance of two matches of the expression
  MaxTime,     \* bound on the clock
  AtTimes,     \* the at_ms a job may be given
  MaxEdits,    \* bound: how often another process writes jobs.json
  MaxCrashes,  \* bound: how often the gateway stops or dies
  None

Jobs == AtJobs \cup EveryJobs \cup CronJobs

ASSUME JobsAssumption ==
  /\ AtJobs \cap EveryJobs = {} /\ AtJobs \cap CronJobs = {} /\ EveryJobs \cap CronJobs = {}
  /\ None \notin Jobs
ASSUME TimeAssumption ==
  /\ Period \in Nat \ {0} /\ MaxTime \in Nat \ {0} /\ AtTimes \subseteq 1..MaxTime
  /\ MaxEdits \in Nat /\ MaxCrashes \in Nat

VARIABLES
  now,      \* the clock
  at,       \* id -> at_ms of its schedule, 0 before the job was created
  running,  \* CronService._running
  store,    \* _store.jobs: id -> a job, or Absent
  file,     \* jobs.json, or Torn
  stale,    \* the file's mtime differs from _last_mtime
  wake,     \* when the timer task wakes up, 0 when none is sleeping
  cur,      \* the job whose on_job the tick awaits, None when no tick is running
  due,      \* the jobs the tick will run after it
  orphan,   \* the store was reloaded since the tick took its job objects
  said,     \* the turn of the one-time job cur has published with the message tool
  edits, crashes,
  ran,      \* observer: how often a one-time job's on_job returned, up to 2
  told,     \* observer: one-time jobs that were delivered by a turn, but none of their turns ended
  last,     \* observer: when a recurring job's on_job last returned, 0 for never
  removed,  \* observer: ids for which remove_job returned True
  foreign,  \* observer: ids other processes wrote since the timer was last armed
  dropped,  \* observer: ids whose update was lost, or that others removed or overwrote
  torn      \* observer: the process died in the middle of write_text

tick == <<cur, due, orphan, said>>
bounds == <<edits, crashes>>
observers == <<ran, told, last, removed, foreign, dropped, torn>>
vars == <<now, at, running, store, file, stale, wake, tick, bounds, observers>>

Never == 0
Horizon == MaxTime + Period
Job == [enabled : BOOLEAN, next : 0..Horizon]
Stores == UNION {[S -> Job] : S \in SUBSET Jobs}
Empty == [j \in {} |-> [enabled |-> FALSE, next |-> Never]]

TypeOK ==
  /\ now \in 1..MaxTime
  /\ at \in [Jobs -> 0..MaxTime]
  /\ store \in Stores /\ file \in Stores
  /\ {running, stale, orphan, said, torn} \subseteq BOOLEAN
  /\ wake \in 0..Horizon
  /\ cur \in Jobs \cup {None}
  /\ edits \in 0..MaxEdits /\ crashes \in 0..MaxCrashes
  /\ ran \in [Jobs -> 0..2] /\ last \in [Jobs -> 0..MaxTime]
  /\ {due, removed, foreign, dropped} \subseteq SUBSET Jobs
  /\ told \subseteq AtJobs /\ (said => cur \in told)

Init ==
  /\ now = 1
  /\ at = [j \in Jobs |-> 0]
  /\ store = Empty /\ file = Empty
  /\ running = FALSE /\ stale = FALSE /\ orphan = FALSE /\ said = FALSE /\ torn = FALSE
  /\ wake = 0
  /\ cur = None /\ due = {}
  /\ edits = 0 /\ crashes = 0
  /\ ran = [j \in Jobs |-> 0] /\ last = [j \in Jobs |-> 0]
  /\ removed = {} /\ foreign = {} /\ dropped = {} /\ told = {}

-------------------------------------------------------------------------------
(* Pure parts: the schedule and the lists of jobs *)

\* Mutation of NextRun: a one-time job that was missed is caught up later.
NextRunCatchUp(j, a, t) ==
  CASE j \in AtJobs    -> a
    [] j \in EveryJobs -> t + Period
    [] j \in CronJobs  -> (t \div Period + 1) * Period

\* Mutation of NextRun: a match of the expression is skipped.
NextRunSkips(j, a, t) ==
  CASE j \in AtJobs    -> IF a > t THEN a ELSE Never
    [] j \in EveryJobs -> t + Period
    [] j \in CronJobs  -> (t \div Period + 2) * Period

\* _compute_next_run(j's schedule, t), with at_ms = a: a one-time job that is not in
\* the future has no next run.
NextRun(j, a, t) ==
  CASE j \in AtJobs    -> IF a > t THEN a ELSE Never
    [] j \in EveryJobs -> t + Period
    [] j \in CronJobs  -> (t \div Period + 1) * Period

\* at_ms of a new job: the past is not excluded; recurring jobs have none (1 here).
Times(j) == IF j \in AtJobs THEN AtTimes ELSE {1}

With(st, j, job) == [i \in DOMAIN st \cup {j} |-> IF i = j THEN job ELSE st[i]]
Without(st, j) == [i \in DOMAIN st \ {j} |-> st[i]]

\* _recompute_next_runs
Recomputed(st) ==
  [j \in DOMAIN st |->
    IF st[j].enabled THEN [st[j] EXCEPT !.next = NextRun(j, at[j], now)] ELSE st[j]]

Scheduled(st) == {j \in DOMAIN st : st[j].enabled /\ st[j].next # Never}
Due(st) == {j \in Scheduled(st) : st[j].next <= now}

\* Mutation of NextWake: only runs in the future count.
NextWakeFuture(st) ==
  LET times == {st[j].next : j \in {i \in Scheduled(st) : st[i].next > now}} IN
  IF times = {} THEN Never ELSE CHOOSE t \in times : \A u \in times : t <= u

\* _get_next_wake_ms, the earliest next run.
NextWake(st) ==
  IF Scheduled(st) = {} THEN Never
  ELSE CHOOSE t \in {st[j].next : j \in Scheduled(st)} :
         \A j \in Scheduled(st) : t <= st[j].next

-------------------------------------------------------------------------------
(* Pieces of the operations *)

\* _load_store: the file when it changed behind the service's back.  _last_mtime is
\* not updated, so every load reads the file again until the service saves.
Loaded == IF stale THEN file ELSE store

\* Observer: jobs whose run the tick has recorded in memory only, and a reload undoes.
Reverted ==
  IF ~stale THEN {}
  ELSE {j \in DOMAIN file : IF j \in AtJobs THEN ran[j] > 0 /\ j \notin DOMAIN store
                                  ELSE j \in DOMAIN store /\ file[j].next < store[j].next}

\* _save_store: write the whole list over whatever the file holds.
SaveStore(st) ==
  /\ store' = st /\ file' = st /\ stale' = FALSE

\* Mutation of ArmTimer: the running tick is left alone.
ArmTimerKeepsTick(st) ==
  /\ wake' = NextWake(st)
  /\ foreign' = {}
  /\ UNCHANGED tick

\* _arm_timer: cancel the timer task, asleep or running a job, and sleep anew.
ArmTimer(st) ==
  /\ wake' = NextWake(st)
  /\ cur' = None /\ due' = {} /\ orphan' = FALSE /\ said' = FALSE
  /\ foreign' = {}

-------------------------------------------------------------------------------
(* The service *)

\* start: load, recompute every next run from now, save, arm.
Start ==
  LET st == Recomputed(file) IN
  /\ ~running /\ running' = TRUE
  /\ SaveStore(st)
  /\ ArmTimer(st)
  /\ UNCHANGED <<now, at, bounds, ran, told, last, removed, dropped, torn>>

\* stop, a crash, or /restart: memory and timer are gone.  At worst the process dies
\* inside write_text and leaves a file that the next _load_store reads as no jobs.
Crash ==
  /\ running /\ crashes < MaxCrashes
  /\ running' = FALSE
  /\ crashes' = crashes + 1
  /\ store' = Empty /\ stale' = FALSE
  /\ wake' = 0
  /\ cur' = None /\ due' = {} /\ orphan' = FALSE /\ said' = FALSE
  /\ \/ UNCHANGED <<file, torn>>
     \/ file' = Empty /\ torn' = TRUE
  /\ UNCHANGED <<now, at, edits, ran, told, last, removed, foreign, dropped>>

\* list_jobs, get_job, status: only _load_store.
ListJobs ==
  /\ running /\ stale
  /\ store' = file
  /\ orphan' = (cur # None)
  /\ dropped' = dropped \cup Reverted
  /\ UNCHANGED <<now, at, running, file, stale, wake, cur, due, said, bounds,
                 ran, told, last, removed, foreign, torn>>

\* add_job from a chat turn; CronTool refuses it inside a job's own turn.
AddJob(j, t) ==
  LET job == [enabled |-> TRUE, next |-> NextRun(j, t, now)]
      st == With(Loaded, j, job) IN
  /\ running /\ at[j] = 0
  /\ at' = [at EXCEPT ![j] = t]
  /\ SaveStore(st)
  /\ ArmTimer(st)
  /\ dropped' = dropped \cup Reverted
  /\ UNCHANGED <<now, running, bounds, ran, told, last, removed, torn>>

\* remove_job from a chat turn or from the turn of any job, the removed one included.  A turn
\* that cancels its own tick may still publish: the next tool call needs no real await.
RemoveJob(j) ==
  LET st == Without(Loaded, j) IN
  /\ running /\ j \in DOMAIN Loaded
  /\ SaveStore(st)
  /\ ArmTimer(st)
  /\ removed' = removed \cup {j}
  /\ dropped' = dropped \cup Reverted
  /\ told' \in {told \ {j}, (told \cup ({cur} \cap AtJobs)) \ {j}}
  /\ UNCHANGED <<now, at, running, bounds, ran, last, torn>>

\* _on_timer when the timer wakes: take the due jobs and run the first one.
OnTimer ==
  LET st == Loaded IN
  /\ running /\ wake # 0 /\ wake <= now
  /\ IF Due(st) = {}
       THEN SaveStore(st) /\ ArmTimer(st)
       ELSE /\ store' = st /\ UNCHANGED <<file, stale>>
            /\ wake' = 0
            /\ cur' \in Due(st) /\ due' = Due(st) \ {cur'} /\ orphan' = FALSE /\ said' = FALSE
            /\ UNCHANGED foreign
  /\ UNCHANGED <<now, at, running, bounds, ran, told, last, removed, dropped, torn>>

\* Mutation of Rescheduled: the interval is counted from when the job was due.
RescheduledFromDue(j) ==
  IF j \in AtJobs THEN Without(store, j)
  ELSE IF orphan THEN store
  ELSE [store EXCEPT ![j].next = @ + Period]

\* What _execute_job does to the list once on_job returned, failed or not: one-time
\* jobs are deleted by id, the others updated through the object the tick holds.
Rescheduled(j) ==
  IF j \in AtJobs THEN Without(store, j)
  ELSE IF orphan THEN store
  ELSE [store EXCEPT ![j].next = NextRun(j, at[j], now)]

\* The message tool publishes in the turn of a one-time job; its further messages belong to
\* the same delivery.
Tell ==
  /\ running /\ cur \in AtJobs /\ ~said
  /\ said' = TRUE /\ told' = told \cup {cur}
  /\ UNCHANGED <<now, at, running, store, file, stale, wake, cur, due, orphan, bounds,
                 ran, last, removed, foreign, dropped, torn>>

\* on_job returns or raises, after it published the answer of a turn that was silent so far or
\* not: _execute_job ends; then the next due job, or save and arm.
JobEnds ==
  LET j == cur
      st == Rescheduled(j) IN
  /\ running /\ j # None
  /\ IF j \in AtJobs
       THEN ran' = [ran EXCEPT ![j] = IF @ = 2 THEN 2 ELSE @ + 1] /\ UNCHANGED last
       ELSE last' = [last EXCEPT ![j] = now] /\ UNCHANGED ran
  /\ dropped' = dropped \cup (IF orphan /\ j \notin AtJobs THEN {j} ELSE {})
                      \cup (IF due = {} THEN DOMAIN file \ (DOMAIN st \cup {j}) ELSE {})
  /\ IF due = {}
       THEN SaveStore(st) /\ ArmTimer(st)
       ELSE /\ store' = st
            /\ cur' \in due /\ due' = due \ {cur'} /\ said' = FALSE
            /\ UNCHANGED <<file, stale, wake, orphan, foreign>>
  /\ told' = told \ {j}
  /\ UNCHANGED <<now, at, running, bounds, removed, torn>>

-------------------------------------------------------------------------------
(* The world *)

\* Another CronService on the same file (the CLI agent's, a test's): load, change, save.
EditFile(j, st) ==
  /\ edits < MaxEdits /\ edits' = edits + 1
  /\ file' = st
  /\ stale' = running
  /\ foreign' = foreign \cup {j}
  /\ UNCHANGED <<now, running, store, wake, tick, crashes, ran, told, last, removed, torn>>

ForeignAdd(j, t) ==
  /\ at[j] = 0
  /\ at' = [at EXCEPT ![j] = t]
  /\ EditFile(j, With(file, j, [enabled |-> TRUE, next |-> NextRun(j, t, now)]))
  /\ UNCHANGED dropped

ForeignRemove(j) ==
  /\ j \in DOMAIN file
  /\ EditFile(j, Without(file, j))
  /\ dropped' = dropped \cup {j}
  /\ UNCHANGED at

ForeignEnable(j, b) ==
  /\ j \in DOMAIN file /\ file[j].enabled # b
  /\ EditFile(j, With(file, j, [enabled |-> b, next |-> IF b THEN NextRun(j, at[j], now) ELSE Never]))
  /\ UNCHANGED <<at, dropped>>

PassTime ==
  /\ now < MaxTime /\ now' = now + 1
  /\ UNCHANGED <<at, running, store, file, stale, wake, tick, bounds, observers>>

Next ==
  \/ Start \/ Crash \/ ListJobs \/ OnTimer \/ Tell \/ JobEnds \/ PassTime
  \/ \E j \in Jobs : RemoveJob(j) \/ ForeignRemove(j)
  \/ \E j \in Jobs : \E t \in Times(j) : AddJob(j, t) \/ ForeignAdd(j, t)
  \/ \E j \in Jobs, b \in BOOLEAN : ForeignEnable(j, b)

Spec == Init /\ [][Next]_vars

\* The event loop wakes sleepers, and every agent turn returns or raises.
FairSpec == Spec /\ WF_vars(OnTimer) /\ WF_vars(JobEnds)
-------------------------------------------------------------------------------
(* Properties *)

\* The tool's remove_job is final: the job is in neither copy of the list, and no tick
\* is running it or will run it, even if the tick had it in hand when it was removed.
RemovedForGood ==
  \A j \in removed : j \notin DOMAIN store \cup DOMAIN file \cup due /\ j # cur

\* No job disappears: until it is removed, or done when it is a one-time job, it is in
\* jobs.json, whatever ticks are cancelled and whenever the gateway stops.  Excepted:
\* a file torn by a crash, and a job that another process removed, or added during a
\* tick, whose final save does not look at the file.
KeptUntilDone ==
  \A j \in Jobs : at[j] # 0 /\ ~torn /\ j \notin removed \cup dropped =>
    j \in DOMAIN file \/ (j \in AtJobs /\ ran[j] > 0)

\* The list holds the jobs it should hold, no more and no fewer.
JobsKept == RemovedForGood /\ KeptUntilDone

\* While no job runs, the timer sleeps no longer than to the next run of any job this
\* process wrote last: no path leaves the service without a timer.
TimerCovers ==
  running /\ cur = None =>
    \A j \in Scheduled(store) \ foreign : wake # 0 /\ wake <= store[j].next

\* Recurring jobs keep their pace: an interval job starts no sooner than Period after
\* it last ended, a cron job at most once between two matches, however late ticks are
\* and however often they are cancelled.  Excepted: an update lost to a reload.
Paced ==
  \A j \in Jobs \ (AtJobs \cup dropped) : cur = j /\ last[j] # 0 =>
    IF j \in EveryJobs THEN now >= last[j] + Period
                       ELSE now \div Period > last[j] \div Period

\* Nothing is late for want of a timer, and nothing early.
OnTime == TimerCovers /\ Paced

\* One-time jobs behave as Reminders promises, through cancelled ticks, restarts and other
\* writers: nothing before the time, nothing once a turn has ended or after the removal, and
\* a second turn that delivers only when the turn that delivered was cut off, by a crash or
\* by an operation that armed the timer.  Excepted: a job that ran while another was still
\* running, when the list, changed by another process, was reloaded before the tick saved.
Status(j) ==
  IF at[j] = 0 THEN "unknown"
  ELSE IF ran[j] = 2 /\ j \notin dropped THEN "twice"
  ELSE IF cur = j /\ said /\ (ran[j] = 0 \/ j \notin dropped) THEN "telling"
  ELSE IF ran[j] > 0 THEN "done"
  ELSE IF j \in removed THEN "removed"
  ELSE IF j \in told THEN "cut" ELSE "scheduled"

OneTime == INSTANCE Reminders WITH
  Ids <- AtJobs, status <- [j \in AtJobs |-> Status(j)], time <- [j \in AtJobs |-> at[j]]
ImplementsReminders == OneTime!Spec

\* A due job does not stay due for ever: it is run, removed or disabled, or the service
\* stops; cancelled ticks are taken up again.
Overdue(j) ==
  running /\ j \in Due(store) \ foreign
DueRuns == \A j \in Jobs : Overdue(j) ~> ~Overdue(j)
===============================================================================

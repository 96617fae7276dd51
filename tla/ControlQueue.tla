----------------------------- MODULE ControlQueue ------------------------------
(***************************************************************************)
(* The control pipeline of the ops dashboard (ops/dashboard/scripts): the  *)
(* scripts that put remediation tasks into control/execution_queue.json    *)
(* and hand the task on, from file to file, until an executor has it; and  *)
(* the stale-execution scripts that take it back.                          *)
(*                                                                         *)
(* A script reads the files it needs, then replaces files one after the    *)
(* other (atomic_write_json); a crash may come between two writes, and an  *)
(* operator who records a completion by hand may edit the queue between    *)
(* the reading and the writing: "job" holds the writes until then.  The    *)
(* control job runs one script at a time, in no order the model relies on. *)
(***************************************************************************)
EXTENDS Naturals, Sequences, FiniteSets, FiniteSetsExt

CONSTANTS
  Keys,       \* dedupe keys of the tasks that the analyzer asks for
  Projects,   \* entries of control/active_projects.json
  MaxEvents,  \* bound on the tasks enqueued, the ticks of the clock and the crashes, together
  MaxGaps,    \* bound on the gaps reported
  None

ASSUME BoundsAssumption == MaxEvents \in Nat /\ MaxGaps \in Nat
ASSUME NoneAssumption == None \notin Nat /\ None \notin Keys /\ None \notin Projects

VARIABLES
  disk,   \* the files, by name
  job,    \* the writes that the running script has still to do
  now,    \* a tick is more than the 30 minutes of the investigation rule
  adds,   \* tasks enqueued
  crashes \* scripts that died between two writes

vars == <<disk, job, now, adds, crashes>>

queue == disk.queue
MoreEvents == adds + now + crashes < MaxEvents

\* The fields of a task that hold a time or the path of a file.
Times == {"created", "dispatched", "requested", "handoff", "delegated"}
Paths == {"request", "handoff", "pidev", "bundle", "dispatch", "delegated",
          "incident", "redispatch", "source", "assignment"}
Statuses == {"queued", "in_progress", "requested_execution", "handed_off", "pi_dev_bundled",
             "pi_dev_dispatch_ready", "stale_blocked", "completed"}

\* A restore task is keyed by its project and the incident that it answers.
AllKeys == Keys \cup (Projects \X (0..MaxGaps))

NewTask(k, p) ==
  [key |-> k, project |-> p, status |-> "queued", state |-> None,
   at |-> [t \in Times |-> IF t = "created" THEN now ELSE None],
   path |-> [f \in Paths |-> None]]

\* A file of nextActions: named by the task's start and key, as its incident is.
NameOf(na) == [start |-> na.start, key |-> na.key]

Init ==
  /\ disk = [queue |-> <<>>, snapshot |-> {},
             projects |-> [p \in Projects |-> [status |-> "in_progress", gap |-> 0]],
             gaps |-> 0, dispatched |-> {}, requests |-> <<>>, handoffs |-> <<>>,
             pidevs |-> <<>>, bundles |-> {}, dispatches |-> 0, delegated |-> 0,
             incidents |-> {}, nextActions |-> {}, redispatches |-> 0, assignments |-> <<>>]
  /\ job = <<>> /\ now = 0 /\ adds = 0 /\ crashes = 0

-------------------------------------------------------------------------------
(* Scripts and their writes *)

Put(f, v) == [file |-> f, value |-> v]

\* The files after the first n writes; no script writes a file twice.
After(writes, n) ==
  [f \in DOMAIN disk |->
     IF \A m \in 1..n : writes[m].file # f THEN disk[f]
     ELSE writes[CHOOSE m \in 1..n : writes[m].file = f].value]

\* A script writes its files, or dies between two of them; one that dies before them has done nothing.
Write(writes) ==
  \/ disk' = After(writes, Len(writes)) /\ UNCHANGED crashes
  \/ /\ MoreEvents /\ crashes' = crashes + 1
     /\ \E n \in 1..Len(writes) - 1 : disk' = After(writes, n)

\* The tasks whose result an operator may record.
Completable ==
  {i \in DOMAIN queue : /\ queue[i].status # "completed"
                        /\ queue[i].path["delegated"] # None \/ queue[i].path["assignment"] # None}

\* A script has read the files.  Only Complete, which edits the queue, can come before it
\* writes: that completion is overwritten, or as good as one after the writes, unless the
\* script dies between two of them.  Where it can, the writes may wait.
Run(writes) ==
  /\ job = <<>>
  /\ \/ Write(writes) /\ UNCHANGED job
     \/ /\ Completable # {} /\ MoreEvents /\ Len(writes) > 1
        /\ job' = writes /\ UNCHANGED <<disk, crashes>>
Quiet == UNCHANGED <<now, adds>>

GoOn == job # <<>> /\ Write(job) /\ job' = <<>> /\ Quiet

Tick ==
  /\ job = <<>> /\ MoreEvents /\ now' = now + 1
  /\ UNCHANGED <<disk, job, adds, crashes>>

\* The task that a script writes back: some fields of it replaced.
Step(task, status, times, paths) ==
  [task EXCEPT !.status = status,
     !.at = [t \in Times |-> IF t \in times THEN now ELSE @[t]],
     !.path = [f \in Paths |-> IF f \in DOMAIN paths THEN paths[f] ELSE @[f]]]

\* The place of the first element with P, and nothing if there is none.
First(s, P(_)) == {i \in DOMAIN s : P(s[i]) /\ \A j \in 1..i - 1 : ~P(s[j])}
Only(S) == CHOOSE x \in S : TRUE

-------------------------------------------------------------------------------
(* control/active_execution.json and the watchdog *)

Classified(status) ==
  CASE status = "stale_blocked" -> "needs_redispatch"
    [] status \in {"in_progress", "queued", "completed"} -> status
    [] OTHER -> "waiting_for_dispatch"

\* started_at_for_task: the first of these times that is there
Started(at) ==
  IF at["delegated"] # None THEN at["delegated"]
  ELSE IF at["requested"] # None THEN at["requested"]
  ELSE IF at["handoff"] # None THEN at["handoff"]
  ELSE IF at["dispatched"] # None THEN at["dispatched"] ELSE at["created"]

\* build_active_execution: the open tasks, each at its place among them; without created_at.
Snapshot(tasks) ==
  LET open == {i \in DOMAIN tasks : tasks[i].status # "completed"}
  IN {[place |-> Cardinality({j \in open : j <= i}), key |-> tasks[i].key,
       state |-> Classified(tasks[i].status),
       start |-> Started([tasks[i].at EXCEPT !["created"] = None])] : i \in open}

HasBoundedWork ==
  \E e \in disk.snapshot : e.state
     \in {"queued", "in_progress", "waiting_for_dispatch", "needs_redispatch"}

\* What the watchdog inspects: the snapshot's tasks, the queue's if it has none.
Candidates ==
  IF disk.snapshot # {} THEN disk.snapshot
  ELSE {[place |-> i, key |-> queue[i].key, start |-> Started(queue[i].at),
         state |-> IF queue[i].state # None THEN queue[i].state
                   ELSE Classified(queue[i].status)] : i \in DOMAIN queue}

\* detect_stale_execution: the oldest live task, if it is over the threshold.
Stale ==
  LET live == {e \in Candidates : e.state = "in_progress" /\ e.start # None}
      Before(d, e) == IF d.start = e.start THEN d.place < e.place ELSE d.start < e.start
  IN {e \in live : now > e.start /\ \A d \in live : ~Before(d, e)}

RefreshSnapshot == disk.snapshot # Snapshot(queue) /\ Run(<<Put("snapshot", Snapshot(queue))>>)

QueueAnd(tasks) == <<Put("queue", tasks), Put("snapshot", Snapshot(tasks))>>

-------------------------------------------------------------------------------
(* enqueue_active_remediation.py, consume_no_live_executor_gaps.py *)

Active == {"queued", "in_progress", "requested_execution", "handed_off"}

Waiting == {p \in Projects : disk.projects[p].status = "waiting_for_dispatch"}

\* enqueue_task: to the front, unless an active task has the same key.
Enqueue(k, p) ==
  /\ MoreEvents
  /\ \A i \in DOMAIN queue : ~(queue[i].key = k /\ queue[i].status \in Active)
  /\ Run(<<Put("queue", <<NewTask(k, p)>> \o queue)>>)
  /\ adds' = adds + 1 /\ UNCHANGED now

\* Restore the first waiting project if nothing is at work, else what the analyzer asks.
Restore ==
  LET p == CHOOSE q \in Waiting : TRUE IN
  Waiting # {} /\ ~HasBoundedWork /\ Enqueue(<<p, disk.projects[p].gap>>, p)
Remediate(k) == ~(Waiting # {} /\ ~HasBoundedWork) /\ Enqueue(k, None)

\* Projects in progress without bounded work wait for a dispatch.
Gap ==
  LET open == {p \in Projects : disk.projects[p].status = "in_progress"} IN
  /\ open # {} /\ ~HasBoundedWork /\ disk.gaps < MaxGaps
  /\ Run(<<Put("gaps", disk.gaps + 1),
           Put("projects", [p \in Projects |->
             IF p \in open THEN [status |-> "waiting_for_dispatch", gap |-> disk.gaps + 1]
             ELSE disk.projects[p]])>>)
  /\ Quiet

-------------------------------------------------------------------------------
(* From the queue to the executor *)

\* consume_execution_queue.py: only the first task, and only if it is queued.
DispatchHead ==
  /\ queue # <<>> /\ queue[1].status = "queued"
  /\ LET task == [Step(queue[1], "in_progress", {"dispatched"}, <<>>) EXCEPT !.state = "in_progress"]
         tasks == [queue EXCEPT ![1] = task]
         promoted == [p \in Projects |-> IF p = task.project
                        THEN [disk.projects[p] EXCEPT !.status = "in_progress"] ELSE disk.projects[p]]
     IN Run(QueueAnd(tasks) \o <<Put("projects", promoted),
              Put("dispatched", disk.dispatched \cup {<<task.key, now>>})>>)
  /\ Quiet

\* The queue with the task at the place in "at", if there is one, handed on.
Updated(at, status, times, paths) ==
  [i \in DOMAIN queue |->
     IF i \notin at THEN queue[i]
     ELSE Step(queue[i], IF status = "kept" THEN queue[i].status ELSE status, times, paths)]

\* Mutation of Handed: the queue names the files before they are there.
HandedEarly(at, status, times, paths, files) ==
  <<Put("queue", Updated(at, status, times, paths))>> \o files

\* A consumer writes its own files first, and last the task that names them.
Handed(at, status, times, paths, files) ==
  files \o <<Put("queue", Updated(at, status, times, paths))>>

\* consume_execution_requests.py: only the first task.
RequestHead ==
  /\ queue # <<>> /\ queue[1].status = "in_progress" /\ queue[1].path["handoff"] = None
  /\ Run(Handed({1}, "requested_execution", {"requested"}, [request |-> Len(disk.requests) + 1],
           <<Put("requests", Append(disk.requests, "requested"))>>))
  /\ Quiet

TaskOfRequest(r) == First(queue, LAMBDA t : t.path["request"] = r)

\* The first request that may be handed off; a request without a task may.
ToHandOff ==
  First([r \in DOMAIN disk.requests |-> r], LAMBDA r :
    /\ disk.requests[r] = "requested"
    /\ \A i \in TaskOfRequest(r) : queue[i].status = "requested_execution")

\* consume_executor_handoffs.py: the handoff has the name of its request.
HandOff ==
  \E r \in ToHandOff :
    /\ Run(Handed(TaskOfRequest(r), "handed_off", {"handoff"}, [handoff |-> r],
             <<Put("handoffs", [h \in DOMAIN disk.handoffs \cup {r} |->
                                  IF h = r THEN "handed_off" ELSE disk.handoffs[h]]),
               Put("requests", [disk.requests EXCEPT ![r] = "handed_off"])>>))
    /\ Quiet

\* Mutation of ToPiDev: it looks at the requests, not at the handoffs.
ToPiDevEarly ==
  First([r \in DOMAIN disk.requests |-> r], LAMBDA r :
    /\ disk.requests[r] # "pi_dev_requested"
    /\ \A i \in TaskOfRequest(r) : queue[i].path["pidev"] = None)

\* The first handoff without a Pi Dev request, unless its task has one.
ToPiDev ==
  LET open == {r \in DOMAIN disk.handoffs :
                 /\ disk.handoffs[r] = "handed_off"
                 /\ \A i \in TaskOfRequest(r) : queue[i].path["pidev"] = None}
  IN {r \in open : \A o \in open : r <= o}

\* consume_pi_dev_requests.py: the task keeps its status.
PiDevRequest ==
  \E r \in ToPiDev :
    /\ Run(Handed(TaskOfRequest(r), "kept", {}, [pidev |-> Len(disk.pidevs) + 1],
             <<Put("pidevs", Append(disk.pidevs, [request |-> r, status |-> "requested", bundle |-> None])),
               Put("handoffs", [disk.handoffs EXCEPT ![r] = "pi_dev_requested"]),
               Put("requests", [disk.requests EXCEPT ![r] = "pi_dev_requested"])>>))
    /\ Quiet

\* Mutation of TaskOfPiDev: any task that was handed off.
TaskOfPiDevAny(q) ==
  First(queue, LAMBDA t : t.path["pidev"] = q \/ t.path["handoff"] # None)

\* matching_queue_task: a task of this request, or of the request it came from.
TaskOfPiDev(q) ==
  First(queue, LAMBDA t : t.path["pidev"] = q \/ t.path["request"] = disk.pidevs[q].request)

\* The first request of this status whose task is among the ready ones.
ToServe(status, ready) ==
  First([q \in DOMAIN disk.pidevs |-> q], LAMBDA q :
    disk.pidevs[q].status = status /\ TaskOfPiDev(q) \cap ready # {})

\* consume_pi_dev_bundles.py: a bundle that the task already names is written again.
Bundle ==
  \E q \in ToServe("requested", {i \in DOMAIN queue : queue[i].status \in {"handed_off", "pi_dev_bundled"}}) :
  \E i \in TaskOfPiDev(q) :
  \E b \in {IF queue[i].path["bundle"] # None THEN queue[i].path["bundle"] ELSE q} :
    /\ Run(Handed({i}, "pi_dev_bundled", {}, [bundle |-> b],
             <<Put("bundles", disk.bundles \cup {b}),
               Put("pidevs", [disk.pidevs EXCEPT ![q].status = "bundled", ![q].bundle = b])>>))
    /\ Quiet

\* consume_pi_dev_dispatches.py: the bundle must be there.
PiDevDispatch ==
  \E q \in ToServe("bundled", {i \in DOMAIN queue : queue[i].status = "pi_dev_bundled" /\ queue[i].path["dispatch"] = None}) :
    /\ disk.pidevs[q].bundle \in disk.bundles
    /\ Run(Handed(TaskOfPiDev(q), "pi_dev_dispatch_ready", {}, [dispatch |-> disk.dispatches + 1],
             <<Put("dispatches", disk.dispatches + 1),
               Put("pidevs", [disk.pidevs EXCEPT ![q].status = "pi_dev_dispatch_ready"])>>))
    /\ Quiet

\* consume_delegated_executor_requests.py: a task of any place.
Delegate ==
  \E i \in First(queue, LAMBDA t : t.status = "pi_dev_dispatch_ready"
                  /\ t.at["delegated"] = None /\ t.path["dispatch"] \in 1..disk.dispatches) :
    /\ Run(Handed({i}, "in_progress", {"delegated"}, [delegated |-> disk.delegated + 1],
             <<Put("delegated", disk.delegated + 1)>>))
    /\ Quiet

-------------------------------------------------------------------------------
(* Stale executions *)

\* The stale task in the queue: at the watchdog's place, else by start, else by status.
StaleTarget(w) ==
  LET byStart == First(queue, LAMBDA t : t.key = w.key /\ Started(t.at) = w.start)
  IN IF w.place \in DOMAIN queue /\ queue[w.place].key = w.key THEN {w.place}
     ELSE IF byStart # {} THEN byStart
     ELSE First(queue, LAMBDA t : t.key = w.key /\ t.status \in {"in_progress", "stale_blocked"})

\* Files of one name replace each other.
Filed(na) == {f \in disk.nextActions : NameOf(f) # NameOf(na)} \cup {na}

\* consume_stale_execution_incidents.py: not while a task is blocked for an incident.
StaleIncident ==
  /\ \A i \in DOMAIN queue : ~(queue[i].status = "stale_blocked" /\ queue[i].path["incident"] # None)
  /\ \E w \in Stale : \E i \in StaleTarget(w) :
     LET na == [start |-> Started(queue[i].at), key |-> queue[i].key, index |-> i]
         task == [Step(queue[i], "stale_blocked", {}, [incident |-> NameOf(na)])
                   EXCEPT !.state = "needs_redispatch"]
     IN Run(<<Put("incidents", disk.incidents \cup {NameOf(na)}), Put("nextActions", Filed(na))>>
            \o QueueAnd([queue EXCEPT ![i] = task]))
  /\ Quiet

\* locate_target_task: by place and key, by key and incident, else the first task.
RedispatchTarget(na) ==
  LET byIncident == First(queue, LAMBDA t : t.key = na.key /\ t.path["incident"] = NameOf(na))
  IN IF na.index \in DOMAIN queue /\ queue[na.index].key = na.key THEN {na.index}
     ELSE IF byIncident # {} THEN byIncident ELSE DOMAIN queue \cap {1}

\* The first file by name, which begins with the start; names of one start are in any order.
FirstActions == {na \in disk.nextActions : \A f \in disk.nextActions : na.start <= f.start}

\* consume_stale_execution_next_actions.py: only the first file, and only once.
Redispatch ==
  \E na \in FirstActions :
  \E i \in RedispatchTarget(na) :
    LET incident == queue[i].path["incident"]
        task == [Step(queue[i], "queued", {},
                   [redispatch |-> disk.redispatches + 1, source |-> NameOf(na),
                    incident |-> IF incident # None THEN incident ELSE NameOf(na)])
                  EXCEPT !.state = "queued"]
    IN /\ \A j \in DOMAIN queue : queue[j].path["source"] # NameOf(na)
       /\ Run(<<Put("redispatches", disk.redispatches + 1)>> \o QueueAnd([queue EXCEPT ![i] = task]))
       /\ Quiet

\* The assignment of a redispatched task: the one it names, or one for its redispatch.
OwnAssignment(t) ==
  IF t.path["assignment"] # None THEN {t.path["assignment"]}
  ELSE First(disk.assignments, LAMBDA a : a.key = t.key /\ a.redispatch = t.path["redispatch"])

\* consume_queued_redispatch_assignments.py: an assigned live task ends the scan.
Assign ==
  \E i \in First(queue, LAMBDA t :
            \/ t.status = "in_progress" /\ t.path["assignment"] # None
            \/ t.status = "queued" /\ t.path["redispatch"] # None) :
  \E own \in {OwnAssignment(queue[i])} :
    LET id == IF own # {} THEN Only(own) ELSE Len(disk.assignments) + 1
        new == [key |-> queue[i].key, redispatch |-> queue[i].path["redispatch"], since |-> now]
        all == IF own # {} THEN disk.assignments ELSE Append(disk.assignments, new)
        task == [Step(queue[i], "in_progress", {}, [assignment |-> id])
                  EXCEPT !.state = "in_progress", !.at["delegated"] = all[id].since]
    IN /\ Run(IF queue[i].status = "in_progress" THEN <<Put("snapshot", Snapshot(queue))>>
              ELSE <<Put("assignments", all)>> \o QueueAnd([queue EXCEPT ![i] = task]))
       /\ Quiet

-------------------------------------------------------------------------------
(* By hand *)

\* An operator records the result of an executor, beside whatever script runs.
Complete(i) ==
  /\ disk' = [disk EXCEPT !.queue[i].status = "completed", !.queue[i].state = "completed"]
  /\ UNCHANGED <<job, now, adds, crashes>>

Freshest(task) == Max({task.at[t] : t \in Times} \ {None})

\* normalize_execution_queue.py: the freshest task of each key, the freshest first;
\* equal times of the model's clock are in any order.
Normalize ==
  /\ job = <<>>
  /\ \E fresh \in {[i \in DOMAIN queue |-> Freshest(queue[i])]}, kept \in SUBSET (DOMAIN queue) :
       /\ \A i \in DOMAIN queue : \E j \in kept : queue[j].key = queue[i].key
       /\ \A i \in DOMAIN queue, j \in kept : queue[i].key = queue[j].key =>
            fresh[i] <= fresh[j] /\ (i \in kept => i = j)
       /\ \E order \in [1..Cardinality(kept) -> kept] :
            LET tasks == [m \in DOMAIN order |-> queue[order[m]]] IN
            /\ \A m, n \in DOMAIN order : m < n => order[m] # order[n] /\ fresh[order[m]] >= fresh[order[n]]
            /\ tasks # queue /\ Run(<<Put("queue", tasks)>>)
  /\ Quiet

Scripts ==
  \/ DispatchHead \/ RequestHead \/ HandOff \/ PiDevRequest \/ Bundle \/ PiDevDispatch
  \/ Delegate \/ StaleIncident \/ Redispatch \/ Assign

Next ==
  \/ GoOn \/ Tick \/ Scripts \/ Normalize
  \/ RefreshSnapshot /\ Quiet
  \/ Restore \/ Gap \/ \E k \in Keys : Remediate(k)
  \/ \E i \in Completable : Complete(i)

Spec == Init /\ [][Next]_vars

-------------------------------------------------------------------------------
(* Properties *)

Stamp == 0..MaxEvents \cup {None}

TypeOK ==
  /\ \A i \in DOMAIN queue :
       /\ queue[i].key \in AllKeys /\ queue[i].project \in Projects \cup {None}
       /\ queue[i].status \in Statuses
       /\ queue[i].state \in {None, "queued", "in_progress", "needs_redispatch", "completed"}
       /\ queue[i].at \in [Times -> Stamp] /\ DOMAIN queue[i].path = Paths
  /\ \A e \in disk.snapshot : e.start \in Stamp
  /\ \A r \in DOMAIN disk.requests :
       disk.requests[r] \in {"requested", "handed_off", "pi_dev_requested"}
  /\ DOMAIN disk.handoffs \subseteq DOMAIN disk.requests
  /\ \A q \in DOMAIN disk.pidevs : disk.pidevs[q].request \in DOMAIN disk.handoffs
  /\ adds + now + crashes <= MaxEvents

\* A task that was redispatched after a script died: its Pi Dev request may be of a
\* request that it had before (the script died when the handoff was there, but not yet
\* in the queue, and the next one went on from the handoff).
Remade(task) == crashes > 0 /\ task.path["redispatch"] # None

\* Every file that a task names is there and was written for this very task: its
\* handoff is the one of its request, its Pi Dev request came from that handoff unless
\* the task was Remade, and no other task of the queue names them.  A crash between two
\* writes leaves files without a task, never a task without its files (the consumers'
\* main functions).
Trail ==
  \A i \in DOMAIN queue : LET path == queue[i].path IN
    /\ path["request"] # None => path["request"] \in DOMAIN disk.requests
    /\ path["handoff"] # None => path["handoff"] = path["request"] /\ path["handoff"] \in DOMAIN disk.handoffs
    /\ path["pidev"] # None =>
         /\ path["pidev"] \in DOMAIN disk.pidevs
         /\ Remade(queue[i]) \/ disk.pidevs[path["pidev"]].request = path["request"]
    /\ path["bundle"] # None =>
         /\ path["bundle"] \in disk.bundles
         /\ Remade(queue[i]) \/ disk.pidevs[path["bundle"]].request = path["request"]
    /\ path["dispatch"] # None => path["dispatch"] \in 1..disk.dispatches
    /\ path["delegated"] # None => path["delegated"] \in 1..disk.delegated
    /\ path["incident"] # None => path["incident"] \in disk.incidents
    /\ path["assignment"] # None => disk.assignments[path["assignment"]].key = queue[i].key
    /\ \A j \in DOMAIN queue \ {i} : \A f \in {"request", "pidev", "dispatch", "delegated", "assignment"} :
         path[f] # None => queue[j].path[f] # path[f]

\* Unless a script died half-way, every open task, wherever it is in the queue, has what the
\* script it waits for looks for: one that was handed on finds its file in the state in which
\* that consumer takes it; one at work, at the head or displaced from it, has a start by which
\* the watchdog finds it; a blocked one has its next action on the disk, as its incident says.
\* Excepted: the Pi Dev dispatch of a task that was assigned before, which is with the
\* executor of that assignment.  Not that the script gets to the task: two look at the
\* first task only, the incident script waits for a task that is blocked, and the
\* next-actions script stays at the first file, recorded or not.
Findable ==
  (crashes = 0 /\ job = <<>>) => \A i \in DOMAIN queue : LET path == queue[i].path IN
    /\ queue[i].status = "in_progress" => Started([queue[i].at EXCEPT !["created"] = None]) # None
    /\ queue[i].status = "requested_execution" => disk.requests[path["request"]] = "requested"
    /\ queue[i].status = "handed_off" =>
         IF path["pidev"] = None THEN disk.handoffs[path["handoff"]] = "handed_off"
         ELSE disk.pidevs[path["pidev"]].status = "requested"
    /\ queue[i].status = "pi_dev_bundled" =>
         path["pidev"] # None /\ path["dispatch"] = None /\ disk.pidevs[path["pidev"]].status = "bundled"
    /\ queue[i].status = "pi_dev_dispatch_ready" =>
         queue[i].at["delegated"] = None \/ path["assignment"] # None
    /\ queue[i].status = "stale_blocked" => \E na \in disk.nextActions : NameOf(na) = path["incident"]
===============================================================================

------------------------- MODULE ControlQueue_proofs --------------------------
(***************************************************************************)
(* TypeOK, Trail and Findable of ControlQueue, for any sets of keys and    *)
(* projects and any numbers of tasks, ticks, gaps and crashes.             *)
(*                                                                         *)
(* The invariant speaks of the files (Fine): each holds what it should;    *)
(* what a task names is there (Linked); a task that has come so far has    *)
(* the paths and times of the way to there (Staged); no two share a file   *)
(* (Apart); and unless a script died, a file that was written for a task   *)
(* is named by it and is in the state in which the next consumer takes it, *)
(* and a blocked task's next action is there (Served).  IInv says that the *)
(* files are fine now, after every part of the running script's writes,    *)
(* and after all of them: that is what a crash between two writes, and a   *)
(* completion before them, need.                                           *)
(*                                                                         *)
(* For each script, one lemma (...Fine) shows that the files are fine when *)
(* it is done, another (...Good) that the writes of the model lead there,  *)
(* in an order in which every part of them is fine too (Between, JobGood), *)
(* and a last one (...Step) that the action keeps the invariant.           *)
(***************************************************************************)
EXTENDS ControlQueue, SequenceTheorems, FiniteSetTheorems, WellFoundedInduction, TLAPS

(* The invariant *)

\* The files, by what they are.

FileNames == {"queue", "snapshot", "projects", "gaps", "dispatched", "requests", "handoffs", "pidevs",
              "bundles", "dispatches", "delegated", "incidents", "nextActions", "redispatches", "assignments"}
\* The paths that are numbers in the model.
Numbers == {"request", "handoff", "pidev", "bundle", "dispatch", "delegated", "redispatch", "assignment"}
Names == [start : Stamp, key : AllKeys]
States == {None, "queued", "in_progress", "needs_redispatch", "completed"}
PathSets == {path \in [Paths -> Nat \cup {None} \cup Names] : \A f \in Numbers : path[f] \in Nat \cup {None}}
Tasks ==
  [key : AllKeys, project : Projects \cup {None}, status : Statuses, state : States,
   at : [Times -> Stamp], path : PathSets]
RequestStates == {"requested", "handed_off", "pi_dev_requested"}
HandoffStates == {"handed_off", "pi_dev_requested"}
PiDevs == [request : Nat, status : {"requested", "bundled", "pi_dev_dispatch_ready"}, bundle : Nat \cup {None}]
Assignments == [key : AllKeys, redispatch : Nat, since : 0..MaxEvents]
ProjectStates == [status : {"in_progress", "waiting_for_dispatch"}, gap : 0..MaxGaps]

\* The files hold what they should, and a file that refers to another one finds it there.
FilesOK(d) ==
  /\ d = [f \in FileNames |-> d[f]]
  /\ d["queue"] \in Seq(Tasks)
  /\ \A e \in d["snapshot"] : e.start \in Stamp
  /\ d["projects"] \in [Projects -> ProjectStates] /\ d["gaps"] \in 0..MaxGaps
  /\ d["requests"] \in Seq(RequestStates)
  /\ d["handoffs"] \in [DOMAIN d["handoffs"] -> HandoffStates]
  /\ DOMAIN d["handoffs"] \subseteq DOMAIN d["requests"]
  /\ d["pidevs"] \in Seq(PiDevs)
  /\ \A q \in DOMAIN d["pidevs"] : d["pidevs"][q].request \in DOMAIN d["handoffs"]
  /\ d["dispatches"] \in Nat /\ d["delegated"] \in Nat /\ d["redispatches"] \in Nat
  /\ d["assignments"] \in Seq(Assignments)
  /\ \A a \in DOMAIN d["assignments"] : d["assignments"][a].redispatch <= d["redispatches"]
  /\ \A na \in d["nextActions"] : na.key \in AllKeys /\ na.start \in Stamp /\ NameOf(na) \in d["incidents"]

\* What a task refers to; where no script died (~crashed), it came from one request.
Linked(d, t, crashed) ==
  /\ t.path["request"] # None => t.path["request"] \in DOMAIN d["requests"]
  /\ t.path["handoff"] # None =>
       t.path["handoff"] = t.path["request"] /\ t.path["handoff"] \in DOMAIN d["handoffs"]
  /\ t.path["pidev"] # None =>
       /\ t.path["pidev"] \in DOMAIN d["pidevs"]
       /\ (crashed /\ t.path["redispatch"] # None) \/ d["pidevs"][t.path["pidev"]].request = t.path["request"]
  /\ t.path["bundle"] # None =>
       /\ t.path["bundle"] \in DOMAIN d["pidevs"] /\ t.path["bundle"] \in d["bundles"]
       /\ (crashed /\ t.path["redispatch"] # None) \/ d["pidevs"][t.path["bundle"]].request = t.path["request"]
  /\ t.path["dispatch"] # None => t.path["dispatch"] \in 1..d["dispatches"]
  /\ t.path["delegated"] # None => t.path["delegated"] \in 1..d["delegated"]
  /\ t.path["redispatch"] # None => t.path["redispatch"] \in 1..d["redispatches"]
  /\ t.path["incident"] # None => t.path["incident"] \in d["incidents"]
  /\ t.path["assignment"] # None =>
       t.path["assignment"] \in DOMAIN d["assignments"] /\ d["assignments"][t.path["assignment"]].key = t.key

\* How far a task has come: the status, the paths and the times of a task go together.
Staged(t) ==
  /\ t.status = "requested_execution" => t.path["request"] # None
  /\ t.status \in {"handed_off", "pi_dev_bundled", "pi_dev_dispatch_ready"} => t.path["handoff"] # None
  /\ t.path["pidev"] # None => t.path["request"] # None
  /\ t.path["bundle"] # None => t.path["handoff"] # None
  /\ t.path["dispatch"] # None => t.path["handoff"] # None
  /\ t.path["delegated"] # None => t.path["dispatch"] # None
  /\ t.at["delegated"] # None => t.path["delegated"] # None \/ t.path["assignment"] # None
  /\ t.status = "in_progress" => t.at["dispatched"] # None \/ t.at["delegated"] # None
  /\ t.path["redispatch"] = None =>
       /\ t.status = "queued" => t.path["request"] = None
       /\ t.status = "in_progress" /\ t.path["request"] # None => t.path["handoff"] # None

\* The paths that a task shares with no other task.
Own == {"request", "pidev", "dispatch", "delegated", "redispatch", "assignment"}

\* No two tasks share a file, and the assignment of one is not of the redispatch of another.
Apart(d) ==
  \A i, j \in DOMAIN d["queue"] : i # j =>
    /\ \A f \in Own : d["queue"][i].path[f] # None => d["queue"][j].path[f] # d["queue"][i].path[f]
    /\ d["queue"][i].path["assignment"] # None =>
         d["assignments"][d["queue"][i].path["assignment"]].redispatch # d["queue"][j].path["redispatch"]

\* Where no script died, also: a file that was written for a task is named by it, and is
\* in the state in which the next consumer takes it.
Served(d, t) ==
  /\ t.path["pidev"] # None => t.path["handoff"] # None
  /\ t.path["request"] \in DOMAIN d["handoffs"] => t.path["handoff"] # None
  /\ \A q \in DOMAIN d["pidevs"] : d["pidevs"][q].request = t.path["request"] => t.path["pidev"] = q
  /\ t.status = "requested_execution" =>
       t.path["handoff"] = None /\ d["requests"][t.path["request"]] = "requested"
  /\ t.status \in {"handed_off", "pi_dev_bundled"} => t.path["dispatch"] = None
  /\ t.status = "handed_off" =>
       IF t.path["pidev"] = None THEN d["handoffs"][t.path["handoff"]] = "handed_off"
       ELSE d["pidevs"][t.path["pidev"]].status = "requested"
  /\ t.status = "pi_dev_bundled" =>
       t.path["pidev"] # None /\ d["pidevs"][t.path["pidev"]].status = "bundled"
  /\ t.status = "pi_dev_dispatch_ready" => t.at["delegated"] = None \/ t.path["assignment"] # None
  /\ t.status = "stale_blocked" => \E na \in d["nextActions"] : NameOf(na) = t.path["incident"]

\* All this of one task.
TaskFine(d, t, crashed) == Linked(d, t, crashed) /\ Staged(t) /\ (~crashed => Served(d, t))

\* All this of the files.
Fine(d, crashed) ==
  /\ FilesOK(d) /\ Apart(d)
  /\ \A i \in DOMAIN d["queue"] : TaskFine(d, d["queue"][i], crashed)

\* The files are fine now, after any part of the running script's writes, and after all of them.
JobOK(writes) ==
  /\ Len(writes) \in Nat /\ DOMAIN writes = 1..Len(writes)
  /\ \A m, n \in DOMAIN writes : writes[m].file = writes[n].file => m = n
  /\ \A n \in 0..Len(writes) : Fine(After(writes, n), TRUE)
  /\ Fine(After(writes, Len(writes)), crashes > 0)

\* The counters stay within their bound.
Counters ==
  now \in Nat /\ adds \in Nat /\ crashes \in Nat /\ adds + now + crashes <= MaxEvents

\* The inductive invariant.
IInv == Counters /\ Fine(disk, crashes > 0) /\ JobOK(job)

-------------------------------------------------------------------------------
(* What a running script leaves on the disk *)

\* A script writes each file once.
JobShape(s) ==
  /\ Len(s) \in Nat /\ DOMAIN s = 1..Len(s)
  /\ \A m, n \in DOMAIN s : s[m].file = s[n].file => m = n
  /\ \A m \in DOMAIN s : s[m].file \in FileNames

\* A file holds what was written to it, or what it held.
LEMMA AfterFacts ==
  ASSUME NEW s, JobShape(s), DOMAIN disk = FileNames, NEW n \in 0..Len(s), NEW e, e = After(s, n)
  PROVE  /\ e = [f \in FileNames |-> e[f]]
         /\ \A f \in FileNames : (\A m \in 1..n : s[m].file # f) => e[f] = disk[f]
         /\ \A m \in 1..n : e[s[m].file] = s[m].value
<1>1. e = [f \in FileNames |->
             IF \A m \in 1..n : s[m].file # f THEN disk[f]
             ELSE s[CHOOSE m \in 1..n : s[m].file = f].value]
      BY DEF After
<1>2. 1..n \subseteq DOMAIN s
      BY DEF JobShape
<1>3. ASSUME NEW m \in 1..n PROVE e[s[m].file] = s[m].value
  <2> DEFINE f == s[m].file
  <2> DEFINE k == CHOOSE j \in 1..n : s[j].file = f
  <2>1. f \in FileNames
        BY <1>2, <1>3 DEF JobShape
  <2>2. k \in 1..n /\ s[k].file = f
        OBVIOUS
  <2>3. k = m
        BY <1>2, <1>3, <2>2 DEF JobShape
  <2>4. e[f] = s[k].value
        BY <1>1, <1>3, <2>1
  <2> QED
      BY <2>3, <2>4
<1>4. ASSUME NEW f \in FileNames, \A m \in 1..n : s[m].file # f PROVE e[f] = disk[f]
      BY <1>1, <1>4
<1>5. e = [f \in FileNames |-> e[f]]
      BY <1>1
<1> QED
    BY <1>3, <1>4, <1>5

-------------------------------------------------------------------------------
(* The consumers' files only grow *)

\* The files that no other file refers to.
Loose == {"snapshot", "projects", "gaps", "dispatched"}

Grown(d, e) ==
  /\ DOMAIN d["requests"] \subseteq DOMAIN e["requests"]
  /\ DOMAIN d["handoffs"] \subseteq DOMAIN e["handoffs"]
  /\ DOMAIN d["pidevs"] \subseteq DOMAIN e["pidevs"]
  /\ \A q \in DOMAIN d["pidevs"] : e["pidevs"][q].request = d["pidevs"][q].request
  /\ d["bundles"] \subseteq e["bundles"] /\ d["incidents"] \subseteq e["incidents"]
  /\ d["dispatches"] <= e["dispatches"] /\ d["delegated"] <= e["delegated"]
  /\ d["redispatches"] <= e["redispatches"]
  /\ DOMAIN d["assignments"] \subseteq DOMAIN e["assignments"]
  /\ \A a \in DOMAIN d["assignments"] : e["assignments"][a] = d["assignments"][a]

\* What the new files refer to was there before.
Cross(d, e) ==
  /\ DOMAIN e["handoffs"] \subseteq DOMAIN d["requests"]
  /\ \A q \in DOMAIN e["pidevs"] : e["pidevs"][q].request \in DOMAIN d["handoffs"]
  /\ \A a \in DOMAIN e["assignments"] : e["assignments"][a].redispatch <= d["redispatches"]

\* What an element of one of the files is.
LEMMA Elements ==
  /\ \A s \in Seq(Tasks) : \A i \in DOMAIN s : s[i] \in Tasks
  /\ \A s \in Seq(PiDevs) : \A q \in DOMAIN s : s[q] \in PiDevs
  /\ \A s \in Seq(RequestStates) : \A r \in DOMAIN s : s[r] \in RequestStates
  /\ \A s \in Seq(Assignments) : \A a \in DOMAIN s : s[a] \in Assignments /\ s[a].redispatch \in Nat
<1>1. \A s \in Seq(Assignments) : \A a \in DOMAIN s : s[a] \in Assignments
      OBVIOUS
<1>2. \A x \in Assignments : x.redispatch \in Nat
      BY DEF Assignments
<1> QED
    BY <1>1, <1>2

\* A task keeps what it refers to.
LEMMA LinkedStays ==
  ASSUME NEW d, NEW e, FilesOK(d), FilesOK(e), Grown(d, e), NEW t \in Tasks, NEW c, Linked(d, t, c)
  PROVE  Linked(e, t, TRUE) /\ Linked(e, t, c)
<1>1. t.path["dispatch"] \in Nat \cup {None} /\ t.path["delegated"] \in Nat \cup {None}
      /\ t.path["redispatch"] \in Nat \cup {None}
      BY DEF Tasks, PathSets, Numbers
<1>2. /\ t.path["dispatch"] # None => t.path["dispatch"] \in 1..e["dispatches"]
      /\ t.path["delegated"] # None => t.path["delegated"] \in 1..e["delegated"]
      /\ t.path["redispatch"] # None => t.path["redispatch"] \in 1..e["redispatches"]
  <2>1. /\ e["dispatches"] \in Nat /\ e["delegated"] \in Nat /\ e["redispatches"] \in Nat
        /\ d["dispatches"] \in Nat /\ d["delegated"] \in Nat /\ d["redispatches"] \in Nat
        BY DEF FilesOK
  <2>2. /\ d["dispatches"] <= e["dispatches"] /\ d["delegated"] <= e["delegated"]
        /\ d["redispatches"] <= e["redispatches"]
        BY DEF Grown
  <2>3. /\ t.path["dispatch"] # None => t.path["dispatch"] \in 1..d["dispatches"]
        /\ t.path["delegated"] # None => t.path["delegated"] \in 1..d["delegated"]
        /\ t.path["redispatch"] # None => t.path["redispatch"] \in 1..d["redispatches"]
        BY DEF Linked
  <2> QED
      BY <2>1, <2>2, <2>3
<1>3. t.path["assignment"] # None =>
        t.path["assignment"] \in DOMAIN e["assignments"] /\ e["assignments"][t.path["assignment"]].key = t.key
      BY DEF Linked, Grown
<1>4. t.path["pidev"] # None =>
        /\ t.path["pidev"] \in DOMAIN e["pidevs"]
        /\ (c /\ t.path["redispatch"] # None) \/ e["pidevs"][t.path["pidev"]].request = t.path["request"]
      BY DEF Linked, Grown
<1>5. t.path["bundle"] # None =>
        /\ t.path["bundle"] \in DOMAIN e["pidevs"] /\ t.path["bundle"] \in e["bundles"]
        /\ (c /\ t.path["redispatch"] # None) \/ e["pidevs"][t.path["bundle"]].request = t.path["request"]
      BY DEF Linked, Grown
<1>6. /\ t.path["request"] # None => t.path["request"] \in DOMAIN e["requests"]
      /\ t.path["handoff"] # None =>
           t.path["handoff"] = t.path["request"] /\ t.path["handoff"] \in DOMAIN e["handoffs"]
      /\ t.path["incident"] # None => t.path["incident"] \in e["incidents"]
      BY DEF Linked, Grown
<1> QED
    BY <1>2, <1>3, <1>4, <1>5, <1>6 DEF Linked

\* And tasks that do not share stay so.
LEMMA ApartStays ==
  ASSUME NEW d, NEW e, FilesOK(d), Grown(d, e), e["queue"] = d["queue"], Apart(d), NEW c,
         \A i \in DOMAIN d["queue"] : Linked(d, d["queue"][i], c)
  PROVE  Apart(e)
<1>1. \A i \in DOMAIN d["queue"] : d["queue"][i].path["assignment"] # None =>
        /\ d["queue"][i].path["assignment"] \in DOMAIN d["assignments"]
        /\ e["assignments"][d["queue"][i].path["assignment"]] = d["assignments"][d["queue"][i].path["assignment"]]
      BY DEF Linked, Grown
<1> QED
    BY <1>1 DEF Apart

\* That tasks share no files says nothing of the other files on the disk.
LEMMA ApartSame ==
  ASSUME NEW d, NEW e, e["queue"] = d["queue"], e["assignments"] = d["assignments"], Apart(d)
  PROVE  Apart(e)
<1> QED
    BY DEF Apart

\* Some files are old and some new: the queue is the old one, or all that counts is new.
Mixed(d, e, l) ==
  /\ e = [f \in FileNames |-> e[f]]
  /\ \A f \in FileNames : e[f] = d[f] \/ e[f] = l[f]
  /\ e["nextActions"] = d["nextActions"] \/ e["incidents"] = l["incidents"]
  /\ e["queue"] = d["queue"] \/ \A f \in FileNames \ Loose : e[f] = l[f]

\* A disk between two good ones is fine, if a script that died is allowed for: the
\* script had not yet come to the queue, or has left everything the queue refers to.
LEMMA Between ==
  ASSUME NEW d, NEW e, NEW l, NEW c, Fine(d, c), Fine(l, c), Grown(d, l), Cross(d, l), Mixed(d, e, l)
  PROVE  Fine(e, TRUE)
<1> USE DEF Mixed
<1>1. FilesOK(d) /\ FilesOK(l)
      BY DEF Fine
<1>2. FilesOK(e)
  <2>1. /\ e["queue"] \in Seq(Tasks) /\ \A x \in e["snapshot"] : x.start \in Stamp
        BY <1>1 DEF FilesOK, FileNames
  <2>2. e["projects"] \in [Projects -> ProjectStates] /\ e["gaps"] \in 0..MaxGaps
        BY <1>1 DEF FilesOK, FileNames
  <2>3. e["requests"] \in Seq(RequestStates) /\ e["handoffs"] \in [DOMAIN e["handoffs"] -> HandoffStates]
        BY <1>1 DEF FilesOK, FileNames
  <2>4. DOMAIN e["handoffs"] \subseteq DOMAIN e["requests"]
    <3>1. DOMAIN e["handoffs"] \subseteq DOMAIN d["requests"]
          BY <1>1 DEF FilesOK, FileNames, Cross
    <3>2. DOMAIN d["requests"] \subseteq DOMAIN e["requests"]
          BY DEF FileNames, Grown
    <3> QED
        BY <3>1, <3>2
  <2>5. e["pidevs"] \in Seq(PiDevs) /\ \A q \in DOMAIN e["pidevs"] : e["pidevs"][q].request \in DOMAIN e["handoffs"]
    <3>1. \A q \in DOMAIN e["pidevs"] : e["pidevs"][q].request \in DOMAIN d["handoffs"]
          BY <1>1 DEF FilesOK, FileNames, Cross
    <3>2. DOMAIN d["handoffs"] \subseteq DOMAIN e["handoffs"]
          BY DEF FileNames, Grown
    <3>3. e["pidevs"] \in Seq(PiDevs)
          BY <1>1 DEF FilesOK, FileNames
    <3> QED
        BY <3>1, <3>2, <3>3
  <2>6. e["dispatches"] \in Nat /\ e["delegated"] \in Nat /\ e["redispatches"] \in Nat
        BY <1>1 DEF FilesOK, FileNames
  <2>7. e["assignments"] \in Seq(Assignments)
        /\ \A a \in DOMAIN e["assignments"] : e["assignments"][a].redispatch <= e["redispatches"]
    <3>1. e["assignments"] \in Seq(Assignments)
          BY <1>1 DEF FilesOK, FileNames
    <3>2. \A a \in DOMAIN e["assignments"] :
            e["assignments"][a].redispatch \in Nat /\ e["assignments"][a].redispatch <= d["redispatches"]
      <4>1. \A s \in {d["assignments"], l["assignments"]} : \A a \in DOMAIN s : s[a].redispatch \in Nat
            BY <1>1, Elements DEF FilesOK
      <4>2. e["assignments"] \in {d["assignments"], l["assignments"]}
            BY DEF FileNames
      <4>3. \A a \in DOMAIN d["assignments"] : d["assignments"][a].redispatch <= d["redispatches"]
            BY <1>1 DEF FilesOK
      <4>4. \A a \in DOMAIN l["assignments"] : l["assignments"][a].redispatch <= d["redispatches"]
            BY DEF Cross
      <4> QED
          BY <4>1, <4>2, <4>3, <4>4
    <3>3. d["redispatches"] <= e["redispatches"] /\ d["redispatches"] \in Nat
      <4>1. d["redispatches"] \in Nat /\ d["redispatches"] <= d["redispatches"]
            BY <1>1 DEF FilesOK
      <4>2. d["redispatches"] <= l["redispatches"]
            BY DEF Grown
      <4>3. e["redispatches"] = d["redispatches"] \/ e["redispatches"] = l["redispatches"]
            BY DEF FileNames
      <4> QED
          BY <4>1, <4>2, <4>3, Zenon
    <3>4. ASSUME NEW a \in DOMAIN e["assignments"]
          PROVE  e["assignments"][a].redispatch <= e["redispatches"]
      <4>1. ASSUME NEW x \in Nat, NEW y \in Nat, NEW z \in Nat, x <= y, y <= z PROVE x <= z
            BY <4>1
      <4> QED
          BY <2>6, <3>2, <3>3, <3>4, <4>1
    <3> QED
        BY <3>1, <3>4
  <2>8. \A na \in e["nextActions"] : na.key \in AllKeys /\ na.start \in Stamp /\ NameOf(na) \in e["incidents"]
    <3>1. d["incidents"] \subseteq e["incidents"]
          BY DEF FileNames, Grown
    <3> QED
        BY <1>1, <3>1 DEF FilesOK, FileNames
  <2> QED
      BY <2>1, <2>2, <2>3, <2>4, <2>5, <2>6, <2>7, <2>8 DEF FilesOK
<1>3. CASE e["queue"] = d["queue"]
  <2>1. Grown(d, e)
    <3>1. DOMAIN d["requests"] \subseteq DOMAIN e["requests"] /\ DOMAIN d["handoffs"] \subseteq DOMAIN e["handoffs"]
          BY DEF FileNames, Grown
    <3>2. /\ DOMAIN d["pidevs"] \subseteq DOMAIN e["pidevs"]
          /\ \A q \in DOMAIN d["pidevs"] : e["pidevs"][q].request = d["pidevs"][q].request
          BY DEF FileNames, Grown
    <3>3. d["bundles"] \subseteq e["bundles"] /\ d["incidents"] \subseteq e["incidents"]
          BY DEF FileNames, Grown
    <3>4. d["dispatches"] <= e["dispatches"] /\ d["delegated"] <= e["delegated"] /\ d["redispatches"] <= e["redispatches"]
      <4>1. /\ d["dispatches"] <= d["dispatches"] /\ d["delegated"] <= d["delegated"]
            /\ d["redispatches"] <= d["redispatches"]
        <5>1. d["dispatches"] \in Nat /\ d["delegated"] \in Nat /\ d["redispatches"] \in Nat
              BY <1>1 DEF FilesOK
        <5> QED
            BY <5>1
      <4>2. /\ d["dispatches"] <= l["dispatches"] /\ d["delegated"] <= l["delegated"]
            /\ d["redispatches"] <= l["redispatches"]
            BY DEF Grown
      <4>3. /\ e["dispatches"] = d["dispatches"] \/ e["dispatches"] = l["dispatches"]
            /\ e["delegated"] = d["delegated"] \/ e["delegated"] = l["delegated"]
            /\ e["redispatches"] = d["redispatches"] \/ e["redispatches"] = l["redispatches"]
            BY DEF FileNames
      <4> QED
          BY <4>1, <4>2, <4>3, Zenon
    <3>5. /\ DOMAIN d["assignments"] \subseteq DOMAIN e["assignments"]
          /\ \A a \in DOMAIN d["assignments"] : e["assignments"][a] = d["assignments"][a]
          BY DEF FileNames, Grown
    <3> QED
        BY <3>1, <3>2, <3>3, <3>4, <3>5 DEF Grown
  <2>2. \A i \in DOMAIN d["queue"] :
          d["queue"][i] \in Tasks /\ Linked(d, d["queue"][i], c) /\ Staged(d["queue"][i])
    <3>1. d["queue"] \in Seq(Tasks)
          BY <1>1 DEF FilesOK
    <3>2. \A i \in DOMAIN d["queue"] : d["queue"][i] \in Tasks
          BY <3>1
    <3> QED
        BY <3>2 DEF Fine, TaskFine
  <2>3. Apart(d)
        BY DEF Fine
  <2>4. Apart(e)
        BY <1>1, <1>3, <2>1, <2>2, <2>3, ApartStays
  <2>5. \A i \in DOMAIN e["queue"] : Linked(e, e["queue"][i], TRUE) /\ Staged(e["queue"][i])
        BY <1>1, <1>2, <1>3, <2>1, <2>2, LinkedStays
  <2> QED
      BY <1>2, <2>4, <2>5 DEF Fine, TaskFine
<1>4. CASE \A f \in FileNames \ Loose : e[f] = l[f]
  <2>1. /\ e["queue"] = l["queue"] /\ e["requests"] = l["requests"] /\ e["handoffs"] = l["handoffs"]
        /\ e["pidevs"] = l["pidevs"] /\ e["bundles"] = l["bundles"] /\ e["dispatches"] = l["dispatches"]
        /\ e["delegated"] = l["delegated"] /\ e["redispatches"] = l["redispatches"]
        /\ e["incidents"] = l["incidents"] /\ e["assignments"] = l["assignments"]
        BY <1>4 DEF FileNames, Loose
  <2>2. Apart(e)
    <3>1. Apart(l)
          BY DEF Fine
    <3> QED
        BY <2>1, <3>1, ApartSame
  <2>3. \A i \in DOMAIN e["queue"] : Linked(l, e["queue"][i], c) /\ Staged(e["queue"][i])
        BY <2>1 DEF Fine, TaskFine
  <2>4. ASSUME NEW t, Linked(l, t, c) PROVE Linked(e, t, TRUE)
        BY <2>1, <2>4 DEF Linked
  <2> QED
      BY <1>2, <2>2, <2>3, <2>4 DEF Fine, TaskFine
<1> QED
    BY <1>3, <1>4

-------------------------------------------------------------------------------
(* A script that ends well leaves a good disk wherever it dies *)

\* After the queue only files that nothing refers to; the action after its incident.
Ordered(s) ==
  /\ \A k \in DOMAIN s : s[k].file = "queue" => \A m \in DOMAIN s : m > k => s[m].file \in Loose
  /\ \A k \in DOMAIN s : s[k].file = "nextActions" => \E m \in DOMAIN s : m < k /\ s[m].file = "incidents"

\* The writes lead to fine files, in an order in which every part of them does too.
Good(s, c) ==
  /\ JobShape(s) /\ Ordered(s)
  /\ Fine(After(s, Len(s)), c) /\ Grown(disk, After(s, Len(s))) /\ Cross(disk, After(s, Len(s)))

\* Each part of the writes of a good script leaves fine files.
LEMMA JobGood ==
  ASSUME NEW s, NEW c, Fine(disk, c), Good(s, c), NEW n \in 0..Len(s)
  PROVE  Fine(After(s, n), TRUE)
<1>1. JobShape(s) /\ Ordered(s) /\ Len(s) \in Nat /\ DOMAIN s = 1..Len(s) /\ DOMAIN disk = FileNames
      BY DEF Good, JobShape, Fine, FilesOK
<1>2. SUFFICES ASSUME NEW e, NEW l, e = After(s, n), l = After(s, Len(s))
               PROVE  Fine(e, TRUE)
      OBVIOUS
<1>3. Len(s) \in 0..Len(s)
      BY <1>1
<1>4. /\ e = [f \in FileNames |-> e[f]]
      /\ \A f \in FileNames : (\A m \in 1..n : s[m].file # f) => e[f] = disk[f]
      /\ \A m \in 1..n : e[s[m].file] = s[m].value
      BY <1>1, <1>2, AfterFacts
<1>5. /\ \A f \in FileNames : (\A m \in 1..Len(s) : s[m].file # f) => l[f] = disk[f]
      /\ \A m \in 1..Len(s) : l[s[m].file] = s[m].value
      BY <1>1, <1>2, <1>3, AfterFacts
<1>6. \A m \in 1..n : m \in 1..Len(s)
      BY <1>1
<1>7. \A f \in FileNames : e[f] = disk[f] \/ e[f] = l[f]
      BY <1>4, <1>5, <1>6
<1>8. e["nextActions"] = disk["nextActions"] \/ e["incidents"] = l["incidents"]
  <2>1. CASE \E k \in 1..n : s[k].file = "nextActions"
    <3>1. PICK k \in 1..n : s[k].file = "nextActions"
          BY <2>1
    <3>2. PICK m \in DOMAIN s : m < k /\ s[m].file = "incidents"
          BY <1>1, <1>6, <3>1 DEF Ordered
    <3>3. m \in 1..n
          BY <1>1, <3>2
    <3> QED
        BY <1>4, <1>5, <1>6, <3>2, <3>3
  <2> QED
      BY <1>4, <2>1 DEF FileNames
<1>9. e["queue"] = disk["queue"] \/ \A f \in FileNames \ Loose : e[f] = l[f]
  <2>1. CASE \E k \in 1..n : s[k].file = "queue"
    <3>1. PICK k \in 1..n : s[k].file = "queue"
          BY <2>1
    <3>2. ASSUME NEW f \in FileNames \ Loose, ~ \E m \in 1..n : s[m].file = f PROVE e[f] = l[f]
      <4>1. ASSUME NEW m \in 1..Len(s), s[m].file = f PROVE FALSE
        <5>1. m > k
              BY <1>1, <3>2, <4>1
        <5> QED
            BY <1>1, <1>6, <3>1, <3>2, <4>1, <5>1 DEF Ordered
      <4> QED
          BY <1>4, <1>5, <3>2, <4>1
    <3> QED
        BY <1>4, <1>5, <1>6, <3>2
  <2> QED
      BY <1>4, <2>1 DEF FileNames
<1>10. Fine(l, c) /\ Grown(disk, l) /\ Cross(disk, l)
       BY <1>2 DEF Good
<1>11. Mixed(disk, e, l)
       BY <1>4, <1>7, <1>8, <1>9 DEF Mixed
<1> QED
    BY <1>10, <1>11, Between

\* What is fine without a crash is fine.
LEMMA FineCrashed ==
  ASSUME NEW d, NEW c, Fine(d, c) PROVE Fine(d, TRUE)
<1>1. ASSUME NEW t, Linked(d, t, c) PROVE Linked(d, t, TRUE)
      BY <1>1 DEF Linked
<1> QED
    BY <1>1 DEF Fine, TaskFine

\* No writes change nothing.
LEMMA NoJob ==
  ASSUME NEW d, d = [f \in FileNames |-> d[f]]
  PROVE  d = [f \in DOMAIN d |-> IF \A m \in 1..0 : <<>>[m].file # f THEN d[f]
                                 ELSE <<>>[CHOOSE m \in 1..0 : <<>>[m].file = f].value]
<1>1. \A f : \A m \in 1..0 : <<>>[m].file # f
      OBVIOUS
<1>2. DOMAIN d = FileNames
      OBVIOUS
<1> QED
    BY <1>1, <1>2

\* With fine files, no script is a good job.
LEMMA Idle == (Fine(disk, crashes > 0) => JobOK(<<>>)) /\ (Fine(disk, crashes > 0)' => JobOK(<<>>)')
<1>1. ASSUME Fine(disk, crashes > 0) PROVE JobOK(<<>>)
  <2>1. disk = [f \in FileNames |-> disk[f]]
        BY <1>1 DEF Fine, FilesOK
  <2>2. After(<<>>, 0) = disk
        BY <2>1, NoJob DEF After
  <2>3. Fine(disk, TRUE)
        BY <1>1, FineCrashed
  <2>4. Len(<<>>) = 0 /\ DOMAIN <<>> = 1..0
        OBVIOUS
  <2>5. \A n \in 0..Len(<<>>) : n = 0
        BY <2>4
  <2>6. \A n \in 0..Len(<<>>) : Fine(After(<<>>, n), TRUE)
        BY <2>2, <2>3, <2>5
  <2>7. /\ Len(<<>>) \in Nat
        /\ \A m, n \in DOMAIN <<>> : <<>>[m].file = <<>>[n].file => m = n
        BY <2>4
  <2>8. Fine(After(<<>>, Len(<<>>)), crashes > 0)
        BY <1>1, <2>2, <2>4
  <2>9. DOMAIN <<>> = 1..Len(<<>>)
        BY <2>4
  <2> QED
      BY <2>6, <2>7, <2>8, <2>9, Zenon DEF JobOK
<1>2. ASSUME Fine(disk, crashes > 0)' PROVE JobOK(<<>>)'
  <2>1. disk' = [f \in FileNames |-> disk'[f]]
        BY <1>2 DEF Fine, FilesOK
  <2>2. After(<<>>, 0)' = disk'
        BY <2>1, NoJob DEF After
  <2>3. Fine(disk', TRUE)
        BY <1>2, FineCrashed
  <2>4. Len(<<>>) = 0 /\ DOMAIN <<>> = 1..0
        OBVIOUS
  <2>5. \A n \in 0..Len(<<>>) : n = 0
        BY <2>4
  <2>6. \A n \in 0..Len(<<>>) : Fine(After(<<>>, n)', TRUE)
        BY <2>2, <2>3, <2>5
  <2>7. /\ Len(<<>>) \in Nat
        /\ \A m, n \in DOMAIN <<>> : <<>>[m].file = <<>>[n].file => m = n
        BY <2>4
  <2>8. Fine(After(<<>>, Len(<<>>))', crashes' > 0)
        BY <1>2, <2>2, <2>4
  <2>9. DOMAIN <<>> = 1..Len(<<>>)
        BY <2>4
  <2> QED
      BY <2>6, <2>7, <2>8, <2>9, Zenon DEF JobOK
<1> QED
    BY <1>1, <1>2

\* A script that writes its files.
LEMMA WriteFine ==
  ASSUME NEW s, JobOK(s), crashes \in Nat, Write(s)
  PROVE  /\ Fine(disk', crashes' > 0)
         /\ crashes' = crashes \/ (MoreEvents /\ crashes' = crashes + 1 /\ Len(s) # 1)
<1>1. CASE disk' = After(s, Len(s)) /\ UNCHANGED crashes
      BY <1>1 DEF JobOK
<1>2. CASE MoreEvents /\ crashes' = crashes + 1 /\ \E n \in 1..Len(s) - 1 : disk' = After(s, n)
  <2>1. PICK n \in 1..Len(s) - 1 : disk' = After(s, n)
        BY <1>2
  <2>2. Len(s) \in Nat
        BY DEF JobOK
  <2>3. n \in 0..Len(s) /\ Len(s) # 1
        BY <2>2
  <2>4. (crashes' > 0) = TRUE
        BY <1>2
  <2>5. Fine(After(s, n), TRUE)
        BY <2>3 DEF JobOK
  <2> QED
      BY <1>2, <2>1, <2>3, <2>4, <2>5
<1> QED
    BY <1>1, <1>2 DEF Write

\* A script that runs: it writes, or its writes wait for GoOn.
LEMMA RunFine ==
  ASSUME NEW s, IInv, Run(s), Good(s, crashes > 0)
  PROVE  /\ Fine(disk', crashes' > 0) /\ JobOK(job)'
         /\ crashes' = crashes \/ (MoreEvents /\ crashes' = crashes + 1 /\ Len(s) # 1)
<1>1. Fine(disk, crashes > 0) /\ crashes \in Nat
      BY DEF IInv, Counters
<1>2. JobOK(s)
  <2>1. JobShape(s) /\ Fine(After(s, Len(s)), crashes > 0)
        BY DEF Good
  <2>2. \A n \in 0..Len(s) : Fine(After(s, n), TRUE)
        BY <1>1, JobGood
  <2> QED
      BY <2>1, <2>2 DEF JobOK, JobShape
<1>3. CASE Write(s) /\ UNCHANGED job
  <2>1. /\ Fine(disk', crashes' > 0)
        /\ crashes' = crashes \/ (MoreEvents /\ crashes' = crashes + 1 /\ Len(s) # 1)
        BY <1>1, <1>2, <1>3, WriteFine
  <2>2. job' = <<>>
        BY <1>3 DEF Run
  <2> QED
      BY <2>1, <2>2, Idle
<1>4. CASE job' = s /\ UNCHANGED <<disk, crashes>>
  <2>1. JobOK(s)'
    <3>1. \A n : After(s, n)' = After(s, n)
          BY <1>4 DEF After
    <3>2. \A n \in 0..Len(s) : Fine(After(s, n)', TRUE)
          BY <1>2, <3>1, Zenon DEF JobOK
    <3>3. Fine(After(s, Len(s))', crashes' > 0)
          BY <1>2, <1>4, <3>1 DEF JobOK
    <3> QED
        BY <1>2, <3>2, <3>3, Zenon DEF JobOK
  <2> QED
      BY <1>1, <1>4, <2>1
<1> QED
    BY <1>3, <1>4 DEF Run

-------------------------------------------------------------------------------
(* Scripts of one to four writes *)

\* The files that a script writes are among S.
Changed(d, l, S) == l = [f \in FileNames |-> l[f]] /\ \A f \in FileNames \ S : l[f] = d[f]

\* The script s has left the files l.
Left1(s, l, f1, v1) == JobShape(s) /\ Ordered(s) /\ Len(s) = 1 /\ Changed(disk, l, {f1}) /\ l[f1] = v1
Left2(s, l, f1, v1, f2, v2) ==
  JobShape(s) /\ Ordered(s) /\ Changed(disk, l, {f1, f2}) /\ l[f1] = v1 /\ l[f2] = v2
Left3(s, l, f1, v1, f2, v2, f3, v3) ==
  JobShape(s) /\ Ordered(s) /\ Changed(disk, l, {f1, f2, f3}) /\ l[f1] = v1 /\ l[f2] = v2 /\ l[f3] = v3
Left4(s, l, f1, v1, f2, v2, f3, v3, f4, v4) ==
  /\ JobShape(s) /\ Ordered(s) /\ Changed(disk, l, {f1, f2, f3, f4})
  /\ l[f1] = v1 /\ l[f2] = v2 /\ l[f3] = v3 /\ l[f4] = v4

\* The files are as the script says.
Wrote(s, l) ==
  /\ l = [f \in FileNames |-> l[f]]
  /\ \A f \in FileNames : (\A m \in 1..Len(s) : s[m].file # f) => l[f] = disk[f]
  /\ \A m \in 1..Len(s) : l[s[m].file] = s[m].value

\* What a script whose files are known has left, in one fact.
LEMMA Written ==
  ASSUME NEW s, JobShape(s), DOMAIN disk = FileNames
  PROVE  Wrote(s, After(s, Len(s)))
<1>1. Len(s) \in 0..Len(s)
      BY DEF JobShape
<1>2. SUFFICES ASSUME NEW l, l = After(s, Len(s)) PROVE Wrote(s, l)
      OBVIOUS
<1> QED
    BY <1>1, <1>2, AfterFacts DEF Wrote

\* A script of one write.
LEMMA Job1 ==
  ASSUME NEW f1, NEW v1, NEW s, NEW l,
         DOMAIN disk = FileNames, f1 \in FileNames, f1 # "nextActions", s = <<Put(f1, v1)>>,
         l = After(s, Len(s))
  PROVE  Left1(s, l, f1, v1)
<1>1. /\ Len(s) = 1 /\ DOMAIN s = 1..1 /\ s[1].file = f1 /\ s[1].value = v1
      BY DEF Put
<1>2. \A m \in 1..1 : m = 1
      OBVIOUS
<1>3. JobShape(s)
      BY <1>1, <1>2 DEF JobShape
<1>4. Ordered(s)
      BY <1>1, <1>2 DEF Ordered
<1>5. Wrote(s, l)
      BY <1>3, Written
<1> QED
    BY <1>1, <1>2, <1>3, <1>4, <1>5 DEF Wrote, Changed, Left1

\* A script of two writes, the queue last.
LEMMA Job2 ==
  ASSUME NEW f1, NEW f2, NEW v1, NEW v2, NEW s, NEW l,
         DOMAIN disk = FileNames, f1 \in FileNames, f2 \in FileNames, f1 # f2, f1 = "queue" => f2 \in Loose,
         f1 # "nextActions", f2 # "nextActions", s = <<Put(f1, v1), Put(f2, v2)>>, l = After(s, Len(s))
  PROVE  Left2(s, l, f1, v1, f2, v2)
<1>1. /\ Len(s) = 2 /\ DOMAIN s = 1..2 /\ s[1].file = f1 /\ s[1].value = v1 /\ s[2].file = f2 /\ s[2].value = v2
      BY DEF Put
<1>2. \A m \in 1..2 : m = 1 \/ m = 2
      OBVIOUS
<1>3. JobShape(s)
      BY <1>1, <1>2 DEF JobShape
<1>4. Ordered(s)
      BY <1>1, <1>2 DEF Ordered
<1>5. Wrote(s, l)
      BY <1>3, Written
<1> QED
    BY <1>1, <1>2, <1>3, <1>4, <1>5 DEF Wrote, Changed, Left2

\* A script of three writes; after the queue come only loose files.
LEMMA Job3 ==
  ASSUME NEW f1, NEW f2, NEW f3, NEW v1, NEW v2, NEW v3, NEW s, NEW l,
         DOMAIN disk = FileNames, f1 \in FileNames, f2 \in FileNames, f3 \in FileNames, f1 # f2, f1 # f3,
         f2 # f3, f1 # "queue", f2 = "queue" => f3 \in Loose, f1 # "nextActions", f2 # "nextActions",
         f3 # "nextActions", s = <<Put(f1, v1), Put(f2, v2), Put(f3, v3)>>, l = After(s, Len(s))
  PROVE  Left3(s, l, f1, v1, f2, v2, f3, v3)
<1>1. /\ Len(s) = 3 /\ DOMAIN s = 1..3 /\ s[1].file = f1 /\ s[1].value = v1 /\ s[2].file = f2 /\ s[2].value = v2
      /\ s[3].file = f3 /\ s[3].value = v3
      BY DEF Put
<1>2. \A m \in 1..3 : m = 1 \/ m = 2 \/ m = 3
      OBVIOUS
<1>3. JobShape(s)
      BY <1>1, <1>2 DEF JobShape
<1>4. Ordered(s)
      BY <1>1, <1>2 DEF Ordered
<1>5. Wrote(s, l)
      BY <1>3, Written
<1> QED
    BY <1>1, <1>2, <1>3, <1>4, <1>5 DEF Wrote, Changed, Left3

\* A script of four writes.
LEMMA Job4 ==
  ASSUME NEW f1, NEW f2, NEW f3, NEW f4, NEW v1, NEW v2, NEW v3, NEW v4, NEW s, NEW l,
         DOMAIN disk = FileNames, f1 \in FileNames, f2 \in FileNames, f3 \in FileNames, f4 \in FileNames,
         f1 # f2, f1 # f3, f1 # f4, f2 # f3, f2 # f4, f3 # f4, f1 = "queue" => {f2, f3, f4} \subseteq Loose,
         f2 # "queue", f3 = "queue" => f4 \in Loose, f1 # "nextActions",
         f2 = "nextActions" => f1 = "incidents", f3 # "nextActions", f4 # "nextActions",
         s = <<Put(f1, v1), Put(f2, v2), Put(f3, v3), Put(f4, v4)>>, l = After(s, Len(s))
  PROVE  Left4(s, l, f1, v1, f2, v2, f3, v3, f4, v4)
<1>1. /\ Len(s) = 4 /\ DOMAIN s = 1..4 /\ s[1].file = f1 /\ s[1].value = v1 /\ s[2].file = f2 /\ s[2].value = v2
      /\ s[3].file = f3 /\ s[3].value = v3 /\ s[4].file = f4 /\ s[4].value = v4
      BY DEF Put
<1>2. \A m \in 1..4 : m = 1 \/ m = 2 \/ m = 3 \/ m = 4
      OBVIOUS
<1>3. JobShape(s)
      BY <1>1, <1>2 DEF JobShape
<1>4. Ordered(s)
  <2>1. ASSUME NEW k \in DOMAIN s, s[k].file = "queue" PROVE \A m \in DOMAIN s : m > k => s[m].file \in Loose
        BY <1>1, <1>2, <2>1
  <2>2. ASSUME NEW k \in DOMAIN s, s[k].file = "nextActions" PROVE 1 < k /\ s[1].file = "incidents"
        BY <1>1, <1>2, <2>2
  <2> QED
      BY <1>1, <2>1, <2>2 DEF Ordered
<1>5. Wrote(s, l)
      BY <1>3, Written
<1> QED
    BY <1>1, <1>2, <1>3, <1>4, <1>5 DEF Wrote, Changed, Left4

-------------------------------------------------------------------------------
(* One task handed on *)

\* Step gives a task, and says which of its fields are new.
LEMMA StepTask ==
  ASSUME NEW task, NEW status, NEW times, NEW paths, NEW t,
         task \in Tasks, status \in Statuses, now \in Stamp,
         \A f \in Paths \cap DOMAIN paths : paths[f] \in Nat \cup {None} \cup Names,
         \A f \in Numbers \cap DOMAIN paths : paths[f] \in Nat \cup {None},
         t = Step(task, status, times, paths)
  PROVE  /\ t \in Tasks /\ t.key = task.key /\ t.status = status
         /\ \A x \in Times : t.at[x] = IF x \in times THEN now ELSE task.at[x]
         /\ \A f \in Paths : t.path[f] = IF f \in DOMAIN paths THEN paths[f] ELSE task.path[f]
<1>1. /\ task.key \in AllKeys /\ task.project \in Projects \cup {None} /\ task.state \in States
      /\ task.at \in [Times -> Stamp]
      BY DEF Tasks
<1>2. task.path \in [Paths -> Nat \cup {None} \cup Names] /\ \A f \in Numbers : task.path[f] \in Nat \cup {None}
      BY DEF Tasks, PathSets
<1>3. t = [key |-> task.key, project |-> task.project, status |-> status, state |-> task.state,
           at |-> [x \in Times |-> IF x \in times THEN now ELSE task.at[x]],
           path |-> [f \in Paths |-> IF f \in DOMAIN paths THEN paths[f] ELSE task.path[f]]]
      BY DEF Step, Tasks
<1>4. [x \in Times |-> IF x \in times THEN now ELSE task.at[x]] \in [Times -> Stamp]
      BY <1>1
<1>5. [f \in Paths |-> IF f \in DOMAIN paths THEN paths[f] ELSE task.path[f]] \in PathSets
  <2> DEFINE g == [f \in Paths |-> IF f \in DOMAIN paths THEN paths[f] ELSE task.path[f]]
  <2>1. Numbers \subseteq Paths
        BY DEF Numbers, Paths
  <2>2. \A f \in Paths : g[f] \in Nat \cup {None} \cup Names
        BY <1>2
  <2>3. \A f \in Numbers : g[f] \in Nat \cup {None}
        BY <1>2, <2>1
  <2>4. g \in [Paths -> Nat \cup {None} \cup Names]
        BY <2>2
  <2> QED
      BY <2>3, <2>4 DEF PathSets
<1>6. t \in Tasks
      BY <1>1, <1>3, <1>4, <1>5 DEF Tasks
<1> QED
    BY <1>3, <1>6

\* The fields that a script gives a task are among F and T.
Moved(u, t, status, F, T) ==
  /\ t \in Tasks /\ t.key = u.key /\ t.status = status
  /\ \A f \in Paths \ F : t.path[f] = u.path[f]
  /\ \A x \in Times \ T : t.at[x] = u.at[x]

\* What a replaced task may not share with another one.
Aside(e, t, u) ==
  /\ \A f \in Own : t.path[f] # None => u.path[f] # t.path[f]
  /\ t.path["assignment"] # None => e["assignments"][t.path["assignment"]].redispatch # u.path["redispatch"]
  /\ u.path["assignment"] # None => e["assignments"][u.path["assignment"]].redispatch # t.path["redispatch"]

\* One task of the queue is replaced.
LEMMA OneTask ==
  ASSUME NEW d, NEW e, NEW c, Fine(d, c), FilesOK(e), Grown(d, e),
         NEW i \in DOMAIN d["queue"], NEW t, e["queue"] = [d["queue"] EXCEPT ![i] = t], TaskFine(e, t, c),
         \A j \in DOMAIN d["queue"] \ {i} : Aside(e, t, d["queue"][j]),
         ~c => \A j \in DOMAIN d["queue"] \ {i} : Served(e, d["queue"][j])
  PROVE  Fine(e, c)
<1>1. d["queue"] \in Seq(Tasks) /\ FilesOK(d) /\ Apart(d)
      BY DEF Fine, FilesOK
<1>2. \A j \in DOMAIN d["queue"] : d["queue"][j] \in Tasks
      BY <1>1, Elements
<1>3. DOMAIN e["queue"] = DOMAIN d["queue"] /\ e["queue"][i] = t
      /\ \A j \in DOMAIN d["queue"] \ {i} : e["queue"][j] = d["queue"][j]
      OBVIOUS
<1>4. \A j \in DOMAIN d["queue"] : Linked(d, d["queue"][j], c) /\ Staged(d["queue"][j])
      BY DEF Fine, TaskFine
<1>5. ASSUME NEW j \in DOMAIN d["queue"] \ {i} PROVE TaskFine(e, e["queue"][j], c)
  <2>1. Linked(e, d["queue"][j], c)
        BY <1>1, <1>2, <1>4, LinkedStays
  <2> QED
      BY <1>3, <1>4, <2>1 DEF TaskFine
<1>6. Apart(e)
  <2>1. \A j \in DOMAIN d["queue"] : d["queue"][j].path["assignment"] # None =>
          /\ d["queue"][j].path["assignment"] \in DOMAIN d["assignments"]
          /\ e["assignments"][d["queue"][j].path["assignment"]] = d["assignments"][d["queue"][j].path["assignment"]]
        BY <1>4 DEF Linked, Grown
  <2>2. ASSUME NEW j \in DOMAIN d["queue"], NEW k \in DOMAIN d["queue"], j # k
        PROVE  /\ \A f \in Own : e["queue"][j].path[f] # None => e["queue"][k].path[f] # e["queue"][j].path[f]
               /\ e["queue"][j].path["assignment"] # None =>
                    e["assignments"][e["queue"][j].path["assignment"]].redispatch # e["queue"][k].path["redispatch"]
    <3>1. CASE j = i
          BY <1>3, <2>2, <3>1 DEF Aside
    <3>2. CASE k = i
          BY <1>3, <2>2, <3>2 DEF Aside
    <3>3. CASE j # i /\ k # i
          BY <1>1, <1>3, <2>1, <2>2, <3>3, SMTT(30) DEF Apart
    <3> QED
        BY <3>1, <3>2, <3>3
  <2> QED
      BY <1>3, <2>2 DEF Apart
<1> QED
    BY <1>3, <1>5, <1>6 DEF Fine

\* Two tasks of the queue are aside of each other.
LEMMA AsideKnown ==
  ASSUME NEW d, NEW c, Fine(d, c), NEW i \in DOMAIN d["queue"], NEW j \in DOMAIN d["queue"] \ {i}
  PROVE  Aside(d, d["queue"][i], d["queue"][j])
<1>1. /\ Apart(d) /\ j \in DOMAIN d["queue"] /\ i # j
      BY DEF Fine
<1>2. /\ \A f \in Own : d["queue"][i].path[f] # None => d["queue"][j].path[f] # d["queue"][i].path[f]
      /\ d["queue"][i].path["assignment"] # None =>
           d["assignments"][d["queue"][i].path["assignment"]].redispatch # d["queue"][j].path["redispatch"]
      BY <1>1, Zenon DEF Apart
<1>3. d["queue"][j].path["assignment"] # None =>
        d["assignments"][d["queue"][j].path["assignment"]].redispatch # d["queue"][i].path["redispatch"]
      BY <1>1, Zenon DEF Apart
<1> QED
    BY <1>2, <1>3, Zenon DEF Aside

\* A task that gets a path of its own.
LEMMA AsideStays ==
  ASSUME NEW d, NEW l, NEW u, NEW t, NEW v, NEW status, NEW F, NEW T,
         Moved(u, t, status, F, T), Aside(d, u, v), l["assignments"] = d["assignments"],
         "assignment" \notin F, "redispatch" \notin F, \A f \in F : f \in Own => v.path[f] # t.path[f]
  PROVE  Aside(l, t, v)
<1>1. \A f \in Own \ F : t.path[f] = u.path[f]
      BY DEF Moved, Own, Paths
<1>2. t.path["assignment"] = u.path["assignment"] /\ t.path["redispatch"] = u.path["redispatch"]
      BY <1>1 DEF Own
<1>3. \A f \in Own : t.path[f] # None => v.path[f] # t.path[f]
      BY <1>1 DEF Aside
<1> QED
    BY <1>2, <1>3 DEF Aside

\* No task is.
LEMMA NoTask ==
  ASSUME NEW d, NEW e, NEW c, Fine(d, c), FilesOK(e), Grown(d, e), e["queue"] = d["queue"],
         ~c => \A j \in DOMAIN d["queue"] : Served(e, d["queue"][j])
  PROVE  Fine(e, c)
<1>1. d["queue"] \in Seq(Tasks) /\ FilesOK(d) /\ Apart(d)
      BY DEF Fine, FilesOK
<1>2. \A j \in DOMAIN d["queue"] : d["queue"][j] \in Tasks
      BY <1>1, Elements
<1>3. \A j \in DOMAIN d["queue"] : Linked(d, d["queue"][j], c) /\ Staged(d["queue"][j])
      BY DEF Fine, TaskFine
<1>4. \A j \in DOMAIN d["queue"] : Linked(e, d["queue"][j], c)
      BY <1>1, <1>2, <1>3, LinkedStays
<1>5. Apart(e)
      BY <1>1, <1>3, ApartStays
<1> QED
    BY <1>3, <1>4, <1>5 DEF Fine, TaskFine

-------------------------------------------------------------------------------
(* The task that a consumer takes *)

\* A set of numbers has a first one.
LEMMA Least == ASSUME NEW S, S \subseteq Nat, S # {}
               PROVE  \E x \in S : \A y \in S : x <= y
<1>1. \E R : IsWellFoundedOn(R, Nat) /\ R = {ss \in Nat \X Nat : ss[1] < ss[2]}
  <2>1. OpToRel(<, Nat) = {ss \in Nat \X Nat : ss[1] < ss[2]}
        BY Zenon DEF OpToRel
  <2>2. IsWellFoundedOn(OpToRel(<, Nat), Nat)
        BY NatLessThanWellFounded
  <2> QED
      BY <2>1, <2>2, Zenon
<1>2. PICK R : IsWellFoundedOn(R, Nat) /\ R = {ss \in Nat \X Nat : ss[1] < ss[2]}
      BY <1>1
<1>3. PICK x \in S : \A y \in S : ~ (<<y, x>> \in R)
      BY <1>2, WFMin
<1>4. ASSUME NEW y \in S PROVE x <= y
  <2>1. x \in Nat /\ y \in Nat
        OBVIOUS
  <2>2. ~ (<<y, x>> \in {ss \in Nat \X Nat : ss[1] < ss[2]})
        BY <1>2, <1>3, Zenon
  <2>3. ~ (y < x)
        BY <2>1, <2>2
  <2> QED
      BY <2>1, <2>3
<1> QED
    BY <1>4

\* First finds one place, the first, or there is none.
LEMMA FirstOf ==
  ASSUME NEW n \in Nat, NEW S \in SUBSET (1..n), NEW F,
         F = {i \in 1..n : i \in S /\ \A j \in 1..i - 1 : j \notin S}
  PROVE  (F = {} /\ S = {}) \/ \E i \in S : F = {i}
<1>1. CASE S = {}
      BY <1>1
<1>2. CASE S # {}
  <2>1. S \subseteq Nat
        OBVIOUS
  <2>2. PICK i \in S : \A m \in S : i <= m
        BY <1>2, <2>1, Least
  <2>3. i \in F
        BY <2>2
  <2>4. ASSUME NEW j \in F PROVE j = i
    <3>1. j \in 1..n /\ i \in 1..n /\ j \in S /\ i <= j
          BY <2>2, <2>4
    <3>2. ~(i < j)
          BY <2>2, <2>4, <3>1
    <3> QED
        BY <3>1, <3>2
  <2> QED
      BY <2>2, <2>3, <2>4
<1> QED
    BY <1>1, <1>2

\* The task of a request is one, and has it, or no task has it.
LEMMA TaskOfRequestFacts ==
  ASSUME NEW d, NEW r, NEW at,
         d = disk, d["queue"] \in Seq(Tasks), at = TaskOfRequest(r)
  PROVE  \/ at = {} /\ \A i \in DOMAIN d["queue"] : d["queue"][i].path["request"] # r
         \/ \E i \in DOMAIN d["queue"] : at = {i} /\ d["queue"][i].path["request"] = r
<1>1. SUFFICES ASSUME NEW q, q = d["queue"]
               PROVE  \/ at = {} /\ \A i \in DOMAIN q : q[i].path["request"] # r
                      \/ \E i \in DOMAIN q : at = {i} /\ q[i].path["request"] = r
      OBVIOUS
<1>2. Len(q) \in Nat /\ DOMAIN q = 1..Len(q)
      BY <1>1
<1>3. PICK S : S = {i \in 1..Len(q) : q[i].path["request"] = r}
      OBVIOUS
<1>4. at = {i \in DOMAIN q : q[i].path["request"] = r /\ \A j \in 1..i - 1 : ~(q[j].path["request"] = r)}
      BY <1>1 DEF TaskOfRequest, First, queue
<1>5. at = {i \in 1..Len(q) : i \in S /\ \A j \in 1..i - 1 : j \notin S}
  <2>1. ASSUME NEW i \in 1..Len(q), NEW j \in 1..i - 1 PROVE j \in 1..Len(q)
        BY <1>2
  <2> QED
      BY <1>2, <1>3, <1>4, <2>1
<1>6. S \in SUBSET (1..Len(q))
      BY <1>3
<1>7. (at = {} /\ S = {}) \/ \E i \in S : at = {i}
      BY <1>2, <1>5, <1>6, FirstOf, ZenonT(30)
<1> QED
    BY <1>2, <1>3, <1>7

\* What is known of the disk.
LEMMA Known ==
  ASSUME NEW d, NEW c, Fine(d, c)
  PROVE  /\ FilesOK(d) /\ Apart(d) /\ DOMAIN d = FileNames /\ d["queue"] \in Seq(Tasks)
         /\ \A i \in DOMAIN d["queue"] : d["queue"][i] \in Tasks /\ TaskFine(d, d["queue"][i], c)
<1>1. d["queue"] \in Seq(Tasks)
      BY DEF Fine, FilesOK
<1>2. \A i \in DOMAIN d["queue"] : d["queue"][i] \in Tasks
      BY <1>1, Elements
<1> QED
    BY <1>1, <1>2 DEF Fine, FilesOK

-------------------------------------------------------------------------------
(* From the queue to the executor: what each script leaves is fine *)

\* The paths that a script gives a task.
Fits(p) ==
  \A f \in DOMAIN p : /\ f \in Paths /\ p[f] \in Nat \cup {None} \cup Names
                      /\ f \in Numbers => p[f] \in Nat \cup {None}
\* The task has these paths.
Given(t, p) == \A f \in DOMAIN p : t.path[f] = p[f]

\* A step moves the task and gives it the paths.
LEMMA StepMoved ==
  ASSUME NEW u, NEW status, NEW times, NEW F, NEW p, NEW t,
         u \in Tasks, status \in Statuses, now \in Stamp, Fits(p), DOMAIN p = F,
         t = Step(u, status, times, p)
  PROVE  Moved(u, t, status, F, times) /\ Given(t, p) /\ \A x \in Times \cap times : t.at[x] = now
<1>1. /\ \A f \in Paths \cap DOMAIN p : p[f] \in Nat \cup {None} \cup Names
      /\ \A f \in Numbers \cap DOMAIN p : p[f] \in Nat \cup {None}
      BY DEF Fits
<1>2. /\ t \in Tasks /\ t.key = u.key /\ t.status = status
      /\ \A x \in Times : t.at[x] = IF x \in times THEN now ELSE u.at[x]
      /\ \A x \in Paths : t.path[x] = IF x \in DOMAIN p THEN p[x] ELSE u.path[x]
      BY <1>1, StepTask
<1>3. Moved(u, t, status, F, times)
      BY <1>2 DEF Moved
<1>4. Given(t, p)
      BY <1>2 DEF Given, Fits
<1> QED
    BY <1>2, <1>3, <1>4

\* The same with the state of the task.
LEMMA StepStateMoved ==
  ASSUME NEW u, NEW status, NEW times, NEW F, NEW p, NEW state, NEW t,
         u \in Tasks, status \in Statuses, state \in States, now \in Stamp, Fits(p), DOMAIN p = F,
         t = [Step(u, status, times, p) EXCEPT !.state = state]
  PROVE  Moved(u, t, status, F, times) /\ Given(t, p) /\ \A x \in Times \cap times : t.at[x] = now
<1>1. SUFFICES ASSUME NEW v, v = Step(u, status, times, p)
               PROVE  Moved(u, t, status, F, times) /\ Given(t, p) /\ \A x \in Times \cap times : t.at[x] = now
      OBVIOUS
<1>2. Moved(u, v, status, F, times) /\ Given(v, p) /\ \A x \in Times \cap times : v.at[x] = now
      BY <1>1, StepMoved
<1>3. t = [v EXCEPT !.state = state] /\ v \in Tasks
      BY <1>1, <1>2 DEF Moved
<1>4. t \in Tasks /\ t.key = v.key /\ t.status = v.status /\ t.at = v.at /\ t.path = v.path
      BY <1>3 DEF Tasks
<1> QED
    BY <1>2, <1>4 DEF Moved, Given

\* consume_execution_requests.py: the new request is of the first task alone.
LEMMA RequestFine ==
  ASSUME NEW d, NEW l, NEW c, NEW i, NEW u, NEW n, NEW t,
         Fine(d, c), i \in DOMAIN d["queue"], u = d["queue"][i], u.status = "in_progress",
         u.path["handoff"] = None, n = Len(d["requests"]) + 1, Changed(d, l, {"requests", "queue"}),
         Moved(u, t, "requested_execution", {"request"}, {"requested"}), t.path["request"] = n,
         l["requests"] = Append(d["requests"], "requested"), l["queue"] = [d["queue"] EXCEPT ![i] = t]
  PROVE  Fine(l, c) /\ Grown(d, l) /\ Cross(d, l)
<1>1. /\ FilesOK(d) /\ Apart(d) /\ DOMAIN d = FileNames /\ d["queue"] \in Seq(Tasks)
      /\ \A j \in DOMAIN d["queue"] : d["queue"][j] \in Tasks /\ TaskFine(d, d["queue"][j], c)
      BY Known
<1>2. /\ d["requests"] \in Seq(RequestStates) /\ n \in Nat /\ n \notin DOMAIN d["requests"]
      /\ l["requests"] \in Seq(RequestStates)
      /\ DOMAIN l["requests"] = DOMAIN d["requests"] \cup {n} /\ l["requests"][n] = "requested"
      /\ \A r \in DOMAIN d["requests"] : l["requests"][r] = d["requests"][r]
  <2>1. d["requests"] \in Seq(RequestStates)
        BY <1>1 DEF FilesOK
  <2>2. "requested" \in RequestStates
        BY DEF RequestStates
  <2> QED
      BY <2>1, <2>2
<1>3. /\ l = [f \in FileNames |-> l[f]] /\ l["snapshot"] = d["snapshot"] /\ l["projects"] = d["projects"]
      /\ l["gaps"] = d["gaps"] /\ l["handoffs"] = d["handoffs"] /\ l["pidevs"] = d["pidevs"]
      /\ l["bundles"] = d["bundles"] /\ l["dispatches"] = d["dispatches"] /\ l["delegated"] = d["delegated"]
      /\ l["incidents"] = d["incidents"] /\ l["nextActions"] = d["nextActions"]
      /\ l["redispatches"] = d["redispatches"] /\ l["assignments"] = d["assignments"]
      BY DEF Changed, FileNames
<1>4. t \in Tasks /\ l["queue"] \in Seq(Tasks)
  <2>1. t \in Tasks
        BY DEF Moved
  <2> QED
      BY <1>1, <2>1
<1>5. FilesOK(l)
      BY <1>1, <1>2, <1>3, <1>4 DEF FilesOK
<1>6. Grown(d, l) /\ Cross(d, l)
  <2>1. /\ d["dispatches"] \in Nat /\ d["delegated"] \in Nat /\ d["redispatches"] \in Nat
        /\ DOMAIN d["handoffs"] \subseteq DOMAIN d["requests"]
        /\ \A p \in DOMAIN d["pidevs"] : d["pidevs"][p].request \in DOMAIN d["handoffs"]
        /\ \A a \in DOMAIN d["assignments"] : d["assignments"][a].redispatch <= d["redispatches"]
        BY <1>1 DEF FilesOK
  <2>2. d["dispatches"] <= l["dispatches"] /\ d["delegated"] <= l["delegated"]
        /\ d["redispatches"] <= l["redispatches"]
        BY <1>3, <2>1
  <2>3. Grown(d, l)
        BY <1>2, <1>3, <2>2 DEF Grown
  <2>4. Cross(d, l)
        BY <1>3, <2>1 DEF Cross
  <2> QED
      BY <2>3, <2>4
<1>7. u \in Tasks /\ Linked(d, u, c) /\ Staged(u) /\ (~c => Served(d, u))
      BY <1>1 DEF TaskFine
<1>8. /\ t.key = u.key /\ t.status = "requested_execution" /\ t.path["handoff"] = u.path["handoff"]
      /\ t.path["pidev"] = u.path["pidev"] /\ t.path["bundle"] = u.path["bundle"]
      /\ t.path["dispatch"] = u.path["dispatch"] /\ t.path["delegated"] = u.path["delegated"]
      /\ t.path["incident"] = u.path["incident"] /\ t.path["redispatch"] = u.path["redispatch"]
      /\ t.path["assignment"] = u.path["assignment"] /\ t.at["delegated"] = u.at["delegated"]
      BY DEF Moved, Paths, Times
<1>9. u.path["pidev"] = None \/ (c /\ u.path["redispatch"] # None)
      BY <1>7 DEF Staged, Served
<1>10. TaskFine(l, t, c)
  <2>1. Staged(t)
        BY <1>2, <1>7, <1>8, NoneAssumption DEF Staged
  <2>2. Linked(l, t, c)
        BY <1>2, <1>3, <1>7, <1>8, <1>9, ZenonT(30) DEF Linked, Staged
  <2>3. ASSUME ~c PROVE Served(l, t)
    <3>1. t.path["pidev"] = None /\ t.path["handoff"] = None
          BY <1>8, <1>9, <2>3
    <3>2. n \notin DOMAIN l["handoffs"] /\ \A p \in DOMAIN l["pidevs"] : l["pidevs"][p].request # n
          BY <1>1, <1>2, <1>3 DEF FilesOK
    <3> QED
        BY <1>2, <1>8, <3>1, <3>2 DEF Served
  <2> QED
      BY <2>1, <2>2, <2>3 DEF TaskFine
<1>11. ASSUME NEW j \in DOMAIN d["queue"] \ {i} PROVE Aside(l, t, d["queue"][j]) /\ (~c => Served(l, d["queue"][j]))
  <2>1. SUFFICES ASSUME NEW v, v = d["queue"][j] PROVE Aside(l, t, v) /\ (~c => Served(l, v))
        OBVIOUS
  <2>2. Linked(d, v, c) /\ Staged(v) /\ (~c => Served(d, v))
        BY <1>1, <2>1 DEF TaskFine
  <2>3. v.path["request"] # n
        BY <1>2, <2>2, NoneAssumption DEF Linked
  <2>4. Aside(d, u, v)
        BY <2>1, AsideKnown
  <2>5. Aside(l, t, v)
    <3>1. l["assignments"] = d["assignments"]
          BY DEF Changed, FileNames
    <3> QED
        BY <2>3, <2>4, <3>1, AsideStays DEF Own
  <2>6. ASSUME ~c PROVE Served(l, v)
    <3>1. v.status = "requested_execution" => l["requests"][v.path["request"]] = "requested"
          BY <1>2, <2>2, <2>6 DEF Served, Linked, Staged
    <3> QED
        BY <1>3, <2>2, <2>6, <3>1 DEF Served
  <2> QED
      BY <2>5, <2>6
<1>12. Fine(l, c)
       BY <1>5, <1>6, <1>10, <1>11, OneTask
<1> QED
    BY <1>6, <1>12

\* What HandOff does to the handoffs and requests.
HandedOff(d, l, r) ==
  /\ r \in DOMAIN d["requests"] /\ d["requests"][r] = "requested"
  /\ l["handoffs"] = [h \in DOMAIN d["handoffs"] \cup {r} |-> IF h = r THEN "handed_off" ELSE d["handoffs"][h]]
  /\ l["requests"] = [d["requests"] EXCEPT ![r] = "handed_off"]

\* consume_executor_handoffs.py: its files are as they should be.
LEMMA HandOffFiles ==
  ASSUME NEW d, NEW l, FilesOK(d), NEW r, HandedOff(d, l, r), Changed(d, l, {"handoffs", "requests", "queue"}),
         l["queue"] \in Seq(Tasks)
  PROVE  FilesOK(l) /\ Grown(d, l) /\ Cross(d, l)
<1>1. /\ d["requests"] \in Seq(RequestStates) /\ d["handoffs"] \in [DOMAIN d["handoffs"] -> HandoffStates]
      /\ DOMAIN d["handoffs"] \subseteq DOMAIN d["requests"]
      /\ \A q \in DOMAIN d["pidevs"] : d["pidevs"][q].request \in DOMAIN d["handoffs"]
      /\ d["dispatches"] \in Nat /\ d["delegated"] \in Nat /\ d["redispatches"] \in Nat
      /\ \A a \in DOMAIN d["assignments"] : d["assignments"][a].redispatch <= d["redispatches"]
      BY DEF FilesOK
<1>2. /\ l = [f \in FileNames |-> l[f]] /\ l["snapshot"] = d["snapshot"] /\ l["projects"] = d["projects"]
      /\ l["gaps"] = d["gaps"] /\ l["pidevs"] = d["pidevs"]
      /\ l["bundles"] = d["bundles"] /\ l["dispatches"] = d["dispatches"] /\ l["delegated"] = d["delegated"]
      /\ l["incidents"] = d["incidents"] /\ l["nextActions"] = d["nextActions"]
      /\ l["redispatches"] = d["redispatches"] /\ l["assignments"] = d["assignments"]
      BY DEF Changed, FileNames
<1>3. l["requests"] \in Seq(RequestStates) /\ DOMAIN l["requests"] = DOMAIN d["requests"]
      BY <1>1 DEF HandedOff, RequestStates
<1>4. /\ DOMAIN l["handoffs"] = DOMAIN d["handoffs"] \cup {r}
      /\ l["handoffs"] \in [DOMAIN l["handoffs"] -> HandoffStates]
      /\ DOMAIN l["handoffs"] \subseteq DOMAIN d["requests"]
      BY <1>1 DEF HandedOff, HandoffStates
<1>5. \A q \in DOMAIN l["pidevs"] : l["pidevs"][q].request \in DOMAIN l["handoffs"]
      BY <1>1, <1>2, <1>4
<1>6. FilesOK(l)
      BY <1>2, <1>3, <1>4, <1>5 DEF FilesOK
<1>7. d["dispatches"] <= l["dispatches"] /\ d["delegated"] <= l["delegated"] /\ d["redispatches"] <= l["redispatches"]
      BY <1>1, <1>2
<1>8. Grown(d, l)
      BY <1>2, <1>3, <1>4, <1>7 DEF Grown
<1>9. Cross(d, l)
      BY <1>1, <1>2, <1>4 DEF Cross
<1> QED
    BY <1>6, <1>8, <1>9

\* The tasks of other requests are served as before.
LEMMA HandOffOthers ==
  ASSUME NEW d, NEW l, FilesOK(d), NEW r, HandedOff(d, l, r), Changed(d, l, {"handoffs", "requests", "queue"}),
         NEW v, NEW c, Linked(d, v, c), Staged(v), Served(d, v), v.path["request"] # r
  PROVE  Served(l, v)
<1>1. l["pidevs"] = d["pidevs"] /\ l["nextActions"] = d["nextActions"]
      BY DEF Changed, FileNames
<1>2. d["requests"] \in Seq(RequestStates) /\ r \in DOMAIN d["requests"]
      BY DEF FilesOK, HandedOff
<1>3. \A x \in DOMAIN d["requests"] \ {r} : l["requests"][x] = d["requests"][x]
      BY <1>2 DEF HandedOff
<1>4. \A x : x # r => (x \in DOMAIN l["handoffs"] <=> x \in DOMAIN d["handoffs"])
      BY DEF HandedOff
<1>5. \A x \in DOMAIN d["handoffs"] \ {r} : l["handoffs"][x] = d["handoffs"][x]
      BY DEF HandedOff
<1>6. v.status = "requested_execution" => l["requests"][v.path["request"]] = "requested"
      BY <1>3 DEF Served, Staged, Linked
<1>7. v.status = "handed_off" /\ v.path["pidev"] = None => l["handoffs"][v.path["handoff"]] = "handed_off"
      BY <1>5 DEF Served, Staged, Linked
<1>8. v.path["request"] \in DOMAIN l["handoffs"] => v.path["handoff"] # None
      BY <1>4 DEF Served
<1> QED
    BY <1>1, <1>6, <1>7, <1>8 DEF Served

\* And with the task that was handed off, everything is fine.
LEMMA HandOffFine ==
  ASSUME NEW d, NEW l, NEW c, NEW r, NEW i, NEW u, NEW t,
         Fine(d, c), HandedOff(d, l, r), Changed(d, l, {"handoffs", "requests", "queue"}),
         i \in DOMAIN d["queue"], u = d["queue"][i], u.status = "requested_execution", u.path["request"] = r,
         Moved(u, t, "handed_off", {"handoff"}, {"handoff"}), t.path["handoff"] = r,
         l["queue"] = [d["queue"] EXCEPT ![i] = t]
  PROVE  Fine(l, c) /\ Grown(d, l) /\ Cross(d, l)
<1>1. /\ FilesOK(d) /\ Apart(d) /\ DOMAIN d = FileNames /\ d["queue"] \in Seq(Tasks)
      /\ \A j \in DOMAIN d["queue"] : d["queue"][j] \in Tasks /\ TaskFine(d, d["queue"][j], c)
      BY Known
<1>2. t \in Tasks /\ l["queue"] \in Seq(Tasks)
  <2>1. t \in Tasks
        BY DEF Moved
  <2> QED
      BY <1>1, <2>1
<1>3. FilesOK(l) /\ Grown(d, l) /\ Cross(d, l)
      BY <1>1, <1>2, HandOffFiles
<1>4. u \in Tasks /\ Linked(d, u, c) /\ Staged(u) /\ (~c => Served(d, u))
      BY <1>1 DEF TaskFine
<1>5. /\ t.key = u.key /\ t.status = "handed_off" /\ t.path["request"] = r
      /\ t.path["pidev"] = u.path["pidev"] /\ t.path["bundle"] = u.path["bundle"]
      /\ t.path["dispatch"] = u.path["dispatch"] /\ t.path["delegated"] = u.path["delegated"]
      /\ t.path["incident"] = u.path["incident"] /\ t.path["redispatch"] = u.path["redispatch"]
      /\ t.path["assignment"] = u.path["assignment"] /\ t.at["delegated"] = u.at["delegated"]
      BY DEF Moved, Paths, Times
<1>6. r \in DOMAIN d["requests"] /\ r # None /\ r \in DOMAIN l["handoffs"] /\ l["handoffs"][r] = "handed_off"
  <2>1. d["requests"] \in Seq(RequestStates)
        BY <1>1 DEF FilesOK
  <2> QED
      BY <2>1, NoneAssumption DEF HandedOff
<1>7. TaskFine(l, t, c)
  <2>1. Staged(t)
        BY <1>4, <1>5, <1>6 DEF Staged
  <2>2. Linked(l, t, c)
    <3>1. Linked(l, u, c)
          BY <1>1, <1>3, <1>4, LinkedStays
    <3> QED
        BY <1>5, <1>6, <3>1 DEF Linked
  <2>3. ASSUME ~c PROVE Served(l, t)
    <3>1. u.path["handoff"] = None /\ u.path["pidev"] = None /\ u.path["dispatch"] = None
          BY <1>4, <2>3 DEF Served, Staged
    <3>2. \A q \in DOMAIN l["pidevs"] : l["pidevs"][q].request = r => t.path["pidev"] = q
          BY <1>4, <1>5, <2>3, SMTT(30) DEF Served, Changed, FileNames
    <3> QED
        BY <1>5, <1>6, <3>1, <3>2 DEF Served
  <2> QED
      BY <2>1, <2>2, <2>3 DEF TaskFine
<1>8. ASSUME NEW j \in DOMAIN d["queue"] \ {i} PROVE Aside(l, t, d["queue"][j]) /\ (~c => Served(l, d["queue"][j]))
  <2>1. SUFFICES ASSUME NEW v, v = d["queue"][j] PROVE Aside(l, t, v) /\ (~c => Served(l, v))
        OBVIOUS
  <2>2. Linked(d, v, c) /\ Staged(v) /\ (~c => Served(d, v))
        BY <1>1, <2>1 DEF TaskFine
  <2>3. Aside(d, u, v)
        BY <2>1, AsideKnown
  <2>4. v.path["request"] # r
        BY <1>6, <2>3 DEF Aside, Own
  <2>5. Aside(l, t, v)
    <3>1. l["assignments"] = d["assignments"]
          BY DEF Changed, FileNames
    <3> QED
        BY <2>3, <3>1, AsideStays DEF Own
  <2>6. ASSUME ~c PROVE Served(l, v)
        BY <1>1, <2>2, <2>4, <2>6, HandOffOthers
  <2> QED
      BY <2>5, <2>6
<1>9. Fine(l, c)
      BY <1>3, <1>7, <1>8, OneTask
<1> QED
    BY <1>3, <1>9

\* A request without a task.
LEMMA HandOffAlone ==
  ASSUME NEW d, NEW l, NEW c, NEW r,
         Fine(d, c), HandedOff(d, l, r), Changed(d, l, {"handoffs", "requests", "queue"}),
         \A i \in DOMAIN d["queue"] : d["queue"][i].path["request"] # r, l["queue"] = d["queue"]
  PROVE  Fine(l, c) /\ Grown(d, l) /\ Cross(d, l)
<1>1. /\ FilesOK(d) /\ d["queue"] \in Seq(Tasks)
      /\ \A j \in DOMAIN d["queue"] : d["queue"][j] \in Tasks /\ TaskFine(d, d["queue"][j], c)
      BY Known
<1>2. FilesOK(l) /\ Grown(d, l) /\ Cross(d, l)
      BY <1>1, HandOffFiles
<1>3. ASSUME ~c, NEW j \in DOMAIN d["queue"] PROVE Served(l, d["queue"][j])
      BY <1>1, <1>3, HandOffOthers DEF TaskFine
<1> QED
    BY <1>2, <1>3, NoTask

\* What PiDevRequest does to the Pi Dev requests, handoffs and requests.
PiDevMade(d, l, r, p) ==
  /\ r \in DOMAIN d["handoffs"] /\ p = Len(d["pidevs"]) + 1
  /\ l["pidevs"] = Append(d["pidevs"], [request |-> r, status |-> "requested", bundle |-> None])
  /\ l["handoffs"] = [d["handoffs"] EXCEPT ![r] = "pi_dev_requested"]
  /\ l["requests"] = [d["requests"] EXCEPT ![r] = "pi_dev_requested"]

\* The new entry.
LEMMA PiDevMadeFacts ==
  ASSUME NEW d, NEW l, FilesOK(d), NEW r, NEW p, PiDevMade(d, l, r, p)
  PROVE  /\ r \in Nat /\ p \in Nat /\ p \notin DOMAIN d["pidevs"] /\ l["pidevs"] \in Seq(PiDevs)
         /\ DOMAIN l["pidevs"] = DOMAIN d["pidevs"] \cup {p}
         /\ l["pidevs"][p].request = r /\ l["pidevs"][p].status = "requested"
         /\ \A q \in DOMAIN d["pidevs"] : l["pidevs"][q] = d["pidevs"][q]
<1>1. r \in Nat
  <2>1. d["requests"] \in Seq(RequestStates) /\ r \in DOMAIN d["requests"]
        BY DEF FilesOK, PiDevMade
  <2> QED
      BY <2>1
<1>2. SUFFICES ASSUME NEW x, x = [request |-> r, status |-> "requested", bundle |-> None],
                      l["pidevs"] = Append(d["pidevs"], x)
               PROVE  /\ p \in Nat /\ p \notin DOMAIN d["pidevs"] /\ l["pidevs"] \in Seq(PiDevs)
                      /\ DOMAIN l["pidevs"] = DOMAIN d["pidevs"] \cup {p} /\ l["pidevs"][p] = x
                      /\ \A q \in DOMAIN d["pidevs"] : l["pidevs"][q] = d["pidevs"][q]
      BY <1>1 DEF PiDevMade
<1>3. x \in PiDevs
      BY <1>1, <1>2 DEF PiDevs
<1>4. d["pidevs"] \in Seq(PiDevs) /\ p = Len(d["pidevs"]) + 1
      BY DEF FilesOK, PiDevMade
<1> QED
    BY <1>2, <1>3, <1>4

\* consume_pi_dev_requests.py: its files are as they should be.
LEMMA PiDevFiles ==
  ASSUME NEW d, NEW l, FilesOK(d), NEW r, NEW p, PiDevMade(d, l, r, p),
         Changed(d, l, {"pidevs", "handoffs", "requests", "queue"}), l["queue"] \in Seq(Tasks)
  PROVE  FilesOK(l) /\ Grown(d, l) /\ Cross(d, l)
<1>1. /\ d["requests"] \in Seq(RequestStates) /\ d["handoffs"] \in [DOMAIN d["handoffs"] -> HandoffStates]
      /\ DOMAIN d["handoffs"] \subseteq DOMAIN d["requests"]
      /\ \A q \in DOMAIN d["pidevs"] : d["pidevs"][q].request \in DOMAIN d["handoffs"]
      /\ d["dispatches"] \in Nat /\ d["delegated"] \in Nat /\ d["redispatches"] \in Nat
      /\ \A a \in DOMAIN d["assignments"] : d["assignments"][a].redispatch <= d["redispatches"]
      BY DEF FilesOK
<1>2. /\ l = [f \in FileNames |-> l[f]] /\ l["snapshot"] = d["snapshot"] /\ l["projects"] = d["projects"]
      /\ l["gaps"] = d["gaps"]
      /\ l["bundles"] = d["bundles"] /\ l["dispatches"] = d["dispatches"] /\ l["delegated"] = d["delegated"]
      /\ l["incidents"] = d["incidents"] /\ l["nextActions"] = d["nextActions"]
      /\ l["redispatches"] = d["redispatches"] /\ l["assignments"] = d["assignments"]
      BY DEF Changed, FileNames
<1>3. l["requests"] \in Seq(RequestStates) /\ DOMAIN l["requests"] = DOMAIN d["requests"]
      BY <1>1 DEF PiDevMade, RequestStates
<1>4. DOMAIN l["handoffs"] = DOMAIN d["handoffs"] /\ l["handoffs"] \in [DOMAIN l["handoffs"] -> HandoffStates]
      BY <1>1 DEF PiDevMade, HandoffStates
<1>5. /\ l["pidevs"] \in Seq(PiDevs) /\ \A q \in DOMAIN l["pidevs"] : l["pidevs"][q].request \in DOMAIN d["handoffs"]
      /\ DOMAIN d["pidevs"] \subseteq DOMAIN l["pidevs"]
      /\ \A q \in DOMAIN d["pidevs"] : l["pidevs"][q].request = d["pidevs"][q].request
  <2>1. /\ l["pidevs"] \in Seq(PiDevs) /\ DOMAIN l["pidevs"] = DOMAIN d["pidevs"] \cup {p}
        /\ l["pidevs"][p].request = r /\ \A q \in DOMAIN d["pidevs"] : l["pidevs"][q] = d["pidevs"][q]
        BY PiDevMadeFacts, ZenonT(30)
  <2>2. r \in DOMAIN d["handoffs"]
        BY DEF PiDevMade
  <2> QED
      BY <1>1, <2>1, <2>2
<1>6. FilesOK(l)
      BY <1>1, <1>2, <1>3, <1>4, <1>5 DEF FilesOK
<1>7. d["dispatches"] <= l["dispatches"] /\ d["delegated"] <= l["delegated"] /\ d["redispatches"] <= l["redispatches"]
      BY <1>1, <1>2
<1>8. Grown(d, l)
      BY <1>2, <1>3, <1>4, <1>5, <1>7 DEF Grown
<1>9. Cross(d, l)
      BY <1>1, <1>2, <1>4, <1>5 DEF Cross
<1> QED
    BY <1>6, <1>8, <1>9

\* A new Pi Dev request leaves a task of another request as it is.
LEMMA PiDevOthers ==
  ASSUME NEW d, NEW l, FilesOK(d), NEW r, NEW p, PiDevMade(d, l, r, p),
         Changed(d, l, {"pidevs", "handoffs", "requests", "queue"}),
         NEW v, NEW c, Linked(d, v, c), Staged(v), Served(d, v), v.path["request"] # r
  PROVE  Served(l, v)
<1>1. d["requests"] \in Seq(RequestStates) /\ d["handoffs"] \in [DOMAIN d["handoffs"] -> HandoffStates]
      BY DEF FilesOK
<1>2. \A x \in DOMAIN d["requests"] \ {r} : l["requests"][x] = d["requests"][x]
      BY <1>1 DEF PiDevMade
<1>3. DOMAIN l["handoffs"] = DOMAIN d["handoffs"] /\ \A x \in DOMAIN d["handoffs"] \ {r} : l["handoffs"][x] = d["handoffs"][x]
      BY <1>1 DEF PiDevMade
<1>4. /\ DOMAIN l["pidevs"] = DOMAIN d["pidevs"] \cup {p} /\ l["pidevs"][p].request = r
      /\ \A q \in DOMAIN d["pidevs"] : l["pidevs"][q] = d["pidevs"][q]
      BY PiDevMadeFacts
<1>5. v.status = "requested_execution" => l["requests"][v.path["request"]] = "requested"
      BY <1>2 DEF Served, Staged, Linked
<1>6. v.status = "handed_off" =>
        IF v.path["pidev"] = None THEN l["handoffs"][v.path["handoff"]] = "handed_off"
        ELSE l["pidevs"][v.path["pidev"]].status = "requested"
      BY <1>3, <1>4 DEF Served, Staged, Linked
<1>7. \A q \in DOMAIN l["pidevs"] : l["pidevs"][q].request = v.path["request"] => v.path["pidev"] = q
      BY <1>4 DEF Served
<1>8. v.status = "pi_dev_bundled" => v.path["pidev"] # None /\ l["pidevs"][v.path["pidev"]].status = "bundled"
      BY <1>4 DEF Served, Linked
<1>9. l["nextActions"] = d["nextActions"]
      BY DEF Changed, FileNames
<1> QED
    BY <1>3, <1>5, <1>6, <1>7, <1>8, <1>9 DEF Served

\* And with the task that has it, everything is fine.
LEMMA PiDevFine ==
  ASSUME NEW d, NEW l, NEW c, NEW r, NEW p, NEW i, NEW u, NEW t,
         Fine(d, c), PiDevMade(d, l, r, p), Changed(d, l, {"pidevs", "handoffs", "requests", "queue"}),
         i \in DOMAIN d["queue"], u = d["queue"][i], u.path["request"] = r, u.path["pidev"] = None,
         Moved(u, t, u.status, {"pidev"}, {}), t.path["pidev"] = p, l["queue"] = [d["queue"] EXCEPT ![i] = t]
  PROVE  Fine(l, c) /\ Grown(d, l) /\ Cross(d, l)
<1>1. /\ FilesOK(d) /\ Apart(d) /\ DOMAIN d = FileNames /\ d["queue"] \in Seq(Tasks)
      /\ \A j \in DOMAIN d["queue"] : d["queue"][j] \in Tasks /\ TaskFine(d, d["queue"][j], c)
      BY Known
<1>2. t \in Tasks /\ l["queue"] \in Seq(Tasks)
  <2>1. t \in Tasks
        BY DEF Moved
  <2> QED
      BY <1>1, <2>1
<1>3. FilesOK(l) /\ Grown(d, l) /\ Cross(d, l)
      BY <1>1, <1>2, PiDevFiles
<1>4. u \in Tasks /\ Linked(d, u, c) /\ Staged(u) /\ (~c => Served(d, u))
      BY <1>1 DEF TaskFine
<1>5. /\ t.key = u.key /\ t.status = u.status /\ t.path["request"] = r /\ t.path["handoff"] = u.path["handoff"]
      /\ t.path["bundle"] = u.path["bundle"]
      /\ t.path["dispatch"] = u.path["dispatch"] /\ t.path["delegated"] = u.path["delegated"]
      /\ t.path["incident"] = u.path["incident"] /\ t.path["redispatch"] = u.path["redispatch"]
      /\ t.path["assignment"] = u.path["assignment"] /\ t.at["delegated"] = u.at["delegated"]
      /\ t.at["dispatched"] = u.at["dispatched"] /\ l["nextActions"] = d["nextActions"]
      BY DEF Moved, Paths, Times, Changed, FileNames
<1>6. /\ r # None /\ p # None /\ p \notin DOMAIN d["pidevs"] /\ r \in DOMAIN d["handoffs"]
      /\ DOMAIN l["pidevs"] = DOMAIN d["pidevs"] \cup {p}
      /\ l["pidevs"][p].request = r /\ l["pidevs"][p].status = "requested"
      /\ \A q \in DOMAIN d["pidevs"] : l["pidevs"][q] = d["pidevs"][q]
  <2>1. r \in DOMAIN d["handoffs"]
        BY DEF PiDevMade
  <2> QED
      BY <1>1, <2>1, PiDevMadeFacts, NoneAssumption
<1>7. TaskFine(l, t, c)
  <2>1. Staged(t)
        BY <1>4, <1>5, <1>6 DEF Staged
  <2>2. Linked(l, t, c)
    <3>1. Linked(l, u, c)
          BY <1>1, <1>3, <1>4, LinkedStays
    <3>2. t.path["pidev"] \in DOMAIN l["pidevs"] /\ l["pidevs"][t.path["pidev"]].request = t.path["request"]
          BY <1>5, <1>6
    <3> QED
        BY <1>5, <3>1, <3>2 DEF Linked
  <2>3. ASSUME ~c PROVE Served(l, t)
    <3>1. u.path["handoff"] # None /\ u.status \notin {"requested_execution", "pi_dev_bundled"}
          BY <1>4, <1>6, <2>3 DEF Served
    <3>2. \A q \in DOMAIN d["pidevs"] : q # None
      <4>1. d["pidevs"] \in Seq(PiDevs)
            BY <1>1 DEF FilesOK
      <4> QED
          BY <4>1, NoneAssumption
    <3>3. \A q \in DOMAIN l["pidevs"] : l["pidevs"][q].request = r => t.path["pidev"] = q
          BY <1>4, <1>6, <2>3, <3>2 DEF Served
    <3> QED
        BY <1>4, <1>5, <1>6, <2>3, <3>1, <3>3 DEF Served
  <2> QED
      BY <2>1, <2>2, <2>3 DEF TaskFine
<1>8. ASSUME NEW j \in DOMAIN d["queue"] \ {i} PROVE Aside(l, t, d["queue"][j]) /\ (~c => Served(l, d["queue"][j]))
  <2>1. SUFFICES ASSUME NEW v, v = d["queue"][j] PROVE Aside(l, t, v) /\ (~c => Served(l, v))
        OBVIOUS
  <2>2. Linked(d, v, c) /\ Staged(v) /\ (~c => Served(d, v))
        BY <1>1, <2>1 DEF TaskFine
  <2>3. Aside(d, u, v)
        BY <2>1, AsideKnown
  <2>4. v.path["request"] # r /\ v.path["pidev"] # p
        BY <1>6, <2>2, <2>3 DEF Aside, Own, Linked
  <2>5. Aside(l, t, v)
    <3>1. l["assignments"] = d["assignments"]
          BY DEF Changed, FileNames
    <3> QED
        BY <2>3, <2>4, <3>1, AsideStays DEF Own
  <2>6. ASSUME ~c PROVE Served(l, v)
        BY <1>1, <2>2, <2>4, <2>6, PiDevOthers
  <2> QED
      BY <2>5, <2>6
<1>9. Fine(l, c)
      BY <1>3, <1>7, <1>8, OneTask
<1> QED
    BY <1>3, <1>9

\* A handoff without a task.
LEMMA PiDevAlone ==
  ASSUME NEW d, NEW l, NEW c, NEW r, NEW p,
         Fine(d, c), PiDevMade(d, l, r, p), Changed(d, l, {"pidevs", "handoffs", "requests", "queue"}),
         \A i \in DOMAIN d["queue"] : d["queue"][i].path["request"] # r, l["queue"] = d["queue"]
  PROVE  Fine(l, c) /\ Grown(d, l) /\ Cross(d, l)
<1>1. /\ FilesOK(d) /\ d["queue"] \in Seq(Tasks)
      /\ \A j \in DOMAIN d["queue"] : d["queue"][j] \in Tasks /\ TaskFine(d, d["queue"][j], c)
      BY Known
<1>2. FilesOK(l) /\ Grown(d, l) /\ Cross(d, l)
      BY <1>1, PiDevFiles
<1>3. ASSUME ~c, NEW j \in DOMAIN d["queue"] PROVE Served(l, d["queue"][j])
      BY <1>1, <1>3, PiDevOthers DEF TaskFine
<1> QED
    BY <1>2, <1>3, NoTask

\* The Pi Dev request q of a task goes on: its status changes, what it came from does not.
PiDevOn(d, l, q, status) ==
  /\ q \in DOMAIN d["pidevs"] /\ l["pidevs"] \in Seq(PiDevs) /\ DOMAIN l["pidevs"] = DOMAIN d["pidevs"]
  /\ \A x \in DOMAIN d["pidevs"] : l["pidevs"][x].request = d["pidevs"][x].request
  /\ l["pidevs"][q].status = status /\ \A x \in DOMAIN d["pidevs"] \ {q} : l["pidevs"][x] = d["pidevs"][x]

\* A Pi Dev request that goes on: the files are as they should be.
LEMMA OnFiles ==
  ASSUME NEW d, NEW l, FilesOK(d), NEW q, NEW status, PiDevOn(d, l, q, status),
         Changed(d, l, {"bundles", "dispatches", "pidevs", "queue"}), l["queue"] \in Seq(Tasks),
         d["bundles"] \subseteq l["bundles"], l["dispatches"] \in Nat, d["dispatches"] <= l["dispatches"]
  PROVE  FilesOK(l) /\ Grown(d, l) /\ Cross(d, l)
<1>1. /\ DOMAIN d["handoffs"] \subseteq DOMAIN d["requests"]
      /\ \A x \in DOMAIN d["pidevs"] : d["pidevs"][x].request \in DOMAIN d["handoffs"]
      /\ d["delegated"] \in Nat /\ d["redispatches"] \in Nat
      /\ \A a \in DOMAIN d["assignments"] : d["assignments"][a].redispatch <= d["redispatches"]
      BY DEF FilesOK
<1>2. /\ l = [f \in FileNames |-> l[f]] /\ l["snapshot"] = d["snapshot"] /\ l["projects"] = d["projects"]
      /\ l["gaps"] = d["gaps"] /\ l["requests"] = d["requests"] /\ l["handoffs"] = d["handoffs"]
      /\ l["delegated"] = d["delegated"]
      /\ l["incidents"] = d["incidents"] /\ l["nextActions"] = d["nextActions"]
      /\ l["redispatches"] = d["redispatches"] /\ l["assignments"] = d["assignments"]
      BY DEF Changed, FileNames
<1>3. /\ l["pidevs"] \in Seq(PiDevs) /\ DOMAIN l["pidevs"] = DOMAIN d["pidevs"]
      /\ \A x \in DOMAIN d["pidevs"] : l["pidevs"][x].request = d["pidevs"][x].request
      BY DEF PiDevOn
<1>4. FilesOK(l)
      BY <1>1, <1>2, <1>3 DEF FilesOK
<1>5. d["delegated"] <= l["delegated"] /\ d["redispatches"] <= l["redispatches"]
      BY <1>1, <1>2
<1>6. Grown(d, l)
      BY <1>2, <1>3, <1>5 DEF Grown
<1>7. Cross(d, l)
      BY <1>1, <1>2, <1>3 DEF Cross
<1> QED
    BY <1>4, <1>6, <1>7

\* A task that does not name that Pi Dev request is served as before.
LEMMA OnOthers ==
  ASSUME NEW d, NEW l, FilesOK(d), NEW q, NEW status, PiDevOn(d, l, q, status),
         Changed(d, l, {"bundles", "dispatches", "pidevs", "queue"}),
         NEW v, NEW c, Linked(d, v, c), Staged(v), Served(d, v), v.path["pidev"] # q
  PROVE  Served(l, v)
<1>1. l["requests"] = d["requests"] /\ l["handoffs"] = d["handoffs"] /\ l["nextActions"] = d["nextActions"]
      BY DEF Changed, FileNames
<1>2. \A x \in DOMAIN d["pidevs"] : x = v.path["pidev"] => l["pidevs"][x] = d["pidevs"][x]
      BY DEF PiDevOn
<1>3. \A x \in DOMAIN l["pidevs"] : l["pidevs"][x].request = v.path["request"] => v.path["pidev"] = x
      BY DEF PiDevOn, Served
<1> QED
    BY <1>1, <1>2, <1>3 DEF Served, Linked

\* consume_pi_dev_bundles.py: with the task that names the bundle, everything is fine.
LEMMA BundleFine ==
  ASSUME NEW d, NEW l, NEW c, NEW q, NEW b, NEW i, NEW u, NEW t,
         Fine(d, c), PiDevOn(d, l, q, "bundled"), Changed(d, l, {"bundles", "pidevs", "queue"}),
         l["bundles"] = d["bundles"] \cup {b}, i \in DOMAIN d["queue"], u = d["queue"][i],
         u.status \in {"handed_off", "pi_dev_bundled"},
         u.path["pidev"] = q \/ u.path["request"] = d["pidevs"][q].request,
         b = IF u.path["bundle"] # None THEN u.path["bundle"] ELSE q,
         Moved(u, t, "pi_dev_bundled", {"bundle"}, {}), t.path["bundle"] = b,
         l["queue"] = [d["queue"] EXCEPT ![i] = t]
  PROVE  Fine(l, c) /\ Grown(d, l) /\ Cross(d, l)
<1>1. /\ FilesOK(d) /\ Apart(d) /\ DOMAIN d = FileNames /\ d["queue"] \in Seq(Tasks)
      /\ \A j \in DOMAIN d["queue"] : d["queue"][j] \in Tasks /\ TaskFine(d, d["queue"][j], c)
      BY Known
<1>2. t \in Tasks /\ l["queue"] \in Seq(Tasks)
  <2>1. t \in Tasks
        BY DEF Moved
  <2> QED
      BY <1>1, <2>1
<1>3. Changed(d, l, {"bundles", "dispatches", "pidevs", "queue"}) /\ l["dispatches"] = d["dispatches"]
      BY DEF Changed, FileNames
<1>4. FilesOK(l) /\ Grown(d, l) /\ Cross(d, l)
  <2>1. d["dispatches"] \in Nat
        BY <1>1 DEF FilesOK
  <2>2. l["dispatches"] \in Nat /\ d["dispatches"] <= l["dispatches"] /\ d["bundles"] \subseteq l["bundles"]
        BY <1>3, <2>1
  <2> QED
      BY <1>1, <1>2, <1>3, <2>2, OnFiles
<1>5. u \in Tasks /\ Linked(d, u, c) /\ Staged(u) /\ (~c => Served(d, u))
      BY <1>1 DEF TaskFine
<1>6. /\ t.key = u.key /\ t.status = "pi_dev_bundled" /\ t.path["request"] = u.path["request"]
      /\ t.path["handoff"] = u.path["handoff"] /\ t.path["pidev"] = u.path["pidev"]
      /\ t.path["dispatch"] = u.path["dispatch"] /\ t.path["delegated"] = u.path["delegated"]
      /\ t.path["incident"] = u.path["incident"] /\ t.path["redispatch"] = u.path["redispatch"]
      /\ t.path["assignment"] = u.path["assignment"] /\ t.at["delegated"] = u.at["delegated"]
      BY DEF Moved, Paths, Times
<1>7. q \in DOMAIN d["pidevs"] /\ q # None
  <2>1. q \in DOMAIN d["pidevs"] /\ d["pidevs"] \in Seq(PiDevs)
        BY <1>1 DEF FilesOK, PiDevOn
  <2> QED
      BY <2>1, NoneAssumption
<1>8. ~c => u.path["pidev"] = q
      BY <1>5, <1>7 DEF Served
<1>9. TaskFine(l, t, c)
  <2>1. Staged(t)
        BY <1>5, <1>6 DEF Staged
  <2>2. Linked(l, t, c)
    <3>1. Linked(l, u, c)
          BY <1>1, <1>4, <1>5, LinkedStays
    <3>2. /\ b \in DOMAIN l["pidevs"] /\ b \in l["bundles"]
          /\ (c /\ u.path["redispatch"] # None) \/ l["pidevs"][b].request = u.path["request"]
      <4>1. CASE u.path["bundle"] # None
        <5>1. b = u.path["bundle"]
              BY <4>1
        <5> QED
            BY <3>1, <4>1, <5>1 DEF Linked
      <4>2. CASE u.path["bundle"] = None
        <5>1. b = q
              BY <4>2
        <5>2. q \in DOMAIN l["pidevs"] /\ q \in l["bundles"] /\ l["pidevs"][q].request = d["pidevs"][q].request
              BY <1>7, <5>1 DEF PiDevOn
        <5>3. u.path["pidev"] = q => (c /\ u.path["redispatch"] # None) \/ d["pidevs"][q].request = u.path["request"]
              BY <1>5, <1>7 DEF Linked
        <5> QED
            BY <5>1, <5>2, <5>3
      <4> QED
          BY <4>1, <4>2
    <3> QED
        BY <1>6, <3>1, <3>2 DEF Linked
  <2>3. ASSUME ~c PROVE Served(l, t)
    <3>1. Served(d, u) /\ u.path["dispatch"] = None /\ u.path["pidev"] = q
          BY <1>5, <1>8, <2>3 DEF Served
    <3>2. l["requests"] = d["requests"] /\ l["handoffs"] = d["handoffs"]
          BY DEF Changed, FileNames
    <3>3. \A x \in DOMAIN l["pidevs"] : l["pidevs"][x].request = u.path["request"] => u.path["pidev"] = x
          BY <3>1 DEF Served, PiDevOn
    <3>4. l["pidevs"][q].status = "bundled"
          BY DEF PiDevOn
    <3> QED
        BY <1>6, <1>7, <3>1, <3>2, <3>3, <3>4 DEF Served
  <2> QED
      BY <2>1, <2>2, <2>3 DEF TaskFine
<1>10. ASSUME NEW j \in DOMAIN d["queue"] \ {i} PROVE Aside(l, t, d["queue"][j]) /\ (~c => Served(l, d["queue"][j]))
  <2>1. SUFFICES ASSUME NEW v, v = d["queue"][j] PROVE Aside(l, t, v) /\ (~c => Served(l, v))
        OBVIOUS
  <2>2. Linked(d, v, c) /\ Staged(v) /\ (~c => Served(d, v))
        BY <1>1, <2>1 DEF TaskFine
  <2>3. Aside(d, u, v)
        BY <2>1, AsideKnown
  <2>4. Aside(l, t, v)
    <3>1. l["assignments"] = d["assignments"]
          BY DEF Changed, FileNames
    <3> QED
        BY <2>3, <3>1, AsideStays DEF Own
  <2>5. ASSUME ~c PROVE Served(l, v)
    <3>1. v.path["pidev"] # q
          BY <1>7, <1>8, <2>3, <2>5 DEF Aside, Own
    <3> QED
        BY <1>1, <1>3, <2>2, <2>5, <3>1, OnOthers
  <2> QED
      BY <2>4, <2>5
<1>11. Fine(l, c)
       BY <1>4, <1>9, <1>10, OneTask
<1> QED
    BY <1>4, <1>11

\* consume_pi_dev_dispatches.py: with the task that names the dispatch, everything is fine.
LEMMA PiDevDispatchFine ==
  ASSUME NEW d, NEW l, NEW c, NEW q, NEW n, NEW i, NEW u, NEW t,
         Fine(d, c), PiDevOn(d, l, q, "pi_dev_dispatch_ready"), n = d["dispatches"] + 1,
         Changed(d, l, {"dispatches", "pidevs", "queue"}), l["dispatches"] = n, i \in DOMAIN d["queue"],
         u = d["queue"][i], u.status = "pi_dev_bundled", u.path["dispatch"] = None,
         u.path["pidev"] = q \/ u.path["request"] = d["pidevs"][q].request,
         Moved(u, t, "pi_dev_dispatch_ready", {"dispatch"}, {}), t.path["dispatch"] = n,
         l["queue"] = [d["queue"] EXCEPT ![i] = t]
  PROVE  Fine(l, c) /\ Grown(d, l) /\ Cross(d, l)
<1>1. /\ FilesOK(d) /\ Apart(d) /\ DOMAIN d = FileNames /\ d["queue"] \in Seq(Tasks)
      /\ \A j \in DOMAIN d["queue"] : d["queue"][j] \in Tasks /\ TaskFine(d, d["queue"][j], c)
      BY Known
<1>2. t \in Tasks /\ l["queue"] \in Seq(Tasks)
  <2>1. t \in Tasks
        BY DEF Moved
  <2> QED
      BY <1>1, <2>1
<1>3. Changed(d, l, {"bundles", "dispatches", "pidevs", "queue"}) /\ l["bundles"] = d["bundles"]
      BY DEF Changed, FileNames
<1>4. d["dispatches"] \in Nat
      BY <1>1 DEF FilesOK
<1>5. FilesOK(l) /\ Grown(d, l) /\ Cross(d, l)
  <2>1. l["dispatches"] \in Nat /\ d["dispatches"] <= l["dispatches"] /\ d["bundles"] \subseteq l["bundles"]
        BY <1>3, <1>4
  <2> QED
      BY <1>1, <1>2, <1>3, <2>1, OnFiles
<1>6. u \in Tasks /\ Linked(d, u, c) /\ Staged(u) /\ (~c => Served(d, u))
      BY <1>1 DEF TaskFine
<1>7. /\ t.key = u.key /\ t.status = "pi_dev_dispatch_ready" /\ t.path["request"] = u.path["request"]
      /\ t.path["handoff"] = u.path["handoff"] /\ t.path["pidev"] = u.path["pidev"]
      /\ t.path["bundle"] = u.path["bundle"] /\ t.path["delegated"] = u.path["delegated"]
      /\ t.path["incident"] = u.path["incident"] /\ t.path["redispatch"] = u.path["redispatch"]
      /\ t.path["assignment"] = u.path["assignment"] /\ t.at["delegated"] = u.at["delegated"]
      BY DEF Moved, Paths, Times
<1>8. q \in DOMAIN d["pidevs"] /\ q # None
  <2>1. q \in DOMAIN d["pidevs"] /\ d["pidevs"] \in Seq(PiDevs)
        BY <1>1 DEF FilesOK, PiDevOn
  <2> QED
      BY <2>1, NoneAssumption
<1>9. ~c => u.path["pidev"] = q
      BY <1>6, <1>8 DEF Served
<1>10. n \in Nat /\ n # None /\ n \in 1..n /\ \A x \in 1..d["dispatches"] : x # n
       BY <1>4, NoneAssumption
<1>11. TaskFine(l, t, c)
  <2>1. Staged(t)
        BY <1>6, <1>7 DEF Staged
  <2>2. Linked(l, t, c)
    <3>1. Linked(l, u, c)
          BY <1>1, <1>5, <1>6, LinkedStays
    <3>2. t.path["dispatch"] \in 1..l["dispatches"]
          BY <1>10
    <3> QED
        BY <1>7, <3>1, <3>2 DEF Linked
  <2>3. ASSUME ~c PROVE Served(l, t)
    <3>1. Served(d, u) /\ u.path["delegated"] = None
          BY <1>6, <2>3 DEF Served, Staged
    <3>2. l["requests"] = d["requests"] /\ l["handoffs"] = d["handoffs"]
          BY DEF Changed, FileNames
    <3>3. \A x \in DOMAIN l["pidevs"] : l["pidevs"][x].request = u.path["request"] => u.path["pidev"] = x
          BY <3>1 DEF Served, PiDevOn
    <3>4. u.at["delegated"] = None \/ u.path["assignment"] # None
          BY <1>6, <3>1 DEF Staged
    <3> QED
        BY <1>7, <3>1, <3>2, <3>3, <3>4 DEF Served
  <2> QED
      BY <2>1, <2>2, <2>3 DEF TaskFine
<1>12. ASSUME NEW j \in DOMAIN d["queue"] \ {i} PROVE Aside(l, t, d["queue"][j]) /\ (~c => Served(l, d["queue"][j]))
  <2>1. SUFFICES ASSUME NEW v, v = d["queue"][j] PROVE Aside(l, t, v) /\ (~c => Served(l, v))
        OBVIOUS
  <2>2. Linked(d, v, c) /\ Staged(v) /\ (~c => Served(d, v))
        BY <1>1, <2>1 DEF TaskFine
  <2>3. Aside(d, u, v)
        BY <2>1, AsideKnown
  <2>4. v.path["dispatch"] # n
        BY <1>10, <2>2 DEF Linked
  <2>5. Aside(l, t, v)
    <3>1. l["assignments"] = d["assignments"]
          BY DEF Changed, FileNames
    <3> QED
        BY <2>3, <2>4, <3>1, AsideStays DEF Own
  <2>6. ASSUME ~c PROVE Served(l, v)
    <3>1. v.path["pidev"] # q
          BY <1>8, <1>9, <2>3, <2>6 DEF Aside, Own
    <3> QED
        BY <1>1, <1>3, <2>2, <2>6, <3>1, OnOthers
  <2> QED
      BY <2>5, <2>6
<1>13. Fine(l, c)
       BY <1>5, <1>11, <1>12, OneTask
<1> QED
    BY <1>5, <1>13

-------------------------------------------------------------------------------
(* The scripts that leave requests, handoffs and Pi Dev requests alone *)

\* The files that the other scripts write.
Rest == {"queue", "snapshot", "projects", "dispatched", "gaps", "delegated", "incidents", "nextActions",
         "redispatches", "assignments"}

\* They only grow.
RestGrown(d, l) ==
  /\ Changed(d, l, Rest)
  /\ \A e \in l["snapshot"] : e.start \in Stamp
  /\ l["projects"] \in [Projects -> ProjectStates] /\ l["gaps"] \in 0..MaxGaps
  /\ l["delegated"] \in Nat /\ d["delegated"] <= l["delegated"]
  /\ d["incidents"] \subseteq l["incidents"]
  /\ \A na \in l["nextActions"] : na.key \in AllKeys /\ na.start \in Stamp /\ NameOf(na) \in l["incidents"]
  /\ \A x \in d["nextActions"] : \E na \in l["nextActions"] : NameOf(na) = NameOf(x)
  /\ l["redispatches"] \in Nat /\ d["redispatches"] <= l["redispatches"]
  /\ l["assignments"] \in Seq(Assignments) /\ DOMAIN d["assignments"] \subseteq DOMAIN l["assignments"]
  /\ \A a \in DOMAIN d["assignments"] : l["assignments"][a] = d["assignments"][a]
  /\ \A a \in DOMAIN l["assignments"] : l["assignments"][a].redispatch <= d["redispatches"]

\* These scripts leave the files as they should be.
LEMMA RestFiles ==
  ASSUME NEW d, NEW l, FilesOK(d), RestGrown(d, l), l["queue"] \in Seq(Tasks)
  PROVE  FilesOK(l) /\ Grown(d, l) /\ Cross(d, l)
<1>1. /\ DOMAIN d["handoffs"] \subseteq DOMAIN d["requests"]
      /\ \A q \in DOMAIN d["pidevs"] : d["pidevs"][q].request \in DOMAIN d["handoffs"]
      /\ d["dispatches"] \in Nat /\ d["redispatches"] \in Nat
      BY DEF FilesOK
<1>2. /\ l = [f \in FileNames |-> l[f]] /\ l["requests"] = d["requests"] /\ l["handoffs"] = d["handoffs"]
      /\ l["pidevs"] = d["pidevs"] /\ l["bundles"] = d["bundles"] /\ l["dispatches"] = d["dispatches"]
      BY DEF RestGrown, Changed, FileNames, Rest
<1>3. d["dispatches"] <= l["dispatches"]
      BY <1>1, <1>2
<1>4. Grown(d, l)
      BY <1>2, <1>3 DEF Grown, RestGrown
<1>5. Cross(d, l)
      BY <1>1, <1>2 DEF Cross, RestGrown
<1>6. \A a \in DOMAIN l["assignments"] : l["assignments"][a].redispatch <= l["redispatches"]
  <2>1. ASSUME NEW a \in DOMAIN l["assignments"] PROVE l["assignments"][a].redispatch <= l["redispatches"]
    <3>1. l["assignments"][a].redispatch \in Nat /\ l["assignments"][a].redispatch <= d["redispatches"]
          BY Elements DEF RestGrown
    <3>2. l["redispatches"] \in Nat /\ d["redispatches"] <= l["redispatches"]
          BY DEF RestGrown
    <3>3. ASSUME NEW x \in Nat, NEW y \in Nat, NEW z \in Nat, x <= y, y <= z PROVE x <= z
          BY <3>3
    <3> QED
        BY <1>1, <3>1, <3>2, <3>3
  <2> QED
      BY <2>1
<1>7. FilesOK(l)
      BY <1>1, <1>2, <1>6 DEF FilesOK, RestGrown
<1> QED
    BY <1>4, <1>5, <1>7

\* And a task that was served before is served now.
LEMMA RestServed ==
  ASSUME NEW d, NEW l, RestGrown(d, l), NEW v, Served(d, v)
  PROVE  Served(l, v)
<1>1. l["requests"] = d["requests"] /\ l["handoffs"] = d["handoffs"] /\ l["pidevs"] = d["pidevs"]
      BY DEF RestGrown, Changed, FileNames, Rest
<1>2. v.status = "stale_blocked" => \E na \in l["nextActions"] : NameOf(na) = v.path["incident"]
      BY DEF RestGrown, Served
<1> QED
    BY <1>1, <1>2 DEF Served

\* A task that is at work, blocked, queued again or completed, and what else it refers to.
RestMoved(u, t) ==
  /\ t \in Tasks /\ t.key = u.key /\ t.status \in {"queued", "in_progress", "stale_blocked", "completed"}
  /\ \A f \in {"request", "handoff", "pidev", "bundle", "dispatch"} : t.path[f] = u.path[f]

\* What such a script makes a task refer to is there.
RestLinked(l, u, t) ==
  /\ t.path["delegated"] # None => t.path["delegated"] \in 1..l["delegated"]
  /\ t.path["redispatch"] # None => t.path["redispatch"] \in 1..l["redispatches"]
  /\ u.path["redispatch"] # None => t.path["redispatch"] # None
  /\ t.path["incident"] # None => t.path["incident"] \in l["incidents"]
  /\ t.path["assignment"] # None =>
       t.path["assignment"] \in DOMAIN l["assignments"] /\ l["assignments"][t.path["assignment"]].key = t.key
  /\ t.status = "stale_blocked" => \E na \in l["nextActions"] : NameOf(na) = t.path["incident"]

\* One task is replaced by such a script.
LEMMA RestTask ==
  ASSUME NEW d, NEW l, NEW c, Fine(d, c), RestGrown(d, l), NEW i \in DOMAIN d["queue"], NEW u, u = d["queue"][i],
         NEW t, RestMoved(u, t), l["queue"] = [d["queue"] EXCEPT ![i] = t], Staged(t), RestLinked(l, u, t),
         \A j \in DOMAIN d["queue"] \ {i} : Aside(l, t, d["queue"][j])
  PROVE  Fine(l, c) /\ Grown(d, l) /\ Cross(d, l)
<1>1. /\ FilesOK(d) /\ Apart(d) /\ DOMAIN d = FileNames /\ d["queue"] \in Seq(Tasks)
      /\ \A j \in DOMAIN d["queue"] : d["queue"][j] \in Tasks /\ TaskFine(d, d["queue"][j], c)
      BY Known
<1>2. t \in Tasks /\ l["queue"] \in Seq(Tasks)
  <2>1. t \in Tasks
        BY DEF RestMoved
  <2> QED
      BY <1>1, <2>1
<1>3. FilesOK(l) /\ Grown(d, l) /\ Cross(d, l)
      BY <1>1, <1>2, RestFiles
<1>4. u \in Tasks /\ Linked(d, u, c) /\ Staged(u) /\ (~c => Served(d, u))
      BY <1>1 DEF TaskFine
<1>5. /\ t.key = u.key /\ t.status \in {"queued", "in_progress", "stale_blocked", "completed"} /\ t.path["request"] = u.path["request"]
      /\ t.path["handoff"] = u.path["handoff"] /\ t.path["pidev"] = u.path["pidev"]
      /\ t.path["bundle"] = u.path["bundle"] /\ t.path["dispatch"] = u.path["dispatch"]
      BY DEF RestMoved
<1>6. TaskFine(l, t, c)
  <2>1. Linked(l, t, c)
    <3>1. Linked(l, u, c)
          BY <1>1, <1>3, <1>4, LinkedStays
    <3> QED
        BY <1>5, <3>1 DEF Linked, RestLinked
  <2>2. ASSUME ~c PROVE Served(l, t)
    <3>1. Served(l, u)
          BY <1>4, <2>2, RestServed
    <3> QED
        BY <1>5, <3>1 DEF Served, RestLinked
  <2> QED
      BY <2>1, <2>2 DEF TaskFine
<1>7. ASSUME NEW j \in DOMAIN d["queue"] \ {i}, ~c PROVE Served(l, d["queue"][j])
  <2>1. Served(d, d["queue"][j])
        BY <1>1, <1>7 DEF TaskFine
  <2> QED
      BY <2>1, RestServed
<1>8. Fine(l, c)
      BY <1>3, <1>6, <1>7, OneTask
<1> QED
    BY <1>3, <1>8

\* No task is touched.
LEMMA RestAlone ==
  ASSUME NEW d, NEW l, NEW c,
         Fine(d, c), RestGrown(d, l), l["queue"] = d["queue"]
  PROVE  Fine(l, c) /\ Grown(d, l) /\ Cross(d, l)
<1>1. /\ FilesOK(d) /\ d["queue"] \in Seq(Tasks)
      /\ \A j \in DOMAIN d["queue"] : d["queue"][j] \in Tasks /\ TaskFine(d, d["queue"][j], c)
      BY Known
<1>2. FilesOK(l) /\ Grown(d, l) /\ Cross(d, l)
      BY <1>1, RestFiles
<1>3. ASSUME ~c, NEW j \in DOMAIN d["queue"] PROVE Served(l, d["queue"][j])
      BY <1>1, <1>3, RestServed DEF TaskFine
<1> QED
    BY <1>2, <1>3, NoTask

\* The times of a snapshot are stamps.
LEMMA StartedStamp ==
  ASSUME NEW at, at \in [Times -> Stamp] PROVE Started(at) \in Stamp
<1> QED
    BY DEF Started, Times

\* The snapshot of a queue of tasks holds times.
LEMMA SnapshotStamps ==
  ASSUME NEW tasks \in Seq(Tasks)
  PROVE  \A e \in Snapshot(tasks) : e.start \in Stamp
<1>2. \A i \in DOMAIN tasks : tasks[i].at \in [Times -> Stamp]
      BY Elements DEF Tasks
<1>3. \A i \in DOMAIN tasks : [tasks[i].at EXCEPT !["created"] = None] \in [Times -> Stamp]
      BY <1>2 DEF Stamp
<1>4. \A i \in DOMAIN tasks : Started([tasks[i].at EXCEPT !["created"] = None]) \in Stamp
      BY <1>3, StartedStamp
<1>5. ASSUME NEW e \in Snapshot(tasks) PROVE e.start \in Stamp
  <2>1. \E open : e \in {[place |-> Cardinality({j \in open : j <= i}), key |-> tasks[i].key,
                         state |-> Classified(tasks[i].status),
                         start |-> Started([tasks[i].at EXCEPT !["created"] = None])] : i \in open}
                   /\ open = {i \in DOMAIN tasks : tasks[i].status # "completed"}
        BY <1>5, Zenon DEF Snapshot
  <2>2. PICK open : e \in {[place |-> Cardinality({j \in open : j <= i}), key |-> tasks[i].key,
                         state |-> Classified(tasks[i].status),
                         start |-> Started([tasks[i].at EXCEPT !["created"] = None])] : i \in open}
                   /\ open = {i \in DOMAIN tasks : tasks[i].status # "completed"}
        BY <2>1
  <2>3. PICK i \in open : e = [place |-> Cardinality({j \in open : j <= i}), key |-> tasks[i].key,
                              state |-> Classified(tasks[i].status),
                              start |-> Started([tasks[i].at EXCEPT !["created"] = None])]
        BY <2>2, Zenon
  <2>4. i \in DOMAIN tasks
        BY <2>2
  <2>5. e.start = Started([tasks[i].at EXCEPT !["created"] = None])
        BY <2>3, Zenon
  <2> QED
      BY <1>4, <2>4, <2>5
<1> QED
    BY <1>5

\* What was there.
LEMMA RestSame ==
  ASSUME NEW d, FilesOK(d) PROVE RestGrown(d, d)
<1>1. /\ d["delegated"] \in Nat /\ d["redispatches"] \in Nat
      /\ d = [f \in FileNames |-> d[f]]
      BY DEF FilesOK
<1>2. d["delegated"] <= d["delegated"] /\ d["redispatches"] <= d["redispatches"]
      BY <1>1
<1> QED
    BY <1>1, <1>2 DEF RestGrown, Changed, FilesOK

\* consume_execution_queue.py: a dispatched task has no file yet, or was redispatched.
LEMMA DispatchFine ==
  ASSUME NEW d, NEW l, NEW c, NEW i, NEW u, NEW t,
         Fine(d, c), i \in DOMAIN d["queue"], u = d["queue"][i], u.status = "queued",
         Changed(d, l, {"queue", "snapshot", "projects", "dispatched"}),
         \A e \in l["snapshot"] : e.start \in Stamp, l["projects"] \in [Projects -> ProjectStates],
         Moved(u, t, "in_progress", {}, {"dispatched"}), t.at["dispatched"] # None,
         l["queue"] = [d["queue"] EXCEPT ![i] = t]
  PROVE  Fine(l, c) /\ Grown(d, l) /\ Cross(d, l)
<1>1. FilesOK(d) /\ u \in Tasks /\ TaskFine(d, u, c)
      BY Known
<1>2. /\ Changed(d, l, Rest) /\ l["gaps"] = d["gaps"] /\ l["delegated"] = d["delegated"]
      /\ l["incidents"] = d["incidents"] /\ l["nextActions"] = d["nextActions"]
      /\ l["redispatches"] = d["redispatches"] /\ l["assignments"] = d["assignments"]
      BY DEF Changed, Rest, FileNames
<1>3. RestGrown(d, l)
      BY <1>1, <1>2, RestSame DEF RestGrown
<1>4. /\ t.key = u.key /\ t.status = "in_progress" /\ t.at["delegated"] = u.at["delegated"]
      /\ \A f \in Paths : t.path[f] = u.path[f]
      BY DEF Moved, Times
<1>5. Staged(t)
      BY <1>1, <1>4 DEF TaskFine, Staged, Paths
<1>6. ASSUME NEW j \in DOMAIN d["queue"] \ {i} PROVE Aside(l, t, d["queue"][j])
  <2>1. Aside(d, u, d["queue"][j])
        BY AsideKnown
  <2> QED
      BY <1>2, <2>1, AsideStays
<1>7. RestLinked(l, u, t)
      BY <1>1, <1>2, <1>4 DEF TaskFine, Linked, Paths, RestLinked
<1>8. RestMoved(u, t)
      BY DEF Moved, RestMoved, Paths
<1> QED
    BY <1>3, <1>5, <1>6, <1>7, <1>8, RestTask

\* consume_delegated_executor_requests.py: the delegation is of the task alone.
LEMMA DelegateFine ==
  ASSUME NEW d, NEW l, NEW c, NEW i, NEW u, NEW n, NEW t,
         Fine(d, c), i \in DOMAIN d["queue"], u = d["queue"][i], u.status = "pi_dev_dispatch_ready",
         u.path["dispatch"] # None, Changed(d, l, {"delegated", "queue"}), n = d["delegated"] + 1,
         l["delegated"] = n, Moved(u, t, "in_progress", {"delegated"}, {"delegated"}),
         t.path["delegated"] = n, t.at["delegated"] # None, l["queue"] = [d["queue"] EXCEPT ![i] = t]
  PROVE  Fine(l, c) /\ Grown(d, l) /\ Cross(d, l)
<1>1. FilesOK(d) /\ u \in Tasks /\ TaskFine(d, u, c)
      /\ \A j \in DOMAIN d["queue"] : TaskFine(d, d["queue"][j], c)
      BY Known
<1>2. /\ Changed(d, l, Rest) /\ l["gaps"] = d["gaps"] /\ l["snapshot"] = d["snapshot"]
      /\ l["projects"] = d["projects"]
      /\ l["incidents"] = d["incidents"] /\ l["nextActions"] = d["nextActions"]
      /\ l["redispatches"] = d["redispatches"] /\ l["assignments"] = d["assignments"]
      BY DEF Changed, Rest, FileNames
<1>3. /\ n \in Nat /\ d["delegated"] <= n /\ n # None /\ n \in 1..n
      /\ \A x \in 1..d["delegated"] : x # n
  <2>1. d["delegated"] \in Nat
        BY <1>1 DEF FilesOK
  <2> QED
      BY <2>1, NoneAssumption
<1>4. RestGrown(d, l)
      BY <1>1, <1>2, <1>3, RestSame DEF RestGrown
<1>5. /\ t.key = u.key /\ t.status = "in_progress" /\ t.path["delegated"] = n
      /\ \A f \in Paths \ {"delegated"} : t.path[f] = u.path[f]
      BY DEF Moved
<1>6. Staged(t)
      BY <1>1, <1>3, <1>5 DEF TaskFine, Staged, Paths
<1>7. ASSUME NEW j \in DOMAIN d["queue"] \ {i} PROVE Aside(l, t, d["queue"][j])
  <2>1. SUFFICES ASSUME NEW v, v = d["queue"][j] PROVE Aside(l, t, v)
        OBVIOUS
  <2>2. Aside(d, u, v)
        BY <2>1, AsideKnown
  <2>3. v.path["delegated"] # n
        BY <1>1, <1>3, <2>1 DEF TaskFine, Linked
  <2> QED
      BY <1>2, <1>5, <2>2, <2>3 DEF Aside, Own, Paths
<1>8. RestLinked(l, u, t)
      BY <1>1, <1>2, <1>3, <1>5 DEF TaskFine, Linked, Paths, RestLinked
<1>9. RestMoved(u, t)
      BY DEF Moved, RestMoved, Paths
<1> QED
    BY <1>4, <1>6, <1>7, <1>8, <1>9, RestTask

\* consume_stale_execution_incidents.py: the incident is there when the task names it.
LEMMA StaleFine ==
  ASSUME NEW d, NEW l, NEW c, NEW i, NEW u, NEW na, NEW t,
         Fine(d, c), i \in DOMAIN d["queue"], u = d["queue"][i],
         Changed(d, l, {"incidents", "nextActions", "queue", "snapshot"}),
         \A e \in l["snapshot"] : e.start \in Stamp, na.key \in AllKeys, na.start \in Stamp,
         l["incidents"] = d["incidents"] \cup {NameOf(na)},
         l["nextActions"] = {f \in d["nextActions"] : NameOf(f) # NameOf(na)} \cup {na},
         Moved(u, t, "stale_blocked", {"incident"}, {}), t.path["incident"] = NameOf(na),
         l["queue"] = [d["queue"] EXCEPT ![i] = t]
  PROVE  Fine(l, c) /\ Grown(d, l) /\ Cross(d, l)
<1>1. FilesOK(d) /\ u \in Tasks /\ TaskFine(d, u, c)
      BY Known
<1>2. /\ Changed(d, l, Rest) /\ l["gaps"] = d["gaps"] /\ l["projects"] = d["projects"]
      /\ l["delegated"] = d["delegated"]
      /\ l["redispatches"] = d["redispatches"] /\ l["assignments"] = d["assignments"]
      BY DEF Changed, Rest, FileNames
<1>3. \A x \in l["nextActions"] : x.key \in AllKeys /\ x.start \in Stamp /\ NameOf(x) \in l["incidents"]
      BY <1>1 DEF FilesOK
<1>4. RestGrown(d, l)
  <2>1. \A x \in d["nextActions"] : \E y \in l["nextActions"] : NameOf(y) = NameOf(x)
        OBVIOUS
  <2> QED
      BY <1>1, <1>2, <1>3, <2>1, RestSame DEF RestGrown
<1>5. /\ t.key = u.key /\ t.status = "stale_blocked" /\ t.at["delegated"] = u.at["delegated"]
      /\ \A f \in Paths \ {"incident"} : t.path[f] = u.path[f]
      BY DEF Moved, Times
<1>6. Staged(t)
      BY <1>1, <1>5 DEF TaskFine, Staged, Paths
<1>7. ASSUME NEW j \in DOMAIN d["queue"] \ {i} PROVE Aside(l, t, d["queue"][j])
  <2>1. Aside(d, u, d["queue"][j])
        BY AsideKnown
  <2> QED
      BY <1>2, <1>5, <2>1 DEF Aside, Own, Paths
<1>8. RestLinked(l, u, t)
      BY <1>1, <1>2, <1>5 DEF TaskFine, Linked, Paths, RestLinked
<1>9. RestMoved(u, t)
      BY DEF Moved, RestMoved, Paths
<1> QED
    BY <1>4, <1>6, <1>7, <1>8, <1>9, RestTask

\* consume_stale_execution_next_actions.py: the number of the redispatch is new.
LEMMA RedispatchFine ==
  ASSUME NEW d, NEW l, NEW c, NEW i, NEW u, NEW n, NEW t,
         Fine(d, c), i \in DOMAIN d["queue"], u = d["queue"][i],
         Changed(d, l, {"redispatches", "queue", "snapshot"}), \A e \in l["snapshot"] : e.start \in Stamp,
         n = d["redispatches"] + 1, l["redispatches"] = n,
         Moved(u, t, "queued", {"redispatch", "source", "incident"}, {}), t.path["redispatch"] = n,
         t.path["incident"] \in d["incidents"], l["queue"] = [d["queue"] EXCEPT ![i] = t]
  PROVE  Fine(l, c) /\ Grown(d, l) /\ Cross(d, l)
<1>1. FilesOK(d) /\ u \in Tasks /\ TaskFine(d, u, c)
      /\ \A j \in DOMAIN d["queue"] : TaskFine(d, d["queue"][j], c)
      BY Known
<1>2. /\ Changed(d, l, Rest) /\ l["gaps"] = d["gaps"] /\ l["projects"] = d["projects"]
      /\ l["delegated"] = d["delegated"] /\ l["incidents"] = d["incidents"]
      /\ l["nextActions"] = d["nextActions"] /\ l["assignments"] = d["assignments"]
      BY DEF Changed, Rest, FileNames
<1>3. /\ n \in Nat /\ d["redispatches"] <= n /\ n # None /\ n \in 1..n
      /\ \A x \in 1..d["redispatches"] : x # n
      /\ \A x \in Nat : x <= d["redispatches"] => x # n
  <2>1. d["redispatches"] \in Nat
        BY <1>1 DEF FilesOK
  <2> QED
      BY <2>1, NoneAssumption
<1>4. RestGrown(d, l)
      BY <1>1, <1>2, <1>3, RestSame DEF RestGrown
<1>5. /\ t.key = u.key /\ t.status = "queued" /\ t.path["redispatch"] = n /\ t.at["delegated"] = u.at["delegated"]
      /\ \A f \in Paths \ {"redispatch", "source", "incident"} : t.path[f] = u.path[f]
      BY DEF Moved, Times
<1>6. Staged(t)
      BY <1>1, <1>3, <1>5 DEF TaskFine, Staged, Paths
<1>7. \A a \in DOMAIN d["assignments"] : d["assignments"][a].redispatch # n
  <2>1. d["assignments"] \in Seq(Assignments)
        /\ \A a \in DOMAIN d["assignments"] : d["assignments"][a].redispatch <= d["redispatches"]
        BY <1>1 DEF FilesOK
  <2> QED
      BY <1>3, <2>1, Elements
<1>8. ASSUME NEW j \in DOMAIN d["queue"] \ {i} PROVE Aside(l, t, d["queue"][j])
  <2>1. SUFFICES ASSUME NEW v, v = d["queue"][j] PROVE Aside(l, t, v)
        OBVIOUS
  <2>2. Aside(d, u, v)
        BY <2>1, AsideKnown
  <2>3. v.path["redispatch"] # n /\ (v.path["assignment"] # None => v.path["assignment"] \in DOMAIN d["assignments"])
        BY <1>1, <1>3, <2>1 DEF TaskFine, Linked
  <2> QED
      BY <1>2, <1>5, <1>7, <2>2, <2>3 DEF Aside, Own, Paths
<1>9. RestLinked(l, u, t)
      BY <1>1, <1>2, <1>3, <1>5 DEF TaskFine, Linked, Paths, RestLinked
<1>10. RestMoved(u, t)
       BY DEF Moved, RestMoved, Paths
<1> QED
    BY <1>4, <1>6, <1>8, <1>9, <1>10, RestTask

\* The assignment of a task is its own: the one it names, or one of its redispatch.
LEMMA AssignFine ==
  ASSUME NEW d, NEW l, NEW c, NEW i, NEW u, NEW id, NEW t,
         Fine(d, c), i \in DOMAIN d["queue"], u = d["queue"][i], u.path["redispatch"] # None, RestGrown(d, l),
         Changed(d, l, {"assignments", "queue", "snapshot"}), id \in DOMAIN l["assignments"],
         l["assignments"][id].key = u.key,
         u.path["assignment"] = id \/ l["assignments"][id].redispatch = u.path["redispatch"],
         Moved(u, t, "in_progress", {"assignment"}, {"delegated"}), t.path["assignment"] = id,
         t.at["delegated"] # None, l["queue"] = [d["queue"] EXCEPT ![i] = t]
  PROVE  Fine(l, c) /\ Grown(d, l) /\ Cross(d, l)
<1>1. FilesOK(d) /\ u \in Tasks /\ TaskFine(d, u, c)
      /\ \A j \in DOMAIN d["queue"] : TaskFine(d, d["queue"][j], c)
      BY Known
<1>2. /\ l["delegated"] = d["delegated"] /\ l["incidents"] = d["incidents"]
      /\ l["redispatches"] = d["redispatches"]
      BY DEF Changed, FileNames
<1>3. id # None
  <2>1. l["assignments"] \in Seq(Assignments)
        BY DEF RestGrown
  <2> QED
      BY <2>1, NoneAssumption
<1>4. /\ t.key = u.key /\ t.status = "in_progress" /\ t.path["assignment"] = id
      /\ \A f \in Paths \ {"assignment"} : t.path[f] = u.path[f]
      BY DEF Moved
<1>5. Staged(t)
  <2>1. /\ t.path["request"] = u.path["request"] /\ t.path["handoff"] = u.path["handoff"]
        /\ t.path["pidev"] = u.path["pidev"] /\ t.path["bundle"] = u.path["bundle"]
        /\ t.path["dispatch"] = u.path["dispatch"] /\ t.path["delegated"] = u.path["delegated"]
        /\ t.path["redispatch"] = u.path["redispatch"]
        BY <1>4 DEF Paths
  <2>2. Staged(u)
        BY <1>1 DEF TaskFine
  <2> QED
      BY <1>3, <1>4, <2>1, <2>2 DEF Staged
<1>6. /\ DOMAIN d["assignments"] \subseteq DOMAIN l["assignments"]
      /\ \A a \in DOMAIN d["assignments"] : l["assignments"][a] = d["assignments"][a]
      BY DEF RestGrown
<1>7. ASSUME NEW j \in DOMAIN d["queue"] \ {i} PROVE Aside(l, t, d["queue"][j])
  <2>1. SUFFICES ASSUME NEW v, v = d["queue"][j] PROVE Aside(l, t, v)
        OBVIOUS
  <2>2. Aside(d, u, v)
        BY <2>1, AsideKnown
  <2>3. /\ v.path["assignment"] # None => v.path["assignment"] \in DOMAIN d["assignments"]
        /\ u.path["assignment"] # None => u.path["assignment"] \in DOMAIN d["assignments"]
        BY <1>1, <2>1 DEF TaskFine, Linked
  <2>4. v.path["assignment"] # id
        BY <1>3, <1>6, <2>2, <2>3 DEF Aside, Own
  <2>5. l["assignments"][id].redispatch # v.path["redispatch"]
        BY <1>3, <1>6, <2>2, <2>3 DEF Aside, Own
  <2>6. v.path["assignment"] # None => l["assignments"][v.path["assignment"]].redispatch # t.path["redispatch"]
        BY <1>4, <1>6, <2>2, <2>3 DEF Aside, Paths
  <2> QED
      BY <1>4, <2>2, <2>4, <2>5, <2>6 DEF Aside, Own, Paths
<1>8. RestLinked(l, u, t)
      BY <1>1, <1>2, <1>3, <1>4 DEF TaskFine, Linked, Paths, RestLinked
<1>9. RestMoved(u, t)
      BY DEF Moved, RestMoved, Paths
<1> QED
    BY <1>5, <1>7, <1>8, <1>9, RestTask

\* A task without files.
Blank(t) == t.status = "queued" /\ t.at["delegated"] = None /\ \A f \in Paths : t.path[f] = None

\* The tasks of the queue in another order, some of them left out, and new ones.
LEMMA Reordered ==
  ASSUME NEW d, NEW l, NEW c, NEW o,
         Fine(d, c), Changed(d, l, {"queue"}), l["queue"] \in Seq(Tasks),
         \A m, n \in DOMAIN l["queue"] : o[m] = o[n] => m = n,
         \A m \in DOMAIN l["queue"] :
           (o[m] \in DOMAIN d["queue"] /\ l["queue"][m] = d["queue"][o[m]]) \/ Blank(l["queue"][m])
  PROVE  Fine(l, c) /\ Grown(d, l) /\ Cross(d, l)
<1>1. FilesOK(d) /\ \A j \in DOMAIN d["queue"] : d["queue"][j] \in Tasks /\ TaskFine(d, d["queue"][j], c)
      BY Known
<1>2. /\ Changed(d, l, Rest) /\ l["gaps"] = d["gaps"] /\ l["snapshot"] = d["snapshot"]
      /\ l["projects"] = d["projects"] /\ l["delegated"] = d["delegated"]
      /\ l["incidents"] = d["incidents"] /\ l["nextActions"] = d["nextActions"]
      /\ l["redispatches"] = d["redispatches"] /\ l["assignments"] = d["assignments"]
      BY DEF Changed, Rest, FileNames
<1>3. RestGrown(d, l)
      BY <1>1, <1>2, RestSame DEF RestGrown
<1>4. FilesOK(l) /\ Grown(d, l) /\ Cross(d, l)
      BY <1>1, <1>3, RestFiles
<1>5. ASSUME NEW j \in DOMAIN d["queue"] PROVE TaskFine(l, d["queue"][j], c)
  <2>1. Linked(l, d["queue"][j], c)
        BY <1>1, <1>4, LinkedStays DEF TaskFine
  <2>2. ~c => Served(l, d["queue"][j])
        BY <1>1, <1>3, RestServed DEF TaskFine
  <2> QED
      BY <1>1, <2>1, <2>2 DEF TaskFine
<1>6. ASSUME NEW t, Blank(t) PROVE TaskFine(l, t, c)
  <2>1. Linked(l, t, c) /\ Staged(t)
        BY <1>6 DEF Blank, Linked, Staged, Paths
  <2>2. None \notin DOMAIN l["handoffs"] /\ \A q \in DOMAIN l["pidevs"] : l["pidevs"][q].request # None
    <3>1. /\ l["requests"] \in Seq(RequestStates) /\ DOMAIN l["handoffs"] \subseteq DOMAIN l["requests"]
          /\ \A q \in DOMAIN l["pidevs"] : l["pidevs"][q].request \in DOMAIN l["handoffs"]
          BY <1>4 DEF FilesOK
    <3> QED
        BY <3>1, NoneAssumption
  <2>3. Served(l, t)
        BY <1>6, <2>2 DEF Blank, Served, Paths
  <2> QED
      BY <2>1, <2>3 DEF TaskFine
<1>7. \A m \in DOMAIN l["queue"] : TaskFine(l, l["queue"][m], c)
      BY <1>5, <1>6
<1>8. ASSUME NEW m \in DOMAIN l["queue"], NEW n \in DOMAIN l["queue"], m # n
      PROVE  Aside(l, l["queue"][m], l["queue"][n])
  <2>1. SUFFICES ASSUME NEW t, t = l["queue"][m], NEW v, v = l["queue"][n] PROVE Aside(l, t, v)
        OBVIOUS
  <2>2. Linked(l, t, c) /\ Linked(l, v, c)
        BY <1>7, <2>1 DEF TaskFine
  <2>3. \A a \in DOMAIN l["assignments"] : l["assignments"][a].redispatch # None
    <3>1. l["assignments"] \in Seq(Assignments)
          BY <1>4 DEF FilesOK
    <3> QED
        BY <3>1, Elements, NoneAssumption
  <2>4. CASE Blank(t) \/ Blank(v)
        BY <2>2, <2>3, <2>4 DEF Blank, Aside, Own, Paths, Linked
  <2>5. CASE ~Blank(t) /\ ~Blank(v)
    <3>1. /\ o[m] \in DOMAIN d["queue"] /\ t = d["queue"][o[m]] /\ o[n] \in DOMAIN d["queue"]
          /\ v = d["queue"][o[n]] /\ o[m] # o[n]
          BY <1>8, <2>1, <2>5
    <3>2. Aside(d, t, v)
          BY <3>1, AsideKnown
    <3> QED
        BY <1>2, <3>2 DEF Aside
  <2> QED
      BY <2>4, <2>5
<1>9. Apart(l)
      BY <1>8 DEF Apart, Aside
<1> QED
    BY <1>4, <1>7, <1>9 DEF Fine

\* enqueue_active_remediation.py: a task without files in front of the others.
LEMMA EnqueueFine ==
  ASSUME NEW d, NEW l, NEW c, NEW t,
         Fine(d, c), Changed(d, l, {"queue"}), t \in Tasks, Blank(t), l["queue"] = <<t>> \o d["queue"]
  PROVE  Fine(l, c) /\ Grown(d, l) /\ Cross(d, l)
<1>1. d["queue"] \in Seq(Tasks)
      BY Known
<1>2. l["queue"] \in Seq(Tasks)
      BY <1>1
<1>3. /\ DOMAIN l["queue"] = 1..Len(d["queue"]) + 1 /\ l["queue"][1] = t
      /\ \A j \in 2..Len(d["queue"]) + 1 : l["queue"][j] = d["queue"][j - 1] /\ j - 1 \in DOMAIN d["queue"]
      BY <1>1
<1>4. PICK o : o = [j \in 1..Len(d["queue"]) + 1 |-> j - 1]
      OBVIOUS
<1>5. /\ \A m, n \in DOMAIN l["queue"] : o[m] = o[n] => m = n
      /\ \A m \in DOMAIN l["queue"] :
           \/ o[m] \in DOMAIN d["queue"] /\ l["queue"][m] = d["queue"][o[m]]
           \/ Blank(l["queue"][m])
  <2>1. Len(d["queue"]) \in Nat
        BY <1>1
  <2>2. ASSUME NEW m \in DOMAIN l["queue"], NEW n \in DOMAIN l["queue"], o[m] = o[n] PROVE m = n
        BY <1>3, <1>4, <2>1, <2>2
  <2>3. ASSUME NEW m \in DOMAIN l["queue"], m # 1
        PROVE  o[m] \in DOMAIN d["queue"] /\ l["queue"][m] = d["queue"][o[m]]
        BY <1>3, <1>4, <2>1, <2>3
  <2> QED
      BY <1>3, <2>2, <2>3
<1> QED
    BY <1>2, <1>5, Reordered

-------------------------------------------------------------------------------
(* A completion recorded by hand *)

\* The files when an operator has completed the task.
Completed(d, i) ==
  [f \in FileNames |->
     IF f = "queue" THEN [d["queue"] EXCEPT ![i] = [d["queue"][i] EXCEPT !.status = "completed", !.state = "completed"]]
     ELSE d[f]]

\* A completed task names what it named, and needs no consumer.
LEMMA CompletedFine ==
  ASSUME NEW d, NEW c, Fine(d, c), NEW i \in DOMAIN d["queue"]
  PROVE  Fine(Completed(d, i), c)
<1>1. SUFFICES ASSUME NEW l, l = Completed(d, i), NEW u, u = d["queue"][i],
                      NEW t, t = [u EXCEPT !.status = "completed", !.state = "completed"]
               PROVE  Fine(l, c)
      OBVIOUS
<1>2. FilesOK(d) /\ u \in Tasks /\ TaskFine(d, u, c)
      BY <1>1, Known
<1>3. Changed(d, l, {"queue"}) /\ l["queue"] = [d["queue"] EXCEPT ![i] = t]
      BY <1>1 DEF Completed, Changed, FileNames
<1>4. /\ Changed(d, l, Rest) /\ l["gaps"] = d["gaps"] /\ l["snapshot"] = d["snapshot"]
      /\ l["projects"] = d["projects"] /\ l["delegated"] = d["delegated"]
      /\ l["incidents"] = d["incidents"] /\ l["nextActions"] = d["nextActions"]
      /\ l["redispatches"] = d["redispatches"] /\ l["assignments"] = d["assignments"]
      BY <1>3 DEF Changed, Rest, FileNames
<1>5. RestGrown(d, l)
      BY <1>2, <1>4, RestSame DEF RestGrown
<1>6. t.key = u.key /\ t.status = "completed" /\ t.at = u.at /\ t.path = u.path
      BY <1>1, <1>2 DEF Tasks
<1>7. t \in Tasks
      BY <1>1, <1>2 DEF Tasks, Statuses, States
<1>8. RestMoved(u, t)
      BY <1>6, <1>7 DEF RestMoved
<1>9. Staged(t)
      BY <1>2, <1>6 DEF TaskFine, Staged
<1>10. ASSUME NEW j \in DOMAIN d["queue"] \ {i} PROVE Aside(l, t, d["queue"][j])
  <2>1. Aside(d, u, d["queue"][j])
        BY <1>1, AsideKnown
  <2> QED
      BY <1>4, <1>6, <2>1 DEF Aside
<1>11. RestLinked(l, u, t)
       BY <1>2, <1>4, <1>6 DEF TaskFine, Linked, RestLinked
<1> QED
    BY <1>1, <1>3, <1>5, <1>8, <1>9, <1>10, <1>11, RestTask

\* And the running script, whose writes do not know of the completion, stays good.
LEMMA CompleteFine ==
  ASSUME IInv, NEW i \in DOMAIN queue, Complete(i)
  PROVE  IInv'
<1> USE DEF queue
<1>1. Fine(disk, crashes > 0) /\ JobOK(job) /\ DOMAIN disk = FileNames
      BY DEF IInv, Fine, FilesOK
<1>2. disk' = Completed(disk, i)
      BY <1>1 DEF Complete, Completed, FileNames, IInv, Fine, FilesOK
<1>3. Fine(disk', crashes > 0)
      BY <1>1, <1>2, CompletedFine
<1>4. DOMAIN disk' = FileNames /\ \A f \in FileNames \ {"queue"} : disk'[f] = disk[f]
      BY <1>2 DEF Completed
<1>5. ASSUME NEW n, NEW c, Fine(After(job, n), c) PROVE Fine(After(job, n)', c)
  <2>1. SUFFICES ASSUME NEW a, a = After(job, n), NEW b, b = After(job, n)' PROVE Fine(b, c)
        OBVIOUS
  <2>2. job' = job
        BY DEF Complete
  <2>3. /\ a = [f \in FileNames |->
                  IF \A m \in 1..n : job[m].file # f THEN disk[f]
                  ELSE job[CHOOSE m \in 1..n : job[m].file = f].value]
        /\ b = [f \in FileNames |->
                  IF \A m \in 1..n : job[m].file # f THEN disk'[f]
                  ELSE job[CHOOSE m \in 1..n : job[m].file = f].value]
        BY <1>1, <1>4, <2>1, <2>2 DEF After
  <2>4. CASE \A m \in 1..n : job[m].file # "queue"
    <3>1. a["queue"] = disk["queue"] /\ b["queue"] = disk'["queue"]
          BY <2>3, <2>4 DEF FileNames
    <3>2. \A f \in FileNames \ {"queue"} : b[f] = a[f]
          BY <1>4, <2>3
    <3>3. b = [f \in FileNames |-> b[f]]
          BY <2>3
    <3>4. disk'["queue"] = [disk["queue"] EXCEPT ![i] =
                              [disk["queue"][i] EXCEPT !.status = "completed", !.state = "completed"]]
          BY <1>2 DEF Completed, FileNames
    <3>5. b = Completed(a, i)
          BY <3>1, <3>2, <3>3, <3>4 DEF Completed
    <3> QED
        BY <1>5, <2>1, <3>1, <3>5, CompletedFine
  <2>5. CASE ~ \A m \in 1..n : job[m].file # "queue"
    <3>1. b = a
          BY <1>4, <2>3, <2>5
    <3> QED
        BY <1>5, <2>1, <3>1
  <2> QED
      BY <2>4, <2>5
<1>6. job' = job /\ crashes' = crashes /\ now' = now /\ adds' = adds
      BY DEF Complete
<1>7. JobOK(job)'
  <2>1. \A n \in 0..Len(job) : Fine(After(job, n)', TRUE)
        BY <1>1, <1>5 DEF JobOK
  <2>2. Fine(After(job, Len(job))', crashes' > 0)
        BY <1>1, <1>5, <1>6 DEF JobOK
  <2>3. /\ Len(job) \in Nat /\ DOMAIN job = 1..Len(job)
        /\ \A m, n \in DOMAIN job : job[m].file = job[n].file => m = n
        BY <1>1 DEF JobOK
  <2> QED
      BY <1>6, <2>1, <2>2, <2>3, Zenon DEF JobOK
<1> QED
    BY <1>3, <1>6, <1>7 DEF IInv, Counters

-------------------------------------------------------------------------------
(* What each script writes *)

\* One write and two more.
LEMMA JoinedThree == \A v, w, x : <<v>> \o <<w, x>> = <<v, w, x>>
<1>1. SUFFICES ASSUME NEW v, NEW w, NEW x PROVE <<v>> \o <<w, x>> = <<v, w, x>>
      OBVIOUS
<1>2. PICK S : S = {v, w, x}
      OBVIOUS
<1>3. <<v>> \in Seq(S) /\ <<w, x>> \in Seq(S) /\ <<v, w, x>> \in Seq(S)
      BY <1>2
<1>4. <<v>> \o <<w, x>> \in Seq(S)
      BY <1>3
<1>5. Len(<<v>> \o <<w, x>>) = 3 /\ Len(<<v>>) = 1 /\ Len(<<w, x>>) = 2 /\ Len(<<v, w, x>>) = 3
      BY <1>3
<1>6. \A i \in 1..3 : (<<v>> \o <<w, x>>)[i] = <<v, w, x>>[i]
      BY <1>3, <1>5, ConcatProperties
<1> QED
    BY <1>3, <1>4, <1>5, <1>6, SeqEqual

\* Two writes and two more.
LEMMA JoinedTwo == \A v, w, x, y : <<v, w>> \o <<x, y>> = <<v, w, x, y>>
<1>1. SUFFICES ASSUME NEW v, NEW w, NEW x, NEW y PROVE <<v, w>> \o <<x, y>> = <<v, w, x, y>>
      OBVIOUS
<1>2. PICK S : S = {v, w, x, y}
      OBVIOUS
<1>3. <<v, w>> \in Seq(S) /\ <<x, y>> \in Seq(S) /\ <<v, w, x, y>> \in Seq(S)
      BY <1>2
<1>4. <<v, w>> \o <<x, y>> \in Seq(S)
      BY <1>3
<1>5. Len(<<v, w>> \o <<x, y>>) = 4 /\ Len(<<v, w>>) = 2 /\ Len(<<x, y>>) = 2 /\ Len(<<v, w, x, y>>) = 4
      BY <1>3
<1>6. \A i \in 1..4 : (<<v, w>> \o <<x, y>>)[i] = <<v, w, x, y>>[i]
      BY <1>3, <1>5, ConcatProperties
<1> QED
    BY <1>3, <1>4, <1>5, <1>6, SeqEqual

\* Three writes and one more.
LEMMA JoinedFour == \A v, w, x, y : <<v, w, x>> \o <<y>> = <<v, w, x, y>>
<1>1. SUFFICES ASSUME NEW v, NEW w, NEW x, NEW y PROVE <<v, w, x>> \o <<y>> = <<v, w, x, y>>
      OBVIOUS
<1>2. PICK S : S = {v, w, x, y}
      OBVIOUS
<1>3. <<v, w, x>> \in Seq(S) /\ <<y>> \in Seq(S) /\ <<v, w, x, y>> \in Seq(S)
      BY <1>2
<1>4. <<v, w, x>> \o <<y>> \in Seq(S)
      BY <1>3
<1>5. Len(<<v, w, x>> \o <<y>>) = 4 /\ Len(<<v, w, x>>) = 3 /\ Len(<<y>>) = 1 /\ Len(<<v, w, x, y>>) = 4
      BY <1>3
<1>6. \A i \in 1..4 : (<<v, w, x>> \o <<y>>)[i] = <<v, w, x, y>>[i]
      BY <1>3, <1>5, ConcatProperties
<1> QED
    BY <1>3, <1>4, <1>5, <1>6, SeqEqual

\* The writes of a consumer and the queue.
LEMMA Joined ==
  ASSUME NEW v, NEW w, NEW x, NEW y
  PROVE  /\ <<v>> \o <<w>> = <<v, w>> /\ <<v, w>> \o <<x>> = <<v, w, x>>
         /\ <<v, w, x>> \o <<y>> = <<v, w, x, y>> /\ <<v>> \o <<w, x>> = <<v, w, x>>
         /\ <<v, w>> \o <<x, y>> = <<v, w, x, y>>
<1>1. PICK S : v \in S /\ w \in S /\ x \in S /\ y \in S
  <2>1. v \in {v, w, x, y} /\ w \in {v, w, x, y} /\ x \in {v, w, x, y} /\ y \in {v, w, x, y}
        OBVIOUS
  <2> QED
      BY <2>1
<1>2. <<v>> \o <<w>> = <<v, w>>
  <2>1. <<v>> \in Seq(S) /\ <<w>> \in Seq(S) /\ <<v, w>> \in Seq(S)
        BY <1>1
  <2>2. <<v>> \o <<w>> \in Seq(S)
        BY <2>1
  <2>3. Len(<<v>> \o <<w>>) = 2 /\ Len(<<v>>) = 1 /\ Len(<<w>>) = 1 /\ Len(<<v, w>>) = 2
        BY <2>1
  <2>4. \A i \in 1..2 : (<<v>> \o <<w>>)[i] = <<v, w>>[i]
        BY <2>1, <2>3, ConcatProperties
  <2> QED
      BY <2>1, <2>2, <2>3, <2>4, SeqEqual
<1>3. <<v, w>> \o <<x>> = <<v, w, x>>
  <2>1. <<v, w>> \in Seq(S) /\ <<x>> \in Seq(S) /\ <<v, w, x>> \in Seq(S)
        BY <1>1
  <2>2. <<v, w>> \o <<x>> \in Seq(S)
        BY <2>1
  <2>3. Len(<<v, w>> \o <<x>>) = 3 /\ Len(<<v, w>>) = 2 /\ Len(<<x>>) = 1 /\ Len(<<v, w, x>>) = 3
        BY <2>1
  <2>4. \A i \in 1..3 : (<<v, w>> \o <<x>>)[i] = <<v, w, x>>[i]
        BY <2>1, <2>3, ConcatProperties
  <2> QED
      BY <2>1, <2>2, <2>3, <2>4, SeqEqual
<1>4. <<v, w, x>> \o <<y>> = <<v, w, x, y>>
  <2>1. <<v, w, x>> \in Seq(S) /\ <<y>> \in Seq(S) /\ <<v, w, x, y>> \in Seq(S)
        BY <1>1
  <2>2. <<v, w, x>> \o <<y>> \in Seq(S)
        BY <2>1
  <2>3. Len(<<v, w, x>> \o <<y>>) = 4 /\ Len(<<v, w, x>>) = 3 /\ Len(<<y>>) = 1 /\ Len(<<v, w, x, y>>) = 4
        BY <2>1
  <2>4. \A i \in 1..4 : (<<v, w, x>> \o <<y>>)[i] = <<v, w, x, y>>[i]
        BY <2>1, <2>3, ConcatProperties
  <2> QED
      BY <2>1, <2>2, <2>3, <2>4, SeqEqual
<1>5. <<v>> \o <<w, x>> = <<v, w, x>>
  <2>1. <<v>> \in Seq(S) /\ <<w, x>> \in Seq(S) /\ <<v, w, x>> \in Seq(S)
        BY <1>1
  <2>2. <<v>> \o <<w, x>> \in Seq(S)
        BY <2>1
  <2>3. Len(<<v>> \o <<w, x>>) = 3 /\ Len(<<v>>) = 1 /\ Len(<<w, x>>) = 2 /\ Len(<<v, w, x>>) = 3
        BY <2>1
  <2>4. \A i \in 1..3 : (<<v>> \o <<w, x>>)[i] = <<v, w, x>>[i]
        BY <2>1, <2>3, ConcatProperties
  <2> QED
      BY <2>1, <2>2, <2>3, <2>4, SeqEqual
<1>6. <<v, w>> \o <<x, y>> = <<v, w, x, y>>
  <2>1. <<v, w>> \in Seq(S) /\ <<x, y>> \in Seq(S) /\ <<v, w, x, y>> \in Seq(S)
        BY <1>1
  <2>2. <<v, w>> \o <<x, y>> \in Seq(S)
        BY <2>1
  <2>3. Len(<<v, w>> \o <<x, y>>) = 4 /\ Len(<<v, w>>) = 2 /\ Len(<<x, y>>) = 2 /\ Len(<<v, w, x, y>>) = 4
        BY <2>1
  <2>4. \A i \in 1..4 : (<<v, w>> \o <<x, y>>)[i] = <<v, w, x, y>>[i]
        BY <2>1, <2>3, ConcatProperties
  <2> QED
      BY <2>1, <2>2, <2>3, <2>4, SeqEqual
<1> QED
    BY <1>2, <1>3, <1>4, <1>5, <1>6

\* The writes of RequestHead are good.
LEMMA RequestHeadGood ==
  ASSUME NEW c, Fine(disk, c), now \in Stamp,
         queue # <<>>, queue[1].status = "in_progress", queue[1].path["handoff"] = None,
         NEW s, s = Handed({1}, "requested_execution", {"requested"}, [request |-> Len(disk.requests) + 1],
                           <<Put("requests", Append(disk.requests, "requested"))>>)
  PROVE  Good(s, c)
<1> USE DEF queue
<1>1. SUFFICES ASSUME NEW d, d = disk, NEW l, l = After(s, Len(s)), NEW n, n = Len(d["requests"]) + 1,
                      NEW k, k = 1, NEW u, u = d["queue"][k], NEW p, p = [request |-> n],
                      NEW t, t = Step(u, "requested_execution", {"requested"}, p)
               PROVE  Good(s, c)
      OBVIOUS
<1>2. /\ FilesOK(d) /\ DOMAIN d = FileNames /\ d["queue"] \in Seq(Tasks)
      /\ k \in DOMAIN d["queue"] /\ u \in Tasks
  <2>1. /\ FilesOK(d) /\ DOMAIN d = FileNames /\ d["queue"] \in Seq(Tasks)
        /\ \A i \in DOMAIN d["queue"] : d["queue"][i] \in Tasks
        BY <1>1, Known
  <2>2. d["queue"] # <<>>
        BY <1>1
  <2> QED
      BY <1>1, <2>1, <2>2
<1>3. n \in Nat
  <2>1. d["requests"] \in Seq(RequestStates)
        BY <1>2 DEF FilesOK
  <2> QED
      BY <1>1, <2>1
<1>4. s = <<Put("requests", Append(d["requests"], "requested")), Put("queue", [d["queue"] EXCEPT ![k] = t])>>
  <2>1. Updated({k}, "requested_execution", {"requested"}, p) = [d["queue"] EXCEPT ![k] = t]
    <3>1. d["queue"] = disk.queue /\ "requested_execution" # "kept"
          /\ t = Step(d["queue"][k], "requested_execution", {"requested"}, p)
          BY <1>1
    <3>2. Updated({k}, "requested_execution", {"requested"}, p)
            = [d["queue"] EXCEPT ![k] = Step(d["queue"][k], "requested_execution", {"requested"}, p)]
          BY <1>2, <3>1 DEF Updated
    <3> QED
        BY <3>1, <3>2
  <2>2. s = <<Put("requests", Append(d["requests"], "requested"))>>
            \o <<Put("queue", Updated({k}, "requested_execution", {"requested"}, p))>>
        BY <1>1, Zenon DEF Handed
  <2> QED
      BY <2>1, <2>2, Joined
<1>5. /\ JobShape(s) /\ Ordered(s) /\ Changed(d, l, {"requests", "queue"})
      /\ l["requests"] = Append(d["requests"], "requested") /\ l["queue"] = [d["queue"] EXCEPT ![k] = t]
  <2>1. "requests" \in FileNames /\ "queue" \in FileNames
        BY DEF FileNames
  <2>2. DOMAIN disk = FileNames /\ "requests" # "queue" /\ "requests" # "nextActions" /\ "queue" # "nextActions"
        BY <1>1, <1>2
  <2>3. Left2(s, l, "requests", Append(d["requests"], "requested"), "queue", [d["queue"] EXCEPT ![k] = t])
        BY <1>1, <1>4, <2>1, <2>2, Job2
  <2> QED
      BY <1>1, <2>3 DEF Left2
<1>6. Moved(u, t, "requested_execution", {"request"}, {"requested"}) /\ t.path["request"] = n
  <2>1. DOMAIN p = {"request"} /\ p["request"] = n
        BY <1>1
  <2>2. "requested_execution" \in Statuses /\ "request" \in Paths
        BY DEF Statuses, Paths
  <2>3. /\ t \in Tasks /\ t.key = u.key /\ t.status = "requested_execution"
        /\ \A x \in Times : t.at[x] = IF x \in {"requested"} THEN now ELSE u.at[x]
        /\ \A f \in Paths : t.path[f] = IF f \in DOMAIN p THEN p[f] ELSE u.path[f]
        BY <1>1, <1>2, <1>3, <2>1, <2>2, StepTask
  <2> QED
      BY <2>1, <2>2, <2>3 DEF Moved
<1>7. Fine(l, c) /\ Grown(d, l) /\ Cross(d, l)
  <2>1. u.status = "in_progress" /\ u.path["handoff"] = None /\ Fine(d, c)
        BY <1>1
  <2>2. u = d["queue"][k] /\ n = Len(d["requests"]) + 1 /\ k \in DOMAIN d["queue"]
        BY <1>1, <1>2
  <2> QED
      BY <1>5, <1>6, <2>1, <2>2, RequestFine, ZenonT(30)
<1> QED
    BY <1>1, <1>5, <1>7 DEF Good

\* The queue with one task handed on.
Single(at, i) == at = {i}
\* One task of the queue is replaced.
Replaced(tasks, q, i, t) == tasks = [q EXCEPT ![i] = t]

\* Updated replaces the task at the place.
LEMMA UpdatedAt ==
  ASSUME NEW q, NEW i, NEW at, NEW status, NEW times, NEW p, NEW tasks, NEW u, NEW becomes, NEW t,
         q = queue, q \in Seq(Tasks), i \in DOMAIN q, Single(at, i), tasks = Updated(at, status, times, p),
         u = q[i], status = "kept" => becomes = u.status, status # "kept" => becomes = status,
         t = Step(u, becomes, times, p)
  PROVE  Replaced(tasks, q, i, t)
BY DEF Updated, Single, Replaced

\* Updated leaves a queue without that task as it is.
LEMMA UpdatedNone ==
  ASSUME NEW d, NEW at, NEW status, NEW times, NEW paths, NEW tasks,
         d = disk, d["queue"] \in Seq(Tasks), at = {}, tasks = Updated(at, status, times, paths)
  PROVE  tasks = d["queue"]
BY DEF Updated, queue

\* The writes of HandOff are good, with a task or without.
LEMMA HandOffGood ==
  ASSUME NEW c, Fine(disk, c), now \in Stamp, NEW r \in ToHandOff
  PROVE  Good(Handed(TaskOfRequest(r), "handed_off", {"handoff"}, [handoff |-> r],
                <<Put("handoffs", [h \in DOMAIN disk.handoffs \cup {r} |->
                                     IF h = r THEN "handed_off" ELSE disk.handoffs[h]]),
                  Put("requests", [disk.requests EXCEPT ![r] = "handed_off"])>>), c)
<1>1. SUFFICES ASSUME NEW d, d = disk, NEW at, at = TaskOfRequest(r), NEW p, p = [handoff |-> r],
                      NEW status, status = "handed_off", NEW times, times = {"handoff"},
                      NEW tasks, tasks = Updated(at, status, times, p),
                      NEW hs, hs = [h \in DOMAIN d["handoffs"] \cup {r} |-> IF h = r THEN "handed_off" ELSE d["handoffs"][h]],
                      NEW rs, rs = [d["requests"] EXCEPT ![r] = "handed_off"],
                      NEW s, s = Handed(at, status, times, p, <<Put("handoffs", hs), Put("requests", rs)>>),
                      NEW l, l = After(s, Len(s))
               PROVE  Good(s, c)
      OBVIOUS
<1>2. /\ FilesOK(d) /\ DOMAIN d = FileNames /\ d["queue"] \in Seq(Tasks) /\ Fine(d, c)
      /\ \A i \in DOMAIN d["queue"] : d["queue"][i] \in Tasks
      BY <1>1, Known
<1>3. r \in DOMAIN d["requests"] /\ d["requests"][r] = "requested"
      /\ \A i \in at : d["queue"][i].status = "requested_execution"
      BY <1>1 DEF ToHandOff, First, queue
<1>4. r \in Nat
  <2>1. d["requests"] \in Seq(RequestStates)
        BY <1>2 DEF FilesOK
  <2> QED
      BY <1>3, <2>1
<1>5. s = <<Put("handoffs", hs), Put("requests", rs), Put("queue", tasks)>>
  <2>1. s = <<Put("handoffs", hs), Put("requests", rs)>> \o <<Put("queue", tasks)>>
        BY <1>1, Zenon DEF Handed
  <2> QED
      BY <2>1, Joined
<1>6. /\ JobShape(s) /\ Ordered(s) /\ Changed(d, l, {"handoffs", "requests", "queue"})
      /\ l["handoffs"] = hs /\ l["requests"] = rs /\ l["queue"] = tasks
  <2>1. "handoffs" \in FileNames /\ "requests" \in FileNames /\ "queue" \in FileNames
        BY DEF FileNames
  <2>2. /\ DOMAIN disk = FileNames /\ "handoffs" # "requests" /\ "handoffs" # "queue" /\ "requests" # "queue"
        /\ "handoffs" # "nextActions" /\ "requests" # "nextActions" /\ "queue" # "nextActions"
        BY <1>1, <1>2
  <2>3. Left3(s, l, "handoffs", hs, "requests", rs, "queue", tasks)
        BY <1>1, <1>5, <2>1, <2>2, Job3
  <2> QED
      BY <1>1, <2>3 DEF Left3
<1>7. HandedOff(d, l, r)
      BY <1>1, <1>3, <1>6 DEF HandedOff
<1>8. CASE at = {} /\ \A i \in DOMAIN d["queue"] : d["queue"][i].path["request"] # r
  <2>1. tasks = d["queue"]
        BY <1>1, <1>2, <1>8, UpdatedNone
  <2>2. Fine(l, c) /\ Grown(d, l) /\ Cross(d, l)
        BY <1>2, <1>6, <1>7, <1>8, <2>1, HandOffAlone
  <2> QED
      BY <1>1, <1>6, <2>2 DEF Good
<1>9. ASSUME NEW i \in DOMAIN d["queue"], at = {i}, d["queue"][i].path["request"] = r PROVE Good(s, c)
  <2>1. SUFFICES ASSUME NEW u, u = d["queue"][i], NEW t, t = Step(u, status, times, p)
                 PROVE  Good(s, c)
        OBVIOUS
  <2>2. tasks = [d["queue"] EXCEPT ![i] = t]
    <3>1. d["queue"] = queue /\ tasks = Updated(at, status, times, p) /\ status # "kept"
          BY <1>1 DEF queue
    <3>2. Single(at, i)
          BY <1>9 DEF Single
    <3>3. Replaced(tasks, d["queue"], i, t)
          BY <1>2, <2>1, <3>1, <3>2, UpdatedAt
    <3> QED
        BY <3>3 DEF Replaced
  <2>3. Moved(u, t, "handed_off", {"handoff"}, {"handoff"}) /\ t.path["handoff"] = r
    <3>1. DOMAIN p = {"handoff"} /\ p["handoff"] = r
          BY <1>1
    <3>2. Fits(p)
          BY <1>4, <3>1 DEF Fits, Paths
    <3>3. status \in Statuses /\ u \in Tasks /\ t = Step(u, status, times, p)
          BY <1>1, <1>2, <2>1 DEF Statuses
    <3>4. Moved(u, t, status, {"handoff"}, times) /\ Given(t, p)
          BY <3>1, <3>2, <3>3, StepMoved
    <3> QED
        BY <1>1, <3>1, <3>4 DEF Given
  <2>4. u.status = "requested_execution" /\ u.path["request"] = r
        BY <1>3, <1>9, <2>1
  <2>5. Fine(l, c) /\ Grown(d, l) /\ Cross(d, l)
        BY <1>2, <1>6, <1>7, <2>1, <2>2, <2>3, <2>4, HandOffFine, ZenonT(30)
  <2> QED
      BY <1>1, <1>6, <2>5 DEF Good
<1>10. \/ at = {} /\ \A i \in DOMAIN d["queue"] : d["queue"][i].path["request"] # r
       \/ \E i \in DOMAIN d["queue"] : at = {i} /\ d["queue"][i].path["request"] = r
  <2>1. d = disk /\ at = TaskOfRequest(r)
        BY <1>1
  <2> QED
      BY <1>2, <2>1, TaskOfRequestFacts
<1> QED
    BY <1>8, <1>9, <1>10

\* The writes of PiDevRequest are good, with a task or without.
LEMMA PiDevRequestGood ==
  ASSUME NEW c, Fine(disk, c), now \in Stamp, NEW r \in ToPiDev
  PROVE  Good(Handed(TaskOfRequest(r), "kept", {}, [pidev |-> Len(disk.pidevs) + 1],
                <<Put("pidevs", Append(disk.pidevs, [request |-> r, status |-> "requested", bundle |-> None])),
                  Put("handoffs", [disk.handoffs EXCEPT ![r] = "pi_dev_requested"]),
                  Put("requests", [disk.requests EXCEPT ![r] = "pi_dev_requested"])>>), c)
<1>1. SUFFICES ASSUME NEW d, d = disk, NEW at, at = TaskOfRequest(r), NEW n, n = Len(d["pidevs"]) + 1,
                      NEW p, p = [pidev |-> n], NEW status, status = "kept", NEW times, times = {},
                      NEW tasks, tasks = Updated(at, status, times, p),
                      NEW ps, ps = Append(d["pidevs"], [request |-> r, status |-> "requested", bundle |-> None]),
                      NEW hs, hs = [d["handoffs"] EXCEPT ![r] = "pi_dev_requested"],
                      NEW rs, rs = [d["requests"] EXCEPT ![r] = "pi_dev_requested"],
                      NEW s, s = Handed(at, status, times, p, <<Put("pidevs", ps), Put("handoffs", hs), Put("requests", rs)>>),
                      NEW l, l = After(s, Len(s))
               PROVE  Good(s, c)
      OBVIOUS
<1>2. /\ FilesOK(d) /\ DOMAIN d = FileNames /\ d["queue"] \in Seq(Tasks) /\ Fine(d, c)
      /\ \A i \in DOMAIN d["queue"] : d["queue"][i] \in Tasks
      BY <1>1, Known
<1>3. r \in DOMAIN d["handoffs"] /\ \A i \in at : d["queue"][i].path["pidev"] = None
      BY <1>1 DEF ToPiDev, queue
<1>4. n \in Nat
  <2>1. d["pidevs"] \in Seq(PiDevs)
        BY <1>2 DEF FilesOK
  <2>2. n = Len(d["pidevs"]) + 1
        BY <1>1
  <2> QED
      BY <2>1, <2>2
<1>5. s = <<Put("pidevs", ps), Put("handoffs", hs), Put("requests", rs), Put("queue", tasks)>>
  <2>1. s = <<Put("pidevs", ps), Put("handoffs", hs), Put("requests", rs)>> \o <<Put("queue", tasks)>>
        BY <1>1, Zenon DEF Handed
  <2>2. <<Put("pidevs", ps), Put("handoffs", hs), Put("requests", rs)>> \o <<Put("queue", tasks)>>
          = <<Put("pidevs", ps), Put("handoffs", hs), Put("requests", rs), Put("queue", tasks)>>
        BY JoinedFour, Zenon
  <2> QED
      BY <2>1, <2>2, Zenon
<1>6. /\ JobShape(s) /\ Ordered(s) /\ Changed(d, l, {"pidevs", "handoffs", "requests", "queue"})
      /\ l["pidevs"] = ps /\ l["handoffs"] = hs /\ l["requests"] = rs /\ l["queue"] = tasks
  <2>1. "pidevs" \in FileNames /\ "handoffs" \in FileNames /\ "requests" \in FileNames /\ "queue" \in FileNames
        BY DEF FileNames
  <2>2. /\ DOMAIN disk = FileNames
        /\ "pidevs" # "handoffs" /\ "pidevs" # "requests" /\ "pidevs" # "queue"
        /\ "handoffs" # "requests" /\ "handoffs" # "queue" /\ "requests" # "queue"
        /\ "pidevs" # "nextActions" /\ "handoffs" # "nextActions" /\ "requests" # "nextActions"
        /\ "queue" # "nextActions"
        BY <1>1, <1>2
  <2>3. Left4(s, l, "pidevs", ps, "handoffs", hs, "requests", rs, "queue", tasks)
        BY <1>1, <1>5, <2>1, <2>2, Job4
  <2> QED
      BY <1>1, <2>3 DEF Left4
<1>7. PiDevMade(d, l, r, n)
      BY <1>1, <1>3, <1>6 DEF PiDevMade
<1>8. CASE at = {} /\ \A i \in DOMAIN d["queue"] : d["queue"][i].path["request"] # r
  <2>1. tasks = d["queue"]
        BY <1>1, <1>2, <1>8, UpdatedNone
  <2>2. Fine(l, c) /\ Grown(d, l) /\ Cross(d, l)
        BY <1>2, <1>6, <1>7, <1>8, <2>1, PiDevAlone
  <2> QED
      BY <1>1, <1>6, <2>2 DEF Good
<1>9. ASSUME NEW i \in DOMAIN d["queue"], at = {i}, d["queue"][i].path["request"] = r PROVE Good(s, c)
  <2>1. SUFFICES ASSUME NEW u, u = d["queue"][i], NEW t, t = Step(u, u.status, times, p)
                 PROVE  Good(s, c)
        OBVIOUS
  <2>2. tasks = [d["queue"] EXCEPT ![i] = t]
    <3>1. d["queue"] = queue /\ tasks = Updated(at, status, times, p) /\ status = "kept"
          BY <1>1 DEF queue
    <3>2. Single(at, i)
          BY <1>9 DEF Single
    <3>3. Replaced(tasks, d["queue"], i, t)
          BY <1>2, <2>1, <3>1, <3>2, UpdatedAt
    <3> QED
        BY <3>3 DEF Replaced
  <2>3. Moved(u, t, u.status, {"pidev"}, {}) /\ t.path["pidev"] = n
    <3>1. DOMAIN p = {"pidev"} /\ p["pidev"] = n
          BY <1>1
    <3>2. Fits(p)
          BY <1>4, <3>1 DEF Fits, Paths
    <3>3. u.status \in Statuses /\ u \in Tasks
          BY <1>2, <2>1 DEF Tasks
    <3>4. t = Step(u, u.status, times, p)
          BY <2>1
    <3>5. Moved(u, t, u.status, {"pidev"}, times) /\ Given(t, p)
          BY <3>1, <3>2, <3>3, <3>4, StepMoved
    <3> QED
        BY <1>1, <3>1, <3>5 DEF Given
  <2>4. u.path["pidev"] = None /\ u.path["request"] = r
        BY <1>3, <1>9, <2>1
  <2>5. Fine(l, c) /\ Grown(d, l) /\ Cross(d, l)
        BY <1>2, <1>6, <1>7, <2>1, <2>2, <2>3, <2>4, PiDevFine, ZenonT(30)
  <2> QED
      BY <1>1, <1>6, <2>5 DEF Good
<1>10. \/ at = {} /\ \A i \in DOMAIN d["queue"] : d["queue"][i].path["request"] # r
       \/ \E i \in DOMAIN d["queue"] : at = {i} /\ d["queue"][i].path["request"] = r
  <2>1. d = disk /\ at = TaskOfRequest(r)
        BY <1>1
  <2> QED
      BY <1>2, <2>1, TaskOfRequestFacts
<1> QED
    BY <1>8, <1>9, <1>10

\* The task of a Pi Dev request names it, or the request it came from.
LEMMA TaskOfPiDevFacts ==
  ASSUME NEW d, NEW q, NEW at, NEW r,
         d = disk, d["queue"] \in Seq(Tasks), at = TaskOfPiDev(q), r = d["pidevs"][q].request
  PROVE  \A i \in at : /\ i \in DOMAIN d["queue"] /\ Single(at, i)
                       /\ d["queue"][i].path["pidev"] = q \/ d["queue"][i].path["request"] = r
<1>1. SUFFICES ASSUME NEW s, s = d["queue"]
               PROVE  \A i \in at : /\ i \in DOMAIN s /\ Single(at, i)
                                    /\ s[i].path["pidev"] = q \/ s[i].path["request"] = r
      OBVIOUS
<1>2. Len(s) \in Nat /\ DOMAIN s = 1..Len(s)
      BY <1>1
<1>3. PICK S : S = {i \in 1..Len(s) : s[i].path["pidev"] = q \/ s[i].path["request"] = r}
      OBVIOUS
<1>4. at = {i \in DOMAIN s : /\ s[i].path["pidev"] = q \/ s[i].path["request"] = r
                             /\ \A j \in 1..i - 1 : ~(s[j].path["pidev"] = q \/ s[j].path["request"] = r)}
      BY <1>1 DEF TaskOfPiDev, First, queue
<1>5. at = {i \in 1..Len(s) : i \in S /\ \A j \in 1..i - 1 : j \notin S}
  <2>1. ASSUME NEW i \in 1..Len(s), NEW j \in 1..i - 1 PROVE j \in 1..Len(s)
        BY <1>2
  <2> QED
      BY <1>2, <1>3, <1>4, <2>1
<1>6. S \in SUBSET (1..Len(s))
      BY <1>3
<1>7. (at = {} /\ S = {}) \/ \E i \in S : at = {i}
      BY <1>2, <1>5, <1>6, FirstOf, ZenonT(30)
<1> QED
    BY <1>2, <1>3, <1>7 DEF Single

\* The Pi Dev request goes on.
LEMMA PiDevGoesOn ==
  ASSUME NEW d, NEW l, NEW q, NEW status, NEW b, FilesOK(d), q \in DOMAIN d["pidevs"],
         status \in {"requested", "bundled", "pi_dev_dispatch_ready"}, b \in Nat \cup {None},
         l["pidevs"] = [d["pidevs"] EXCEPT ![q] = [d["pidevs"][q] EXCEPT !.status = status, !.bundle = b]]
  PROVE  PiDevOn(d, l, q, status)
<1>1. SUFFICES ASSUME NEW ps, ps = d["pidevs"], NEW x, x = [ps[q] EXCEPT !.status = status, !.bundle = b],
                      NEW qs, qs = l["pidevs"]
               PROVE  PiDevOn(d, l, q, status)
      OBVIOUS
<1>2. ps \in Seq(PiDevs) /\ q \in DOMAIN ps /\ qs = [ps EXCEPT ![q] = x]
      BY <1>1 DEF FilesOK
<1>3. ps[q] \in PiDevs
      BY <1>2
<1>4. x \in PiDevs /\ x.request = ps[q].request /\ x.status = status
      BY <1>1, <1>3 DEF PiDevs
<1>5. qs \in Seq(PiDevs) /\ DOMAIN qs = DOMAIN ps
      BY <1>2, <1>4
<1>6. qs[q] = x /\ \A y \in DOMAIN ps \ {q} : qs[y] = ps[y]
      BY <1>2
<1>7. \A y \in DOMAIN ps : qs[y].request = ps[y].request
      BY <1>4, <1>6
<1> QED
    BY <1>1, <1>2, <1>4, <1>5, <1>6, <1>7 DEF PiDevOn

\* The writes of Bundle are good.
LEMMA BundleGood ==
  ASSUME NEW c, Fine(disk, c), now \in Stamp,
         NEW q \in ToServe("requested", {i \in DOMAIN queue : queue[i].status \in {"handed_off", "pi_dev_bundled"}}),
         NEW i \in TaskOfPiDev(q),
         NEW b, b = IF queue[i].path["bundle"] # None THEN queue[i].path["bundle"] ELSE q
  PROVE  Good(Handed({i}, "pi_dev_bundled", {}, [bundle |-> b],
                <<Put("bundles", disk.bundles \cup {b}),
                  Put("pidevs", [disk.pidevs EXCEPT ![q].status = "bundled", ![q].bundle = b])>>), c)
<1>1. SUFFICES ASSUME NEW d, d = disk, NEW at, at = {i}, NEW p, p = [bundle |-> b],
                      NEW status, status = "pi_dev_bundled", NEW times, times = {},
                      NEW tasks, tasks = Updated(at, status, times, p), NEW bs, bs = d["bundles"] \cup {b},
                      NEW ps, ps = [d["pidevs"] EXCEPT ![q].status = "bundled", ![q].bundle = b],
                      NEW s, s = Handed(at, status, times, p, <<Put("bundles", bs), Put("pidevs", ps)>>),
                      NEW l, l = After(s, Len(s)), NEW u, u = d["queue"][i], NEW t, t = Step(u, status, times, p)
               PROVE  Good(s, c)
      BY ZenonT(30)
<1>2. /\ FilesOK(d) /\ DOMAIN d = FileNames /\ d["queue"] \in Seq(Tasks) /\ Fine(d, c)
      /\ \A j \in DOMAIN d["queue"] : d["queue"][j] \in Tasks
      BY <1>1, Known
<1>3. /\ i \in DOMAIN d["queue"] /\ Single(TaskOfPiDev(q), i)
      /\ d["queue"][i].path["pidev"] = q \/ d["queue"][i].path["request"] = d["pidevs"][q].request
  <2>1. SUFFICES ASSUME NEW of, of = TaskOfPiDev(q), NEW r, r = d["pidevs"][q].request
                 PROVE  /\ i \in DOMAIN d["queue"] /\ Single(of, i)
                        /\ d["queue"][i].path["pidev"] = q \/ d["queue"][i].path["request"] = r
        OBVIOUS
  <2>2. d = disk /\ i \in of
        BY <1>1, <2>1
  <2> QED
      BY <1>2, <2>1, <2>2, TaskOfPiDevFacts
<1>4. q \in DOMAIN d["pidevs"] /\ u.status \in {"handed_off", "pi_dev_bundled"}
  <2>1. /\ q \in DOMAIN d["pidevs"]
        /\ TaskOfPiDev(q) \cap {j \in DOMAIN d["queue"] : d["queue"][j].status \in {"handed_off", "pi_dev_bundled"}} # {}
        BY <1>1 DEF ToServe, First, queue
  <2> QED
      BY <1>1, <1>3, <2>1 DEF Single
<1>5. u \in Tasks /\ b = (IF u.path["bundle"] # None THEN u.path["bundle"] ELSE q) /\ b \in Nat
  <2>1. d["pidevs"] \in Seq(PiDevs)
        BY <1>2 DEF FilesOK
  <2>2. q \in Nat
        BY <1>4, <2>1
  <2>3. u \in Tasks /\ b = (IF u.path["bundle"] # None THEN u.path["bundle"] ELSE q)
        BY <1>1, <1>2, <1>3 DEF queue
  <2>4. u.path["bundle"] \in Nat \cup {None}
        BY <2>3 DEF Tasks, PathSets, Numbers
  <2> QED
      BY <2>2, <2>3, <2>4
<1>6. s = <<Put("bundles", bs), Put("pidevs", ps), Put("queue", tasks)>>
  <2>1. s = <<Put("bundles", bs), Put("pidevs", ps)>> \o <<Put("queue", tasks)>>
        BY <1>1, Zenon DEF Handed
  <2> QED
      BY <2>1, Joined
<1>7. /\ JobShape(s) /\ Ordered(s) /\ Changed(d, l, {"bundles", "pidevs", "queue"})
      /\ l["bundles"] = bs /\ l["pidevs"] = ps /\ l["queue"] = tasks
  <2>1. "bundles" \in FileNames /\ "pidevs" \in FileNames /\ "queue" \in FileNames
        BY DEF FileNames
  <2>2. /\ DOMAIN disk = FileNames /\ "bundles" # "pidevs" /\ "bundles" # "queue" /\ "pidevs" # "queue"
        /\ "bundles" # "nextActions" /\ "pidevs" # "nextActions" /\ "queue" # "nextActions"
        BY <1>1, <1>2
  <2>3. l = After(s, Len(s))
        BY <1>1
  <2>4. Left3(s, l, "bundles", bs, "pidevs", ps, "queue", tasks)
        BY <1>6, <2>1, <2>2, <2>3, Job3
  <2> QED
      BY <1>1, <2>4 DEF Left3
<1>8. PiDevOn(d, l, q, "bundled")
  <2>1. l["pidevs"] = [d["pidevs"] EXCEPT ![q] = [d["pidevs"][q] EXCEPT !.status = "bundled", !.bundle = b]]
    <3>1. SUFFICES ASSUME NEW f, f = d["pidevs"]
                   PROVE  l["pidevs"] = [f EXCEPT ![q] = [f[q] EXCEPT !.status = "bundled", !.bundle = b]]
          OBVIOUS
    <3>2. l["pidevs"] = [f EXCEPT ![q].status = "bundled", ![q].bundle = b]
          BY <1>1, <1>7, <3>1
    <3>3. f \in Seq(PiDevs)
          BY <1>2, <3>1 DEF FilesOK
    <3>4. [f EXCEPT ![q].status = "bundled", ![q].bundle = b] = [f EXCEPT ![q] = [f[q] EXCEPT !.status = "bundled", !.bundle = b]]
          BY <1>4, <3>1, <3>3
    <3> QED
        BY <3>2, <3>4, Zenon
  <2>2. "bundled" \in {"requested", "bundled", "pi_dev_dispatch_ready"} /\ b \in Nat \cup {None}
        BY <1>5
  <2> QED
      BY <1>2, <1>4, <2>1, <2>2, PiDevGoesOn
<1>9. tasks = [d["queue"] EXCEPT ![i] = t]
  <2>1. d["queue"] = queue /\ tasks = Updated(at, status, times, p) /\ status # "kept" /\ Single(at, i)
        BY <1>1 DEF queue, Single
  <2>2. u = d["queue"][i] /\ t = Step(u, status, times, p)
        BY <1>1
  <2>3. Replaced(tasks, d["queue"], i, t)
        BY <1>2, <1>3, <2>1, <2>2, UpdatedAt
  <2> QED
      BY <2>3 DEF Replaced
<1>10. Moved(u, t, "pi_dev_bundled", {"bundle"}, {}) /\ t.path["bundle"] = b
  <2>1. DOMAIN p = {"bundle"} /\ p["bundle"] = b
        BY <1>1
  <2>2. Fits(p)
        BY <1>5, <2>1 DEF Fits, Paths
  <2>3. status \in Statuses /\ t = Step(u, status, times, p)
        BY <1>1 DEF Statuses
  <2>4. Moved(u, t, status, {"bundle"}, times) /\ Given(t, p)
        BY <1>5, <2>1, <2>2, <2>3, StepMoved
  <2> QED
      BY <1>1, <2>1, <2>4 DEF Given
<1>11. Fine(l, c) /\ Grown(d, l) /\ Cross(d, l)
  <2>1. u = d["queue"][i] /\ l["bundles"] = d["bundles"] \cup {b} /\ l["queue"] = [d["queue"] EXCEPT ![i] = t]
        BY <1>1, <1>7, <1>9
  <2>2. u.path["pidev"] = q \/ u.path["request"] = d["pidevs"][q].request
        BY <1>3, <2>1
  <2> QED
      BY <1>2, <1>3, <1>4, <1>5, <1>7, <1>8, <1>10, <2>1, <2>2, BundleFine
<1> QED
    BY <1>1, <1>7, <1>11 DEF Good

\* The writes of PiDevDispatch are good.
LEMMA PiDevDispatchGood ==
  ASSUME NEW c, Fine(disk, c), now \in Stamp,
         NEW q \in ToServe("bundled", {i \in DOMAIN queue : queue[i].status = "pi_dev_bundled" /\ queue[i].path["dispatch"] = None})
  PROVE  Good(Handed(TaskOfPiDev(q), "pi_dev_dispatch_ready", {}, [dispatch |-> disk.dispatches + 1],
                <<Put("dispatches", disk.dispatches + 1),
                  Put("pidevs", [disk.pidevs EXCEPT ![q].status = "pi_dev_dispatch_ready"])>>), c)
<1>1. SUFFICES ASSUME NEW d, d = disk, NEW at, at = TaskOfPiDev(q), NEW n, n = d["dispatches"] + 1,
                      NEW p, p = [dispatch |-> n],
                      NEW status, status = "pi_dev_dispatch_ready", NEW times, times = {},
                      NEW tasks, tasks = Updated(at, status, times, p),
                      NEW ps, ps = [d["pidevs"] EXCEPT ![q].status = "pi_dev_dispatch_ready"],
                      NEW s, s = Handed(at, status, times, p, <<Put("dispatches", n), Put("pidevs", ps)>>),
                      NEW l, l = After(s, Len(s))
               PROVE  Good(s, c)
      OBVIOUS
<1>2. /\ FilesOK(d) /\ DOMAIN d = FileNames /\ d["queue"] \in Seq(Tasks) /\ Fine(d, c)
      /\ \A j \in DOMAIN d["queue"] : d["queue"][j] \in Tasks
      BY <1>1, Known
<1>3. q \in DOMAIN d["pidevs"]
      /\ \E j \in at : /\ j \in DOMAIN d["queue"] /\ d["queue"][j].status = "pi_dev_bundled"
                       /\ d["queue"][j].path["dispatch"] = None
      BY <1>1 DEF ToServe, First, queue
<1>4. PICK i \in at : /\ i \in DOMAIN d["queue"] /\ d["queue"][i].status = "pi_dev_bundled"
                      /\ d["queue"][i].path["dispatch"] = None
      BY <1>3
<1>5. SUFFICES ASSUME NEW u, u = d["queue"][i], NEW t, t = Step(u, status, times, p) PROVE Good(s, c)
      OBVIOUS
<1>6. Single(at, i) /\ (u.path["pidev"] = q \/ u.path["request"] = d["pidevs"][q].request)
  <2>1. SUFFICES ASSUME NEW r, r = d["pidevs"][q].request
                 PROVE  Single(at, i) /\ (u.path["pidev"] = q \/ u.path["request"] = r)
        OBVIOUS
  <2>2. d = disk /\ at = TaskOfPiDev(q)
        BY <1>1
  <2>3. Single(at, i) /\ (d["queue"][i].path["pidev"] = q \/ d["queue"][i].path["request"] = r)
        BY <1>2, <1>4, <2>1, <2>2, TaskOfPiDevFacts
  <2> QED
      BY <1>5, <2>3
<1>7. u \in Tasks /\ n \in Nat /\ d["pidevs"] \in Seq(PiDevs)
  <2>1. d["dispatches"] \in Nat /\ n = d["dispatches"] + 1 /\ d["pidevs"] \in Seq(PiDevs)
        BY <1>1, <1>2 DEF FilesOK
  <2> QED
      BY <1>2, <1>4, <1>5, <2>1
<1>8. s = <<Put("dispatches", n), Put("pidevs", ps), Put("queue", tasks)>>
  <2>1. s = <<Put("dispatches", n), Put("pidevs", ps)>> \o <<Put("queue", tasks)>>
        BY <1>1, Zenon DEF Handed
  <2> QED
      BY <2>1, Joined
<1>9. /\ JobShape(s) /\ Ordered(s) /\ Changed(d, l, {"dispatches", "pidevs", "queue"})
      /\ l["dispatches"] = n /\ l["pidevs"] = ps /\ l["queue"] = tasks
  <2>1. "dispatches" \in FileNames /\ "pidevs" \in FileNames /\ "queue" \in FileNames
        BY DEF FileNames
  <2>2. /\ DOMAIN disk = FileNames /\ "dispatches" # "pidevs" /\ "dispatches" # "queue" /\ "pidevs" # "queue"
        /\ "dispatches" # "nextActions" /\ "pidevs" # "nextActions" /\ "queue" # "nextActions"
        BY <1>1, <1>2
  <2>3. s = <<Put("dispatches", n), Put("pidevs", ps), Put("queue", tasks)>> /\ l = After(s, Len(s))
        BY <1>1, <1>8
  <2>4. Left3(s, l, "dispatches", n, "pidevs", ps, "queue", tasks)
        BY <2>1, <2>2, <2>3, Job3
  <2> QED
      BY <1>1, <2>4 DEF Left3
<1>10. PiDevOn(d, l, q, "pi_dev_dispatch_ready")
  <2>1. SUFFICES ASSUME NEW x, x = d["pidevs"][q] PROVE PiDevOn(d, l, q, "pi_dev_dispatch_ready")
        OBVIOUS
  <2>2. x \in PiDevs
        BY <1>3, <1>7, <2>1
  <2>3. x.bundle \in Nat \cup {None} /\ [x EXCEPT !.status = "pi_dev_dispatch_ready", !.bundle = x.bundle]
                                          = [x EXCEPT !.status = "pi_dev_dispatch_ready"]
        BY <2>2 DEF PiDevs
  <2>4. l["pidevs"] = [d["pidevs"] EXCEPT ![q] = [x EXCEPT !.status = "pi_dev_dispatch_ready"]]
        BY <1>1, <1>9, <2>1
  <2>5. l["pidevs"] = [d["pidevs"] EXCEPT ![q] = [d["pidevs"][q] EXCEPT !.status = "pi_dev_dispatch_ready", !.bundle = x.bundle]]
        BY <2>1, <2>3, <2>4, Zenon
  <2>6. "pi_dev_dispatch_ready" \in {"requested", "bundled", "pi_dev_dispatch_ready"}
        OBVIOUS
  <2>7. SUFFICES ASSUME NEW b, b = x.bundle PROVE PiDevOn(d, l, q, "pi_dev_dispatch_ready")
        OBVIOUS
  <2>8. /\ l["pidevs"] = [d["pidevs"] EXCEPT ![q] = [d["pidevs"][q] EXCEPT !.status = "pi_dev_dispatch_ready", !.bundle = b]]
        /\ b \in Nat \cup {None}
        BY <2>3, <2>5, <2>7, Zenon
  <2> QED
      BY <1>2, <1>3, <2>6, <2>8, PiDevGoesOn
<1>11. tasks = [d["queue"] EXCEPT ![i] = t]
  <2>1. d["queue"] = queue /\ tasks = Updated(at, status, times, p) /\ status # "kept"
        BY <1>1 DEF queue
  <2>2. u = d["queue"][i] /\ t = Step(u, status, times, p) /\ i \in DOMAIN d["queue"]
        BY <1>4, <1>5
  <2>3. Replaced(tasks, d["queue"], i, t)
        BY <1>2, <1>6, <2>1, <2>2, UpdatedAt
  <2> QED
      BY <2>3 DEF Replaced
<1>12. Moved(u, t, "pi_dev_dispatch_ready", {"dispatch"}, {}) /\ t.path["dispatch"] = n
  <2>1. DOMAIN p = {"dispatch"} /\ p["dispatch"] = n
        BY <1>1
  <2>2. Fits(p)
        BY <1>7, <2>1 DEF Fits, Paths
  <2>3. status \in Statuses
        BY <1>1 DEF Statuses
  <2>4. t = Step(u, status, times, p)
        BY <1>5
  <2>5. Moved(u, t, status, {"dispatch"}, times) /\ Given(t, p)
        BY <1>7, <2>1, <2>2, <2>3, <2>4, StepMoved
  <2> QED
      BY <1>1, <2>1, <2>5 DEF Given
<1>13. Fine(l, c) /\ Grown(d, l) /\ Cross(d, l)
  <2>1. /\ u = d["queue"][i] /\ i \in DOMAIN d["queue"] /\ u.status = "pi_dev_bundled" /\ u.path["dispatch"] = None
        /\ l["queue"] = [d["queue"] EXCEPT ![i] = t]
        BY <1>4, <1>5, <1>9, <1>11
  <2>2. n = d["dispatches"] + 1 /\ l["dispatches"] = n
        BY <1>1, <1>9
  <2> QED
      BY <1>2, <1>6, <1>9, <1>10, <1>12, <2>1, <2>2, PiDevDispatchFine
<1> QED
    BY <1>1, <1>9, <1>13 DEF Good

\* The writes of Delegate are good.
LEMMA DelegateGood ==
  ASSUME NEW c, Fine(disk, c), now \in Stamp, now # None,
         NEW i \in First(queue, LAMBDA t : t.status = "pi_dev_dispatch_ready"
                                  /\ t.at["delegated"] = None /\ t.path["dispatch"] \in 1..disk.dispatches)
  PROVE  Good(Handed({i}, "in_progress", {"delegated"}, [delegated |-> disk.delegated + 1],
                <<Put("delegated", disk.delegated + 1)>>), c)
<1>1. SUFFICES ASSUME NEW d, d = disk, NEW at, at = {i}, NEW n, n = d["delegated"] + 1,
                      NEW p, p = [delegated |-> n],
                      NEW status, status = "in_progress", NEW times, times = {"delegated"},
                      NEW tasks, tasks = Updated(at, status, times, p),
                      NEW s, s = Handed(at, status, times, p, <<Put("delegated", n)>>),
                      NEW l, l = After(s, Len(s)), NEW u, u = d["queue"][i], NEW t, t = Step(u, status, times, p)
               PROVE  Good(s, c)
      OBVIOUS
<1>2. /\ FilesOK(d) /\ DOMAIN d = FileNames /\ d["queue"] \in Seq(Tasks) /\ Fine(d, c)
      /\ \A j \in DOMAIN d["queue"] : d["queue"][j] \in Tasks
      BY <1>1, Known
<1>3. i \in DOMAIN d["queue"] /\ u.status = "pi_dev_dispatch_ready" /\ u.path["dispatch"] \in 1..d["dispatches"]
      BY <1>1 DEF First, queue
<1>4. u \in Tasks /\ n \in Nat /\ u.path["dispatch"] # None
  <2>1. d["delegated"] \in Nat /\ n = d["delegated"] + 1 /\ d["dispatches"] \in Nat
        BY <1>1, <1>2 DEF FilesOK
  <2>2. u \in Tasks
        BY <1>1, <1>2, <1>3
  <2> QED
      BY <1>3, <2>1, <2>2, NoneAssumption
<1>5. s = <<Put("delegated", n), Put("queue", tasks)>>
  <2>1. s = <<Put("delegated", n)>> \o <<Put("queue", tasks)>>
        BY <1>1, Zenon DEF Handed
  <2> QED
      BY <2>1, Joined
<1>6. /\ JobShape(s) /\ Ordered(s) /\ Changed(d, l, {"delegated", "queue"})
      /\ l["delegated"] = n /\ l["queue"] = tasks
  <2>1. "delegated" \in FileNames /\ "queue" \in FileNames
        BY DEF FileNames
  <2>2. DOMAIN disk = FileNames /\ "delegated" # "queue" /\ "delegated" # "nextActions" /\ "queue" # "nextActions"
        BY <1>1, <1>2
  <2>3. Left2(s, l, "delegated", n, "queue", tasks)
        BY <1>1, <1>5, <2>1, <2>2, Job2
  <2> QED
      BY <1>1, <2>3 DEF Left2
<1>7. tasks = [d["queue"] EXCEPT ![i] = t]
  <2>1. d["queue"] = queue /\ tasks = Updated(at, status, times, p) /\ status # "kept" /\ Single(at, i)
        BY <1>1 DEF queue, Single
  <2>2. u = d["queue"][i] /\ t = Step(u, status, times, p)
        BY <1>1
  <2>3. Replaced(tasks, d["queue"], i, t)
        BY <1>2, <1>3, <2>1, <2>2, UpdatedAt
  <2> QED
      BY <2>3 DEF Replaced
<1>8. /\ Moved(u, t, "in_progress", {"delegated"}, {"delegated"}) /\ t.path["delegated"] = n
      /\ t.at["delegated"] # None
  <2>1. DOMAIN p = {"delegated"} /\ p["delegated"] = n
        BY <1>1
  <2>2. Fits(p)
        BY <1>4, <2>1 DEF Fits, Paths
  <2>3. status \in Statuses /\ t = Step(u, status, times, p)
        BY <1>1 DEF Statuses
  <2>4. Moved(u, t, status, {"delegated"}, times) /\ Given(t, p) /\ \A x \in Times \cap times : t.at[x] = now
        BY <1>4, <2>1, <2>2, <2>3, StepMoved
  <2> QED
      BY <1>1, <2>1, <2>4 DEF Given, Times
<1>9. Fine(l, c) /\ Grown(d, l) /\ Cross(d, l)
  <2>1. u = d["queue"][i] /\ n = d["delegated"] + 1 /\ l["queue"] = [d["queue"] EXCEPT ![i] = t]
        BY <1>1, <1>6, <1>7
  <2> QED
      BY <1>2, <1>3, <1>4, <1>6, <1>8, <2>1, DelegateFine
<1> QED
    BY <1>1, <1>6, <1>9 DEF Good

\* The queue with one task replaced, and what the snapshot says of it.
LEMMA ReplacedStamps ==
  ASSUME NEW q, NEW i, NEW t, NEW tasks, q \in Seq(Tasks), t \in Tasks, i \in DOMAIN q, Replaced(tasks, q, i, t)
  PROVE  \A e \in Snapshot(tasks) : e.start \in Stamp
<1>1. tasks \in Seq(Tasks)
  <2>1. tasks = [q EXCEPT ![i] = t]
        BY DEF Replaced
  <2> QED
      BY <2>1
<1> QED
    BY <1>1, SnapshotStamps

\* The head of the queue when it is dispatched.
Headed(u, t) == t = [Step(u, "in_progress", {"dispatched"}, <<>>) EXCEPT !.state = "in_progress"]

\* Its project is in progress.
Promoted(d, x, ps) ==
  ps = [p \in Projects |-> IF p = x THEN [d["projects"][p] EXCEPT !.status = "in_progress"] ELSE d["projects"][p]]

\* The writes of DispatchHead are good.
LEMMA DispatchHeadGood ==
  ASSUME NEW c, NEW q, NEW k, NEW t, NEW ps, NEW v, Fine(disk, c), now \in Stamp, now # None, q = queue, k = 1,
         Headed(q[k], t), Promoted(disk, t.project, ps), q # <<>>, q[k].status = "queued"
  PROVE  Good(QueueAnd([q EXCEPT ![k] = t]) \o <<Put("projects", ps), Put("dispatched", v)>>, c)
<1>1. SUFFICES ASSUME NEW d, d = disk, NEW tasks, tasks = [q EXCEPT ![k] = t],
                      NEW s, s = QueueAnd(tasks) \o <<Put("projects", ps), Put("dispatched", v)>>,
                      NEW l, l = After(s, Len(s)), NEW u, u = q[k], NEW p, p = <<>>,
                      NEW status, status = "in_progress", NEW times, times = {"dispatched"},
                      NEW snap, snap = Snapshot(tasks)
               PROVE  Good(s, c)
      OBVIOUS
<1>2. /\ FilesOK(d) /\ DOMAIN d = FileNames /\ d["queue"] \in Seq(Tasks) /\ Fine(d, c)
      /\ \A j \in DOMAIN d["queue"] : d["queue"][j] \in Tasks
      BY <1>1, Known
<1>3. q = d["queue"] /\ q \in Seq(Tasks) /\ k \in DOMAIN q /\ u = q[k] /\ u \in Tasks /\ u.status = "queued"
  <2>1. q = d["queue"]
        BY <1>1 DEF queue
  <2>2. q \in Seq(Tasks) /\ k \in DOMAIN q
        BY <1>2, <2>1
  <2> QED
      BY <1>1, <1>2, <2>1, <2>2
<1>4. s = <<Put("queue", tasks), Put("snapshot", snap), Put("projects", ps), Put("dispatched", v)>>
  <2>1. s = <<Put("queue", tasks), Put("snapshot", snap)>> \o <<Put("projects", ps), Put("dispatched", v)>>
        BY <1>1, Zenon DEF QueueAnd
  <2>2. <<Put("queue", tasks), Put("snapshot", snap)>> \o <<Put("projects", ps), Put("dispatched", v)>>
          = <<Put("queue", tasks), Put("snapshot", snap), Put("projects", ps), Put("dispatched", v)>>
        BY JoinedTwo, Zenon
  <2> QED
      BY <2>1, <2>2, Zenon
<1>5. /\ JobShape(s) /\ Ordered(s) /\ Changed(d, l, {"queue", "snapshot", "projects", "dispatched"})
      /\ l["queue"] = tasks /\ l["snapshot"] = snap /\ l["projects"] = ps
  <2>1. "queue" \in FileNames /\ "snapshot" \in FileNames /\ "projects" \in FileNames /\ "dispatched" \in FileNames
        BY DEF FileNames
  <2>2. /\ DOMAIN disk = FileNames /\ {"snapshot", "projects", "dispatched"} \subseteq Loose
        /\ "queue" # "snapshot" /\ "queue" # "projects" /\ "queue" # "dispatched"
        /\ "snapshot" # "projects" /\ "snapshot" # "dispatched" /\ "projects" # "dispatched"
        /\ "snapshot" # "queue" /\ "projects" # "queue"
        /\ "queue" # "nextActions" /\ "snapshot" # "nextActions" /\ "projects" # "nextActions"
        /\ "dispatched" # "nextActions"
        BY <1>1, <1>2 DEF Loose
  <2>3. l = After(s, Len(s))
        BY <1>1
  <2>4. Left4(s, l, "queue", tasks, "snapshot", snap, "projects", ps, "dispatched", v)
        BY <1>4, <2>1, <2>2, <2>3, Job4
  <2> QED
      BY <1>1, <2>4 DEF Left4
<1>6. Moved(u, t, "in_progress", {}, {"dispatched"}) /\ t.at["dispatched"] # None
  <2>1. DOMAIN p = {} /\ Fits(p)
        BY <1>1 DEF Fits
  <2>2. t = [Step(u, status, times, p) EXCEPT !.state = "in_progress"]
        BY <1>1, Zenon DEF Headed
  <2>3. "in_progress" \in States /\ status \in Statuses
        BY <1>1 DEF States, Statuses
  <2>4. PICK F, state : F = {} /\ DOMAIN p = F /\ state = "in_progress" /\ state \in States
        BY <2>1, <2>3
  <2>5. Moved(u, t, status, F, times) /\ Given(t, p) /\ \A x \in Times \cap times : t.at[x] = now
    <3>1. t = [Step(u, status, times, p) EXCEPT !.state = state]
          BY <2>2, <2>4, Zenon
    <3>2. u \in Tasks /\ status \in Statuses /\ state \in States /\ now \in Stamp /\ Fits(p) /\ DOMAIN p = F
          BY <1>3, <2>1, <2>3, <2>4, Zenon
    <3>3. Moved(u, t, status, F, times)
          BY <3>1, <3>2, StepStateMoved
    <3>4. Given(t, p)
          BY <3>1, <3>2, StepStateMoved
    <3>5. \A x \in Times \cap times : t.at[x] = now
      <4>1. SUFFICES ASSUME NEW x \in Times \cap times PROVE t.at[x] = now
            OBVIOUS
      <4>2. Step(u, status, times, p).at = [y \in Times |-> IF y \in times THEN now ELSE u.at[y]]
            BY DEF Step
      <4>3. t.at = Step(u, status, times, p).at
            BY <3>1 DEF Step
      <4> QED
          BY <4>1, <4>2, <4>3
    <3> QED
        BY <3>3, <3>4, <3>5
  <2> QED
      BY <1>1, <2>4, <2>5 DEF Times
<1>7. \A e \in l["snapshot"] : e.start \in Stamp
  <2>1. t \in Tasks /\ Replaced(tasks, q, k, t)
        BY <1>1, <1>6 DEF Moved, Replaced
  <2>2. \A e \in Snapshot(tasks) : e.start \in Stamp
        BY <1>3, <2>1, ReplacedStamps
  <2>3. l["snapshot"] = Snapshot(tasks)
        BY <1>1, <1>5
  <2> QED
      BY <2>2, <2>3
<1>8. l["projects"] \in [Projects -> ProjectStates]
  <2>1. \A x \in Projects : d["projects"][x] \in ProjectStates
        BY <1>2 DEF FilesOK
  <2>2. \A x \in Projects : [d["projects"][x] EXCEPT !.status = "in_progress"] \in ProjectStates
        BY <2>1 DEF ProjectStates
  <2>3. SUFFICES ASSUME NEW of, of = t.project PROVE l["projects"] \in [Projects -> ProjectStates]
        OBVIOUS
  <2>4. l["projects"] = [x \in Projects |-> IF x = of THEN [d["projects"][x] EXCEPT !.status = "in_progress"]
                                              ELSE d["projects"][x]]
        BY <1>1, <1>5, <2>3 DEF Promoted
  <2> QED
      BY <2>1, <2>2, <2>4
<1>9. Fine(l, c) /\ Grown(d, l) /\ Cross(d, l)
  <2>1. l["queue"] = [d["queue"] EXCEPT ![k] = t] /\ u = d["queue"][k] /\ k \in DOMAIN d["queue"]
        BY <1>1, <1>3, <1>5
  <2> QED
      BY <1>2, <1>3, <1>5, <1>6, <1>7, <1>8, <2>1, DispatchFine
<1> QED
    BY <1>1, <1>5, <1>9 DEF Good

\* The write of RefreshSnapshot is good.
LEMMA RefreshGood ==
  ASSUME NEW c, Fine(disk, c) PROVE Good(<<Put("snapshot", Snapshot(queue))>>, c)
<1>1. SUFFICES ASSUME NEW d, d = disk, NEW snap, snap = Snapshot(d["queue"]), NEW s, s = <<Put("snapshot", snap)>>,
                      NEW l, l = After(s, Len(s))
               PROVE  Good(s, c)
      BY DEF queue
<1>2. FilesOK(d) /\ DOMAIN d = FileNames /\ d["queue"] \in Seq(Tasks) /\ Fine(d, c)
      BY <1>1, Known
<1>3. JobShape(s) /\ Ordered(s) /\ Changed(d, l, {"snapshot"}) /\ l["snapshot"] = snap
  <2>1. "snapshot" \in FileNames /\ DOMAIN disk = FileNames /\ "snapshot" # "nextActions"
        BY <1>1, <1>2 DEF FileNames
  <2>2. s = <<Put("snapshot", snap)>> /\ l = After(s, Len(s))
        BY <1>1
  <2>3. Left1(s, l, "snapshot", snap)
        BY <2>1, <2>2, Job1
  <2> QED
      BY <1>1, <2>3 DEF Left1
<1>4. \A e \in snap : e.start \in Stamp
      BY <1>1, <1>2, SnapshotStamps
<1>5. /\ Changed(d, l, Rest) /\ l["gaps"] = d["gaps"] /\ l["queue"] = d["queue"]
      /\ l["projects"] = d["projects"] /\ l["delegated"] = d["delegated"]
      /\ l["incidents"] = d["incidents"] /\ l["nextActions"] = d["nextActions"]
      /\ l["redispatches"] = d["redispatches"] /\ l["assignments"] = d["assignments"]
      BY <1>3 DEF Changed, Rest, FileNames
<1>6. RestGrown(d, l)
      BY <1>2, <1>3, <1>4, <1>5, RestSame DEF RestGrown
<1>7. Fine(l, c) /\ Grown(d, l) /\ Cross(d, l)
      BY <1>2, <1>5, <1>6, RestAlone
<1> QED
    BY <1>1, <1>3, <1>7 DEF Good

\* The writes of Gap are good.
LEMMA GapGood ==
  ASSUME NEW c, Fine(disk, c), disk.gaps < MaxGaps, NEW open
  PROVE  Good(<<Put("gaps", disk.gaps + 1),
                Put("projects", [p \in Projects |->
                      IF p \in open THEN [status |-> "waiting_for_dispatch", gap |-> disk.gaps + 1]
                      ELSE disk.projects[p]])>>, c)
<1>1. SUFFICES ASSUME NEW d, d = disk, NEW n, n = d["gaps"] + 1,
                      NEW ps, ps = [p \in Projects |-> IF p \in open THEN [status |-> "waiting_for_dispatch", gap |-> n]
                                                       ELSE d["projects"][p]],
                      NEW s, s = <<Put("gaps", n), Put("projects", ps)>>, NEW l, l = After(s, Len(s))
               PROVE  Good(s, c)
      OBVIOUS
<1>2. FilesOK(d) /\ DOMAIN d = FileNames /\ Fine(d, c)
      BY <1>1, Known
<1>3. /\ JobShape(s) /\ Ordered(s) /\ Changed(d, l, {"gaps", "projects"})
      /\ l["gaps"] = n /\ l["projects"] = ps
  <2>1. "gaps" \in FileNames /\ "projects" \in FileNames
        BY DEF FileNames
  <2>2. DOMAIN disk = FileNames /\ "gaps" # "projects" /\ "gaps" # "queue" /\ "gaps" # "nextActions"
        /\ "projects" # "nextActions"
        BY <1>1, <1>2
  <2>3. s = <<Put("gaps", n), Put("projects", ps)>> /\ l = After(s, Len(s))
        BY <1>1
  <2>4. Left2(s, l, "gaps", n, "projects", ps)
        BY <2>1, <2>2, <2>3, Job2
  <2> QED
      BY <1>1, <2>4 DEF Left2
<1>4. n \in 0..MaxGaps
  <2>1. d["gaps"] \in 0..MaxGaps /\ d["gaps"] < MaxGaps /\ n = d["gaps"] + 1
        BY <1>1, <1>2 DEF FilesOK
  <2> QED
      BY <2>1, BoundsAssumption
<1>5. ps \in [Projects -> ProjectStates]
  <2>1. \A x \in Projects : d["projects"][x] \in ProjectStates
        BY <1>2 DEF FilesOK
  <2>2. [status |-> "waiting_for_dispatch", gap |-> n] \in ProjectStates
        BY <1>4 DEF ProjectStates
  <2>3. ps = [p \in Projects |-> IF p \in open THEN [status |-> "waiting_for_dispatch", gap |-> n] ELSE d["projects"][p]]
        BY <1>1
  <2> QED
      BY <2>1, <2>2, <2>3
<1>6. /\ Changed(d, l, Rest) /\ l["queue"] = d["queue"]
      /\ l["snapshot"] = d["snapshot"] /\ l["delegated"] = d["delegated"]
      /\ l["incidents"] = d["incidents"] /\ l["nextActions"] = d["nextActions"]
      /\ l["redispatches"] = d["redispatches"] /\ l["assignments"] = d["assignments"]
      BY <1>3 DEF Changed, Rest, FileNames
<1>7. RestGrown(d, l)
      BY <1>2, <1>3, <1>4, <1>5, <1>6, RestSame DEF RestGrown
<1>8. Fine(l, c) /\ Grown(d, l) /\ Cross(d, l)
      BY <1>2, <1>6, <1>7, RestAlone
<1> QED
    BY <1>1, <1>3, <1>8 DEF Good

\* The task that the incident and the next action are of, blocked.
Blocked(u, i, na, t) ==
  /\ na = [start |-> Started(u.at), key |-> u.key, index |-> i]
  /\ t = [Step(u, "stale_blocked", {}, [incident |-> NameOf(na)]) EXCEPT !.state = "needs_redispatch"]

\* The task queued again for the next action.
Again(d, u, na, t) ==
  \E inc : /\ inc = IF u.path["incident"] # None THEN u.path["incident"] ELSE NameOf(na)
           /\ t = [Step(u, "queued", {},
                        [redispatch |-> d["redispatches"] + 1, source |-> NameOf(na), incident |-> inc])
                     EXCEPT !.state = "queued"]

\* The writes of StaleIncident are good.
LEMMA StaleIncidentGood ==
  ASSUME NEW c, Fine(disk, c), now \in Stamp, NEW q, q = queue, NEW i \in DOMAIN q, NEW na, NEW t,
         Blocked(q[i], i, na, t)
  PROVE  Good(<<Put("incidents", disk.incidents \cup {NameOf(na)}), Put("nextActions", Filed(na))>>
                \o QueueAnd([q EXCEPT ![i] = t]), c)
<1>1. SUFFICES ASSUME NEW d, d = disk, NEW tasks, tasks = [q EXCEPT ![i] = t], NEW name, name = NameOf(na),
                      NEW is, is = d["incidents"] \cup {NameOf(na)}, NEW files, files = Filed(na),
                      NEW s, s = <<Put("incidents", is), Put("nextActions", files)>> \o QueueAnd(tasks),
                      NEW l, l = After(s, Len(s)), NEW u, u = q[i], NEW p, p = [incident |-> name],
                      NEW status, status = "stale_blocked", NEW times, times = {},
                      NEW snap, snap = Snapshot(tasks)
               PROVE  Good(s, c)
      OBVIOUS
<1>2. /\ FilesOK(d) /\ DOMAIN d = FileNames /\ d["queue"] \in Seq(Tasks) /\ Fine(d, c)
      /\ \A j \in DOMAIN d["queue"] : d["queue"][j] \in Tasks
      BY <1>1, Known
<1>3. q = d["queue"] /\ q \in Seq(Tasks) /\ u = q[i] /\ u \in Tasks
  <2>1. q = d["queue"]
        BY <1>1 DEF queue
  <2> QED
      BY <1>1, <1>2, <2>1
<1>4. na.start \in Stamp /\ na.key \in AllKeys /\ name \in Names
  <2>1. u.at \in [Times -> Stamp] /\ u.key \in AllKeys /\ Times \subseteq Times
        BY <1>3 DEF Tasks
  <2>2. Started(u.at) \in Stamp
        BY <2>1, StartedStamp
  <2>3. na.start = Started(u.at) /\ na.key = u.key
        BY <1>1 DEF Blocked
  <2>4. na.start \in Stamp /\ na.key \in AllKeys
        BY <2>1, <2>2, <2>3
  <2>5. name = [start |-> na.start, key |-> na.key]
        BY <1>1, Zenon DEF NameOf
  <2> QED
      BY <2>4, <2>5 DEF Names
<1>5. s = <<Put("incidents", is), Put("nextActions", files), Put("queue", tasks), Put("snapshot", snap)>>
  <2>1. s = <<Put("incidents", is), Put("nextActions", files)>> \o <<Put("queue", tasks), Put("snapshot", snap)>>
        BY <1>1, Zenon DEF QueueAnd
  <2>2. <<Put("incidents", is), Put("nextActions", files)>> \o <<Put("queue", tasks), Put("snapshot", snap)>>
          = <<Put("incidents", is), Put("nextActions", files), Put("queue", tasks), Put("snapshot", snap)>>
        BY JoinedTwo, Zenon
  <2> QED
      BY <2>1, <2>2, Zenon
<1>6. /\ JobShape(s) /\ Ordered(s) /\ Changed(d, l, {"incidents", "nextActions", "queue", "snapshot"})
      /\ l["incidents"] = is /\ l["nextActions"] = files /\ l["queue"] = tasks /\ l["snapshot"] = snap
  <2>1. "incidents" \in FileNames /\ "nextActions" \in FileNames /\ "queue" \in FileNames /\ "snapshot" \in FileNames
        BY DEF FileNames
  <2>2. /\ DOMAIN disk = FileNames /\ "snapshot" \in Loose
        /\ "incidents" # "nextActions" /\ "incidents" # "queue" /\ "incidents" # "snapshot"
        /\ "nextActions" # "queue" /\ "nextActions" # "snapshot" /\ "queue" # "snapshot"
        /\ "queue" # "nextActions" /\ "snapshot" # "nextActions"
        BY <1>1, <1>2 DEF Loose
  <2>3. l = After(s, Len(s))
        BY <1>1
  <2>4. Left4(s, l, "incidents", is, "nextActions", files, "queue", tasks, "snapshot", snap)
        BY <1>5, <2>1, <2>2, <2>3, Job4
  <2> QED
      BY <1>1, <2>4 DEF Left4
<1>7. Moved(u, t, "stale_blocked", {"incident"}, {}) /\ t.path["incident"] = name
  <2>1. DOMAIN p = {"incident"} /\ p["incident"] = name
        BY <1>1
  <2>2. Fits(p)
        BY <1>4, <2>1 DEF Fits, Paths, Numbers
  <2>3. status \in Statuses /\ t = [Step(u, status, times, p) EXCEPT !.state = "needs_redispatch"]
        BY <1>1 DEF Statuses, Blocked
  <2>4. "needs_redispatch" \in States
        BY DEF States
  <2>5. Moved(u, t, status, {"incident"}, times) /\ Given(t, p)
        BY <1>3, <2>1, <2>2, <2>3, <2>4, StepStateMoved
  <2> QED
      BY <1>1, <2>1, <2>5 DEF Given
<1>8. \A e \in l["snapshot"] : e.start \in Stamp
  <2>1. t \in Tasks /\ Replaced(tasks, q, i, t)
        BY <1>1, <1>7 DEF Moved, Replaced
  <2>2. \A e \in Snapshot(tasks) : e.start \in Stamp
        BY <1>3, <2>1, ReplacedStamps
  <2>3. l["snapshot"] = Snapshot(tasks)
        BY <1>1, <1>6
  <2> QED
      BY <2>2, <2>3
<1>9. /\ l["incidents"] = d["incidents"] \cup {NameOf(na)}
      /\ l["nextActions"] = {f \in d["nextActions"] : NameOf(f) # NameOf(na)} \cup {na}
      BY <1>1, <1>6 DEF Filed
<1>10. Fine(l, c) /\ Grown(d, l) /\ Cross(d, l)
  <2>1. l["queue"] = [d["queue"] EXCEPT ![i] = t] /\ u = d["queue"][i] /\ i \in DOMAIN d["queue"]
        BY <1>1, <1>3, <1>6
  <2>2. t.path["incident"] = NameOf(na)
        BY <1>1, <1>7
  <2> QED
      BY <1>2, <1>4, <1>6, <1>7, <1>8, <1>9, <2>1, <2>2, StaleFine
<1> QED
    BY <1>1, <1>6, <1>10 DEF Good

\* The writes of Redispatch are good.
LEMMA RedispatchGood ==
  ASSUME NEW c, Fine(disk, c), now \in Stamp, NEW q, q = queue, NEW i \in DOMAIN q, NEW na \in disk.nextActions,
         NEW t, Again(disk, q[i], na, t)
  PROVE  Good(<<Put("redispatches", disk.redispatches + 1)>> \o QueueAnd([q EXCEPT ![i] = t]), c)
<1>1. SUFFICES ASSUME NEW d, d = disk, NEW tasks, tasks = [q EXCEPT ![i] = t], NEW name, name = NameOf(na),
                      NEW n, n = d["redispatches"] + 1,
                      NEW s, s = <<Put("redispatches", n)>> \o QueueAnd(tasks),
                      NEW l, l = After(s, Len(s)), NEW u, u = q[i], NEW status, status = "queued", NEW times, times = {}, NEW snap, snap = Snapshot(tasks)
               PROVE  Good(s, c)
      OBVIOUS
<1>2. /\ FilesOK(d) /\ DOMAIN d = FileNames /\ d["queue"] \in Seq(Tasks) /\ Fine(d, c)
      /\ \A j \in DOMAIN d["queue"] : d["queue"][j] \in Tasks /\ TaskFine(d, d["queue"][j], c)
      BY <1>1, Known
<1>3. q = d["queue"] /\ q \in Seq(Tasks) /\ u = q[i] /\ u \in Tasks /\ TaskFine(d, u, c)
  <2>1. q = d["queue"]
        BY <1>1 DEF queue
  <2> QED
      BY <1>1, <1>2, <2>1
<1>4. PICK inc : /\ inc = IF u.path["incident"] # None THEN u.path["incident"] ELSE name
               /\ t = [Step(u, status, times, [redispatch |-> n, source |-> name, incident |-> inc]) EXCEPT !.state = "queued"]
    BY <1>1 DEF Again
<1>5. name \in Names /\ name \in d["incidents"] /\ n \in Nat
  <2>1. na.start \in Stamp /\ na.key \in AllKeys /\ NameOf(na) \in d["incidents"]
        BY <1>1, <1>2 DEF FilesOK
  <2>2. name = [start |-> na.start, key |-> na.key]
        BY <1>1, Zenon DEF NameOf
  <2>3. d["redispatches"] \in Nat /\ n = d["redispatches"] + 1 /\ name = NameOf(na)
        BY <1>1, <1>2 DEF FilesOK
  <2>4. name \in Names
        BY <2>1, <2>2 DEF Names
  <2> QED
      BY <2>1, <2>3, <2>4
<1>6. inc \in d["incidents"] /\ inc \in Nat \cup {None} \cup Names
  <2>1. inc = IF u.path["incident"] # None THEN u.path["incident"] ELSE name
        BY <1>4
  <2>2. u.path["incident"] # None => u.path["incident"] \in d["incidents"]
        BY <1>3 DEF TaskFine, Linked
  <2>3. u.path["incident"] \in Nat \cup {None} \cup Names
        BY <1>3 DEF Tasks, PathSets, Paths
  <2> QED
      BY <1>5, <2>1, <2>2, <2>3
<1>7. s = <<Put("redispatches", n), Put("queue", tasks), Put("snapshot", snap)>>
  <2>1. s = <<Put("redispatches", n)>> \o <<Put("queue", tasks), Put("snapshot", snap)>>
        BY <1>1, Zenon DEF QueueAnd
  <2>2. <<Put("redispatches", n)>> \o <<Put("queue", tasks), Put("snapshot", snap)>>
          = <<Put("redispatches", n), Put("queue", tasks), Put("snapshot", snap)>>
        BY JoinedThree, Zenon
  <2> QED
      BY <2>1, <2>2, Zenon
<1>8. /\ JobShape(s) /\ Ordered(s) /\ Changed(d, l, {"redispatches", "queue", "snapshot"})
      /\ l["redispatches"] = n /\ l["queue"] = tasks /\ l["snapshot"] = snap
  <2>1. "redispatches" \in FileNames /\ "queue" \in FileNames /\ "snapshot" \in FileNames
        BY DEF FileNames
  <2>2. /\ DOMAIN disk = FileNames /\ "snapshot" \in Loose
        /\ "redispatches" # "queue" /\ "redispatches" # "snapshot" /\ "queue" # "snapshot"
        /\ "redispatches" # "nextActions" /\ "queue" # "nextActions" /\ "snapshot" # "nextActions"
        BY <1>1, <1>2 DEF Loose
  <2>3. l = After(s, Len(s))
        BY <1>1
  <2>4. Left3(s, l, "redispatches", n, "queue", tasks, "snapshot", snap)
        BY <1>7, <2>1, <2>2, <2>3, Job3
  <2> QED
      BY <1>1, <2>4 DEF Left3
<1>9. /\ Moved(u, t, "queued", {"redispatch", "source", "incident"}, {})
      /\ t.path["redispatch"] = n /\ t.path["incident"] = inc
  <2> SUFFICES ASSUME NEW p, p = [redispatch |-> n, source |-> name, incident |-> inc]
               PROVE  /\ Moved(u, t, "queued", {"redispatch", "source", "incident"}, {})
                      /\ t.path["redispatch"] = n /\ t.path["incident"] = inc
      OBVIOUS
  <2>1. /\ DOMAIN p = {"redispatch", "source", "incident"}
        /\ p["redispatch"] = n /\ p["source"] = name /\ p["incident"] = inc
        OBVIOUS
  <2>2. Fits(p)
    <3>1. /\ "redispatch" \in Paths /\ "source" \in Paths /\ "incident" \in Paths
          /\ "source" \notin Numbers /\ "incident" \notin Numbers
          BY DEF Paths, Numbers
    <3> QED
        BY <1>5, <1>6, <2>1, <3>1 DEF Fits
  <2>3. status \in Statuses /\ t = [Step(u, status, times, p) EXCEPT !.state = "queued"]
        BY <1>1, <1>4 DEF Statuses
  <2>4. "queued" \in States
        BY DEF States
  <2>5. Moved(u, t, status, {"redispatch", "source", "incident"}, times) /\ Given(t, p)
        BY <1>3, <2>1, <2>2, <2>3, <2>4, StepStateMoved
  <2> QED
      BY <1>1, <2>1, <2>5 DEF Given
<1>10. \A e \in l["snapshot"] : e.start \in Stamp
  <2>1. t \in Tasks /\ Replaced(tasks, q, i, t)
        BY <1>1, <1>9 DEF Moved, Replaced
  <2>2. \A e \in Snapshot(tasks) : e.start \in Stamp
        BY <1>3, <2>1, ReplacedStamps
  <2>3. l["snapshot"] = Snapshot(tasks)
        BY <1>1, <1>8
  <2> QED
      BY <2>2, <2>3
<1>11. Fine(l, c) /\ Grown(d, l) /\ Cross(d, l)
  <2>1. l["queue"] = [d["queue"] EXCEPT ![i] = t] /\ u = d["queue"][i] /\ i \in DOMAIN d["queue"]
        BY <1>1, <1>3, <1>8
  <2>2. n = d["redispatches"] + 1 /\ t.path["incident"] \in d["incidents"]
        BY <1>1, <1>6, <1>9
  <2> QED
      BY <1>2, <1>8, <1>9, <1>10, <2>1, <2>2, RedispatchFine
<1> QED
    BY <1>1, <1>8, <1>11 DEF Good

\* The task and the assignments when a redispatched task is assigned.
Assigned(d, u, own, all, id, t) ==
  /\ id = IF own # {} THEN Only(own) ELSE Len(d["assignments"]) + 1
  /\ all = IF own # {} THEN d["assignments"]
           ELSE Append(d["assignments"], [key |-> u.key, redispatch |-> u.path["redispatch"], since |-> now])
  /\ t = [Step(u, "in_progress", {}, [assignment |-> id])
            EXCEPT !.state = "in_progress", !.at["delegated"] = all[id].since]

\* What Append gives.
LEMMA Appended ==
  ASSUME NEW S, NEW s, NEW x, NEW all, NEW n, s \in Seq(S), x \in S, all = Append(s, x), n = Len(s) + 1
  PROVE  /\ all \in Seq(S) /\ DOMAIN all = DOMAIN s \cup {n} /\ all[n] = x
         /\ \A a \in DOMAIN s : all[a] = s[a]
<1>1. /\ Append(s, x) \in Seq(S) /\ Len(Append(s, x)) = Len(s) + 1
      /\ Append(s, x)[Len(s) + 1] = x /\ \A a \in 1..Len(s) : Append(s, x)[a] = s[a]
      BY AppendProperties
<1>2. Len(s) \in Nat /\ DOMAIN s = 1..Len(s) /\ DOMAIN all = 1..Len(all)
      BY <1>1, LenProperties
<1>3. \A k \in Nat : 1..k + 1 = 1..k \cup {k + 1}
      OBVIOUS
<1> QED
    BY <1>1, <1>2, <1>3

\* The writes of Assign are good: its assignment is of the task alone.
LEMMA AssignGood ==
  ASSUME NEW c, Fine(disk, c), now \in 0..MaxEvents, NEW q, q = queue, NEW i \in DOMAIN q, NEW own, NEW all, NEW id, NEW t,
         own = OwnAssignment(q[i]), Assigned(disk, q[i], own, all, id, t), q[i].path["redispatch"] # None
  PROVE  Good(<<Put("assignments", all)>> \o QueueAnd([q EXCEPT ![i] = t]), c)
<1>1. SUFFICES ASSUME NEW d, d = disk, NEW tasks, tasks = [q EXCEPT ![i] = t], NEW old, old = d["assignments"],
                      NEW s, s = <<Put("assignments", all)>> \o QueueAnd(tasks),
                      NEW l, l = After(s, Len(s)), NEW u, u = q[i], NEW r, r = u.path["redispatch"],
                      NEW status, status = "in_progress", NEW times, times = {}, NEW snap, snap = Snapshot(tasks),
                      NEW p, p = [assignment |-> id]
               PROVE  Good(s, c)
      OBVIOUS
<1>2. /\ FilesOK(d) /\ DOMAIN d = FileNames /\ d["queue"] \in Seq(Tasks) /\ Fine(d, c)
      /\ \A j \in DOMAIN d["queue"] : d["queue"][j] \in Tasks /\ TaskFine(d, d["queue"][j], c)
      BY <1>1, Known
<1>3. q = d["queue"] /\ q \in Seq(Tasks) /\ u = q[i] /\ u \in Tasks /\ TaskFine(d, u, c)
  <2>1. q = d["queue"]
        BY <1>1 DEF queue
  <2> QED
      BY <1>1, <1>2, <2>1
<1>4. /\ id = IF own # {} THEN Only(own) ELSE Len(old) + 1
      /\ all = IF own # {} THEN old ELSE Append(old, [key |-> u.key, redispatch |-> r, since |-> now])
      /\ t = [Step(u, status, times, p) EXCEPT !.state = "in_progress", !.at["delegated"] = all[id].since]
      BY <1>1 DEF Assigned
<1>5. /\ old \in Seq(Assignments) /\ r \in Nat /\ r <= d["redispatches"] /\ d["redispatches"] \in Nat
      /\ \A a \in DOMAIN old : old[a].redispatch <= d["redispatches"]
  <2>1. old \in Seq(Assignments) /\ d["redispatches"] \in Nat
        /\ \A a \in DOMAIN old : old[a].redispatch <= d["redispatches"]
        BY <1>1, <1>2 DEF FilesOK
  <2>2. u.path["redispatch"] # None => u.path["redispatch"] \in 1..d["redispatches"]
        BY <1>3 DEF TaskFine, Linked
  <2>3. r \in 1..d["redispatches"]
        BY <1>1, <2>2
  <2>4. \A y : \A m \in Nat : y \in 1..m => y \in Nat /\ y <= m
        OBVIOUS
  <2>5. r \in Nat /\ r <= d["redispatches"]
        BY <2>1, <2>3, <2>4, Zenon
  <2> QED
      BY <2>1, <2>5
<1>6. own # {} => /\ id \in DOMAIN old /\ old[id].key = u.key
                  /\ u.path["assignment"] = id \/ old[id].redispatch = r
  <2>1. CASE u.path["assignment"] # None
    <3>1. own = {u.path["assignment"]}
          BY <1>1, <2>1 DEF OwnAssignment
    <3>2. Only(own) \in own
          BY <3>1 DEF Only
    <3>3. id = u.path["assignment"]
          BY <1>4, <3>1, <3>2
    <3>4. u.path["assignment"] # None =>
            u.path["assignment"] \in DOMAIN d["assignments"] /\ d["assignments"][u.path["assignment"]].key = u.key
          BY <1>3 DEF TaskFine, Linked
    <3> QED
        BY <1>1, <2>1, <3>3, <3>4
  <2>2. CASE u.path["assignment"] = None /\ own # {}
    <3>1. own = First(disk.assignments, LAMBDA a : a.key = u.key /\ a.redispatch = u.path["redispatch"])
          BY <1>1, <2>2 DEF OwnAssignment
    <3>2. own \subseteq {a \in DOMAIN old : old[a].key = u.key /\ old[a].redispatch = r}
          BY <1>1, <3>1 DEF First
    <3>3. Only(own) \in own
          BY <2>2 DEF Only
    <3> QED
        BY <1>4, <2>2, <3>2, <3>3
  <2> QED
      BY <2>1, <2>2
<1>7. /\ all \in Seq(Assignments) /\ DOMAIN old \subseteq DOMAIN all /\ \A a \in DOMAIN old : all[a] = old[a]
      /\ \A a \in DOMAIN all : all[a].redispatch <= d["redispatches"]
      /\ id \in DOMAIN all /\ all[id].key = u.key /\ (u.path["assignment"] = id \/ all[id].redispatch = r)
  <2>1. CASE own # {}
        BY <1>4, <1>5, <1>6, <2>1
  <2>2. CASE own = {}
    <3>1. SUFFICES ASSUME NEW x, x = [key |-> u.key, redispatch |-> r, since |-> now]
                   PROVE  /\ all \in Seq(Assignments) /\ DOMAIN old \subseteq DOMAIN all
                          /\ \A a \in DOMAIN old : all[a] = old[a]
                          /\ \A a \in DOMAIN all : all[a].redispatch <= d["redispatches"]
                          /\ id \in DOMAIN all /\ all[id].key = u.key
                          /\ u.path["assignment"] = id \/ all[id].redispatch = r
          OBVIOUS
    <3>2. all = Append(old, x) /\ id = Len(old) + 1
          BY <1>4, <2>2, <3>1
    <3>3. u.key \in AllKeys
          BY <1>3 DEF Tasks
    <3>4. x \in Assignments /\ x.key = u.key /\ x.redispatch = r
          BY <1>5, <3>1, <3>3 DEF Assignments
    <3>5. /\ all \in Seq(Assignments) /\ DOMAIN all = DOMAIN old \cup {id} /\ all[id] = x
          /\ \A a \in DOMAIN old : all[a] = old[a]
      <4>1. old \in Seq(Assignments) /\ x \in Assignments
            BY <1>5, <3>4
      <4>2. \A y, m : y = Append(old, x) /\ m = Len(old) + 1 =>
              /\ y \in Seq(Assignments) /\ DOMAIN y = DOMAIN old \cup {m} /\ y[m] = x
              /\ \A a \in DOMAIN old : y[a] = old[a]
            BY <4>1, Appended
      <4> QED
          BY <3>2, <4>2, Zenon
    <3> QED
        BY <1>5, <3>4, <3>5
  <2> QED
      BY <2>1, <2>2
<1>8. id \in Nat /\ all[id].since \in Stamp /\ all[id].since # None /\ now \in Stamp
  <2>1. all[id] \in Assignments
        BY <1>7
  <2>2. \A x \in 0..MaxEvents : x \in Stamp /\ x # None
        BY NoneAssumption DEF Stamp
  <2> QED
      BY <1>7, <2>1, <2>2 DEF Assignments
<1>9. s = <<Put("assignments", all), Put("queue", tasks), Put("snapshot", snap)>>
  <2>1. s = <<Put("assignments", all)>> \o <<Put("queue", tasks), Put("snapshot", snap)>>
        BY <1>1, Zenon DEF QueueAnd
  <2>2. <<Put("assignments", all)>> \o <<Put("queue", tasks), Put("snapshot", snap)>>
          = <<Put("assignments", all), Put("queue", tasks), Put("snapshot", snap)>>
        BY JoinedThree, Zenon
  <2> QED
      BY <2>1, <2>2, Zenon
<1>10. /\ JobShape(s) /\ Ordered(s) /\ Changed(d, l, {"assignments", "queue", "snapshot"})
       /\ l["assignments"] = all /\ l["queue"] = tasks /\ l["snapshot"] = snap
  <2>1. "assignments" \in FileNames /\ "queue" \in FileNames /\ "snapshot" \in FileNames
        BY DEF FileNames
  <2>2. /\ DOMAIN disk = FileNames /\ "snapshot" \in Loose
        /\ "assignments" # "queue" /\ "assignments" # "snapshot" /\ "queue" # "snapshot"
        /\ "assignments" # "nextActions" /\ "queue" # "nextActions" /\ "snapshot" # "nextActions"
        BY <1>1, <1>2 DEF Loose
  <2>3. l = After(s, Len(s))
        BY <1>1
  <2>4. Left3(s, l, "assignments", all, "queue", tasks, "snapshot", snap)
        BY <1>9, <2>1, <2>2, <2>3, Job3
  <2> QED
      BY <1>1, <2>4 DEF Left3
<1>11. /\ Moved(u, t, "in_progress", {"assignment"}, {"delegated"}) /\ t.path["assignment"] = id
       /\ t.at["delegated"] # None
  <2>1. DOMAIN p = {"assignment"} /\ p["assignment"] = id
        BY <1>1
  <2>2. Fits(p)
        BY <1>8, <2>1 DEF Fits, Paths
  <2>3. SUFFICES ASSUME NEW v, v = Step(u, status, times, p), NEW x, x = all[id].since
                 PROVE  /\ Moved(u, t, "in_progress", {"assignment"}, {"delegated"}) /\ t.path["assignment"] = id
                        /\ t.at["delegated"] # None
        OBVIOUS
  <2>4. status \in Statuses
        BY <1>1 DEF Statuses
  <2>5. Moved(u, v, status, {"assignment"}, times) /\ Given(v, p)
        BY <1>3, <1>8, <2>1, <2>2, <2>3, <2>4, StepMoved
  <2>6. v \in Tasks /\ x \in Stamp /\ "delegated" \in Times /\ "in_progress" \in States
        BY <1>8, <2>3, <2>5 DEF Moved, Times, States
  <2>7. t = [v EXCEPT !.state = "in_progress", !.at["delegated"] = x]
        BY <1>4, <2>3
  <2>8. /\ t.key = v.key /\ t.project = v.project /\ t.status = v.status /\ t.path = v.path
        /\ t.at = [v.at EXCEPT !["delegated"] = x] /\ t.state = "in_progress"
        BY <2>6, <2>7 DEF Tasks
  <2>9. t.at \in [Times -> Stamp] /\ t.at["delegated"] = x /\ x # None /\ \A y \in Times \ {"delegated"} : t.at[y] = v.at[y]
        BY <1>8, <2>3, <2>6, <2>8 DEF Tasks
  <2>10. t \in Tasks
    <3>1. t = [key |-> t.key, project |-> t.project, status |-> t.status, state |-> t.state, at |-> t.at, path |-> t.path]
          BY <2>6, <2>7 DEF Tasks
    <3>2. v.key \in AllKeys /\ v.project \in Projects \cup {None} /\ v.status \in Statuses /\ v.path \in PathSets
          BY <2>6 DEF Tasks
    <3> QED
        BY <2>6, <2>8, <2>9, <3>1, <3>2 DEF Tasks
  <2> QED
      BY <1>1, <2>1, <2>5, <2>8, <2>9, <2>10 DEF Moved, Given
<1>12. \A e \in l["snapshot"] : e.start \in Stamp
  <2>1. t \in Tasks /\ Replaced(tasks, q, i, t)
        BY <1>1, <1>11 DEF Moved, Replaced
  <2>2. \A e \in Snapshot(tasks) : e.start \in Stamp
        BY <1>3, <2>1, ReplacedStamps
  <2>3. l["snapshot"] = Snapshot(tasks)
        BY <1>1, <1>10
  <2> QED
      BY <2>2, <2>3
<1>13. /\ Changed(d, l, Rest) /\ l["gaps"] = d["gaps"]
       /\ l["projects"] = d["projects"] /\ l["delegated"] = d["delegated"]
       /\ l["incidents"] = d["incidents"] /\ l["nextActions"] = d["nextActions"]
       /\ l["redispatches"] = d["redispatches"] /\ l["assignments"] = all
       BY <1>10 DEF Changed, Rest, FileNames
<1>14. RestGrown(d, l)
  <2>1. old = d["assignments"]
        BY <1>1
  <2> QED
      BY <1>2, <1>7, <1>12, <1>13, <2>1, RestSame DEF RestGrown
<1>15. Fine(l, c) /\ Grown(d, l) /\ Cross(d, l)
  <2>1. /\ l["queue"] = [d["queue"] EXCEPT ![i] = t] /\ u = d["queue"][i] /\ i \in DOMAIN d["queue"]
        /\ u.path["redispatch"] # None
        BY <1>1, <1>3, <1>10
  <2>2. /\ id \in DOMAIN l["assignments"] /\ l["assignments"][id].key = u.key
        /\ u.path["assignment"] = id \/ l["assignments"][id].redispatch = u.path["redispatch"]
        BY <1>1, <1>7, <1>10
  <2> QED
      BY <1>2, <1>10, <1>11, <1>14, <2>1, <2>2, AssignFine
<1> QED
    BY <1>1, <1>10, <1>15 DEF Good

\* The write of Enqueue is good.
LEMMA EnqueueGood ==
  ASSUME NEW c, Fine(disk, c), now \in Stamp, NEW k \in AllKeys, NEW x \in Projects \cup {None}
  PROVE  Good(<<Put("queue", <<NewTask(k, x)>> \o queue)>>, c)
<1>1. SUFFICES ASSUME NEW d, d = disk, NEW t, t = NewTask(k, x), NEW tasks, tasks = <<t>> \o d["queue"],
                      NEW s, s = <<Put("queue", tasks)>>, NEW l, l = After(s, Len(s))
               PROVE  Good(s, c)
      BY DEF queue
<1>2. DOMAIN d = FileNames /\ Fine(d, c)
      BY <1>1, Known
<1>3. JobShape(s) /\ Ordered(s) /\ Changed(d, l, {"queue"}) /\ l["queue"] = tasks
  <2>1. "queue" \in FileNames /\ DOMAIN disk = FileNames /\ "queue" # "nextActions"
        BY <1>1, <1>2 DEF FileNames
  <2>2. s = <<Put("queue", tasks)>> /\ l = After(s, Len(s))
        BY <1>1
  <2>3. Left1(s, l, "queue", tasks)
        BY <2>1, <2>2, Job1
  <2> QED
      BY <1>1, <2>3 DEF Left1
<1>4. t \in Tasks /\ Blank(t)
  <2>1. t = [key |-> k, project |-> x, status |-> "queued", state |-> None,
             at |-> [y \in Times |-> IF y = "created" THEN now ELSE None], path |-> [f \in Paths |-> None]]
        BY <1>1 DEF NewTask
  <2>2. [y \in Times |-> IF y = "created" THEN now ELSE None] \in [Times -> Stamp]
        BY DEF Stamp
  <2>3. [f \in Paths |-> None] \in PathSets
        BY DEF PathSets, Numbers, Paths
  <2>4. "queued" \in Statuses /\ None \in States
        BY DEF Statuses, States
  <2>5. t \in Tasks
        BY <2>1, <2>2, <2>3, <2>4 DEF Tasks
  <2>6. Blank(t)
        BY <2>1 DEF Blank, Times
  <2> QED
      BY <2>5, <2>6
<1>5. Fine(l, c) /\ Grown(d, l) /\ Cross(d, l)
  <2>1. l["queue"] = <<t>> \o d["queue"]
        BY <1>1, <1>3
  <2> QED
      BY <1>2, <1>3, <1>4, <2>1, EnqueueFine
<1> QED
    BY <1>1, <1>3, <1>5 DEF Good

\* The queue put in another order, some tasks of it left out.
LEMMA NormalizeGood ==
  ASSUME NEW c, Fine(disk, c), NEW q, q = queue, NEW n \in Nat, NEW kept, kept \subseteq DOMAIN q, NEW order \in [1..n -> kept],
         \A m, k \in DOMAIN order : m < k => order[m] # order[k], NEW tasks, tasks = [m \in DOMAIN order |-> q[order[m]]]
  PROVE  Good(<<Put("queue", tasks)>>, c)
<1>1. SUFFICES ASSUME NEW d, d = disk, NEW s, s = <<Put("queue", tasks)>>, NEW l, l = After(s, Len(s))
               PROVE  Good(s, c)
      OBVIOUS
<1>2. DOMAIN d = FileNames /\ Fine(d, c) /\ d["queue"] \in Seq(Tasks) /\ \A j \in DOMAIN d["queue"] : d["queue"][j] \in Tasks
      BY <1>1, Known
<1>3. JobShape(s) /\ Ordered(s) /\ Changed(d, l, {"queue"}) /\ l["queue"] = tasks
  <2>1. "queue" \in FileNames /\ DOMAIN disk = FileNames /\ "queue" # "nextActions"
        BY <1>1, <1>2 DEF FileNames
  <2>2. s = <<Put("queue", tasks)>> /\ l = After(s, Len(s))
        BY <1>1
  <2>3. Left1(s, l, "queue", tasks)
        BY <2>1, <2>2, Job1
  <2> QED
      BY <1>1, <2>3 DEF Left1
<1>4. q = d["queue"]
      BY <1>1 DEF queue
<1>5. tasks \in Seq(Tasks) /\ DOMAIN tasks = 1..n
  <2>1. \A m \in 1..n : q[order[m]] \in Tasks
        BY <1>2, <1>4
  <2>2. tasks \in [1..n -> Tasks]
        BY <2>1
  <2> QED
      BY <2>2
<1>6. \A m, k \in 1..n : order[m] = order[k] => m = k
  <2>1. ASSUME NEW m \in 1..n, NEW k \in 1..n, order[m] = order[k] PROVE m = k
    <3>1. ~(m < k) /\ ~(k < m)
          BY <2>1
    <3> QED
        BY <3>1
  <2> QED
      BY <2>1
<1>7. \A m \in 1..n : order[m] \in DOMAIN d["queue"] /\ tasks[m] = d["queue"][order[m]]
      BY <1>4
<1>8. Fine(l, c) /\ Grown(d, l) /\ Cross(d, l)
  <2>1. /\ \A m, k \in DOMAIN l["queue"] : order[m] = order[k] => m = k
        /\ \A m \in DOMAIN l["queue"] : order[m] \in DOMAIN d["queue"] /\ l["queue"][m] = d["queue"][order[m]]
        /\ l["queue"] \in Seq(Tasks)
        BY <1>3, <1>5, <1>6, <1>7
  <2> QED
      BY <1>2, <1>3, <2>1, Reordered, ZenonT(30)
<1> QED
    BY <1>1, <1>3, <1>8 DEF Good


-------------------------------------------------------------------------------
(* Every step *)

\* What the invariant gives a script that starts.
LEMMA Ready ==
  ASSUME IInv PROVE Fine(disk, crashes > 0) /\ now \in 0..MaxEvents /\ now \in Stamp /\ now # None
<1>1. now \in Nat /\ now <= MaxEvents
      BY BoundsAssumption DEF IInv, Counters
<1>2. now \in 0..MaxEvents
      BY <1>1, BoundsAssumption
<1> QED
    BY <1>2, NoneAssumption DEF IInv, Stamp

\* A script whose writes are good.
LEMMA RunStep ==
  ASSUME IInv, Quiet, NEW s, Run(s), Good(s, crashes > 0)
  PROVE  IInv'
<1>1. /\ Fine(disk', crashes' > 0) /\ JobOK(job)'
      /\ crashes' = crashes \/ (MoreEvents /\ crashes' = crashes + 1)
      BY RunFine
<1>2. Counters'
      BY <1>1, BoundsAssumption DEF IInv, Counters, Quiet, MoreEvents
<1> QED
    BY <1>1, <1>2 DEF IInv

\* GoOn keeps the invariant.
LEMMA GoOnStep == ASSUME IInv, GoOn PROVE IInv'
<1>1. /\ Fine(disk', crashes' > 0)
      /\ crashes' = crashes \/ (MoreEvents /\ crashes' = crashes + 1)
      BY WriteFine DEF IInv, Counters, GoOn
<1>2. Counters'
      BY <1>1, BoundsAssumption DEF IInv, Counters, GoOn, Quiet, MoreEvents
<1>3. JobOK(job)'
      BY <1>1, Idle DEF GoOn
<1> QED
    BY <1>1, <1>2, <1>3 DEF IInv

\* Tick keeps the invariant.
LEMMA TickStep == ASSUME IInv, Tick PROVE IInv'
<1>1. Fine(disk', crashes' > 0) /\ job' = <<>>
      BY DEF IInv, Tick
<1>2. Counters'
      BY BoundsAssumption DEF IInv, Counters, Tick, MoreEvents
<1> QED
    BY <1>1, <1>2, Idle DEF IInv

\* DispatchHead keeps the invariant.
LEMMA DispatchHeadStep == ASSUME IInv, DispatchHead PROVE IInv'
<1>1. PICK q, k, t, ps, v :
        /\ q = queue /\ k = 1 /\ t = [Step(q[k], "in_progress", {"dispatched"}, <<>>) EXCEPT !.state = "in_progress"]
        /\ ps = [p \in Projects |-> IF p = t.project
                    THEN [disk.projects[p] EXCEPT !.status = "in_progress"] ELSE disk.projects[p]]
        /\ q # <<>> /\ q[k].status = "queued" /\ Quiet
        /\ Run(QueueAnd([q EXCEPT ![k] = t]) \o <<Put("projects", ps), Put("dispatched", v)>>)
  <2> DEFINE T == [Step(queue[1], "in_progress", {"dispatched"}, <<>>) EXCEPT !.state = "in_progress"]
  <2> WITNESS queue, 1, T,
              [p \in Projects |-> IF p = T.project
                 THEN [disk.projects[p] EXCEPT !.status = "in_progress"] ELSE disk.projects[p]],
              disk.dispatched \cup {<<T.key, now>>}
  <2> QED
      BY Zenon DEF DispatchHead
<1>2. Headed(q[k], t) /\ Promoted(disk, t.project, ps)
      BY <1>1, Zenon DEF Headed, Promoted
<1>3. Fine(disk, crashes > 0) /\ now \in Stamp /\ now # None /\ q = queue /\ k = 1 /\ q # <<>> /\ q[k].status = "queued"
      BY <1>1, Ready, Zenon
<1>4. Good(QueueAnd([q EXCEPT ![k] = t]) \o <<Put("projects", ps), Put("dispatched", v)>>, crashes > 0)
      BY <1>2, <1>3, DispatchHeadGood, Zenon
<1>5. \E s : Run(s) /\ Good(s, crashes > 0)
      BY <1>1, <1>4, Zenon
<1> QED
    BY <1>1, <1>5, RunStep

\* RequestHead keeps the invariant.
LEMMA RequestHeadStep == ASSUME IInv, RequestHead PROVE IInv'
<1>1. \E s : Run(s) /\ Good(s, crashes > 0) /\ Quiet
      BY Ready, RequestHeadGood, Zenon DEF RequestHead
<1> QED
    BY <1>1, RunStep

\* HandOff keeps the invariant.
LEMMA HandOffStep == ASSUME IInv, HandOff PROVE IInv'
<1>1. \E s : Run(s) /\ Good(s, crashes > 0) /\ Quiet
      BY Ready, HandOffGood, Zenon DEF HandOff
<1> QED
    BY <1>1, RunStep

\* PiDevRequest keeps the invariant.
LEMMA PiDevRequestStep == ASSUME IInv, PiDevRequest PROVE IInv'
<1>1. \E s : Run(s) /\ Good(s, crashes > 0) /\ Quiet
      BY Ready, PiDevRequestGood, Zenon DEF PiDevRequest
<1> QED
    BY <1>1, RunStep

\* Bundle keeps the invariant.
LEMMA BundleStep == ASSUME IInv, Bundle PROVE IInv'
<1>1. \E s : Run(s) /\ Good(s, crashes > 0) /\ Quiet
      BY Ready, BundleGood, Zenon DEF Bundle
<1> QED
    BY <1>1, RunStep

\* PiDevDispatch keeps the invariant.
LEMMA PiDevDispatchStep == ASSUME IInv, PiDevDispatch PROVE IInv'
<1>1. \E s : Run(s) /\ Good(s, crashes > 0) /\ Quiet
      BY Ready, PiDevDispatchGood, Zenon DEF PiDevDispatch
<1> QED
    BY <1>1, RunStep

\* Delegate keeps the invariant.
LEMMA DelegateStep == ASSUME IInv, Delegate PROVE IInv'
<1>1. \E s : Run(s) /\ Good(s, crashes > 0) /\ Quiet
      BY Ready, DelegateGood, Zenon DEF Delegate
<1> QED
    BY <1>1, RunStep

\* RefreshSnapshot keeps the invariant.
LEMMA RefreshStep == ASSUME IInv, RefreshSnapshot, Quiet PROVE IInv'
<1>1. \E s : Run(s) /\ Good(s, crashes > 0)
      BY Ready, RefreshGood, Zenon DEF RefreshSnapshot
<1> QED
    BY <1>1, RunStep

\* Gap keeps the invariant.
LEMMA GapStep == ASSUME IInv, Gap PROVE IInv'
<1>1. \E s : Run(s) /\ Good(s, crashes > 0) /\ Quiet
      BY Ready, GapGood, Zenon DEF Gap
<1> QED
    BY <1>1, RunStep

\* The script that enqueues writes one file, so it cannot die half-way.
LEMMA EnqueueStep ==
  ASSUME IInv, NEW k, NEW x, k \in AllKeys, x \in Projects \cup {None}, Enqueue(k, x)
  PROVE  IInv'
<1>1. SUFFICES ASSUME NEW s, s = <<Put("queue", <<NewTask(k, x)>> \o queue)>> PROVE IInv'
      OBVIOUS
<1>2. Good(s, crashes > 0) /\ Run(s)
      BY <1>1, Ready, EnqueueGood, Zenon DEF Enqueue
<1>3. Len(s) = 1
      BY <1>1
<1>4. Fine(disk', crashes' > 0) /\ JobOK(job)' /\ crashes' = crashes
      BY <1>2, <1>3, RunFine
<1>5. Counters'
      BY <1>4, BoundsAssumption DEF IInv, Counters, Enqueue, MoreEvents
<1> QED
    BY <1>4, <1>5 DEF IInv

\* Restore keeps the invariant.
LEMMA RestoreStep == ASSUME IInv, Restore PROVE IInv'
<1>1. PICK p : p = CHOOSE q \in Waiting : TRUE
      OBVIOUS
<1>2. p \in Waiting /\ Enqueue(<<p, disk.projects[p].gap>>, p)
      BY <1>1 DEF Restore
<1>3. p \in Projects /\ disk["projects"] \in [Projects -> ProjectStates]
      BY <1>2, Ready DEF Waiting, Fine, FilesOK
<1>4. disk["projects"][p].gap \in 0..MaxGaps
      BY <1>3 DEF ProjectStates
<1>5. <<p, disk.projects[p].gap>> \in AllKeys
      BY <1>3, <1>4 DEF AllKeys
<1> QED
    BY <1>2, <1>3, <1>5, EnqueueStep

\* Remediate keeps the invariant.
LEMMA RemediateStep == ASSUME IInv, NEW k, k \in Keys, Remediate(k) PROVE IInv'
<1>1. k \in AllKeys /\ None \in Projects \cup {None}
      BY DEF AllKeys
<1> QED
    BY <1>1, EnqueueStep DEF Remediate

\* Normalize keeps the invariant.
LEMMA NormalizeStep == ASSUME IInv, Normalize PROVE IInv'
<1>1. PICK kept \in SUBSET (DOMAIN queue) : \E order \in [1..Cardinality(kept) -> kept] :
        /\ \A m, k \in DOMAIN order : m < k => order[m] # order[k]
        /\ Run(<<Put("queue", [m \in DOMAIN order |-> queue[order[m]]])>>)
  <2>1. PICK fresh \in {[i \in DOMAIN queue |-> Freshest(queue[i])]}, kept \in SUBSET (DOMAIN queue) :
          \E order \in [1..Cardinality(kept) -> kept] :
            LET tasks == [m \in DOMAIN order |-> queue[order[m]]] IN
            /\ \A m, n \in DOMAIN order : m < n => order[m] # order[n] /\ fresh[order[m]] >= fresh[order[n]]
            /\ tasks # queue /\ Run(<<Put("queue", tasks)>>)
        BY Zenon DEF Normalize
  <2>2. PICK order \in [1..Cardinality(kept) -> kept] :
          /\ \A m, n \in DOMAIN order : m < n => order[m] # order[n] /\ fresh[order[m]] >= fresh[order[n]]
          /\ Run(<<Put("queue", [m \in DOMAIN order |-> queue[order[m]]])>>)
        BY <2>1, Zenon
  <2>3. \A m, k \in DOMAIN order : m < k => order[m] # order[k]
        BY <2>2, Zenon
  <2> QED
      BY <2>2, <2>3, Zenon
<1>2. Cardinality(kept) \in Nat
  <2>1. disk["queue"] \in Seq(Tasks)
        BY Ready DEF Fine, FilesOK
  <2>2. \E n \in Nat : DOMAIN queue = 1..n
        BY <2>1 DEF queue
  <2>3. IsFiniteSet(DOMAIN queue)
        BY <2>2, FS_Interval
  <2> QED
      BY <1>1, <2>3, FS_Subset, FS_CardinalityType
<1>3. \E s : Run(s) /\ Good(s, crashes > 0)
      BY <1>1, <1>2, Ready, NormalizeGood, Zenon
<1> QED
    BY <1>3, RunStep DEF Normalize


\* StaleIncident keeps the invariant.
LEMMA StaleIncidentStep == ASSUME IInv, StaleIncident PROVE IInv'
<1>1. PICK w \in Stale : \E i \in StaleTarget(w) : \E na :
        /\ na = [start |-> Started(queue[i].at), key |-> queue[i].key, index |-> i]
        /\ Run(<<Put("incidents", disk.incidents \cup {NameOf(na)}), Put("nextActions", Filed(na))>>
               \o QueueAnd([queue EXCEPT ![i] = [Step(queue[i], "stale_blocked", {}, [incident |-> NameOf(na)])
                                                   EXCEPT !.state = "needs_redispatch"]]))
      BY Zenon DEF StaleIncident
<1>2. PICK i, na, q, t :
        /\ i \in StaleTarget(w) /\ q = queue /\ na = [start |-> Started(q[i].at), key |-> q[i].key, index |-> i]
        /\ t = [Step(q[i], "stale_blocked", {}, [incident |-> NameOf(na)]) EXCEPT !.state = "needs_redispatch"]
        /\ Run(<<Put("incidents", disk.incidents \cup {NameOf(na)}), Put("nextActions", Filed(na))>>
               \o QueueAnd([q EXCEPT ![i] = t]))
      BY <1>1, Zenon
<1>3. i \in DOMAIN q
  <2>1. StaleTarget(w) \subseteq DOMAIN queue
        BY DEF StaleTarget, First
  <2> QED
      BY <1>2, <2>1
<1>4. Blocked(q[i], i, na, t)
      BY <1>2, Zenon DEF Blocked
<1>5. Good(<<Put("incidents", disk.incidents \cup {NameOf(na)}), Put("nextActions", Filed(na))>>
             \o QueueAnd([q EXCEPT ![i] = t]), crashes > 0)
      BY <1>2, <1>3, <1>4, Ready, StaleIncidentGood, Zenon
<1>6. \E s : Run(s) /\ Good(s, crashes > 0)
      BY <1>2, <1>5, Zenon
<1> QED
    BY <1>6, RunStep DEF StaleIncident

\* Redispatch keeps the invariant.
LEMMA RedispatchStep == ASSUME IInv, Redispatch PROVE IInv'
<1>1. PICK na \in FirstActions : \E i \in RedispatchTarget(na) : \E inc :
        /\ inc = IF queue[i].path["incident"] # None THEN queue[i].path["incident"] ELSE NameOf(na)
        /\ Quiet
        /\ Run(<<Put("redispatches", disk.redispatches + 1)>>
               \o QueueAnd([queue EXCEPT ![i] =
                    [Step(queue[i], "queued", {},
                       [redispatch |-> disk.redispatches + 1, source |-> NameOf(na), incident |-> inc])
                      EXCEPT !.state = "queued"]]))
      BY Zenon DEF Redispatch
<1>2. PICK i, inc, q, t :
        /\ i \in RedispatchTarget(na) /\ q = queue
        /\ inc = IF q[i].path["incident"] # None THEN q[i].path["incident"] ELSE NameOf(na)
        /\ t = [Step(q[i], "queued", {},
                  [redispatch |-> disk.redispatches + 1, source |-> NameOf(na), incident |-> inc])
                 EXCEPT !.state = "queued"]
        /\ Quiet
        /\ Run(<<Put("redispatches", disk.redispatches + 1)>> \o QueueAnd([q EXCEPT ![i] = t]))
      BY <1>1, Zenon
<1>3. i \in DOMAIN q
  <2>1. RedispatchTarget(na) \subseteq DOMAIN queue
        BY DEF RedispatchTarget, First
  <2> QED
      BY <1>2, <2>1
<1>4. na \in disk.nextActions
      BY DEF FirstActions
<1>5. Again(disk, q[i], na, t)
      BY <1>2, Zenon DEF Again
<1>6. Good(<<Put("redispatches", disk.redispatches + 1)>> \o QueueAnd([q EXCEPT ![i] = t]), crashes > 0)
      BY <1>2, <1>3, <1>4, <1>5, Ready, RedispatchGood, Zenon
<1>7. \E s : Run(s) /\ Good(s, crashes > 0)
      BY <1>2, <1>6, Zenon
<1> QED
    BY <1>2, <1>7, RunStep

\* Assign keeps the invariant.
LEMMA AssignStep == ASSUME IInv, Assign PROVE IInv'
<1>1. PICK i, own, id, all :
        /\ i \in First(queue, LAMBDA t : \/ t.status = "in_progress" /\ t.path["assignment"] # None
                                         \/ t.status = "queued" /\ t.path["redispatch"] # None)
        /\ own = OwnAssignment(queue[i])
        /\ id = IF own # {} THEN Only(own) ELSE Len(disk.assignments) + 1
        /\ all = IF own # {} THEN disk.assignments
                 ELSE Append(disk.assignments,
                        [key |-> queue[i].key, redispatch |-> queue[i].path["redispatch"], since |-> now])
        /\ Quiet
        /\ Run(IF queue[i].status = "in_progress" THEN <<Put("snapshot", Snapshot(queue))>>
               ELSE <<Put("assignments", all)>>
                      \o QueueAnd([queue EXCEPT ![i] =
                           [Step(queue[i], "in_progress", {}, [assignment |-> id])
                             EXCEPT !.state = "in_progress", !.at["delegated"] = all[id].since]]))
      BY Zenon DEF Assign
<1>2. /\ i \in DOMAIN queue
      /\ queue[i].status # "in_progress" => queue[i].path["redispatch"] # None
      BY <1>1 DEF First
<1>3. CASE queue[i].status = "in_progress"
  <2>1. Run(<<Put("snapshot", Snapshot(queue))>>)
        BY <1>1, <1>3, Zenon
  <2>2. \E s : Run(s) /\ Good(s, crashes > 0)
        BY <2>1, Ready, RefreshGood, Zenon
  <2> QED
      BY <1>1, <2>2, RunStep
<1>4. CASE queue[i].status # "in_progress"
  <2>1. Run(<<Put("assignments", all)>>
              \o QueueAnd([queue EXCEPT ![i] =
                   [Step(queue[i], "in_progress", {}, [assignment |-> id])
                     EXCEPT !.state = "in_progress", !.at["delegated"] = all[id].since]]))
        BY <1>1, <1>4, Zenon
  <2>2. PICK q, t :
          /\ q = queue
          /\ t = [Step(q[i], "in_progress", {}, [assignment |-> id])
                    EXCEPT !.state = "in_progress", !.at["delegated"] = all[id].since]
          /\ Run(<<Put("assignments", all)>> \o QueueAnd([q EXCEPT ![i] = t]))
        BY <2>1, Zenon
  <2>3. own = OwnAssignment(q[i]) /\ Assigned(disk, q[i], own, all, id, t)
        BY <1>1, <2>2, Zenon DEF Assigned
  <2>4. i \in DOMAIN q /\ q[i].path["redispatch"] # None
        BY <1>2, <1>4, <2>2, Zenon
  <2>5. Good(<<Put("assignments", all)>> \o QueueAnd([q EXCEPT ![i] = t]), crashes > 0)
        BY <2>2, <2>3, <2>4, Ready, AssignGood, Zenon
  <2>6. \E s : Run(s) /\ Good(s, crashes > 0)
        BY <2>2, <2>5, Zenon
  <2> QED
      BY <1>1, <2>6, RunStep
<1> QED
    BY <1>3, <1>4

\* The empty queue.
LEMMA InitIInv == Init => IInv
<1> SUFFICES ASSUME Init PROVE IInv
    OBVIOUS
<1>1. Counters
      BY BoundsAssumption DEF Init, Counters
<1>2. /\ disk["queue"] = <<>> /\ disk["snapshot"] = {} /\ disk["gaps"] = 0
      /\ disk["projects"] = [p \in Projects |-> [status |-> "in_progress", gap |-> 0]]
      /\ disk["requests"] = <<>> /\ disk["handoffs"] = <<>> /\ disk["pidevs"] = <<>>
      /\ disk["dispatches"] = 0 /\ disk["delegated"] = 0 /\ disk["redispatches"] = 0
      /\ disk["assignments"] = <<>> /\ disk["nextActions"] = {}
      BY DEF Init
<1>3. disk = [f \in FileNames |-> disk[f]]
      BY DEF Init, FileNames
<1>4. /\ <<>> \in Seq(Tasks) /\ <<>> \in Seq(RequestStates) /\ <<>> \in Seq(PiDevs) /\ <<>> \in Seq(Assignments)
      /\ DOMAIN <<>> = {} /\ <<>> \in [{} -> HandoffStates]
      OBVIOUS
<1>5. disk["projects"] \in [Projects -> ProjectStates] /\ disk["gaps"] \in 0..MaxGaps
      BY <1>2, BoundsAssumption DEF ProjectStates
<1>6. FilesOK(disk)
      BY <1>2, <1>3, <1>4, <1>5 DEF FilesOK
<1>7. Apart(disk) /\ \A i \in DOMAIN disk["queue"] : TaskFine(disk, disk["queue"][i], crashes > 0)
      BY <1>2, <1>4 DEF Apart
<1>8. Fine(disk, crashes > 0)
      BY <1>6, <1>7 DEF Fine
<1>9. job = <<>>
      BY DEF Init
<1> QED
    BY <1>1, <1>8, <1>9, Idle DEF IInv

\* Every step keeps the invariant.
LEMMA NextIInv == IInv /\ [Next]_vars => IInv'
<1> SUFFICES ASSUME IInv, [Next]_vars PROVE IInv'
    OBVIOUS
<1>1. CASE GoOn
      BY <1>1, GoOnStep
<1>2. CASE Tick
      BY <1>2, TickStep
<1>3. CASE Scripts
      BY <1>3, DispatchHeadStep, RequestHeadStep, HandOffStep, PiDevRequestStep, BundleStep, PiDevDispatchStep,
         DelegateStep, StaleIncidentStep, RedispatchStep, AssignStep, Zenon DEF Scripts
<1>4. CASE Normalize
      BY <1>4, NormalizeStep
<1>5. CASE RefreshSnapshot /\ Quiet
      BY <1>5, RefreshStep
<1>6. CASE Restore \/ Gap \/ \E k \in Keys : Remediate(k)
      BY <1>6, RestoreStep, GapStep, RemediateStep
<1>7. CASE \E i \in Completable : Complete(i)
  <2>1. Completable \subseteq DOMAIN queue
        BY DEF Completable
  <2> QED
      BY <1>7, <2>1, CompleteFine
<1>8. CASE UNCHANGED vars
  <2>1. UNCHANGED <<disk, job, now, adds, crashes>>
        BY <1>8 DEF vars
  <2>2. JobOK(job)'
    <3>1. \A n : After(job, n)' = After(job, n)
          BY <2>1 DEF After
    <3>2. JobOK(job)
          BY DEF IInv
    <3> QED
        BY <2>1, <3>1, <3>2 DEF JobOK
  <2> QED
      BY <2>1, <2>2 DEF IInv, Counters
<1> QED
    BY <1>1, <1>2, <1>3, <1>4, <1>5, <1>6, <1>7, <1>8, Zenon DEF Next

\* The invariant holds in every state: at any time, for any numbers of tasks, ticks and
\* crashes, the files are fine now and after any part of what the running script writes.
THEOREM Inductive == Spec => []IInv
<1> QED
    BY InitIInv, NextIInv, PTL DEF Spec


-------------------------------------------------------------------------------
(* The properties *)

\* The invariant is stronger than TypeOK.
LEMMA FineTypeOK == IInv => TypeOK
<1> SUFFICES ASSUME IInv PROVE TypeOK
    OBVIOUS
<1>1. FilesOK(disk)
      BY Ready DEF Fine
<1>2. \A i \in DOMAIN disk["queue"] : disk["queue"][i] \in Tasks
      BY <1>1, Elements DEF FilesOK
<1>3. \A t \in Tasks :
        /\ t.key \in AllKeys /\ t.project \in Projects \cup {None} /\ t.status \in Statuses
        /\ t.state \in {None, "queued", "in_progress", "needs_redispatch", "completed"}
        /\ t.at \in [Times -> Stamp] /\ DOMAIN t.path = Paths
      BY DEF Tasks, States, PathSets
<1>4. /\ \A e \in disk["snapshot"] : e.start \in Stamp
      /\ \A r \in DOMAIN disk["requests"] : disk["requests"][r] \in RequestStates
      /\ DOMAIN disk["handoffs"] \subseteq DOMAIN disk["requests"]
      /\ \A q \in DOMAIN disk["pidevs"] : disk["pidevs"][q].request \in DOMAIN disk["handoffs"]
      BY <1>1, Elements DEF FilesOK
<1>5. adds + now + crashes <= MaxEvents
      BY DEF IInv, Counters
<1> QED
    BY <1>2, <1>3, <1>4, <1>5 DEF TypeOK, queue, RequestStates

\* The invariant is stronger than Trail.
LEMMA FineTrail == IInv => Trail
<1> SUFFICES ASSUME IInv PROVE Trail
    OBVIOUS
<1>1. SUFFICES ASSUME NEW d, d = disk, NEW q, q = d.queue, NEW i \in DOMAIN q
               PROVE  LET path == q[i].path IN
      /\ path["request"] # None => path["request"] \in DOMAIN d.requests
      /\ path["handoff"] # None => path["handoff"] = path["request"] /\ path["handoff"] \in DOMAIN d.handoffs
      /\ path["pidev"] # None =>
           /\ path["pidev"] \in DOMAIN d.pidevs
           /\ Remade(q[i]) \/ d.pidevs[path["pidev"]].request = path["request"]
      /\ path["bundle"] # None =>
           /\ path["bundle"] \in d.bundles
           /\ Remade(q[i]) \/ d.pidevs[path["bundle"]].request = path["request"]
      /\ path["dispatch"] # None => path["dispatch"] \in 1..d.dispatches
      /\ path["delegated"] # None => path["delegated"] \in 1..d.delegated
      /\ path["incident"] # None => path["incident"] \in d.incidents
      /\ path["assignment"] # None => d.assignments[path["assignment"]].key = q[i].key
      /\ \A j \in DOMAIN q \ {i} : \A f \in {"request", "pidev", "dispatch", "delegated", "assignment"} :
           path[f] # None => q[j].path[f] # path[f]
      BY DEF Trail, queue
<1>2. Apart(d) /\ Linked(d, q[i], crashes > 0)
      BY <1>1, Ready DEF Fine, TaskFine
<1>3. \A j \in DOMAIN q \ {i} : \A f \in {"request", "pidev", "dispatch", "delegated", "assignment"} :
        q[i].path[f] # None => q[j].path[f] # q[i].path[f]
      BY <1>1, <1>2 DEF Apart, Own
<1> QED
    BY <1>2, <1>3 DEF Linked, Remade

\* The invariant is stronger than Findable.
LEMMA FineFindable == IInv => Findable
<1> SUFFICES ASSUME IInv, crashes = 0, NEW d, d = disk, NEW i \in DOMAIN d["queue"], NEW t, t = d["queue"][i]
             PROVE  /\ t.status = "in_progress" => Started([t.at EXCEPT !["created"] = None]) # None
                    /\ t.status = "requested_execution" => d["requests"][t.path["request"]] = "requested"
                    /\ t.status = "handed_off" =>
                         IF t.path["pidev"] = None THEN d["handoffs"][t.path["handoff"]] = "handed_off"
                         ELSE d["pidevs"][t.path["pidev"]].status = "requested"
                    /\ t.status = "pi_dev_bundled" =>
                         /\ t.path["pidev"] # None /\ t.path["dispatch"] = None
                         /\ d["pidevs"][t.path["pidev"]].status = "bundled"
                    /\ t.status = "pi_dev_dispatch_ready" =>
                         t.at["delegated"] = None \/ t.path["assignment"] # None
                    /\ t.status = "stale_blocked" => \E na \in d["nextActions"] : NameOf(na) = t.path["incident"]
    BY DEF Findable, queue
<1>1. TaskFine(d, t, crashes > 0) /\ t \in Tasks
      BY Ready, Known
<1>2. ~(crashes > 0)
      OBVIOUS
<1>3. Served(d, t)
      BY <1>1, <1>2 DEF TaskFine
<1>4. ASSUME t.status = "in_progress" PROVE Started([t.at EXCEPT !["created"] = None]) # None
  <2>1. SUFFICES ASSUME NEW at, at = [t.at EXCEPT !["created"] = None] PROVE Started(at) # None
        OBVIOUS
  <2>2. t.at["dispatched"] # None \/ t.at["delegated"] # None
        BY <1>1, <1>4 DEF TaskFine, Staged
  <2>3. at["dispatched"] = t.at["dispatched"] /\ at["delegated"] = t.at["delegated"]
        BY <1>1, <2>1 DEF Tasks, Times
  <2> QED
      BY <2>2, <2>3 DEF Started
<1> QED
    BY <1>3, <1>4 DEF Served

\* The files hold what they should, and refer to what is there (TypeOK).
THEOREM TypeCorrect == Spec => []TypeOK
<1> QED
    BY Inductive, FineTypeOK, PTL

\* Every file that a task names is there and was written for this very task (Trail).
THEOREM TrailCorrect == Spec => []Trail
<1> QED
    BY Inductive, FineTrail, PTL

\* Unless a script died half-way, every open task, but for the exceptions that Findable
\* names, has what the script it waits for looks for (Findable).
THEOREM AlwaysFindable == Spec => []Findable
<1> QED
    BY Inductive, FineFindable, PTL

===============================================================================

------------------------- MODULE CronService_proofs ---------------------------
(***************************************************************************)
(* The safety properties of CronService for any sets of jobs and times,    *)
(* any period, and any number of writers and crashes.                      *)
(*                                                                         *)
(* None of them is inductive.  A tick keeps in its hands, and a reload     *)
(* brings back from the file, what the store no longer shows: IInv says    *)
(* what is true of both copies of the list and of the tick at every step.  *)
(***************************************************************************)
EXTENDS CronService, Integers, WellFoundedInduction, TLAPS

\* A run of recurring job j at time t keeps its distance to the one that ended at e.
Apart(j, t, e) ==
  IF j \in EveryJobs THEN t >= e + Period ELSE t \div Period > e \div Period

\* Running j at time t, after r runs the last of which ended at e, would be neither a
\* second delivery nor too soon.
Fresh(j, t, r, e) ==
  IF j \in AtJobs THEN r = 0 ELSE e # 0 => Apart(j, t, e)

\* The service and the tick: what is in memory only while something runs.
TickInv ==
  /\ ~running => store = Empty /\ cur = None /\ ~stale
  /\ cur = None => due = {}
  /\ cur # None => wake = 0 /\ cur \notin due
  /\ cur # None /\ ~orphan => \A j \in due \cup {cur} : j \in AtJobs \/ j \in DOMAIN store

\* The jobs anything knows of were created.
CreatedInv ==
  /\ \A j \in DOMAIN store \cup DOMAIN file \cup removed \cup due \cup told : at[j] # 0
  /\ cur # None => at[cur] # 0
  /\ \A j \in Jobs : ran[j] > 0 \/ last[j] > 0 => at[j] # 0

\* Without a writer from outside, memory lags the file in finished one-time jobs only.
MemoryInv ==
  running /\ ~stale => \A j \in DOMAIN file \ DOMAIN store : j \in AtJobs /\ ran[j] > 0

\* While no job runs, the timer covers the file as it covers memory.
FileCovered ==
  running /\ cur = None =>
    \A j \in Scheduled(file) \ foreign : wake # 0 /\ wake <= file[j].next

\* What the next run t of a listed job may be at time u.
Plausible(j, t, a, u) ==
  IF j \in AtJobs THEN t \in {Never, a} ELSE t <= NextRun(j, a, u)

PlausibleInv ==
  /\ \A j \in DOMAIN store : Plausible(j, store[j].next, at[j], now)
  /\ \A j \in DOMAIN file : Plausible(j, file[j].next, at[j], now)

HistoryInv ==
  \A j \in Jobs :
    /\ last[j] <= now
    /\ ran[j] > 0 => at[j] <= now
    /\ ran[j] = 2 => j \in dropped

\* A run the tick has recorded in memory only.
Behind(j) ==
  IF j \in AtJobs THEN ran[j] > 0 /\ j \notin DOMAIN store
                  ELSE j \in DOMAIN store /\ file[j].next < store[j].next

\* Whatever is scheduled may run, or the tick in progress knows better.
FreshInv ==
  running =>
    /\ \A j \in Scheduled(store) \ dropped : Fresh(j, store[j].next, ran[j], last[j])
    /\ \A j \in Scheduled(file) \ dropped :
         Fresh(j, file[j].next, ran[j], last[j]) \/ (cur # None /\ Behind(j))

\* The tick has only jobs in hand whose time has come.
InHandInv ==
  \A j \in Jobs : j \in due \/ j = cur =>
    /\ j \in AtJobs => at[j] <= now
    /\ j \notin dropped => Fresh(j, now, ran[j], last[j])

\* In the order of the proof: each group is kept by the ones before it.
ListInv == CreatedInv /\ MemoryInv /\ JobsKept
TimerInv == TimerCovers /\ FileCovered
RunsInv == HistoryInv /\ FreshInv /\ InHandInv

IInv == TypeOK /\ TickInv /\ ListInv /\ TimerInv /\ PlausibleInv /\ RunsInv

-------------------------------------------------------------------------------
(* Numbers *)

\* A non-empty set of naturals has a least element.
LEMMA Least == ASSUME NEW S, S \subseteq Nat, S # {}
               PROVE  \E x \in S : \A y \in S : x <= y
<1>1. \E R : IsWellFoundedOn(R, Nat) /\ R = {ss \in Nat \X Nat : ss[1] < ss[2]}
  <2>1. OpToRel(<, Nat) = {ss \in Nat \X Nat : ss[1] < ss[2]}
        BY Zenon DEF OpToRel
  <2>2. IsWellFoundedOn(OpToRel(<, Nat), Nat)
        BY NatLessThanWellFounded
  <2> QED
      BY <2>1, <2>2, Zenon
<1>2. PICK R : IsWellFoundedOn(R, Nat) /\ R = {ss \in Nat \X Nat : ss[1] < ss[2]}
      BY <1>1
<1>3. PICK x \in S : \A y \in S : ~ (<<y, x>> \in R)
      BY <1>2, WFMin
<1>4. ASSUME NEW y \in S PROVE x <= y
  <2>1. x \in Nat /\ y \in Nat
        OBVIOUS
  <2>2. ~ (<<y, x>> \in {ss \in Nat \X Nat : ss[1] < ss[2]})
        BY <1>2, <1>3, Zenon
  <2>3. ~ (y < x)
        BY <2>1, <2>2
  <2> QED
      BY <2>1, <2>3
<1> QED
    BY <1>4

\* Which match of the cron expression a time belongs to.
LEMMA Matches ==
  ASSUME NEW P \in Nat \ {0}, NEW a \in Nat
  PROVE  /\ a \div P \in Nat
         /\ (a \div P + 1) * P \in Nat
         /\ (a \div P + 1) * P > a
         /\ (a \div P + 1) * P <= a + P
         /\ ((a \div P + 1) * P) \div P = a \div P + 1
         /\ \A b \in Nat : a <= b => a \div P <= b \div P /\ (a \div P + 1) * P <= (b \div P + 1) * P
<1>1. a \div P \in Nat
      OBVIOUS
<1>2. (a \div P) * P <= a /\ a < (a \div P) * P + P
      OBVIOUS
<1>3. \A b \in Nat : a <= b => a \div P <= b \div P
      OBVIOUS
<1>4. ((a \div P + 1) * P) \div P = a \div P + 1
      OBVIOUS
<1>5. \A q \in Nat : (q + 1) * P = q * P + P /\ (q + 1) * P \in Nat
      OBVIOUS
<1>6. \A q \in Nat, r \in Nat : q <= r => (q + 1) * P <= (r + 1) * P
      OBVIOUS
<1>7. \A b \in Nat : b \div P \in Nat
      OBVIOUS
<1> QED
    BY <1>1, <1>2, <1>3, <1>4, <1>5, <1>6, <1>7

-------------------------------------------------------------------------------
(* The list of jobs *)

\* A next run lies within the horizon: at_ms or never for a one-time job; for the
\* others after now, no later than a later computation would put it, and apart from
\* every run that has ended.
LEMMA NextRunFacts ==
  ASSUME NEW j \in Jobs, NEW a \in 0..MaxTime, NEW t \in 1..MaxTime
  PROVE  /\ NextRun(j, a, t) \in 0..Horizon
         /\ j \in AtJobs => NextRun(j, a, t) = IF a > t THEN a ELSE Never
         /\ j \notin AtJobs =>
              /\ NextRun(j, a, t) > t
              /\ \A b \in 0..MaxTime, u \in 1..MaxTime :
                   t <= u => NextRun(j, a, t) <= NextRun(j, b, u)
              /\ \A e \in 0..MaxTime : e <= t =>
                   IF j \in EveryJobs THEN NextRun(j, a, t) >= e + Period
                                      ELSE NextRun(j, a, t) \div Period > e \div Period
<1> USE JobsAssumption, TimeAssumption
<1>1. CASE j \in AtJobs
      BY <1>1 DEF NextRun, Horizon, Never
<1>2. CASE j \in EveryJobs
  <2>1. \A b, u : NextRun(j, b, u) = u + Period
        BY <1>2 DEF NextRun
  <2> QED
      BY <1>2, <2>1 DEF Horizon
<1>3. CASE j \in CronJobs
  <2>1. \A b, u : NextRun(j, b, u) = (u \div Period + 1) * Period
        BY <1>3 DEF NextRun
  <2>2. ASSUME NEW u \in 1..MaxTime, NEW b \in 0..MaxTime
        PROVE  /\ NextRun(j, b, u) \in Nat /\ NextRun(j, b, u) > u
               /\ NextRun(j, b, u) <= u + Period
               /\ NextRun(j, b, u) \div Period = u \div Period + 1
    <3> DEFINE n == (u \div Period + 1) * Period
    <3>1. u \in Nat /\ Period \in Nat \ {0}
          OBVIOUS
    <3>2. n \in Nat /\ n > u /\ n <= u + Period /\ n \div Period = u \div Period + 1
          BY <3>1, Matches
    <3>3. NextRun(j, b, u) = n
          BY <2>1
    <3> QED
        BY <3>2, <3>3, Zenon
  <2>3. ASSUME NEW u \in 1..MaxTime, NEW b \in 0..MaxTime, t <= u
        PROVE  NextRun(j, a, t) <= NextRun(j, b, u)
    <3>1. u \in Nat /\ t \in Nat /\ Period \in Nat \ {0}
          OBVIOUS
    <3>2. (t \div Period + 1) * Period <= (u \div Period + 1) * Period
          BY <2>3, <3>1, Matches
    <3> QED
        BY <2>1, <3>2
  <2>4. ASSUME NEW e \in 0..MaxTime, e <= t
        PROVE  NextRun(j, a, t) \div Period > e \div Period
    <3>1. e \in Nat /\ t \in Nat /\ Period \in Nat \ {0}
          OBVIOUS
    <3>2. /\ e \div Period <= t \div Period
          /\ e \div Period \in Nat /\ t \div Period \in Nat
          BY <2>4, <3>1, Matches
    <3>3. a \in 0..MaxTime /\ NextRun(j, a, t) \div Period = t \div Period + 1
          BY <2>2
    <3> DEFINE x == NextRun(j, a, t) \div Period
               y == t \div Period
               z == e \div Period
    <3>4. x = y + 1 /\ z <= y /\ z \in Nat /\ y \in Nat
          BY <3>2, <3>3
    <3>5. x > z
      <4> HIDE DEF x, y, z
      <4> QED
          BY <3>4
    <3> QED
        BY <3>5
  <2>5. NextRun(j, a, t) \in 0..Horizon
        BY <2>2 DEF Horizon
  <2> QED
      BY <1>3, <2>2, <2>3, <2>4, <2>5
<1> QED
    BY <1>1, <1>2, <1>3 DEF Jobs

\* A list is a function on some of the jobs.
LEMMA StoreIs ==
  \A st : st \in Stores <=> DOMAIN st \subseteq Jobs /\ st \in [DOMAIN st -> Job]
<1>1. ASSUME NEW st, st \in Stores PROVE DOMAIN st \subseteq Jobs /\ st \in [DOMAIN st -> Job]
  <2>1. PICK S \in SUBSET Jobs : st \in [S -> Job]
        BY <1>1 DEF Stores
  <2> QED
      BY <2>1
<1>2. ASSUME NEW st, DOMAIN st \subseteq Jobs, st \in [DOMAIN st -> Job] PROVE st \in Stores
      BY <1>2 DEF Stores
<1> QED
    BY <1>1, <1>2

\* A fresh store, and a torn file as it is read, list no job.
LEMMA EmptyIs == Empty \in Stores /\ DOMAIN Empty = {}
<1>1. DOMAIN Empty = {}
      BY DEF Empty
<1>2. Empty \in [{} -> Job]
      BY DEF Empty
<1> QED
    BY <1>1, <1>2, StoreIs

\* Adding or replacing a job touches no other.
LEMMA WithIs ==
  ASSUME NEW st \in Stores, NEW j \in Jobs, NEW job \in Job
  PROVE  /\ With(st, j, job) \in Stores
         /\ DOMAIN With(st, j, job) = DOMAIN st \cup {j}
         /\ With(st, j, job)[j] = job
         /\ \A i \in DOMAIN st \ {j} : With(st, j, job)[i] = st[i]
<1>1. DOMAIN st \subseteq Jobs /\ st \in [DOMAIN st -> Job]
      BY StoreIs
<1>2. DOMAIN With(st, j, job) = DOMAIN st \cup {j}
      BY DEF With
<1>3. /\ With(st, j, job)[j] = job
      /\ \A i \in DOMAIN st \ {j} : With(st, j, job)[i] = st[i]
      BY DEF With
<1>4. With(st, j, job) \in [DOMAIN st \cup {j} -> Job]
      BY <1>1 DEF With
<1> QED
    BY <1>1, <1>2, <1>3, <1>4, StoreIs

\* Deleting a job touches no other.
LEMMA WithoutIs ==
  ASSUME NEW st \in Stores, NEW j
  PROVE  /\ Without(st, j) \in Stores
         /\ DOMAIN Without(st, j) = DOMAIN st \ {j}
         /\ \A i \in DOMAIN st \ {j} : Without(st, j)[i] = st[i]
<1>1. DOMAIN st \subseteq Jobs /\ st \in [DOMAIN st -> Job]
      BY StoreIs
<1>2. /\ DOMAIN Without(st, j) = DOMAIN st \ {j}
      /\ \A i \in DOMAIN st \ {j} : Without(st, j)[i] = st[i]
      BY DEF Without
<1>3. Without(st, j) \in [DOMAIN st \ {j} -> Job]
      BY <1>1 DEF Without
<1> QED
    BY <1>1, <1>2, <1>3, StoreIs

\* At a start every enabled job gets a next run counted from now.
LEMMA RecomputedIs ==
  ASSUME NEW st \in Stores, at \in [Jobs -> 0..MaxTime], now \in 1..MaxTime
  PROVE  /\ Recomputed(st) \in Stores
         /\ DOMAIN Recomputed(st) = DOMAIN st
         /\ \A j \in DOMAIN st :
              /\ Recomputed(st)[j].enabled = st[j].enabled
              /\ Recomputed(st)[j].next = IF st[j].enabled THEN NextRun(j, at[j], now) ELSE st[j].next
<1>1. DOMAIN st \subseteq Jobs /\ st \in [DOMAIN st -> Job]
      BY StoreIs
<1>2. DOMAIN Recomputed(st) = DOMAIN st
      BY DEF Recomputed
<1>3. ASSUME NEW j \in DOMAIN st
      PROVE  /\ Recomputed(st)[j] \in Job
             /\ Recomputed(st)[j].enabled = st[j].enabled
             /\ Recomputed(st)[j].next = IF st[j].enabled THEN NextRun(j, at[j], now) ELSE st[j].next
  <2>1. st[j] \in Job /\ NextRun(j, at[j], now) \in 0..Horizon
        BY <1>1, NextRunFacts
  <2>2. Recomputed(st)[j] = IF st[j].enabled THEN [st[j] EXCEPT !.next = NextRun(j, at[j], now)] ELSE st[j]
        BY DEF Recomputed
  <2> QED
      BY <2>1, <2>2 DEF Job
<1>4. Recomputed(st) \in [DOMAIN st -> Job]
      BY <1>2, <1>3 DEF Recomputed
<1> QED
    BY <1>1, <1>2, <1>3, <1>4, StoreIs

\* The timer is set to the earliest next run.
LEMMA NextWakeIs ==
  ASSUME NEW st \in Stores
  PROVE  /\ NextWake(st) \in 0..Horizon
         /\ \A j \in Scheduled(st) : NextWake(st) # 0 /\ NextWake(st) <= st[j].next
<1>1. DOMAIN st \subseteq Jobs /\ \A j \in DOMAIN st : st[j].next \in 0..Horizon
      BY StoreIs DEF Job
<1>2. CASE Scheduled(st) = {}
      BY <1>2, TimeAssumption DEF NextWake, Never, Horizon
<1>3. CASE Scheduled(st) # {}
  <2> DEFINE T == {st[j].next : j \in Scheduled(st)}
  <2>1. T \subseteq 0..Horizon /\ T # {} /\ 0 \notin T
        BY <1>1, <1>3 DEF Scheduled, Never
  <2>2. T \subseteq Nat
        BY <2>1
  <2>3. \E t \in T : \A u \in T : t <= u
    <3> HIDE DEF T
    <3> QED
        BY <2>1, <2>2, Least
  <2>4. \E t \in T : \A j \in Scheduled(st) : t <= st[j].next
        BY <2>3
  <2>5. NextWake(st) = CHOOSE t \in T : \A j \in Scheduled(st) : t <= st[j].next
        BY <1>3 DEF NextWake
  <2>6. NextWake(st) \in T /\ \A j \in Scheduled(st) : NextWake(st) <= st[j].next
    <3> HIDE DEF T
    <3> QED
        BY <2>4, <2>5
  <2> QED
      BY <2>1, <2>6
<1> QED
    BY <1>2, <1>3

\* What a finished run leaves of the list.
LEMMA RescheduledIs ==
  ASSUME TypeOK, NEW j \in Jobs
  PROVE  /\ Rescheduled(j) \in Stores
         /\ DOMAIN Rescheduled(j) = DOMAIN store \ (IF j \in AtJobs THEN {j} ELSE {})
         /\ \A i \in DOMAIN store \ {j} : Rescheduled(j)[i] = store[i]
         /\ j \in DOMAIN store /\ j \notin AtJobs =>
              Rescheduled(j)[j].next = IF orphan THEN store[j].next ELSE NextRun(j, at[j], now)
<1> USE TimeAssumption
<1>1. store \in Stores /\ at[j] \in 0..MaxTime /\ now \in 1..MaxTime
      BY DEF TypeOK
<1>2. DOMAIN store \subseteq Jobs /\ store \in [DOMAIN store -> Job]
      BY <1>1, StoreIs
<1>3. NextRun(j, at[j], now) \in 0..Horizon
      BY <1>1, NextRunFacts
<1>4. CASE j \in AtJobs
      BY <1>1, <1>4, WithoutIs DEF Rescheduled
<1>5. CASE j \notin AtJobs /\ orphan
      BY <1>1, <1>5 DEF Rescheduled
<1>6. CASE j \notin AtJobs /\ ~orphan
  <2> DEFINE st == [store EXCEPT ![j].next = NextRun(j, at[j], now)]
  <2>1. Rescheduled(j) = st
        BY <1>6 DEF Rescheduled
  <2>2. DOMAIN st = DOMAIN store /\ \A i \in DOMAIN store \ {j} : st[i] = store[i]
        BY <1>2
  <2>3. j \in DOMAIN store => st[j] = [store[j] EXCEPT !.next = NextRun(j, at[j], now)]
        BY <1>2
  <2>4. j \in DOMAIN store => st[j] \in Job /\ st[j].next = NextRun(j, at[j], now)
        BY <1>2, <1>3, <2>3 DEF Job
  <2>5. \A i \in DOMAIN store : st[i] \in Job
        BY <1>2, <2>2, <2>4
  <2>6. st \in [DOMAIN store -> Job]
        BY <2>2, <2>5
  <2>7. st \in Stores
        BY <1>2, <2>2, <2>6, StoreIs
  <2> QED
      BY <1>6, <2>1, <2>2, <2>4, <2>7
<1> QED
    BY <1>4, <1>5, <1>6

\* A job that is added, by the tool or by another process.
LEMMA NewJobIs ==
  ASSUME TypeOK, NEW j \in Jobs, NEW t \in Times(j), NEW b \in BOOLEAN
  PROVE  /\ t \in 1..MaxTime
         /\ [enabled |-> b, next |-> NextRun(j, t, now)] \in Job
<1>1. t \in 1..MaxTime /\ now \in 1..MaxTime
      BY TimeAssumption DEF Times, TypeOK
<1>2. t \in 0..MaxTime
      BY <1>1
<1>3. NextRun(j, t, now) \in 0..Horizon
      BY <1>1, <1>2, NextRunFacts
<1> QED
    BY <1>1, <1>3 DEF Job

\* What _load_store returns is a list too.
LEMMA LoadedIs ==
  ASSUME TypeOK PROVE Loaded \in Stores /\ Reverted \subseteq Jobs
<1>1. DOMAIN file \subseteq Jobs
      BY StoreIs DEF TypeOK
<1> QED
    BY <1>1 DEF TypeOK, Loaded, Reverted

-------------------------------------------------------------------------------
(* Types *)

\* The initial state has the types.
LEMMA InitType == Init => TypeOK
<1> SUFFICES ASSUME Init PROVE TypeOK
    OBVIOUS
<1>1. now \in 1..MaxTime /\ wake \in 0..Horizon /\ edits \in 0..MaxEdits /\ crashes \in 0..MaxCrashes
      BY TimeAssumption DEF Init, Horizon
<1>2. at \in [Jobs -> 0..MaxTime] /\ ran \in [Jobs -> 0..2] /\ last \in [Jobs -> 0..MaxTime]
      BY TimeAssumption DEF Init
<1>3. {running, stale, orphan, said, torn} \subseteq BOOLEAN /\ told \subseteq AtJobs /\ ~said
      BY DEF Init
<1>4. /\ store \in Stores /\ file \in Stores /\ cur \in Jobs \cup {None}
      /\ {due, removed, foreign, dropped} \subseteq SUBSET Jobs
      BY EmptyIs DEF Init
<1> QED
    BY <1>1, <1>2, <1>3, <1>4 DEF TypeOK

\* Every step of the service and of its world keeps the types.
LEMMA StepType == TypeOK /\ [Next]_vars => TypeOK'
<1> SUFFICES ASSUME TypeOK, [Next]_vars PROVE TypeOK'
    OBVIOUS
<1> USE TimeAssumption, JobsAssumption
<1>1. CASE Start
  <2>1. Recomputed(file) \in Stores /\ NextWake(Recomputed(file)) \in 0..Horizon
        BY RecomputedIs, NextWakeIs DEF TypeOK
  <2> QED
      BY <1>1, <2>1 DEF Start, SaveStore, ArmTimer, TypeOK, bounds
<1>2. CASE Crash
  <2>1. store' \in Stores /\ file' \in Stores
        BY <1>2, EmptyIs DEF Crash, TypeOK
  <2>2. {running, stale, orphan, said, torn}' \subseteq BOOLEAN /\ ~said'
        BY <1>2 DEF Crash, TypeOK
  <2>3. wake' \in 0..Horizon /\ crashes' \in 0..MaxCrashes
        BY <1>2 DEF Crash, TypeOK, Horizon
  <2> QED
      BY <1>2, <2>1, <2>2, <2>3 DEF Crash, TypeOK
<1>3. CASE ListJobs
      BY <1>3, LoadedIs DEF ListJobs, TypeOK, bounds
<1>4. CASE OnTimer
  <2>1. Loaded \in Stores /\ NextWake(Loaded) \in 0..Horizon /\ DOMAIN Loaded \subseteq Jobs
        BY LoadedIs, NextWakeIs, StoreIs
  <2>2. Due(Loaded) \subseteq Jobs
        BY <2>1 DEF Due, Scheduled
  <2>3. CASE Due(Loaded) = {}
    <3>1. SaveStore(Loaded) /\ ArmTimer(Loaded)
          BY <1>4, <2>3 DEF OnTimer
    <3> QED
        BY <1>4, <2>1, <3>1 DEF OnTimer, SaveStore, ArmTimer, TypeOK, bounds
  <2>4. CASE Due(Loaded) # {}
    <3>1. /\ store' = Loaded /\ file' = file /\ stale' = stale /\ wake' = 0
          /\ cur' \in Due(Loaded) /\ due' \subseteq Due(Loaded) /\ orphan' = FALSE /\ said' = FALSE
          /\ foreign' = foreign
          BY <1>4, <2>4 DEF OnTimer
    <3>2. {running, stale, orphan, said, torn}' \subseteq BOOLEAN
          BY <1>4, <3>1 DEF OnTimer, TypeOK
    <3>3. wake' \in 0..Horizon
          BY <3>1 DEF Horizon
    <3> QED
        BY <1>4, <2>1, <2>2, <3>1, <3>2, <3>3 DEF OnTimer, TypeOK, bounds
  <2> QED
      BY <2>3, <2>4
<1>5. CASE JobEnds
  <2>1. cur \in Jobs
        BY <1>5 DEF JobEnds, TypeOK
  <2>2. Rescheduled(cur) \in Stores /\ NextWake(Rescheduled(cur)) \in 0..Horizon
        BY <2>1, RescheduledIs, NextWakeIs
  <2>3. DOMAIN file \subseteq Jobs
        BY StoreIs DEF TypeOK
  <2>4. ran' \in [Jobs -> 0..2] /\ last' \in [Jobs -> 0..MaxTime]
        BY <1>5, <2>1 DEF JobEnds, TypeOK
  <2>5. dropped' \subseteq Jobs
        BY <1>5, <2>1, <2>3 DEF JobEnds, TypeOK
  <2>6. CASE due = {}
        BY <1>5, <2>2, <2>4, <2>5, <2>6 DEF JobEnds, SaveStore, ArmTimer, TypeOK, bounds
  <2>7. CASE due # {}
    <3>1. /\ store' = Rescheduled(cur) /\ cur' \in due /\ due' \subseteq due /\ ~said'
          /\ UNCHANGED <<file, stale, wake, orphan, foreign>>
          BY <1>5, <2>7 DEF JobEnds
    <3>2. {running, stale, orphan, said, torn}' \subseteq BOOLEAN
          BY <1>5, <2>7 DEF JobEnds, TypeOK
    <3>3. told' \subseteq AtJobs
          BY <1>5 DEF JobEnds, TypeOK
    <3> QED
        BY <1>5, <2>2, <2>4, <2>5, <3>1, <3>2, <3>3 DEF JobEnds, TypeOK, bounds
  <2> QED
      BY <2>6, <2>7
<1>6. CASE PassTime
      BY <1>6 DEF PassTime, TypeOK, tick, bounds, observers
<1>7. ASSUME NEW j \in Jobs, RemoveJob(j) PROVE TypeOK'
  <2>1. Without(Loaded, j) \in Stores /\ NextWake(Without(Loaded, j)) \in 0..Horizon
        BY LoadedIs, WithoutIs, NextWakeIs
  <2> QED
      BY <1>7, <2>1, LoadedIs DEF RemoveJob, SaveStore, ArmTimer, TypeOK, bounds
<1>8. ASSUME NEW j \in Jobs, NEW t \in Times(j), AddJob(j, t) PROVE TypeOK'
  <2> DEFINE job == [enabled |-> TRUE, next |-> NextRun(j, t, now)]
  <2>1. job \in Job /\ t \in 0..MaxTime
    <3>1. TRUE \in BOOLEAN
          OBVIOUS
    <3>2. t \in 1..MaxTime /\ job \in Job
          BY <3>1, NewJobIs, Zenon
    <3> QED
        BY <3>2
  <2>2. With(Loaded, j, job) \in Stores /\ NextWake(With(Loaded, j, job)) \in 0..Horizon
    <3> HIDE DEF job
    <3> QED
        BY <2>1, LoadedIs, WithIs, NextWakeIs
  <2> QED
      BY <1>8, <2>1, <2>2, LoadedIs DEF AddJob, SaveStore, ArmTimer, TypeOK, bounds
<1>9. ASSUME NEW j \in Jobs, ForeignRemove(j) PROVE TypeOK'
  <2>1. Without(file, j) \in Stores
        BY WithoutIs DEF TypeOK
  <2> QED
      BY <1>9, <2>1 DEF ForeignRemove, EditFile, TypeOK, tick
<1>10. ASSUME NEW j \in Jobs, NEW t \in Times(j), ForeignAdd(j, t) PROVE TypeOK'
  <2> DEFINE job == [enabled |-> TRUE, next |-> NextRun(j, t, now)]
  <2>1. job \in Job /\ t \in 0..MaxTime
    <3>1. TRUE \in BOOLEAN
          OBVIOUS
    <3>2. t \in 1..MaxTime /\ job \in Job
          BY <3>1, NewJobIs, Zenon
    <3> QED
        BY <3>2
  <2>2. With(file, j, job) \in Stores
    <3> HIDE DEF job
    <3> QED
        BY <2>1, WithIs DEF TypeOK
  <2> QED
      BY <1>10, <2>1, <2>2 DEF ForeignAdd, EditFile, TypeOK, tick
<1>11. ASSUME NEW j \in Jobs, NEW b \in BOOLEAN, ForeignEnable(j, b) PROVE TypeOK'
  <2> DEFINE job == [enabled |-> b, next |-> IF b THEN NextRun(j, at[j], now) ELSE Never]
  <2>1. NextRun(j, at[j], now) \in 0..Horizon
        BY NextRunFacts DEF TypeOK
  <2>2. job \in Job
        BY <2>1 DEF Job, Never, Horizon
  <2>3. With(file, j, job) \in Stores
    <3> HIDE DEF job
    <3> QED
        BY <2>2, WithIs DEF TypeOK
  <2> QED
      BY <1>11, <2>3 DEF ForeignEnable, EditFile, TypeOK, tick
<1>12. CASE UNCHANGED vars
      BY <1>12 DEF vars, tick, bounds, observers, TypeOK
<1>13. CASE Tell
      BY <1>13 DEF Tell, TypeOK, bounds
<1> QED
    BY <1>1, <1>2, <1>3, <1>4, <1>5, <1>6, <1>7, <1>8, <1>9, <1>10, <1>11, <1>12, <1>13 DEF Next

-------------------------------------------------------------------------------
(* Ticks, and which jobs are listed *)

\* Every save ends the tick; a tick that goes on has no timer and keeps its jobs listed.
LEMMA StepTick == TypeOK /\ TickInv /\ [Next]_vars => TickInv'
<1> SUFFICES ASSUME TypeOK, TickInv, [Next]_vars PROVE TickInv'
    OBVIOUS
<1> USE JobsAssumption
<1>1. ASSUME NEW st, SaveStore(st), ArmTimer(st), running' PROVE TickInv'
      BY <1>1 DEF SaveStore, ArmTimer, TickInv
<1>2. CASE Start
      BY <1>1, <1>2 DEF Start
<1>3. CASE Crash
      BY <1>3 DEF Crash, TickInv
<1>4. CASE ListJobs
      BY <1>4 DEF ListJobs, TickInv
<1>5. CASE OnTimer
  <2>1. CASE Due(Loaded) = {}
        BY <1>1, <1>5, <2>1 DEF OnTimer
  <2>2. CASE Due(Loaded) # {}
    <3>1. /\ store' = Loaded /\ wake' = 0 /\ running' = running /\ running
          /\ cur' \in Due(Loaded) /\ due' = Due(Loaded) \ {cur'} /\ orphan' = FALSE
          BY <1>5, <2>2 DEF OnTimer
    <3>2. DOMAIN Loaded \subseteq Jobs /\ Due(Loaded) \subseteq DOMAIN Loaded
          BY LoadedIs, StoreIs DEF Due, Scheduled
    <3> QED
        BY <3>1, <3>2 DEF TickInv
  <2> QED
      BY <2>1, <2>2
<1>6. CASE JobEnds
  <2>1. cur \in Jobs /\ due \subseteq Jobs /\ running' = running /\ running
        BY <1>6 DEF JobEnds, TypeOK
  <2>2. CASE due = {}
        BY <1>1, <1>6, <2>1, <2>2 DEF JobEnds
  <2>3. CASE due # {}
    <3>1. /\ store' = Rescheduled(cur) /\ cur' \in due /\ due' = due \ {cur'}
          /\ wake' = wake /\ orphan' = orphan /\ wake = 0
          BY <1>6, <2>3 DEF JobEnds, TickInv
    <3>2. \A i \in DOMAIN store \ {cur} : i \in DOMAIN Rescheduled(cur)
          BY <2>1, RescheduledIs
    <3>3. cur \notin due
          BY <1>6 DEF JobEnds, TickInv
    <3> QED
        BY <2>1, <3>1, <3>2, <3>3 DEF TickInv
  <2> QED
      BY <2>2, <2>3
<1>7. CASE PassTime
      BY <1>7 DEF PassTime, TickInv, tick
<1>8. ASSUME NEW j \in Jobs, RemoveJob(j) PROVE TickInv'
      BY <1>1, <1>8 DEF RemoveJob
<1>9. ASSUME NEW j \in Jobs, NEW t \in Times(j), AddJob(j, t) PROVE TickInv'
      BY <1>1, <1>9 DEF AddJob
<1>10. ASSUME NEW j, NEW st, EditFile(j, st) PROVE TickInv'
       BY <1>10 DEF EditFile, TickInv, tick, TypeOK
<1>11. ASSUME NEW j \in Jobs, ForeignRemove(j) PROVE TickInv'
       BY <1>10, <1>11 DEF ForeignRemove
<1>12. ASSUME NEW j \in Jobs, NEW t \in Times(j), ForeignAdd(j, t) PROVE TickInv'
       BY <1>10, <1>12 DEF ForeignAdd
<1>13. ASSUME NEW j \in Jobs, NEW b \in BOOLEAN, ForeignEnable(j, b) PROVE TickInv'
       BY <1>10, <1>13 DEF ForeignEnable
<1>14. CASE UNCHANGED vars
       BY <1>14 DEF vars, tick, TickInv
<1>15. CASE Tell
       BY <1>15 DEF Tell, TickInv
<1> QED
    BY <1>2, <1>3, <1>4, <1>5, <1>6, <1>7, <1>8, <1>9, <1>11, <1>12, <1>13, <1>14, <1>15 DEF Next

\* The lists hold what they should: a job leaves them only through a removal, the end
\* of its one run, another process or a torn write.
LEMMA StepList == TypeOK /\ TickInv /\ ListInv /\ [Next]_vars => ListInv'
<1> SUFFICES ASSUME TypeOK, TickInv, ListInv, [Next]_vars PROVE ListInv'
    OBVIOUS
<1> USE JobsAssumption, TimeAssumption
<1> USE DEF ListInv, CreatedInv, MemoryInv, JobsKept, RemovedForGood, KeptUntilDone
<1>0. /\ DOMAIN store \subseteq Jobs /\ DOMAIN file \subseteq Jobs /\ DOMAIN Loaded \subseteq Jobs
      /\ Loaded \in Stores /\ file \in Stores
      /\ due \subseteq Jobs /\ cur \in Jobs \cup {None} /\ removed \subseteq Jobs /\ told \subseteq Jobs
      /\ \A i \in Jobs : at[i] \in Nat /\ ran[i] \in 0..2 /\ last[i] \in Nat
      BY LoadedIs, StoreIs DEF TypeOK, Jobs
<1>1. CASE Start
  <2>1. DOMAIN Recomputed(file) = DOMAIN file
        BY <1>0, RecomputedIs DEF TypeOK
  <2> QED
      BY <1>0, <1>1, <2>1 DEF Start, SaveStore, ArmTimer
<1>2. CASE Crash
      BY <1>0, <1>2, EmptyIs DEF Crash
<1>3. CASE ListJobs
      BY <1>0, <1>3 DEF ListJobs
<1>4. CASE OnTimer
  <2>1. /\ running /\ running' = running /\ at' = at /\ ran' = ran /\ last' = last
        /\ removed' = removed /\ told' = told /\ dropped' = dropped /\ torn' = torn
        BY <1>4 DEF OnTimer
  <2>2. CASE Due(Loaded) = {}
    <3>1. SaveStore(Loaded) /\ ArmTimer(Loaded)
          BY <1>4, <2>2 DEF OnTimer
    <3> QED
        BY <1>0, <2>1, <3>1 DEF SaveStore, ArmTimer, Loaded
  <2>3. CASE Due(Loaded) # {}
    <3>1. /\ store' = Loaded /\ file' = file /\ stale' = stale
          /\ cur' \in Due(Loaded) /\ due' \subseteq Due(Loaded)
          BY <1>4, <2>3 DEF OnTimer
    <3>2. Due(Loaded) \subseteq DOMAIN Loaded
          BY DEF Due, Scheduled
    <3> QED
        BY <1>0, <2>1, <3>1, <3>2 DEF Loaded
  <2> QED
      BY <2>2, <2>3
<1>5. CASE JobEnds
  <2>1. /\ running /\ running' = running /\ at' = at /\ removed' = removed /\ torn' = torn
        /\ cur \in Jobs /\ told' \subseteq told
        BY <1>0, <1>5 DEF JobEnds
  <2>2. DOMAIN Rescheduled(cur) = DOMAIN store \ (IF cur \in AtJobs THEN {cur} ELSE {})
        BY <2>1, RescheduledIs
  <2>3. /\ \A i \in Jobs : ran[i] > 0 => ran'[i] > 0
        /\ cur \in AtJobs => ran'[cur] > 0
        /\ \A i \in Jobs : ran'[i] > 0 \/ last'[i] > 0 => ran[i] > 0 \/ last[i] > 0 \/ i = cur
        /\ dropped \subseteq dropped'
        BY <1>0, <1>5, <2>1 DEF JobEnds, TypeOK
  <2>4. CASE due = {}
    <3>1. SaveStore(Rescheduled(cur)) /\ ArmTimer(Rescheduled(cur))
          BY <1>5, <2>4 DEF JobEnds
    <3>2. DOMAIN file \ (DOMAIN Rescheduled(cur) \cup {cur}) \subseteq dropped'
          BY <1>5, <2>4 DEF JobEnds
    <3>3. cur \in AtJobs \/ cur \in DOMAIN store \/ cur \in dropped'
          BY <1>5, <2>1 DEF JobEnds, TickInv
    <3>4. /\ DOMAIN store' = DOMAIN Rescheduled(cur) /\ DOMAIN file' = DOMAIN Rescheduled(cur)
          /\ stale' = FALSE /\ due' = {} /\ cur' = None
          BY <3>1 DEF SaveStore, ArmTimer
    <3>5. CreatedInv' /\ MemoryInv' /\ RemovedForGood'
          BY <1>0, <2>1, <2>2, <2>3, <3>4
    <3>6. KeptUntilDone'
          BY <1>0, <2>1, <2>2, <2>3, <3>2, <3>3, <3>4
    <3> QED
        BY <3>5, <3>6
  <2>5. CASE due # {}
    <3>1. /\ store' = Rescheduled(cur) /\ cur' \in due /\ due' \subseteq due
          /\ file' = file /\ stale' = stale
          BY <1>5, <2>5 DEF JobEnds
    <3> QED
        BY <1>0, <2>1, <2>2, <2>3, <3>1
  <2> QED
      BY <2>4, <2>5
<1>6. CASE PassTime
      BY <1>6 DEF PassTime, tick, observers
<1>7. ASSUME NEW j \in Jobs, RemoveJob(j) PROVE ListInv'
  <2>1. DOMAIN Without(Loaded, j) = DOMAIN Loaded \ {j}
        BY <1>0, WithoutIs
  <2>2. /\ SaveStore(Without(Loaded, j)) /\ ArmTimer(Without(Loaded, j))
        /\ removed' = removed \cup {j} /\ dropped \subseteq dropped' /\ j \in DOMAIN Loaded
        /\ UNCHANGED <<at, running, ran, last, torn>> /\ running
        /\ \A i \in told' : i \in told \/ (i = cur /\ cur # None)
        BY <1>7 DEF RemoveJob, Jobs
  <2>3. \A i \in told' : at[i] # 0
        BY <2>2
  <2> QED
      BY <1>0, <2>1, <2>2, <2>3 DEF SaveStore, ArmTimer, Loaded
<1>8. ASSUME NEW j \in Jobs, NEW t \in Times(j), AddJob(j, t) PROVE ListInv'
  <2> DEFINE job == [enabled |-> TRUE, next |-> NextRun(j, t, now)]
  <2>1. TRUE \in BOOLEAN
        OBVIOUS
  <2>2. t \in 1..MaxTime /\ job \in Job
        BY <2>1, NewJobIs, Zenon
  <2>3. /\ SaveStore(With(Loaded, j, job)) /\ ArmTimer(With(Loaded, j, job))
        /\ at[j] = 0 /\ at' = [at EXCEPT ![j] = t] /\ dropped \subseteq dropped'
        /\ UNCHANGED <<removed, told, running, ran, last, torn>> /\ running
        BY <1>8 DEF AddJob
  <2> HIDE DEF job
  <2>4. DOMAIN With(Loaded, j, job) = DOMAIN Loaded \cup {j}
        BY DEF With
  <2>5. \A i \in Jobs : at'[i] = IF i = j THEN t ELSE at[i]
        BY <2>3 DEF TypeOK
  <2> QED
      BY <1>0, <2>2, <2>3, <2>4, <2>5 DEF SaveStore, ArmTimer, Loaded
<1>9. ASSUME NEW j \in Jobs, ForeignRemove(j) PROVE ListInv'
  <2>1. DOMAIN Without(file, j) = DOMAIN file \ {j}
        BY <1>0, WithoutIs
  <2> QED
      BY <1>0, <1>9, <2>1 DEF ForeignRemove, EditFile, tick
<1>10. ASSUME NEW j \in Jobs, NEW t \in Times(j), ForeignAdd(j, t) PROVE ListInv'
  <2> DEFINE job == [enabled |-> TRUE, next |-> NextRun(j, t, now)]
  <2>1. TRUE \in BOOLEAN
        OBVIOUS
  <2>2. t \in 1..MaxTime /\ job \in Job
        BY <2>1, NewJobIs, Zenon
  <2>3. /\ file' = With(file, j, job) /\ stale' = running /\ at[j] = 0
        /\ at' = [at EXCEPT ![j] = t] /\ running' = running
        /\ UNCHANGED <<store, cur, due, ran, told, last, removed, dropped, torn>>
        BY <1>10 DEF ForeignAdd, EditFile, tick
  <2> HIDE DEF job
  <2>4. DOMAIN With(file, j, job) = DOMAIN file \cup {j}
        BY DEF With
  <2>5. \A i \in Jobs : at'[i] = IF i = j THEN t ELSE at[i]
        BY <2>3 DEF TypeOK
  <2> QED
      BY <1>0, <2>2, <2>3, <2>4, <2>5
<1>11. ASSUME NEW j \in Jobs, NEW b \in BOOLEAN, ForeignEnable(j, b) PROVE ListInv'
  <2> DEFINE job == [enabled |-> b, next |-> IF b THEN NextRun(j, at[j], now) ELSE Never]
  <2>1. /\ file' = With(file, j, job) /\ stale' = running /\ j \in DOMAIN file
        /\ running' = running
        /\ UNCHANGED <<at, store, cur, due, ran, told, last, removed, dropped, torn>>
        BY <1>11 DEF ForeignEnable, EditFile, tick
  <2> HIDE DEF job
  <2>2. DOMAIN With(file, j, job) = DOMAIN file
        BY <2>1 DEF With
  <2> QED
      BY <1>0, <2>1, <2>2
<1>12. CASE UNCHANGED vars
       BY <1>12 DEF vars, tick, observers
<1>13. CASE Tell
  <2>1. /\ UNCHANGED <<at, running, store, file, stale, cur, due, ran, last, removed, dropped, torn>>
        /\ cur # None /\ told' = told \cup {cur}
        BY <1>0, <1>13 DEF Tell, Jobs
  <2> QED
      BY <2>1
<1> QED
    BY <1>1, <1>2, <1>3, <1>4, <1>5, <1>6, <1>7, <1>8, <1>9, <1>10, <1>11, <1>12, <1>13 DEF Next

-------------------------------------------------------------------------------
(* The timer *)

\* After every save the timer covers both copies; another process adds to what it need
\* not cover, and a tick has no timer.
LEMMA StepTimer == TypeOK /\ TimerInv /\ [Next]_vars => TimerInv'
<1> SUFFICES ASSUME TypeOK, TimerInv, [Next]_vars PROVE TimerInv'
    OBVIOUS
<1> USE JobsAssumption, TimeAssumption
<1>0. /\ Loaded \in Stores /\ file \in Stores /\ store \in Stores
      /\ due \subseteq Jobs /\ cur \in Jobs \cup {None} /\ foreign \subseteq Jobs
      BY LoadedIs DEF TypeOK
<1>1. ASSUME NEW st \in Stores, SaveStore(st), ArmTimer(st) PROVE TimerInv'
  <2>1. store' = st /\ file' = st /\ wake' = NextWake(st)
        BY <1>1 DEF SaveStore, ArmTimer
  <2>2. Scheduled(store)' = Scheduled(st) /\ Scheduled(file)' = Scheduled(st)
        BY <2>1 DEF Scheduled
  <2>3. \A j \in Scheduled(st) : wake' # 0 /\ wake' <= st[j].next
        BY <2>1, NextWakeIs
  <2> QED
      BY <2>1, <2>2, <2>3 DEF TimerInv, TimerCovers, FileCovered
<1>2. CASE Start
  <2>1. Recomputed(file) \in Stores
        BY <1>0, RecomputedIs DEF TypeOK
  <2> QED
      BY <1>1, <1>2, <2>1 DEF Start
<1>3. CASE Crash
      BY <1>3 DEF Crash, TimerInv, TimerCovers, FileCovered
<1>4. CASE ListJobs
  <2>1. Scheduled(store)' = Scheduled(file) /\ Scheduled(file)' = Scheduled(file)
        BY <1>4 DEF ListJobs, Scheduled
  <2> QED
      BY <1>4, <2>1 DEF ListJobs, TimerInv, TimerCovers, FileCovered
<1>5. CASE OnTimer
  <2>1. CASE Due(Loaded) = {}
        BY <1>0, <1>1, <1>5, <2>1 DEF OnTimer
  <2>2. CASE Due(Loaded) # {}
    <3>1. DOMAIN Loaded \subseteq Jobs
          BY <1>0, StoreIs
    <3>2. cur' \in Jobs
          BY <1>5, <2>2, <3>1 DEF OnTimer, Due, Scheduled
    <3> QED
        BY <3>2 DEF TimerInv, TimerCovers, FileCovered
  <2> QED
      BY <2>1, <2>2
<1>6. CASE JobEnds
  <2>1. cur \in Jobs
        BY <1>0, <1>6 DEF JobEnds
  <2>2. CASE due = {}
        BY <1>1, <1>6, <2>1, <2>2, RescheduledIs DEF JobEnds
  <2>3. CASE due # {}
    <3>1. cur' \in Jobs
          BY <1>0, <1>6, <2>3 DEF JobEnds
    <3> QED
        BY <3>1 DEF TimerInv, TimerCovers, FileCovered
  <2> QED
      BY <2>2, <2>3
<1>7. CASE PassTime
      BY <1>7 DEF PassTime, tick, observers, TimerInv, TimerCovers, FileCovered, Scheduled
<1>8. ASSUME NEW j \in Jobs, RemoveJob(j) PROVE TimerInv'
      BY <1>0, <1>1, <1>8, WithoutIs DEF RemoveJob
<1>9. ASSUME NEW j \in Jobs, NEW t \in Times(j), AddJob(j, t) PROVE TimerInv'
  <2> DEFINE job == [enabled |-> TRUE, next |-> NextRun(j, t, now)]
  <2>1. TRUE \in BOOLEAN
        OBVIOUS
  <2>2. job \in Job
        BY <2>1, NewJobIs, Zenon
  <2>3. SaveStore(With(Loaded, j, job)) /\ ArmTimer(With(Loaded, j, job))
        BY <1>9 DEF AddJob
  <2> HIDE DEF job
  <2> QED
      BY <1>0, <1>1, <2>2, <2>3, WithIs
<1>10. ASSUME NEW j \in Jobs, NEW st,
              EditFile(j, st), \A i \in DOMAIN st \ {j} : i \in DOMAIN file /\ st[i] = file[i]
       PROVE  TimerInv'
  <2>1. /\ file' = st /\ foreign' = foreign \cup {j}
        /\ UNCHANGED <<running, store, wake, cur>>
        BY <1>10 DEF EditFile, tick
  <2>2. Scheduled(store)' = Scheduled(store) /\ Scheduled(file)' \ {j} \subseteq Scheduled(file)
        BY <1>10, <2>1 DEF Scheduled
  <2>3. \A i \in Scheduled(file)' \ {j} : file'[i] = file[i]
        BY <1>10, <2>1 DEF Scheduled
  <2> QED
      BY <2>1, <2>2, <2>3 DEF TimerInv, TimerCovers, FileCovered
<1>11. ASSUME NEW j \in Jobs, ForeignRemove(j) PROVE TimerInv'
       BY <1>0, <1>10, <1>11, WithoutIs DEF ForeignRemove
<1>12. ASSUME NEW j \in Jobs, NEW job PROVE
         \A i \in DOMAIN With(file, j, job) \ {j} : i \in DOMAIN file /\ With(file, j, job)[i] = file[i]
       BY DEF With
<1>13. ASSUME NEW j \in Jobs, NEW t \in Times(j), ForeignAdd(j, t) PROVE TimerInv'
  <2>1. EditFile(j, With(file, j, [enabled |-> TRUE, next |-> NextRun(j, t, now)]))
        BY <1>13 DEF ForeignAdd
  <2> QED
      BY <1>10, <1>12, <2>1
<1>14. ASSUME NEW j \in Jobs, NEW b \in BOOLEAN, ForeignEnable(j, b) PROVE TimerInv'
  <2>1. EditFile(j, With(file, j, [enabled |-> b, next |-> IF b THEN NextRun(j, at[j], now) ELSE Never]))
        BY <1>14 DEF ForeignEnable
  <2> QED
      BY <1>10, <1>12, <2>1
<1>15. CASE UNCHANGED vars
       BY <1>15 DEF vars, tick, observers, TimerInv, TimerCovers, FileCovered, Scheduled
<1>16. CASE Tell
       BY <1>16 DEF Tell, TimerInv, TimerCovers, FileCovered, Scheduled
<1> QED
    BY <1>2, <1>3, <1>4, <1>5, <1>6, <1>7, <1>8, <1>9, <1>11, <1>13, <1>14, <1>15, <1>16 DEF Next

-------------------------------------------------------------------------------
(* When jobs run *)

\* Time does not go back, and a job keeps the at_ms it was created with.
LEMMA StepTime ==
  TypeOK /\ [Next]_vars =>
    /\ now <= now' /\ now' \in 1..MaxTime
    /\ \A j \in Jobs : at'[j] \in 0..MaxTime /\ (at[j] # 0 => at'[j] = at[j])
<1> SUFFICES ASSUME TypeOK, [Next]_vars
             PROVE  /\ now <= now'
                    /\ \A j \in Jobs : at[j] # 0 => at'[j] = at[j]
    BY StepType DEF TypeOK
<1>1. CASE PassTime
      BY <1>1 DEF PassTime, TypeOK
<1>2. ASSUME NEW j \in Jobs, NEW t, at[j] = 0, at' = [at EXCEPT ![j] = t]
      PROVE  \A i \in Jobs : at[i] # 0 => at'[i] = at[i]
      BY <1>2 DEF TypeOK
<1>3. ASSUME NEW j \in Jobs, NEW t \in Times(j), AddJob(j, t) \/ ForeignAdd(j, t)
      PROVE  now' = now /\ \A i \in Jobs : at[i] # 0 => at'[i] = at[i]
      BY <1>2, <1>3 DEF AddJob, ForeignAdd, EditFile
<1>4. ASSUME Start \/ Crash \/ ListJobs \/ OnTimer \/ Tell \/ JobEnds \/ UNCHANGED vars
      PROVE  now' = now /\ at' = at
      BY <1>4 DEF Start, Crash, ListJobs, OnTimer, Tell, JobEnds, vars
<1>5. ASSUME NEW j \in Jobs, NEW b \in BOOLEAN,
             RemoveJob(j) \/ ForeignRemove(j) \/ ForeignEnable(j, b)
      PROVE  now' = now /\ at' = at
      BY <1>5 DEF RemoveJob, ForeignRemove, ForeignEnable, EditFile
<1> QED
    BY <1>1, <1>3, <1>4, <1>5 DEF Next, TypeOK

\* No copy of the list has a next run that its schedule would not give.
LEMMA StepPlausible == TypeOK /\ CreatedInv /\ PlausibleInv /\ [Next]_vars => PlausibleInv'
<1> SUFFICES ASSUME TypeOK, CreatedInv, PlausibleInv, [Next]_vars PROVE PlausibleInv'
    OBVIOUS
<1> USE JobsAssumption, TimeAssumption
<1> DEFINE P(j, t) == Plausible(j, t, at'[j], now')
<1>0. /\ Loaded \in Stores /\ file \in Stores /\ store \in Stores
      /\ DOMAIN store \subseteq Jobs /\ DOMAIN file \subseteq Jobs
      /\ \A j \in DOMAIN store : store[j] \in Job
      /\ \A j \in DOMAIN file : file[j] \in Job
      BY LoadedIs, StoreIs DEF TypeOK
<1>1. ASSUME NEW j \in Jobs, NEW t \in 0..Horizon, at[j] # 0, Plausible(j, t, at[j], now) PROVE P(j, t)
  <2>1. /\ now <= now' /\ now' \in 1..MaxTime /\ now \in 1..MaxTime
        /\ at'[j] = at[j] /\ at[j] \in 0..MaxTime
        BY <1>1, StepTime DEF TypeOK
  <2>2. j \notin AtJobs => NextRun(j, at[j], now) <= NextRun(j, at'[j], now')
        BY <2>1, NextRunFacts
  <2>3. NextRun(j, at[j], now) \in 0..Horizon /\ NextRun(j, at'[j], now') \in 0..Horizon
        BY <2>1, NextRunFacts
  <2> QED
      BY <1>1, <2>1, <2>2, <2>3 DEF Plausible, Horizon
<1>2. ASSUME NEW j \in Jobs PROVE P(j, Never) /\ P(j, NextRun(j, at'[j], now'))
  <2>1. now' \in 1..MaxTime /\ at'[j] \in 0..MaxTime
        BY StepTime
  <2>2. NextRun(j, at'[j], now') \in 0..Horizon /\
          (j \in AtJobs => NextRun(j, at'[j], now') \in {Never, at'[j]})
        BY <2>1, NextRunFacts
  <2> QED
      BY <2>2 DEF Plausible, Never, Horizon
<1>3. /\ \A j \in DOMAIN store : P(j, store[j].next)
      /\ \A j \in DOMAIN file : P(j, file[j].next)
  <2>1. /\ \A j \in DOMAIN store : store[j].next \in 0..Horizon /\ at[j] # 0
        /\ \A j \in DOMAIN file : file[j].next \in 0..Horizon /\ at[j] # 0
        BY <1>0 DEF CreatedInv, Job
  <2> HIDE DEF P
  <2> QED
      BY <1>0, <1>1, <2>1 DEF PlausibleInv
<1>4. \A j \in DOMAIN Loaded : P(j, Loaded[j].next)
      BY <1>3 DEF Loaded
<1> HIDE DEF P
<1>5. SUFFICES /\ \A j \in DOMAIN store' : P(j, store'[j].next)
               /\ \A j \in DOMAIN file' : P(j, file'[j].next)
      BY DEF PlausibleInv, P
<1>6. CASE Start
  <2>1. /\ DOMAIN Recomputed(file) = DOMAIN file
        /\ \A j \in DOMAIN file : Recomputed(file)[j].next = NextRun(j, at[j], now)
                               \/ Recomputed(file)[j].next = file[j].next
        BY <1>0, RecomputedIs DEF TypeOK
  <2>2. at' = at /\ now' = now /\ store' = Recomputed(file) /\ file' = Recomputed(file)
        BY <1>6 DEF Start, SaveStore
  <2>3. \A j \in DOMAIN file : P(j, NextRun(j, at[j], now))
        BY <1>0, <1>2, <2>2
  <2> QED
      BY <1>3, <2>1, <2>2, <2>3
<1>7. CASE Crash
      BY <1>3, <1>7, EmptyIs DEF Crash
<1>8. CASE ListJobs
      BY <1>3, <1>8 DEF ListJobs
<1>9. CASE OnTimer
  <2>1. store' = Loaded /\ file' \in {file, Loaded}
        BY <1>9 DEF OnTimer, SaveStore
  <2> QED
      BY <1>3, <1>4, <2>1
<1>10. CASE JobEnds
  <2>1. /\ cur \in Jobs /\ now' = now /\ at' = at
        /\ store' = Rescheduled(cur) /\ file' \in {file, Rescheduled(cur)}
        BY <1>10 DEF JobEnds, SaveStore, TypeOK
  <2>2. P(cur, NextRun(cur, at[cur], now))
        BY <1>2, <2>1
  <2>3. /\ DOMAIN Rescheduled(cur) = DOMAIN store \ (IF cur \in AtJobs THEN {cur} ELSE {})
        /\ \A i \in DOMAIN store \ {cur} : Rescheduled(cur)[i] = store[i]
        /\ cur \in DOMAIN store /\ cur \notin AtJobs =>
             Rescheduled(cur)[cur].next = IF orphan THEN store[cur].next ELSE NextRun(cur, at[cur], now)
        BY <2>1, RescheduledIs
  <2>4. \A i \in DOMAIN Rescheduled(cur) : P(i, Rescheduled(cur)[i].next)
        BY <1>3, <2>2, <2>3
  <2> QED
      BY <1>3, <2>1, <2>4
<1>11. CASE PassTime
       BY <1>3, <1>11 DEF PassTime
<1>12. ASSUME NEW j \in Jobs, RemoveJob(j)
       PROVE  /\ \A i \in DOMAIN store' : P(i, store'[i].next)
              /\ \A i \in DOMAIN file' : P(i, file'[i].next)
  <2>1. /\ DOMAIN Without(Loaded, j) \subseteq DOMAIN Loaded
        /\ \A i \in DOMAIN Without(Loaded, j) : Without(Loaded, j)[i] = Loaded[i]
        BY <1>0, WithoutIs
  <2>2. store' = Without(Loaded, j) /\ file' = Without(Loaded, j)
        BY <1>12 DEF RemoveJob, SaveStore
  <2> QED
      BY <1>4, <2>1, <2>2
<1>13. ASSUME NEW j \in Jobs, NEW st, NEW job,
              \A i \in DOMAIN st : P(i, st[i].next), P(j, job.next)
       PROVE  \A i \in DOMAIN With(st, j, job) : P(i, With(st, j, job)[i].next)
       BY <1>13 DEF With
<1>14. ASSUME NEW j \in Jobs, NEW t \in Times(j), AddJob(j, t) \/ ForeignAdd(j, t)
       PROVE  /\ \A i \in DOMAIN store' : P(i, store'[i].next)
              /\ \A i \in DOMAIN file' : P(i, file'[i].next)
  <2> DEFINE job == [enabled |-> TRUE, next |-> NextRun(j, t, now)]
  <2>1. now' = now /\ at'[j] = t
        BY <1>14 DEF AddJob, ForeignAdd, EditFile, TypeOK
  <2>2. P(j, NextRun(j, t, now))
        BY <1>2, <2>1
  <2>3. job.next = NextRun(j, t, now)
        OBVIOUS
  <2>4. \/ store' = With(Loaded, j, job) /\ file' = With(Loaded, j, job)
        \/ store' = store /\ file' = With(file, j, job)
        BY <1>14 DEF AddJob, ForeignAdd, EditFile, SaveStore
  <2> HIDE DEF job
  <2> QED
      BY <1>3, <1>4, <1>13, <2>2, <2>3, <2>4
<1>15. ASSUME NEW j \in Jobs, ForeignRemove(j)
       PROVE  /\ \A i \in DOMAIN store' : P(i, store'[i].next)
              /\ \A i \in DOMAIN file' : P(i, file'[i].next)
  <2>1. /\ DOMAIN Without(file, j) \subseteq DOMAIN file
        /\ \A i \in DOMAIN Without(file, j) : Without(file, j)[i] = file[i]
        BY <1>0, WithoutIs
  <2>2. store' = store /\ file' = Without(file, j)
        BY <1>15 DEF ForeignRemove, EditFile
  <2> QED
      BY <1>3, <2>1, <2>2
<1>16. ASSUME NEW j \in Jobs, NEW b \in BOOLEAN, ForeignEnable(j, b)
       PROVE  /\ \A i \in DOMAIN store' : P(i, store'[i].next)
              /\ \A i \in DOMAIN file' : P(i, file'[i].next)
  <2> DEFINE job == [enabled |-> b, next |-> IF b THEN NextRun(j, at[j], now) ELSE Never]
  <2>1. now' = now /\ at' = at /\ store' = store /\ file' = With(file, j, job)
        BY <1>16 DEF ForeignEnable, EditFile
  <2>2. P(j, NextRun(j, at[j], now)) /\ P(j, Never)
        BY <1>2, <2>1
  <2>3. P(j, job.next)
        BY <2>2
  <2> HIDE DEF job
  <2> QED
      BY <1>3, <1>13, <2>1, <2>3
<1>17. CASE UNCHANGED vars
       BY <1>3, <1>17 DEF vars
<1>18. CASE Tell
       BY <1>3, <1>18 DEF Tell
<1> QED
    BY <1>6, <1>7, <1>8, <1>9, <1>10, <1>11, <1>12, <1>14, <1>15, <1>16, <1>17, <1>18 DEF Next

\* No job comes into the tick's hands, from either copy of the list, too early or after
\* its only run.
LEMMA StepRuns ==
  TypeOK /\ TickInv /\ CreatedInv /\ PlausibleInv /\ RunsInv /\ [Next]_vars => RunsInv'
<1> SUFFICES ASSUME TypeOK, TickInv, CreatedInv, PlausibleInv, RunsInv, [Next]_vars
             PROVE  RunsInv'
    OBVIOUS
<1> USE JobsAssumption, TimeAssumption
<1> DEFINE F(j, t) == Fresh(j, t, ran[j], last[j])
           G(j, t) == Fresh(j, t, ran'[j], last'[j])
<1>0. /\ Loaded \in Stores /\ file \in Stores /\ store \in Stores
      /\ DOMAIN store \subseteq Jobs /\ DOMAIN file \subseteq Jobs /\ DOMAIN Loaded \subseteq Jobs
      /\ \A j \in DOMAIN store : store[j].next \in 0..Horizon
      /\ \A j \in DOMAIN file : file[j].next \in 0..Horizon
      /\ \A j \in DOMAIN Loaded : Loaded[j].next \in 0..Horizon
      /\ now \in 1..MaxTime /\ due \subseteq Jobs /\ cur \in Jobs \cup {None}
      /\ \A j \in Jobs : at[j] \in 0..MaxTime /\ ran[j] \in 0..2 /\ last[j] \in 0..MaxTime
      BY LoadedIs, StoreIs DEF TypeOK, Job
<1>1. HistoryInv /\ FreshInv /\ InHandInv
      BY DEF RunsInv
<1>2. ASSUME running, NEW j \in Scheduled(Loaded) \ (dropped \cup Reverted)
      PROVE  F(j, Loaded[j].next)
  <2>1. CASE stale
    <3>1. j \in Scheduled(file) \ dropped /\ j \in DOMAIN file /\ ~Behind(j)
          BY <1>2, <2>1 DEF Loaded, Scheduled, Reverted, Behind
    <3> QED
        BY <1>1, <1>2, <2>1, <3>1 DEF FreshInv, Loaded
  <2>2. CASE ~stale
        BY <1>1, <1>2, <2>2 DEF FreshInv, Loaded
  <2> QED
      BY <2>1, <2>2
<1>3. ASSUME NEW j \in Jobs, NextRun(j, at[j], now) # Never
      PROVE  F(j, NextRun(j, at[j], now))
  <2>1. CASE j \in AtJobs
    <3>1. at[j] > now
          BY <1>0, <1>3, <2>1, NextRunFacts
    <3> QED
        BY <1>0, <1>1, <2>1, <3>1 DEF HistoryInv, Fresh
  <2>2. CASE j \notin AtJobs
    <3>1. last[j] \in 0..MaxTime /\ last[j] <= now /\ at[j] \in 0..MaxTime
          BY <1>0, <1>1 DEF HistoryInv
    <3>2. Apart(j, NextRun(j, at[j], now), last[j])
          BY <1>0, <2>2, <3>1, NextRunFacts DEF Apart
    <3> QED
        BY <2>2, <3>2 DEF Fresh
  <2> QED
      BY <2>1, <2>2
<1>4. ASSUME NEW j \in Jobs, NEW t \in 0..Horizon, NEW u \in 1..MaxTime, t <= u, F(j, t)
      PROVE  F(j, u)
  <2>1. t \in Nat /\ u \in Nat /\ last[j] \in Nat /\ Period \in Nat \ {0}
        BY <1>0 DEF Horizon
  <2>2. Apart(j, t, last[j]) => Apart(j, u, last[j])
    <3> DEFINE x == t \div Period
               y == u \div Period
               z == last[j] \div Period
    <3>1. x <= y /\ x \in Nat /\ y \in Nat /\ z \in Nat
          BY <1>4, <2>1, Matches
    <3>2. x > z => y > z
      <4> HIDE DEF x, y, z
      <4> QED
          BY <3>1
    <3>3. t >= last[j] + Period => u >= last[j] + Period
          BY <1>4, <2>1
    <3> QED
        BY <3>2, <3>3 DEF Apart
  <2> QED
      BY <1>4, <2>2 DEF Fresh
<1>5. ASSUME ran' = ran, last' = last, dropped \subseteq dropped' PROVE HistoryInv'
  <2>1. now <= now' /\ now' \in 1..MaxTime /\ \A j \in Jobs : at[j] # 0 => at'[j] = at[j]
        BY StepTime
  <2> QED
      BY <1>0, <1>1, <1>5, <2>1 DEF HistoryInv, CreatedInv
<1>6. ASSUME NEW st \in Stores, SaveStore(st), ArmTimer(st),
             \A j \in Scheduled(st) \ dropped' : G(j, st[j].next)
      PROVE  FreshInv' /\ InHandInv'
  <2>1. store' = st /\ file' = st /\ cur' = None /\ due' = {}
        BY <1>6 DEF SaveStore, ArmTimer
  <2>2. Scheduled(store)' = Scheduled(st) /\ Scheduled(file)' = Scheduled(st)
        BY <2>1 DEF Scheduled
  <2>3. FreshInv'
        BY <1>6, <2>1, <2>2 DEF FreshInv
  <2>4. InHandInv'
        BY <2>1 DEF InHandInv
  <2> QED
      BY <2>3, <2>4
<1> HIDE DEF F, G
<1>7. ASSUME ran' = ran, last' = last PROVE \A j, t : G(j, t) <=> F(j, t)
      BY <1>7 DEF F, G
<1>8. ASSUME NEW j \in Jobs, at[j] = 0 PROVE \A t : F(j, t)
      BY <1>0, <1>8 DEF F, Fresh, CreatedInv
<1>9. CASE Start
  <2>1. /\ Recomputed(file) \in Stores /\ DOMAIN Recomputed(file) = DOMAIN file
        /\ \A j \in DOMAIN file :
             /\ Recomputed(file)[j].enabled = file[j].enabled
             /\ Recomputed(file)[j].next = IF file[j].enabled THEN NextRun(j, at[j], now) ELSE file[j].next
        BY <1>0, RecomputedIs DEF TypeOK
  <2>2. \A j \in Scheduled(Recomputed(file)) : F(j, Recomputed(file)[j].next)
        BY <1>0, <1>3, <2>1 DEF Scheduled
  <2>3. /\ SaveStore(Recomputed(file)) /\ ArmTimer(Recomputed(file))
        /\ ran' = ran /\ last' = last /\ dropped' = dropped
        BY <1>9 DEF Start
  <2> QED
      BY <1>5, <1>6, <1>7, <2>1, <2>2, <2>3 DEF RunsInv
<1>10. CASE Crash
  <2>1. HistoryInv'
        BY <1>5, <1>10 DEF Crash
  <2>2. FreshInv' /\ InHandInv'
        BY <1>10 DEF Crash, FreshInv, InHandInv
  <2> QED
      BY <2>1, <2>2 DEF RunsInv
<1>11. CASE ListJobs
  <2>1. /\ running /\ stale /\ store' = file /\ file' = file /\ dropped' = dropped \cup Reverted
        /\ UNCHANGED <<ran, last, cur, due, now, at>>
        BY <1>11 DEF ListJobs
  <2>2. Loaded = file /\ Scheduled(store)' = Scheduled(file) /\ Scheduled(file)' = Scheduled(file)
        BY <2>1 DEF Loaded, Scheduled
  <2>3. HistoryInv'
        BY <1>5, <2>1
  <2>4. FreshInv'
        BY <1>2, <2>1, <2>2 DEF FreshInv, F
  <2>5. InHandInv'
        BY <1>1, <2>1 DEF InHandInv
  <2> QED
      BY <2>3, <2>4, <2>5 DEF RunsInv
<1>12. CASE OnTimer
  <2>1. /\ running /\ cur = None /\ UNCHANGED <<ran, last, now, at, dropped>>
        BY <1>12 DEF OnTimer, TickInv
  <2>2. \A j \in Scheduled(Loaded) \ dropped : F(j, Loaded[j].next)
        BY <1>1, <2>1 DEF FreshInv, Loaded, F
  <2>3. HistoryInv'
        BY <1>5, <2>1
  <2>4. CASE Due(Loaded) = {}
    <3>1. SaveStore(Loaded) /\ ArmTimer(Loaded)
          BY <1>12, <2>4 DEF OnTimer
    <3> QED
        BY <1>0, <1>6, <1>7, <2>1, <2>2, <2>3, <3>1 DEF RunsInv
  <2>5. CASE Due(Loaded) # {}
    <3>1. /\ store' = Loaded /\ file' = file /\ cur' \in Due(Loaded) /\ due' \subseteq Due(Loaded)
          BY <1>12, <2>5 DEF OnTimer
    <3>2. Scheduled(store)' = Scheduled(Loaded) /\ Scheduled(file)' = Scheduled(file)
          BY <3>1 DEF Scheduled
    <3>3. FreshInv'
          BY <1>1, <2>1, <2>2, <3>1, <3>2 DEF FreshInv, F
    <3>4. ASSUME NEW j \in Due(Loaded) PROVE /\ j \in AtJobs => at[j] <= now
                                             /\ j \notin dropped => F(j, now)
      <4>1. /\ j \in DOMAIN Loaded /\ Loaded[j].next <= now /\ Loaded[j].next # Never
            /\ j \in Scheduled(Loaded) /\ j \in Jobs
            BY <1>0, <3>4 DEF Due, Scheduled
      <4>2. Plausible(j, Loaded[j].next, at[j], now)
            BY <4>1 DEF Loaded, PlausibleInv
      <4>3. j \in AtJobs => at[j] <= now
            BY <4>1, <4>2 DEF Plausible
      <4>4. j \notin dropped => F(j, now)
            BY <1>0, <1>4, <2>2, <4>1
      <4> QED
          BY <4>3, <4>4
    <3>5. InHandInv'
          BY <2>1, <3>1, <3>4 DEF InHandInv, F
    <3> QED
        BY <2>3, <3>3, <3>5 DEF RunsInv
  <2> QED
      BY <2>4, <2>5
<1>13. CASE JobEnds
  <2>1. /\ cur \in Jobs /\ running /\ running' = running /\ now' = now /\ at' = at
        /\ dropped \subseteq dropped' /\ cur \notin due
        /\ \A i \in Jobs \ {cur} : ran'[i] = ran[i] /\ last'[i] = last[i]
        /\ cur \in AtJobs => /\ ran'[cur] = IF ran[cur] = 2 THEN 2 ELSE ran[cur] + 1
                             /\ last'[cur] = last[cur]
        /\ cur \notin AtJobs => ran'[cur] = ran[cur] /\ last'[cur] = now
        /\ orphan /\ cur \notin AtJobs => cur \in dropped'
    <3>1. cur # None
          BY <1>13 DEF JobEnds
    <3> QED
        BY <1>0, <1>13, <3>1 DEF JobEnds, TickInv, TypeOK
  <2>2. /\ Rescheduled(cur) \in Stores
        /\ DOMAIN Rescheduled(cur) = DOMAIN store \ (IF cur \in AtJobs THEN {cur} ELSE {})
        /\ \A i \in DOMAIN store \ {cur} : Rescheduled(cur)[i] = store[i]
        /\ cur \in DOMAIN store /\ cur \notin AtJobs =>
             Rescheduled(cur)[cur].next = IF orphan THEN store[cur].next ELSE NextRun(cur, at[cur], now)
        BY <2>1, RescheduledIs
  <2>3. \A i \in Jobs \ {cur} : \A t : G(i, t) <=> F(i, t)
        BY <2>1 DEF F, G
  <2>4. cur \notin AtJobs => G(cur, NextRun(cur, at[cur], now))
    <3>1. now \in 0..MaxTime /\ at[cur] \in 0..MaxTime
          BY <1>0, <2>1
    <3>2. now \in 1..MaxTime /\ now <= now
          BY <1>0
    <3>3. cur \notin AtJobs => \A e \in 0..MaxTime : e <= now =>
            IF cur \in EveryJobs THEN NextRun(cur, at[cur], now) >= e + Period
                                 ELSE NextRun(cur, at[cur], now) \div Period > e \div Period
          BY <2>1, <3>1, <3>2, NextRunFacts
    <3>4. cur \notin AtJobs => Apart(cur, NextRun(cur, at[cur], now), now)
          BY <3>1, <3>2, <3>3, Zenon DEF Apart
    <3> QED
        BY <2>1, <3>4 DEF G, Fresh
  <2>5. HistoryInv'
    <3>1. cur \in AtJobs => at[cur] <= now /\ (cur \notin dropped => ran[cur] = 0)
          BY <1>1, <2>1 DEF InHandInv, Fresh
    <3> QED
        BY <1>0, <1>1, <2>1, <3>1 DEF HistoryInv
  <2>6. ASSUME NEW i \in Scheduled(Rescheduled(cur)) \ dropped' PROVE G(i, Rescheduled(cur)[i].next)
    <3>1. CASE i = cur
          BY <2>1, <2>2, <2>4, <2>6, <3>1 DEF Scheduled
    <3>2. CASE i # cur
      <4>1. i \in Scheduled(store) \ dropped /\ i \in Jobs
            BY <1>0, <2>1, <2>2, <2>6, <3>2 DEF Scheduled
      <4> QED
          BY <1>1, <2>1, <2>2, <2>3, <3>2, <4>1 DEF FreshInv, F, Scheduled
    <3> QED
        BY <3>1, <3>2
  <2>7. CASE due = {}
        BY <1>6, <1>13, <2>2, <2>5, <2>6, <2>7 DEF JobEnds, RunsInv
  <2>8. CASE due # {}
    <3>1. /\ store' = Rescheduled(cur) /\ file' = file /\ cur' \in due /\ due' \subseteq due
          BY <1>13, <2>8 DEF JobEnds
    <3>2. Scheduled(store)' = Scheduled(Rescheduled(cur)) /\ Scheduled(file)' = Scheduled(file)
          BY <3>1 DEF Scheduled
    <3>3. ASSUME NEW i \in Scheduled(file) \ dropped' PROVE G(i, file[i].next) \/ Behind(i)'
      <4>1. i \in Jobs /\ i \in DOMAIN file
            BY <1>0 DEF Scheduled
      <4>2. CASE i # cur
        <5>1. F(i, file[i].next) \/ Behind(i)
              BY <1>1, <2>1, <3>3 DEF FreshInv, F
        <5>2. Behind(i) => Behind(i)'
              BY <2>1, <2>2, <3>1, <4>1, <4>2 DEF Behind
        <5> QED
            BY <2>3, <4>1, <4>2, <5>1, <5>2
      <4>3. CASE i = cur /\ cur \in AtJobs
        <5>1. ran'[cur] > 0 /\ cur \notin DOMAIN store'
              BY <1>0, <2>1, <2>2, <3>1, <4>3
        <5> QED
            BY <4>3, <5>1 DEF Behind
      <4>4. CASE i = cur /\ cur \notin AtJobs
        <5>1. ~orphan /\ cur \in DOMAIN store
              BY <2>1, <3>3, <4>4 DEF TickInv
        <5>2. cur \in DOMAIN store' /\ store'[cur].next = NextRun(cur, at[cur], now)
              BY <2>2, <3>1, <4>4, <5>1
        <5>3. file[cur].next <= NextRun(cur, at[cur], now)
              BY <4>1, <4>4 DEF PlausibleInv, Plausible
        <5>4. file[cur].next \in 0..Horizon /\ NextRun(cur, at[cur], now) \in 0..Horizon
              BY <1>0, <2>1, <4>1, <4>4, NextRunFacts
        <5>5. CASE file[cur].next = NextRun(cur, at[cur], now)
              BY <2>4, <4>4, <5>5
        <5>6. CASE file[cur].next < NextRun(cur, at[cur], now)
              BY <3>1, <4>4, <5>2, <5>6 DEF Behind
        <5> QED
            BY <5>3, <5>4, <5>5, <5>6 DEF Horizon
      <4> QED
          BY <4>2, <4>3, <4>4
    <3>4. FreshInv'
      <4>1. cur' # None
            BY <1>0, <3>1
      <4> QED
          BY <2>6, <3>1, <3>2, <3>3, <4>1 DEF FreshInv, G
    <3>5. InHandInv'
      <4>1. ASSUME NEW i \in Jobs, i \in due' \/ i = cur'
            PROVE  (i \in AtJobs => at'[i] <= now') /\ (i \notin dropped' => G(i, now'))
        <5>1. i \in due /\ i # cur
              BY <2>1, <3>1, <4>1
        <5>2. (i \in AtJobs => at[i] <= now) /\ (i \notin dropped => F(i, now))
              BY <1>1, <5>1 DEF InHandInv, F
        <5> QED
            BY <2>1, <2>3, <5>1, <5>2
      <4> QED
          BY <4>1 DEF InHandInv, G
    <3> QED
        BY <2>5, <3>4, <3>5 DEF RunsInv
  <2> QED
      BY <2>7, <2>8
<1>14. CASE PassTime
  <2>1. /\ now' = now + 1 /\ now' \in 1..MaxTime
        /\ UNCHANGED <<at, running, store, file, cur, due, ran, last, dropped>>
        BY <1>0, <1>14 DEF PassTime, tick, observers
  <2>2. HistoryInv'
        BY <1>5, <2>1
  <2>3. FreshInv'
        BY <1>1, <2>1 DEF FreshInv, Scheduled, Behind
  <2>4. \A j \in Jobs : F(j, now) => F(j, now')
    <3>1. now \in 0..Horizon /\ now <= now'
          BY <1>0, <2>1 DEF Horizon
    <3> QED
        BY <1>4, <2>1, <3>1
  <2>5. InHandInv'
    <3>1. \A j \in Jobs : at[j] <= now => at[j] <= now'
          BY <1>0, <2>1
    <3> QED
        BY <1>1, <2>1, <2>4, <3>1 DEF InHandInv, F
  <2> QED
      BY <2>2, <2>3, <2>5 DEF RunsInv
<1>15. ASSUME NEW j \in Jobs, RemoveJob(j) PROVE RunsInv'
  <2>1. /\ Without(Loaded, j) \in Stores
        /\ DOMAIN Without(Loaded, j) = DOMAIN Loaded \ {j}
        /\ \A i \in DOMAIN Loaded \ {j} : Without(Loaded, j)[i] = Loaded[i]
        BY <1>0, WithoutIs
  <2>2. /\ running /\ SaveStore(Without(Loaded, j)) /\ ArmTimer(Without(Loaded, j))
        /\ dropped' = dropped \cup Reverted /\ ran' = ran /\ last' = last
        BY <1>15 DEF RemoveJob
  <2>3. \A i \in Scheduled(Without(Loaded, j)) : i \in Scheduled(Loaded) /\ Without(Loaded, j)[i] = Loaded[i]
        BY <2>1 DEF Scheduled
  <2> QED
      BY <1>2, <1>5, <1>6, <1>7, <2>1, <2>2, <2>3 DEF RunsInv, F
<1>16. ASSUME NEW j \in Jobs, NEW t \in Times(j), AddJob(j, t) PROVE RunsInv'
  <2> DEFINE job == [enabled |-> TRUE, next |-> NextRun(j, t, now)]
  <2>1. TRUE \in BOOLEAN
        OBVIOUS
  <2>2. job \in Job
        BY <2>1, NewJobIs, Zenon
  <2>3. /\ running /\ SaveStore(With(Loaded, j, job)) /\ ArmTimer(With(Loaded, j, job))
        /\ dropped' = dropped \cup Reverted /\ ran' = ran /\ last' = last /\ at[j] = 0
        BY <1>16 DEF AddJob
  <2> HIDE DEF job
  <2>4. /\ With(Loaded, j, job) \in Stores
        /\ DOMAIN With(Loaded, j, job) = DOMAIN Loaded \cup {j}
        /\ \A i \in DOMAIN Loaded \ {j} : With(Loaded, j, job)[i] = Loaded[i]
    <3>1. With(Loaded, j, job) \in Stores
          BY <1>0, <2>2, WithIs
    <3>2. DOMAIN With(Loaded, j, job) = DOMAIN Loaded \cup {j}
          BY DEF With
    <3>3. \A i \in DOMAIN Loaded \ {j} : With(Loaded, j, job)[i] = Loaded[i]
          BY DEF With
    <3> QED
        BY <3>1, <3>2, <3>3
  <2>5. \A i \in Scheduled(With(Loaded, j, job)) \ {j} :
          i \in Scheduled(Loaded) /\ With(Loaded, j, job)[i] = Loaded[i]
        BY <2>4 DEF Scheduled
  <2>6. \A i \in Scheduled(With(Loaded, j, job)) \ dropped' : F(i, With(Loaded, j, job)[i].next)
        BY <1>2, <1>8, <2>3, <2>5 DEF F
  <2> QED
      BY <1>5, <1>6, <1>7, <2>3, <2>4, <2>6 DEF RunsInv
<1>17. ASSUME NEW j \in Jobs, NEW st, EditFile(j, st), dropped \subseteq dropped',
              \A i \in DOMAIN st \ {j} : i \in DOMAIN file /\ st[i] = file[i],
              j \in Scheduled(st) \ dropped' => F(j, st[j].next)
       PROVE  RunsInv'
  <2>1. /\ file' = st /\ now' = now
        /\ UNCHANGED <<running, store, cur, due, ran, last>>
        BY <1>17 DEF EditFile, tick
  <2>2. HistoryInv'
        BY <1>5, <1>17, <2>1
  <2>3. Scheduled(store)' = Scheduled(store) /\ Scheduled(file)' = Scheduled(st)
        BY <2>1 DEF Scheduled
  <2>4. ASSUME running, NEW i \in Scheduled(st) \ dropped'
        PROVE  F(i, st[i].next) \/ (cur # None /\ Behind(i)')
    <3>1. CASE i = j
          BY <1>17, <2>4, <3>1
    <3>2. CASE i # j
      <4>1. i \in Scheduled(file) \ dropped /\ st[i] = file[i]
            BY <1>17, <2>4, <3>2 DEF Scheduled
      <4>2. F(i, st[i].next) \/ (cur # None /\ Behind(i))
            BY <1>1, <2>4, <4>1 DEF FreshInv, F
      <4>3. Behind(i) => Behind(i)'
            BY <2>1, <4>1 DEF Behind
      <4> QED
          BY <4>2, <4>3
    <3> QED
        BY <3>1, <3>2
  <2>5. FreshInv'
        BY <1>1, <1>17, <2>1, <2>3, <2>4 DEF FreshInv, F
  <2>6. InHandInv'
    <3>1. \A i \in Jobs : i \in due \/ i = cur => at'[i] = at[i]
      <4>1. \A i \in Jobs : i \in due \/ i = cur => at[i] # 0
            BY DEF CreatedInv
      <4> QED
          BY <4>1, StepTime
    <3> QED
        BY <1>1, <1>17, <2>1, <3>1 DEF InHandInv
  <2> QED
      BY <2>2, <2>5, <2>6 DEF RunsInv
<1>18. ASSUME NEW j \in Jobs, ForeignRemove(j) PROVE RunsInv'
  <2>1. /\ EditFile(j, Without(file, j)) /\ dropped \subseteq dropped'
        /\ DOMAIN Without(file, j) = DOMAIN file \ {j}
        /\ \A i \in DOMAIN file \ {j} : Without(file, j)[i] = file[i]
        BY <1>0, <1>18, WithoutIs DEF ForeignRemove
  <2>2. j \notin Scheduled(Without(file, j))
        BY <2>1 DEF Scheduled
  <2> QED
      BY <1>17, <2>1, <2>2
<1>19. ASSUME NEW j \in Jobs, NEW job PROVE
         /\ \A i \in DOMAIN With(file, j, job) \ {j} : i \in DOMAIN file /\ With(file, j, job)[i] = file[i]
         /\ With(file, j, job)[j] = job
       BY DEF With
<1>20. ASSUME NEW j \in Jobs, NEW t \in Times(j), ForeignAdd(j, t) PROVE RunsInv'
  <2>1. /\ EditFile(j, With(file, j, [enabled |-> TRUE, next |-> NextRun(j, t, now)]))
        /\ dropped' = dropped /\ at[j] = 0
        BY <1>20 DEF ForeignAdd
  <2> QED
      BY <1>8, <1>17, <1>19, <2>1
<1>21. ASSUME NEW j \in Jobs, NEW b \in BOOLEAN, ForeignEnable(j, b) PROVE RunsInv'
  <2> DEFINE job == [enabled |-> b, next |-> IF b THEN NextRun(j, at[j], now) ELSE Never]
  <2>1. EditFile(j, With(file, j, job)) /\ dropped' = dropped
        BY <1>21 DEF ForeignEnable
  <2>2. job.next # Never => job.next = NextRun(j, at[j], now)
        OBVIOUS
  <2> HIDE DEF job
  <2>3. j \in Scheduled(With(file, j, job)) => F(j, With(file, j, job)[j].next)
        BY <1>3, <1>19, <2>2 DEF Scheduled, F
  <2> QED
      BY <1>17, <1>19, <2>1, <2>3
<1>22. CASE Tell \/ UNCHANGED vars
  <2>1. /\ UNCHANGED <<now, at, running, store, file, cur, due, ran, last, dropped>>
        BY <1>22 DEF Tell, vars, tick, observers
  <2>2. HistoryInv'
        BY <1>5, <2>1
  <2> QED
      BY <1>1, <2>1, <2>2 DEF RunsInv, FreshInv, InHandInv, Scheduled, Behind
<1> QED
    BY <1>9, <1>10, <1>11, <1>12, <1>13, <1>14, <1>15, <1>16, <1>18, <1>20, <1>21, <1>22 DEF Next

-------------------------------------------------------------------------------
(* The properties *)

\* Before the first start nothing is listed, armed or in hand.
LEMMA InitIInv == Init => IInv
<1> SUFFICES ASSUME Init PROVE IInv
    OBVIOUS
<1>1. TypeOK
      BY InitType
<1>2. /\ DOMAIN store = {} /\ DOMAIN file = {} /\ Scheduled(store) = {} /\ Scheduled(file) = {}
      BY EmptyIs DEF Init, Scheduled
<1>3. /\ ~running /\ ~stale /\ cur = None /\ due = {} /\ removed = {} /\ told = {} /\ store = Empty
      /\ \A j \in Jobs : at[j] = 0 /\ ran[j] = 0 /\ last[j] = 0
      BY DEF Init
<1>4. TickInv
      BY <1>3 DEF TickInv
<1>5. ListInv
      BY <1>2, <1>3 DEF ListInv, CreatedInv, MemoryInv, JobsKept, RemovedForGood, KeptUntilDone
<1>6. TimerInv /\ PlausibleInv
      BY <1>2, <1>3 DEF TimerInv, TimerCovers, FileCovered, PlausibleInv
<1>7. RunsInv
  <2>1. now = 1
        BY DEF Init
  <2> QED
      BY <1>3, <2>1, JobsAssumption DEF RunsInv, HistoryInv, FreshInv, InHandInv
<1> QED
    BY <1>1, <1>4, <1>5, <1>6, <1>7 DEF IInv

\* Every step keeps the whole invariant.
LEMMA StepIInv == IInv /\ [Next]_vars => IInv'
  BY StepType, StepTick, StepList, StepTimer, StepPlausible, StepRuns DEF IInv, ListInv

\* The strengthened invariant: what the service, the tick in progress and the two copies
\* of the list know of each other at every step.
THEOREM CronInvariance == Spec => []IInv
<1>1. Init => IInv
      BY InitIInv
<1>2. IInv /\ [Next]_vars => IInv'
      BY StepIInv
<1> QED
    BY <1>1, <1>2, PTL DEF Spec

\* Every variable keeps its type: next runs stay within one period of the clock's end,
\* whatever the schedules, restarts and other writers.
THEOREM CronTypeCorrect == Spec => []TypeOK
<1>1. IInv => TypeOK
      BY DEF IInv
<1> QED
    BY <1>1, CronInvariance, PTL

\* No job disappears from jobs.json before it is removed or done, and a removed job is
\* gone from both copies and from the tick that had it in hand.
THEOREM JobsAlwaysKept == Spec => []JobsKept
<1>1. IInv => JobsKept
      BY DEF IInv, ListInv
<1> QED
    BY <1>1, CronInvariance, PTL

\* An armed timer never sleeps past a next run, and recurring jobs keep their pace, for
\* every period.
THEOREM AlwaysOnTime == Spec => []OnTime
<1>1. IInv => OnTime
  <2> SUFFICES ASSUME IInv PROVE Paced
      BY DEF OnTime, IInv, TimerInv
  <2> SUFFICES ASSUME NEW j \in Jobs \ (AtJobs \cup dropped), cur = j, last[j] # 0
               PROVE  IF j \in EveryJobs THEN now >= last[j] + Period
                                         ELSE now \div Period > last[j] \div Period
      BY DEF Paced
  <2>1. Fresh(j, now, ran[j], last[j])
        BY DEF IInv, RunsInv, InHandInv
  <2> QED
      BY <2>1 DEF Fresh, Apart
<1> QED
    BY <1>1, CronInvariance, PTL

\* The same as Status, of which the invariant leaves these cases.
Phase(j) ==
  IF at[j] = 0 THEN "unknown"
  ELSE IF ran[j] > 0 THEN "done"
  ELSE IF j \in removed THEN "removed"
  ELSE IF cur = j /\ said THEN "telling"
  ELSE IF j \in told THEN "cut" ELSE "scheduled"

\* No job ends twice, or is in hand after its end, unless its end was lost; a removed job is
\* not in hand.
LEMMA StatusIs == IInv => \A j \in AtJobs : Status(j) = Phase(j)
<1> SUFFICES ASSUME IInv, NEW j \in AtJobs PROVE Status(j) = Phase(j)
    OBVIOUS
<1>1. j \in Jobs /\ ran[j] \in 0..2
      BY DEF IInv, TypeOK, Jobs
<1>2. ran[j] = 2 => j \in dropped
      BY <1>1 DEF IInv, RunsInv, HistoryInv
<1>3. cur = j /\ j \notin dropped => ran[j] = 0
      BY <1>1 DEF IInv, RunsInv, InHandInv, Fresh
<1>4. cur = j => j \notin removed
      BY DEF IInv, ListInv, JobsKept, RemovedForGood
<1> QED
    BY <1>1, <1>2, <1>3, <1>4 DEF Status, Phase

\* The same after a step.
LEMMA StatusIsNext == IInv' => \A j \in AtJobs : Status(j)' = Phase(j)'
<1>1. (IInv => \A j \in AtJobs : Status(j) = Phase(j))'
      BY StatusIs, PTL
<1> QED
    BY <1>1

\* A job in hand was created, is not removed, and its time has come; its turn alone can have
\* delivered it.
LEMMA HandIs ==
  IInv /\ cur # None =>
    /\ cur \in Jobs /\ at[cur] # 0 /\ cur \notin removed
    /\ cur \in AtJobs => at[cur] <= now
    /\ said => cur \in told
  BY DEF IInv, TypeOK, ListInv, CreatedInv, JobsKept, RemovedForGood, RunsInv, InHandInv

\* One-time jobs, seen through Status: what a step of the service does to them is a step
\* that Reminders allows.
LEMMA StepReminders ==
  IInv /\ IInv' /\ [Next]_vars => [OneTime!Next]_(OneTime!vars)
<1> SUFFICES ASSUME IInv, IInv', [Next]_vars PROVE OneTime!Next
    OBVIOUS
<1> USE JobsAssumption, TimeAssumption
<1> DEFINE S == [j \in AtJobs |-> Status(j)]
           A == [j \in AtJobs |-> at[j]]
           May(j) ==  \* Reminders' step of one reminder, said of Phase
             \/ Phase(j) = "unknown" /\ Phase(j)' = "scheduled" /\ at'[j] \in 1..MaxTime
             \/ /\ at'[j] = at[j]
                /\ \/ /\ Phase(j) \in {"scheduled", "cut"} /\ at[j] <= now
                      /\ Phase(j)' = "telling"
                   \/ /\ Phase(j) \in {"scheduled", "telling"} /\ at[j] <= now
                      /\ Phase(j)' = "cut"
                   \/ /\ Phase(j) \in {"scheduled", "telling", "cut"} /\ at[j] <= now
                      /\ Phase(j)' = "done"
                   \/ Phase(j) \in {"scheduled", "telling", "cut"} /\ Phase(j)' = "removed"
                   \/ Phase(j)' = Phase(j)
<1>1. SUFFICES now' \in {now, now + 1} /\ \A j \in AtJobs : May(j)
  <2>1. \A j \in AtJobs : S[j] = Phase(j) /\ S'[j] = Phase(j)' /\ A[j] = at[j] /\ A'[j] = at'[j]
        BY StatusIs, StatusIsNext
  <2>2. S' = [j \in AtJobs |-> S'[j]] /\ A' = [j \in AtJobs |-> A'[j]]
        OBVIOUS
  <2>3. ASSUME NEW j \in AtJobs
        PROVE  \/ OneTime!Schedule(j)
               \/ /\ A'[j] = A[j]
                  /\ \/ OneTime!Deliver(j) \/ OneTime!CutOff(j) \/ OneTime!End(j)
                     \/ OneTime!Remove(j) \/ OneTime!Rest(j)
    <3>1. May(j)
          BY <1>1
    <3> QED
        BY <2>1, <3>1 DEF OneTime!Schedule, OneTime!Deliver, OneTime!CutOff, OneTime!End,
                          OneTime!Remove, OneTime!Rest, OneTime!Open
  <2> QED
      BY <1>1, <2>2, <2>3 DEF OneTime!Next
<1>2. /\ \A j \in AtJobs : j \in Jobs /\ at[j] \in 0..MaxTime /\ ran[j] \in 0..2
      /\ \A j \in AtJobs : (ran[j] > 0 => at[j] # 0) /\ (j \in removed \cup told => at[j] # 0)
      /\ now \in 1..MaxTime
      BY DEF IInv, TypeOK, ListInv, CreatedInv, Jobs
<1>3. cur # None =>
        /\ cur \in Jobs /\ at[cur] # 0 /\ cur \notin removed
        /\ cur \in AtJobs => at[cur] <= now
        /\ said => cur \in told
      BY HandIs
<1>4. ASSUME UNCHANGED <<now, at, ran, removed, told>>, cur' = None \/ ~said',
             said => cur # None
      PROVE  now' \in {now, now + 1} /\ \A j \in AtJobs : May(j)
  <2> SUFFICES ASSUME NEW j \in AtJobs PROVE May(j)
      BY <1>4
  <2>1. CASE cur = j /\ said
        BY <1>2, <1>3, <1>4, <2>1 DEF Phase
  <2>2. CASE ~(cur = j /\ said)
        BY <1>2, <1>4, <2>2 DEF Phase
  <2> QED
      BY <2>1, <2>2
<1>5. said => cur # None
      BY <1>2 DEF IInv, TypeOK
<1>6. CASE Start \/ Crash \/ OnTimer
      BY <1>4, <1>5, <1>6 DEF Start, Crash, OnTimer, ArmTimer
<1>7. CASE ListJobs \/ PassTime \/ UNCHANGED vars
  <2>1. UNCHANGED <<at, ran, removed, told, cur, said>> /\ now' \in {now, now + 1}
        BY <1>7 DEF ListJobs, PassTime, vars, tick, observers
  <2> QED
      BY <2>1 DEF Phase
<1>8. CASE Tell
  <2>1. /\ UNCHANGED <<now, at, ran, removed, cur>>
        /\ cur \in AtJobs /\ cur # None /\ ~said /\ said' /\ told' = told \cup {cur}
        BY <1>8 DEF Tell, Jobs
  <2> SUFFICES ASSUME NEW j \in AtJobs PROVE May(j)
      BY <2>1
  <2>2. CASE j = cur
        BY <1>2, <1>3, <2>1, <2>2 DEF Phase
  <2>3. CASE j # cur
        BY <1>2, <2>1, <2>3 DEF Phase
  <2> QED
      BY <2>2, <2>3
<1>9. CASE JobEnds
  <2>1. /\ cur # None /\ UNCHANGED <<now, at, removed>> /\ told' = told \ {cur} /\ ~said'
        /\ \A i \in Jobs \ {cur} : ran'[i] = ran[i]
        /\ cur \in AtJobs => ran'[cur] > 0
        BY <1>9, <1>3 DEF JobEnds, ArmTimer, IInv, TypeOK
  <2> SUFFICES ASSUME NEW j \in AtJobs PROVE May(j)
      BY <2>1
  <2>2. CASE j = cur
        BY <1>2, <1>3, <2>1, <2>2 DEF Phase
  <2>3. CASE j # cur
        BY <1>2, <2>1, <2>3 DEF Phase
  <2> QED
      BY <2>2, <2>3
<1>10. ASSUME NEW i \in Jobs, RemoveJob(i)
       PROVE  now' \in {now, now + 1} /\ \A j \in AtJobs : May(j)
  <2>1. /\ removed' = removed \cup {i} /\ UNCHANGED <<now, at, ran>>
        /\ i \in DOMAIN Loaded /\ ~said' /\ i \notin told'
        /\ told' \ {i} \subseteq told \cup {cur} /\ told \ {i} \subseteq told'
        BY <1>10 DEF RemoveJob, ArmTimer
  <2>2. at[i] # 0 /\ i \notin removed
        BY <2>1 DEF Loaded, IInv, ListInv, CreatedInv, JobsKept, RemovedForGood
  <2> SUFFICES ASSUME NEW j \in AtJobs PROVE May(j)
      BY <2>1
  <2>3. CASE j = i
        BY <1>2, <2>1, <2>2, <2>3 DEF Phase
  <2>4. CASE j # i /\ j = cur
        BY <1>2, <1>3, <2>1, <2>4 DEF Phase
  <2>5. CASE j # i /\ j # cur
        BY <1>2, <2>1, <2>5 DEF Phase
  <2> QED
      BY <2>3, <2>4, <2>5
<1>11. ASSUME NEW i \in Jobs, NEW t \in Times(i), AddJob(i, t) \/ ForeignAdd(i, t)
       PROVE  now' \in {now, now + 1} /\ \A j \in AtJobs : May(j)
  <2>1. /\ at[i] = 0 /\ at' = [at EXCEPT ![i] = t] /\ UNCHANGED <<now, ran, removed, told>>
        /\ ~said' \/ (said' = said /\ cur' = cur)
        BY <1>11 DEF AddJob, ForeignAdd, EditFile, ArmTimer, tick
  <2>2. t \in 1..MaxTime /\ at'[i] = t /\ \A j \in Jobs \ {i} : at'[j] = at[j]
        BY <2>1 DEF Times, IInv, TypeOK
  <2>3. cur # i
        BY <1>3, <2>1
  <2> SUFFICES ASSUME NEW j \in AtJobs PROVE May(j)
      BY <2>1
  <2>4. CASE j = i
        BY <1>2, <2>1, <2>2, <2>3, <2>4 DEF Phase
  <2>5. CASE j # i /\ j = cur
        BY <1>2, <1>3, <2>1, <2>2, <2>5 DEF Phase
  <2>6. CASE j # i /\ j # cur
        BY <1>2, <2>1, <2>2, <2>6 DEF Phase
  <2> QED
      BY <2>4, <2>5, <2>6
<1>12. ASSUME NEW i \in Jobs, NEW b \in BOOLEAN, ForeignRemove(i) \/ ForeignEnable(i, b)
       PROVE  now' \in {now, now + 1} /\ \A j \in AtJobs : May(j)
  <2>1. UNCHANGED <<now, at, ran, removed, told, cur, said>>
        BY <1>12 DEF ForeignRemove, ForeignEnable, EditFile, tick
  <2> QED
      BY <2>1 DEF Phase
<1>13. ASSUME NEW i \in Jobs, ForeignRemove(i)
       PROVE  now' \in {now, now + 1} /\ \A j \in AtJobs : May(j)
  <2>1. TRUE \in BOOLEAN
        OBVIOUS
  <2> QED
      BY <1>12, <1>13, <2>1
<1> QED
    BY <1>6, <1>7, <1>8, <1>9, <1>10, <1>11, <1>12, <1>13 DEF Next

\* The scheduler implements Reminders: no turn delivers a one-time job before its time, after
\* a turn of it has ended or after its removal, and a second turn delivers it only when the
\* turn that delivered before was cut off.
THEOREM RemindersImplemented == Spec => ImplementsReminders
<1>1. Init => OneTime!Init
  <2> SUFFICES ASSUME Init PROVE OneTime!Init
      OBVIOUS
  <2>1. /\ now = 1 /\ \A j \in AtJobs : at[j] = 0
        BY DEF Init, Jobs
  <2>2. \A j \in AtJobs : Status(j) = "unknown"
        BY <2>1 DEF Status
  <2> QED
      BY <2>1, <2>2 DEF OneTime!Init
<1>2. IInv /\ IInv' /\ [Next]_vars => [OneTime!Next]_(OneTime!vars)
      BY StepReminders
<1> QED
    BY <1>1, <1>2, CronInvariance, PTL DEF Spec, ImplementsReminders, OneTime!Spec
===============================================================================

-------------------------- MODULE TaskPlanner_proofs ---------------------------
(***************************************************************************)
(* Every plan a cycle writes has a shape the next cycle can work with,     *)
(* whatever the gate, the goals, the failures and the deaths in between.   *)
(*                                                                         *)
(* _build_task_plan_snapshot is a chain of functions on a plan under       *)
(* construction.  "Draft" is what each of them keeps; "Early", "Raw",      *)
(* "Chosen" and "Full" are what holds between some of them only.  The      *)
(* chain starts from the plan that was read and from the decision derived  *)
(* from it, so what is inductive is a property of both (PlanOK): it needs  *)
(* the shape of the tasks ("Rooted": they go back to those of the first    *)
(* blocked, failed or passed cycle), and that the decision which retired   *)
(* a lane is not about the current task.                                   *)
(***************************************************************************)
EXTENDS TaskPlanner, WellFoundedInduction, SequenceTheorems, TLAPS

Statuses == {"pending", "active", "done", "blocked"}
TaskSet == [id : TaskIds, status : Statuses, retired : BOOLEAN]
Closed(t) == t.status \in {"done", "blocked"}

\* The tasks of a plan: no two have the same name, and the first ones are those of a blocked
\* cycle, which stay open, or those of any other, the reward among them.
Distinct(ts) == \A i, j \in DOMAIN ts : ts[i].id = ts[j].id => i = j
Rooted(ts) ==
  /\ Len(ts) >= 2 /\ ts[1].id = Refresh
  /\ \/ ts[2].id = Verify /\ ~Closed(ts[1]) /\ ~Closed(ts[2])
     \/ ts[2].id = Bounded /\ Len(ts) >= 3 /\ ts[3].id = Reward
Line(ts) == ts \in Seq(TaskSet) /\ Distinct(ts) /\ Rooted(ts)

\* The active mark is on one task at most.
Marked(ts, id) == \A i \in DOMAIN ts : ts[i].status = "active" <=> ts[i].id = id

\* The analysis was retired, and is closed.
Gone(ts) == \E i \in DOMAIN ts : ts[i].id = Analyze /\ ts[i].retired /\ Closed(ts[i])

Grows(ts, us) == \A i \in DOMAIN ts : Has(us, ts[i].id)

-------------------------------------------------------------------------------
(* Operators on tasks *)

\* A non-empty set of naturals has a first element.
LEMMA FirstIs == ASSUME NEW S, S \subseteq Nat, S # {}
                 PROVE  First(S) \in S /\ \A y \in S : First(S) <= y
<1>1. OpToRel(<, Nat) = {ss \in Nat \X Nat : ss[1] < ss[2]}
  BY Zenon DEF OpToRel
<1>2. IsWellFoundedOn(OpToRel(<, Nat), Nat)
  BY NatLessThanWellFounded
<1>3. \E R : IsWellFoundedOn(R, Nat) /\ R = {ss \in Nat \X Nat : ss[1] < ss[2]}
  BY <1>1, <1>2, Zenon
<1>4. PICK R : IsWellFoundedOn(R, Nat) /\ R = {ss \in Nat \X Nat : ss[1] < ss[2]}
  BY <1>3
<1>5. PICK x \in S : \A y \in S : ~ (<<y, x>> \in R)
  BY <1>4, WFMin
<1>6. ASSUME NEW y \in S PROVE x <= y
  <2>1. x \in Nat /\ y \in Nat /\ ~(y < x)
    BY <1>4, <1>5
  <2> QED
    BY <2>1
<1> QED
  BY <1>6 DEF First

LEMMA Names ==
  /\ Refresh \in TaskIds /\ Verify \in TaskIds /\ Bounded \in TaskIds /\ Reward \in TaskIds
  /\ Inspect \in TaskIds /\ MatPass \in TaskIds /\ Synth \in TaskIds /\ MatSynth \in TaskIds
  /\ Sub \in TaskIds /\ Analyze \in TaskIds
BY DEF TaskIds, Core, Materializing

LEMMA TheIs == ASSUME NEW ts, Distinct(ts), NEW i \in DOMAIN ts
               PROVE  The(ts, ts[i].id) = ts[i] /\ Has(ts, ts[i].id)
BY DEF The, Has, Distinct

LEMMA TasksAre == ASSUME NEW ts, Line(ts)
                  PROVE  \A i \in DOMAIN ts : ts[i] \in TaskSet /\ ts[i].id \in TaskIds /\ i \in Nat
<1>1. \A i \in DOMAIN ts : ts[i] \in TaskSet /\ i \in Nat
  BY DEF Line
<1> QED
  BY <1>1 DEF TaskSet

\* The active mark moves.
LEMMA ActivateIs ==
  ASSUME NEW ts, Line(ts), NEW id
  PROVE  /\ Line(Activate(ts, id)) /\ Marked(Activate(ts, id), id)
         /\ Len(Activate(ts, id)) = Len(ts) /\ DOMAIN Activate(ts, id) = DOMAIN ts
         /\ \A i \in DOMAIN ts :
              /\ Activate(ts, id)[i].id = ts[i].id
              /\ Activate(ts, id)[i].retired = ts[i].retired
              /\ Activate(ts, id)[i].status = IF ts[i].id = id THEN "active"
                                              ELSE IF ts[i].status = "active" THEN "pending" ELSE ts[i].status
<1> DEFINE us == Activate(ts, id)
<1>1. us = [i \in DOMAIN ts |-> [ts[i] EXCEPT !.status = IF ts[i].id = id THEN "active"
                                   ELSE IF ts[i].status = "active" THEN "pending" ELSE ts[i].status]]
  BY DEF Activate, Update
<1>2. ts \in Seq(TaskSet) /\ DOMAIN ts = 1..Len(ts) /\ Len(ts) \in Nat
  BY DEF Line
<1>3. \A i \in DOMAIN ts : ts[i] \in TaskSet
  BY <1>2
<1>4. \A i \in DOMAIN ts :
        /\ us[i] \in TaskSet /\ us[i].id = ts[i].id /\ us[i].retired = ts[i].retired
        /\ us[i].status = IF ts[i].id = id THEN "active"
                          ELSE IF ts[i].status = "active" THEN "pending" ELSE ts[i].status
  BY <1>1, <1>3 DEF TaskSet, Statuses
<1>5. us \in Seq(TaskSet) /\ Len(us) = Len(ts) /\ DOMAIN us = DOMAIN ts
  <2>1. DOMAIN us = 1..Len(ts) /\ us = [i \in 1..Len(ts) |-> us[i]]
    BY <1>1, <1>2
  <2>2. us \in [1..Len(ts) -> TaskSet]
    BY <2>1, <1>2, <1>4
  <2> QED
    BY <2>1, <2>2, <1>2
<1>6. Distinct(us)
  BY <1>4, <1>5 DEF Line, Distinct
<1>7. \A i \in DOMAIN ts : ~Closed(ts[i]) => ~Closed(us[i])
  BY <1>4 DEF Closed
<1>8. Rooted(us)
  <2>1. 1 \in DOMAIN ts /\ 2 \in DOMAIN ts /\ (Len(ts) >= 3 => 3 \in DOMAIN ts)
    BY <1>2 DEF Line, Rooted
  <2> QED
    BY <2>1, <1>4, <1>5, <1>7 DEF Line, Rooted
<1>9. Marked(us, id)
  BY <1>4, <1>5 DEF Marked
<1> QED
  BY <1>4, <1>5, <1>6, <1>8, <1>9 DEF Line

\* A new task comes last.
LEMMA AppendIs ==
  ASSUME NEW ts, Line(ts), NEW id \in TaskIds, ~Has(ts, id), NEW st \in Statuses
  PROVE  /\ Line(Append(ts, Task(id, st))) /\ Len(Append(ts, Task(id, st))) = Len(ts) + 1
         /\ DOMAIN Append(ts, Task(id, st)) = DOMAIN ts \cup {Len(ts) + 1}
         /\ \A i \in DOMAIN ts : Append(ts, Task(id, st))[i] = ts[i]
         /\ Append(ts, Task(id, st))[Len(ts) + 1] = Task(id, st)
<1> DEFINE us == Append(ts, Task(id, st))
<1>1. ts \in Seq(TaskSet) /\ DOMAIN ts = 1..Len(ts) /\ Len(ts) \in Nat
  BY DEF Line
<1>2. Task(id, st) \in TaskSet /\ Task(id, st).id = id
  BY DEF Task, TaskSet
<1>3. /\ us \in Seq(TaskSet) /\ Len(us) = Len(ts) + 1 /\ DOMAIN us = DOMAIN ts \cup {Len(ts) + 1}
      /\ \A i \in DOMAIN ts : us[i] = ts[i]
      /\ us[Len(ts) + 1] = Task(id, st)
  BY <1>1, <1>2
<1>4. \A i \in DOMAIN ts : ts[i].id # id
  BY DEF Has
<1>5. Distinct(us)
  <2> SUFFICES ASSUME NEW i \in DOMAIN us, NEW j \in DOMAIN us, us[i].id = us[j].id PROVE i = j
    BY DEF Distinct
  <2>1. CASE i \in DOMAIN ts /\ j \in DOMAIN ts
    BY <2>1, <1>3 DEF Line, Distinct
  <2>2. CASE i = Len(ts) + 1 /\ j \in DOMAIN ts
    BY <2>2, <1>2, <1>3, <1>4
  <2>3. CASE j = Len(ts) + 1 /\ i \in DOMAIN ts
    BY <2>3, <1>2, <1>3, <1>4
  <2> QED
    BY <2>1, <2>2, <2>3, <1>3
<1>6. Rooted(us)
  <2>1. 1 \in DOMAIN ts /\ 2 \in DOMAIN ts /\ (Len(ts) >= 3 => 3 \in DOMAIN ts)
    BY <1>1 DEF Line, Rooted
  <2>2. Len(us) >= 2 /\ (Len(ts) >= 3 => Len(us) >= 3)
    BY <1>1, <1>3 DEF Line, Rooted
  <2> QED
    BY <2>1, <2>2, <1>3 DEF Line, Rooted
<1> QED
  BY <1>3, <1>5, <1>6 DEF Line

LEMMA GrowsOn ==
  ASSUME NEW ts, NEW us, NEW vs, Grows(ts, us), Grows(us, vs)
  PROVE  Grows(ts, vs)
BY DEF Grows, Has

LEMMA HasGrows == ASSUME NEW ts, NEW us, Grows(ts, us), NEW id, Has(ts, id) PROVE Has(us, id)
BY DEF Grows, Has

LEMMA ActivateGrows == ASSUME NEW ts, Line(ts), NEW id
                       PROVE  Grows(ts, Activate(ts, id)) /\ Grows(Activate(ts, id), ts)
<1>1. DOMAIN Activate(ts, id) = DOMAIN ts /\ \A i \in DOMAIN ts : Activate(ts, id)[i].id = ts[i].id
  BY ActivateIs
<1> QED
  BY <1>1 DEF Grows, Has

\* No mark moves onto the closed analysis but its own.
LEMMA ActivateGone ==
  ASSUME NEW ts, Line(ts), NEW id, Gone(Activate(ts, id))
  PROVE  Gone(ts) /\ id # Analyze
<1>1. PICK i \in DOMAIN ts : /\ Activate(ts, id)[i].id = Analyze /\ Activate(ts, id)[i].retired
                             /\ Closed(Activate(ts, id)[i])
  BY ActivateIs DEF Gone
<1>2. /\ ts[i].id = Analyze /\ ts[i].retired
      /\ Activate(ts, id)[i].status = IF ts[i].id = id THEN "active"
                                      ELSE IF ts[i].status = "active" THEN "pending" ELSE ts[i].status
  BY <1>1, ActivateIs
<1>3. id # Analyze /\ Closed(ts[i])
  BY <1>1, <1>2 DEF Closed
<1> QED
  BY <1>2, <1>3 DEF Gone

\* The task becomes active, in the plan or behind it.
LEMMA ActivateOrAddIs ==
  ASSUME NEW ts, Line(ts), NEW id \in TaskIds
  PROVE  /\ Line(ActivateOrAdd(ts, id)) /\ Marked(ActivateOrAdd(ts, id), id)
         /\ Has(ActivateOrAdd(ts, id), id) /\ Grows(ts, ActivateOrAdd(ts, id))
         /\ Gone(ActivateOrAdd(ts, id)) => Gone(ts) /\ id # Analyze
<1> DEFINE as == Activate(ts, id)
           us == Append(as, Task(id, "active"))
<1>1. Line(as) /\ Marked(as, id) /\ Grows(ts, as) /\ Grows(as, ts)
  BY ActivateIs, ActivateGrows
<1>2. CASE Has(ts, id)
  <2>1. ActivateOrAdd(ts, id) = as
    BY <1>2 DEF ActivateOrAdd
  <2> QED
    BY <2>1, <1>1, <1>2, HasGrows, ActivateGone
<1>3. CASE ~Has(ts, id)
  <2>1. ActivateOrAdd(ts, id) = us /\ ~Has(as, id)
    BY <1>1, <1>3, HasGrows DEF ActivateOrAdd
  <2>2. /\ Line(us) /\ DOMAIN us = DOMAIN as \cup {Len(as) + 1}
        /\ \A i \in DOMAIN as : us[i] = as[i]
        /\ us[Len(as) + 1] = Task(id, "active")
    BY <2>1, <1>1, AppendIs DEF Statuses
  <2>3. Task(id, "active").id = id /\ Task(id, "active").status = "active"
    BY DEF Task
  <2>4. Marked(us, id)
    BY <2>2, <2>3, <1>1 DEF Marked
  <2>5. Has(us, id) /\ Grows(as, us)
    BY <2>2, <2>3 DEF Has, Grows
  <2>6. Gone(us) => Gone(as)
    <3> SUFFICES ASSUME NEW i \in DOMAIN us, us[i].id = Analyze, us[i].retired, Closed(us[i])
                 PROVE  Gone(as)
      BY DEF Gone
    <3>1. i # Len(as) + 1
      BY <2>2, <2>3 DEF Closed
    <3> QED
      BY <3>1, <2>2 DEF Gone
  <2> QED
    BY <2>1, <2>2, <2>4, <2>5, <2>6, <1>1, GrowsOn, ActivateGone
<1> QED
  BY <1>2, <1>3

\* Tasks outside the core are closed.
LEMMA CloseIs ==
  ASSUME NEW ts, Line(ts), NEW S, S \cap Core = {}, Analyze \notin S, NEW st \in {"done", "blocked"},
         NEW us, us = [i \in DOMAIN ts |-> [ts[i] EXCEPT !.status = IF ts[i].id \in S THEN st ELSE ts[i].status]]
  PROVE  /\ Line(us) /\ Grows(ts, us) /\ Grows(us, ts) /\ (Gone(us) => Gone(ts))
         /\ \A id : Marked(ts, id) /\ id \notin S => Marked(us, id)
<1>1. ts \in Seq(TaskSet) /\ DOMAIN ts = 1..Len(ts) /\ Len(ts) \in Nat
  BY DEF Line
<1>2. \A i \in DOMAIN ts : ts[i] \in TaskSet
  BY <1>1
<1>3. \A i \in DOMAIN ts :
        /\ us[i] \in TaskSet /\ us[i].id = ts[i].id /\ us[i].retired = ts[i].retired
        /\ us[i].status = IF ts[i].id \in S THEN st ELSE ts[i].status
  BY <1>2 DEF TaskSet, Statuses
<1>4. us \in Seq(TaskSet) /\ Len(us) = Len(ts) /\ DOMAIN us = DOMAIN ts
  <2>1. DOMAIN us = 1..Len(ts) /\ us = [i \in 1..Len(ts) |-> us[i]]
    BY <1>1
  <2>2. us \in [1..Len(ts) -> TaskSet]
    BY <2>1, <1>1, <1>3
  <2> QED
    BY <2>1, <2>2, <1>1
<1>5. Distinct(us)
  <2> SUFFICES ASSUME NEW i \in DOMAIN ts, NEW j \in DOMAIN ts, us[i].id = us[j].id PROVE i = j
    BY <1>4 DEF Distinct
  <2>1. ts[i].id = ts[j].id
    BY <1>3
  <2> QED
    BY <2>1 DEF Line, Distinct
<1>6. Rooted(us)
  <2>1. 1 \in DOMAIN ts /\ 2 \in DOMAIN ts /\ (Len(ts) >= 3 => 3 \in DOMAIN ts)
    BY <1>1 DEF Line, Rooted
  <2>2. ts[1].id \notin S
    BY DEF Line, Rooted, Core
  <2>3. ts[2].id \notin S
    BY DEF Line, Rooted, Core
  <2>4. ~Closed(ts[1]) => ~Closed(us[1])
    BY <2>1, <2>2, <1>3 DEF Closed
  <2>5. ~Closed(ts[2]) => ~Closed(us[2])
    BY <2>1, <2>3, <1>3 DEF Closed
  <2> QED
    BY <2>1, <2>4, <2>5, <1>3, <1>4 DEF Line, Rooted
<1>7. Grows(ts, us) /\ Grows(us, ts)
  BY <1>3, <1>4 DEF Grows, Has
<1>8. ASSUME Gone(us) PROVE Gone(ts)
  <2>1. PICK i \in DOMAIN ts : us[i].id = Analyze /\ us[i].retired /\ Closed(us[i])
    BY <1>4, <1>8 DEF Gone
  <2>2. ts[i].id = Analyze /\ ts[i].retired /\ us[i].status = ts[i].status
    BY <2>1, <1>3
  <2>3. Closed(ts[i])
    BY <2>1, <2>2 DEF Closed
  <2> QED
    BY <2>2, <2>3 DEF Gone
<1>9. ASSUME NEW id, Marked(ts, id), id \notin S PROVE Marked(us, id)
  BY <1>3, <1>4, <1>9 DEF Marked
<1> QED
  BY <1>4, <1>5, <1>6, <1>7, <1>8, <1>9 DEF Line

LEMMA RetireAnalyzeIs ==
  ASSUME NEW ts, Line(ts)
  PROVE  /\ Line(RetireAnalyze(ts)) /\ Marked(RetireAnalyze(ts), Reward)
         /\ Has(RetireAnalyze(ts), Reward) /\ Grows(ts, RetireAnalyze(ts))
<1> DEFINE as == ActivateOrAdd(ts, Reward)
           us == RetireAnalyze(ts)
<1>0. Line(as) /\ Marked(as, Reward) /\ Has(as, Reward) /\ Grows(ts, as)
  BY ActivateOrAddIs, Names
<1>1. as \in Seq(TaskSet) /\ DOMAIN as = 1..Len(as) /\ Len(as) \in Nat
  BY <1>0 DEF Line
<1>2. \A i \in DOMAIN as : as[i] \in TaskSet
  BY <1>1
<1>3. us = [i \in DOMAIN as |-> IF as[i].id = Analyze THEN [as[i] EXCEPT !.status = "done", !.retired = TRUE]
                               ELSE as[i]]
  BY DEF RetireAnalyze
<1>4. \A i \in DOMAIN as :
        /\ us[i] \in TaskSet /\ us[i].id = as[i].id
        /\ us[i].status = IF as[i].id = Analyze THEN "done" ELSE as[i].status
  <2> HIDE DEF as, us
  <2> TAKE i \in DOMAIN as
  <2>1. as[i] \in TaskSet
    BY <1>2
  <2>2. CASE as[i].id = Analyze
    <3>1. us[i] = [as[i] EXCEPT !.status = "done", !.retired = TRUE]
      BY <2>2, <1>3
    <3>2. us[i] = [id |-> as[i].id, status |-> "done", retired |-> TRUE]
      BY <2>1, <3>1 DEF TaskSet
    <3>3. as[i].id \in TaskIds
      BY <2>1 DEF TaskSet
    <3>4. ASSUME NEW x \in TaskIds PROVE [id |-> x, status |-> "done", retired |-> TRUE] \in TaskSet
      BY DEF TaskSet, Statuses
    <3>5. us[i].id = as[i].id /\ us[i].status = "done"
      BY <3>2
    <3>6. us[i] \in TaskSet
      BY <3>2, <3>3, <3>4, Zenon
    <3> QED
      BY <2>2, <3>5, <3>6
  <2>3. CASE as[i].id # Analyze
    BY <2>1, <2>3, <1>3
  <2> QED
    BY <2>2, <2>3
<1>5. us \in Seq(TaskSet) /\ Len(us) = Len(as) /\ DOMAIN us = DOMAIN as
  <2>1. DOMAIN us = 1..Len(as) /\ us = [i \in 1..Len(as) |-> us[i]]
    BY <1>1, <1>3
  <2>2. us \in [1..Len(as) -> TaskSet]
    BY <2>1, <1>1, <1>4
  <2> QED
    BY <2>1, <2>2, <1>1
<1>6. Distinct(us)
  BY <1>0, <1>4, <1>5 DEF Line, Distinct
<1>7. Rooted(us)
  <2>1. 1 \in DOMAIN as /\ 2 \in DOMAIN as /\ (Len(as) >= 3 => 3 \in DOMAIN as)
    BY <1>0, <1>1 DEF Line, Rooted
  <2>2. as[1].id # Analyze /\ as[2].id # Analyze
    BY <1>0 DEF Line, Rooted, Refresh, Verify, Bounded, Analyze
  <2>3. us[1] = as[1] /\ us[2] = as[2]
    BY <2>1, <2>2, <1>3
  <2> QED
    BY <2>1, <2>3, <1>0, <1>4, <1>5 DEF Line, Rooted
<1>8. Marked(us, Reward)
  <2>1. Reward # Analyze
    BY DEF Reward, Analyze
  <2> QED
    BY <2>1, <1>0, <1>4, <1>5 DEF Marked
<1>9. Has(us, Reward) /\ Grows(as, us)
  BY <1>0, <1>4, <1>5 DEF Has, Grows
<1> QED
  BY <1>0, <1>5, <1>6, <1>7, <1>8, <1>9, GrowsOn DEF Line

\* A candidate becomes a task.
LEMMA AddNewIs ==
  ASSUME NEW ts, Line(ts), NEW x \in Offers \cup {None}
  PROVE  /\ Line(AddNew(ts, x)) /\ Grows(ts, AddNew(ts, x)) /\ (Gone(AddNew(ts, x)) => Gone(ts))
         /\ x # None => Has(AddNew(ts, x), x.id)
         /\ \A id : Marked(ts, id) /\ (x # None /\ ~Has(ts, x.id) => (x.status = "active" <=> x.id = id))
                    => Marked(AddNew(ts, x), id)
<1>1. CASE x = None \/ Has(ts, x.id)
  <2>1. AddNew(ts, x) = ts
    BY <1>1 DEF AddNew
  <2> QED
    BY <2>1, <1>1 DEF Grows, Has
<1>2. CASE x # None /\ ~Has(ts, x.id)
  <2> DEFINE us == Append(ts, Task(x.id, x.status))
  <2>1. AddNew(ts, x) = us
    BY <1>2 DEF AddNew
  <2>2. x.id \in TaskIds /\ x.status \in Statuses /\ x.status \notin {"done", "blocked"}
    BY <1>2 DEF Offers, Statuses
  <2>3. /\ Line(us) /\ DOMAIN us = DOMAIN ts \cup {Len(ts) + 1}
        /\ \A i \in DOMAIN ts : us[i] = ts[i]
        /\ us[Len(ts) + 1] = Task(x.id, x.status)
    BY <1>2, <2>2, AppendIs
  <2>4. /\ Task(x.id, x.status).id = x.id /\ Task(x.id, x.status).status = x.status
        /\ Task(x.id, x.status).retired = FALSE
    BY DEF Task
  <2>5. Grows(ts, us) /\ Has(us, x.id)
    BY <2>3, <2>4 DEF Has, Grows
  <2>6. ASSUME NEW i \in DOMAIN us, us[i].id = Analyze, us[i].retired, Closed(us[i])
        PROVE  Gone(ts)
    <3>1. i # Len(ts) + 1
      BY <2>3, <2>4, <2>6
    <3> QED
      BY <3>1, <2>3, <2>6 DEF Gone
  <2>7. ASSUME NEW id, Marked(ts, id), x.status = "active" <=> x.id = id
        PROVE  Marked(us, id)
    BY <2>3, <2>4, <2>7 DEF Marked
  <2> QED
    BY <2>1, <1>2, <2>3, <2>5, <2>6, <2>7 DEF Gone
<1> QED
  BY <1>1, <1>2

-------------------------------------------------------------------------------
(* The plan that is read, and the plan under construction *)

Retiring == {"retire_terminal_selfevo_lane", "retire_terminal_noop_lane", "retire_stale_subagent_lane"}
Results == {"PASS", "BLOCK", "ERROR"}
CandSet == [id : TaskIds, ready : BOOLEAN]

Unique(cs) == \A x, y \in cs : x.id = y.id => x = y
CandsOK(cs, ts) == cs \subseteq CandSet /\ Unique(cs) /\ \A x \in cs : Has(ts, x.id)

\* A decision that retired a lane is about another task than the current one: Feedback never
\* finds such a decision to repeat.
FdOK(fd, cur) ==
  fd # None => /\ fd.sel \in TaskIds
               /\ fd.mode \in Retiring => fd.sel \in {Reward, Analyze} /\ fd.cur \notin Core /\ fd.cur # cur

PlanOK(pl) ==
  /\ Line(pl.tasks) /\ pl.cur \in TaskIds /\ FdOK(pl.fd, pl.cur) /\ CandsOK(pl.cands, pl.tasks)
  /\ pl.status = "PASS" => Marked(pl.tasks, pl.cur) /\ Has(pl.tasks, pl.cur)
  /\ Gone(pl.tasks) => pl.cur # Analyze

PlanInv == plan # None => PlanOK(plan)

\* What a cycle knows when it begins its plan.
KnownOK(c) ==
  /\ c.status \in Results /\ (c.again <=> c.status = "PASS" /\ plan # None)
  /\ c.fd # None =>
       /\ plan # None /\ c.fd.sel \in TaskIds /\ c.fd.mode \notin Retiring
       /\ Has(plan.tasks, c.fd.sel) \/ c.fd.sel \in {Synth, MatSynth} \/ (c.fd.sel = Reward /\ plan.cur = Reward)
       /\ Gone(plan.tasks) => c.fd.sel # Analyze
  /\ c.new # None =>
       /\ c.new \in Artifacts /\ c.new.task \in Materializing
       /\ c.fd = None /\ c.status # "PASS" =>
            /\ plan # None /\ c.new.task = MatSynth
            /\ plan.cur = MatSynth \/ (plan.fd # None /\ plan.fd.sel = MatSynth)

IsDraft(p) == p = [tasks |-> p.tasks, cur |-> p.cur, fd |-> p.fd, retired |-> p.retired, cands |-> p.cands]

\* Where the current task of a plan without a decision comes from.
Undecided(c, p) ==
  p.fd = None => \/ p.cur \in Core \/ (plan # None /\ p.cur = plan.cur)
                 \/ c.status # "PASS" /\ c.new # None /\ p.cur = c.new.task

\* Every step of _build_task_plan_snapshot keeps this ...
Draft(c, p) ==
  /\ IsDraft(p) /\ Line(p.tasks) /\ p.cur \in TaskIds
  /\ p.fd # None => p.fd.sel \in TaskIds
  /\ Undecided(c, p)
  /\ c.status = "PASS" => Marked(p.tasks, p.cur)
  /\ Gone(p.tasks) => p.cur # Analyze

\* ... and until it completes a lane, this,
Early(p) == p.fd # None /\ p.fd.mode \in Retiring => p.fd.cur = Analyze /\ p.fd.sel = Reward /\ p.cur = Reward

\* ... until it has the candidates, this,
Raw(c, p) ==
  /\ c.again => Grows(plan.tasks, p.tasks)
  /\ c.status = "PASS" => Has(p.tasks, p.cur) \/ (p.fd # None /\ p.cur \in {Synth, MatSynth})
Chosen(c, p) == c.status = "PASS" /\ p.fd # None => p.fd.sel = p.cur

\* ... and then this.
Full(c, p) == CandsOK(p.cands, p.tasks) /\ (c.status = "PASS" => Has(p.tasks, p.cur))

\* What StaysRetired says of the plan.
NoReturn(c, p) == c.status = "PASS" /\ world.issue /\ world.failure # "fresh" => p.cur # Analyze

BaseCur(c) ==
  IF c.status = "BLOCK" THEN Refresh ELSE IF c.status = "ERROR" THEN Bounded
  ELSE IF plan # None /\ Has(plan.tasks, plan.cur) THEN plan.cur ELSE Reward

LEMMA PairIs == ASSUME NEW a \in TaskSet, NEW b \in TaskSet, a.id = Refresh, b.id = Verify, ~Closed(a), ~Closed(b)
                PROVE  Line(<<a, b>>)
<1>1. <<a, b>> \in Seq(TaskSet) /\ Len(<<a, b>>) = 2 /\ DOMAIN <<a, b>> = 1..2
  OBVIOUS
<1>2. Refresh # Verify
  BY DEF Refresh, Verify
<1>3. Distinct(<<a, b>>)
  BY <1>1, <1>2 DEF Distinct
<1>4. Rooted(<<a, b>>)
  BY <1>1 DEF Rooted
<1> QED
  BY <1>1, <1>3, <1>4 DEF Line

LEMMA TripleIs == ASSUME NEW a \in TaskSet, NEW b \in TaskSet, NEW d \in TaskSet,
                         a.id = Refresh, b.id = Bounded, d.id = Reward
                  PROVE  Line(<<a, b, d>>)
<1>1. <<a, b, d>> \in Seq(TaskSet) /\ Len(<<a, b, d>>) = 3 /\ DOMAIN <<a, b, d>> = 1..3
  OBVIOUS
<1>2. Refresh # Bounded /\ Bounded # Reward /\ Refresh # Reward
  BY DEF Refresh, Bounded, Reward
<1>3. Distinct(<<a, b, d>>)
  BY <1>1, <1>2 DEF Distinct
<1>4. Rooted(<<a, b, d>>)
  BY <1>1 DEF Rooted
<1> QED
  BY <1>1, <1>3, <1>4 DEF Line

LEMMA BaseIs ==
  ASSUME PlanInv, NEW c, c.status \in Results
  PROVE  /\ Line(Base(c)) /\ Marked(Base(c), BaseCur(c)) /\ Has(Base(c), BaseCur(c))
         /\ c.status = "PASS" /\ plan # None => Grows(plan.tasks, Base(c))
         /\ c.status = "PASS" /\ plan # None /\ plan.cur = Reward => Has(Base(c), Reward)
<1>0. \A id \in TaskIds, st \in Statuses :
        /\ Task(id, st) \in TaskSet /\ Task(id, st).id = id /\ Task(id, st).status = st
  BY DEF Task, TaskSet
<1>n. Refresh # Verify /\ Refresh # Bounded /\ Bounded # Reward /\ Refresh # Reward
  BY DEF Refresh, Verify, Bounded, Reward
<1>1. CASE c.status = "BLOCK"
  <2> DEFINE a == Task(Refresh, "active")
             b == Task(Verify, "pending")
  <2>1. Base(c) = <<a, b>> /\ BaseCur(c) = Refresh
    BY <1>1 DEF Base, BaseCur
  <2>2. /\ a \in TaskSet /\ a.id = Refresh /\ a.status = "active"
        /\ b \in TaskSet /\ b.id = Verify /\ b.status = "pending"
    BY <1>0, Names DEF Statuses
  <2> HIDE DEF a, b
  <2>3. Line(<<a, b>>)
    BY <2>2, PairIs DEF Closed
  <2>4. Marked(<<a, b>>, Refresh) /\ Has(<<a, b>>, Refresh)
    BY <2>2, <1>n DEF Marked, Has
  <2> QED
    BY <2>1, <2>3, <2>4, <1>1
<1>2. CASE c.status = "ERROR"
  <2> DEFINE a == Task(Refresh, "done")
             b == Task(Bounded, "active")
             d == Task(Reward, "pending")
  <2>1. Base(c) = <<a, b, d>> /\ BaseCur(c) = Bounded
    BY <1>2 DEF Base, BaseCur
  <2>2. /\ a \in TaskSet /\ a.id = Refresh /\ a.status = "done"
        /\ b \in TaskSet /\ b.id = Bounded /\ b.status = "active"
        /\ d \in TaskSet /\ d.id = Reward /\ d.status = "pending"
    BY <1>0, Names DEF Statuses
  <2> HIDE DEF a, b, d
  <2>3. Line(<<a, b, d>>)
    BY <2>2, TripleIs
  <2>4. Marked(<<a, b, d>>, Bounded) /\ Has(<<a, b, d>>, Bounded)
    BY <2>2, <1>n DEF Marked, Has
  <2> QED
    BY <2>1, <2>3, <2>4, <1>2
<1>3. CASE c.status = "PASS" /\ plan = None
  <2> DEFINE a == Task(Refresh, "done")
             b == Task(Bounded, "done")
             d == Task(Reward, "active")
  <2>1. Base(c) = <<a, b, d>> /\ BaseCur(c) = Reward
    BY <1>3 DEF Base, BaseCur
  <2>2. /\ a \in TaskSet /\ a.id = Refresh /\ a.status = "done"
        /\ b \in TaskSet /\ b.id = Bounded /\ b.status = "done"
        /\ d \in TaskSet /\ d.id = Reward /\ d.status = "active"
    BY <1>0, Names DEF Statuses
  <2> HIDE DEF a, b, d
  <2>3. Line(<<a, b, d>>)
    BY <2>2, TripleIs
  <2>4. Marked(<<a, b, d>>, Reward) /\ Has(<<a, b, d>>, Reward)
    BY <2>2, <1>n DEF Marked, Has
  <2> QED
    BY <2>1, <2>3, <2>4, <1>3
<1>4. CASE c.status = "PASS" /\ plan # None /\ Has(plan.tasks, plan.cur)
  <2>1. Base(c) = Activate(plan.tasks, plan.cur) /\ BaseCur(c) = plan.cur
    BY <1>4 DEF Base, BaseCur
  <2>2. Line(plan.tasks)
    BY <1>4 DEF PlanInv, PlanOK
  <2>3. Line(Base(c)) /\ Marked(Base(c), plan.cur) /\ Grows(plan.tasks, Base(c))
    BY <2>1, <2>2, ActivateIs, ActivateGrows
  <2> QED
    BY <2>1, <2>3, <1>4, HasGrows
<1>5. CASE c.status = "PASS" /\ plan # None /\ ~Has(plan.tasks, plan.cur)
  <2>1. Base(c) = ActivateOrAdd(plan.tasks, Reward) /\ BaseCur(c) = Reward
    BY <1>5 DEF Base, BaseCur
  <2>2. Line(plan.tasks)
    BY <1>5 DEF PlanInv, PlanOK
  <2>3. Line(Base(c)) /\ Marked(Base(c), Reward) /\ Grows(plan.tasks, Base(c)) /\ Has(Base(c), Reward)
    BY <2>1, <2>2, ActivateOrAddIs, Names
  <2> QED
    BY <2>1, <2>3, <1>5
<1> QED
  BY <1>1, <1>2, <1>3, <1>4, <1>5 DEF Results

LEMMA BaseCurIs == ASSUME PlanInv, NEW c PROVE BaseCur(c) \in TaskIds
BY Names DEF BaseCur, PlanInv, PlanOK

LEMMA SelectedIs ==
  ASSUME PlanInv, NEW c, KnownOK(c)
  PROVE  /\ Draft(c, Selected(c)) /\ Early(Selected(c)) /\ Raw(c, Selected(c)) /\ Chosen(c, Selected(c))
         /\ c.status = "PASS" /\ plan # None /\ Gone(plan.tasks) => Selected(c).cur # Analyze
<1> DEFINE ts == Base(c)
           active == CHOOSE i \in DOMAIN ts : ts[i].status = "active"
<1>p. PICK p : p = Selected(c)
  OBVIOUS
<1>b. /\ Line(ts) /\ Marked(ts, BaseCur(c)) /\ Has(ts, BaseCur(c))
      /\ c.status = "PASS" /\ plan # None => Grows(plan.tasks, ts)
      /\ c.status = "PASS" /\ plan # None /\ plan.cur = Reward => Has(ts, Reward)
  BY BaseIs DEF KnownOK
<1>1. CASE c.fd # None
  <2>1. c.fd.sel \in TaskIds /\ c.fd.sel # None
    BY <1>1, NoneAssumption DEF KnownOK
  <2>2. p = [tasks |-> Activate(ts, c.fd.sel), cur |-> c.fd.sel, fd |-> c.fd, retired |-> FALSE, cands |-> {}]
    BY <1>p, <1>1, <2>1 DEF Selected
  <2> HIDE DEF ts
  <2>3. /\ p.tasks = Activate(ts, c.fd.sel) /\ p.cur = c.fd.sel /\ p.fd = c.fd /\ IsDraft(p)
    BY <2>2 DEF IsDraft
  <2>4. /\ Line(p.tasks) /\ Marked(p.tasks, p.cur) /\ Grows(ts, p.tasks) /\ (Gone(p.tasks) => p.cur # Analyze)
    BY <1>b, <2>3, ActivateIs, ActivateGrows, ActivateGone
  <2>5. Draft(c, p)
    BY <1>1, <2>1, <2>3, <2>4 DEF Draft, Undecided
  <2>6. Early(p) /\ Chosen(c, p)
    BY <1>1, <2>3 DEF Early, KnownOK, Chosen
  <2>7. c.again => Grows(plan.tasks, p.tasks)
    BY <1>b, <2>4, GrowsOn DEF KnownOK
  <2>8. c.status = "PASS" => Has(p.tasks, p.cur) \/ p.cur \in {Synth, MatSynth}
    <3> SUFFICES ASSUME c.status = "PASS", p.cur \notin {Synth, MatSynth} PROVE Has(p.tasks, p.cur)
      OBVIOUS
    <3>1. plan # None /\ (Has(plan.tasks, p.cur) \/ (p.cur = Reward /\ plan.cur = Reward))
      BY <1>1, <2>3 DEF KnownOK
    <3>2. Has(ts, p.cur)
      BY <3>1, <1>b, HasGrows
    <3> QED
      BY <3>2, <2>4, HasGrows
  <2>9. plan # None /\ Gone(plan.tasks) => p.cur # Analyze
    BY <1>1, <2>3 DEF KnownOK
  <2>10. Raw(c, p)
    BY <1>1, <2>3, <2>7, <2>8 DEF Raw
  <2> QED
    BY <1>p, <2>5, <2>6, <2>9, <2>10
<1>2. CASE c.fd = None
  <2>1. p = [tasks |-> ts, cur |-> ts[active].id, fd |-> c.fd, retired |-> FALSE, cands |-> {}]
    BY <1>p, <1>2 DEF Selected
  <2>2. ts[active].id = BaseCur(c)
    <3>1. \E i \in DOMAIN ts : ts[i].status = "active"
      BY <1>b DEF Has, Marked
    <3>2. active \in DOMAIN ts /\ ts[active].status = "active"
      BY <3>1
    <3> QED
      BY <3>2, <1>b DEF Marked
  <2> HIDE DEF ts, active
  <2>3. p.tasks = ts /\ p.cur = BaseCur(c) /\ p.fd = None /\ IsDraft(p)
    BY <2>1, <2>2, <1>2 DEF IsDraft
  <2>4. Gone(ts) => p.cur # Analyze
    BY <2>3, <1>b DEF Gone, Marked, Closed
  <2>5. p.cur \in Core \/ (plan # None /\ p.cur = plan.cur)
    BY <2>3 DEF BaseCur, Core
  <2>6. Draft(c, p)
    BY <1>b, <2>3, <2>4, <2>5, BaseCurIs DEF Draft, Undecided
  <2>7. Early(p) /\ Raw(c, p) /\ Chosen(c, p)
    BY <1>b, <2>3 DEF Early, KnownOK, Raw, Chosen
  <2>8. plan # None /\ Gone(plan.tasks) => p.cur # Analyze
    <3>1. Reward # Analyze /\ Refresh # Analyze /\ Bounded # Analyze
      BY DEF Reward, Analyze, Refresh, Bounded
    <3> QED
      BY <2>3, <3>1 DEF BaseCur, PlanInv, PlanOK
  <2> QED
    BY <1>p, <2>6, <2>7, <2>8
<1> QED
  BY <1>1, <1>2

\* A decision is not None.
LEMMA DecisionIs ==
  ASSUME NEW mode \in Modes, NEW cur \in TaskIds \cup {None}, NEW sel \in TaskIds \cup {None},
         NEW retire \in BOOLEAN, NEW path \in Artifacts \cup {None},
         NEW d, d = [mode |-> mode, cur |-> cur, sel |-> sel, retire |-> retire, path |-> path]
  PROVE  d # None
<1>1. d \in Decisions
  BY DEF Decisions
<1> QED
  BY <1>1, NoneAssumption

\* The moves of FailureLearning.
LEMMA RetireTerminalIs ==
  ASSUME NEW c, NEW p, Draft(c, p), Raw(c, p), NEW q, IsDraft(q), q.tasks = RetireAnalyze(p.tasks), q.cur = Reward,
         \/ q.fd = None
         \/ q.fd # None /\ q.fd.sel = Reward /\ q.fd.cur = Analyze
  PROVE  Draft(c, q) /\ Early(q) /\ Raw(c, q) /\ Chosen(c, q) /\ q.cur # Analyze
<1>1. /\ Line(q.tasks) /\ Marked(q.tasks, Reward) /\ Has(q.tasks, Reward) /\ Grows(p.tasks, q.tasks)
  BY RetireAnalyzeIs DEF Draft
<1>2. Reward # Analyze /\ Reward \in Core
  BY DEF Reward, Analyze, Core
<1>3. Draft(c, q)
  BY <1>1, <1>2, Names DEF Draft, Undecided
<1>4. Early(q) /\ Chosen(c, q)
  BY DEF Early, Chosen
<1>5. Raw(c, q)
  BY <1>1, GrowsOn DEF Raw
<1> QED
  BY <1>2, <1>3, <1>4, <1>5

LEMMA RepairIs ==
  ASSUME NEW c, NEW p, Draft(c, p), Raw(c, p), NEW fd, fd # None, fd.sel = Analyze, fd.mode \notin Retiring
  PROVE  Draft(c, Repair(p, fd)) /\ Early(Repair(p, fd)) /\ Raw(c, Repair(p, fd)) /\ Chosen(c, Repair(p, fd))
<1>d. PICK t, cu, f, r, cs : p = [tasks |-> t, cur |-> cu, fd |-> f, retired |-> r, cands |-> cs]
  BY DEF Draft, IsDraft
<1>q. PICK q : q = Repair(p, fd)
  OBVIOUS
<1>1. q = [tasks |-> ActivateOrAdd(t, Analyze), cur |-> Analyze, fd |-> fd, retired |-> r, cands |-> cs] /\ p.tasks = t
  BY <1>d, <1>q DEF Repair
<1>2. q.tasks = ActivateOrAdd(p.tasks, Analyze) /\ q.cur = Analyze /\ q.fd = fd /\ IsDraft(q)
  BY <1>1 DEF IsDraft
<1>3. /\ Line(q.tasks) /\ Marked(q.tasks, Analyze) /\ Has(q.tasks, Analyze) /\ Grows(p.tasks, q.tasks)
      /\ ~Gone(q.tasks)
  BY <1>2, ActivateOrAddIs, Names DEF Draft
<1>4. Draft(c, q)
  BY <1>2, <1>3, Names DEF Draft, Undecided
<1>5. Early(q) /\ Chosen(c, q)
  BY <1>2 DEF Early, Chosen
<1>6. Raw(c, q)
  BY <1>2, <1>3, GrowsOn DEF Raw
<1> QED
  BY <1>q, <1>4, <1>5, <1>6

LEMMA AlreadyRetiredIs == ASSUME PlanInv, NEW c, KnownOK(c), AlreadyRetired(c)
                          PROVE  plan # None /\ c.status = "PASS" /\ Gone(plan.tasks)
<1>1. plan # None /\ c.status = "PASS"
  BY DEF AlreadyRetired, KnownOK
<1>2. Distinct(plan.tasks)
  BY <1>1 DEF PlanInv, PlanOK, Line
<1>3. PICK i \in DOMAIN plan.tasks : plan.tasks[i].id = Analyze
  BY DEF AlreadyRetired, Has
<1>4. The(plan.tasks, Analyze) = plan.tasks[i]
  BY <1>2, <1>3, TheIs
<1>5. plan.tasks[i].retired /\ plan.tasks[i].status \in {"done", "blocked"}
  BY <1>4 DEF AlreadyRetired, Selectable
<1> QED
  BY <1>1, <1>3, <1>5 DEF Gone, Closed

\* What self-evolution left behind does not send a cycle back to a retired analysis.
LEMMA FailureLearningIs ==
  ASSUME PlanInv, NEW c, KnownOK(c), NEW p, Draft(c, p), Early(p), Raw(c, p), Chosen(c, p),
         c.status = "PASS" /\ plan # None /\ Gone(plan.tasks) => p.cur # Analyze
  PROVE  /\ Draft(c, FailureLearning(c, p)) /\ Early(FailureLearning(c, p)) /\ Raw(c, FailureLearning(c, p))
         /\ Chosen(c, FailureLearning(c, p)) /\ NoReturn(c, FailureLearning(c, p))
<1> DEFINE rfd == IF c.again THEN plan.fd ELSE None
           recorded == IF c.again THEN plan.cur ELSE None
           repeatRetire ==
             /\ recorded = Reward \/ AlreadyRetired(c)
             /\ rfd # None /\ rfd.mode = "retire_terminal_selfevo_lane" /\ rfd.sel = Reward /\ world.issue
           fromReward == rfd # None /\ rfd.cur = Reward /\ rfd.retire
           fromLane == rfd # None /\ rfd.mode = "complete_active_lane" /\ rfd.cur = MatPass /\ rfd.sel = Reward
           late == [Decision(IF fromReward THEN "fresh_failure_learning_after_reward_retirement"
                             ELSE "stale_complete_lane_record_reward_repair", Reward, Analyze)
                      EXCEPT !.retire = fromReward]
           early == Decision("fresh_failure_learning_repair", recorded, Analyze)
<1>q. PICK q : q = IF repeatRetire
                   THEN [p EXCEPT !.tasks = RetireAnalyze(@), !.cur = Reward, !.fd = None, !.retired = TRUE]
                   ELSE [p EXCEPT !.retired = AlreadyRetired(c)]
  OBVIOUS
<1>r. PICK r : r = FailureLearning(c, p)
  OBVIOUS
<1>1. r = IF world.issue /\ ~q.retired /\ q.cur = Analyze THEN RetireTerminal(q)
          ELSE IF /\ FailureKnown /\ q.cur # MatSynth /\ ~q.retired
                  /\ q.cur = Reward \/ FailureFresh
          THEN IF world.issue /\ (fromLane \/ q.cur # Sub) THEN RetireTerminal(q)
               ELSE IF ~world.issue /\ ((fromReward /\ FailureFresh) \/ fromLane)
               THEN Repair(q, late)
               ELSE Repair(q, early)
          ELSE q
  BY <1>q, <1>r DEF FailureLearning
<1>d. PICK t, cu, f, re, cs : p = [tasks |-> t, cur |-> cu, fd |-> f, retired |-> re, cands |-> cs]
  BY DEF Draft, IsDraft
<1>2. /\ Draft(c, q) /\ Early(q) /\ Raw(c, q) /\ Chosen(c, q)
      /\ q.retired => q.cur # Analyze
  <2>1. CASE repeatRetire
    <3>1. q = [tasks |-> RetireAnalyze(t), cur |-> Reward, fd |-> None, retired |-> TRUE, cands |-> cs] /\ p.tasks = t
      BY <2>1, <1>q, <1>d
    <3>2. IsDraft(q) /\ q.tasks = RetireAnalyze(p.tasks) /\ q.cur = Reward /\ q.fd = None
      BY <3>1 DEF IsDraft
    <3> QED
      BY <3>2, RetireTerminalIs
  <2>2. CASE ~repeatRetire
    <3>1. q = [tasks |-> t, cur |-> cu, fd |-> f, retired |-> AlreadyRetired(c), cands |-> cs]
      BY <2>2, <1>q, <1>d
    <3>2. IsDraft(q) /\ q.tasks = p.tasks /\ q.cur = p.cur /\ q.fd = p.fd /\ q.retired = AlreadyRetired(c)
      BY <3>1, <1>d DEF IsDraft
    <3>3. q.retired => q.cur # Analyze
      BY <3>2, AlreadyRetiredIs
    <3> QED
      BY <3>2, <3>3 DEF Draft, Early, Raw, Chosen, Undecided
  <2> QED
    BY <2>1, <2>2
<1> HIDE DEF rfd, recorded, repeatRetire, fromReward, fromLane
<1>3. CASE r = RetireTerminal(q)
  <2>1. PICK tq, cq, fq, rq, sq : q = [tasks |-> tq, cur |-> cq, fd |-> fq, retired |-> rq, cands |-> sq]
    BY <1>2 DEF Draft, IsDraft
  <2>2. PICK d : d = Decision("retire_terminal_selfevo_lane", Analyze, Reward)
    OBVIOUS
  <2>3. r = [tasks |-> RetireAnalyze(tq), cur |-> Reward, fd |-> d, retired |-> TRUE, cands |-> sq] /\ q.tasks = tq
    BY <1>3, <2>1, <2>2 DEF RetireTerminal
  <2>4. d.sel = Reward /\ d.cur = Analyze
    BY <2>2 DEF Decision
  <2>5. IsDraft(r) /\ r.tasks = RetireAnalyze(q.tasks) /\ r.cur = Reward /\ r.fd = d
    BY <2>3 DEF IsDraft
  <2>6. Draft(c, r) /\ Early(r) /\ Raw(c, r) /\ Chosen(c, r) /\ r.cur # Analyze
    BY <2>4, <2>5, <1>2, RetireTerminalIs
  <2> QED
    BY <1>r, <2>6 DEF NoReturn
<1>4. ASSUME NEW fd \in {late, early}, r = Repair(q, fd),
             FailureKnown /\ (q.cur = Reward \/ FailureFresh), ~(world.issue /\ (fromLane \/ q.cur # Sub))
      PROVE  Draft(c, r) /\ Early(r) /\ Raw(c, r) /\ Chosen(c, r) /\ NoReturn(c, r)
  <2>1. fd.sel = Analyze /\ fd.mode \notin Retiring
    BY <1>4 DEF Decision, Retiring
  <2>2. fd # None
    <3>1. recorded \in TaskIds \cup {None}
      BY DEF recorded, PlanInv, PlanOK, KnownOK
    <3>2. fromReward \in BOOLEAN
      BY DEF fromReward
    <3>3. CASE fd = late
      <4>1. PICK mode \in Modes : mode = IF fromReward THEN "fresh_failure_learning_after_reward_retirement"
                                         ELSE "stale_complete_lane_record_reward_repair"
        BY DEF Modes
      <4>2. fd = [mode |-> mode, cur |-> Reward, sel |-> Analyze, retire |-> fromReward, path |-> None]
        BY <3>3, <4>1 DEF Decision
      <4> QED
        BY <3>2, <4>2, Names, DecisionIs
    <3>4. CASE fd = early
      <4>1. "fresh_failure_learning_repair" \in Modes
        BY DEF Modes
      <4>2. fd = [mode |-> "fresh_failure_learning_repair", cur |-> recorded, sel |-> Analyze, retire |-> FALSE,
                  path |-> None]
        BY <3>4 DEF Decision
      <4> QED
        BY <3>1, <4>1, <4>2, Names, DecisionIs
    <3> QED
      BY <3>3, <3>4, <1>4
  <2>4. Draft(c, r) /\ Early(r) /\ Raw(c, r) /\ Chosen(c, r) /\ NoReturn(c, r)
    <3>1. Draft(c, r) /\ Early(r) /\ Raw(c, r) /\ Chosen(c, r)
      BY <2>1, <2>2, <1>2, <1>4, RepairIs
    <3>2. NoReturn(c, r)
      <4>1. Reward # Sub
        BY DEF Reward, Sub
      <4> QED
        BY <1>4, <4>1 DEF NoReturn, FailureFresh
    <3> QED
      BY <3>1, <3>2
  <2> QED
    BY <2>4
<1>5. CASE r = q /\ ~(world.issue /\ ~q.retired /\ q.cur = Analyze)
  BY <1>r, <1>2, <1>5 DEF NoReturn
<1> QED
  <2>1. CASE r = RetireTerminal(q)
    BY <2>1, <1>3
  <2>2. CASE r # RetireTerminal(q) /\ r = q
    BY <2>2, <1>1, <1>5
  <2>3. CASE r # RetireTerminal(q) /\ r # q
    BY <2>3, <1>1, <1>4, <1>r
  <2> QED
    BY <2>1, <2>2, <2>3

-------------------------------------------------------------------------------
(* The candidates *)

LEMMA OffersAre ==
  ASSUME NEW c, NEW p
  PROVE  /\ OfFailure(c) \in Offers \cup {None} /\ OfLane(c, p) \in Offers \cup {None}
         /\ OfDecision(c, p) \in Offers \cup {None}
         /\ OfFailure(c) # None => OfFailure(c).id = Analyze /\ OfFailure(c).status = "pending"
         /\ OfLane(c, p) # None => /\ OfLane(c, p).id \in {MatPass, Sub, MatSynth, Inspect}
                                   /\ OfLane(c, p).id # p.cur /\ OfLane(c, p).status = "pending"
         /\ OfDecision(c, p) # None =>
              /\ p.fd # None /\ OfDecision(c, p).id = p.fd.sel /\ OfDecision(c, p).id \in {Synth, MatSynth}
              /\ OfDecision(c, p).status = "active"
              /\ OfLane(c, p) # None => OfLane(c, p).id # OfDecision(c, p).id
         /\ p.fd # None /\ p.fd.sel \in {Synth, MatSynth} =>
              OfDecision(c, p) # None \/ (OfLane(c, p) # None /\ OfLane(c, p).id = p.fd.sel)
<1>n. /\ Inspect # MatPass /\ Inspect \notin Materializing /\ Sub \notin Materializing /\ Synth # MatSynth
      /\ Inspect # Synth
  BY DEF Inspect, MatPass, MatSynth, Materializing, Sub, Synth
<1>1. OfFailure(c) \in Offers \cup {None}
  BY Names DEF OfFailure, Offers
<1>2. OfFailure(c) # None => OfFailure(c).id = Analyze /\ OfFailure(c).status = "pending"
  BY DEF OfFailure
<1>3. OfLane(c, p) \in Offers \cup {None}
  <2>1. \A id \in TaskIds : [id |-> id, ready |-> id = MatSynth, status |-> "pending"] \in Offers
    BY DEF Offers
  <2> QED
    BY <2>1, Names DEF OfLane
<1>4. OfLane(c, p) # None => /\ OfLane(c, p).id \in {MatPass, Sub, MatSynth, Inspect}
                             /\ OfLane(c, p).id # p.cur /\ OfLane(c, p).status = "pending"
  BY <1>n DEF OfLane
<1>5. CASE /\ p.fd # None /\ p.fd.sel \in {Synth, MatSynth}
           /\ OfLane(c, p) # None => OfLane(c, p).id # p.fd.sel
  <2>1. OfDecision(c, p) = [id |-> p.fd.sel, ready |-> p.fd.sel = MatSynth, status |-> "active"]
    BY <1>5 DEF OfDecision
  <2>2. OfDecision(c, p) \in Offers
    BY <2>1, <1>5, Names DEF Offers
  <2>3. OfDecision(c, p) # None
    BY <2>2, NoneAssumption
  <2>4. OfDecision(c, p).id = p.fd.sel /\ OfDecision(c, p).status = "active"
    BY <2>1
  <2> QED
    BY <1>1, <1>2, <1>3, <1>4, <1>5, <2>2, <2>3, <2>4
<1>6. CASE ~(/\ p.fd # None /\ p.fd.sel \in {Synth, MatSynth}
             /\ OfLane(c, p) # None => OfLane(c, p).id # p.fd.sel)
  <2>1. OfDecision(c, p) = None
    BY <1>6 DEF OfDecision
  <2> QED
    BY <1>1, <1>2, <1>3, <1>4, <1>6, <2>1
<1> QED
  BY <1>5, <1>6

LEMMA OverIs ==
  ASSUME NEW S, NEW T, Unique(S), Unique(T), S \subseteq CandSet, T \subseteq CandSet,
         NEW V, V = S \cup {x \in T : \A y \in S : y.id # x.id}
  PROVE  Unique(V) /\ V \subseteq CandSet
BY DEF Unique

LEMMA CandidatesIs ==
  ASSUME PlanInv, NEW c, KnownOK(c), NEW p, Draft(c, p), Early(p), Raw(c, p), Chosen(c, p), NoReturn(c, p)
  PROVE  /\ Draft(c, Candidates(c, p)) /\ Early(Candidates(c, p)) /\ Chosen(c, Candidates(c, p))
         /\ NoReturn(c, Candidates(c, p)) /\ Full(c, Candidates(c, p))
<1> DEFINE open(id) == Selectable(p.tasks, id)
           carried == IF c.again THEN {x \in plan.cands : open(x.id)} ELSE {}
           inferred == {[id |-> p.tasks[i].id, ready |-> FALSE] :
                          i \in {j \in DOMAIN p.tasks : p.tasks[j].id \notin Core /\ open(p.tasks[j].id)}}
           offered == {x \in {OfFailure(c), OfLane(c, p), OfDecision(c, p)} : x # None /\ open(x.id)}
           generated == {[id |-> x.id, ready |-> x.ready] : x \in offered}
           known == carried \cup {x \in inferred : \A y \in carried : y.id # x.id}
           cands == known \cup {x \in generated : \A y \in known : y.id # x.id}
           t1 == AddNew(p.tasks, OfFailure(c))
           t2 == AddNew(t1, OfLane(c, p))
           t3 == AddNew(t2, OfDecision(c, p))
<1>d. PICK t, cu, f, re, cs : p = [tasks |-> t, cur |-> cu, fd |-> f, retired |-> re, cands |-> cs]
  BY DEF Draft, IsDraft
<1>r. PICK r : r = Candidates(c, p)
  OBVIOUS
<1>1. r = [tasks |-> t3, cur |-> cu, fd |-> f, retired |-> re, cands |-> cands]
  BY <1>d, <1>r DEF Candidates
<1>2. r.tasks = t3 /\ r.cur = p.cur /\ r.fd = p.fd /\ r.cands = cands /\ IsDraft(r)
  <2> HIDE DEF t3, cands
  <2> QED
    BY <1>1, <1>d DEF IsDraft
<1>o. Line(p.tasks) /\ (c.status = "PASS" => Marked(p.tasks, p.cur)) /\ (Gone(p.tasks) => p.cur # Analyze)
  BY DEF Draft
<1>a. /\ Line(t1) /\ Grows(p.tasks, t1) /\ (Gone(t1) => Gone(p.tasks))
      /\ OfFailure(c) # None => Has(t1, OfFailure(c).id)
      /\ c.status = "PASS" => Marked(t1, p.cur)
  <2>1. OfFailure(c) # None /\ ~Has(p.tasks, OfFailure(c).id) /\ c.status = "PASS"
          => (OfFailure(c).status = "active" <=> OfFailure(c).id = p.cur)
    <3>1. Analyze \notin {Synth, MatSynth}
      BY DEF Analyze, Synth, MatSynth
    <3> QED
      BY <3>1, OffersAre DEF Raw
  <2> QED
    BY <1>o, <2>1, OffersAre, AddNewIs
<1>b. /\ Line(t2) /\ Grows(t1, t2) /\ (Gone(t2) => Gone(t1))
      /\ OfLane(c, p) # None => Has(t2, OfLane(c, p).id)
      /\ c.status = "PASS" => Marked(t2, p.cur)
  <2> HIDE DEF t1
  <2>1. OfLane(c, p) # None => (OfLane(c, p).status = "active" <=> OfLane(c, p).id = p.cur)
    BY OffersAre
  <2> QED
    BY <1>a, <2>1, OffersAre, AddNewIs
<1>c. /\ Line(t3) /\ Grows(t2, t3) /\ (Gone(t3) => Gone(t2))
      /\ OfDecision(c, p) # None => Has(t3, OfDecision(c, p).id)
      /\ c.status = "PASS" => Marked(t3, p.cur)
  <2> HIDE DEF t2
  <2>1. OfDecision(c, p) # None /\ c.status = "PASS"
          => (OfDecision(c, p).status = "active" <=> OfDecision(c, p).id = p.cur)
    BY OffersAre DEF Chosen
  <2> QED
    BY <1>b, <2>1, OffersAre, AddNewIs
<1> HIDE DEF t1, t2, t3
<1>3. Grows(p.tasks, t3) /\ Grows(t1, t3)
  BY <1>a, <1>b, <1>c, GrowsOn
<1>4. c.status = "PASS" => Has(t3, p.cur)
  <2>1. CASE Has(p.tasks, p.cur)
    BY <2>1, <1>3, HasGrows
  <2>2. CASE c.status = "PASS" /\ p.fd # None /\ p.cur \in {Synth, MatSynth}
    <3>1. p.fd.sel = p.cur
      BY <2>2 DEF Chosen
    <3>2. OfDecision(c, p) # None /\ OfDecision(c, p).id = p.cur
      BY <2>2, <3>1, OffersAre
    <3> QED
      BY <3>2, <1>c
  <2> QED
    BY <2>1, <2>2 DEF Raw
<1>5. Draft(c, r)
  BY <1>2, <1>a, <1>b, <1>c DEF Draft, Undecided
<1>6. Early(r) /\ Chosen(c, r) /\ NoReturn(c, r)
  BY <1>2 DEF Early, Chosen, NoReturn
<1>7. carried \subseteq CandSet /\ Unique(carried) /\ \A x \in carried : Has(t3, x.id)
  <2>1. CASE c.again
    <3>1. CandsOK(plan.cands, plan.tasks) /\ Grows(plan.tasks, p.tasks)
      BY <2>1 DEF KnownOK, PlanInv, PlanOK, Raw
    <3>2. \A x \in carried : x \in plan.cands
      BY <2>1
    <3> HIDE DEF carried
    <3>3. carried \subseteq CandSet /\ Unique(carried)
      BY <3>1, <3>2 DEF CandsOK, Unique
    <3>4. Grows(plan.tasks, t3)
      BY <3>1, <1>3, GrowsOn
    <3>5. \A x \in carried : Has(plan.tasks, x.id)
      BY <3>1, <3>2 DEF CandsOK
    <3> QED
      BY <3>3, <3>4, <3>5, HasGrows
  <2>2. CASE ~c.again
    BY <2>2 DEF Unique
  <2> QED
    BY <2>1, <2>2
<1>8. inferred \subseteq CandSet /\ Unique(inferred) /\ \A x \in inferred : Has(t3, x.id)
  <2>1. ASSUME NEW x \in inferred
        PROVE  \E i \in DOMAIN p.tasks : x = [id |-> p.tasks[i].id, ready |-> FALSE]
    OBVIOUS
  <2>2. \A i \in DOMAIN p.tasks : p.tasks[i].id \in TaskIds
    BY <1>o, TasksAre
  <2> HIDE DEF inferred
  <2>3. ASSUME NEW x \in inferred PROVE x \in CandSet
    <3>1. PICK i \in DOMAIN p.tasks : x = [id |-> p.tasks[i].id, ready |-> FALSE]
      BY <2>1
    <3> QED
      BY <3>1, <2>2 DEF CandSet
  <2>4. ASSUME NEW x \in inferred, NEW y \in inferred, x.id = y.id PROVE x = y
    <3>1. PICK i \in DOMAIN p.tasks : x = [id |-> p.tasks[i].id, ready |-> FALSE]
      BY <2>1
    <3>2. PICK j \in DOMAIN p.tasks : y = [id |-> p.tasks[j].id, ready |-> FALSE]
      BY <2>1
    <3>3. p.tasks[i].id = p.tasks[j].id
      BY <3>1, <3>2, <2>4
    <3> QED
      BY <3>1, <3>2, <3>3
  <2>5. \A x \in inferred : Has(t3, x.id)
    BY <2>1, <1>3 DEF Grows
  <2> QED
    BY <2>3, <2>4, <2>5 DEF Unique
<1>9. generated \subseteq CandSet /\ Unique(generated) /\ \A x \in generated : Has(t3, x.id)
  <2>1. ASSUME NEW x \in generated
        PROVE  \E y \in {OfFailure(c), OfLane(c, p), OfDecision(c, p)} : y # None /\ x = [id |-> y.id, ready |-> y.ready]
    OBVIOUS
  <2> HIDE DEF generated, offered
  <2>2. Analyze \notin {MatPass, Sub, MatSynth, Inspect, Synth}
    BY DEF Analyze, MatPass, Sub, MatSynth, Inspect, Synth
  <2>3. Unique(generated)
    <3> SUFFICES ASSUME NEW x \in generated, NEW y \in generated, x.id = y.id PROVE x = y
      BY DEF Unique
    <3>1. PICK v \in {OfFailure(c), OfLane(c, p), OfDecision(c, p)} : v # None /\ x = [id |-> v.id, ready |-> v.ready]
      BY <2>1
    <3>2. PICK w \in {OfFailure(c), OfLane(c, p), OfDecision(c, p)} : w # None /\ y = [id |-> w.id, ready |-> w.ready]
      BY <2>1
    <3>3. v.id = w.id
      BY <3>1, <3>2
    <3>4. v = w
      BY <2>2, <3>1, <3>2, <3>3, OffersAre
    <3> QED
      BY <3>1, <3>2, <3>4
  <2>4. ASSUME NEW x \in generated PROVE x \in CandSet /\ Has(t3, x.id)
    <3>1. PICK v \in {OfFailure(c), OfLane(c, p), OfDecision(c, p)} : v # None /\ x = [id |-> v.id, ready |-> v.ready]
      BY <2>1
    <3>2. v \in Offers
      BY <3>1, OffersAre
    <3>3. x \in CandSet /\ x.id = v.id
      BY <3>1, <3>2 DEF Offers, CandSet
    <3>4. Has(t3, v.id)
      BY <3>1, <1>a, <1>b, <1>c, <1>3, HasGrows
    <3> QED
      BY <3>3, <3>4
  <2> QED
    BY <2>3, <2>4
<1> HIDE DEF carried, inferred, generated
<1>10. Unique(known) /\ known \subseteq CandSet /\ \A x \in known : Has(t3, x.id)
  <2>1. Unique(known) /\ known \subseteq CandSet
    BY <1>7, <1>8, OverIs
  <2> QED
    BY <2>1, <1>7, <1>8
<1> HIDE DEF known
<1>11. Unique(cands) /\ cands \subseteq CandSet /\ \A x \in cands : Has(t3, x.id)
  <2>1. Unique(cands) /\ cands \subseteq CandSet
    BY <1>9, <1>10, OverIs
  <2> QED
    BY <2>1, <1>9, <1>10
<1> HIDE DEF cands
<1>12. Full(c, r)
  BY <1>2, <1>4, <1>11 DEF Full, CandsOK
<1> QED
  BY <1>r, <1>5, <1>6, <1>12

-------------------------------------------------------------------------------
(* The steps after it *)

\* A new active task.
LEMMA MoveIs ==
  ASSUME NEW c, NEW p, Draft(c, p), Full(c, p), NEW id \in TaskIds, c.status = "PASS" => Has(p.tasks, id),
         NEW r, IsDraft(r), r.tasks = Activate(p.tasks, id), r.cur = id, r.cands = p.cands,
         r.fd # None, r.fd.sel \in TaskIds, r.fd.mode \notin Retiring
  PROVE  Draft(c, r) /\ Early(r) /\ Full(c, r)
<1>1. /\ Line(r.tasks) /\ Marked(r.tasks, id) /\ Grows(p.tasks, r.tasks) /\ (Gone(r.tasks) => id # Analyze)
  BY ActivateIs, ActivateGrows, ActivateGone DEF Draft
<1>2. Draft(c, r)
  BY <1>1 DEF Draft, Undecided
<1>3. Early(r)
  BY DEF Early
<1>4. CandsOK(r.cands, r.tasks)
  BY <1>1, HasGrows DEF Full, CandsOK
<1>5. Full(c, r)
  BY <1>1, <1>4, HasGrows DEF Full
<1> QED
  BY <1>2, <1>3, <1>5

\* A new decision.
LEMMA DecideIs ==
  ASSUME NEW c, NEW p, Draft(c, p), Full(c, p),
         NEW r, IsDraft(r), r.tasks = p.tasks, r.cur = p.cur, r.cands = p.cands,
         r.fd # None, r.fd.sel \in TaskIds, r.fd.mode \notin Retiring
  PROVE  Draft(c, r) /\ Early(r) /\ Full(c, r)
BY DEF Draft, Undecided, Early, Full

LEMMA FollowupsIs ==
  ASSUME NEW c, NEW p, Draft(c, p), Early(p), Chosen(c, p), NoReturn(c, p), Full(c, p)
  PROVE  /\ Draft(c, Followups(p)) /\ Early(Followups(p)) /\ NoReturn(c, Followups(p)) /\ Full(c, Followups(p))
<1>q. PICK q : q = IF p.fd # None /\ p.fd.sel = MatSynth
                   THEN [p EXCEPT !.tasks = Activate(@, MatSynth), !.cur = MatSynth] ELSE p
  OBVIOUS
<1>r. PICK r : r = Followups(p)
  OBVIOUS
<1>d. PICK d : d = Decision("promote_review_followup", Inspect, MatPass)
  OBVIOUS
<1>1. r = IF q.cur = Inspect /\ (q.fd = None \/ q.fd.sel = None) /\ MatPass \in Ids(q.cands)
          THEN [q EXCEPT !.fd = d] ELSE q
  BY <1>q, <1>r, <1>d DEF Followups
<1>n. MatSynth # Analyze /\ MatSynth # Reward
  BY DEF MatSynth, Analyze, Reward
<1>2. Draft(c, q) /\ Early(q) /\ NoReturn(c, q) /\ Full(c, q)
  <2>1. CASE p.fd # None /\ p.fd.sel = MatSynth
    <3>1. PICK t, cu, f, re, cs : p = [tasks |-> t, cur |-> cu, fd |-> f, retired |-> re, cands |-> cs]
      BY DEF Draft, IsDraft
    <3>2. q = [tasks |-> Activate(t, MatSynth), cur |-> MatSynth, fd |-> f, retired |-> re, cands |-> cs]
      BY <2>1, <3>1, <1>q
    <3>3. /\ IsDraft(q) /\ q.tasks = Activate(p.tasks, MatSynth) /\ q.cur = MatSynth
          /\ q.cands = p.cands /\ q.fd = p.fd
      BY <3>1, <3>2 DEF IsDraft
    <3>4. p.fd.mode \notin Retiring
      BY <2>1, <1>n DEF Early
    <3>5. c.status = "PASS" => Has(p.tasks, MatSynth)
      BY <2>1 DEF Chosen, Full
    <3>6. Draft(c, q) /\ Early(q) /\ Full(c, q)
      BY <2>1, <3>3, <3>4, <3>5, MoveIs, Names
    <3> QED
      BY <3>3, <3>6, <1>n DEF NoReturn
  <2>2. CASE ~(p.fd # None /\ p.fd.sel = MatSynth)
    <3>1. q = p
      BY <2>2, <1>q
    <3> QED
      BY <3>1
  <2> QED
    BY <2>1, <2>2
<1>3. CASE r = [q EXCEPT !.fd = d]
  <2>1. PICK t, cu, f, re, cs : q = [tasks |-> t, cur |-> cu, fd |-> f, retired |-> re, cands |-> cs]
    BY <1>2 DEF Draft, IsDraft
  <2>2. r = [tasks |-> t, cur |-> cu, fd |-> d, retired |-> re, cands |-> cs]
    BY <2>1, <1>3
  <2>3. IsDraft(r) /\ r.tasks = q.tasks /\ r.cur = q.cur /\ r.cands = q.cands /\ r.fd = d
    BY <2>1, <2>2 DEF IsDraft
  <2>4. d = [mode |-> "promote_review_followup", cur |-> Inspect, sel |-> MatPass, retire |-> FALSE, path |-> None]
    BY <1>d DEF Decision
  <2>5. d # None /\ d.sel \in TaskIds /\ d.mode \notin Retiring
    <3>1. "promote_review_followup" \in Modes
      BY DEF Modes
    <3>2. d # None
      BY <2>4, <3>1, DecisionIs, Names
    <3> QED
      BY <2>4, <3>2, Names DEF Retiring
  <2>6. Draft(c, r) /\ Early(r) /\ Full(c, r)
    BY <2>3, <2>5, <1>2, DecideIs
  <2> QED
    BY <1>r, <1>2, <2>3, <2>6 DEF NoReturn
<1>4. CASE r = q
  BY <1>r, <1>2, <1>4
<1> QED
  BY <1>1, <1>3, <1>4

LEMMA PromoteSynthesisIs ==
  ASSUME NEW c, NEW p, Draft(c, p), Early(p), NoReturn(c, p), Full(c, p)
  PROVE  /\ Draft(c, PromoteSynthesis(c, p)) /\ Early(PromoteSynthesis(c, p))
         /\ NoReturn(c, PromoteSynthesis(c, p)) /\ Full(c, PromoteSynthesis(c, p))
<1>r. PICK r : r = PromoteSynthesis(c, p)
  OBVIOUS
<1>d. PICK t, cu, f, re, cs : p = [tasks |-> t, cur |-> cu, fd |-> f, retired |-> re, cands |-> cs]
  BY DEF Draft, IsDraft
<1>n. MatSynth # Analyze /\ Synth # Analyze /\ Synth # MatSynth /\ MatSynth \notin Core
  BY DEF MatSynth, Analyze, Synth, Core, Refresh, Verify, Bounded, Reward
<1>m. "materialize_synthesized_improvement" \in Modes /\ "readiness_blocked" \in Modes
  BY DEF Modes
<1>1. CASE p.cur # Synth \/ c.outcome # "discard" \/ MatSynth \notin Ids(p.cands)
  <2>1. r = p
    BY <1>1, <1>r DEF PromoteSynthesis
  <2> QED
    BY <2>1, <1>r
<1>2. CASE p.cur = Synth /\ c.outcome = "discard" /\ MatSynth \in Ids(p.cands) /\ Ready(p.cands, MatSynth)
  <2>1. PICK d : d = Decision("materialize_synthesized_improvement", Synth, MatSynth)
    OBVIOUS
  <2>2. r = [tasks |-> Activate(t, MatSynth), cur |-> MatSynth, fd |-> d, retired |-> re, cands |-> cs]
    BY <1>2, <1>d, <1>r, <2>1 DEF PromoteSynthesis
  <2>3. IsDraft(r) /\ r.tasks = Activate(p.tasks, MatSynth) /\ r.cur = MatSynth /\ r.cands = p.cands /\ r.fd = d
    BY <1>d, <2>2 DEF IsDraft
  <2>4. /\ d # None /\ d.sel \in TaskIds /\ d.mode \notin Retiring
    <3>1. d = [mode |-> "materialize_synthesized_improvement", cur |-> Synth, sel |-> MatSynth, retire |-> FALSE,
               path |-> None]
      BY <2>1 DEF Decision
    <3>2. d # None
      BY <3>1, <1>m, DecisionIs, Names
    <3> QED
      BY <3>1, <3>2, Names DEF Retiring
  <2>5. Has(p.tasks, MatSynth)
    BY <1>2 DEF Ids, Full, CandsOK
  <2>6. Draft(c, r) /\ Early(r) /\ Full(c, r)
    BY <2>3, <2>4, <2>5, MoveIs, Names
  <2> QED
    BY <1>r, <2>3, <2>6, <1>n DEF NoReturn
<1>3. CASE p.cur = Synth /\ c.outcome = "discard" /\ MatSynth \in Ids(p.cands) /\ ~Ready(p.cands, MatSynth)
  <2>1. PICK d : d = Decision("readiness_blocked", Synth, Synth)
    OBVIOUS
  <2> DEFINE as == Activate(t, Synth)
             us == Update(as, LAMBDA x : IF x.id = MatSynth THEN "blocked" ELSE x.status)
  <2>2. r = [tasks |-> us, cur |-> cu, fd |-> d, retired |-> re, cands |-> cs]
    BY <1>3, <1>d, <1>r, <2>1 DEF PromoteSynthesis
  <2>3. us = [i \in DOMAIN as |-> [as[i] EXCEPT !.status = IF as[i].id \in {MatSynth} THEN "blocked" ELSE as[i].status]]
    BY DEF Update
  <2>4. p.tasks = t /\ p.cur = Synth /\ p.cur = cu /\ p.cands = cs
    BY <1>d, <1>3
  <2>5. Line(as) /\ Marked(as, Synth) /\ Grows(t, as)
    BY <2>4, ActivateIs, ActivateGrows DEF Draft
  <2> HIDE DEF us, as
  <2>6. /\ Line(us) /\ Grows(as, us)
        /\ \A id : Marked(as, id) /\ id \notin {MatSynth} => Marked(us, id)
    <3>1. PICK vs : vs = us
      OBVIOUS
    <3>2. vs = [i \in DOMAIN as |-> [as[i] EXCEPT !.status = IF as[i].id \in {MatSynth} THEN "blocked" ELSE as[i].status]]
      BY <3>1, <2>3
    <3>3. {MatSynth} \cap Core = {} /\ Analyze \notin {MatSynth} /\ "blocked" \in {"done", "blocked"}
      BY <1>n
    <3>4. /\ Line(vs) /\ Grows(as, vs)
          /\ \A id : Marked(as, id) /\ id \notin {MatSynth} => Marked(vs, id)
      BY <3>2, <3>3, <2>5, CloseIs
    <3> QED
      BY <3>1, <3>4
  <2>7. Marked(us, Synth) /\ Grows(p.tasks, us)
    BY <2>4, <2>5, <2>6, <1>n, GrowsOn
  <2>8. IsDraft(r) /\ r.tasks = us /\ r.cur = Synth /\ r.cands = p.cands /\ r.fd = d
    BY <2>2, <2>4 DEF IsDraft
  <2>9. d # None /\ d.sel \in TaskIds /\ d.mode \notin Retiring
    <3>1. d = [mode |-> "readiness_blocked", cur |-> Synth, sel |-> Synth, retire |-> FALSE, path |-> None]
      BY <2>1 DEF Decision
    <3>2. d # None
      BY <3>1, <1>m, DecisionIs, Names
    <3> QED
      BY <3>1, <3>2, Names DEF Retiring
  <2>10. Draft(c, r)
    BY <2>6, <2>7, <2>8, <2>9, <1>n, Names DEF Draft, Undecided
  <2>11. Early(r) /\ NoReturn(c, r)
    BY <2>8, <2>9, <1>n DEF Early, NoReturn
  <2>12. CandsOK(r.cands, r.tasks)
    BY <2>7, <2>8, HasGrows DEF Full, CandsOK
  <2>13. Full(c, r)
    BY <2>4, <2>7, <2>8, <2>12, HasGrows DEF Full
  <2> QED
    BY <1>r, <2>10, <2>11, <2>13
<1> QED
  BY <1>1, <1>2, <1>3

\* A lane is closed, and another task becomes the current one.
LEMMA HandOnIs ==
  ASSUME NEW c, NEW p, Draft(c, p), Full(c, p), NEW id \in TaskIds,
         NEW ds, Line(ds), Grows(p.tasks, ds), Gone(ds) => Gone(p.tasks),
         NEW r, IsDraft(r), r.tasks = ActivateOrAdd(ds, id), r.cur = id, r.cands \subseteq p.cands,
         r.fd # None, FdOK(r.fd, id), id = Analyze => ~(world.issue /\ world.failure # "fresh")
  PROVE  Draft(c, r) /\ Full(c, r) /\ NoReturn(c, r) /\ FdOK(r.fd, r.cur)
<1>1. /\ Line(r.tasks) /\ Marked(r.tasks, id) /\ Has(r.tasks, id) /\ Grows(ds, r.tasks)
      /\ Gone(r.tasks) => id # Analyze
  BY ActivateOrAddIs
<1>2. Draft(c, r)
  BY <1>1 DEF Draft, Undecided, FdOK
<1>3. Grows(p.tasks, r.tasks)
  BY <1>1, GrowsOn
<1>4. CandsOK(r.cands, r.tasks)
  <2>1. p.cands \subseteq CandSet /\ Unique(p.cands) /\ \A x \in p.cands : Has(p.tasks, x.id)
    BY DEF Full, CandsOK
  <2>2. \A x \in r.cands : Has(r.tasks, x.id)
    BY <2>1, <1>3, HasGrows
  <2>3. r.cands \subseteq CandSet /\ Unique(r.cands)
    BY <2>1 DEF Unique
  <2> QED
    BY <2>2, <2>3 DEF CandsOK
<1>5. Full(c, r)
  BY <1>1, <1>4 DEF Full
<1>6. NoReturn(c, r)
  BY DEF NoReturn
<1> QED
  BY <1>2, <1>5, <1>6

LEMMA CompletedIs ==
  ASSUME NEW ts, Line(ts), NEW lane \in Materializing
  PROVE  /\ Line(Completed(ts, lane)) /\ Grows(ts, Completed(ts, lane))
         /\ Gone(Completed(ts, lane)) => Gone(ts)
<1>1. PICK as : as = Activate(ts, Reward)
  OBVIOUS
<1>2. PICK parent : parent = IF lane = MatSynth THEN Synth ELSE Inspect
  OBVIOUS
<1>3. PICK us : us = Completed(ts, lane)
  OBVIOUS
<1>4. us = [i \in DOMAIN as |-> [as[i] EXCEPT !.status = IF as[i].id \in {lane, parent} THEN "done" ELSE as[i].status]]
  BY <1>1, <1>2, <1>3 DEF Completed, Update
<1>5. {lane, parent} \cap Core = {} /\ Analyze \notin {lane, parent} /\ "done" \in {"done", "blocked"}
  BY <1>2 DEF Materializing, Core, MatPass, MatSynth, Synth, Inspect, Refresh, Verify, Bounded, Reward, Analyze
<1>6. Line(as) /\ Grows(ts, as) /\ (Gone(as) => Gone(ts))
  BY <1>1, ActivateIs, ActivateGrows, ActivateGone
<1>7. Line(us) /\ Grows(as, us) /\ (Gone(us) => Gone(as))
  BY <1>4, <1>5, <1>6, CloseIs
<1> QED
  BY <1>3, <1>6, <1>7, GrowsOn

\* The completed lane hands on, and decides something that is not repeated.
LEMMA CompletionIs ==
  ASSUME NEW c, KnownOK(c), NEW p, Draft(c, p), Early(p), NoReturn(c, p), Full(c, p)
  PROVE  /\ Draft(c, Completion(c, p)) /\ Full(c, Completion(c, p)) /\ NoReturn(c, Completion(c, p))
         /\ FdOK(Completion(c, p).fd, Completion(c, p).cur)
<1>r. PICK r : r = Completion(c, p)
  OBVIOUS
<1>d. PICK t, cu, f, re, cs : p = [tasks |-> t, cur |-> cu, fd |-> f, retired |-> re, cands |-> cs]
  BY DEF Draft, IsDraft
<1>l. PICK lane : lane = IF c.new # None /\ Selectable(p.tasks, c.new.task) THEN c.new.task ELSE p.cur
  OBVIOUS
<1>x. PICK done : done = Completed(p.tasks, lane)
  OBVIOUS
<1>y. PICK cands : cands = {x \in p.cands : x.id \notin {Inspect, MatPass, MatSynth}}
  OBVIOUS
<1> DEFINE HandOn(id) == [p EXCEPT !.cands = cands, !.tasks = ActivateOrAdd(done, id), !.cur = id]
           With(mode, id) == [Decision(mode, lane, id) EXCEPT !.path = c.new]
           review == lane = MatSynth \/ (Sub \in Ids(cands) /\ ~FailureKnown)
<1>1. r = IF c.new = None \/ c.status # "PASS" \/ lane \notin Materializing
          THEN [p EXCEPT !.cur = lane]
          ELSE IF review
          THEN [HandOn(Sub) EXCEPT !.fd = With(IF lane = MatSynth THEN "handoff_to_subagent_verification"
                                               ELSE "handoff_to_next_candidate", Sub)]
          ELSE IF world.issue
          THEN [HandOn(Reward) EXCEPT !.fd = Decision("retire_terminal_selfevo_lane", lane, Reward)]
          ELSE IF FailureKnown /\ ~AlreadyRetired(c)
          THEN [HandOn(Analyze) EXCEPT !.fd = With("complete_active_lane", Analyze)]
          ELSE [HandOn(Reward) EXCEPT !.fd = With("complete_active_lane", Reward)]
  BY <1>r, <1>l, <1>x, <1>y DEF Completion
<1>n. /\ Materializing \cap Core = {} /\ Analyze \notin Materializing /\ Analyze \notin Core
      /\ Reward \in Core /\ Materializing \subseteq TaskIds
  BY DEF Materializing, Core, MatPass, MatSynth, Refresh, Verify, Bounded, Reward, Analyze, TaskIds
<1>2. CASE c.new = None \/ c.status # "PASS" \/ lane \notin Materializing
  <2>1. r = [tasks |-> t, cur |-> lane, fd |-> f, retired |-> re, cands |-> cs]
    BY <1>1, <1>2, <1>d
  <2>2. IsDraft(r) /\ r.tasks = p.tasks /\ r.cur = lane /\ r.fd = p.fd /\ r.cands = p.cands
    BY <1>d, <2>1 DEF IsDraft
  <2>3. \/ lane = p.cur
        \/ c.new # None /\ lane = c.new.task /\ lane \in Materializing /\ c.status # "PASS"
    BY <1>l, <1>2 DEF KnownOK
  <2>4. Undecided(c, r)
    BY <2>2, <2>3 DEF Draft, Undecided
  <2>5. Draft(c, r)
    BY <2>2, <2>3, <2>4, <1>n DEF Draft
  <2>6. Full(c, r) /\ NoReturn(c, r)
    BY <2>2, <2>3 DEF Full, NoReturn
  <2>7. FdOK(r.fd, r.cur)
    BY <2>2, <2>3, <1>n DEF Early, FdOK, Draft
  <2> QED
    BY <1>r, <2>5, <2>6, <2>7
<1>3. ASSUME lane \in Materializing, NEW id \in TaskIds, NEW fd, r = [HandOn(id) EXCEPT !.fd = fd],
             fd # None, FdOK(fd, id), id = Analyze => ~(world.issue /\ world.failure # "fresh")
      PROVE  Draft(c, r) /\ Full(c, r) /\ NoReturn(c, r) /\ FdOK(r.fd, r.cur)
  <2>1. r = [tasks |-> ActivateOrAdd(done, id), cur |-> id, fd |-> fd, retired |-> re, cands |-> cands]
    BY <1>3, <1>d
  <2>2. IsDraft(r) /\ r.tasks = ActivateOrAdd(done, id) /\ r.cur = id /\ r.fd = fd /\ r.cands = cands
    BY <2>1 DEF IsDraft
  <2>3. cands \subseteq p.cands
    BY <1>y
  <2>4. Line(done) /\ Grows(p.tasks, done) /\ (Gone(done) => Gone(p.tasks))
    BY <1>3, <1>x, CompletedIs DEF Draft
  <2> HIDE DEF HandOn
  <2> QED
    BY <2>2, <2>3, <2>4, <1>3, HandOnIs
<1>m. /\ "complete_active_lane" \in Modes /\ "handoff_to_next_candidate" \in Modes
      /\ "handoff_to_subagent_verification" \in Modes /\ "retire_terminal_selfevo_lane" \in Modes
  BY DEF Modes
<1>4. ASSUME lane \in Materializing, c.new # None, NEW id \in TaskIds, NEW mode \in Modes, mode \notin Retiring
      PROVE  With(mode, id) # None /\ FdOK(With(mode, id), id)
  <2>1. PICK fd : fd = With(mode, id)
    OBVIOUS
  <2>2. fd = [mode |-> mode, cur |-> lane, sel |-> id, retire |-> FALSE, path |-> c.new]
    BY <2>1 DEF Decision
  <2>3. c.new \in Artifacts \cup {None} /\ lane \in TaskIds \cup {None} /\ id \in TaskIds \cup {None}
    BY <1>4, <1>n DEF KnownOK
  <2>4. fd # None
    BY <2>2, <2>3, DecisionIs
  <2>5. FdOK(fd, id)
    BY <2>2, <1>4 DEF FdOK
  <2> QED
    BY <2>1, <2>4, <2>5
<1>c. CASE c.new # None /\ c.status = "PASS" /\ lane \in Materializing
  <2>1. CASE review
    <3>1. PICK mode : mode = IF lane = MatSynth THEN "handoff_to_subagent_verification" ELSE "handoff_to_next_candidate"
      OBVIOUS
    <3>2. mode \in Modes /\ mode \notin Retiring
      BY <3>1, <1>m DEF Retiring
    <3>3. r = [HandOn(Sub) EXCEPT !.fd = With(mode, Sub)]
      BY <3>1, <2>1, <1>1, <1>c
    <3>4. With(mode, Sub) # None /\ FdOK(With(mode, Sub), Sub)
      BY <3>2, <1>4, <1>c, Names
    <3>5. Sub # Analyze
      BY DEF Sub, Analyze
    <3> HIDE DEF HandOn, With
    <3> QED
      BY <3>3, <3>4, <3>5, <1>3, <1>r, <1>c, Names
  <2>2. CASE ~review /\ world.issue
    <3>1. PICK fd : fd = Decision("retire_terminal_selfevo_lane", lane, Reward)
      OBVIOUS
    <3>2. fd = [mode |-> "retire_terminal_selfevo_lane", cur |-> lane, sel |-> Reward, retire |-> FALSE, path |-> None]
      BY <3>1 DEF Decision
    <3>3. fd # None
      BY <3>2, <1>m, <1>n, <1>c, Names, DecisionIs
    <3>4. FdOK(fd, Reward)
      <4>1. lane \notin Core /\ lane # Reward
        BY <1>n, <1>c
      <4> QED
        BY <3>2, <4>1, Names DEF FdOK
    <3>5. r = [HandOn(Reward) EXCEPT !.fd = fd]
      BY <3>1, <2>2, <1>1, <1>c
    <3>6. Reward # Analyze
      BY DEF Reward, Analyze
    <3> HIDE DEF HandOn
    <3> QED
      BY <3>3, <3>4, <3>5, <3>6, <1>3, <1>r, <1>c, Names
  <2>3. CASE ~review /\ ~world.issue
    <3>1. PICK id \in {Analyze, Reward} : r = [HandOn(id) EXCEPT !.fd = With("complete_active_lane", id)]
      BY <2>3, <1>1, <1>c
    <3>2. id \in TaskIds
      BY Names
    <3>3. "complete_active_lane" \notin Retiring
      BY DEF Retiring
    <3>4. With("complete_active_lane", id) # None /\ FdOK(With("complete_active_lane", id), id)
      BY <3>2, <3>3, <1>4, <1>c, <1>m
    <3> HIDE DEF HandOn, With
    <3> QED
      BY <3>1, <3>2, <3>4, <2>3, <1>3, <1>r, <1>c
  <2> QED
    BY <2>1, <2>2, <2>3
<1> QED
  BY <1>2, <1>c

\* A retired verification goes on to a fresh failure only.
LEMMA RetireLaneIs ==
  ASSUME NEW c, NEW p, Draft(c, p), Full(c, p), NoReturn(c, p), FdOK(p.fd, p.cur)
  PROVE  /\ Draft(c, RetireLane(c, p)) /\ Full(c, RetireLane(c, p)) /\ NoReturn(c, RetireLane(c, p))
         /\ FdOK(RetireLane(c, p).fd, RetireLane(c, p).cur)
<1>r. PICK r : r = RetireLane(c, p)
  OBVIOUS
<1>d. PICK t, cu, f, re, cs : p = [tasks |-> t, cur |-> cu, fd |-> f, retired |-> re, cands |-> cs]
  BY DEF Draft, IsDraft
<1>t. PICK target : target = IF FailureFresh THEN Analyze ELSE Reward
  OBVIOUS
<1>m. PICK mode : mode = IF world.noop THEN "retire_terminal_noop_lane" ELSE "retire_stale_subagent_lane"
  OBVIOUS
<1>f. PICK fd : fd = Decision(mode, Sub, target)
  OBVIOUS
<1>x. PICK closed : closed = Update(t, LAMBDA y : IF y.id # Sub THEN y.status
                                                  ELSE IF LaneStale THEN "blocked" ELSE "done")
  OBVIOUS
<1>1. CASE r = p
  BY <1>r, <1>1
<1>2. CASE r = [p EXCEPT !.tasks = ActivateOrAdd(closed, target), !.cur = target, !.fd = fd]
  <2>1. r = [tasks |-> ActivateOrAdd(closed, target), cur |-> target, fd |-> fd, retired |-> re, cands |-> cs]
    BY <1>2, <1>d
  <2>2. /\ IsDraft(r) /\ r.tasks = ActivateOrAdd(closed, target) /\ r.cur = target /\ r.fd = fd
        /\ r.cands \subseteq p.cands /\ p.tasks = t
    BY <2>1, <1>d DEF IsDraft
  <2>3. fd = [mode |-> mode, cur |-> Sub, sel |-> target, retire |-> FALSE, path |-> None]
    BY <1>f DEF Decision
  <2>4. target \in TaskIds /\ target \in {Reward, Analyze} /\ Sub \notin Core /\ Sub # target
    BY <1>t, Names DEF Sub, Core, Analyze, Reward, Refresh, Verify, Bounded
  <2>5. fd # None
    <3>1. mode \in Modes
      BY <1>m DEF Modes
    <3> QED
      BY <3>1, <2>3, <2>4, Names, DecisionIs
  <2>6. FdOK(fd, target)
    BY <2>3, <2>4 DEF FdOK
  <2>7. Line(closed) /\ Grows(t, closed) /\ (Gone(closed) => Gone(t))
    <3>1. PICK st : st = IF LaneStale THEN "blocked" ELSE "done"
      OBVIOUS
    <3>2. PICK S : S = {Sub}
      OBVIOUS
    <3>3. closed = [i \in DOMAIN t |-> [t[i] EXCEPT !.status = IF t[i].id \in S THEN st ELSE t[i].status]]
      BY <1>x, <3>1, <3>2 DEF Update
    <3>4. S \cap Core = {} /\ Analyze \notin S /\ st \in {"done", "blocked"}
      BY <3>1, <3>2, <2>4 DEF Sub, Analyze
    <3>5. Line(t)
      BY <2>2 DEF Draft
    <3> QED
      BY <3>3, <3>4, <3>5, CloseIs
  <2>8. target = Analyze => ~(world.issue /\ world.failure # "fresh")
    BY <1>t DEF FailureFresh, Analyze, Reward
  <2>9. Draft(c, r) /\ Full(c, r) /\ NoReturn(c, r) /\ FdOK(r.fd, r.cur)
    BY <2>2, <2>4, <2>5, <2>6, <2>7, <2>8, HandOnIs
  <2> QED
    BY <1>r, <2>9
<1> QED
  BY <1>1, <1>2, <1>d, <1>f, <1>m, <1>r, <1>t, <1>x DEF RetireLane

LEMMA SnapshotIs ==
  ASSUME PlanInv, NEW c, KnownOK(c)
  PROVE  /\ Draft(c, Snapshot(c)) /\ Full(c, Snapshot(c)) /\ NoReturn(c, Snapshot(c))
         /\ FdOK(Snapshot(c).fd, Snapshot(c).cur)
<1>1. PICK p : p = Selected(c)
  OBVIOUS
<1>2. PICK q : q = FailureLearning(c, p)
  OBVIOUS
<1>3. PICK r : r = Candidates(c, q)
  OBVIOUS
<1>4. PICK u : u = Followups(r)
  OBVIOUS
<1>5. PICK v : v = PromoteSynthesis(c, u)
  OBVIOUS
<1>6. PICK w : w = Completion(c, v)
  OBVIOUS
<1>7. Snapshot(c) = RetireLane(c, w)
  BY <1>1, <1>2, <1>3, <1>4, <1>5, <1>6 DEF Snapshot
<1>8. /\ Draft(c, p) /\ Early(p) /\ Raw(c, p) /\ Chosen(c, p)
      /\ c.status = "PASS" /\ plan # None /\ Gone(plan.tasks) => p.cur # Analyze
  BY <1>1, SelectedIs
<1>9. Draft(c, q) /\ Early(q) /\ Raw(c, q) /\ Chosen(c, q) /\ NoReturn(c, q)
  BY <1>2, <1>8, FailureLearningIs
<1>10. Draft(c, r) /\ Early(r) /\ Chosen(c, r) /\ NoReturn(c, r) /\ Full(c, r)
  BY <1>3, <1>9, CandidatesIs
<1>11. Draft(c, u) /\ Early(u) /\ NoReturn(c, u) /\ Full(c, u)
  BY <1>4, <1>10, FollowupsIs
<1>12. Draft(c, v) /\ Early(v) /\ NoReturn(c, v) /\ Full(c, v)
  BY <1>5, <1>11, PromoteSynthesisIs
<1>13. Draft(c, w) /\ Full(c, w) /\ NoReturn(c, w) /\ FdOK(w.fd, w.cur)
  BY <1>6, <1>12, CompletionIs
<1> QED
  BY <1>7, <1>13, RetireLaneIs

\* The plan as it is written, also with the decision of the last one.
LEMMA NewPlanIs ==
  ASSUME PlanInv, NEW c, KnownOK(c), NEW p, p = NewPlan(c, Snapshot(c))
  PROVE  /\ PlanOK(p) /\ p.status = c.status
         /\ p.status = "PASS" /\ world.issue /\ world.failure # "fresh" => p.cur # Analyze
<1>1. PICK s : s = Snapshot(c)
  OBVIOUS
<1>2. Draft(c, s) /\ Full(c, s) /\ NoReturn(c, s) /\ FdOK(s.fd, s.cur)
  BY <1>1, SnapshotIs
<1>3. PICK fd : fd = IF s.fd # None THEN s.fd ELSE IF c.fd # None THEN c.fd ELSE IF plan # None THEN plan.fd ELSE None
  OBVIOUS
<1>4. p.tasks = s.tasks /\ p.cur = s.cur /\ p.fd = fd /\ p.cands = s.cands /\ p.status = c.status
  BY <1>1, <1>3 DEF NewPlan
<1>5. FdOK(fd, s.cur)
  <2>1. CASE s.fd # None
    BY <2>1, <1>2, <1>3
  <2>2. CASE s.fd = None /\ c.fd # None
    BY <2>2, <1>3 DEF FdOK, KnownOK
  <2>3. CASE s.fd = None /\ c.fd = None /\ plan = None
    BY <2>3, <1>3 DEF FdOK
  <2>4. CASE s.fd = None /\ c.fd = None /\ plan # None
    <3>1. fd = plan.fd /\ FdOK(plan.fd, plan.cur)
      BY <2>4, <1>3 DEF PlanInv, PlanOK
    <3>2. \/ s.cur \in Core \/ s.cur = plan.cur
          \/ c.status # "PASS" /\ c.new # None /\ s.cur = c.new.task
      BY <2>4, <1>2 DEF Draft, Undecided
    <3>3. CASE s.cur \in Core \/ s.cur = plan.cur
      BY <3>1, <3>3 DEF FdOK
    <3>4. CASE c.status # "PASS" /\ c.new # None /\ s.cur = c.new.task
      <4>1. s.cur = MatSynth /\ (plan.cur = MatSynth \/ (plan.fd # None /\ plan.fd.sel = MatSynth))
        BY <2>4, <3>4 DEF KnownOK
      <4>2. MatSynth \notin {Reward, Analyze}
        BY DEF MatSynth, Reward, Analyze
      <4> QED
        BY <3>1, <4>1, <4>2 DEF FdOK
    <3> QED
      BY <3>2, <3>3, <3>4
  <2> QED
    BY <2>1, <2>2, <2>3, <2>4
<1>6. PlanOK(p)
  BY <1>2, <1>4, <1>5 DEF PlanOK, Draft, Full
<1> QED
  BY <1>2, <1>4, <1>6 DEF NoReturn

-------------------------------------------------------------------------------
(* The decision, and what the cycle knows *)

\* What a decision derived from the plan may select.
Sound(d) ==
  /\ d.sel \in TaskIds /\ d.mode \notin Retiring
  /\ Has(plan.tasks, d.sel) \/ d.sel \in {Synth, MatSynth} \/ (d.sel = Reward /\ plan.cur = Reward)
  /\ Gone(plan.tasks) => d.sel # Analyze

\* A task picked by its class is never the analysis: it has no class of its own, and the first
\* tasks of a plan come before it.
LEMMA PickIs ==
  ASSUME NEW ts, Line(ts), NEW cur, NEW classes, DOMAIN classes \subseteq Nat, \A i \in DOMAIN classes : classes[i] # "other"
  PROVE  \E i \in DOMAIN ts : ts[i].id = PickForClasses(ts, cur, classes) /\ ts[i].id # Analyze
<1> DEFINE Of(class, S) == {i \in S : ActionClass(ts[i].id) = class}
<1>o. PICK others : others = {i \in DOMAIN ts : ts[i].id # cur}
  OBVIOUS
<1>h. PICK hit : hit = {k \in DOMAIN classes : Of(classes[k], others) # {}}
  OBVIOUS
<1>1. PickForClasses(ts, cur, classes)
        = IF hit # {} THEN ts[First(Of(classes[First(hit)], others))].id
          ELSE IF others # {} THEN ts[First(others)].id ELSE None
  BY <1>o, <1>h DEF PickForClasses
<1>2. DOMAIN ts \subseteq Nat /\ DOMAIN classes \subseteq Nat /\ 1 \in DOMAIN ts /\ 2 \in DOMAIN ts
  BY DEF Line, Rooted
<1>3. CASE hit # {}
  <2>1. PICK k : k = First(hit)
    OBVIOUS
  <2>2. k \in hit
    BY <2>1, <1>2, <1>3, <1>h, FirstIs
  <2>3. PICK S : S = Of(classes[k], others)
    OBVIOUS
  <2>4. PICK i : i = First(S)
    OBVIOUS
  <2>5. S # {} /\ S \subseteq Nat /\ classes[k] # "other"
    BY <2>2, <2>3, <1>2, <1>h, <1>o
  <2>6. i \in S
    BY <2>4, <2>5, FirstIs
  <2>7. i \in DOMAIN ts /\ ActionClass(ts[i].id) # "other"
    BY <2>3, <2>5, <2>6, <1>o
  <2>8. ActionClass(Analyze) = "other"
    BY DEF ActionClass, Analyze, Refresh, Verify, Bounded, MatPass, MatSynth, Reward, Inspect, Sub, Synth
  <2>9. PickForClasses(ts, cur, classes) = ts[i].id
    BY <2>1, <2>3, <2>4, <1>1, <1>3
  <2> QED
    BY <2>7, <2>8, <2>9
<1>4. CASE hit = {}
  <2>1. 1 \in others \/ 2 \in others
    <3>1. ts[1].id # ts[2].id
      BY <1>2 DEF Line, Distinct
    <3> QED
      BY <3>1, <1>2, <1>o
  <2>2. PICK i : i = First(others)
    OBVIOUS
  <2>3. i \in others /\ i \in DOMAIN ts /\ \A j \in others : i <= j
    BY <2>1, <2>2, <1>2, <1>o, FirstIs
  <2>4. i = 1 \/ i = 2
    BY <2>1, <2>3, <1>2 DEF Line
  <2>5. ts[i].id # Analyze
    BY <2>4 DEF Line, Rooted, Refresh, Verify, Bounded, Analyze
  <2>6. PickForClasses(ts, cur, classes) = ts[i].id
    BY <2>1, <2>2, <1>1, <1>4
  <2> QED
    BY <2>3, <2>5, <2>6
<1> QED
  BY <1>3, <1>4

LEMMA OpenIs ==
  ASSUME NEW ts, Line(ts), NEW S, S \subseteq DOMAIN ts, S # {}, \A i \in S : ts[i].status \notin {"done", "blocked"}
  PROVE  /\ First(S) \in DOMAIN ts /\ ts[First(S)].id \in TaskIds /\ Has(ts, ts[First(S)].id)
         /\ Gone(ts) => ts[First(S)].id # Analyze
<1>1. DOMAIN ts \subseteq Nat
  BY DEF Line
<1>2. PICK i : i = First(S)
  OBVIOUS
<1>3. i \in S /\ i \in DOMAIN ts
  BY <1>1, <1>2, FirstIs
<1>4. ts[i].id \in TaskIds /\ Has(ts, ts[i].id)
  BY <1>3, TasksAre DEF Has
<1>5. Gone(ts) => ts[i].id # Analyze
  BY <1>3 DEF Gone, Closed, Line, Distinct
<1> QED
  BY <1>2, <1>3, <1>4, <1>5

LEMMA RotatedIs == ASSUME PlanInv, plan # None PROVE Sound(Rotated)
<1> DEFINE open(id) == Has(plan.tasks, id) /\ Selectable(plan.tasks, id)
           closed(id) == Has(plan.tasks, id) /\ ~Selectable(plan.tasks, id)
           confirmed == plan.cur = Reward /\ plan.fd # None /\ plan.fd.sel = Reward
                        /\ plan.fd.mode = "record_reward_after_synthesized_materialization"
<1>o. PICK others : others = {i \in DOMAIN plan.tasks :
                                plan.tasks[i].id # plan.cur /\ plan.tasks[i].status \notin {"done", "blocked"}}
  OBVIOUS
<1>s. PICK outside : outside = {i \in others : plan.tasks[i].id \notin Core}
  OBVIOUS
<1>d. PICK d : d = Rotated
  OBVIOUS
<1>1. d = IF plan.cur \notin Core /\ open(MatPass)
          THEN Decision("promote_review_followup", plan.cur, MatPass)
          ELSE IF open(Synth) THEN Retire(Synth)
          ELSE IF outside # {} THEN Retire(plan.tasks[First(outside)].id)
          ELSE IF others # {} THEN Retire(plan.tasks[First(others)].id)
          ELSE IF closed(Synth) /\ closed(MatSynth) /\ ~confirmed
          THEN Decision("record_reward_after_synthesized_materialization", plan.cur, Reward)
          ELSE Decision("synthesize_next_candidate", plan.cur, Synth)
  BY <1>o, <1>s, <1>d DEF Rotated
<1>l. Line(plan.tasks)
  BY DEF PlanInv, PlanOK
<1>n. MatPass # Analyze /\ Synth # Analyze /\ Reward # Analyze
  BY DEF MatPass, Synth, Reward, Analyze
<1>r. ASSUME NEW sel PROVE Retire(sel).sel = sel /\ Retire(sel).mode \notin Retiring
  BY DEF Retire, Decision, Retiring
<1>2. CASE d = Decision("promote_review_followup", plan.cur, MatPass) /\ open(MatPass)
  <2>1. d.sel = MatPass /\ d.mode \notin Retiring
    BY <1>2 DEF Decision, Retiring
  <2> QED
    BY <2>1, <1>2, <1>d, <1>n, Names DEF Sound
<1>3. CASE d = Retire(Synth)
  <2>1. d.sel = Synth /\ d.mode \notin Retiring
    BY <1>3, <1>r
  <2> QED
    BY <2>1, <1>d, <1>n, Names DEF Sound
<1>4. ASSUME NEW S \in {outside, others}, S # {}, d = Retire(plan.tasks[First(S)].id) PROVE Sound(d)
  <2>1. PICK sel : sel = plan.tasks[First(S)].id
    OBVIOUS
  <2>2. d.sel = sel /\ d.mode \notin Retiring
    BY <2>1, <1>4, <1>r
  <2>3. sel \in TaskIds /\ Has(plan.tasks, sel) /\ (Gone(plan.tasks) => sel # Analyze)
    BY <2>1, <1>4, <1>o, <1>s, <1>l, OpenIs
  <2> QED
    BY <2>2, <2>3 DEF Sound
<1>5. CASE d = Decision("record_reward_after_synthesized_materialization", plan.cur, Reward) /\ others = {}
  <2>1. d.sel = Reward /\ d.mode \notin Retiring
    BY <1>5 DEF Decision, Retiring
  <2>2. 1 \in DOMAIN plan.tasks /\ 2 \in DOMAIN plan.tasks /\ plan.tasks[1].id # plan.tasks[2].id
        /\ (Len(plan.tasks) >= 3 => 3 \in DOMAIN plan.tasks)
    BY <1>l DEF Line, Rooted, Distinct
  <2>3. ~(~Closed(plan.tasks[1]) /\ ~Closed(plan.tasks[2]))
    BY <2>2, <1>5, <1>o DEF Closed
  <2>4. Has(plan.tasks, Reward)
    BY <2>2, <2>3, <1>l DEF Line, Rooted, Has
  <2> QED
    BY <2>1, <2>4, <1>d, <1>n, Names DEF Sound
<1>6. CASE d = Decision("synthesize_next_candidate", plan.cur, Synth)
  <2>1. d.sel = Synth /\ d.mode \notin Retiring
    BY <1>6 DEF Decision, Retiring
  <2> QED
    BY <2>1, <1>d, <1>n, Names DEF Sound
<1> QED
  BY <1>1, <1>2, <1>3, <1>4, <1>5, <1>6, <1>d

\* Retire and Decision with a picked task
LEMMA PickedIs ==
  ASSUME PlanInv, plan # None, NEW cur, NEW classes, DOMAIN classes \subseteq Nat, \A i \in DOMAIN classes : classes[i] # "other",
         NEW d, d.sel = PickForClasses(plan.tasks, cur, classes), d.mode \notin Retiring
  PROVE  Sound(d)
<1>1. Line(plan.tasks)
  BY DEF PlanInv, PlanOK
<1>2. PICK i \in DOMAIN plan.tasks : plan.tasks[i].id = d.sel /\ d.sel # Analyze
  BY <1>1, PickIs
<1>3. Has(plan.tasks, d.sel) /\ d.sel \in TaskIds
  BY <1>1, <1>2, TasksAre DEF Has
<1> QED
  BY <1>2, <1>3 DEF Sound

LEMMA StableIs == ASSUME PlanInv, plan # None PROVE Stable = None \/ Sound(Stable)
<1>d. PICK d : d = Stable
  OBVIOUS
<1>1. CASE RepeatBlocks >= BlockLimit
  <2>1. PICK cl : cl = <<"verification", "remediation", "diagnostic">>
    OBVIOUS
  <2>2. DOMAIN cl \subseteq Nat /\ \A i \in DOMAIN cl : cl[i] # "other"
    BY <2>1
  <2>3. d = Decision("force_remediation", plan.cur, PickForClasses(plan.tasks, plan.cur, cl))
    BY <1>1, <1>d, <2>1 DEF Stable
  <2>4. d.sel = PickForClasses(plan.tasks, plan.cur, cl) /\ d.mode \notin Retiring
    BY <2>3 DEF Decision, Retiring
  <2> QED
    BY <1>d, <2>2, <2>4, PickedIs
<1>2. CASE ~(RepeatBlocks >= BlockLimit) /\ plan.reward < 5
  <2>1. PICK cl : cl = <<"execution", "verification", "remediation">>
    OBVIOUS
  <2>2. DOMAIN cl \subseteq Nat /\ \A i \in DOMAIN cl : cl[i] # "other"
    BY <2>1
  <2>3. d = Decision("switch_task_class", plan.cur, PickForClasses(plan.tasks, plan.cur, cl))
    BY <1>2, <1>d, <2>1 DEF Stable
  <2>4. d.sel = PickForClasses(plan.tasks, plan.cur, cl) /\ d.mode \notin Retiring
    BY <2>3 DEF Decision, Retiring
  <2> QED
    BY <1>d, <2>2, <2>4, PickedIs
<1>3. CASE ~(RepeatBlocks >= BlockLimit) /\ ~(plan.reward < 5)
  <2>1. d = Rotated \/ d = None
    BY <1>3, <1>d DEF Stable
  <2> QED
    BY <2>1, <1>d, RotatedIs
<1> QED
  BY <1>1, <1>2, <1>3

LEMMA InspectLaneIs == ASSUME PlanInv, plan # None, plan.cur = Inspect PROVE InspectLane = None \/ Sound(InspectLane)
<1>d. PICK d : d = InspectLane
  OBVIOUS
<1>c. PICK cl : cl = <<"reflection", "execution", "verification">>
  OBVIOUS
<1>f. PICK fallback : fallback = PickForClasses(plan.tasks, Inspect, cl)
  OBVIOUS
<1>n. MatPass # Analyze /\ Inspect # Analyze
  BY DEF MatPass, Inspect, Analyze
<1>1. \/ d = Decision("promote_review_followup", Inspect, MatPass) /\ Has(plan.tasks, MatPass)
      \/ d = Retire(fallback)
      \/ d = Continue /\ Has(plan.tasks, Inspect)
      \/ d = Stable
  BY <1>d, <1>c, <1>f, Zenon DEF InspectLane
<1>2. CASE d = Decision("promote_review_followup", Inspect, MatPass) /\ Has(plan.tasks, MatPass)
  <2>1. d.sel = MatPass /\ d.mode \notin Retiring
    BY <1>2 DEF Decision, Retiring
  <2> QED
    BY <2>1, <1>2, <1>d, <1>n, Names DEF Sound
<1>3. CASE d = Retire(fallback)
  <2>1. d.sel = PickForClasses(plan.tasks, Inspect, cl) /\ d.mode \notin Retiring
    BY <1>3, <1>f DEF Retire, Decision, Retiring
  <2>2. DOMAIN cl \subseteq Nat /\ \A i \in DOMAIN cl : cl[i] # "other"
    BY <1>c
  <2> QED
    BY <2>1, <2>2, <1>d, PickedIs
<1>4. CASE d = Continue /\ Has(plan.tasks, Inspect)
  <2>1. d.sel = Inspect /\ d.mode \notin Retiring
    BY <1>4 DEF Continue, Decision, Retiring
  <2> QED
    BY <2>1, <1>4, <1>d, <1>n, Names DEF Sound
<1>5. CASE d = Stable
  BY <1>5, <1>d, StableIs
<1> QED
  BY <1>1, <1>2, <1>3, <1>4, <1>5

LEMMA SynthLaneIs == ASSUME PlanInv, plan # None, plan.cur = Synth PROVE SynthLane = None \/ Sound(SynthLane)
<1>d. PICK d : d = SynthLane
  OBVIOUS
<1>n. MatSynth # Analyze /\ Synth # Analyze
  BY DEF MatSynth, Synth, Analyze
<1>1. \/ d = Decision("materialize_synthesized_improvement", Synth, MatSynth)
      \/ d = Retire(Synth)
      \/ d = Continue
      \/ d = Stable
  BY <1>d, Zenon DEF SynthLane
<1>2. CASE d = Decision("materialize_synthesized_improvement", Synth, MatSynth)
  <2>1. d.sel = MatSynth /\ d.mode \notin Retiring
    BY <1>2 DEF Decision, Retiring
  <2> QED
    BY <2>1, <1>d, <1>n, Names DEF Sound
<1>3. CASE d = Retire(Synth) \/ d = Continue
  <2>1. d.sel = Synth /\ d.mode \notin Retiring
    BY <1>3 DEF Retire, Continue, Decision, Retiring
  <2> QED
    BY <2>1, <1>d, <1>n, Names DEF Sound
<1>4. CASE d = Stable
  BY <1>4, <1>d, StableIs
<1> QED
  BY <1>1, <1>2, <1>3, <1>4

LEMMA EscalatedIs == ASSUME plan # None PROVE Sound(Escalated)
<1>d. PICK d : d = Escalated
  OBVIOUS
<1>n. MatSynth # Analyze /\ Synth # Analyze /\ Sub # Analyze
  BY DEF MatSynth, Synth, Sub, Analyze
<1>1. d.sel \in {MatSynth, Synth} \/ (d.sel = Sub /\ Has(plan.tasks, Sub))
  BY <1>d DEF Escalated, Decision
<1>2. d.mode \notin Retiring
  BY <1>d DEF Escalated, Decision, Retiring
<1> QED
  BY <1>1, <1>2, <1>d, <1>n, Names DEF Sound

LEMMA AfterMaterializationIs == ASSUME plan # None, plan.cur = Reward PROVE Sound(AfterMaterialization)
<1>d. PICK d : d = AfterMaterialization
  OBVIOUS
<1>n. MatSynth # Analyze /\ Synth # Analyze /\ Reward # Analyze
  BY DEF MatSynth, Synth, Reward, Analyze
<1>1. d.sel \in {MatSynth, Synth, Reward} /\ d.mode \notin Retiring
  <2>1. CASE ~RewardConfirmed
    <3>1. d = [mode |-> "record_reward_after_synthesized_materialization", cur |-> Reward, sel |-> Reward,
               retire |-> FALSE, path |-> plan.path]
      BY <2>1, <1>d DEF AfterMaterialization, Decision
    <3> QED
      BY <3>1 DEF Retiring
  <2>2. CASE RewardConfirmed
    <3>1. \/ d = Decision("escalate_underutilized_ambition", Reward, MatSynth)
          \/ d = Decision("synthesize_next_candidate", Reward, Synth)
      BY <2>2, <1>d DEF AfterMaterialization
    <3> QED
      BY <3>1 DEF Decision, Retiring
  <2> QED
    BY <2>1, <2>2
<1> QED
  BY <1>1, <1>d, <1>n, Names DEF Sound

\* No retirement is decided again: the current task of a plan is never the one its decision
\* retired.
LEMMA FeedbackIs == ASSUME PlanInv PROVE Feedback # None => plan # None /\ Sound(Feedback)
<1>d. PICK d : d = Feedback
  OBVIOUS
<1>1. CASE plan = None
  BY <1>1, <1>d DEF Feedback
<1>2. CASE plan # None
  <2>1. PlanOK(plan)
    BY <1>2 DEF PlanInv
  <2>2. ~(/\ plan.fd # None /\ plan.fd.cur = plan.cur /\ plan.fd.sel \notin {None, plan.cur}
          /\ plan.fd.mode \in {"retire_terminal_selfevo_lane", "retire_terminal_noop_lane",
                               "retire_stale_subagent_lane"})
    BY <2>1 DEF PlanOK, FdOK, Retiring
  <2>3. \/ plan.cur = Reward /\ d = AfterMaterialization
        \/ d = Escalated
        \/ plan.cur = Inspect /\ d = InspectLane
        \/ plan.cur = Synth /\ d = SynthLane
        \/ Has(plan.tasks, plan.cur) /\ d = Continue
        \/ d = Stable
    BY <1>2, <1>d, <2>2, Zenon DEF Feedback
  <2>4. CASE Has(plan.tasks, plan.cur) /\ d = Continue
    <3>1. d.sel = plan.cur /\ d.mode \notin Retiring
      BY <2>4 DEF Continue, Decision, Retiring
    <3> QED
      BY <3>1, <2>1, <2>4, <1>2, <1>d DEF Sound, PlanOK
  <2>5. CASE plan.cur = Reward /\ d = AfterMaterialization
    BY <2>5, <1>2, <1>d, AfterMaterializationIs
  <2>6. CASE d = Escalated
    BY <2>6, <1>2, <1>d, EscalatedIs
  <2>7. CASE plan.cur = Inspect /\ d = InspectLane
    BY <2>7, <1>2, <1>d, InspectLaneIs
  <2>8. CASE plan.cur = Synth /\ d = SynthLane
    BY <2>8, <1>2, <1>d, SynthLaneIs
  <2>9. CASE d = Stable
    BY <2>9, <1>2, <1>d, StableIs
  <2> QED
    BY <2>3, <2>4, <2>5, <2>6, <2>7, <2>8, <2>9
<1> QED
  BY <1>1, <1>2

\* Three names are enough for the artifacts a plan knows of.
LEMMA FreshArtifactIs == ASSUME NEW task \in Materializing
                         PROVE  FreshArtifact(task) \in Artifacts /\ FreshArtifact(task).task = task
<1> DEFINE known == IF plan = None THEN {} ELSE {plan.path} \cup (IF plan.fd = None THEN {} ELSE {plan.fd.path})
           n == CHOOSE k \in 1..3 : \A x \in known \ {None} : x.n # k
<1>1. \E a, b : \A x \in known : x = a \/ x = b
  <2>1. \A x \in known : x = plan.path \/ x = plan.fd.path
    OBVIOUS
  <2> QED
    BY <2>1
<1>2. PICK a, b : \A x \in known : x = a \/ x = b
  BY <1>1
<1>3. PICK u, v : u = a.n /\ v = b.n
  OBVIOUS
<1>4. \E k \in 1..3 : k # u /\ k # v
  BY 1 \in 1..3, 2 \in 1..3, 3 \in 1..3
<1>5. \E k \in 1..3 : \A x \in known \ {None} : x.n # k
  BY <1>2, <1>3, <1>4
<1>6. n \in 1..3
  BY <1>5
<1>7. FreshArtifact(task) = [task |-> task, n |-> n]
  BY DEF FreshArtifact
<1> HIDE DEF n, known
<1> QED
  BY <1>6, <1>7 DEF Artifacts

LEMMA KnownIs ==
  ASSUME PlanInv, NEW gate, NEW ok, NEW c, c = Known(gate, ok, Feedback)
  PROVE  KnownOK(c)
<1>1. PICK fd : fd = Feedback
  OBVIOUS
<1>2. PICK status : status = Status(gate, ok)
  OBVIOUS
<1>3. PICK prior : prior = PriorTask(status, fd)
  OBVIOUS
<1>4. /\ c.status = status /\ c.fd = fd /\ c.new = NewArtifact(prior)
      /\ c.again = (status = "PASS" /\ plan # None)
  BY <1>1, <1>2, <1>3 DEF Known
<1>5. c.status \in Results
  BY <1>2, <1>4 DEF Status, Results
<1>6. c.fd # None => plan # None /\ Sound(c.fd)
  BY <1>1, <1>4, FeedbackIs
<1>7. ASSUME c.new # None
      PROVE  /\ c.new \in Artifacts /\ c.new.task \in Materializing
             /\ c.fd = None /\ c.status # "PASS" =>
                  /\ plan # None /\ c.new.task = MatSynth
                  /\ plan.cur = MatSynth \/ (plan.fd # None /\ plan.fd.sel = MatSynth)
  <2>1. PICK task : task = IF plan # None /\ (plan.cur = MatSynth \/ (plan.fd # None /\ plan.fd.sel = MatSynth))
                           THEN MatSynth ELSE prior
    OBVIOUS
  <2>2. task \in Materializing /\ c.new = FreshArtifact(task)
    BY <2>1, <1>4, <1>7 DEF NewArtifact
  <2>3. c.new \in Artifacts /\ c.new.task = task
    BY <2>2, FreshArtifactIs
  <2>4. c.fd = None /\ c.status # "PASS" => prior \in {Refresh, Bounded}
    BY <1>3, <1>4, <1>5 DEF PriorTask, Results
  <2>5. Refresh \notin Materializing /\ Bounded \notin Materializing
    BY DEF Refresh, Bounded, Materializing, MatPass, MatSynth
  <2> QED
    BY <2>1, <2>2, <2>3, <2>4, <2>5
<1> QED
  BY <1>4, <1>5, <1>6, <1>7 DEF KnownOK, Sound

-------------------------------------------------------------------------------
(* The steps *)

HistInv == \A r \in DOMAIN Runs : hist.run[r] \in 0..Runs[r]
SubsInv == /\ subs \in [open : Nat, old : BOOLEAN, results : BOOLEAN] /\ upsets \in Nat
           /\ subs.open <= upsets

\* The inductive invariant
IInv == PlanInv /\ HistInv /\ SubsInv /\ goal \in Goals

LEMMA RunsAre == \A r \in DOMAIN Runs : Runs[r] \in Nat /\ Runs[r] >= 1
BY DEF Runs, BlockLimit, RotationLimit, AmbitionLimit

LEMMA InitInv == ASSUME Init PROVE IInv
<1>1. PlanInv
  BY DEF Init, PlanInv
<1>2. HistInv
  <2>1. hist.run = [r \in DOMAIN Runs |-> 0]
    BY DEF Init, NoHistory
  <2> QED
    BY <2>1, RunsAre DEF HistInv
<1>3. SubsInv
  BY DEF Init, SubsInv
<1> QED
  BY <1>1, <1>2, <1>3 DEF Init, IInv

\* A run of the history stays below its limit.
LEMMA RecordedIs == ASSUME HistInv, NEW e, NEW alone, NEW h, h = Recorded(hist, e, alone)
                    PROVE  \A r \in DOMAIN Runs : h.run[r] \in 0..Runs[r]
<1> TAKE r \in DOMAIN Runs
<1>1. h.run[r] = IF ~Counts(r, e, alone) THEN 0
                 ELSE IF hist.last = None \/ ~Alike(r, hist.last, e) THEN 1
                 ELSE IF hist.run[r] = Runs[r] THEN hist.run[r] ELSE hist.run[r] + 1
  BY DEF Recorded
<1>2. Runs[r] \in Nat /\ Runs[r] >= 1 /\ hist.run[r] \in 0..Runs[r]
  BY RunsAre DEF HistInv
<1> QED
  BY <1>1, <1>2

\* What a cycle that gets as far as "written" files does.
LEMMA CycleIs ==
  ASSUME IInv, NEW gate, NEW ok, NEW written, Cycle(gate, ok, written)
  PROVE  /\ PlanInv' /\ HistInv' /\ goal' \in Goals /\ UNCHANGED world
         /\ plan' # plan /\ plan'.status = "PASS" /\ world.issue /\ world.failure # "fresh" => plan'.cur # Analyze
         /\ \/ subs' = subs
            \/ \E p : \/ subs' = Materialized(Requested(p))
                      \/ subs' = Requested(p) /\ ~(\E i \in 1..written : Files[i] = "result")
<1> DEFINE Done(file) == \E i \in 1..written : Files[i] = file
<1>1. PICK c, p : /\ c = Known(gate, ok, Feedback) /\ p = NewPlan(c, Snapshot(c))
                  /\ goal' = ActiveGoal
                  /\ subs' = IF Done("result") THEN Materialized(Requested(p))
                             ELSE IF Done("request") THEN Requested(p) ELSE subs
                  /\ plan' = IF Done("plan") THEN p ELSE plan
                  /\ hist' = IF Done("history")
                             THEN Recorded(hist, Entry(gate, c, p), c.outcome = "discard" /\ Requested(p).open = 0)
                             ELSE hist
                  /\ UNCHANGED world
  BY DEF Cycle
<1>2. KnownOK(c)
  BY <1>1, KnownIs DEF IInv
<1>3. /\ PlanOK(p)
      /\ p.status = "PASS" /\ world.issue /\ world.failure # "fresh" => p.cur # Analyze
  BY <1>1, <1>2, NewPlanIs DEF IInv
<1>4. plan' = p \/ plan' = plan
  BY <1>1
<1>5. PlanInv'
  BY <1>3, <1>4 DEF IInv, PlanInv
<1>6. HistInv'
  <2>1. PICK e, alone : hist' = Recorded(hist, e, alone) \/ hist' = hist
    BY <1>1
  <2> QED
    BY <2>1, RecordedIs DEF IInv, HistInv
<1>7. goal' \in Goals
  BY <1>1, GoalAssumption DEF ActiveGoal, IInv
<1> QED
  BY <1>1, <1>3, <1>4, <1>5, <1>6, <1>7

LEMMA RequestedIs ==
  ASSUME SubsInv, NEW p
  PROVE  /\ Requested(p) \in [open : Nat, old : BOOLEAN, results : BOOLEAN]
         /\ Requested(p).open <= upsets + 1
         /\ Materialized(Requested(p)) \in [open : Nat, old : BOOLEAN, results : BOOLEAN]
         /\ Materialized(Requested(p)).open <= upsets
<1>s. PICK s : s = Requested(p)
  OBVIOUS
<1>1. s = [open |-> IF p.cur = Sub THEN subs.open + 1 ELSE subs.open, old |-> subs.old, results |-> subs.results]
  BY <1>s DEF Requested, SubsInv
<1>2. s \in [open : Nat, old : BOOLEAN, results : BOOLEAN] /\ s.open <= upsets + 1
  BY <1>1 DEF SubsInv
<1>3. Materialized(s) \in [open : Nat, old : BOOLEAN, results : BOOLEAN] /\ Materialized(s).open <= upsets
  BY <1>2 DEF Materialized, SubsInv
<1> QED
  BY <1>s, <1>2, <1>3

LEMMA CompleteInv == ASSUME IInv, NEW gate, NEW ok, CompleteCycle(gate, ok) PROVE IInv'
<1>1. Cycle(gate, ok, Len(Files)) /\ UNCHANGED upsets
  BY DEF CompleteCycle
<1>2. \E i \in 1..Len(Files) : Files[i] = "result"
  <2>1. Len(Files) = 5 /\ Files[2] = "result"
    BY DEF Files
  <2> QED
    BY <2>1
<1>3. PlanInv' /\ HistInv' /\ goal' \in Goals /\ (subs' = subs \/ \E p : subs' = Materialized(Requested(p)))
  BY <1>1, <1>2, CycleIs
<1>4. SubsInv'
  BY <1>1, <1>3, RequestedIs DEF IInv, SubsInv
<1> QED
  BY <1>3, <1>4 DEF IInv

LEMMA DyingInv == ASSUME IInv, NEW gate, NEW ok, DyingCycle(gate, ok) PROVE IInv'
<1>1. PICK written \in 0..Len(Files) - 1 : Cycle(gate, ok, written)
  BY DEF DyingCycle
<1>2. upsets' = upsets + 1
  BY DEF DyingCycle
<1>3. PlanInv' /\ HistInv' /\ goal' \in Goals
      /\ (subs' = subs \/ \E p : subs' = Materialized(Requested(p)) \/ subs' = Requested(p))
  BY <1>1, CycleIs
<1>4. SubsInv'
  BY <1>2, <1>3, RequestedIs DEF IInv, SubsInv
<1> QED
  BY <1>3, <1>4 DEF IInv

LEMMA WorldInv == ASSUME IInv, World PROVE IInv'
<1>1. UNCHANGED <<plan, hist, goal, subs>> /\ upsets' = upsets + 1
  BY DEF World
<1>2. PlanInv' /\ HistInv' /\ goal' \in Goals
  BY <1>1 DEF IInv, PlanInv, HistInv
<1>3. SubsInv'
  BY <1>1 DEF IInv, SubsInv
<1> QED
  BY <1>2, <1>3 DEF IInv

LEMMA AgesInv == ASSUME IInv, RequestAges PROVE IInv'
<1>1. UNCHANGED <<plan, hist, goal, upsets>> /\ subs' = [subs EXCEPT !.old = TRUE]
  BY DEF RequestAges
<1>2. PlanInv' /\ HistInv' /\ goal' \in Goals
  BY <1>1 DEF IInv, PlanInv, HistInv
<1>3. SubsInv'
  BY <1>1 DEF IInv, SubsInv
<1> QED
  BY <1>2, <1>3 DEF IInv

LEMMA NextInv == ASSUME IInv, [Next]_vars PROVE IInv'
<1>1. CASE UNCHANGED vars
  BY <1>1 DEF vars, IInv, PlanInv, HistInv, SubsInv
<1>2. CASE Next
  BY <1>2, CompleteInv, DyingInv, WorldInv, AgesInv DEF Next
<1> QED
  BY <1>1, <1>2

\* What every plan a cycle writes keeps, whatever it finds: the shape of its tasks, one active
\* mark after a pass, candidates that are tasks, a decision that is not decided again, and a
\* retired analysis that is not the current task.
THEOREM Inductive == Spec => []IInv
<1>1. Init => IInv
  BY InitInv
<1>2. IInv /\ [Next]_vars => IInv'
  BY NextInv
<1> QED
  BY <1>1, <1>2, PTL DEF Spec

\* Every plan, whichever steps of the planner wrote it, names tasks only, none twice, and has its
\* candidates among them; requests left open are never more than the cycles that died.
THEOREM TypeCorrect == Spec => []TypeOK
<1>1. IInv => TypeOK
  <2> SUFFICES ASSUME IInv PROVE TypeOK
    OBVIOUS
  <2>1. ASSUME plan # None
        PROVE  /\ plan.cur \in TaskIds /\ Len(plan.tasks) >= 2
               /\ \A i \in DOMAIN plan.tasks : plan.tasks[i].id \in TaskIds
                    /\ plan.tasks[i].status \in {"pending", "active", "done", "blocked"}
               /\ \A i, j \in DOMAIN plan.tasks : plan.tasks[i].id = plan.tasks[j].id => i = j
               /\ \A x, y \in plan.cands : x.id = y.id => x = y
               /\ \A x \in plan.cands : Has(plan.tasks, x.id)
               /\ plan.fd # None => plan.fd.sel \in TaskIds
    <3>1. PlanOK(plan)
      BY <2>1 DEF IInv, PlanInv
    <3>2. plan.cur \in TaskIds /\ Line(plan.tasks) /\ FdOK(plan.fd, plan.cur) /\ CandsOK(plan.cands, plan.tasks)
      BY <3>1 DEF PlanOK
    <3>3. \A i \in DOMAIN plan.tasks : plan.tasks[i].id \in TaskIds
            /\ plan.tasks[i].status \in {"pending", "active", "done", "blocked"}
      BY <3>2, TasksAre DEF TaskSet, Statuses
    <3> QED
      BY <3>2, <3>3 DEF Line, Distinct, Rooted, FdOK, CandsOK, Unique
  <2>2. HistInv /\ goal \in Goals /\ subs.open <= upsets
    BY DEF IInv, SubsInv
  <2> QED
    BY <2>1, <2>2 DEF TypeOK, HistInv
<1> QED
  BY <1>1, Inductive, PTL

\* After a passing cycle exactly one task is active, and it is the one the plan calls the current
\* one: no branch of the planner moves one without the other.
THEOREM OneActiveCorrect == Spec => []OneActive
<1>1. IInv => OneActive
  BY DEF IInv, PlanInv, PlanOK, Marked, OneActive
<1> QED
  BY <1>1, Inductive, PTL

\* No cycle takes a retired analysis up again while its issue is closed and no new failure came.
THEOREM StaysRetiredCorrect == Spec => StaysRetired
<1>1. IInv /\ [Next]_vars
        => [plan' # plan /\ plan'.status = "PASS" /\ world.issue /\ world.failure # "fresh"
              => plan'.cur # Analyze]_vars
  <2> SUFFICES ASSUME IInv, Next, plan' # plan, plan'.status = "PASS", world.issue, world.failure # "fresh"
               PROVE  plan'.cur # Analyze
    OBVIOUS
  <2>1. ASSUME World \/ RequestAges PROVE plan' = plan
    BY <2>1 DEF World, RequestAges
  <2>2. PICK gate \in Gates, ok \in BOOLEAN : CompleteCycle(gate, ok) \/ DyingCycle(gate, ok)
    BY <2>1 DEF Next
  <2>3. \E written : Cycle(gate, ok, written)
    BY <2>2 DEF CompleteCycle, DyingCycle
  <2> QED
    BY <2>3, CycleIs
<1> QED
  BY <1>1, Inductive, PTL DEF Spec, StaysRetired

===============================================================================

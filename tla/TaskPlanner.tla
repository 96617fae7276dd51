------------------------------ MODULE TaskPlanner ------------------------------
(***************************************************************************)
(* The self-evolving cycle (nanobot/runtime/coordinator.py): which task    *)
(* the next cycle works on.  A cycle reads the plan of the last one        *)
(* (goals/current.json), the newest history entries and the last           *)
(* experiment, decides, runs one turn if the approval gate is fresh, and   *)
(* writes the new plan, the experiment and the history entry, in this      *)
(* order; it may die between two of these writes.                          *)
(*                                                                         *)
(* The plan keeps: tasks, in order; the generated candidates, with whether *)
(* they carry a readiness contract; the feedback decision; the reward      *)
(* (times ten); and the path of the materialized artifact.                 *)
(***************************************************************************)
EXTENDS Integers, Sequences, FiniteSets

CONSTANTS
  Gates,      \* states of the approval gate
  Goals,      \* active goals, the default one among them
  DefaultGoal,
  MaxUpsets,  \* bound on the cycles that die half-way and the changes beside the cycles
  None

ASSUME GatesAssumption == "fresh" \in Gates /\ Gates \subseteq {"missing", "invalid", "expired", "fresh"}
ASSUME GoalAssumption == DefaultGoal \in Goals
ASSUME BoundAssumption == MaxUpsets \in Nat

VARIABLES
  plan,    \* goals/current.json
  hist,    \* goals/history
  exp,     \* experiments/latest.json
  goal,    \* goals/active.json
  subs,    \* subagents/requests and results
  world,   \* failure learning, terminal issue and no-op records of self-evolution
  upsets,
  idle     \* passes in a row, undisturbed, that left nothing to verify (observer)

vars == <<plan, hist, exp, goal, subs, world, upsets, idle>>

RotationLimit == 3   \* GOAL_ROTATION_STREAK_LIMIT
BlockLimit == 2      \* REPEATED_BLOCK_LIMIT
AmbitionLimit == 5   \* AMBITION_UNDERUTILIZATION_STREAK_LIMIT
IdleLimit == 14      \* see KeepsVerifying

Refresh == "refresh-approval-gate"
Verify == "verify-approval-gate"
Bounded == "run-bounded-turn"
Reward == "record-reward"
Inspect == "inspect-pass-streak"
MatPass == "materialize-pass-streak-improvement"
Synth == "synthesize-next-improvement-candidate"
MatSynth == "materialize-synthesized-improvement"
Sub == "subagent-verify-materialized-improvement"
Analyze == "analyze-last-failed-candidate"

Core == {Refresh, Verify, Bounded, Reward}
Materializing == {MatPass, MatSynth}
TaskIds == Core \cup Materializing \cup {Inspect, Synth, Sub, Analyze}

ActionClass(id) ==
  CASE id = Refresh -> "remediation"
    [] id = Verify -> "verification"
    [] id \in {Bounded, MatPass, MatSynth} -> "execution"
    [] id = Reward -> "reflection"
    [] id \in {Inspect, Sub, Synth} -> "review"
    [] OTHER -> "other"

-------------------------------------------------------------------------------
(* Tasks *)

Task(id, status) == [id |-> id, status |-> status, retired |-> FALSE]

Has(tasks, id) == \E i \in DOMAIN tasks : tasks[i].id = id
The(tasks, id) == tasks[CHOOSE i \in DOMAIN tasks : tasks[i].id = id]

\* _task_is_selectable; a task that is not in the plan is.
Selectable(tasks, id) == Has(tasks, id) => The(tasks, id).status \notin {"done", "blocked"}

Update(tasks, New(_)) == [i \in DOMAIN tasks |-> [tasks[i] EXCEPT !.status = New(tasks[i])]]

\* Mutation of Activate: the task that was active stays so.
ActivateOnly(tasks, id) == Update(tasks, LAMBDA t : IF t.id = id THEN "active" ELSE t.status)

\* The task becomes the active one, the active ones pending.
Activate(tasks, id) ==
  Update(tasks, LAMBDA t : IF t.id = id THEN "active"
                           ELSE IF t.status = "active" THEN "pending" ELSE t.status)

\* Mutation of ActivateOrAdd: whether it is in the plan is not asked.
AddAlways(tasks, id) == Append(Activate(tasks, id), Task(id, "active"))

\* And is appended if it is not in the plan.
ActivateOrAdd(tasks, id) ==
  IF Has(tasks, id) THEN Activate(tasks, id) ELSE Append(Activate(tasks, id), Task(id, "active"))

\* Analysis of the failed candidate is over: record the reward.
RetireAnalyze(tasks) ==
  LET active == ActivateOrAdd(tasks, Reward)
  IN [i \in DOMAIN active |-> IF active[i].id = Analyze
                              THEN [active[i] EXCEPT !.status = "done", !.retired = TRUE]
                              ELSE active[i]]

First(S) == CHOOSE i \in S : \A j \in S : i <= j

\* The first task of the first class that has one besides the current task, else any.
PickForClasses(tasks, cur, classes) ==
  LET others == {i \in DOMAIN tasks : tasks[i].id # cur}
      Of(class) == {i \in others : ActionClass(tasks[i].id) = class}
      hit == {c \in DOMAIN classes : Of(classes[c]) # {}}
  IN IF hit # {} THEN tasks[First(Of(classes[First(hit)]))].id
     ELSE IF others # {} THEN tasks[First(others)].id ELSE None

Decision(mode, cur, sel) ==
  [mode |-> mode, cur |-> cur, sel |-> sel, retire |-> FALSE, path |-> None]

\* What is written besides a plan's tasks; None is none of it.
Modes == {
  "continue_active_lane", "switch_task_class", "force_remediation", "escalate_underutilized_ambition",
  "promote_review_followup", "retire_goal_artifact_pair", "synthesize_next_candidate",
  "materialize_synthesized_improvement", "readiness_blocked", "complete_active_lane",
  "record_reward_after_synthesized_materialization", "handoff_to_subagent_verification",
  "handoff_to_next_candidate", "fresh_failure_learning_repair", "fresh_failure_learning_after_reward_retirement",
  "stale_complete_lane_record_reward_repair", "retire_terminal_selfevo_lane", "retire_terminal_noop_lane",
  "retire_stale_subagent_lane"}
Artifacts == [task : Materializing, n : 1..3]
Offers == [id : TaskIds, ready : BOOLEAN, status : {"pending", "active"}]
Decisions ==
  [mode : Modes, cur : TaskIds \cup {None}, sel : TaskIds \cup {None}, retire : BOOLEAN, path : Artifacts \cup {None}]

ASSUME NoneAssumption == None \notin TaskIds \cup Offers \cup Decisions

-------------------------------------------------------------------------------
(* History *)

\* _ambition_streak_key
StreakKey(id) == IF id \in {Reward, Inspect, Synth} THEN "synthesized-reward-loop" ELSE id

(* Every question a cycle asks of the history is how long its leading run of     *)
(* entries alike is, up to a limit: "hist" holds the newest entry and the runs.  *)
Runs == [blocks |-> BlockLimit, same |-> RotationLimit, passes |-> RotationLimit,
         lane |-> AmbitionLimit, alone |-> AmbitionLimit]
NoHistory == [last |-> None, run |-> [r \in DOMAIN Runs |-> 0]]

Alike(r, d, e) ==
  CASE r = "blocks" -> d.status = "BLOCK" /\ e.status = "BLOCK" /\ d.gate = e.gate
    [] r = "same" -> d.status = "PASS" /\ e.status = "PASS" /\ d.goal = e.goal /\ d.task = e.task
    [] r = "passes" -> d.status = "PASS" /\ e.status = "PASS"
    [] r \in {"lane", "alone"} ->
         d.status = "PASS" /\ e.status = "PASS" /\ StreakKey(d.task) = StreakKey(e.task)

\* Does an entry start a run at all?
Counts(r, e, alone) ==
  CASE r = "blocks" -> e.status = "BLOCK" [] r = "alone" -> e.status = "PASS" /\ alone [] OTHER -> e.status = "PASS"

Recorded(h, e, alone) ==
  [last |-> e,
   run |-> [r \in DOMAIN Runs |->
              IF ~Counts(r, e, alone) THEN 0
              ELSE IF h.last = None \/ ~Alike(r, h.last, e) THEN 1
              ELSE IF h.run[r] = Runs[r] THEN h.run[r] ELSE h.run[r] + 1]]

RepeatBlocks == hist.run.blocks
\* _extract_history_signature: goal and task of a PASS.
StrongPass == hist.last # None /\ hist.last.status = "PASS"
StrongPasses == hist.run.same

\* _ambition_underutilization_reasons: no cycle uses more than two tool calls, so a
\* streak always has a reason.
Underused(cur) == hist.run.lane = AmbitionLimit /\ StreakKey(hist.last.task) = StreakKey(cur)
DiscardOnlyAlone == hist.run.alone = AmbitionLimit

\* _ensure_active_goal, with _latest_goal_rotation_streak
ActiveGoal ==
  IF goal # DefaultGoal /\ StrongPasses >= RotationLimit /\ hist.last.goal = goal
  THEN DefaultGoal ELSE goal

-------------------------------------------------------------------------------
(* _derive_feedback_decision *)

RewardConfirmed ==
  /\ plan.fd # None /\ plan.fd.mode = "record_reward_after_synthesized_materialization"
  /\ plan.fd.sel = Reward
  /\ plan.path = None \/ plan.fd.path = None \/ plan.fd.path = plan.path

\* 701-811: the reward of a materialized candidate comes first.
AfterMaterialization ==
  IF ~RewardConfirmed
  THEN [Decision("record_reward_after_synthesized_materialization", Reward, Reward)
          EXCEPT !.path = plan.path]
  ELSE IF Underused(Reward) /\ DiscardOnlyAlone
  THEN Decision("escalate_underutilized_ambition", Reward, MatSynth)
  ELSE Decision("synthesize_next_candidate", Reward, Synth)

\* Mutation of Escalated: the lane goes on.
EscalatedNever == Decision("continue_active_lane", plan.cur, plan.cur)

\* 837-884: after five similar passes, a lane with more work in it.
Escalated ==
  LET open(id) == id # plan.cur /\ Has(plan.tasks, id) /\ Selectable(plan.tasks, id)
  IN Decision("escalate_underutilized_ambition", plan.cur,
       IF plan.cur = Synth \/ open(MatSynth) THEN MatSynth
       ELSE IF open(Sub) THEN Sub ELSE IF open(Synth) THEN Synth ELSE MatSynth)

Retire(sel) == [Decision("retire_goal_artifact_pair", plan.cur, sel) EXCEPT !.retire = TRUE]
Continue == Decision("continue_active_lane", plan.cur, plan.cur)

\* 1078-1165: the pair of goal and task has passed often enough.
Rotated ==
  LET open(id) == Has(plan.tasks, id) /\ Selectable(plan.tasks, id)
      others == {i \in DOMAIN plan.tasks :
                   plan.tasks[i].id # plan.cur /\ plan.tasks[i].status \notin {"done", "blocked"}}
      outside == {i \in others : plan.tasks[i].id \notin Core}
      closed(id) == Has(plan.tasks, id) /\ ~Selectable(plan.tasks, id)
      confirmed == plan.cur = Reward /\ plan.fd # None /\ plan.fd.sel = Reward
                   /\ plan.fd.mode = "record_reward_after_synthesized_materialization"
  IN IF plan.cur \notin Core /\ open(MatPass)
     THEN Decision("promote_review_followup", plan.cur, MatPass)
     ELSE IF open(Synth) THEN Retire(Synth)
     ELSE IF outside # {} THEN Retire(plan.tasks[First(outside)].id)
     ELSE IF others # {} THEN Retire(plan.tasks[First(others)].id)
     ELSE IF closed(Synth) /\ closed(MatSynth) /\ ~confirmed
     THEN Decision("record_reward_after_synthesized_materialization", plan.cur, Reward)
     ELSE Decision("synthesize_next_candidate", plan.cur, Synth)

\* 1060-1165: the decisions that do not depend on the lane.
Stable ==
  IF RepeatBlocks >= BlockLimit
  THEN Decision("force_remediation", plan.cur,
         PickForClasses(plan.tasks, plan.cur, <<"verification", "remediation", "diagnostic">>))
  ELSE IF plan.reward < 5
  THEN Decision("switch_task_class", plan.cur,
         PickForClasses(plan.tasks, plan.cur, <<"execution", "verification", "remediation">>))
  ELSE IF StrongPasses >= RotationLimit THEN Rotated
  ELSE None

\* 885-965
InspectLane ==
  LET followup == Has(plan.tasks, MatPass)
      fallback == PickForClasses(plan.tasks, Inspect, <<"reflection", "execution", "verification">>)
      own == StrongPass /\ hist.last.task = Inspect
  IN IF followup /\ Selectable(plan.tasks, MatPass)
     THEN Decision("promote_review_followup", Inspect, MatPass)
     ELSE IF StrongPasses >= RotationLimit /\ own /\ Has(plan.tasks, Inspect) /\ fallback # None
     THEN Retire(fallback)
     ELSE IF ~followup /\ StrongPass /\ ~own /\ Has(plan.tasks, Inspect) THEN Continue
     ELSE Stable

\* 966-1037
SynthLane ==
  IF StrongPasses >= RotationLimit /\ exp # None /\ exp.outcome = "discard"
  THEN Decision("materialize_synthesized_improvement", Synth, MatSynth)
  ELSE IF ~Has(plan.tasks, Synth) THEN Stable
  ELSE IF StrongPasses >= RotationLimit THEN Retire(Synth) ELSE Continue

Feedback ==
  IF plan = None THEN None
  ELSE IF /\ plan.fd # None /\ plan.fd.cur = plan.cur /\ plan.fd.sel \notin {None, plan.cur}
          /\ plan.fd.mode \in {"retire_terminal_selfevo_lane", "retire_terminal_noop_lane",
                               "retire_stale_subagent_lane"}
  THEN plan.fd
  ELSE IF /\ plan.cur = Reward /\ plan.path # None /\ plan.path.task = MatSynth
          /\ ~Selectable(plan.tasks, MatSynth)
  THEN AfterMaterialization
  ELSE IF Underused(plan.cur) THEN Escalated
  ELSE IF plan.cur = Inspect THEN InspectLane
  ELSE IF plan.cur = Synth THEN SynthLane
  ELSE IF plan.cur \notin Core /\ Has(plan.tasks, plan.cur) /\ StrongPasses < RotationLimit
  THEN Continue
  ELSE Stable

-------------------------------------------------------------------------------
(* _build_task_plan_snapshot.  "c" is what the cycle knows: its status, the     *)
(* derived decision, the new artifact, the experiment's outcome and whether     *)
(* the plan of the last cycle is read again (only by a PASS).  "p" is the plan  *)
(* under construction; each step of the function maps p to the next p.          *)

FailureKnown == world.failure # "none"
FailureFresh == world.failure = "fresh"

\* 2171-2231
Base(c) ==
  CASE c.status = "BLOCK" -> <<Task(Refresh, "active"), Task(Verify, "pending")>>
    [] c.status = "ERROR" -> <<Task(Refresh, "done"), Task(Bounded, "active"), Task(Reward, "pending")>>
    [] c.status = "PASS" /\ plan # None ->
         IF Has(plan.tasks, plan.cur) THEN Activate(plan.tasks, plan.cur)
         ELSE ActivateOrAdd(plan.tasks, Reward)
    [] OTHER -> <<Task(Refresh, "done"), Task(Bounded, "done"), Task(Reward, "active")>>

\* 2231-2238: the selected task, which need not be in the plan yet.
Selected(c) ==
  LET tasks == Base(c)
      sel == IF c.fd # None THEN c.fd.sel ELSE None
      active == CHOOSE i \in DOMAIN tasks : tasks[i].status = "active"
  IN [tasks |-> IF sel # None THEN Activate(tasks, sel) ELSE tasks,
      cur |-> IF sel # None THEN sel ELSE tasks[active].id,
      fd |-> c.fd, retired |-> FALSE, cands |-> {}]

\* The last plan's analysis task was retired for a terminal issue.
AlreadyRetired(c) ==
  c.again /\ Has(plan.tasks, Analyze) /\ The(plan.tasks, Analyze).retired
          /\ ~Selectable(plan.tasks, Analyze)

\* Mutation of RetireTerminal: the current task is not moved.
RetireTerminalStays(p) ==
  [p EXCEPT !.tasks = RetireAnalyze(@), !.retired = TRUE,
            !.fd = Decision("retire_terminal_selfevo_lane", Analyze, Reward)]

RetireTerminal(p) ==
  [p EXCEPT !.tasks = RetireAnalyze(@), !.cur = Reward, !.retired = TRUE,
            !.fd = Decision("retire_terminal_selfevo_lane", Analyze, Reward)]

Repair(p, fd) ==
  [p EXCEPT !.tasks = ActivateOrAdd(@, Analyze), !.cur = Analyze, !.fd = fd]

\* 2258-2443: what self-evolution left behind comes before bookkeeping.
FailureLearning(c, p) ==
  LET rfd == IF c.again THEN plan.fd ELSE None
      recorded == IF c.again THEN plan.cur ELSE None
      repeatRetire ==
        /\ recorded = Reward \/ AlreadyRetired(c)
        /\ rfd # None /\ rfd.mode = "retire_terminal_selfevo_lane" /\ rfd.sel = Reward /\ world.issue
      fromReward == rfd # None /\ rfd.cur = Reward /\ rfd.retire
      fromLane == rfd # None /\ rfd.mode = "complete_active_lane" /\ rfd.cur = MatPass /\ rfd.sel = Reward
      q == IF repeatRetire
           THEN [p EXCEPT !.tasks = RetireAnalyze(@), !.cur = Reward, !.fd = None, !.retired = TRUE]
           ELSE [p EXCEPT !.retired = AlreadyRetired(c)]
  IN IF world.issue /\ ~q.retired /\ q.cur = Analyze THEN RetireTerminal(q)
     ELSE IF /\ FailureKnown /\ q.cur # MatSynth /\ ~q.retired
             /\ q.cur = Reward \/ FailureFresh
     THEN IF world.issue /\ (fromLane \/ q.cur # Sub) THEN RetireTerminal(q)
          ELSE IF ~world.issue /\ ((fromReward /\ FailureFresh) \/ fromLane)
          THEN Repair(q, [Decision(IF fromReward THEN "fresh_failure_learning_after_reward_retirement"
                                   ELSE "stale_complete_lane_record_reward_repair", Reward, Analyze)
                           EXCEPT !.retire = fromReward])
          ELSE Repair(q, Decision("fresh_failure_learning_repair", recorded, Analyze))
     ELSE q

\* _derive_generated_candidates, and the selected one (2455-2490); None where there is none.
OfFailure(c) ==
  IF c.status = "PASS" /\ FailureKnown /\ ~world.issue
  THEN [id |-> Analyze, ready |-> FALSE, status |-> "pending"] ELSE None

OfLane(c, p) ==
  LET of(id) == [id |-> id, ready |-> id = MatSynth, status |-> "pending"]
      streak == hist.run.passes >= RotationLimit
  IN IF c.status # "PASS" THEN None
     ELSE IF p.cur = Inspect THEN of(MatPass)
     ELSE IF p.cur \in Materializing THEN of(Sub)
     ELSE IF p.cur = Synth /\ streak THEN of(MatSynth)
     ELSE IF streak THEN of(Inspect) ELSE None

OfDecision(c, p) ==
  IF /\ p.fd # None /\ p.fd.sel \in {Synth, MatSynth}
     /\ OfLane(c, p) # None => OfLane(c, p).id # p.fd.sel
  THEN [id |-> p.fd.sel, ready |-> p.fd.sel = MatSynth, status |-> "active"] ELSE None

AddNew(tasks, x) ==
  IF x = None \/ Has(tasks, x.id) THEN tasks ELSE Append(tasks, Task(x.id, x.status))

\* 2491-2505: carried candidates first, then the plan's open tasks, then new ones.
Candidates(c, p) ==
  LET open(id) == Selectable(p.tasks, id)
      carried == IF c.again THEN {x \in plan.cands : open(x.id)} ELSE {}
      inferred == {[id |-> p.tasks[i].id, ready |-> FALSE] :
                     i \in {j \in DOMAIN p.tasks : p.tasks[j].id \notin Core /\ open(p.tasks[j].id)}}
      generated == {x \in {OfFailure(c), OfLane(c, p), OfDecision(c, p)} : x # None /\ open(x.id)}
      Over(S, T) == S \cup {x \in T : \A y \in S : y.id # x.id}
  IN [p EXCEPT
       !.cands = Over(Over(carried, inferred), {[id |-> x.id, ready |-> x.ready] : x \in generated}),
       !.tasks = AddNew(AddNew(AddNew(@, OfFailure(c)), OfLane(c, p)), OfDecision(c, p))]

Ids(cands) == {x.id : x \in cands}

\* 2506-2537
Followups(p) ==
  LET q == IF p.fd # None /\ p.fd.sel = MatSynth
           THEN [p EXCEPT !.tasks = Activate(@, MatSynth), !.cur = MatSynth] ELSE p
  IN IF q.cur = Inspect /\ (q.fd = None \/ q.fd.sel = None) /\ MatPass \in Ids(q.cands)
     THEN [q EXCEPT !.fd = Decision("promote_review_followup", Inspect, MatPass)] ELSE q

\* _task_readiness_gate
Ready(cands, id) == [id |-> id, ready |-> TRUE] \in cands

\* 2538-2590: a discarded synthesis is materialized, if the candidate is ready.
PromoteSynthesis(c, p) ==
  IF p.cur # Synth \/ c.outcome # "discard" \/ MatSynth \notin Ids(p.cands) THEN p
  ELSE IF Ready(p.cands, MatSynth)
  THEN [p EXCEPT !.tasks = Activate(@, MatSynth), !.cur = MatSynth,
                 !.fd = Decision("materialize_synthesized_improvement", Synth, MatSynth)]
  ELSE [p EXCEPT !.tasks = Update(Activate(@, Synth), LAMBDA t : IF t.id = MatSynth THEN "blocked" ELSE t.status),
                 !.fd = Decision("readiness_blocked", Synth, Synth)]

\* The lane that was materialized is done, and with it the review it came from.
Completed(tasks, lane) ==
  LET parent == IF lane = MatSynth THEN Synth ELSE Inspect
  IN Update(Activate(tasks, Reward), LAMBDA t : IF t.id \in {lane, parent} THEN "done" ELSE t.status)

\* 2591-2768: a written artifact completes its lane and hands it on.
Completion(c, p) ==
  LET lane == IF c.new # None /\ Selectable(p.tasks, c.new.task) THEN c.new.task ELSE p.cur
      done == Completed(p.tasks, lane)
      cands == {x \in p.cands : x.id \notin {Inspect, MatPass, MatSynth}}
      review == lane = MatSynth \/ (Sub \in Ids(cands) /\ ~FailureKnown)
      HandOn(id) == [p EXCEPT !.cands = cands, !.tasks = ActivateOrAdd(done, id), !.cur = id]
      With(mode, id) == [Decision(mode, lane, id) EXCEPT !.path = c.new]
  IN IF c.new = None \/ c.status # "PASS" \/ lane \notin Materializing
     THEN [p EXCEPT !.cur = lane]
     ELSE IF review
     THEN [HandOn(Sub) EXCEPT !.fd = With(IF lane = MatSynth THEN "handoff_to_subagent_verification"
                                          ELSE "handoff_to_next_candidate", Sub)]
     ELSE IF world.issue
     THEN [HandOn(Reward) EXCEPT !.fd = Decision("retire_terminal_selfevo_lane", lane, Reward)]
     ELSE IF FailureKnown /\ ~AlreadyRetired(c)
     THEN [HandOn(Analyze) EXCEPT !.fd = With("complete_active_lane", Analyze)]
     ELSE [HandOn(Reward) EXCEPT !.fd = With("complete_active_lane", Reward)]

\* _subagent_lane_health: any result at all completes the lane.
LaneStale == subs.old /\ ~subs.results

\* 2769-2826: the verification lane must not go on for ever.
RetireLane(c, p) ==
  IF /\ p.cur = Sub
     /\ p.fd = None \/ p.fd.mode # "handoff_to_subagent_verification"
     /\ world.noop \/ LaneStale \/ c.outcome = "discard"
  THEN LET target == IF FailureFresh THEN Analyze ELSE Reward
           closed == Update(p.tasks, LAMBDA t : IF t.id # Sub THEN t.status
                                                ELSE IF LaneStale THEN "blocked" ELSE "done")
       IN [p EXCEPT !.tasks = ActivateOrAdd(closed, target), !.cur = target,
             !.fd = Decision(IF world.noop THEN "retire_terminal_noop_lane"
                             ELSE "retire_stale_subagent_lane", Sub, target)]
  ELSE p

Snapshot(c) ==
  RetireLane(c, Completion(c, PromoteSynthesis(c, Followups(Candidates(c, FailureLearning(c, Selected(c)))))))

-------------------------------------------------------------------------------
(* run_self_evolving_cycle *)

\* The approval gate, then the bounded turn
Status(gate, ok) == IF gate # "fresh" THEN "BLOCK" ELSE IF ok THEN "PASS" ELSE "ERROR"

\* _derive_experiment_current_task_id
PriorTask(status, fd) ==
  IF fd # None /\ fd.sel # None THEN fd.sel
  ELSE CASE status = "BLOCK" -> Refresh [] status = "ERROR" -> Bounded [] OTHER -> Reward

\* _derive_reward_signal: a second bookkeeping pass in a row is worth less.
RawReward(status, prior) ==
  CASE status = "BLOCK" -> 0
    [] status = "ERROR" -> -10
    [] OTHER -> IF prior = Reward /\ exp # None /\ exp.status = "PASS" /\ exp.task = Reward THEN 6 ELSE 10

\* _experiment_metric_summary, against the metric of the last experiment
Outcome(status, reward) ==
  CASE status = "BLOCK" -> "blocked"
    [] status = "ERROR" -> "crash"
    [] OTHER -> IF exp # None /\ reward < exp.metric THEN "discard" ELSE "keep"

\* _build_experiment_snapshot, with the reward of the plan
Experiment(status, p, outcome) ==
  [status |-> status, task |-> p.cur, outcome |-> outcome, metric |-> p.reward]

\* A cycle's artifact has a name of its own; names nobody knows any more are used again.
FreshArtifact(task) ==
  LET known == IF plan = None THEN {}
               ELSE {plan.path} \cup (IF plan.fd = None THEN {} ELSE {plan.fd.path})
  IN [task |-> task, n |-> CHOOSE n \in 1..3 : \A x \in known \ {None} : x.n # n]

\* _write_materialized_improvement_artifact, whatever the cycle's status
NewArtifact(prior) ==
  LET task == IF plan # None /\ (plan.cur = MatSynth \/ (plan.fd # None /\ plan.fd.sel = MatSynth))
              THEN MatSynth ELSE prior
  IN IF task \in Materializing THEN FreshArtifact(task) ELSE None

\* The path of the last plan is carried along by a PASS.
CarriedArtifact(c) ==
  IF c.new # None \/ ~c.again THEN c.new
  ELSE IF plan.path # None THEN plan.path
  ELSE IF plan.fd # None THEN plan.fd.path ELSE None

\* The plan p, as it is written: an artifact raises its reward to 1.2.
NewPlan(c, p) ==
  LET fd == IF p.fd # None THEN p.fd
            ELSE IF c.fd # None THEN c.fd ELSE IF plan # None THEN plan.fd ELSE None
      path == IF CarriedArtifact(c) # None \/ p.fd # None \/ fd = None
              THEN CarriedArtifact(c) ELSE fd.path
  IN [tasks |-> p.tasks, cur |-> p.cur, fd |-> fd, cands |-> p.cands, path |-> path,
      reward |-> IF path # None /\ c.raw < 12 THEN 12 ELSE c.raw, status |-> c.status]

\* Writing the request of the verification lane, and materializing the oldest one.
Requested(p) == IF p.cur = Sub THEN [subs EXCEPT !.open = @ + 1] ELSE subs
Materialized(s) ==
  IF s.open = 0 THEN s ELSE [open |-> s.open - 1, old |-> FALSE, results |-> TRUE]

\* The files of a cycle, in the order in which they are written.
Files == <<"request", "result", "plan", "experiment", "history">>

\* What the cycle knows before it builds its plan
Known(gate, ok, fd) ==
  LET status == Status(gate, ok)
      prior == PriorTask(status, fd)
      raw == RawReward(status, prior)
  IN [status |-> status, fd |-> fd, raw |-> raw, new |-> NewArtifact(prior),
      outcome |-> Outcome(status, raw), again |-> status = "PASS" /\ plan # None]

Entry(gate, c, p) ==
  [status |-> c.status, task |-> p.cur, goal |-> ActiveGoal, gate |-> IF c.status = "BLOCK" THEN gate ELSE None]

Cycle(gate, ok, written) ==
  \E c \in {Known(gate, ok, Feedback)} : \E p \in {NewPlan(c, Snapshot(c))} :
    LET alone == c.outcome = "discard" /\ Requested(p).open = 0
        Done(file) == \E i \in 1..written : Files[i] = file
    IN /\ goal' = ActiveGoal
       /\ subs' = IF Done("result") THEN Materialized(Requested(p))
                  ELSE IF Done("request") THEN Requested(p) ELSE subs
       /\ plan' = IF Done("plan") THEN p ELSE plan
       /\ exp' = IF Done("experiment") THEN Experiment(c.status, p, c.outcome) ELSE exp
       /\ hist' = IF Done("history") THEN Recorded(hist, Entry(gate, c, p), alone) ELSE hist
       /\ UNCHANGED world

CompleteCycle(gate, ok) ==
  /\ Cycle(gate, ok, Len(Files)) /\ UNCHANGED upsets
  /\ idle' = IF plan'.status # "PASS" \/ plan'.cur = Sub THEN 0
             ELSE IF idle > IdleLimit THEN idle ELSE idle + 1

DyingCycle(gate, ok) ==
  /\ upsets < MaxUpsets /\ upsets' = upsets + 1 /\ idle' = 0
  /\ \E written \in 0..Len(Files) - 1 : Cycle(gate, ok, written)

-------------------------------------------------------------------------------
(* What goes on beside the cycles *)

\* A candidate was rolled back, an hour has passed since, its issue was closed or a
\* new one opened, a no-op was recorded or superseded (runtime/autoevolve.py).
World ==
  /\ upsets < MaxUpsets /\ upsets' = upsets + 1 /\ idle' = 0
  /\ \/ world.failure # "fresh" /\ world' = [world EXCEPT !.failure = "fresh"]
     \/ world.failure = "fresh" /\ world' = [world EXCEPT !.failure = "stale"]
     \/ world' = [world EXCEPT !.issue = ~@]
     \/ world' = [world EXCEPT !.noop = ~@]
  /\ UNCHANGED <<plan, hist, exp, goal, subs>>

\* A request without a result is an hour old.
RequestAges ==
  /\ subs.open > 0 /\ ~subs.results /\ ~subs.old /\ subs' = [subs EXCEPT !.old = TRUE]
  /\ idle' = 0
  /\ UNCHANGED <<plan, hist, exp, goal, world, upsets>>

Init ==
  /\ plan = None /\ hist = NoHistory /\ exp = None /\ goal \in Goals
  /\ subs = [open |-> 0, old |-> FALSE, results |-> FALSE]
  /\ world \in [failure : {"none", "fresh", "stale"}, issue : BOOLEAN, noop : BOOLEAN]
  /\ upsets = 0 /\ idle = 0

Next ==
  \/ \E gate \in Gates, ok \in BOOLEAN : CompleteCycle(gate, ok) \/ DyingCycle(gate, ok)
  \/ World \/ RequestAges

Spec == Init /\ [][Next]_vars

-------------------------------------------------------------------------------
(* Properties *)

\* Every variable keeps its type; a plan names no task twice, and candidates are tasks.
TypeOK ==
  /\ plan # None =>
       /\ plan.cur \in TaskIds /\ Len(plan.tasks) >= 2
       /\ \A i \in DOMAIN plan.tasks : plan.tasks[i].id \in TaskIds
            /\ plan.tasks[i].status \in {"pending", "active", "done", "blocked"}
       /\ \A i, j \in DOMAIN plan.tasks : plan.tasks[i].id = plan.tasks[j].id => i = j
       /\ \A x, y \in plan.cands : x.id = y.id => x = y
       /\ \A x \in plan.cands : Has(plan.tasks, x.id)
       /\ plan.fd # None => plan.fd.sel \in TaskIds
  /\ \A r \in DOMAIN Runs : hist.run[r] \in 0..Runs[r]
  /\ goal \in Goals /\ subs.open <= upsets

\* The steps of the planner each move the active mark; after a passing cycle exactly
\* one task carries it, and it is the task the plan says is the current one.
OneActive ==
  plan # None /\ plan.status = "PASS" =>
    /\ Has(plan.tasks, plan.cur)
    /\ \A i \in DOMAIN plan.tasks : plan.tasks[i].status = "active" <=> plan.tasks[i].id = plan.cur

\* While the issue of the failed candidate is closed, and its failure is not fresh, no
\* cycle goes back to analysing it (three places in the planner could).
StaysRetired ==
  [][plan' # plan /\ plan'.status = "PASS" /\ world.issue /\ world.failure # "fresh"
       => plan'.cur # Analyze]_vars

\* Left alone, passing cycles come back to verifying a materialized improvement, from
\* any plan whatever, unless a blocked or failed cycle left core tasks open, between
\* which the planner then rotates, or a failure stays fresh.
KeepsVerifying ==
  idle > IdleLimit =>
    \/ world.failure = "fresh"
    \/ \E id \in Core \ {Reward} : Has(plan.tasks, id) /\ Selectable(plan.tasks, id)
===============================================================================

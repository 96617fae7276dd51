------------------------------ MODULE Reminders -------------------------------
(***************************************************************************)
(* What the scheduler promises for one-time jobs, without timers, files or *)
(* processes (skills/cron/SKILL.md: "runs once at a specific time, then    *)
(* auto-deletes").  A reminder is delivered by turns of the agent: none    *)
(* before its time, none after a turn has ended or the reminder was        *)
(* removed.  A turn can be cut off after it has delivered; then, and only  *)
(* then, another turn may deliver once more.                               *)
(***************************************************************************)
EXTENDS Naturals

CONSTANTS Ids, MaxTime

VARIABLES
  now,
  status,   \* id -> "unknown", "scheduled", "telling": a turn has delivered it and goes on,
            \*       "cut": only a turn that was cut off has, "done" or "removed"
  time      \* id -> the time it was asked for

vars == <<now, status, time>>

Open == {"scheduled", "telling", "cut"}

Init ==
  /\ now = 1
  /\ status = [j \in Ids |-> "unknown"]
  /\ time = [j \in Ids |-> 0]

\* A step in the life of one reminder.
Schedule(j) ==
  status[j] = "unknown" /\ status'[j] = "scheduled" /\ time'[j] \in 1..MaxTime

Deliver(j) ==
  status[j] \in {"scheduled", "cut"} /\ time[j] <= now /\ status'[j] = "telling"

\* The turn is cut off after it delivered, at the last moment or before.
CutOff(j) ==
  status[j] \in {"scheduled", "telling"} /\ time[j] <= now /\ status'[j] = "cut"

\* The turn ends; it may deliver at its end if it was silent.
End(j) ==
  status[j] \in Open /\ time[j] <= now /\ status'[j] = "done"

\* The turn that removes its own reminder may deliver it in this step.
Remove(j) ==
  status[j] \in Open /\ status'[j] = "removed"

Rest(j) == status'[j] = status[j]

\* One event may cut a turn off and touch another reminder.
Next ==
  /\ now' \in {now, now + 1}
  /\ status' = [j \in Ids |-> status'[j]] /\ time' = [j \in Ids |-> time'[j]]
  /\ \A j \in Ids :
       \/ Schedule(j)
       \/ time'[j] = time[j] /\ (Deliver(j) \/ CutOff(j) \/ End(j) \/ Remove(j) \/ Rest(j))

Spec == Init /\ [][Next]_vars
===============================================================================

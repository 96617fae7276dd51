--------------------------- MODULE GuardedEvolution ---------------------------
(***************************************************************************)
(* Guarded self-evolution (scripts/guarded_self_evolve.py on top of        *)
(* runtime/autoevolve.py): a timer starts a run that commits and pushes    *)
(* the changed working tree, makes a candidate release of the commit,      *)
(* points the link "current" at it, waits, looks for a recent report of    *)
(* the local cycle (scripts/run_local_cycle.sh, which runs from "current"), *)
(* rolls back when there is none, and exports the tree to a public         *)
(* repository (scripts/export_selfevo_repo.py), whose pull request it      *)
(* merges after a passed gate.                                             *)
(*                                                                         *)
(* A version is the content of the tracked files; 0 is the first, and      *)
(* every edit makes the next one.  A release is named by its version and   *)
(* holds tracked files only (git archive); the working tree, and with it   *)
(* what is exported, may hold untracked files too.  The unit of time is    *)
(* the period of the local cycle.                                          *)
(***************************************************************************)
EXTENDS Naturals

CONSTANTS
  MaxEdits,   \* bound: how often the working tree is changed
  Broken,     \* versions whose cycle ends without a report
  Wait,       \* NANOBOT_AUTOEVO_WAIT_SECONDS
  MaxAge,     \* NANOBOT_AUTOEVO_MAX_REPORT_AGE_SECONDS
  None

Versions == 0..MaxEdits

ASSUME EvolutionAssumption ==
  /\ MaxEdits \in Nat /\ Broken \subseteq Versions
  /\ Wait \in Nat /\ MaxAge \in Nat /\ None \notin Versions

VARIABLES
  tree, head, origin, \* working tree, HEAD, and the source remote's branch
  loose,              \* there are untracked files in the working tree
  current,            \* the release the link points at, None without a link
  age,                \* of the newest report; MaxAge + 1: too old, or none
  cycle,              \* the version a running local cycle executes
  pc, cand, prev, waited, healthy, \* of guarded_self_evolve.py
  branch, pr, main,   \* the public repository: branch of the lane, its pull request
  found,     \* observer: current when the run began
  tried,     \* observer: versions that were applied
  seen,      \* observer: versions the remote branch has had
  exported,  \* observer: what the last export copied
  edited,    \* observer: the tree was edited since the candidate was made
  cut,       \* observer: this run ended during the trial of its candidate
  halved     \* observer: a run ended between unlink and symlink

repo == <<tree, loose, head, origin>>
public == <<branch, pr, main>>
run == <<cand, prev, waited, healthy>>
reports == <<age, cycle>>
observers == <<found, tried, seen, exported, edited, cut, halved>>
vars == <<repo, current, reports, pc, run, public, observers>>

Steps == {"commit", "push", "candidate", "apply", "link", "wait", "rollback", "relink",
          "export", "pr", "merge"}

\* The candidate is on trial: from removing the link to the verdict's consequence.
Trial == {"link", "wait", "rollback", "relink"}

\* What a repository's tree holds: a version of the tracked files, and whether untracked
\* files lie beside them.
Contents == [files : Versions, loose : BOOLEAN]
Archived(v) == [files |-> v, loose |-> FALSE]

TypeOK ==
  /\ {tree, head, origin, cand} \subseteq Versions /\ {branch, main, exported} \subseteq Contents
  /\ {current, prev, cycle, found} \subseteq Versions \cup {None}
  /\ age \in 0..(MaxAge + 1) /\ waited \in 0..Wait
  /\ pc \in Steps \cup {"idle"}
  /\ healthy \in {"unknown", "yes", "no"} /\ {loose, pr, edited, cut, halved} \subseteq BOOLEAN
  /\ {tried, seen} \subseteq SUBSET Versions
  /\ pc \in {"rollback", "relink"} => prev # None

Init ==
  /\ tree = 0 /\ loose = FALSE /\ head = 0 /\ origin = 0
  /\ current = None
  /\ age = MaxAge + 1 /\ cycle = None
  /\ pc = "idle" /\ cand = 0 /\ prev = None /\ waited = 0 /\ healthy = "unknown"
  /\ branch = Archived(0) /\ pr = FALSE /\ main = Archived(0)
  /\ found = None /\ tried = {} /\ seen = {0}  /\ exported = Archived(0)
  /\ edited = FALSE /\ cut = FALSE /\ halved = FALSE

-------------------------------------------------------------------------------
(* Commit, push, candidate *)

\* The timer starts the script; issue and request are prepared.
Begin ==
  /\ pc = "idle"
  /\ pc' = "commit"
  /\ cand' = 0 /\ prev' = None /\ waited' = 0 /\ healthy' = "unknown"
  /\ found' = current /\ cut' = FALSE
  /\ UNCHANGED <<repo, current, reports, public, tried, seen, exported, edited, halved>>

\* Mutation of Commit: nothing is staged, so git refuses to commit.
CommitUnstaged ==
  /\ pc = "commit"
  /\ pc' = IF tree = head THEN "candidate" ELSE "idle"
  /\ UNCHANGED <<repo, current, reports, run, public, observers>>

\* commit_and_push_self_evolution: without tracked changes it neither commits nor pushes.
Commit ==
  /\ pc = "commit"
  /\ head' = tree
  /\ pc' = IF tree = head THEN "candidate" ELSE "push"
  /\ UNCHANGED <<tree, loose, origin, current, reports, run, public, observers>>

Push ==
  /\ pc = "push"
  /\ origin' = head
  /\ seen' = seen \cup {head}
  /\ pc' = "candidate"
  /\ UNCHANGED <<tree, loose, head, current, reports, run, public,
                 found, tried, exported, edited, cut, halved>>

\* create_candidate_release, and the controlled block of a dirty or unpublished candidate.
CreateCandidate ==
  /\ pc = "candidate"
  /\ cand' = head
  /\ pc' = IF tree = head /\ origin = head THEN "apply" ELSE "idle"
  /\ edited' = FALSE
  /\ UNCHANGED <<repo, current, reports, prev, waited, healthy, public,
                 found, tried, seen, exported, cut, halved>>

-------------------------------------------------------------------------------
(* apply_candidate_release, health_check_release, rollback_release *)

\* The archive is unpacked before the link is touched; an exception ends the run.
ExtractFails ==
  /\ pc = "apply"
  /\ pc' = "idle"
  /\ UNCHANGED <<repo, current, reports, run, public, observers>>

\* Mutation of Unlink: the previous release is looked up when the link is gone.
UnlinkFirst ==
  /\ pc = "apply"
  /\ prev' = None
  /\ current' = None
  /\ pc' = "link"
  /\ UNCHANGED <<repo, reports, cand, waited, healthy, public, observers>>

\* The archive is unpacked: remember the previous release and remove the link ...
Unlink ==
  /\ pc = "apply"
  /\ prev' = current
  /\ current' = None
  /\ pc' = "link"
  /\ UNCHANGED <<repo, reports, cand, waited, healthy, public, observers>>

\* ... and make the new one; then sleep.
Link ==
  /\ pc = "link"
  /\ current' = cand
  /\ tried' = tried \cup {cand}
  /\ halved' = FALSE
  /\ pc' = "wait"
  /\ UNCHANGED <<repo, reports, run, public, found, seen, exported, edited, cut>>

\* Mutation of Gate: a rollback is tried without a previous release.
GateRollsBack ==
  LET ok == age <= MaxAge IN
  /\ pc = "wait" /\ waited = Wait
  /\ healthy' = IF ok THEN "yes" ELSE "no"
  /\ pc' = IF ok THEN "export" ELSE "rollback"
  /\ UNCHANGED <<repo, current, reports, cand, prev, waited, public, observers>>

\* health_check_release: is there a report that is young enough?
Gate ==
  LET ok == age <= MaxAge IN
  /\ pc = "wait" /\ waited = Wait
  /\ healthy' = IF ok THEN "yes" ELSE "no"
  /\ pc' = IF ok \/ prev = None THEN "export" ELSE "rollback"
  /\ UNCHANGED <<repo, current, reports, cand, prev, waited, public, observers>>

RollbackUnlink ==
  /\ pc = "rollback"
  /\ current' = None
  /\ pc' = "relink"
  /\ UNCHANGED <<repo, reports, run, public, observers>>

RollbackLink ==
  /\ pc = "relink"
  /\ current' = prev
  /\ halved' = FALSE
  /\ pc' = "export"
  /\ UNCHANGED <<repo, reports, run, public, found, tried, seen, exported, edited, cut>>

\* The script gets a signal in its sleep or the gate raises an exception: the candidate stays
\* current, without a verdict or with a bad one.
TrialFails ==
  /\ pc \in {"wait", "rollback"}
  /\ pc' = "idle"
  /\ cut' = TRUE
  /\ UNCHANGED <<repo, current, reports, run, public,
                 found, tried, seen, exported, edited, halved>>

\* os.symlink raises an OSError when the old link is already removed.
LinkFails ==
  /\ pc \in {"link", "relink"}
  /\ pc' = "idle"
  /\ cut' = TRUE /\ halved' = TRUE
  /\ UNCHANGED <<repo, current, reports, run, public, found, tried, seen, exported, edited>>

-------------------------------------------------------------------------------
(* Export and merge *)

\* Mutation of Export: the branch of an open pull request is not pushed again.
ExportOnce ==
  LET all == [files |-> tree, loose |-> loose] IN
  /\ pc = "export"
  /\ IF all = main
       THEN pc' = "idle" /\ UNCHANGED <<branch, exported>>
       ELSE /\ branch' = IF pr THEN branch ELSE all
            /\ exported' = all
            /\ pc' = "pr"
  /\ UNCHANGED <<repo, current, reports, run, pr, main,
                 found, tried, seen, edited, cut, halved>>

\* export_selfevo_repo copies the working tree of this moment, the untracked files too, over
\* the public main and pushes the lane's branch, unless nothing differs.
Export ==
  LET all == [files |-> tree, loose |-> loose] IN
  /\ pc = "export"
  /\ IF all = main
       THEN pc' = "idle" /\ UNCHANGED <<branch, exported>>
       ELSE /\ branch' = all
            /\ exported' = all
            /\ pc' = "pr"
  /\ UNCHANGED <<repo, current, reports, run, pr, main,
                 found, tried, seen, edited, cut, halved>>

\* ensure_selfevo_pr: an open pull request of the branch is taken, or one is created.
EnsurePr ==
  /\ pc = "pr"
  /\ pr' = TRUE
  /\ pc' = "merge"
  /\ UNCHANGED <<repo, current, reports, run, branch, main, observers>>

\* The pull request is merged if the gate was passed; the script ends.
Merge ==
  /\ pc = "merge"
  /\ IF healthy = "yes" THEN main' = branch /\ pr' = FALSE ELSE UNCHANGED <<main, pr>>
  /\ pc' = "idle"
  /\ UNCHANGED <<repo, current, reports, run, branch, observers>>

\* A git command, the export, or a call of GitHub's CLI fails: the script ends.
RemoteFails ==
  /\ pc \in {"commit", "push", "candidate", "export", "pr", "merge"}
  /\ pc' = "idle"
  /\ UNCHANGED <<repo, current, reports, run, public, observers>>

-------------------------------------------------------------------------------
(* The world *)

\* The local cycle starts from the current release, or from the working tree.
StartCycle ==
  /\ cycle = None
  /\ cycle' = IF current = None THEN tree ELSE current
  /\ UNCHANGED <<repo, current, age, pc, run, public, observers>>

EndCycle ==
  /\ cycle # None
  /\ age' = IF cycle \in Broken THEN age ELSE 0
  /\ cycle' = None
  /\ UNCHANGED <<repo, current, pc, run, public, observers>>

Tick ==
  /\ age' = IF age > MaxAge THEN age ELSE age + 1
  /\ waited' = IF pc = "wait" /\ waited < Wait THEN waited + 1 ELSE waited
  /\ UNCHANGED <<repo, current, cycle, pc, cand, prev, healthy, public, observers>>

\* An agent turn, a subagent or the owner changes the source.
Edit ==
  /\ tree < MaxEdits
  /\ tree' = tree + 1
  /\ edited' = TRUE
  /\ UNCHANGED <<loose, head, origin, current, reports, pc, run, public,
                 found, tried, seen, exported, cut, halved>>

\* A file that nobody adds to git appears in the working tree.
Litter ==
  /\ ~loose /\ loose' = TRUE
  /\ UNCHANGED <<tree, head, origin, current, reports, pc, run, public, observers>>

\* The host goes down in the middle of a run.
Crash ==
  /\ pc # "idle"
  /\ pc' = "idle" /\ cycle' = None
  /\ cut' = (pc \in Trial)
  /\ halved' = (halved \/ pc \in {"link", "relink"})
  /\ UNCHANGED <<repo, current, age, run, public, found, tried, seen, exported, edited>>

Next ==
  \/ Begin \/ Commit \/ Push \/ CreateCandidate
  \/ ExtractFails \/ Unlink \/ Link \/ Gate \/ RollbackUnlink \/ RollbackLink
  \/ TrialFails \/ LinkFails
  \/ Export \/ EnsurePr \/ Merge \/ RemoteFails
  \/ StartCycle \/ EndCycle \/ Tick \/ Edit \/ Litter \/ Crash

Spec == Init /\ [][Next]_vars

\* systemd starts the timers again and again and sleep ends; git, the archive and symlink do
\* not fail for ever.
FairSpec ==
  /\ Spec
  /\ WF_vars(Begin) /\ WF_vars(Gate)
  /\ WF_vars(RollbackUnlink) /\ WF_vars(RollbackLink) /\ WF_vars(Export)
  /\ WF_vars(EnsurePr) /\ WF_vars(Merge)
  /\ WF_vars(pc = "wait" /\ Tick)
  /\ SF_vars(Commit) /\ SF_vars(Push) /\ SF_vars(CreateCandidate)
  /\ SF_vars(Unlink) /\ SF_vars(Link)

-------------------------------------------------------------------------------
(* Properties *)

\* A release that runs was on the remote before it was applied, over failed pushes and
\* runs that died between commit and push.
OnlyPublished == current # None => current \in seen

\* What a run leaves current once its trial is over, or before it: what it found, unless the
\* gate was passed, or it failed and there is no release to go back to.
Kept ==
  IF healthy = "yes" \/ (healthy = "no" /\ found = None) THEN cand ELSE found

\* Outside a trial the host runs what the verdict demands, even when the run goes wrong at
\* another step.  Excepted: a run that is cut off in its trial leaves its candidate, without
\* a passed gate, or no release at all; that is what the next run finds and goes back to.
Restored ==
  pc \notin Trial =>
    IF cut
      THEN healthy # "yes" /\ (current = cand \/ (current = None /\ halved))
      ELSE current = Kept

\* A host that had a release is without one only while the link is changed, or after a run
\* that ended there (a kill, or an OSError of symlink), until the next candidate is applied.
AlwaysInstalled ==
  tried # {} /\ current = None => pc \in {"link", "relink"} \/ halved

\* A run leaves the release it found unless its candidate passed the gate; excepted are
\* runs cut off in the trial, and the failed candidate of a host that had no release.
HostRecovers == Restored /\ AlwaysInstalled

\* What a merge brings to the public main is what this run exported after its own gate was
\* passed, although failed candidates leave their export on the same branch and an open pull
\* request; its tracked files are the candidate's, unless the tree was edited since.  Its
\* untracked files are in no candidate: no gate sees them.
MergeVetted ==
  main' # main =>
    /\ healthy = "yes" /\ main' = exported
    /\ main'.files = cand \/ edited

\* What runs was published; the tracked files that are merged passed the gate, unless edited.
OnlyVetted == []OnlyPublished /\ [][MergeVetted]_vars

\* Every version that stays is tried, unless its commit was never pushed: after a
\* failed push or a crash the next run sees no tracked change and does not push.
GetsTried == []<>(tree \in tried \/ head # origin)

\* README.md:124: the guarded path "runs an automatic health gate": a candidate whose
\* cycles all end without a report does not pass it.
BrokenNeverPasses == healthy = "yes" => cand \notin Broken
===============================================================================

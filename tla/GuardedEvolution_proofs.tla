------------------------ MODULE GuardedEvolution_proofs ------------------------
(***************************************************************************)
(* The safety properties of GuardedEvolution for any number of edits,      *)
(* failing steps and kills, any set of broken versions, and any waiting    *)
(* time and age.                                                           *)
(*                                                                         *)
(* None of them is inductive: each speaks of the end of a run and needs    *)
(* what the run knew at its earlier steps.  Inv says, by the step of the   *)
(* script, where the previous release, the candidate, the verdict of the   *)
(* gate and what was exported stand.                                       *)
(***************************************************************************)
EXTENDS GuardedEvolution, TLAPS

\* Before the gate no verdict is known, and after it there is one; what "current" was when
\* the run began is held first by the link and then by prev.
RunInv ==
  /\ pc \in {"commit", "push", "candidate", "apply", "link", "wait"} => healthy = "unknown"
  /\ pc \in {"rollback", "relink"} => healthy = "no"
  /\ pc \in Trial \cup {"export", "pr", "merge"} => prev = found
  /\ pc \in {"wait", "rollback"} => current = cand
  /\ pc \in {"link", "relink"} => current = None
  /\ pc # "idle" => ~cut

\* Everything that is, was, or is about to be current was on the remote branch.
PublishedInv ==
  /\ origin \in seen
  /\ pc \in {"apply", "link"} => cand \in seen
  /\ prev # None => prev \in seen

\* A tree that was not edited since is still the candidate's, and a branch that is about to
\* be merged is this run's export of it.
ExportInv ==
  /\ pc \in {"apply", "export"} \cup Trial => tree = cand \/ edited
  /\ pc \in {"pr", "merge"} => branch = exported /\ (exported.files = cand \/ edited)

Inv == TypeOK /\ RunInv /\ PublishedInv /\ ExportInv
       /\ OnlyPublished /\ Restored /\ AlwaysInstalled

-------------------------------------------------------------------------------

\* The invariant holds before the first run of the script.
LEMMA InitInv == Init => Inv
<1> SUFFICES ASSUME Init PROVE Inv
    OBVIOUS
<1>1. TypeOK
  <2> USE EvolutionAssumption DEF Init
  <2>1. 0 \in Versions
        BY DEF Versions
  <2>2. /\ {tree, head, origin, cand} \subseteq Versions
        /\ {current, prev, cycle, found} \subseteq Versions \cup {None}
        BY <2>1
  <2>3. /\ age \in 0..(MaxAge + 1) /\ waited \in 0..Wait
        OBVIOUS
  <2>4. {branch, main, exported} \subseteq Contents
        BY <2>1 DEF Archived, Contents
  <2>5. /\ {tried, seen} \subseteq SUBSET Versions
        /\ healthy \in {"unknown", "yes", "no"} /\ {loose, pr, edited, cut, halved} \subseteq BOOLEAN
        BY <2>1
  <2> QED
      BY <2>2, <2>3, <2>4, <2>5 DEF TypeOK
<1>2. RunInv /\ PublishedInv /\ ExportInv
      BY DEF Init, RunInv, PublishedInv, ExportInv, Trial
<1>3. OnlyPublished /\ Restored /\ AlwaysInstalled
      BY DEF Init, OnlyPublished, Restored, Kept, AlwaysInstalled
<1> QED
    BY <1>1, <1>2, <1>3 DEF Inv

\* Every step of the script and of its environment keeps the types.
LEMMA StepType == Inv /\ [Next]_vars => TypeOK'
<1> SUFFICES ASSUME Inv, [Next]_vars PROVE TypeOK'
    OBVIOUS
<1> USE EvolutionAssumption DEF Inv, TypeOK, Versions, Steps
<1>1. CASE Begin
  <2>1. cand' \in Versions /\ found' \in Versions \cup {None} /\ prev' = None
        BY <1>1 DEF Begin
  <2>2. pc' = "commit" /\ healthy' = "unknown" /\ waited' = 0 /\ cut' = FALSE
        BY <1>1 DEF Begin
  <2>3. UNCHANGED <<repo, current, reports, public, tried, seen, exported, edited, halved>>
        BY <1>1 DEF Begin
  <2>4. {tree, head, origin, cand}' \subseteq Versions /\ {branch, main, exported}' \subseteq Contents
        BY <2>1, <2>3 DEF repo, public
  <2>5. {current, prev, cycle, found}' \subseteq Versions \cup {None}
        BY <2>1, <2>3 DEF reports
  <2>6. /\ (age \in 0..(MaxAge + 1) /\ waited \in 0..Wait /\ pc \in Steps \cup {"idle"})'
        /\ (pc \in {"rollback", "relink"} => prev # None)'
        BY <2>1, <2>2, <2>3 DEF reports
  <2>7. (healthy \in {"unknown", "yes", "no"} /\ {loose, pr, edited, cut, halved} \subseteq BOOLEAN)'
        BY <2>2, <2>3 DEF repo, public
  <2>8. ({tried, seen} \subseteq SUBSET Versions)'
        BY <2>3
  <2> QED
      BY <2>4, <2>5, <2>6, <2>7, <2>8
<1>2. CASE Commit
      BY <1>2 DEF Commit, repo, public, reports, run, observers
<1>3. CASE Push
      BY <1>3 DEF Push, repo, public, reports, run
<1>4. CASE CreateCandidate
      BY <1>4 DEF CreateCandidate, repo, public, reports, run
<1>5. CASE ExtractFails
      BY <1>5 DEF ExtractFails, repo, public, reports, run, observers
<1>6. CASE Unlink
      BY <1>6 DEF Unlink, repo, public, reports, observers
<1>7. CASE Link
      BY <1>7 DEF Link, repo, public, reports, run
<1>8. CASE Gate
      BY <1>8 DEF Gate, repo, public, reports, observers
<1>9. CASE RollbackUnlink
      BY <1>9 DEF RollbackUnlink, repo, public, reports, run, observers
<1>10. CASE RollbackLink
      BY <1>10 DEF RollbackLink, repo, public, reports, run
<1>11. CASE TrialFails
      BY <1>11 DEF TrialFails, repo, public, reports, run
<1>12. CASE LinkFails
      BY <1>12 DEF LinkFails, repo, public, reports, run
<1>13. CASE Export
  <2>1. [files |-> tree, loose |-> loose] \in Contents
        BY DEF Contents
  <2> QED
      BY <1>13, <2>1 DEF Export, repo, reports, run
<1>14. CASE EnsurePr
      BY <1>14 DEF EnsurePr, repo, reports, run, observers
<1>15. CASE Merge
      BY <1>15 DEF Merge, repo, reports, run, observers
<1>16. CASE RemoteFails
      BY <1>16 DEF RemoteFails, repo, public, reports, run, observers
<1>17. CASE StartCycle
      BY <1>17 DEF StartCycle, repo, public, run, observers
<1>18. CASE EndCycle
      BY <1>18 DEF EndCycle, repo, public, run, observers
<1>19. CASE Tick
      BY <1>19 DEF Tick, repo, public, observers
<1>20. CASE Edit
      BY <1>20 DEF Edit, public, reports, run
<1>21. CASE Litter
      BY <1>21 DEF Litter, public, reports, run, observers
<1>22. CASE Crash
      BY <1>22 DEF Crash, repo, public, run
<1>23. CASE UNCHANGED vars
      BY <1>23 DEF vars, repo, public, reports, run, observers
<1> QED
    BY <1>1, <1>2, <1>3, <1>4, <1>5, <1>6, <1>7, <1>8, <1>9, <1>10, <1>11,
       <1>12, <1>13, <1>14, <1>15, <1>16, <1>17, <1>18, <1>19, <1>20, <1>21, <1>22, <1>23 DEF Next

\* Every step keeps what the run knows and what it leaves current.
LEMMA StepRun == Inv /\ [Next]_vars => (RunInv /\ Restored)'
<1> SUFFICES ASSUME Inv, [Next]_vars PROVE (RunInv /\ Restored)'
    OBVIOUS
<1> USE EvolutionAssumption DEF Inv, TypeOK, RunInv, Restored, Kept, Trial, Steps
<1>1. CASE Begin
      BY <1>1 DEF Begin, repo, public, reports, run
<1>2. CASE Commit
      BY <1>2 DEF Commit, repo, public, reports, run, observers
<1>3. CASE Push
      BY <1>3 DEF Push, repo, public, reports, run
<1>4. CASE CreateCandidate
      BY <1>4 DEF CreateCandidate, repo, public, reports, run
<1>5. CASE ExtractFails
      BY <1>5 DEF ExtractFails, repo, public, reports, run, observers
<1>6. CASE Unlink
      BY <1>6 DEF Unlink, repo, public, reports, observers
<1>7. CASE Link
      BY <1>7 DEF Link, repo, public, reports, run
<1>8. CASE Gate
      BY <1>8 DEF Gate, repo, public, reports, observers
<1>9. CASE RollbackUnlink
      BY <1>9 DEF RollbackUnlink, repo, public, reports, run, observers
<1>10. CASE RollbackLink
      BY <1>10 DEF RollbackLink, repo, public, reports, run
<1>11. CASE TrialFails
      BY <1>11 DEF TrialFails, repo, public, reports, run
<1>12. CASE LinkFails
      BY <1>12 DEF LinkFails, repo, public, reports, run
<1>13. CASE Export
      BY <1>13 DEF Export, repo, reports, run
<1>14. CASE EnsurePr
      BY <1>14 DEF EnsurePr, repo, reports, run, observers
<1>15. CASE Merge
      BY <1>15 DEF Merge, repo, reports, run, observers
<1>16. CASE RemoteFails
      BY <1>16 DEF RemoteFails, repo, public, reports, run, observers
<1>17. CASE StartCycle
      BY <1>17 DEF StartCycle, repo, public, run, observers
<1>18. CASE EndCycle
      BY <1>18 DEF EndCycle, repo, public, run, observers
<1>19. CASE Tick
      BY <1>19 DEF Tick, repo, public, observers
<1>20. CASE Edit
      BY <1>20 DEF Edit, public, reports, run
<1>21. CASE Litter
      BY <1>21 DEF Litter, public, reports, run, observers
<1>22. CASE Crash
      BY <1>22 DEF Crash, repo, public, run
<1>23. CASE UNCHANGED vars
      BY <1>23 DEF vars, repo, public, reports, run, observers
<1> QED
    BY <1>1, <1>2, <1>3, <1>4, <1>5, <1>6, <1>7, <1>8, <1>9, <1>10, <1>11,
       <1>12, <1>13, <1>14, <1>15, <1>16, <1>17, <1>18, <1>19, <1>20, <1>21, <1>22, <1>23 DEF Next

\* Every step keeps that nothing unpublished comes to run and that a release is installed.
LEMMA StepPublished == Inv /\ [Next]_vars => (PublishedInv /\ OnlyPublished /\ AlwaysInstalled)'
<1> SUFFICES ASSUME Inv, [Next]_vars PROVE (PublishedInv /\ OnlyPublished /\ AlwaysInstalled)'
    OBVIOUS
<1> USE EvolutionAssumption DEF Inv, TypeOK, PublishedInv, OnlyPublished, AlwaysInstalled, Steps
<1>1. CASE Begin
      BY <1>1 DEF Begin, repo, public, reports, run
<1>2. CASE Commit
      BY <1>2 DEF Commit, repo, public, reports, run, observers
<1>3. CASE Push
      BY <1>3 DEF Push, repo, public, reports, run
<1>4. CASE CreateCandidate
      BY <1>4 DEF CreateCandidate, repo, public, reports, run
<1>5. CASE ExtractFails
      BY <1>5 DEF ExtractFails, repo, public, reports, run, observers
<1>6. CASE Unlink
      BY <1>6 DEF Unlink, repo, public, reports, observers
<1>7. CASE Link
      BY <1>7 DEF Link, repo, public, reports, run
<1>8. CASE Gate
      BY <1>8 DEF Gate, repo, public, reports, observers
<1>9. CASE RollbackUnlink
      BY <1>9 DEF RollbackUnlink, repo, public, reports, run, observers
<1>10. CASE RollbackLink
      BY <1>10 DEF RollbackLink, repo, public, reports, run
<1>11. CASE TrialFails
      BY <1>11 DEF TrialFails, repo, public, reports, run
<1>12. CASE LinkFails
      BY <1>12 DEF LinkFails, repo, public, reports, run
<1>13. CASE Export
      BY <1>13 DEF Export, repo, reports, run
<1>14. CASE EnsurePr
      BY <1>14 DEF EnsurePr, repo, reports, run, observers
<1>15. CASE Merge
      BY <1>15 DEF Merge, repo, reports, run, observers
<1>16. CASE RemoteFails
      BY <1>16 DEF RemoteFails, repo, public, reports, run, observers
<1>17. CASE StartCycle
      BY <1>17 DEF StartCycle, repo, public, run, observers
<1>18. CASE EndCycle
      BY <1>18 DEF EndCycle, repo, public, run, observers
<1>19. CASE Tick
      BY <1>19 DEF Tick, repo, public, observers
<1>20. CASE Edit
      BY <1>20 DEF Edit, public, reports, run
<1>21. CASE Litter
      BY <1>21 DEF Litter, public, reports, run, observers
<1>22. CASE Crash
      BY <1>22 DEF Crash, repo, public, run
<1>23. CASE UNCHANGED vars
      BY <1>23 DEF vars, repo, public, reports, run, observers
<1> QED
    BY <1>1, <1>2, <1>3, <1>4, <1>5, <1>6, <1>7, <1>8, <1>9, <1>10, <1>11,
       <1>12, <1>13, <1>14, <1>15, <1>16, <1>17, <1>18, <1>19, <1>20, <1>21, <1>22, <1>23 DEF Next

\* Every step keeps what the candidate, the tree and the export have in common.
LEMMA StepExport == Inv /\ [Next]_vars => ExportInv'
<1> SUFFICES ASSUME Inv, [Next]_vars PROVE ExportInv'
    OBVIOUS
<1> USE EvolutionAssumption DEF Inv, TypeOK, RunInv, ExportInv, Trial, Steps
<1>1. CASE Begin
      BY <1>1 DEF Begin, repo, public, reports, run
<1>2. CASE Commit
      BY <1>2 DEF Commit, repo, public, reports, run, observers
<1>3. CASE Push
      BY <1>3 DEF Push, repo, public, reports, run
<1>4. CASE CreateCandidate
      BY <1>4 DEF CreateCandidate, repo, public, reports, run
<1>5. CASE ExtractFails
      BY <1>5 DEF ExtractFails, repo, public, reports, run, observers
<1>6. CASE Unlink
      BY <1>6 DEF Unlink, repo, public, reports, observers
<1>7. CASE Link
      BY <1>7 DEF Link, repo, public, reports, run
<1>8. CASE Gate
      BY <1>8 DEF Gate, repo, public, reports, observers
<1>9. CASE RollbackUnlink
      BY <1>9 DEF RollbackUnlink, repo, public, reports, run, observers
<1>10. CASE RollbackLink
      BY <1>10 DEF RollbackLink, repo, public, reports, run
<1>11. CASE TrialFails
      BY <1>11 DEF TrialFails, repo, public, reports, run
<1>12. CASE LinkFails
      BY <1>12 DEF LinkFails, repo, public, reports, run
<1>13. CASE Export
      BY <1>13 DEF Export, repo, reports, run
<1>14. CASE EnsurePr
      BY <1>14 DEF EnsurePr, repo, reports, run, observers
<1>15. CASE Merge
      BY <1>15 DEF Merge, repo, reports, run, observers
<1>16. CASE RemoteFails
      BY <1>16 DEF RemoteFails, repo, public, reports, run, observers
<1>17. CASE StartCycle
      BY <1>17 DEF StartCycle, repo, public, run, observers
<1>18. CASE EndCycle
      BY <1>18 DEF EndCycle, repo, public, run, observers
<1>19. CASE Tick
      BY <1>19 DEF Tick, repo, public, observers
<1>20. CASE Edit
      BY <1>20 DEF Edit, public, reports, run
<1>21. CASE Litter
      BY <1>21 DEF Litter, public, reports, run, observers
<1>22. CASE Crash
      BY <1>22 DEF Crash, repo, public, run
<1>23. CASE UNCHANGED vars
      BY <1>23 DEF vars, repo, public, reports, run, observers
<1> QED
    BY <1>1, <1>2, <1>3, <1>4, <1>5, <1>6, <1>7, <1>8, <1>9, <1>10, <1>11,
       <1>12, <1>13, <1>14, <1>15, <1>16, <1>17, <1>18, <1>19, <1>20, <1>21, <1>22, <1>23 DEF Next

\* A step that changes the public main merges the export of a run whose gate was passed.
LEMMA StepMerge == Inv /\ [Next]_vars => MergeVetted
<1> SUFFICES ASSUME Inv, [Next]_vars PROVE MergeVetted
    OBVIOUS
<1> USE EvolutionAssumption DEF Inv, TypeOK, ExportInv, MergeVetted, Steps
<1>1. CASE Begin
      BY <1>1 DEF Begin, repo, public, reports, run
<1>2. CASE Commit
      BY <1>2 DEF Commit, repo, public, reports, run, observers
<1>3. CASE Push
      BY <1>3 DEF Push, repo, public, reports, run
<1>4. CASE CreateCandidate
      BY <1>4 DEF CreateCandidate, repo, public, reports, run
<1>5. CASE ExtractFails
      BY <1>5 DEF ExtractFails, repo, public, reports, run, observers
<1>6. CASE Unlink
      BY <1>6 DEF Unlink, repo, public, reports, observers
<1>7. CASE Link
      BY <1>7 DEF Link, repo, public, reports, run
<1>8. CASE Gate
      BY <1>8 DEF Gate, repo, public, reports, observers
<1>9. CASE RollbackUnlink
      BY <1>9 DEF RollbackUnlink, repo, public, reports, run, observers
<1>10. CASE RollbackLink
      BY <1>10 DEF RollbackLink, repo, public, reports, run
<1>11. CASE TrialFails
      BY <1>11 DEF TrialFails, repo, public, reports, run
<1>12. CASE LinkFails
      BY <1>12 DEF LinkFails, repo, public, reports, run
<1>13. CASE Export
      BY <1>13 DEF Export, repo, reports, run
<1>14. CASE EnsurePr
      BY <1>14 DEF EnsurePr, repo, reports, run, observers
<1>15. CASE Merge
      BY <1>15 DEF Merge, repo, reports, run, observers
<1>16. CASE RemoteFails
      BY <1>16 DEF RemoteFails, repo, public, reports, run, observers
<1>17. CASE StartCycle
      BY <1>17 DEF StartCycle, repo, public, run, observers
<1>18. CASE EndCycle
      BY <1>18 DEF EndCycle, repo, public, run, observers
<1>19. CASE Tick
      BY <1>19 DEF Tick, repo, public, observers
<1>20. CASE Edit
      BY <1>20 DEF Edit, public, reports, run
<1>21. CASE Litter
      BY <1>21 DEF Litter, public, reports, run, observers
<1>22. CASE Crash
      BY <1>22 DEF Crash, repo, public, run
<1>23. CASE UNCHANGED vars
      BY <1>23 DEF vars, repo, public, reports, run, observers
<1> QED
    BY <1>1, <1>2, <1>3, <1>4, <1>5, <1>6, <1>7, <1>8, <1>9, <1>10, <1>11,
       <1>12, <1>13, <1>14, <1>15, <1>16, <1>17, <1>18, <1>19, <1>20, <1>21, <1>22, <1>23 DEF Next

-------------------------------------------------------------------------------

\* Inv is an inductive invariant of the script and its environment.
THEOREM EvolutionInvariance == Spec => []Inv
<1>1. Inv /\ [Next]_vars => Inv'
      BY StepType, StepRun, StepPublished, StepExport DEF Inv
<1> QED
    BY InitInv, <1>1, PTL DEF Spec

\* Every variable keeps its type, and a rollback always has a previous release.
THEOREM EvolutionTypeCorrect == Spec => []TypeOK
<1>1. Inv => TypeOK
      BY DEF Inv
<1> QED
    BY EvolutionInvariance, <1>1, PTL

\* A release that runs was on the remote before it was applied.
THEOREM RunsOnlyPublished == Spec => []OnlyPublished
<1>1. Inv => OnlyPublished
      BY DEF Inv
<1> QED
    BY EvolutionInvariance, <1>1, PTL

\* Outside a trial the host runs what the verdict demands; a run cut off in its trial
\* leaves its candidate without a passed gate, or nothing.
THEOREM RollbackRestores == Spec => []Restored
<1>1. Inv => Restored
      BY DEF Inv
<1> QED
    BY EvolutionInvariance, <1>1, PTL

\* Once a release was applied the link is missing only between unlink and symlink, or
\* after a run that ended there.
THEOREM StaysInstalled == Spec => []AlwaysInstalled
<1>1. Inv => AlwaysInstalled
      BY DEF Inv
<1> QED
    BY EvolutionInvariance, <1>1, PTL

\* Only the export of a run whose own gate was passed is merged; its tracked files are the
\* candidate's unless they were edited since.
THEOREM MergesOnlyVetted == Spec => [][MergeVetted]_vars
<1>1. Inv /\ [Next]_vars => [MergeVetted]_vars
      BY StepMerge
<1> QED
    BY EvolutionInvariance, <1>1, PTL DEF Spec

\* A run leaves the release it found unless its candidate passed the gate, was cut off in
\* its trial, or failed where no release had been.
THEOREM HostAlwaysRecovers == Spec => []HostRecovers
<1>1. Restored /\ AlwaysInstalled => HostRecovers
      BY DEF HostRecovers
<1> QED
    BY RollbackRestores, StaysInstalled, <1>1, PTL

\* What runs was published, and what is merged is the export of a run that passed its gate.
THEOREM VettedOnly == Spec => OnlyVetted
<1> QED
    BY RunsOnlyPublished, MergesOnlyVetted, PTL DEF OnlyVetted
===============================================================================

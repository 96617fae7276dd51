-------------------------------- MODULE Promotion --------------------------------
(***************************************************************************)
(* A promotion candidate from the cycle that makes it to the dashboard.    *)
(* The cycle (nanobot/runtime/coordinator.py) writes the candidate, then   *)
(* accepts it or writes a packet of what it lacks                          *)
(* (nanobot/runtime/promotion.py); an operator reviews it on the command   *)
(* line, at any time; load_runtime_state (nanobot/runtime/state.py) reads  *)
(* what is there; the collector of the dashboard, which reads a local      *)
(* repository or a host over ssh, stores what it saw, and the web pages    *)
(* judge that.  Every file is written in place, one after the other, by    *)
(* processes that may die, and read without a lock.                        *)
(***************************************************************************)
EXTENDS Naturals, Sequences, FiniteSets

CONSTANTS
  Sources,      \* what the collector reads: "repo", "eeepc"
  Kinds,        \* of each cycle: has it an artifact, did its plan complete the lane, is its source commit known
  MaxEvents,    \* bounds the cycles, the reviews and the deaths of writers together
  None, Torn

ASSUME SourcesAssumption == Sources \subseteq {"repo", "eeepc"}
ASSUME KindsAssumption == Kinds \in Seq(SUBSET [artifact : BOOLEAN, ready : BOOLEAN, commit : BOOLEAN])
ASSUME BoundsAssumption == MaxEvents \in Nat

VARIABLES
  source,    \* the source of the behaviour
  cycle,     \* the cycle: its candidate, what is known of it, its step and the record it holds
  job,       \* by writer, the writes it has before it, the first perhaps under way
  cand, latest, decided, patch, accepted, packet, report,  \* files: by candidate, but for latest.json
  reading,   \* what the collector has read: the promotion's record, and what is to be shown of it
  board,     \* of the promotion events in the database the one stored last
  others,    \* reviews and deaths so far
  crossed,   \* candidates whose review ran beside their cycle (observer)
  broken     \* candidates whose writer died or failed (observer)

files == <<cand, latest, decided, patch, accepted, packet, report>>
bounds == <<others, crossed, broken>>
vars == <<source, cycle, job, files, reading, board, bounds>>

Ids == DOMAIN Kinds
Writers == {"cycle", "operator"}
Idle == [id |-> 0, kind |-> None, step |-> "idle", mine |-> None]
NotRead == [step |-> "idle", rec |-> None, shown |-> None]

Init ==
  /\ source \in Sources
  /\ cycle = Idle /\ job = [w \in Writers |-> <<>>]
  /\ cand = [c \in Ids |-> None] /\ latest = None
  /\ decided = [c \in Ids |-> None] /\ patch = [c \in Ids |-> None] /\ accepted = [c \in Ids |-> None]
  /\ packet = [c \in Ids |-> None] /\ report = [c \in Ids |-> None]
  /\ reading = NotRead /\ board = None
  /\ others = 0 /\ crossed = {} /\ broken = {}

MoreEvents == cycle.id + others < MaxEvents
Readable(file) == file \notin {None, Torn}

(* The records.  Of a candidate: review_status, decision, decision_record, accepted_record, whether its           *)
(* promotion_provenance is complete, and its governance_packet.                                                  *)
Verdicts == {"not_ready", "ready", "accept", "reject"}
Governances ==
  [packet : {None, "pending", "not_ready", "blocked", "reviewed", "accepted"},
   review : {None, "not_ready", "ready", "reviewed"}, decision : {None} \cup Verdicts]
Records ==
  [id : Ids, review : {"not_ready", "ready", "reviewed"}, decision : Verdicts,
   drec : {None, "pending", "blocked", "record"}, arec : {None, "not_created", "record"}, prov : BOOLEAN,
   gov : Governances]
Words == Verdicts \cup {"reviewed", "pending", "blocked", "record", "not_created", "accepted"}
ASSUME NoneAssumption ==
  None # Torn /\ \A x \in {None, Torn} : x \notin Words /\ x # TRUE /\ x \notin Records

Governance(status, verdict) == [packet |-> status, review |-> verdict, decision |-> verdict]
NoPacket == Governance(None, None)
FirstRecord(c) ==
  [id |-> c, review |-> "not_ready", decision |-> "not_ready", drec |-> None, arec |-> None, prov |-> FALSE, gov |-> NoPacket]
FinalRecord(c, verdict, commit) ==
  [id |-> c, review |-> verdict, decision |-> verdict, drec |-> IF verdict = "ready" THEN "pending" ELSE None,
   arec |-> None, prov |-> commit,
   gov |-> Governance(IF verdict = "ready" THEN "pending" ELSE "not_ready", verdict)]
Reviewed(rec, decision) == [rec EXCEPT !.review = "reviewed", !.decision = decision]

\* A write: the file, the candidate and the content.
To(file, c, val) == [file |-> file, id |-> c, val |-> val]
Both(rec) == <<To("cand", rec.id, rec), To("latest", rec.id, rec)>>

\* Mutation of ReviewWrites: the accepted record comes before the patch.
ReviewWritesRecordFirst(rec, decision) ==
  LET new == Reviewed(rec, decision)
  IN  <<To("cand", rec.id, new), To("decided", rec.id, decision), To("latest", rec.id, new)>>
      \o IF decision = "accept" THEN <<To("accepted", rec.id, TRUE), To("patch", rec.id, TRUE)>> ELSE <<>>

\* review_promotion_candidate: candidate, decision, latest, and of an accepted one the patch and the record.
ReviewWrites(rec, decision) ==
  LET new == Reviewed(rec, decision)
  IN  <<To("cand", rec.id, new), To("decided", rec.id, decision), To("latest", rec.id, new)>>
      \o IF decision = "accept" THEN <<To("patch", rec.id, TRUE), To("accepted", rec.id, TRUE)>> ELSE <<>>

\* complete_promotion_readiness_packet
NotReadyAtAll(rec) ==
  rec.review = "not_ready" \/ rec.decision = "not_ready" \/ rec.gov.packet = "not_ready"
Blocked(rec) ==
  [rec EXCEPT !.review = "not_ready", !.decision = "not_ready", !.drec = "blocked", !.arec = "not_created",
              !.gov.packet = "blocked"]

\* supply_missing_promotion_readiness_inputs
InputsSupplied(rec, artifact) == artifact /\ rec.prov
Supplied(rec, ready) ==
  LET verdict == IF ready THEN "ready" ELSE "not_ready"
  IN  [Blocked(rec) EXCEPT !.review = verdict, !.decision = verdict,
                           !.gov.packet = IF ready THEN "pending" ELSE "blocked"]

\* What the cycle writes at its end, of the record it holds.
ClosedAccepted(rec) ==
  LET arec == IF accepted[rec.id] # None THEN "record" ELSE None
  IN  [rec EXCEPT !.drec = "record", !.arec = arec,
                  !.gov = [packet |-> IF arec = None THEN "reviewed" ELSE "accepted", review |-> rec.review, decision |-> rec.decision]]
\* Mutation of ClosedPacket: only one of the references is set.
ClosedPacketHalf(rec, ready) ==
  LET verdict == IF ready THEN "ready" ELSE "not_ready"
  IN  [rec EXCEPT !.review = verdict, !.decision = verdict,
                  !.drec = IF ready THEN "pending" ELSE "blocked", !.arec = None,
                  !.gov = Governance(IF ready THEN "pending" ELSE "blocked", verdict)]

ClosedPacket(rec, ready) ==
  [ClosedPacketHalf(rec, ready) EXCEPT !.arec = IF ready THEN None ELSE "not_created"]

\* A report has neither a provenance nor a governance packet.
ReportOf(rec) == [id |-> rec.id, review |-> rec.review, decision |-> rec.decision, prov |-> FALSE, gov |-> NoPacket]

(* The cycle: each step begins when the writes of the one before it are done. *)
CycleWrites(writes) == job' = [job EXCEPT !["cycle"] = writes]
CycleAt(step) == cycle.step = step /\ job["cycle"] = <<>>
Elsewhere == UNCHANGED <<source, files, reading, board, bounds>>

CycleBegins ==
  /\ CycleAt("idle") /\ cycle.id + 1 \in Ids /\ MoreEvents
  /\ \E kind \in Kinds[cycle.id + 1] : cycle' = [id |-> cycle.id + 1, kind |-> kind, step |-> "final", mine |-> None]
  /\ CycleWrites(Both(FirstRecord(cycle.id + 1)))
  /\ Elsewhere

CycleFinal ==
  /\ CycleAt("final")
  /\ LET ready == cycle.kind.ready /\ cycle.kind.artifact
         rec == FinalRecord(cycle.id, IF ready THEN "ready" ELSE "not_ready", cycle.kind.commit)
     IN  /\ CycleWrites(Both(rec))
         /\ cycle' = [cycle EXCEPT !.mine = rec, !.step = IF ready THEN "accept" ELSE "packet"]
  /\ Elsewhere

\* A file that cannot be read, or a state the call does not expect, ends the cycle with an exception.
CycleFails ==
  /\ cycle' = [Idle EXCEPT !.id = cycle.id]
  /\ CycleWrites(<<>>)
  /\ broken' = broken \cup {cycle.id}
  /\ UNCHANGED <<source, files, reading, board, others, crossed>>

CycleAccepts ==
  /\ CycleAt("accept")
  /\ IF Readable(cand[cycle.id])
     THEN /\ CycleWrites(ReviewWrites(cand[cycle.id], "accept"))
          /\ cycle' = [cycle EXCEPT !.step = "accepted", !.mine = Reviewed(cand[cycle.id], "accept")]
          /\ Elsewhere
     ELSE CycleFails

CycleCompletes ==
  /\ CycleAt("packet")
  /\ IF Readable(cand[cycle.id]) /\ NotReadyAtAll(cand[cycle.id])
     THEN /\ CycleWrites(<<To("packet", cycle.id, "blocked")>> \o Both(Blocked(cand[cycle.id])))
          /\ cycle' = [cycle EXCEPT !.step = "inputs"]
          /\ Elsewhere
     ELSE CycleFails

CycleSupplies ==
  /\ CycleAt("inputs")
  /\ LET rec == cand[cycle.id]
     IN  IF Readable(rec) /\ rec.drec = "blocked" /\ rec.arec = "not_created"
         THEN LET ready == InputsSupplied(rec, cycle.kind.artifact)
              IN  /\ CycleWrites(<<To("packet", cycle.id, "blocked")>> \o Both(Supplied(rec, ready)))
                  /\ cycle' = [cycle EXCEPT !.step = IF ready THEN "supplied" ELSE "blocked"]
                  /\ Elsewhere
         ELSE CycleFails

CycleCloses ==
  /\ \E step \in {"accepted", "supplied", "blocked"} : CycleAt(step)
  /\ LET rec == IF cycle.step = "accepted" THEN ClosedAccepted(cycle.mine)
                ELSE ClosedPacket(cycle.mine, cycle.step = "supplied")
     IN  CycleWrites(Both(rec) \o <<To("report", cycle.id, ReportOf(rec))>>)
  /\ cycle' = [Idle EXCEPT !.id = cycle.id]
  /\ Elsewhere

(* The operator's command reads the candidate and writes. *)
CycleBusy(c) == cycle.id = c /\ (cycle.step # "idle" \/ job["cycle"] # <<>>)

Reviews(c, decision) ==
  /\ job["operator"] = <<>> /\ MoreEvents /\ Readable(cand[c])
  /\ others' = others + 1
  /\ job' = [job EXCEPT !["operator"] = ReviewWrites(cand[c], decision)]
  /\ crossed' = IF CycleBusy(c) THEN crossed \cup {c} ELSE crossed
  /\ UNCHANGED <<source, cycle, files, reading, board, broken>>

(* The disk. *)
Put(file, name, w, val) == IF w.file = name THEN [file EXCEPT ![w.id] = val] ELSE file
Written(w, val) ==
  /\ cand' = Put(cand, "cand", w, val)
  /\ latest' = IF w.file = "latest" THEN val ELSE latest
  /\ decided' = Put(decided, "decided", w, val)
  /\ patch' = Put(patch, "patch", w, val)
  /\ accepted' = Put(accepted, "accepted", w, val)
  /\ packet' = Put(packet, "packet", w, val)
  /\ report' = Put(report, "report", w, val)

Write(p) ==
  /\ job[p] # <<>>
  /\ Written(Head(job[p]), Head(job[p]).val)
  /\ job' = [job EXCEPT ![p] = Tail(@)]
  /\ UNCHANGED <<source, cycle, reading, board, bounds>>

\* The writer dies, perhaps in the middle of a file.
Dies(p) ==
  /\ job[p] # <<>> /\ MoreEvents
  /\ others' = others + 1
  /\ Written(Head(job[p]), Torn) \/ UNCHANGED files
  /\ job' = [job EXCEPT ![p] = <<>>]
  /\ cycle' = IF p = "cycle" THEN [Idle EXCEPT !.id = cycle.id] ELSE cycle
  /\ broken' = broken \cup {Head(job[p]).id}
  /\ UNCHANGED <<source, reading, board, crossed>>

(* The collector. *)
\* A file that is being written may be read half way.
Underway(name) == \E p \in Writers : job[p] # <<>> /\ Head(job[p]).file = name
Reads == {latest} \cup (IF Underway("latest") THEN {Torn} ELSE {})
Newest(file) == LET known == {c \in Ids : file[c] # None}
                IN  IF known = {} THEN None ELSE CHOOSE c \in known : \A d \in known : d <= c

\* Without latest.json the newest candidate is read; when that cannot be read, the report has the statuses.
FromReport ==
  LET c == Newest(report)
  IN  IF c = None \/ ~Readable(report[c]) THEN None
      ELSE report[c]
Essence(rec) == [id |-> rec.id, review |-> rec.review, decision |-> rec.decision, prov |-> rec.prov, gov |-> rec.gov]
LocalRecord(read) ==
  CASE read = None /\ Newest(cand) # None /\ Readable(cand[Newest(cand)]) -> Essence(cand[Newest(cand)])
    [] Readable(read) -> Essence(read)
    [] OTHER -> FromReport
HostRecord(read) == IF Readable(read) THEN read ELSE None

\* load_runtime_state: decision_record and accepted_record are what is on the disk now.
DecisionRecord(c) ==
  CASE decided[c] # None -> "present"
    [] Readable(packet[c]) /\ accepted[c] = None -> packet[c]
    [] OTHER -> "missing"
AcceptedRecord(c) ==
  CASE accepted[c] # None -> "present"
    [] Readable(packet[c]) /\ decided[c] = None -> "not_created"
    [] OTHER -> "missing"

\* promotion_replay_readiness
Replay(rec) ==
  LET c == rec.id
  IN  CASE rec.decision = "accept" /\ rec.review = "reviewed" /\ Readable(accepted[c]) /\ patch[c] # None /\ rec.prov -> "ready"
        [] rec.decision = "accept" /\ rec.review = "reviewed" -> "blocked"
        [] "ready" \in {rec.decision, rec.review} -> "ready_for_policy_review"
        [] "not_ready" \in {rec.decision, rec.review} ->
             IF DecisionRecord(c) = "blocked" \/ AcceptedRecord(c) = "not_created" THEN "blocked" ELSE "not_ready"
        [] OTHER -> "blocked"

\* What the web page makes of an event: _promotion_replay_readiness_from_promotions.
Missing(record) == record \in {None, "missing"}
Page(status, gov, drec, arec) ==
  LET review == IF gov.review = None THEN status ELSE gov.review
      decision == IF gov.decision = None THEN status ELSE gov.decision
  IN  CASE /\ "accept" \in {status, decision} \/ gov.packet = "accepted"
           /\ ~Missing(drec) /\ ~Missing(arec) -> "accepted"
        [] "ready" \in {review, decision, status} \/ "pending" \in {gov.packet, drec} -> "ready_for_policy_review"
        [] "not_ready" \in {gov.packet, review, decision} ->
             IF "blocked" \in {gov.packet, drec} \/ arec = "not_created" THEN "blocked" ELSE "not_ready"
        [] Missing(drec) \/ Missing(arec) -> "blocked"
        [] OTHER -> "ready"

\* The event of the local state, made of the record and of the files next to it, and that of a host's record.
LocalEvent(rec) ==
  IF rec = None THEN None
  ELSE [id |-> rec.id, status |-> rec.decision, replay |-> Replay(rec),
        page |-> Page(rec.decision, rec.gov, DecisionRecord(rec.id), AcceptedRecord(rec.id))]
HostEvent(rec) ==
  IF rec = None THEN None
  ELSE [id |-> rec.id, status |-> rec.decision, replay |-> None, page |-> Page(rec.decision, rec.gov, rec.drec, rec.arec)]

CollectBegins ==
  /\ reading.step = "idle"
  /\ \E read \in Reads :
       reading' = IF source = "repo" THEN [step |-> "read", rec |-> LocalRecord(read), shown |-> None]
                  ELSE [step |-> "show", rec |-> None, shown |-> HostEvent(HostRecord(read))]
  /\ UNCHANGED <<source, cycle, job, files, board, bounds>>

CollectShows ==
  /\ reading.step = "read"
  /\ reading' = [step |-> "show", rec |-> None, shown |-> LocalEvent(reading.rec)]
  /\ UNCHANGED <<source, cycle, job, files, board, bounds>>

\* A collection that fails, wherever it does, leaves no trace.
CollectFails ==
  /\ reading.step = "show"
  /\ reading' = NotRead
  /\ UNCHANGED <<source, cycle, job, files, board, bounds>>

\* Mutation of Upsert: an event that is there is not replaced.
UpsertOnce(event) == IF board # None /\ board.id = event.id THEN board ELSE event

Upsert(event) == event

\* _persist: the collection, then the events; one without a promotion leaves the events alone.
CollectStores ==
  /\ reading.step = "show"
  /\ board' = IF reading.shown = None THEN board ELSE Upsert(reading.shown)
  /\ reading' = NotRead
  /\ UNCHANGED <<source, cycle, job, files, bounds>>

Cycle == CycleBegins \/ CycleFinal \/ CycleAccepts \/ CycleCompletes \/ CycleSupplies \/ CycleCloses
Operator == \E c \in Ids : \E decision \in {"accept", "reject"} : Reviews(c, decision)
Collect == CollectBegins \/ CollectShows \/ CollectStores

Next == Cycle \/ Operator \/ (\E p \in Writers : Write(p) \/ Dies(p)) \/ Collect \/ CollectFails

\* Timers start cycles and collections, a process that can go on does, and not every collection fails.
Fairness == WF_vars(Cycle \/ Write("cycle")) /\ WF_vars(Write("operator")) /\ WF_vars(Collect) /\ SF_vars(CollectStores)

Spec == Init /\ [][Next]_vars /\ Fairness

-----------------------------------------------------------------------------
RecordOK(rec) ==
  /\ rec \in Records
  /\ (rec.drec = "blocked") = (rec.arec = "not_created")
  /\ rec.arec = "record" => rec.drec = "record"

\* The types of the state.  In every record the two references say the same: what is missing, or where both are.
TypeOK ==
  /\ cycle.id \in Ids \cup {0}
  /\ \A c \in Ids : Readable(cand[c]) => RecordOK(cand[c]) /\ cand[c].id = c
  /\ Readable(latest) => RecordOK(latest)
  /\ board # None => board.id \in Ids /\ board.status \in Verdicts

Quiet(c) == ~CycleBusy(c) /\ \A n \in DOMAIN job["operator"] : job["operator"][n].id # c
Undisturbed(c) == c \notin crossed \cup broken

\* Where no review ran beside the cycle and no writer died: between reviews the candidate says what the decision
\* record says, and an accepted one has its record.  Whatever happens, an accepted record has its patch, the local
\* reader says ready of no candidate that lacks a decision, an accepted record, or a patch; and where no review ran
\* beside the cycle the page calls none accepted without the record: a host's, when its writers are done and none died.
TrailAgrees ==
  /\ \A c \in Ids : Undisturbed(c) /\ Quiet(c) /\ decided[c] # None =>
       /\ cand[c].decision = decided[c] /\ cand[c].review = "reviewed"
       /\ decided[c] = "accept" => accepted[c] # None
  /\ \A c \in Ids : accepted[c] # None => patch[c] # None
  /\ board # None =>
       /\ board.replay = "ready" => None \notin {decided[board.id], accepted[board.id], patch[board.id]}
       /\ board.page = "accepted" /\ board.id \notin crossed =>
            accepted[board.id] # None \/ (source = "eeepc" /\ (~Quiet(board.id) \/ board.id \in broken))

\* In the end the newest event is of the candidate in latest.json, and has its decision; unless the file is torn.
CatchesUp ==
  <>[](Readable(latest) => board # None /\ board.id = latest.id /\ board.status = latest.decision)
=============================================================================

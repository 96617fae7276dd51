--------------------------- MODULE Promotion_proofs ----------------------------
(***************************************************************************)
(* That a promotion's files tell one story (TypeOK and TrailAgrees of      *)
(* Promotion), for every number of candidates, every kind of cycle and     *)
(* every interleaving of the cycle, the operator and the collector, with   *)
(* writers that die half-way.                                              *)
(*                                                                         *)
(* The argument: what a writer has still to write is part of the state     *)
(* ("job"), and the invariant speaks of the files together with what is    *)
(* still to come: a verdict that a candidate is going to have, in its      *)
(* decision or in a job, is the verdict that every write to come says; an  *)
(* approval that a reader can see anywhere, in a file, in a job or in the  *)
(* record a cycle holds, is backed by the decision and, where nothing was  *)
(* disturbed, by an accepted record that is there or coming.  A candidate  *)
(* whose cycle the operator overtook ("crossed") or whose writer died      *)
(* ("broken") is excepted, and both sets only grow.                        *)
(***************************************************************************)
EXTENDS Promotion, SequenceTheorems, WellFoundedInduction, TLAPS

(* The invariant *)
Decisions == {"accept", "reject"}
Steps == {"idle", "final", "accept", "accepted", "packet", "inputs", "supplied", "blocked"}
Essences ==
  [id : Ids, review : {"not_ready", "ready", "reviewed"}, decision : Verdicts, prov : BOOLEAN,
   gov : Governances]
Reports == {rec \in Essences : rec.gov = NoPacket}
Writes ==
  [file : {"cand", "latest", "decided", "patch", "accepted", "packet", "report"}, id : Ids,
   val : Records \cup Decisions \cup {TRUE, "blocked"} \cup Reports]

WriteOK(w) ==
  /\ w.file \in {"cand", "latest"} => RecordOK(w.val) /\ w.val.id = w.id
  /\ w.file = "decided" => w.val \in Decisions
  /\ w.file \in {"patch", "accepted"} => w.val = TRUE
  /\ w.file = "packet" => w.val = "blocked"
  /\ w.file = "report" => w.val \in Reports /\ w.val.id = w.id

\* TypeInv: what every variable holds.  A record that is torn cannot be read.
CycleTypes ==
  /\ cycle = [id |-> cycle.id, kind |-> cycle.kind, step |-> cycle.step, mine |-> cycle.mine]
  /\ cycle.id \in Ids \cup {0} /\ cycle.step \in Steps
  /\ cycle.step # "idle" => cycle.id \in Ids /\ cycle.kind \in [artifact : BOOLEAN, ready : BOOLEAN, commit : BOOLEAN]
  /\ cycle.step \notin {"idle", "final"} => RecordOK(cycle.mine) /\ cycle.mine.id = cycle.id

JobTypes ==
  /\ job \in [Writers -> Seq(Writes)]
  /\ \A p \in Writers : \A n \in DOMAIN job[p] : WriteOK(job[p][n])

FileTypes ==
  /\ cand \in [Ids -> {None, Torn} \cup Records] /\ latest \in {None, Torn} \cup Records
  /\ decided \in [Ids -> {None, Torn} \cup Decisions]
  /\ patch \in [Ids -> {None, Torn, TRUE}] /\ accepted \in [Ids -> {None, Torn, TRUE}]
  /\ packet \in [Ids -> {None, Torn, "blocked"}]
  /\ report \in [Ids -> {None, Torn} \cup Reports]
  /\ \A c \in Ids : /\ Readable(cand[c]) => RecordOK(cand[c]) /\ cand[c].id = c
                    /\ Readable(report[c]) => report[c].id = c
  /\ Readable(latest) => RecordOK(latest)

TypeInv == CycleTypes /\ JobTypes /\ FileTypes /\ crossed \subseteq Ids /\ broken \subseteq Ids

\* A job is about one candidate and writes each of its files once, at the latest the candidate of the newest cycle.
OneEach(s) == \A m, n \in DOMAIN s : s[m].id = s[n].id /\ (s[m].file = s[n].file => m = n)
JobShape ==
  \A p \in Writers :
    /\ OneEach(job[p])
    /\ \A n \in DOMAIN job[p] : job[p][n].id <= cycle.id /\ (p = "cycle" => job[p][n].id = cycle.id)

\* What a job has still to write of a candidate; what it writes before its n-th write.
Has(s, c, file) == \E n \in DOMAIN s : s[n].id = c /\ s[n].file = file
Before(s, n, file) == \E m \in 1..(n - 1) : s[m].file = file
Coming(c, file) == \E p \in Writers : Has(job[p], c, file)

\* An accepted record comes after the decision and the patch (write_accepted_record is last).
OrderInv ==
  /\ \A c \in Ids : accepted[c] # None => decided[c] # None /\ patch[c] # None
  /\ \A p \in Writers : \A n \in DOMAIN job[p] : job[p][n].file = "accepted" =>
       /\ decided[job[p][n].id] # None \/ Before(job[p], n, "decided")
       /\ patch[job[p][n].id] # None \/ Before(job[p], n, "patch")

\* There is nothing of a candidate before its cycle, and nothing of the operator beside a cycle he did not cross.
NewInv ==
  /\ \A c \in Ids : c > cycle.id =>
       cand[c] = None /\ decided[c] = None /\ report[c] = None /\ c \notin crossed \cup broken
  /\ \A c \in Ids : CycleBusy(c) /\ c \notin crossed =>
       c \notin broken /\ \A n \in DOMAIN job["operator"] : job["operator"][n].id # c

\* A cycle that has come past its first record has a latest record to go back to.
LatestInv ==
  /\ \A c \in Ids : packet[c] # None => latest # None
  /\ \A p \in Writers : \A n \in DOMAIN job[p] : job[p][n].file = "packet" => p = "cycle" /\ latest # None
  /\ cycle.step = "idle" /\ job["cycle"] # <<>> => latest # None
  /\ cycle.step \notin {"idle", "final"} => latest # None
  /\ cycle.step = "final" => latest # None \/ Has(job["cycle"], cycle.id, "latest")

\* What a cycle writes first of its candidate is that it is not ready.
FirstInv ==
  cycle.step = "final" /\ cycle.id \notin crossed =>
    /\ Readable(cand[cycle.id]) => cand[cycle.id].decision = "not_ready"
    /\ \A n \in DOMAIN job["cycle"] : job["cycle"][n].file = "cand" => job["cycle"][n].val.decision = "not_ready"

\* A candidate has, or is about to have, the verdict v; it has, or is about to have, an accepted record.
Ruled(c, v) ==
  \/ \E p \in Writers : \E n \in DOMAIN job[p] : job[p][n] = To("decided", c, v)
  \/ decided[c] = v /\ ~Coming(c, "decided")
Granted(c) == accepted[c] # None \/ Coming(c, "accepted")

\* Once the verdict is there, whatever is still to be written of the candidate says the same.
AgreeInv ==
  \A c \in Ids : Undisturbed(c) =>
    /\ decided[c] # Torn
    /\ \A v \in Decisions : Ruled(c, v) =>
         /\ \A p \in Writers : \A n \in DOMAIN job[p] :
              job[p][n].id = c /\ job[p][n].file = "cand" =>
                job[p][n].val.decision = v /\ job[p][n].val.review = "reviewed"
         /\ ~Coming(c, "cand") => cand[c].decision = v /\ cand[c].review = "reviewed"
         /\ v = "accept" => Granted(c)

\* A cycle that has not yet reviewed its candidate finds it without a verdict.
CycleInv ==
  /\ cycle.step \notin {"idle", "accepted"} /\ cycle.id \notin crossed =>
       decided[cycle.id] = None /\ ~Has(job["cycle"], cycle.id, "decided")
  /\ cycle.step = "accepted" =>
       /\ cycle.mine.decision = "accept" /\ cycle.mine.review = "reviewed"
       /\ cycle.id \notin crossed => Ruled(cycle.id, "accept")

\* A record approves in its governance part, or anywhere.
GovApproved(rec) == rec.gov.decision = "accept" \/ rec.gov.packet = "accepted"
Approved(rec) == rec.decision = "accept" \/ GovApproved(rec)

\* An approval that a reader can see has a decision behind it, and an accepted record if nothing was disturbed.
Backed(rec) ==
  /\ rec.id <= cycle.id
  /\ GovApproved(rec) /\ rec.id \notin crossed => decided[rec.id] # None
  /\ Approved(rec) /\ Undisturbed(rec.id) => Granted(rec.id)

\* Every record that a reader may come to see is backed.
SeenInv ==
  /\ Readable(latest) => Backed(latest)
  /\ \A c \in Ids : Readable(cand[c]) => Backed(cand[c])
  /\ \A p \in Writers : \A n \in DOMAIN job[p] :
       job[p][n].file \in {"cand", "latest"} => Backed(job[p][n].val)
  /\ cycle.step = "accepted" => Backed(cycle.mine)

\* The same of the files that the local page reads: the latest record and the reports.
LocalInv ==
  /\ Readable(latest) /\ latest.id \notin crossed /\ latest.decision = "accept" => decided[latest.id] # None
  /\ \A c \in Ids \ crossed : Readable(report[c]) /\ report[c].decision = "accept" => decided[c] # None
  /\ \A p \in Writers : \A n \in DOMAIN job[p] :
       job[p][n].id \notin crossed /\ job[p][n].val.decision = "accept" =>
         /\ job[p][n].file = "latest" => decided[job[p][n].id] # None \/ Before(job[p], n, "decided")
         /\ job[p][n].file = "report" => decided[job[p][n].id] # None

\* What the collector shows is as true later as when it was collected.
EventOK(e) ==
  /\ e.id \in Ids /\ e.status \in Verdicts
  /\ e.replay = "ready" => accepted[e.id] # None
  /\ e.page = "accepted" /\ e.id \notin crossed =>
       \/ accepted[e.id] # None
       \/ source = "eeepc" /\ (e.id \in broken \/ Coming(e.id, "accepted"))

\* What it has read, of a record whose candidate may have moved on since.
ReadInv(rec) ==
  /\ rec \in Essences /\ rec.id <= cycle.id
  /\ Approved(rec) /\ rec.id \notin crossed =>
       decided[rec.id] # None \/ (packet[rec.id] = None /\ ~CycleBusy(rec.id))

ReadingInv ==
  /\ reading = [step |-> reading.step, rec |-> reading.rec, shown |-> reading.shown]
  /\ source \in {"repo", "eeepc"} /\ (reading.step = "read" => source = "repo")
  /\ reading.rec # None => ReadInv(reading.rec)
  /\ reading.shown # None => EventOK(reading.shown)
  /\ board # None => EventOK(board)

\* The inductive invariant.
StateInv == OrderInv /\ NewInv /\ LatestInv /\ FirstInv /\ AgreeInv /\ CycleInv
IInv == TypeInv /\ JobShape /\ StateInv /\ SeenInv /\ LocalInv /\ ReadingInv

-------------------------------------------------------------------------------
\* A file that is absent or torn is none of the things that are written.
LEMMA Nothing ==
  /\ None # Torn /\ None \notin Decisions /\ Torn \notin Decisions
  /\ None # TRUE /\ Torn # TRUE /\ None # "blocked" /\ Torn # "blocked" /\ None # "ready"
  /\ \A rec \in Records : Readable(rec)
  BY NoneAssumption DEF Words, Verdicts, Decisions, Readable

\* Candidates are numbered from one.
LEMMA IdsAreNumbers == \A c \in Ids : c \in Nat /\ c # 0
  BY KindsAssumption DEF Ids

\* The writes of a job without its first one.
LEMMA TailShape ==
  ASSUME NEW S, NEW s \in Seq(S), s # <<>>
  PROVE  /\ 1 \in DOMAIN s /\ Head(s) = s[1] /\ Head(s) \in S /\ Tail(s) \in Seq(S)
         /\ DOMAIN s \subseteq Nat \ {0}
         /\ \A n \in DOMAIN Tail(s) : n \in Nat /\ n + 1 \in DOMAIN s /\ Tail(s)[n] = s[n + 1]
         /\ \A n \in DOMAIN s : n = 1 \/ (n - 1 \in DOMAIN Tail(s) /\ Tail(s)[n - 1] = s[n])
<1>1. Len(s) \in Nat \ {0} /\ DOMAIN s = 1..Len(s)
      OBVIOUS
<1>2. Len(Tail(s)) = Len(s) - 1 /\ Tail(s) \in Seq(S) /\ DOMAIN Tail(s) = 1..(Len(s) - 1)
      BY <1>1
<1>3. \A n \in 1..(Len(s) - 1) : Tail(s)[n] = s[n + 1]
      BY <1>1, <1>2
<1>4. Head(s) = s[1] /\ s[1] \in S
      BY <1>1
<1> QED
    BY <1>1, <1>2, <1>3, <1>4

\* The two files of a candidate record, and nothing else.
LEMMA BothShape ==
  ASSUME NEW S, NEW rec, To("cand", rec.id, rec) \in S, To("latest", rec.id, rec) \in S
  PROVE  LET s == Both(rec)
         IN  /\ s \in Seq(S) /\ Len(s) = 2
             /\ s[1] = To("cand", rec.id, rec) /\ s[2] = To("latest", rec.id, rec)
<1> DEFINE a == To("cand", rec.id, rec)
<1> DEFINE b == To("latest", rec.id, rec)
<1>1. a \in S /\ b \in S /\ Both(rec) = <<a, b>>
      BY DEF Both
<1> HIDE DEF a, b
<1>2. Both(rec) \in Seq(S) /\ Len(Both(rec)) = 2 /\ Both(rec)[1] = a /\ Both(rec)[2] = b
      BY <1>1
<1> QED
    BY <1>2 DEF a, b

\* The three writes of an accepting review that come before the record.
LEMMA ThreeWrites ==
  ASSUME NEW S, NEW a \in S, NEW b \in S, NEW e \in S, NEW s, s = <<a>> \o <<b, e>> \/ s = <<a, b>> \o <<e>>
  PROVE  s \in Seq(S) /\ Len(s) = 3 /\ s[1] = a /\ s[2] = b /\ s[3] = e
<1>1. CASE s = <<a>> \o <<b, e>>
      BY <1>1, ConcatProperties
<1>2. CASE s = <<a, b>> \o <<e>>
      BY <1>2, ConcatProperties
<1> QED
    BY <1>1, <1>2

\* A job that has done its first write has all but that one to do.
LEMMA TailHas ==
  ASSUME NEW S, NEW s \in Seq(S), s # <<>>, OneEach(s)
  PROVE  /\ OneEach(Tail(s))
         /\ \A c, file : Has(Tail(s), c, file) <=> Has(s, c, file) /\ ~(c = s[1].id /\ file = s[1].file)
         /\ \A n \in DOMAIN Tail(s) : \A file : Before(s, n + 1, file) => Before(Tail(s), n, file) \/ s[1].file = file
<1>1. /\ 1 \in DOMAIN s /\ DOMAIN s \subseteq Nat \ {0} /\ Tail(s) \in Seq(S)
      /\ \A n \in DOMAIN Tail(s) : n \in Nat /\ n + 1 \in DOMAIN s /\ Tail(s)[n] = s[n + 1]
      /\ \A n \in DOMAIN s : n = 1 \/ (n - 1 \in DOMAIN Tail(s) /\ Tail(s)[n - 1] = s[n])
      BY TailShape
<1>2. OneEach(Tail(s))
  <2> DEFINE t == Tail(s)
  <2>1. \A n \in DOMAIN t : n \in Nat /\ n + 1 \in DOMAIN s /\ t[n] = s[n + 1]
        BY <1>1
  <2> HIDE DEF t
  <2>2. ASSUME NEW m \in DOMAIN t, NEW n \in DOMAIN t
        PROVE  t[m].id = t[n].id /\ (t[m].file = t[n].file => m = n)
    <3>1. m + 1 \in DOMAIN s /\ n + 1 \in DOMAIN s /\ t[m] = s[m + 1] /\ t[n] = s[n + 1] /\ m \in Nat /\ n \in Nat
          BY <2>1
    <3>2. s[m + 1].id = s[n + 1].id /\ (s[m + 1].file = s[n + 1].file => m + 1 = n + 1)
          BY <3>1 DEF OneEach
    <3> QED
        BY <3>1, <3>2
  <2> QED
      BY <2>2 DEF OneEach, t
<1>3. ASSUME NEW c, NEW file
      PROVE  Has(Tail(s), c, file) <=> Has(s, c, file) /\ ~(c = s[1].id /\ file = s[1].file)
  <2>1. ASSUME Has(Tail(s), c, file) PROVE Has(s, c, file) /\ ~(c = s[1].id /\ file = s[1].file)
    <3>1. PICK n \in DOMAIN Tail(s) : Tail(s)[n].id = c /\ Tail(s)[n].file = file
          BY <2>1 DEF Has
    <3>2. n + 1 \in DOMAIN s /\ s[n + 1].id = c /\ s[n + 1].file = file /\ n + 1 # 1
          BY <1>1, <3>1
    <3> QED
        BY <1>1, <3>2 DEF Has, OneEach
  <2>2. ASSUME Has(s, c, file), ~(c = s[1].id /\ file = s[1].file) PROVE Has(Tail(s), c, file)
    <3>1. PICK n \in DOMAIN s : s[n].id = c /\ s[n].file = file
          BY <2>2 DEF Has
    <3>2. n # 1
          BY <2>2, <3>1
    <3>3. n - 1 \in DOMAIN Tail(s) /\ Tail(s)[n - 1] = s[n]
          BY <1>1, <3>2
    <3> QED
        BY <3>1, <3>3 DEF Has
  <2> QED
      BY <2>1, <2>2
<1>4. ASSUME NEW n \in DOMAIN Tail(s), NEW file, Before(s, n + 1, file), s[1].file # file
      PROVE  Before(Tail(s), n, file)
  <2>0. DOMAIN Tail(s) = 1..Len(Tail(s)) /\ Len(Tail(s)) \in Nat /\ n \in Nat /\ (n + 1) - 1 = n
        BY <1>1, <1>4
  <2>1. PICK m \in 1..n : s[m].file = file
        BY <1>4, <2>0 DEF Before
  <2>2. m # 1 /\ m - 1 \in 1..(n - 1)
        BY <1>1, <1>4, <2>1
  <2>3. n \in DOMAIN Tail(s) /\ DOMAIN Tail(s) = 1..Len(Tail(s)) /\ Len(Tail(s)) \in Nat
        BY <1>1
  <2>4. m - 1 \in DOMAIN Tail(s) /\ (m - 1) + 1 = m
        BY <2>1, <2>2, <2>3
  <2>5. Tail(s)[m - 1] = s[m]
        BY <1>1, <2>4
  <2> QED
      BY <2>1, <2>2, <2>5 DEF Before
<1> QED
    BY <1>2, <1>3, <1>4

\* One write replaces one file of one candidate.
LEMMA Effect ==
  ASSUME FileTypes, NEW w \in Writes, NEW val, Written(w, val)
  PROVE  /\ latest' = IF w.file = "latest" THEN val ELSE latest
         /\ \A c \in Ids :
              /\ cand'[c] = IF w.file = "cand" /\ c = w.id THEN val ELSE cand[c]
              /\ decided'[c] = IF w.file = "decided" /\ c = w.id THEN val ELSE decided[c]
              /\ patch'[c] = IF w.file = "patch" /\ c = w.id THEN val ELSE patch[c]
              /\ accepted'[c] = IF w.file = "accepted" /\ c = w.id THEN val ELSE accepted[c]
              /\ packet'[c] = IF w.file = "packet" /\ c = w.id THEN val ELSE packet[c]
              /\ report'[c] = IF w.file = "report" /\ c = w.id THEN val ELSE report[c]
  BY DEF FileTypes, Written, Put

\* A file holds what it held, what is written to it, or the torn half of it.
LEMMA WrittenTypes ==
  ASSUME FileTypes, NEW w \in Writes, WriteOK(w), NEW val \in {w.val, Torn}, Written(w, val)
  PROVE  FileTypes'
<1>1. /\ w.file \in {"cand", "latest"} => w.val \in Records /\ RecordOK(w.val) /\ w.val.id = w.id
      /\ w.file = "decided" => w.val \in Decisions
      /\ w.file \in {"patch", "accepted"} => w.val = TRUE
      /\ w.file = "packet" => w.val = "blocked"
      /\ w.file = "report" => w.val \in Reports /\ w.val.id = w.id
      /\ w.id \in Ids
      BY DEF WriteOK, RecordOK, Writes
<1>2. cand' \in [Ids -> {None, Torn} \cup Records] /\ latest' \in {None, Torn} \cup Records
      BY <1>1 DEF FileTypes, Written, Put
<1>3. decided' \in [Ids -> {None, Torn} \cup Decisions]
      BY <1>1 DEF FileTypes, Written, Put
<1>4. patch' \in [Ids -> {None, Torn, TRUE}] /\ accepted' \in [Ids -> {None, Torn, TRUE}]
      BY <1>1 DEF FileTypes, Written, Put
<1>5. packet' \in [Ids -> {None, Torn, "blocked"}]
      BY <1>1 DEF FileTypes, Written, Put
<1>6. report' \in [Ids -> {None, Torn} \cup Reports]
      BY <1>1 DEF FileTypes, Written, Put
<1>0. /\ latest' = IF w.file = "latest" THEN val ELSE latest
      /\ \A c \in Ids : /\ cand'[c] = (IF w.file = "cand" /\ c = w.id THEN val ELSE cand[c])
                         /\ report'[c] = (IF w.file = "report" /\ c = w.id THEN val ELSE report[c])
      BY Effect
<1>7. ASSUME NEW c \in Ids
      PROVE  /\ Readable(cand'[c]) => RecordOK(cand'[c]) /\ cand'[c].id = c
             /\ Readable(report'[c]) => report'[c].id = c
  <2>1. cand'[c] \in {cand[c], Torn} \/ (cand'[c] = w.val /\ w.file = "cand" /\ c = w.id)
        BY <1>0
  <2>2. report'[c] \in {report[c], Torn} \/ (report'[c] = w.val /\ w.file = "report" /\ c = w.id)
        BY <1>0
  <2> QED
      BY <1>1, <2>1, <2>2 DEF FileTypes, Readable
<1>8. Readable(latest') => RecordOK(latest')
      BY <1>0, <1>1 DEF FileTypes, Readable
<1> QED
    BY <1>2, <1>3, <1>4, <1>5, <1>6, <1>7, <1>8 DEF FileTypes, RecordOK, Readable

-------------------------------------------------------------------------------
(* What only goes one way: the files that are there, and the disturbed candidates. *)
Onward ==
  /\ source' = source /\ cycle.id <= cycle'.id /\ crossed \subseteq crossed' /\ broken \subseteq broken'
  /\ latest # None => latest' # None
  /\ \A c \in Ids :
       /\ decided[c] # None => decided'[c] # None
       /\ patch[c] # None => patch'[c] # None
       /\ accepted[c] # None => accepted'[c] # None
       /\ Granted(c) => Granted(c)' \/ c \in broken'
       /\ c <= cycle.id /\ ~CycleBusy(c) => ~CycleBusy(c)' /\ packet'[c] = packet[c]

\* What is backed stays so in every step with the facts of Onward.
LEMMA BackedStays ==
  ASSUME Onward, NEW rec, rec.id \in Ids, Backed(rec), cycle.id \in Nat, cycle'.id \in Nat
  PROVE  Backed(rec)'
<1>1. rec.id \in Nat
      BY IdsAreNumbers
<1>2. rec.id <= cycle'.id
      BY <1>1 DEF Onward, Backed
<1>3. ASSUME GovApproved(rec), rec.id \notin crossed' PROVE decided'[rec.id] # None
      BY <1>3 DEF Onward, Backed
<1>4. ASSUME Approved(rec), Undisturbed(rec.id)' PROVE Granted(rec.id)'
  <2>1. Undisturbed(rec.id) /\ rec.id \notin broken'
        BY <1>4 DEF Onward, Undisturbed
  <2>2. Granted(rec.id)
        BY <1>4, <2>1 DEF Backed
  <2> QED
      BY <2>1, <2>2 DEF Onward
<1> QED
    BY <1>2, <1>3, <1>4 DEF Backed, GovApproved, Approved

\* What the collector has shown stays right.
LEMMA EventStays ==
  ASSUME Onward, NEW e, EventOK(e)
  PROVE  EventOK(e)'
<1>1. e.id \in Ids /\ e.status \in Verdicts
      BY DEF EventOK
<1>2. accepted[e.id] # None => accepted'[e.id] # None
      BY <1>1 DEF Onward
<1>3. ASSUME e.page = "accepted", e.id \notin crossed', accepted'[e.id] = None
      PROVE  source' = "eeepc" /\ (e.id \in broken' \/ Coming(e.id, "accepted")')
  <2>1. e.id \notin crossed /\ accepted[e.id] = None
        BY <1>2, <1>3 DEF Onward
  <2>2. source = "eeepc" /\ (e.id \in broken \/ Coming(e.id, "accepted"))
        BY <1>3, <2>1 DEF EventOK
  <2>3. e.id \in broken \/ Granted(e.id)
        BY <2>2 DEF Granted
  <2>4. e.id \in broken' \/ Granted(e.id)'
        BY <1>1, <2>3 DEF Onward
  <2> QED
      BY <1>3, <2>2, <2>4 DEF Granted, Onward
<1> QED
    BY <1>1, <1>2, <1>3 DEF EventOK

\* What the collector has read stays right.
LEMMA ReadStays ==
  ASSUME Onward, NEW rec, ReadInv(rec), cycle.id \in Nat, cycle'.id \in Nat
  PROVE  ReadInv(rec)'
<1>1. rec.id \in Ids /\ rec.id \in Nat /\ rec \in Essences
      BY IdsAreNumbers DEF ReadInv, Essences
<1>2. rec.id <= cycle.id
      BY DEF ReadInv
<1>3. rec.id <= cycle'.id
      BY <1>1, <1>2 DEF Onward
<1>4. ASSUME Approved(rec), rec.id \notin crossed'
      PROVE  decided'[rec.id] # None \/ (packet'[rec.id] = None /\ ~CycleBusy(rec.id)')
  <2>1. decided[rec.id] # None \/ (packet[rec.id] = None /\ ~CycleBusy(rec.id))
        BY <1>4 DEF ReadInv, Onward
  <2> QED
      BY <1>1, <1>2, <2>1 DEF Onward
<1> QED
    BY <1>1, <1>3, <1>4 DEF ReadInv, Approved, GovApproved

\* Every step but the collector's.
LEMMA ReadingStays ==
  ASSUME Onward, TypeInv, TypeInv', ReadingInv, UNCHANGED <<reading, board>>
  PROVE  ReadingInv'
<1>1. cycle.id \in Nat /\ cycle'.id \in Nat
      BY IdsAreNumbers DEF TypeInv, CycleTypes
<1>2. reading.rec # None => ReadInv(reading.rec)'
      BY <1>1, ReadStays DEF ReadingInv
<1>3. reading.shown # None => EventOK(reading.shown)'
      BY EventStays DEF ReadingInv
<1>4. board # None => EventOK(board)'
      BY EventStays DEF ReadingInv
<1> QED
    BY <1>2, <1>3, <1>4 DEF ReadingInv, Onward

-------------------------------------------------------------------------------
(* A write *)

\* The jobs after writer p has taken its first write off.
Shorter(p) ==
  /\ job'[p] = Tail(job[p])
  /\ \A q \in Writers \ {p} : job'[q] = job[q]

\* The jobs after one write.
LEMMA WriteJobs ==
  ASSUME TypeInv, JobShape, NEW p \in Writers, Write(p), NEW w, w = Head(job[p])
  PROVE  /\ w \in Writes /\ WriteOK(w) /\ w = job[p][1] /\ 1 \in DOMAIN job[p] /\ Written(w, w.val)
         /\ Shorter(p) /\ JobTypes' /\ JobShape'
         /\ \A q \in Writers : \A n \in DOMAIN job'[q] :
              LET m == IF q = p THEN n + 1 ELSE n
              IN  /\ n \in Nat /\ m \in DOMAIN job[q] /\ job'[q][n] = job[q][m]
                  /\ \A file : Before(job[q], m, file) => Before(job'[q], n, file) \/ (q = p /\ w.file = file)
         /\ \A q \in Writers : \A n \in DOMAIN job[q] :
              (q = p /\ n = 1) \/ \E m \in DOMAIN job'[q] : job'[q][m] = job[q][n]
         /\ \A q \in Writers : \A c, file :
              Has(job'[q], c, file) <=> Has(job[q], c, file) /\ ~(q = p /\ c = w.id /\ file = w.file)
         /\ \A c, file : Coming(c, file) => Coming(c, file)' \/ (c = w.id /\ file = w.file)
         /\ \A c, file : Coming(c, file)' => Coming(c, file)
<1>1. /\ job \in [Writers -> Seq(Writes)] /\ job[p] # <<>> /\ job[p] \in Seq(Writes)
      /\ job' = [job EXCEPT ![p] = Tail(job[p])] /\ cycle' = cycle /\ Written(w, w.val)
      BY DEF TypeInv, JobTypes, Write
<1>2. Shorter(p)
      BY <1>1 DEF Shorter
<1>3. /\ 1 \in DOMAIN job[p] /\ w = job[p][1] /\ w \in Writes /\ Tail(job[p]) \in Seq(Writes)
      /\ DOMAIN job[p] \subseteq Nat \ {0}
      /\ \A n \in DOMAIN Tail(job[p]) : n \in Nat /\ n + 1 \in DOMAIN job[p] /\ Tail(job[p])[n] = job[p][n + 1]
      /\ \A n \in DOMAIN job[p] : n = 1 \/ (n - 1 \in DOMAIN Tail(job[p]) /\ Tail(job[p])[n - 1] = job[p][n])
      BY <1>1, TailShape
<1>4. WriteOK(w)
      BY <1>3 DEF TypeInv, JobTypes
<1>5. OneEach(job[p])
      BY DEF JobShape
<1>6. /\ OneEach(Tail(job[p]))
      /\ \A c, file : Has(Tail(job[p]), c, file) <=> Has(job[p], c, file) /\ ~(c = job[p][1].id /\ file = job[p][1].file)
      /\ \A n \in DOMAIN Tail(job[p]) : \A file :
           Before(job[p], n + 1, file) => Before(Tail(job[p]), n, file) \/ job[p][1].file = file
      BY <1>1, <1>5, TailHas
<1>7. \A q \in Writers : \A n \in DOMAIN job'[q] :
        LET m == IF q = p THEN n + 1 ELSE n
        IN  /\ n \in Nat /\ m \in DOMAIN job[q] /\ job'[q][n] = job[q][m]
            /\ \A file : Before(job[q], m, file) => Before(job'[q], n, file) \/ (q = p /\ w.file = file)
  <2> SUFFICES ASSUME NEW q \in Writers, NEW n \in DOMAIN job'[q]
               PROVE  LET m == IF q = p THEN n + 1 ELSE n
                      IN  /\ n \in Nat /\ m \in DOMAIN job[q] /\ job'[q][n] = job[q][m]
                          /\ \A file : Before(job[q], m, file) => Before(job'[q], n, file) \/ (q = p /\ w.file = file)
      OBVIOUS
  <2>1. CASE q = p
    <3>1. job'[q] = Tail(job[p]) /\ n \in DOMAIN Tail(job[p])
          BY <1>2, <2>1 DEF Shorter
    <3>2. n \in Nat /\ n + 1 \in DOMAIN job[q] /\ job'[q][n] = job[q][n + 1]
          BY <1>3, <2>1, <3>1
    <3>3. \A file : Before(job[q], n + 1, file) => Before(job'[q], n, file) \/ w.file = file
          BY <1>3, <1>6, <2>1, <3>1
    <3> QED
        BY <2>1, <3>2, <3>3
  <2>2. CASE q # p
    <3>1. job'[q] = job[q] /\ job[q] \in Seq(Writes)
          BY <1>1, <1>2, <2>2 DEF Shorter
    <3>2. n \in DOMAIN job[q] /\ DOMAIN job[q] = 1..Len(job[q]) /\ Len(job[q]) \in Nat
          BY <3>1
    <3> QED
        BY <2>2, <3>1, <3>2
  <2> QED
      BY <2>1, <2>2
<1>8. \A q \in Writers : \A n \in DOMAIN job[q] :
        (q = p /\ n = 1) \/ \E m \in DOMAIN job'[q] : job'[q][m] = job[q][n]
  <2>1. \A n \in DOMAIN job[p] : n = 1 \/ \E m \in DOMAIN job'[p] : job'[p][m] = job[p][n]
        BY <1>2, <1>3 DEF Shorter
  <2>2. \A q \in Writers \ {p} : \A n \in DOMAIN job[q] : \E m \in DOMAIN job'[q] : job'[q][m] = job[q][n]
        BY <1>2 DEF Shorter
  <2> QED
      BY <2>1, <2>2
<1>9. \A q \in Writers : \A c, file :
        Has(job'[q], c, file) <=> Has(job[q], c, file) /\ ~(q = p /\ c = w.id /\ file = w.file)
      BY <1>2, <1>3, <1>6 DEF Shorter
<1>10. JobTypes'
  <2>1. job' \in [Writers -> Seq(Writes)]
        BY <1>1, <1>3
  <2>2. \A q \in Writers : \A n \in DOMAIN job'[q] : WriteOK(job'[q][n])
        BY <1>7 DEF TypeInv, JobTypes
  <2> QED
      BY <2>1, <2>2 DEF JobTypes, WriteOK, RecordOK
<1>11. JobShape'
  <2>1. \A q \in Writers : OneEach(job'[q])
        BY <1>2, <1>6 DEF Shorter, JobShape
  <2>2. \A q \in Writers : \A n \in DOMAIN job'[q] :
          job'[q][n].id <= cycle'.id /\ (q = "cycle" => job'[q][n].id = cycle'.id)
        BY <1>1, <1>7 DEF JobShape
  <2> QED
      BY <2>1, <2>2 DEF JobShape, OneEach
<1>12. \A c, file : Coming(c, file) => Coming(c, file)' \/ (c = w.id /\ file = w.file)
      BY <1>9, Zenon DEF Coming
<1>13. \A c, file : Coming(c, file)' => Coming(c, file)
      BY <1>9, Zenon DEF Coming
<1> QED
    BY <1>1, <1>2, <1>3, <1>4, <1>7, <1>8, <1>9, <1>10, <1>11, <1>12, <1>13

\* A write only adds to what is there.
LEMMA WriteOnward ==
  ASSUME TypeInv, JobShape, LatestInv, NEW p \in Writers, Write(p)
  PROVE  Onward
<1> DEFINE w == Head(job[p])
<1>1. /\ w \in Writes /\ WriteOK(w) /\ w = job[p][1] /\ 1 \in DOMAIN job[p] /\ Written(w, w.val) /\ Shorter(p)
      /\ \A c, file : Coming(c, file) => Coming(c, file)' \/ (c = w.id /\ file = w.file)
      BY WriteJobs
<1>2. cycle' = cycle /\ crossed' = crossed /\ broken' = broken /\ source' = source /\ job[p] # <<>>
      BY DEF Write, bounds
<1>3. /\ latest' = IF w.file = "latest" THEN w.val ELSE latest
      /\ \A c \in Ids :
           /\ decided'[c] = IF w.file = "decided" /\ c = w.id THEN w.val ELSE decided[c]
           /\ patch'[c] = IF w.file = "patch" /\ c = w.id THEN w.val ELSE patch[c]
           /\ accepted'[c] = IF w.file = "accepted" /\ c = w.id THEN w.val ELSE accepted[c]
           /\ packet'[c] = IF w.file = "packet" /\ c = w.id THEN w.val ELSE packet[c]
      BY <1>1, Effect DEF TypeInv
<1>4. /\ w.file = "latest" => w.val # None
      /\ w.file \in {"decided", "patch", "accepted"} => w.val # None
      BY <1>1, Nothing DEF WriteOK, RecordOK, Readable
<1> HIDE DEF w
<1>5. latest # None => latest' # None
      BY <1>3, <1>4
<1>6. ASSUME NEW c \in Ids
      PROVE  /\ decided[c] # None => decided'[c] # None
             /\ patch[c] # None => patch'[c] # None
             /\ accepted[c] # None => accepted'[c] # None
      BY <1>3, <1>4
<1>7. ASSUME NEW c \in Ids, Granted(c) PROVE Granted(c)'
  <2>1. CASE accepted[c] # None
        BY <1>6, <2>1 DEF Granted
  <2>2. CASE Coming(c, "accepted")
    <3>1. Coming(c, "accepted")' \/ (c = w.id /\ "accepted" = w.file)
          BY <1>1, <2>2
    <3>2. c = w.id /\ "accepted" = w.file => accepted'[c] # None
          BY <1>3, <1>4
    <3> QED
        BY <3>1, <3>2 DEF Granted
  <2> QED
      BY <1>7, <2>1, <2>2 DEF Granted
<1>8. ASSUME NEW c \in Ids, ~CycleBusy(c) PROVE ~CycleBusy(c)' /\ packet'[c] = packet[c]
  <2>1. job["cycle"] = <<>> => job'["cycle"] = <<>>
        BY <1>1, <1>2 DEF Shorter, Writers
  <2>2. ~CycleBusy(c)'
        BY <1>2, <1>8, <2>1 DEF CycleBusy
  <2>3. w.file = "packet" => p = "cycle" /\ w.id = cycle.id
        BY <1>1 DEF LatestInv, JobShape
  <2>4. ~(w.file = "packet" /\ c = w.id)
        BY <1>2, <1>8, <2>3 DEF CycleBusy
  <2> QED
      BY <1>3, <2>2, <2>4
<1>9. cycle.id <= cycle'.id
      BY <1>2, IdsAreNumbers DEF TypeInv, CycleTypes
<1> QED
    BY <1>2, <1>5, <1>6, <1>7, <1>8, <1>9 DEF Onward

\* Every write of either writer preserves the invariant.
LEMMA WriteKeeps ==
  ASSUME IInv, NEW p \in Writers, Write(p)
  PROVE  IInv'
<1> DEFINE w == Head(job[p])
<1>0. TypeInv /\ JobShape /\ StateInv /\ SeenInv /\ LocalInv /\ ReadingInv
      BY DEF IInv
<1>1. /\ w \in Writes /\ WriteOK(w) /\ w = job[p][1] /\ 1 \in DOMAIN job[p] /\ Written(w, w.val) /\ Shorter(p)
      /\ JobTypes' /\ JobShape'
      BY <1>0, WriteJobs
<1>2. \A q \in Writers : \A n \in DOMAIN job'[q] :
        LET m == IF q = p THEN n + 1 ELSE n
        IN  /\ n \in Nat /\ m \in DOMAIN job[q] /\ job'[q][n] = job[q][m]
            /\ \A file : Before(job[q], m, file) => Before(job'[q], n, file) \/ (q = p /\ w.file = file)
      BY <1>0, WriteJobs
<1>3. /\ \A q \in Writers : \A n \in DOMAIN job[q] :
           (q = p /\ n = 1) \/ \E m \in DOMAIN job'[q] : job'[q][m] = job[q][n]
      /\ \A q \in Writers : \A c, file :
           Has(job'[q], c, file) <=> Has(job[q], c, file) /\ ~(q = p /\ c = w.id /\ file = w.file)
      /\ \A c, file : Coming(c, file) => Coming(c, file)' \/ (c = w.id /\ file = w.file)
      /\ \A c, file : Coming(c, file)' => Coming(c, file)
      BY <1>0, WriteJobs
<1>4. /\ cycle' = cycle /\ crossed' = crossed /\ broken' = broken /\ source' = source /\ job[p] # <<>>
      /\ reading' = reading /\ board' = board
      BY DEF Write, bounds
<1>5. /\ latest' = IF w.file = "latest" THEN w.val ELSE latest
      /\ \A c \in Ids :
           /\ cand'[c] = IF w.file = "cand" /\ c = w.id THEN w.val ELSE cand[c]
           /\ decided'[c] = IF w.file = "decided" /\ c = w.id THEN w.val ELSE decided[c]
           /\ patch'[c] = IF w.file = "patch" /\ c = w.id THEN w.val ELSE patch[c]
           /\ accepted'[c] = IF w.file = "accepted" /\ c = w.id THEN w.val ELSE accepted[c]
           /\ packet'[c] = IF w.file = "packet" /\ c = w.id THEN w.val ELSE packet[c]
           /\ report'[c] = IF w.file = "report" /\ c = w.id THEN w.val ELSE report[c]
      BY <1>0, <1>1, Effect DEF TypeInv
<1>6. Onward
      BY <1>0, WriteOnward DEF StateInv
<1>7. TypeInv'
  <2>1. FileTypes'
        BY <1>0, <1>1, WrittenTypes DEF TypeInv
  <2>2. CycleTypes'
        BY <1>0, <1>4 DEF TypeInv, CycleTypes, RecordOK
  <2> QED
      BY <1>0, <1>1, <1>4, <2>1, <2>2 DEF TypeInv
<1>8. /\ w.id \in Ids /\ w.id \in Nat /\ w.id <= cycle.id /\ cycle.id \in Nat
      /\ p = "cycle" => w.id = cycle.id
      /\ w.file \in {"cand", "latest"} => RecordOK(w.val) /\ w.val.id = w.id /\ Readable(w.val)
      /\ w.file = "decided" => w.val \in Decisions
      /\ w.file = "report" => w.val.id = w.id
      /\ w.file \in {"latest", "decided", "patch", "accepted"} => w.val # None
  <2>0. w.id \in Ids /\ cycle.id \in Ids \cup {0}
    <3> HIDE DEF w
    <3> QED
        BY <1>0, <1>1 DEF TypeInv, CycleTypes, Writes
  <2>1. w.id \in Ids /\ w.id \in Nat /\ cycle.id \in Nat
    <3> HIDE DEF w
    <3> QED
        BY <2>0, IdsAreNumbers
  <2>2. w.id <= cycle.id /\ (p = "cycle" => w.id = cycle.id)
        BY <1>0, <1>1 DEF JobShape
  <2> QED
      BY <1>1, <2>1, <2>2, Nothing DEF WriteOK, RecordOK, Readable
<1> HIDE DEF w
<1>9. OrderInv'
  <2>1. ASSUME NEW c \in Ids, accepted'[c] # None PROVE decided'[c] # None /\ patch'[c] # None
    <3>1. CASE accepted[c] # None
      <4>1. decided[c] # None /\ patch[c] # None
            BY <1>0, <3>1 DEF StateInv, OrderInv
      <4> QED
          BY <4>1, <1>6 DEF Onward
    <3>2. CASE accepted[c] = None
      <4>1. w.file = "accepted" /\ c = w.id
            BY <1>5, <2>1, <3>2
      <4>2. ~Before(job[p], 1, "decided") /\ ~Before(job[p], 1, "patch")
            BY DEF Before
      <4>3. decided[c] # None /\ patch[c] # None
            BY <1>0, <1>1, <4>1, <4>2 DEF StateInv, OrderInv
      <4> QED
          BY <4>3, <1>6 DEF Onward
    <3> QED
        BY <3>1, <3>2
  <2>2. ASSUME NEW q \in Writers, NEW n \in DOMAIN job'[q], job'[q][n].file = "accepted"
        PROVE  /\ decided'[job'[q][n].id] # None \/ Before(job'[q], n, "decided")
               /\ patch'[job'[q][n].id] # None \/ Before(job'[q], n, "patch")
    <3> DEFINE m == IF q = p THEN n + 1 ELSE n
    <3>1. /\ m \in DOMAIN job[q] /\ job'[q][n] = job[q][m]
          /\ \A file : Before(job[q], m, file) => Before(job'[q], n, file) \/ (q = p /\ w.file = file)
          BY <1>2
    <3> DEFINE c == job[q][m].id
    <3>2. c \in Ids /\ (q = p => c = w.id)
      <4> HIDE DEF m
      <4>1. job[q] \in Seq(Writes) /\ OneEach(job[q])
            BY <1>0 DEF TypeInv, JobTypes, JobShape
      <4>2. job[q][m] \in Writes
            BY <3>1, <4>1
      <4>3. job[q][m].id \in Ids
            BY <4>2 DEF Writes
      <4>4. q = p => 1 \in DOMAIN job[q] /\ w = job[q][1]
            BY <1>1
      <4>5. q = p => job[q][m].id = w.id
            BY <3>1, <4>1, <4>4 DEF OneEach
      <4> QED
          BY <4>3, <4>5
    <3>3. /\ decided[c] # None \/ Before(job[q], m, "decided")
          /\ patch[c] # None \/ Before(job[q], m, "patch")
          BY <1>0, <2>2, <3>1 DEF StateInv, OrderInv
    <3> HIDE DEF m, c
    <3>4. decided'[c] # None \/ Before(job'[q], n, "decided")
          BY <1>5, <1>6, <1>8, <3>1, <3>2, <3>3 DEF Onward
    <3>5. patch'[c] # None \/ Before(job'[q], n, "patch")
          BY <1>5, <1>6, <1>8, <3>1, <3>2, <3>3 DEF Onward
    <3> QED
        BY <3>1, <3>4, <3>5 DEF c
  <2> QED
      BY <2>1, <2>2 DEF OrderInv, Before
<1>10. NewInv'
  <2>1. ASSUME NEW c \in Ids, c > cycle'.id
        PROVE  cand'[c] = None /\ decided'[c] = None /\ report'[c] = None /\ c \notin crossed' \cup broken'
    <3>1. c # w.id
          BY <1>4, <1>8, <2>1
    <3> QED
        BY <1>0, <1>4, <1>5, <2>1, <3>1 DEF StateInv, NewInv
  <2>2. ASSUME NEW c \in Ids, CycleBusy(c)', c \notin crossed'
        PROVE  c \notin broken' /\ \A n \in DOMAIN job'["operator"] : job'["operator"][n].id # c
    <3>1. CycleBusy(c)
          BY <1>1, <1>4, <2>2 DEF CycleBusy, Shorter, Writers
    <3>2. c \notin broken /\ \A n \in DOMAIN job["operator"] : job["operator"][n].id # c
          BY <1>0, <1>4, <2>2, <3>1 DEF StateInv, NewInv
    <3> QED
        BY <1>2, <1>4, <3>2 DEF Writers
  <2> QED
      BY <2>1, <2>2 DEF NewInv
<1>11. LatestInv'
  <2>1. LatestInv
        BY <1>0 DEF StateInv
  <2>2. ASSUME NEW c \in Ids, packet'[c] # None PROVE latest' # None
    <3>1. packet[c] # None \/ w.file = "packet"
          BY <1>5, <2>2
    <3>2. latest # None
          BY <1>1, <2>1, <3>1 DEF LatestInv
    <3> QED
        BY <1>6, <3>2 DEF Onward
  <2>3. ASSUME NEW q \in Writers, NEW n \in DOMAIN job'[q], job'[q][n].file = "packet"
        PROVE  q = "cycle" /\ latest' # None
    <3>1. \E m \in DOMAIN job[q] : job'[q][n] = job[q][m]
          BY <1>2
    <3>2. q = "cycle" /\ latest # None
          BY <2>1, <2>3, <3>1 DEF LatestInv
    <3> QED
        BY <1>6, <3>2 DEF Onward
  <2>4. cycle'.step = "idle" /\ job'["cycle"] # <<>> => latest' # None
    <3>1. job'["cycle"] # <<>> => job["cycle"] # <<>>
          BY <1>1, <1>4 DEF Shorter, Writers
    <3> QED
        BY <1>4, <1>6, <2>1, <3>1 DEF LatestInv, Onward
  <2>5. cycle'.step \notin {"idle", "final"} => latest' # None
        BY <1>4, <1>6, <2>1 DEF LatestInv, Onward
  <2>6. cycle'.step = "final" => latest' # None \/ Has(job'["cycle"], cycle'.id, "latest")
    <3>1. cycle'.step = "final" => latest # None \/ Has(job["cycle"], cycle.id, "latest")
          BY <1>4, <2>1 DEF LatestInv
    <3>2. Has(job["cycle"], cycle.id, "latest") => Has(job'["cycle"], cycle.id, "latest") \/ w.file = "latest"
          BY <1>3 DEF Writers
    <3>3. w.file = "latest" => latest' # None
          BY <1>5, <1>8
    <3> QED
        BY <1>4, <1>6, <3>1, <3>2, <3>3 DEF Onward
  <2> QED
      BY <2>2, <2>3, <2>4, <2>5, <2>6 DEF LatestInv, Has
\* Where the cycle is busy and no review ran beside it, it is the cycle that writes.
<1>12. CycleBusy(w.id) /\ w.id \notin crossed => p = "cycle"
  <2>1. p = "operator" => \E n \in DOMAIN job["operator"] : job["operator"][n].id = w.id
        BY <1>1
  <2> QED
      BY <1>0, <1>8, <2>1 DEF StateInv, NewInv, Writers
<1>13. FirstInv'
  <2> SUFFICES ASSUME cycle'.step = "final", cycle'.id \notin crossed'
               PROVE  /\ Readable(cand'[cycle'.id]) => cand'[cycle'.id].decision = "not_ready"
                      /\ \A n \in DOMAIN job'["cycle"] :
                           job'["cycle"][n].file = "cand" => job'["cycle"][n].val.decision = "not_ready"
      BY DEF FirstInv, Readable
  <2>1. /\ cycle.step = "final" /\ cycle.id \notin crossed /\ cycle.id \in Ids
        /\ Readable(cand[cycle.id]) => cand[cycle.id].decision = "not_ready"
        /\ \A n \in DOMAIN job["cycle"] :
             job["cycle"][n].file = "cand" => job["cycle"][n].val.decision = "not_ready"
        BY <1>0, <1>4 DEF StateInv, FirstInv, TypeInv, CycleTypes
  <2>2. \A n \in DOMAIN job'["cycle"] : \E m \in DOMAIN job["cycle"] : job'["cycle"][n] = job["cycle"][m]
        BY <1>2 DEF Writers
  <2>3. w.file = "cand" /\ w.id = cycle.id => w.val.decision = "not_ready"
        BY <1>1, <1>12, <2>1 DEF CycleBusy
  <2>4. Readable(cand'[cycle.id]) => cand'[cycle.id].decision = "not_ready"
        BY <1>5, <2>1, <2>3
  <2> QED
      BY <1>4, <2>1, <2>2, <2>4
<1>14. \A c \in Ids : \A v \in Decisions : Ruled(c, v)' => Ruled(c, v)
  <2> SUFFICES ASSUME NEW c \in Ids, NEW v \in Decisions, Ruled(c, v)' PROVE Ruled(c, v)
      OBVIOUS
  <2>1. ASSUME NEW q \in Writers, NEW n \in DOMAIN job'[q], job'[q][n] = To("decided", c, v)
        PROVE  Ruled(c, v)
    <3>1. \E m \in DOMAIN job[q] : job[q][m] = To("decided", c, v)
          BY <1>2, <2>1
    <3> QED
        BY <3>1 DEF Ruled
  <2>2. ASSUME decided'[c] = v, ~Coming(c, "decided")' PROVE Ruled(c, v)
    <3>1. CASE w.file = "decided" /\ w.id = c
      <4>1. w.val = v
            BY <1>5, <2>2, <3>1
      <4>2. w = To("decided", c, v)
            BY <1>1, <3>1, <4>1 DEF Writes, To
      <4> QED
          BY <1>1, <4>2 DEF Ruled
    <3>2. CASE ~(w.file = "decided" /\ w.id = c)
      <4>1. decided[c] = v /\ ~Coming(c, "decided")
            BY <1>3, <1>5, <2>2, <3>2
      <4> QED
          BY <4>1 DEF Ruled
    <3> QED
        BY <3>1, <3>2
  <2> QED
      BY <2>1, <2>2 DEF Ruled
<1>15. AgreeInv'
  <2> SUFFICES ASSUME NEW c \in Ids, Undisturbed(c)'
               PROVE  /\ decided'[c] # Torn
                      /\ \A v \in Decisions : Ruled(c, v)' =>
                           /\ \A q \in Writers : \A n \in DOMAIN job'[q] :
                                job'[q][n].id = c /\ job'[q][n].file = "cand" =>
                                  job'[q][n].val.decision = v /\ job'[q][n].val.review = "reviewed"
                           /\ ~Coming(c, "cand")' => cand'[c].decision = v /\ cand'[c].review = "reviewed"
                           /\ v = "accept" => Granted(c)'
      BY DEF AgreeInv
  <2>1. Undisturbed(c) /\ c \notin broken'
        BY <1>4 DEF Undisturbed
  <2>2. decided[c] # Torn
        BY <1>0, <2>1 DEF StateInv, AgreeInv
  <2>3. decided'[c] # Torn
        BY <1>5, <1>8, <2>2, Nothing
  <2>4. ASSUME NEW v \in Decisions, Ruled(c, v)'
        PROVE  /\ \A q \in Writers : \A n \in DOMAIN job'[q] :
                    job'[q][n].id = c /\ job'[q][n].file = "cand" =>
                      job'[q][n].val.decision = v /\ job'[q][n].val.review = "reviewed"
               /\ ~Coming(c, "cand")' => cand'[c].decision = v /\ cand'[c].review = "reviewed"
               /\ v = "accept" => Granted(c)'
    <3>1. Ruled(c, v)
          BY <1>14, <2>4
    <3>2. /\ \A q \in Writers : \A n \in DOMAIN job[q] :
               job[q][n].id = c /\ job[q][n].file = "cand" =>
                 job[q][n].val.decision = v /\ job[q][n].val.review = "reviewed"
          /\ ~Coming(c, "cand") => cand[c].decision = v /\ cand[c].review = "reviewed"
          /\ v = "accept" => Granted(c)
          BY <1>0, <2>1, <3>1 DEF StateInv, AgreeInv
    <3>3. \A q \in Writers : \A n \in DOMAIN job'[q] :
            job'[q][n].id = c /\ job'[q][n].file = "cand" =>
              job'[q][n].val.decision = v /\ job'[q][n].val.review = "reviewed"
          BY <1>2, <3>2
    <3>4. ASSUME ~Coming(c, "cand")' PROVE cand'[c].decision = v /\ cand'[c].review = "reviewed"
      <4>1. CASE w.file = "cand" /\ w.id = c
            BY <1>1, <1>5, <3>2, <4>1
      <4>2. CASE ~(w.file = "cand" /\ w.id = c)
        <5>1. ~Coming(c, "cand")
              BY <1>3, <3>4, <4>2
        <5> QED
            BY <1>5, <3>2, <4>2, <5>1
      <4> QED
          BY <4>1, <4>2
    <3>5. v = "accept" => Granted(c)'
          BY <1>6, <2>1, <3>2 DEF Onward
    <3> QED
        BY <3>3, <3>4, <3>5
  <2> QED
      BY <2>3, <2>4
<1>16. CycleInv'
  <2>1. ASSUME cycle.step \notin {"idle", "accepted"}, cycle.id \notin crossed
        PROVE  decided'[cycle.id] = None /\ ~Has(job'["cycle"], cycle.id, "decided")
    <3>1. decided[cycle.id] = None /\ ~Has(job["cycle"], cycle.id, "decided") /\ cycle.id \in Ids
          BY <1>0, <2>1 DEF StateInv, CycleInv, TypeInv, CycleTypes
    <3>2. ~(w.file = "decided" /\ w.id = cycle.id)
          BY <1>1, <1>12, <2>1, <3>1 DEF Has, CycleBusy
    <3> QED
        BY <1>3, <1>5, <3>1, <3>2 DEF Writers
  <2>2. ASSUME cycle.step = "accepted", cycle.id \notin crossed PROVE Ruled(cycle.id, "accept")'
    <3>1. Ruled(cycle.id, "accept") /\ cycle.id \in Ids
          BY <1>0, <2>2 DEF StateInv, CycleInv, TypeInv, CycleTypes
    <3>2. CASE \E q \in Writers : \E n \in DOMAIN job[q] : job[q][n] = To("decided", cycle.id, "accept")
      <4>1. PICK q \in Writers : \E n \in DOMAIN job[q] : job[q][n] = To("decided", cycle.id, "accept")
            BY <3>2
      <4>2. PICK n \in DOMAIN job[q] : job[q][n] = To("decided", cycle.id, "accept")
            BY <4>1
      <4>3. CASE q = p /\ n = 1
        <5>1. w = To("decided", cycle.id, "accept")
              BY <1>1, <4>2, <4>3
        <5>2. w.file = "decided" /\ w.id = cycle.id /\ w.val = "accept"
              BY <5>1 DEF To
        <5>3. p = "cycle"
              BY <1>12, <2>2, <5>2 DEF CycleBusy
        <5>4. ~Has(job'["cycle"], cycle.id, "decided")
              BY <1>3, <5>2, <5>3
        <5>5. ~Has(job["operator"], cycle.id, "decided")
              BY <1>0, <2>2, <3>1 DEF StateInv, NewInv, CycleBusy, Has
        <5>6. job'["operator"] = job["operator"]
              BY <1>1, <5>3 DEF Shorter, Writers
        <5>7. ~Coming(cycle.id, "decided")'
              BY <1>4, <5>4, <5>5, <5>6 DEF Coming, Writers
        <5>8. decided'[cycle.id] = "accept"
              BY <1>5, <3>1, <5>2
        <5> QED
            BY <1>4, <5>7, <5>8 DEF Ruled
      <4>4. CASE ~(q = p /\ n = 1)
        <5>1. \E m \in DOMAIN job'[q] : job'[q][m] = To("decided", cycle.id, "accept")
              BY <1>3, <4>2, <4>4
        <5> QED
            BY <1>4, <5>1 DEF Ruled
      <4> QED
          BY <4>3, <4>4
    <3>3. CASE decided[cycle.id] = "accept" /\ ~Coming(cycle.id, "decided")
      <4>1. ~(w.file = "decided" /\ w.id = cycle.id)
            BY <1>1, <3>3 DEF Coming, Has
      <4>2. decided'[cycle.id] = "accept"
            BY <1>5, <3>1, <3>3, <4>1
      <4>3. ~Coming(cycle.id, "decided")'
            BY <1>3, <1>4, <3>3
      <4> QED
          BY <1>4, <4>2, <4>3 DEF Ruled
    <3> QED
        BY <3>1, <3>2, <3>3 DEF Ruled
  <2>3. cycle.step = "accepted" => cycle.mine.decision = "accept" /\ cycle.mine.review = "reviewed"
        BY <1>0 DEF StateInv, CycleInv
  <2> QED
      BY <1>4, <2>1, <2>2, <2>3 DEF CycleInv, Has
<1>17. \A rec : rec.id \in Ids /\ Backed(rec) => Backed(rec)'
      BY <1>4, <1>6, <1>8, BackedStays
<1>18. SeenInv'
  <2>1. \A q \in Writers : \A n \in DOMAIN job[q] :
          job[q][n].file \in {"cand", "latest"} => job[q][n].val.id \in Ids /\ Backed(job[q][n].val)
        BY <1>0 DEF SeenInv, TypeInv, JobTypes, WriteOK, RecordOK, Records
  <2>2. ASSUME NEW rec, rec = latest', Readable(rec) PROVE Backed(rec)'
    <3>1. rec = latest \/ (w.file = "latest" /\ rec = w.val)
          BY <1>5, <2>2
    <3>2. rec.id \in Ids /\ Backed(rec)
          BY <1>0, <1>1, <2>1, <2>2, <3>1 DEF SeenInv, TypeInv, FileTypes, RecordOK, Records
    <3> QED
        BY <1>17, <3>2
  <2>3. ASSUME NEW c \in Ids, NEW rec, rec = cand'[c], Readable(rec) PROVE Backed(rec)'
    <3>1. rec = cand[c] \/ (w.file = "cand" /\ rec = w.val)
          BY <1>5, <2>3
    <3>2. rec.id \in Ids /\ Backed(rec)
          BY <1>0, <1>1, <2>1, <2>3, <3>1 DEF SeenInv, TypeInv, FileTypes, RecordOK, Records
    <3> QED
        BY <1>17, <3>2
  <2>4. ASSUME NEW q \in Writers, NEW n \in DOMAIN job'[q], job'[q][n].file \in {"cand", "latest"},
               NEW rec, rec = job'[q][n].val
        PROVE  Backed(rec)'
    <3>1. PICK m \in DOMAIN job[q] : job'[q][n] = job[q][m]
          BY <1>2
    <3>2. rec.id \in Ids /\ Backed(rec)
          BY <2>1, <2>4, <3>1
    <3> QED
        BY <1>17, <3>2
  <2>5. ASSUME NEW rec, rec = cycle'.mine, cycle'.step = "accepted" PROVE Backed(rec)'
    <3>1. rec.id \in Ids /\ Backed(rec)
          BY <1>0, <1>4, <2>5 DEF SeenInv, TypeInv, CycleTypes
    <3> QED
        BY <1>17, <3>1
  <2> QED
      BY <2>2, <2>3, <2>4, <2>5 DEF SeenInv, Backed, Readable, Approved, GovApproved, Undisturbed
<1>19. LocalInv'
  <2>1. \A file : ~Before(job[p], 1, file)
        BY DEF Before
  <2>2. w.id \notin crossed =>
          /\ w.file = "latest" /\ w.val.decision = "accept" => decided'[w.id] # None
          /\ w.file = "report" /\ w.val.decision = "accept" => decided'[w.id] # None
        BY <1>0, <1>1, <1>6, <1>8, <2>1 DEF LocalInv, Onward
  <2>3. Readable(latest') /\ latest'.id \notin crossed' /\ latest'.decision = "accept" => decided'[latest'.id] # None
    <3>1. CASE w.file = "latest"
          BY <1>4, <1>5, <1>8, <2>2, <3>1
    <3>2. CASE w.file # "latest"
      <4>1. Readable(latest) => latest.id \in Ids
            BY <1>0 DEF TypeInv, FileTypes, RecordOK, Records
      <4> QED
          BY <1>0, <1>4, <1>5, <1>6, <3>2, <4>1 DEF LocalInv, Onward
    <3> QED
        BY <3>1, <3>2
  <2>4. \A c \in Ids \ crossed' : Readable(report'[c]) /\ report'[c].decision = "accept" => decided'[c] # None
        BY <1>0, <1>4, <1>5, <1>6, <2>2 DEF LocalInv, Onward
  <2>5. ASSUME NEW q \in Writers, NEW n \in DOMAIN job'[q], job'[q][n].id \notin crossed',
               job'[q][n].val.decision = "accept"
        PROVE  /\ job'[q][n].file = "latest" => decided'[job'[q][n].id] # None \/ Before(job'[q], n, "decided")
               /\ job'[q][n].file = "report" => decided'[job'[q][n].id] # None
    <3> DEFINE m == IF q = p THEN n + 1 ELSE n
    <3>1. /\ m \in DOMAIN job[q] /\ job'[q][n] = job[q][m]
          /\ \A file : Before(job[q], m, file) => Before(job'[q], n, file) \/ (q = p /\ w.file = file)
          BY <1>2
    <3> DEFINE c == job[q][m].id
    <3>2. c \in Ids /\ (q = p => c = w.id)
      <4> HIDE DEF m
      <4>1. job[q] \in Seq(Writes) /\ OneEach(job[q])
            BY <1>0 DEF TypeInv, JobTypes, JobShape
      <4>2. job[q][m] \in Writes
            BY <3>1, <4>1
      <4>3. job[q][m].id \in Ids
            BY <4>2 DEF Writes
      <4>4. q = p => 1 \in DOMAIN job[q] /\ w = job[q][1]
            BY <1>1
      <4>5. q = p => job[q][m].id = w.id
            BY <3>1, <4>1, <4>4 DEF OneEach
      <4> QED
          BY <4>3, <4>5
    <3> HIDE DEF m
    <3>3. /\ job[q][m].file = "latest" => decided[c] # None \/ Before(job[q], m, "decided")
          /\ job[q][m].file = "report" => decided[c] # None
          BY <1>0, <1>4, <2>5, <3>1 DEF LocalInv
    <3>4. job'[q][n].id = c /\ job'[q][n].file = job[q][m].file
          BY <3>1
    <3> HIDE DEF c
    <3>5. decided[c] # None => decided'[c] # None
          BY <1>6, <3>2 DEF Onward
    <3>6. Before(job[q], m, "decided") => decided'[c] # None \/ Before(job'[q], n, "decided")
          BY <1>5, <1>8, <3>1, <3>2
    <3> QED
        BY <3>3, <3>4, <3>5, <3>6
  <2> QED
      BY <2>3, <2>4, <2>5 DEF LocalInv, Before, Readable
<1>20. ReadingInv'
      BY <1>0, <1>4, <1>6, <1>7, ReadingStays
<1> QED
    BY <1>1, <1>7, <1>9, <1>10, <1>11, <1>13, <1>15, <1>16, <1>18, <1>19, <1>20 DEF IInv, StateInv

-------------------------------------------------------------------------------
(* A writer that dies *)

\* A writer that dies leaves its first write undone or torn, and the others undone.
LEMMA DeathEffect ==
  ASSUME TypeInv, JobShape, LatestInv, NEW p \in Writers, Dies(p), NEW w, w = Head(job[p])
  PROVE  /\ w \in Writes /\ WriteOK(w) /\ w = job[p][1] /\ 1 \in DOMAIN job[p] /\ w.id \in Ids
         /\ job' = [job EXCEPT ![p] = <<>>] /\ job'[p] = <<>> /\ \A q \in Writers \ {p} : job'[q] = job[q]
         /\ cycle' = IF p = "cycle" THEN [Idle EXCEPT !.id = cycle.id] ELSE cycle
         /\ cycle'.id = cycle.id /\ crossed' = crossed /\ broken' = broken \cup {w.id} /\ source' = source
         /\ reading' = reading /\ board' = board
         /\ latest' \in {latest, Torn}
         /\ \A c \in Ids :
              /\ cand'[c] = cand[c] \/ (cand'[c] = Torn /\ c = w.id)
              /\ decided'[c] = decided[c] \/ (decided'[c] = Torn /\ c = w.id)
              /\ patch'[c] = patch[c] \/ (patch'[c] = Torn /\ c = w.id)
              /\ accepted'[c] = accepted[c] \/ (accepted'[c] = Torn /\ c = w.id /\ w.file = "accepted")
              /\ packet'[c] = packet[c] \/ (packet'[c] = Torn /\ c = w.id /\ w.file = "packet")
              /\ report'[c] = report[c] \/ (report'[c] = Torn /\ c = w.id)
         /\ \A n \in DOMAIN job[p] : job[p][n].id = w.id
         /\ \A c, file : c # w.id => (Coming(c, file)' <=> Coming(c, file))
         /\ FileTypes'
<1>1. /\ job \in [Writers -> Seq(Writes)] /\ job[p] # <<>> /\ job[p] \in Seq(Writes)
      /\ job' = [job EXCEPT ![p] = <<>>]
      /\ (Written(w, Torn) \/ UNCHANGED files) /\ crossed' = crossed /\ broken' = broken \cup {w.id}
      /\ cycle' = IF p = "cycle" THEN [Idle EXCEPT !.id = cycle.id] ELSE cycle
      /\ source' = source /\ reading' = reading /\ board' = board
  <2>1. job \in [Writers -> Seq(Writes)] /\ job[p] \in Seq(Writes)
        BY DEF TypeInv, JobTypes
  <2> QED
      BY <2>1 DEF Dies
<1>2. 1 \in DOMAIN job[p] /\ w = job[p][1] /\ w \in Writes
      BY <1>1, TailShape
<1>3. WriteOK(w) /\ w.id \in Ids
      BY <1>2 DEF TypeInv, JobTypes, Writes
<1>4. job'[p] = <<>> /\ \A q \in Writers \ {p} : job'[q] = job[q]
      BY <1>1
<1>5. cycle'.id = cycle.id
      BY <1>1 DEF Idle
<1>6. FileTypes /\ (UNCHANGED files => FileTypes')
  <2>1. FileTypes
        BY DEF TypeInv
  <2>2. ASSUME UNCHANGED files PROVE FileTypes'
    <3>1. /\ cand' = cand /\ latest' = latest /\ decided' = decided /\ patch' = patch
          /\ accepted' = accepted /\ packet' = packet /\ report' = report
          BY <2>2 DEF files
    <3> QED
        BY <2>1, <3>1 DEF FileTypes, Readable
  <2> QED
      BY <2>1, <2>2
<1>7. FileTypes'
      BY <1>1, <1>2, <1>3, <1>6, WrittenTypes
<1>8. /\ latest' \in {latest, Torn}
      /\ \A c \in Ids :
              /\ cand'[c] = cand[c] \/ (cand'[c] = Torn /\ c = w.id)
              /\ decided'[c] = decided[c] \/ (decided'[c] = Torn /\ c = w.id)
              /\ patch'[c] = patch[c] \/ (patch'[c] = Torn /\ c = w.id)
              /\ accepted'[c] = accepted[c] \/ (accepted'[c] = Torn /\ c = w.id /\ w.file = "accepted")
              /\ packet'[c] = packet[c] \/ (packet'[c] = Torn /\ c = w.id /\ w.file = "packet")
              /\ report'[c] = report[c] \/ (report'[c] = Torn /\ c = w.id)
  <2>1. CASE UNCHANGED files
        BY <2>1 DEF files
  <2>2. CASE Written(w, Torn)
    <3>1. /\ latest' = IF w.file = "latest" THEN Torn ELSE latest
          /\ \A c \in Ids :
              /\ cand'[c] = IF w.file = "cand" /\ c = w.id THEN Torn ELSE cand[c]
              /\ decided'[c] = IF w.file = "decided" /\ c = w.id THEN Torn ELSE decided[c]
              /\ patch'[c] = IF w.file = "patch" /\ c = w.id THEN Torn ELSE patch[c]
              /\ accepted'[c] = IF w.file = "accepted" /\ c = w.id THEN Torn ELSE accepted[c]
              /\ packet'[c] = IF w.file = "packet" /\ c = w.id THEN Torn ELSE packet[c]
              /\ report'[c] = IF w.file = "report" /\ c = w.id THEN Torn ELSE report[c]
          BY <1>2, <1>6, <2>2, Effect
    <3> QED
        BY <3>1
  <2> QED
      BY <1>1, <2>1, <2>2
<1>9. \A n \in DOMAIN job[p] : job[p][n].id = w.id
      BY <1>2 DEF JobShape, OneEach
<1>10. ASSUME NEW c, NEW file, c # w.id PROVE Coming(c, file)' <=> Coming(c, file)
  <2>1. ~Has(job[p], c, file) /\ ~Has(job'[p], c, file)
        BY <1>4, <1>9, <1>10 DEF Has
  <2>2. \A q \in Writers : Has(job'[q], c, file) <=> Has(job[q], c, file)
        BY <1>4, <2>1
  <2> QED
      BY <2>2, Zenon DEF Coming
<1> QED
    BY <1>1, <1>2, <1>3, <1>4, <1>5, <1>7, <1>8, <1>9, <1>10

\* A death preserves the invariant: its candidate is disturbed from then on.
LEMMA DeathKeeps ==
  ASSUME IInv, NEW p \in Writers, Dies(p)
  PROVE  IInv'
<1> DEFINE w == Head(job[p])
<1>0. TypeInv /\ JobShape /\ StateInv /\ SeenInv /\ LocalInv /\ ReadingInv
      BY DEF IInv
<1>1. /\ w \in Writes /\ WriteOK(w) /\ w = job[p][1] /\ 1 \in DOMAIN job[p] /\ w.id \in Ids
      /\ job' = [job EXCEPT ![p] = <<>>] /\ job'[p] = <<>> /\ \A q \in Writers \ {p} : job'[q] = job[q]
      /\ cycle' = IF p = "cycle" THEN [Idle EXCEPT !.id = cycle.id] ELSE cycle
      /\ cycle'.id = cycle.id /\ crossed' = crossed /\ broken' = broken \cup {w.id} /\ source' = source
      /\ reading' = reading /\ board' = board
      /\ latest' \in {latest, Torn}
      /\ \A n \in DOMAIN job[p] : job[p][n].id = w.id
      /\ FileTypes'
      BY <1>0, DeathEffect DEF StateInv
<1>2. \A c \in Ids :
        /\ cand'[c] = cand[c] \/ (cand'[c] = Torn /\ c = w.id)
        /\ decided'[c] = decided[c] \/ (decided'[c] = Torn /\ c = w.id)
        /\ patch'[c] = patch[c] \/ (patch'[c] = Torn /\ c = w.id)
        /\ accepted'[c] = accepted[c] \/ (accepted'[c] = Torn /\ c = w.id /\ w.file = "accepted")
        /\ packet'[c] = packet[c] \/ (packet'[c] = Torn /\ c = w.id /\ w.file = "packet")
        /\ report'[c] = report[c] \/ (report'[c] = Torn /\ c = w.id)
      BY <1>0, DeathEffect DEF StateInv
<1>3. \A c, file : c # w.id => (Coming(c, file)' <=> Coming(c, file))
      BY <1>0, DeathEffect DEF StateInv
<1> HIDE DEF w
<1>4. w.id \in Nat /\ cycle.id \in Nat /\ w.id <= cycle.id /\ (p = "cycle" => w.id = cycle.id)
  <2>1. cycle.id \in Ids \cup {0}
        BY <1>0 DEF TypeInv, CycleTypes
  <2> QED
      BY <1>0, <1>1, <2>1, IdsAreNumbers DEF JobShape
\* Where the cycle is busy and no review ran beside it, an operator who dies is at another candidate.
<1>5. ASSUME CycleBusy(w.id), w.id \notin crossed PROVE p = "cycle"
  <2>1. p = "operator" => \E n \in DOMAIN job["operator"] : job["operator"][n].id = w.id
        BY <1>1
  <2> QED
      BY <1>0, <1>1, <1>5, <2>1 DEF StateInv, NewInv, Writers
<1>6. p = "cycle" => CycleBusy(w.id)
      BY <1>1, <1>4 DEF CycleBusy
<1>7. p = "cycle" => cycle'.step = "idle" /\ job'["cycle"] = <<>>
      BY <1>1 DEF Idle
<1>8. p # "cycle" => cycle' = cycle /\ job'["cycle"] = job["cycle"]
      BY <1>1 DEF Writers
<1>9. Onward
  <2>1. ASSUME NEW c \in Ids
        PROVE  /\ decided[c] # None => decided'[c] # None
               /\ patch[c] # None => patch'[c] # None
               /\ accepted[c] # None => accepted'[c] # None
        BY <1>2, Nothing
  <2>2. ASSUME NEW c \in Ids, Granted(c) PROVE Granted(c)' \/ c \in broken'
        BY <1>1, <1>3, <2>1, <2>2 DEF Granted
  <2>3. ASSUME NEW c \in Ids, ~CycleBusy(c) PROVE ~CycleBusy(c)' /\ packet'[c] = packet[c]
    <3>1. ~CycleBusy(c)'
          BY <1>7, <1>8, <2>3 DEF CycleBusy
    <3>2. w.file = "packet" => p = "cycle"
          BY <1>0, <1>1 DEF StateInv, LatestInv
    <3> QED
        BY <1>2, <1>6, <2>3, <3>1, <3>2
  <2>4. latest # None => latest' # None
        BY <1>1, Nothing
  <2> QED
      BY <1>1, <1>4, <2>1, <2>2, <2>3, <2>4 DEF Onward
<1>10. CycleTypes'
  <2>1. CASE p = "cycle"
    <3>1. cycle' = [id |-> cycle.id, kind |-> None, step |-> "idle", mine |-> None]
          BY <1>1, <2>1 DEF Idle
    <3> QED
        BY <1>0, <3>1 DEF TypeInv, CycleTypes, Steps
  <2>2. CASE p # "cycle"
        BY <1>0, <1>8, <2>2 DEF TypeInv, CycleTypes, RecordOK
  <2> QED
      BY <2>1, <2>2
<1>11. \A q \in Writers : \A n \in DOMAIN job'[q] : q # p /\ job'[q] = job[q]
      BY <1>1
<1>12. JobTypes' /\ JobShape'
  <2>1. job' \in [Writers -> Seq(Writes)]
        BY <1>0, <1>1 DEF TypeInv, JobTypes
  <2>2. \A q \in Writers : \A n \in DOMAIN job'[q] : WriteOK(job'[q][n])
        BY <1>0, <1>11 DEF TypeInv, JobTypes
  <2>3. ASSUME NEW q \in Writers
        PROVE  /\ OneEach(job'[q])
               /\ \A n \in DOMAIN job'[q] :
                    job'[q][n].id <= cycle'.id /\ (q = "cycle" => job'[q][n].id = cycle'.id)
    <3>1. CASE q = p
          BY <1>1, <3>1 DEF OneEach
    <3>2. CASE q # p
          BY <1>0, <1>1, <3>2 DEF JobShape
    <3> QED
        BY <3>1, <3>2
  <2> QED
      BY <2>1, <2>2, <2>3 DEF JobTypes, JobShape, WriteOK, RecordOK, OneEach
<1>13. TypeInv'
      BY <1>0, <1>1, <1>10, <1>12 DEF TypeInv
<1>14. OrderInv'
  <2>1. ASSUME NEW c \in Ids, accepted'[c] # None PROVE decided'[c] # None /\ patch'[c] # None
    <3>1. CASE accepted[c] # None
      <4>1. decided[c] # None /\ patch[c] # None
            BY <1>0, <3>1 DEF StateInv, OrderInv
      <4> QED
          BY <4>1, <1>9 DEF Onward
    <3>2. CASE accepted[c] = None
      <4>1. w.file = "accepted" /\ c = w.id
            BY <1>2, <2>1, <3>2
      <4>2. ~Before(job[p], 1, "decided") /\ ~Before(job[p], 1, "patch")
            BY DEF Before
      <4>3. decided[c] # None /\ patch[c] # None
            BY <1>0, <1>1, <4>1, <4>2 DEF StateInv, OrderInv
      <4> QED
          BY <4>3, <1>9 DEF Onward
    <3> QED
        BY <3>1, <3>2
  <2>2. ASSUME NEW q \in Writers, NEW n \in DOMAIN job'[q], job'[q][n].file = "accepted"
        PROVE  /\ decided'[job'[q][n].id] # None \/ Before(job'[q], n, "decided")
               /\ patch'[job'[q][n].id] # None \/ Before(job'[q], n, "patch")
    <3>1. job'[q] = job[q] /\ n \in DOMAIN job[q] /\ job[q] \in Seq(Writes)
          BY <1>0, <1>11 DEF TypeInv, JobTypes
    <3>2. job[q][n].id \in Ids
      <4>1. job[q][n] \in Writes
            BY <3>1
      <4> QED
          BY <4>1 DEF Writes
    <3>3. /\ decided[job[q][n].id] # None \/ Before(job[q], n, "decided")
          /\ patch[job[q][n].id] # None \/ Before(job[q], n, "patch")
          BY <1>0, <2>2, <3>1 DEF StateInv, OrderInv
    <3> QED
        BY <1>9, <3>1, <3>2, <3>3 DEF Onward
  <2> QED
      BY <2>1, <2>2 DEF OrderInv, Before
<1>15. NewInv'
  <2>1. ASSUME NEW c \in Ids, c > cycle'.id
        PROVE  cand'[c] = None /\ decided'[c] = None /\ report'[c] = None /\ c \notin crossed' \cup broken'
    <3>1. c # w.id
          BY <1>1, <1>4, <2>1
    <3> QED
        BY <1>0, <1>1, <1>2, <2>1, <3>1 DEF StateInv, NewInv
  <2>2. ASSUME NEW c \in Ids, CycleBusy(c)', c \notin crossed'
        PROVE  c \notin broken' /\ \A n \in DOMAIN job'["operator"] : job'["operator"][n].id # c
    <3>1. p # "cycle" /\ CycleBusy(c) /\ c \notin crossed
          BY <1>1, <1>7, <1>8, <2>2 DEF CycleBusy
    <3>2. c # w.id
          BY <1>5, <3>1
    <3>3. c \notin broken
          BY <1>0, <3>1 DEF StateInv, NewInv
    <3> QED
        BY <1>1, <3>1, <3>2, <3>3 DEF Writers
  <2> QED
      BY <2>1, <2>2 DEF NewInv
<1>16. LatestInv'
  <2>1. LatestInv
        BY <1>0 DEF StateInv
  <2>2. ASSUME NEW c \in Ids, packet'[c] # None PROVE latest' # None
    <3>1. packet[c] # None \/ w.file = "packet"
          BY <1>2, <2>2
    <3>2. latest # None
          BY <1>1, <2>1, <3>1 DEF LatestInv
    <3> QED
        BY <1>9, <3>2 DEF Onward
  <2>3. ASSUME NEW q \in Writers, NEW n \in DOMAIN job'[q], job'[q][n].file = "packet"
        PROVE  q = "cycle" /\ latest' # None
    <3>1. job'[q] = job[q]
          BY <1>11
    <3>2. q = "cycle" /\ latest # None
          BY <2>1, <2>3, <3>1 DEF LatestInv
    <3> QED
        BY <1>9, <3>2 DEF Onward
  <2>4. /\ cycle'.step = "idle" /\ job'["cycle"] # <<>> => latest' # None
        /\ cycle'.step \notin {"idle", "final"} => latest' # None
        /\ cycle'.step = "final" => latest' # None \/ Has(job'["cycle"], cycle'.id, "latest")
        BY <1>7, <1>8, <1>9, <2>1 DEF LatestInv, Onward
  <2> QED
      BY <2>2, <2>3, <2>4 DEF LatestInv, Has
<1>17. FirstInv'
  <2> SUFFICES ASSUME cycle'.step = "final", cycle'.id \notin crossed'
               PROVE  /\ Readable(cand'[cycle'.id]) => cand'[cycle'.id].decision = "not_ready"
                      /\ \A n \in DOMAIN job'["cycle"] :
                           job'["cycle"][n].file = "cand" => job'["cycle"][n].val.decision = "not_ready"
      BY DEF FirstInv, Readable
  <2>1. p # "cycle" /\ cycle.step = "final" /\ cycle.id \notin crossed /\ cycle.id \in Ids
        BY <1>0, <1>1, <1>7, <1>8 DEF TypeInv, CycleTypes
  <2>2. CycleBusy(cycle.id)
        BY <2>1 DEF CycleBusy
  <2>3. cycle.id # w.id
        BY <1>5, <2>1, <2>2
  <2> QED
      BY <1>0, <1>1, <1>2, <1>8, <2>1, <2>3 DEF StateInv, FirstInv
<1>18. \A c \in Ids : \A v : c # w.id => (Ruled(c, v)' <=> Ruled(c, v))
  <2> SUFFICES ASSUME NEW c \in Ids, NEW v, c # w.id PROVE Ruled(c, v)' <=> Ruled(c, v)
      OBVIOUS
  <2>1. decided'[c] = decided[c] /\ (Coming(c, "decided")' <=> Coming(c, "decided"))
        BY <1>2, <1>3
  <2>2. \A q \in Writers : (\E n \in DOMAIN job'[q] : job'[q][n] = To("decided", c, v))
                             <=> \E n \in DOMAIN job[q] : job[q][n] = To("decided", c, v)
    <3>1. \A n \in DOMAIN job[p] : job[p][n] # To("decided", c, v)
          BY <1>1 DEF To
    <3> QED
        BY <1>1, <3>1
  <2> QED
      BY <2>1, <2>2 DEF Ruled
<1>19. AgreeInv'
  <2> SUFFICES ASSUME NEW c \in Ids, Undisturbed(c)'
               PROVE  /\ decided'[c] # Torn
                      /\ \A v \in Decisions : Ruled(c, v)' =>
                           /\ \A q \in Writers : \A n \in DOMAIN job'[q] :
                                job'[q][n].id = c /\ job'[q][n].file = "cand" =>
                                  job'[q][n].val.decision = v /\ job'[q][n].val.review = "reviewed"
                           /\ ~Coming(c, "cand")' => cand'[c].decision = v /\ cand'[c].review = "reviewed"
                           /\ v = "accept" => Granted(c)'
      BY DEF AgreeInv
  <2>1. Undisturbed(c) /\ c # w.id /\ c \notin broken'
        BY <1>1 DEF Undisturbed
  <2>2. decided'[c] = decided[c] /\ cand'[c] = cand[c]
        BY <1>2, <2>1
  <2>3. decided[c] # Torn
        BY <1>0, <2>1 DEF StateInv, AgreeInv
  <2>4. ASSUME NEW v \in Decisions, Ruled(c, v)'
        PROVE  /\ \A q \in Writers : \A n \in DOMAIN job'[q] :
                    job'[q][n].id = c /\ job'[q][n].file = "cand" =>
                      job'[q][n].val.decision = v /\ job'[q][n].val.review = "reviewed"
               /\ ~Coming(c, "cand")' => cand'[c].decision = v /\ cand'[c].review = "reviewed"
               /\ v = "accept" => Granted(c)'
    <3>1. Ruled(c, v)
          BY <1>18, <2>1, <2>4
    <3>2. /\ \A q \in Writers : \A n \in DOMAIN job[q] :
               job[q][n].id = c /\ job[q][n].file = "cand" =>
                 job[q][n].val.decision = v /\ job[q][n].val.review = "reviewed"
          /\ ~Coming(c, "cand") => cand[c].decision = v /\ cand[c].review = "reviewed"
          /\ v = "accept" => Granted(c)
          BY <1>0, <2>1, <3>1 DEF StateInv, AgreeInv
    <3>3. v = "accept" => Granted(c)'
          BY <1>9, <2>1, <3>2 DEF Onward
    <3>4. ~Coming(c, "cand")' => cand'[c].decision = v /\ cand'[c].review = "reviewed"
          BY <1>3, <2>1, <2>2, <3>2
    <3> QED
        BY <1>11, <3>2, <3>3, <3>4
  <2> QED
      BY <2>2, <2>3, <2>4
<1>20. CycleInv'
  <2>1. CASE p = "cycle"
        BY <1>7, <2>1 DEF CycleInv
  <2>2. CASE p # "cycle"
    <3>1. ASSUME cycle.step # "idle", cycle.id \notin crossed PROVE cycle.id \in Ids /\ cycle.id # w.id
          BY <1>0, <1>5, <2>2, <3>1 DEF CycleBusy, TypeInv, CycleTypes
    <3>2. ASSUME cycle.step \notin {"idle", "accepted"}, cycle.id \notin crossed
          PROVE  decided'[cycle.id] = None /\ ~Has(job'["cycle"], cycle.id, "decided")
          BY <1>0, <1>2, <1>8, <2>2, <3>1, <3>2 DEF StateInv, CycleInv
    <3>3. ASSUME cycle.step = "accepted", cycle.id \notin crossed PROVE Ruled(cycle.id, "accept")'
      <4>1. Ruled(cycle.id, "accept")
            BY <1>0, <3>3 DEF StateInv, CycleInv
      <4> QED
          BY <1>1, <1>18, <3>1, <3>3, <4>1
    <3>4. cycle.step = "accepted" => cycle.mine.decision = "accept" /\ cycle.mine.review = "reviewed"
          BY <1>0 DEF StateInv, CycleInv
    <3>5. cycle' = cycle
          BY <1>8, <2>2
    <3> QED
        BY <1>1, <3>2, <3>3, <3>4, <3>5 DEF CycleInv
  <2> QED
      BY <2>1, <2>2
<1>21. \A rec : rec.id \in Ids /\ Backed(rec) => Backed(rec)'
      BY <1>1, <1>4, <1>9, BackedStays
<1>22. SeenInv'
  <2>1. \A q \in Writers : \A n \in DOMAIN job[q] :
          job[q][n].file \in {"cand", "latest"} => job[q][n].val.id \in Ids /\ Backed(job[q][n].val)
        BY <1>0 DEF SeenInv, TypeInv, JobTypes, WriteOK, RecordOK, Records
  <2>2. ASSUME NEW rec, rec = latest', Readable(rec) PROVE Backed(rec)'
    <3>1. rec = latest
          BY <1>1, <2>2 DEF Readable
    <3>2. rec.id \in Ids /\ Backed(rec)
          BY <1>0, <2>2, <3>1 DEF SeenInv, TypeInv, FileTypes, RecordOK, Records
    <3> QED
        BY <1>21, <3>2
  <2>3. ASSUME NEW c \in Ids, NEW rec, rec = cand'[c], Readable(rec) PROVE Backed(rec)'
    <3>1. rec = cand[c]
          BY <1>2, <2>3 DEF Readable
    <3>2. rec.id \in Ids /\ Backed(rec)
          BY <1>0, <2>3, <3>1 DEF SeenInv, TypeInv, FileTypes, RecordOK, Records
    <3> QED
        BY <1>21, <3>2
  <2>4. ASSUME NEW q \in Writers, NEW n \in DOMAIN job'[q], job'[q][n].file \in {"cand", "latest"},
               NEW rec, rec = job'[q][n].val
        PROVE  Backed(rec)'
    <3>1. rec.id \in Ids /\ Backed(rec)
          BY <1>11, <2>1, <2>4
    <3> QED
        BY <1>21, <3>1
  <2>5. ASSUME NEW rec, rec = cycle'.mine, cycle'.step = "accepted" PROVE Backed(rec)'
    <3>1. rec.id \in Ids /\ Backed(rec)
          BY <1>0, <1>7, <1>8, <2>5 DEF SeenInv, TypeInv, CycleTypes
    <3> QED
        BY <1>21, <3>1
  <2> QED
      BY <2>2, <2>3, <2>4, <2>5 DEF SeenInv, Backed, Readable, Approved, GovApproved, Undisturbed
<1>23. LocalInv'
  <2>1. Readable(latest') /\ latest'.id \notin crossed' /\ latest'.decision = "accept" => decided'[latest'.id] # None
    <3>1. Readable(latest) => latest.id \in Ids
          BY <1>0 DEF TypeInv, FileTypes, RecordOK, Records
    <3>2. Readable(latest') => latest' = latest
          BY <1>1 DEF Readable
    <3> QED
        BY <1>0, <1>1, <1>9, <3>1, <3>2 DEF LocalInv, Onward
  <2>2. ASSUME NEW c \in Ids \ crossed', Readable(report'[c]), report'[c].decision = "accept" PROVE decided'[c] # None
    <3>1. report'[c] = report[c]
          BY <1>2, <2>2 DEF Readable
    <3> QED
        BY <1>0, <1>1, <1>9, <2>2, <3>1 DEF LocalInv, Onward
  <2>3. ASSUME NEW q \in Writers, NEW n \in DOMAIN job'[q], job'[q][n].id \notin crossed',
               job'[q][n].val.decision = "accept"
        PROVE  /\ job'[q][n].file = "latest" => decided'[job'[q][n].id] # None \/ Before(job'[q], n, "decided")
               /\ job'[q][n].file = "report" => decided'[job'[q][n].id] # None
    <3>1. job'[q] = job[q] /\ n \in DOMAIN job[q] /\ job[q] \in Seq(Writes)
          BY <1>0, <1>11 DEF TypeInv, JobTypes
    <3>2. job[q][n].id \in Ids
      <4>1. job[q][n] \in Writes
            BY <3>1
      <4> QED
          BY <4>1 DEF Writes
    <3>3. /\ job[q][n].file = "latest" => decided[job[q][n].id] # None \/ Before(job[q], n, "decided")
          /\ job[q][n].file = "report" => decided[job[q][n].id] # None
          BY <1>0, <1>1, <2>3, <3>1 DEF LocalInv
    <3> QED
        BY <1>9, <3>1, <3>2, <3>3 DEF Onward
  <2> QED
      BY <2>1, <2>2, <2>3 DEF LocalInv, Before, Readable
<1>24. ReadingInv'
      BY <1>0, <1>1, <1>9, <1>13, ReadingStays
<1> QED
    BY <1>12, <1>13, <1>14, <1>15, <1>16, <1>17, <1>19, <1>20, <1>22, <1>23, <1>24 DEF IInv, StateInv

-------------------------------------------------------------------------------
(* The records *)

\* The record a cycle begins with.
LEMMA FirstShape ==
  ASSUME NEW c \in Ids
  PROVE  LET rec == FirstRecord(c)
         IN  RecordOK(rec) /\ rec.id = c /\ rec.decision = "not_ready" /\ (Approved(rec) => FALSE)
<1> DEFINE rec == FirstRecord(c)
<1>1. rec \in Records /\ rec.id = c /\ rec.decision = "not_ready" /\ rec.drec = None /\ rec.arec = None
      /\ rec.gov.decision = None /\ rec.gov.packet = None
      BY DEF FirstRecord, Records, NoPacket, Governance, Governances, Verdicts
<1> HIDE DEF rec
<1>2. None # "blocked" /\ None # "not_created" /\ None # "record" /\ None # "accept" /\ None # "accepted"
      BY NoneAssumption DEF Words, Verdicts
<1> QED
    BY <1>1, <1>2 DEF RecordOK, Approved, GovApproved, rec

\* The record a cycle writes before any review.
LEMMA FinalShape ==
  ASSUME NEW c \in Ids, NEW verdict \in {"ready", "not_ready"}, NEW commit \in BOOLEAN
  PROVE  LET rec == FinalRecord(c, verdict, commit)
         IN  RecordOK(rec) /\ rec.id = c /\ rec.decision = verdict /\ ~Approved(rec)
<1> DEFINE rec == FinalRecord(c, verdict, commit)
<1>1. rec \in Records /\ rec.id = c /\ rec.decision = verdict /\ rec.drec \in {None, "pending"} /\ rec.arec = None
      /\ rec.gov.decision = verdict /\ rec.gov.packet \in {"pending", "not_ready"}
      BY DEF FinalRecord, Records, Governance, Governances, Verdicts
<1> HIDE DEF rec
<1>2. None # "blocked" /\ None # "not_created" /\ None # "record" /\ None # "accept" /\ None # "accepted"
      BY NoneAssumption DEF Words, Verdicts
<1> QED
    BY <1>1, <1>2 DEF RecordOK, Approved, GovApproved, rec

\* The record of a review.
LEMMA ReviewedShape ==
  ASSUME NEW rec, RecordOK(rec), NEW d \in Decisions
  PROVE  LET new == Reviewed(rec, d)
         IN  /\ RecordOK(new) /\ new.id = rec.id /\ new.decision = d /\ new.review = "reviewed"
             /\ GovApproved(new) <=> GovApproved(rec)
<1> DEFINE new == Reviewed(rec, d)
<1>1. new \in Records /\ new.id = rec.id /\ new.decision = d /\ new.review = "reviewed"
      /\ new.drec = rec.drec /\ new.arec = rec.arec /\ new.gov = rec.gov
      BY DEF Reviewed, RecordOK, Records, Decisions, Verdicts
<1> HIDE DEF new
<1> QED
    BY <1>1 DEF RecordOK, GovApproved, new

\* The record of a candidate whose packet is blocked: it approves nothing that it did not approve before.
LEMMA BlockedShape ==
  ASSUME NEW rec, RecordOK(rec), NEW new, new = Blocked(rec)
  PROVE  /\ RecordOK(new) /\ new.id = rec.id /\ new.decision = "not_ready"
         /\ Approved(new) => GovApproved(rec)
         /\ GovApproved(new) => GovApproved(rec)
         /\ new.drec = "blocked" /\ new.arec = "not_created"
         /\ new.gov \in Governances /\ new.gov.decision = rec.gov.decision
<1> DEFINE g == [rec.gov EXCEPT !.packet = "blocked"]
<1>1. rec \in Records /\ rec.gov \in Governances
      BY DEF RecordOK, Records
<1>2. g \in Governances /\ g.packet = "blocked" /\ g.decision = rec.gov.decision
      BY <1>1 DEF Governances
<1>3. new = [rec EXCEPT !.review = "not_ready", !.decision = "not_ready", !.drec = "blocked",
                        !.arec = "not_created", !.gov = g]
      BY <1>1 DEF Blocked, Records
<1> HIDE DEF g
<1>4. /\ "not_ready" \in {"ready", "not_ready"} /\ "blocked" \in {None, "pending", "blocked", "record"}
      /\ "not_created" \in {None, "not_created", "record"}
      OBVIOUS
<1>5. /\ new \in Records /\ new.id = rec.id /\ new.decision = "not_ready"
      /\ new.drec = "blocked" /\ new.arec = "not_created" /\ new.gov = g
      BY <1>1, <1>2, <1>3, <1>4 DEF Records, Verdicts
<1> QED
    BY <1>2, <1>5 DEF RecordOK, Approved, GovApproved

\* And once its inputs are supplied, or not.
LEMMA SuppliedShape ==
  ASSUME NEW rec, RecordOK(rec), NEW ready \in BOOLEAN, NEW new, new = Supplied(rec, ready)
  PROVE  /\ RecordOK(new) /\ new.id = rec.id /\ new.decision \in {"ready", "not_ready"}
         /\ Approved(new) => GovApproved(rec)
         /\ GovApproved(new) => GovApproved(rec)
<1> DEFINE b == Blocked(rec)
<1> DEFINE verdict == IF ready THEN "ready" ELSE "not_ready"
<1> DEFINE word == IF ready THEN "pending" ELSE "blocked"
<1> DEFINE g == [b.gov EXCEPT !.packet = word]
<1>1. RecordOK(b) /\ b.id = rec.id /\ b.drec = "blocked" /\ b.arec = "not_created"
      /\ b.gov \in Governances /\ b.gov.decision = rec.gov.decision
      BY BlockedShape
<1>2. new = [b EXCEPT !.review = verdict, !.decision = verdict, !.gov = [b.gov EXCEPT !.packet = word]]
      BY DEF Supplied
<1> HIDE DEF b
<1>3. b \in Records
      BY <1>1 DEF RecordOK
<1>4. verdict \in {"ready", "not_ready"} /\ word \in {"pending", "blocked"}
      /\ "blocked" \in {None, "pending", "blocked", "record"}
      /\ "not_created" \in {None, "not_created", "record"}
      OBVIOUS
<1> HIDE DEF verdict, word
<1>5. g \in Governances /\ g.packet = word /\ g.decision = rec.gov.decision
  <2> DEFINE h == b.gov
  <2>1. h \in Governances /\ h.decision = rec.gov.decision /\ word \in {None, "pending", "not_ready", "blocked", "reviewed", "accepted"}
        BY <1>1, <1>4
  <2> HIDE DEF h
  <2>2. [h EXCEPT !.packet = word] \in Governances /\ [h EXCEPT !.packet = word].packet = word
        /\ [h EXCEPT !.packet = word].decision = h.decision
        BY <2>1 DEF Governances
  <2> QED
      BY <2>1, <2>2 DEF h
<1>7. /\ new \in Records /\ new.id = b.id /\ new.decision = verdict
      /\ new.drec = "blocked" /\ new.arec = "not_created" /\ new.gov = g
  <2>1. [b.gov EXCEPT !.packet = word] \in Governances
        BY <1>5
  <2>2. ASSUME NEW v, v = verdict, NEW w, w = word, NEW r, r = b
        PROVE  /\ new \in Records /\ new.id = r.id /\ new.decision = v
               /\ new.drec = r.drec /\ new.arec = r.arec /\ new.gov = [r.gov EXCEPT !.packet = w]
    <3>1. r \in Records /\ v \in {"ready", "not_ready"} /\ [r.gov EXCEPT !.packet = w] \in Governances
          BY <1>3, <1>4, <2>1, <2>2
    <3>2. new = [r EXCEPT !.review = v, !.decision = v, !.gov = [r.gov EXCEPT !.packet = w]]
          BY <1>2, <2>2
    <3>3. r.gov \in Governances /\ v \in Verdicts
          BY <3>1 DEF Records, Verdicts
    <3>4. /\ new.id = r.id /\ new.decision = v /\ new.drec = r.drec /\ new.arec = r.arec
          /\ new.gov = [r.gov EXCEPT !.packet = w]
          BY <3>1, <3>2 DEF Records
    <3>5. new \in Records
          BY <3>1, <3>2, <3>3 DEF Records
    <3> QED
        BY <3>4, <3>5
  <2> QED
      BY <1>1, <2>2
<1> HIDE DEF g
<1> QED
    BY <1>1, <1>4, <1>5, <1>7 DEF RecordOK, Approved, GovApproved

\* The record at the end of an accepting cycle.
LEMMA AcceptedShape ==
  ASSUME NEW rec, RecordOK(rec)
  PROVE  LET new == ClosedAccepted(rec)
         IN  /\ RecordOK(new) /\ new.id = rec.id /\ new.decision = rec.decision /\ new.review = rec.review
             /\ Approved(new) => rec.decision = "accept" \/ accepted[rec.id] # None
<1> DEFINE new == ClosedAccepted(rec)
<1> DEFINE r == IF accepted[rec.id] # None THEN "record" ELSE None
<1> DEFINE g == [packet |-> IF r = None THEN "reviewed" ELSE "accepted", review |-> rec.review, decision |-> rec.decision]
<1>1. new = [rec EXCEPT !.drec = "record", !.arec = r, !.gov = g]
      BY DEF ClosedAccepted
<1>2. None # "blocked" /\ None # "not_created" /\ None # "record" /\ None # "accept" /\ None # "accepted"
      BY NoneAssumption DEF Words, Verdicts
<1>3. r \in {None, "record"} /\ g.packet \in {"reviewed", "accepted"} /\ (g.packet = "accepted" => accepted[rec.id] # None)
      /\ g.decision = rec.decision
      /\ g \in Governances
      BY <1>2 DEF RecordOK, Records, Governances
<1> HIDE DEF r, g
<1>4. new \in Records /\ new.id = rec.id /\ new.decision = rec.decision /\ new.review = rec.review
      /\ new.drec = "record" /\ new.arec = r /\ new.gov = g
      BY <1>1, <1>3 DEF RecordOK, Records
<1> HIDE DEF new
<1> QED
    BY <1>2, <1>3, <1>4 DEF RecordOK, Approved, GovApproved, new

\* The record at the end of a cycle with a packet approves nothing.
LEMMA PacketRecordShape ==
  ASSUME NEW rec, RecordOK(rec), NEW ready \in BOOLEAN, NEW new, new = ClosedPacket(rec, ready)
  PROVE  RecordOK(new) /\ new.id = rec.id /\ new.decision \in {"ready", "not_ready"} /\ ~Approved(new)
<1> DEFINE verdict == IF ready THEN "ready" ELSE "not_ready"
<1> DEFINE word == IF ready THEN "pending" ELSE "blocked"
<1> DEFINE r == IF ready THEN None ELSE "not_created"
<1> DEFINE g == Governance(word, verdict)
<1>1. rec \in Records
      BY DEF RecordOK
<1>2. None # "blocked" /\ None # "not_created" /\ None # "record"
      BY NoneAssumption DEF Words, Verdicts
<1>3. verdict \in {"ready", "not_ready"} /\ word \in {"pending", "blocked"} /\ r \in {None, "not_created"}
      /\ (word = "blocked") = (r = "not_created")
      BY <1>2
<1>4. new = [[rec EXCEPT !.review = verdict, !.decision = verdict, !.drec = word, !.arec = None, !.gov = g]
               EXCEPT !.arec = r]
      BY DEF ClosedPacket, ClosedPacketHalf
<1> HIDE DEF verdict, word, r
<1>5. g \in Governances /\ g.decision = verdict /\ g.packet = word
      BY <1>3 DEF Governances, Governance, Verdicts
<1> HIDE DEF g
<1>6. new = [rec EXCEPT !.review = verdict, !.decision = verdict, !.drec = word, !.arec = r, !.gov = g]
      BY <1>1, <1>4 DEF Records
<1>7. word \in {None, "pending", "blocked", "record"} /\ r \in {None, "not_created", "record"}
      BY <1>3
<1>8. new \in Records /\ new.id = rec.id /\ new.decision = verdict /\ new.drec = word /\ new.arec = r /\ new.gov = g
  <2>1. verdict \in Verdicts /\ verdict \in {"not_ready", "ready", "reviewed"}
        BY <1>3 DEF Verdicts
  <2>2. /\ new.id = rec.id /\ new.decision = verdict /\ new.drec = word
        /\ new.arec = r /\ new.gov = g
        BY <1>1, <1>6 DEF Records
  <2>3. new \in Records
        BY <1>1, <1>5, <1>6, <1>7, <2>1 DEF Records
  <2> QED
      BY <2>2, <2>3
<1> QED
    BY <1>2, <1>3, <1>5, <1>8 DEF RecordOK, Approved, GovApproved

\* The report says what its record says, without provenance and governance packet.
LEMMA ReportShape ==
  ASSUME NEW rec, RecordOK(rec)
  PROVE  ReportOf(rec) \in Reports /\ ReportOf(rec).id = rec.id /\ ReportOf(rec).decision = rec.decision
  BY DEF ReportOf, Reports, Essences, NoPacket, Governance, Governances, RecordOK, Records

-------------------------------------------------------------------------------
(* A writer that begins a new job *)

NewJob(p, s) ==
  /\ job[p] = <<>> /\ s \in Seq(Writes) /\ job' = [job EXCEPT ![p] = s] /\ OneEach(s)
  /\ \A n \in DOMAIN s : WriteOK(s[n]) /\ s[n].id <= cycle'.id /\ (p = "cycle" => s[n].id = cycle'.id)
  /\ UNCHANGED <<source, files, reading, board, broken>>
  /\ crossed \subseteq crossed' /\ crossed' \subseteq Ids
  /\ CycleTypes' /\ cycle.id <= cycle'.id
  /\ p = "operator" => cycle' = cycle
  /\ p = "cycle" => crossed' = crossed /\ (cycle'.id = cycle.id => cycle.step # "idle")

\* What it may hold, after what, and of which records.
GoodJob(p, s) ==
  \A n \in DOMAIN s :
    /\ s[n].file = "accepted" => Before(s, n, "decided") /\ Before(s, n, "patch")
    /\ s[n].file = "packet" => p = "cycle" /\ latest # None
    /\ s[n].file \in {"cand", "latest"} => Backed(s[n].val)'
    /\ s[n].file = "latest" /\ s[n].val.decision = "accept" /\ s[n].id \notin crossed' =>
         decided[s[n].id] # None \/ Before(s, n, "decided")
    /\ s[n].file = "report" /\ s[n].val.decision = "accept" /\ s[n].id \notin crossed' => decided[s[n].id] # None

\* What a new job leaves as it was.
LEMMA NewJobFacts ==
  ASSUME TypeInv, JobShape, NEW p \in Writers, NEW s, NewJob(p, s)
  PROVE  /\ TypeInv' /\ JobShape' /\ Onward
         /\ job'[p] = s /\ \A q \in Writers \ {p} : job'[q] = job[q]
         /\ \A c, file : Coming(c, file)' <=> Coming(c, file) \/ Has(s, c, file)
         /\ \A c, v : Ruled(c, v)' => \/ \E n \in DOMAIN s : s[n] = To("decided", c, v)
                                      \/ Ruled(c, v) /\ (Has(s, c, "decided") => Coming(c, "decided"))
         /\ cycle.id \in Nat /\ cycle'.id \in Nat
<1>1. /\ job[p] = <<>> /\ s \in Seq(Writes) /\ job' = [job EXCEPT ![p] = s] /\ OneEach(s)
      /\ \A n \in DOMAIN s : WriteOK(s[n]) /\ s[n].id <= cycle'.id /\ (p = "cycle" => s[n].id = cycle'.id)
      /\ UNCHANGED <<source, files, reading, board, broken>>
      /\ crossed \subseteq crossed' /\ crossed' \subseteq Ids
      /\ CycleTypes' /\ cycle.id <= cycle'.id
      /\ p = "operator" => cycle' = cycle
      /\ p = "cycle" => crossed' = crossed /\ (cycle'.id = cycle.id => cycle.step # "idle")
      BY DEF NewJob
<1>2. job \in [Writers -> Seq(Writes)] /\ job' \in [Writers -> Seq(Writes)]
      /\ job'[p] = s /\ \A q \in Writers \ {p} : job'[q] = job[q]
      BY <1>1 DEF TypeInv, JobTypes
<1>3. cycle.id \in Ids \cup {0} /\ cycle'.id \in Ids \cup {0}
      BY <1>1 DEF TypeInv, CycleTypes
<1>4. cycle.id \in Nat /\ cycle'.id \in Nat
      BY <1>3, IdsAreNumbers
<1>5. \A q \in Writers : \A n \in DOMAIN job'[q] : WriteOK(job'[q][n])
      BY <1>1, <1>2 DEF TypeInv, JobTypes
<1>6. FileTypes'
      BY <1>1 DEF TypeInv, FileTypes, files, RecordOK, Readable
<1>7. TypeInv'
      BY <1>1, <1>2, <1>5, <1>6 DEF TypeInv, JobTypes, WriteOK, RecordOK
<1>8. JobShape'
  <2>1. ASSUME NEW q \in Writers
        PROVE  /\ OneEach(job'[q])
               /\ \A n \in DOMAIN job'[q] :
                    job'[q][n].id <= cycle'.id /\ (q = "cycle" => job'[q][n].id = cycle'.id)
    <3>1. CASE q = p
          BY <1>1, <1>2, <3>1
    <3>2. CASE q # p
      <4>1. job'[q] = job[q] /\ job[q] \in Seq(Writes) /\ OneEach(job[q])
            /\ \A n \in DOMAIN job[q] : job[q][n].id <= cycle.id /\ (q = "cycle" => job[q][n].id = cycle.id)
            BY <1>2, <3>2 DEF JobShape
      <4>2. \A n \in DOMAIN job[q] : job[q][n].id \in Nat
        <5>1. ASSUME NEW n \in DOMAIN job[q] PROVE job[q][n].id \in Ids
          <6>1. job[q][n] \in Writes
                BY <4>1
          <6> QED
              BY <6>1 DEF Writes
        <5> QED
            BY <5>1, IdsAreNumbers
      <4>3. q = "cycle" => cycle' = cycle
            BY <1>1, <3>2 DEF Writers
      <4> QED
          BY <1>1, <1>4, <4>1, <4>2, <4>3
    <3> QED
        BY <3>1, <3>2
  <2> QED
      BY <2>1 DEF JobShape, OneEach
<1>9. \A c, file : Coming(c, file)' <=> Coming(c, file) \/ Has(s, c, file)
  <2> SUFFICES ASSUME NEW c, NEW file PROVE Coming(c, file)' <=> Coming(c, file) \/ Has(s, c, file)
      BY Zenon DEF Coming
  <2>1. ~Has(job[p], c, file)
        BY <1>1 DEF Has
  <2>2. \A q \in Writers : Has(job'[q], c, file) <=> Has(job[q], c, file) \/ (q = p /\ Has(s, c, file))
        BY <1>2, <2>1
  <2> QED
      BY <2>2, Zenon DEF Coming
<1>10. ASSUME NEW c, NEW v, Ruled(c, v)'
       PROVE  \/ \E n \in DOMAIN s : s[n] = To("decided", c, v)
              \/ Ruled(c, v) /\ (Has(s, c, "decided") => Coming(c, "decided"))
  <2>1. ASSUME NEW q \in Writers, NEW n \in DOMAIN job'[q], job'[q][n] = To("decided", c, v)
        PROVE  \/ \E k \in DOMAIN s : s[k] = To("decided", c, v)
               \/ Ruled(c, v) /\ (Has(s, c, "decided") => Coming(c, "decided"))
    <3>1. CASE q = p
          BY <1>2, <2>1, <3>1
    <3>2. CASE q # p
      <4>1. n \in DOMAIN job[q] /\ job[q][n] = To("decided", c, v)
            BY <1>2, <2>1, <3>2
      <4> QED
          BY <4>1 DEF Ruled, Coming, Has, To
    <3> QED
        BY <3>1, <3>2
  <2>2. ASSUME decided'[c] = v, ~Coming(c, "decided")'
        PROVE  Ruled(c, v) /\ (Has(s, c, "decided") => Coming(c, "decided"))
        BY <1>1, <1>9, <2>2 DEF Ruled, files
  <2> QED
      BY <1>10, <2>1, <2>2 DEF Ruled
<1>11. Onward
  <2>1. ASSUME NEW c \in Ids, Granted(c) PROVE Granted(c)'
        BY <1>1, <1>9, <2>1 DEF Granted, files
  <2>2. ASSUME NEW c \in Ids, c <= cycle.id, ~CycleBusy(c) PROVE ~CycleBusy(c)' /\ packet'[c] = packet[c]
    <3>1. CASE p = "operator"
      <4>1. cycle' = cycle /\ job'["cycle"] = job["cycle"]
            BY <1>1, <1>2, <3>1 DEF Writers
      <4> QED
          BY <1>1, <2>2, <4>1 DEF CycleBusy, files
    <3>2. CASE p = "cycle"
      <4>1. c # cycle'.id
        <5>1. cycle'.id = cycle.id => CycleBusy(cycle.id)
              BY <1>1, <3>2 DEF CycleBusy
        <5> QED
            BY <1>1, <1>4, <2>2, <5>1, IdsAreNumbers
      <4> QED
          BY <1>1, <4>1 DEF CycleBusy, files
    <3> QED
        BY <3>1, <3>2 DEF Writers
  <2> QED
      BY <1>1, <2>1, <2>2 DEF Onward, files
<1> QED
    BY <1>2, <1>4, <1>7, <1>8, <1>9, <1>10, <1>11

\* A new job preserves the invariant, if its verdict agrees and its records are backed.
LEMMA NewJobKeeps ==
  ASSUME IInv, NEW p \in Writers, NEW s, NewJob(p, s), GoodJob(p, s),
         NEW mine, mine = cycle'.mine, cycle'.step = "accepted" => Backed(mine)',
         NewInv', LatestInv', FirstInv', AgreeInv', CycleInv'
  PROVE  IInv'
<1>0. TypeInv /\ JobShape /\ StateInv /\ SeenInv /\ LocalInv /\ ReadingInv
      BY DEF IInv
<1>1. /\ TypeInv' /\ JobShape' /\ Onward
      /\ job'[p] = s /\ (\A q \in Writers \ {p} : job'[q] = job[q])
      /\ cycle.id \in Nat /\ cycle'.id \in Nat
      BY <1>0, NewJobFacts
<1>2. UNCHANGED <<source, files, reading, board, broken>> /\ crossed \subseteq crossed'
      BY DEF NewJob
<1>3. OrderInv'
  <2>1. \A c \in Ids : accepted'[c] # None => decided'[c] # None /\ patch'[c] # None
        BY <1>0, <1>2 DEF StateInv, OrderInv, files
  <2>2. ASSUME NEW q \in Writers, NEW n \in DOMAIN job'[q], job'[q][n].file = "accepted"
        PROVE  /\ decided'[job'[q][n].id] # None \/ Before(job'[q], n, "decided")
               /\ patch'[job'[q][n].id] # None \/ Before(job'[q], n, "patch")
    <3>1. CASE q = p
          BY <1>1, <2>2, <3>1 DEF GoodJob
    <3>2. CASE q # p
          BY <1>0, <1>1, <1>2, <2>2, <3>2 DEF StateInv, OrderInv, files
    <3> QED
        BY <3>1, <3>2
  <2> QED
      BY <2>1, <2>2 DEF OrderInv, Before
<1>4. \A rec : rec.id \in Ids /\ Backed(rec) => Backed(rec)'
      BY <1>1, BackedStays
<1>5. SeenInv'
  <2>1. \A q \in Writers : \A n \in DOMAIN job[q] :
          job[q][n].file \in {"cand", "latest"} => job[q][n].val.id \in Ids /\ Backed(job[q][n].val)
        BY <1>0 DEF SeenInv, TypeInv, JobTypes, WriteOK, RecordOK, Records
  <2>2. ASSUME NEW rec, rec = latest', Readable(rec) PROVE Backed(rec)'
    <3>1. rec = latest
          BY <1>2, <2>2 DEF files
    <3>2. rec.id \in Ids /\ Backed(rec)
          BY <1>0, <2>2, <3>1 DEF SeenInv, TypeInv, FileTypes, RecordOK, Records
    <3> QED
        BY <1>4, <3>2
  <2>3. ASSUME NEW c \in Ids, NEW rec, rec = cand'[c], Readable(rec) PROVE Backed(rec)'
    <3>1. rec = cand[c]
          BY <1>2, <2>3 DEF files
    <3>2. rec.id \in Ids /\ Backed(rec)
          BY <1>0, <2>3, <3>1 DEF SeenInv, TypeInv, FileTypes, RecordOK, Records
    <3> QED
        BY <1>4, <3>2
  <2>4. ASSUME NEW q \in Writers, NEW n \in DOMAIN job'[q], job'[q][n].file \in {"cand", "latest"},
               NEW rec, rec = job'[q][n].val
        PROVE  Backed(rec)'
    <3>1. CASE q = p
      <4>1. n \in DOMAIN s /\ s[n].file \in {"cand", "latest"} /\ rec = s[n].val
            BY <1>1, <2>4, <3>1
      <4> QED
          BY <4>1 DEF GoodJob
    <3>2. CASE q # p
      <4>1. rec.id \in Ids /\ Backed(rec)
            BY <1>1, <2>1, <2>4, <3>2
      <4> QED
          BY <1>4, <4>1
    <3> QED
        BY <3>1, <3>2
  <2>5. ASSUME NEW rec, rec = cycle'.mine, cycle'.step = "accepted" PROVE Backed(rec)'
        BY <2>5
  <2> QED
      BY <2>2, <2>3, <2>4, <2>5 DEF SeenInv, Backed, Readable, Approved, GovApproved, Undisturbed
<1>6. LocalInv'
  <2>1. Readable(latest') /\ latest'.id \notin crossed' /\ latest'.decision = "accept" => decided'[latest'.id] # None
        BY <1>0, <1>2 DEF LocalInv, files
  <2>2. \A c \in Ids \ crossed' : Readable(report'[c]) /\ report'[c].decision = "accept" => decided'[c] # None
        BY <1>0, <1>2 DEF LocalInv, files
  <2>3. ASSUME NEW q \in Writers, NEW n \in DOMAIN job'[q], job'[q][n].id \notin crossed',
               job'[q][n].val.decision = "accept"
        PROVE  /\ job'[q][n].file = "latest" => decided'[job'[q][n].id] # None \/ Before(job'[q], n, "decided")
               /\ job'[q][n].file = "report" => decided'[job'[q][n].id] # None
    <3>1. CASE q = p
          BY <1>1, <1>2, <2>3, <3>1 DEF GoodJob, files
    <3>2. CASE q # p
          BY <1>0, <1>1, <1>2, <2>3, <3>2 DEF LocalInv, files
    <3> QED
        BY <3>1, <3>2
  <2> QED
      BY <2>1, <2>2, <2>3 DEF LocalInv, Before, Readable
<1>7. ReadingInv'
      BY <1>0, <1>1, <1>2, ReadingStays
<1> QED
    BY <1>1, <1>3, <1>5, <1>6, <1>7 DEF IInv, StateInv

\* AgreeInv after a new job: all that has to be shown is of the candidate of the job.
LEMMA AgreeNew ==
  ASSUME IInv, NEW p \in Writers, NEW s, NewJob(p, s),
         \A c \in Ids : \A v \in Decisions :
           Undisturbed(c)' /\ (\E n \in DOMAIN s : s[n].id = c) /\ Ruled(c, v)' =>
             /\ \A q \in Writers : \A n \in DOMAIN job'[q] :
                  job'[q][n].id = c /\ job'[q][n].file = "cand" =>
                    job'[q][n].val.decision = v /\ job'[q][n].val.review = "reviewed"
             /\ Has(s, c, "cand")
             /\ v = "accept" => Granted(c)'
  PROVE  AgreeInv'
<1>0. TypeInv /\ JobShape /\ AgreeInv
      BY DEF IInv, StateInv
<1>1. /\ Onward
      /\ job'[p] = s /\ (\A q \in Writers \ {p} : job'[q] = job[q])
      /\ \A c, file : Coming(c, file)' <=> Coming(c, file) \/ Has(s, c, file)
      /\ \A c, v : Ruled(c, v)' => \/ \E n \in DOMAIN s : s[n] = To("decided", c, v)
                                   \/ Ruled(c, v) /\ (Has(s, c, "decided") => Coming(c, "decided"))
      BY <1>0, NewJobFacts
<1>2. UNCHANGED <<source, files, reading, board, broken>> /\ crossed \subseteq crossed' /\ job[p] = <<>>
      BY DEF NewJob
<1> SUFFICES ASSUME NEW c \in Ids, Undisturbed(c)'
             PROVE  /\ decided'[c] # Torn
                    /\ \A v \in Decisions : Ruled(c, v)' =>
                         /\ \A q \in Writers : \A n \in DOMAIN job'[q] :
                              job'[q][n].id = c /\ job'[q][n].file = "cand" =>
                                job'[q][n].val.decision = v /\ job'[q][n].val.review = "reviewed"
                         /\ ~Coming(c, "cand")' => cand'[c].decision = v /\ cand'[c].review = "reviewed"
                         /\ v = "accept" => Granted(c)'
    BY DEF AgreeInv
<1>3. Undisturbed(c)
      BY <1>2 DEF Undisturbed
<1>4. decided'[c] # Torn
      BY <1>0, <1>2, <1>3 DEF AgreeInv, files
<1>5. ASSUME NEW v \in Decisions, Ruled(c, v)'
      PROVE  /\ \A q \in Writers : \A n \in DOMAIN job'[q] :
                  job'[q][n].id = c /\ job'[q][n].file = "cand" =>
                    job'[q][n].val.decision = v /\ job'[q][n].val.review = "reviewed"
             /\ ~Coming(c, "cand")' => cand'[c].decision = v /\ cand'[c].review = "reviewed"
             /\ v = "accept" => Granted(c)'
  <2>1. CASE \E n \in DOMAIN s : s[n].id = c
    <3>1. /\ \A q \in Writers : \A n \in DOMAIN job'[q] :
               job'[q][n].id = c /\ job'[q][n].file = "cand" =>
                 job'[q][n].val.decision = v /\ job'[q][n].val.review = "reviewed"
          /\ Has(s, c, "cand")
          /\ v = "accept" => Granted(c)'
          BY <1>5, <2>1
    <3> QED
        BY <1>1, <3>1
  <2>2. CASE \A n \in DOMAIN s : s[n].id # c
    <3>1. \A file : ~Has(s, c, file)
          BY <2>2 DEF Has
    <3>2. ~\E n \in DOMAIN s : s[n] = To("decided", c, v)
          BY <2>2 DEF To
    <3>3. Ruled(c, v)
          BY <1>1, <1>5, <3>2
    <3>4. /\ \A q \in Writers : \A n \in DOMAIN job[q] :
               job[q][n].id = c /\ job[q][n].file = "cand" =>
                 job[q][n].val.decision = v /\ job[q][n].val.review = "reviewed"
          /\ ~Coming(c, "cand") => cand[c].decision = v /\ cand[c].review = "reviewed"
          /\ v = "accept" => Granted(c)
          BY <1>0, <1>3, <3>3 DEF AgreeInv
    <3>5. \A q \in Writers : \A n \in DOMAIN job'[q] :
            job'[q][n].id = c /\ job'[q][n].file = "cand" =>
              job'[q][n].val.decision = v /\ job'[q][n].val.review = "reviewed"
          BY <1>1, <2>2, <3>4
    <3>6. ~Coming(c, "cand")' => cand'[c].decision = v /\ cand'[c].review = "reviewed"
          BY <1>1, <1>2, <3>1, <3>4 DEF files
    <3>7. v = "accept" => Granted(c)'
      <4>1. c \notin broken'
            BY DEF Undisturbed
      <4> QED
          BY <1>1, <3>4, <4>1 DEF Onward
    <3> QED
        BY <3>5, <3>6, <3>7
  <2> QED
      BY <2>1, <2>2
<1> QED
    BY <1>4, <1>5

\* What is true when a cycle that is under way begins its next step.
LEMMA StepFacts ==
  ASSUME IInv, cycle.step # "idle", job["cycle"] = <<>>
  PROVE  /\ cycle.id \in Ids /\ cycle.id \in Nat /\ CycleBusy(cycle.id)
         /\ cycle.kind \in [artifact : BOOLEAN, ready : BOOLEAN, commit : BOOLEAN]
         /\ latest # None
         /\ Readable(cand[cycle.id]) =>
              RecordOK(cand[cycle.id]) /\ cand[cycle.id].id = cycle.id /\ Backed(cand[cycle.id])
         /\ cycle.id \notin crossed =>
              /\ cycle.id \notin broken
              /\ \A n \in DOMAIN job["operator"] : job["operator"][n].id # cycle.id
              /\ cycle.step # "accepted" => decided[cycle.id] = None /\ \A v \in Decisions : ~Ruled(cycle.id, v)
              /\ cycle.step = "accepted" => decided[cycle.id] = "accept"
         /\ cycle.step \notin {"idle", "final"} => RecordOK(cycle.mine) /\ cycle.mine.id = cycle.id
<1>0. TypeInv /\ JobShape /\ StateInv /\ SeenInv
      BY DEF IInv
<1>1. /\ cycle.id \in Ids /\ CycleBusy(cycle.id)
      /\ cycle.kind \in [artifact : BOOLEAN, ready : BOOLEAN, commit : BOOLEAN]
      /\ cycle.step \notin {"idle", "final"} => RecordOK(cycle.mine) /\ cycle.mine.id = cycle.id
      BY <1>0 DEF TypeInv, CycleTypes, CycleBusy
<1>2. cycle.id \in Nat
      BY <1>1, IdsAreNumbers
<1>3. latest # None
      BY <1>0 DEF StateInv, LatestInv, Has
<1>4. Readable(cand[cycle.id]) => RecordOK(cand[cycle.id]) /\ cand[cycle.id].id = cycle.id /\ Backed(cand[cycle.id])
      BY <1>0, <1>1 DEF TypeInv, FileTypes, SeenInv
<1>5. ASSUME cycle.id \notin crossed
      PROVE  /\ cycle.id \notin broken
             /\ \A n \in DOMAIN job["operator"] : job["operator"][n].id # cycle.id
             /\ cycle.step # "accepted" => decided[cycle.id] = None /\ \A v \in Decisions : ~Ruled(cycle.id, v)
             /\ cycle.step = "accepted" => decided[cycle.id] = "accept"
  <2>1. cycle.id \notin broken /\ \A n \in DOMAIN job["operator"] : job["operator"][n].id # cycle.id
        BY <1>0, <1>1, <1>5 DEF StateInv, NewInv
  <2>2. \A q \in Writers : \A n \in DOMAIN job[q] : \A v : job[q][n] # To("decided", cycle.id, v)
        BY <2>1 DEF Writers, To
  <2>3. \A v : Ruled(cycle.id, v) => decided[cycle.id] = v
        BY <2>2 DEF Ruled
  <2>4. cycle.step # "accepted" => decided[cycle.id] = None
        BY <1>0, <1>5 DEF StateInv, CycleInv
  <2>5. cycle.step = "accepted" => Ruled(cycle.id, "accept")
        BY <1>0, <1>5 DEF StateInv, CycleInv
  <2> QED
      BY <2>1, <2>3, <2>4, <2>5, Nothing
<1> QED
    BY <1>1, <1>2, <1>3, <1>4, <1>5

\* The next step of a cycle under way.
LEMMA CycleStep ==
  ASSUME IInv, NEW s, NewJob("cycle", s), GoodJob("cycle", s), cycle.step # "idle",
         cycle'.id = cycle.id, cycle'.step # "final",
         NEW mine, mine = cycle'.mine, cycle'.step = "accepted" => Backed(mine)',
         AgreeInv', CycleInv'
  PROVE  IInv'
<1>0. TypeInv /\ JobShape /\ StateInv
      BY DEF IInv
<1>1. UNCHANGED <<source, files, reading, board, broken>> /\ crossed' = crossed /\ job["cycle"] = <<>>
      BY DEF NewJob
<1>2. "cycle" \in Writers
      BY DEF Writers
<1>3. job'["cycle"] = s /\ job'["operator"] = job["operator"]
      BY <1>0, <1>2, NewJobFacts DEF Writers
<1>4. latest # None /\ cycle.id \in Ids /\ CycleBusy(cycle.id)
      BY <1>1, StepFacts
<1>5. NewInv'
  <2>1. \A c \in Ids : c > cycle'.id =>
          cand'[c] = None /\ decided'[c] = None /\ report'[c] = None /\ c \notin crossed' \cup broken'
        BY <1>0, <1>1 DEF StateInv, NewInv, files
  <2>2. ASSUME NEW c \in Ids, CycleBusy(c)', c \notin crossed'
        PROVE  c \notin broken' /\ \A n \in DOMAIN job'["operator"] : job'["operator"][n].id # c
    <3>1. CycleBusy(c)
          BY <1>4, <2>2 DEF CycleBusy
    <3> QED
        BY <1>0, <1>1, <1>3, <2>2, <3>1 DEF StateInv, NewInv
  <2> QED
      BY <2>1, <2>2 DEF NewInv
<1>6. LatestInv'
  <2>1. ASSUME NEW q \in Writers, NEW n \in DOMAIN job'[q], job'[q][n].file = "packet" PROVE q = "cycle"
        BY <1>0, <1>3, <2>1 DEF StateInv, LatestInv, Writers
  <2> QED
      BY <1>1, <1>4, <2>1 DEF LatestInv, files, Has
<1>7. FirstInv'
      BY DEF FirstInv
<1> QED
    BY <1>2, <1>5, <1>6, <1>7, NewJobKeeps

\* A record that nobody approved.
LEMMA PlainRecord ==
  ASSUME NEW rec, ~Approved(rec), rec.id <= cycle'.id
  PROVE  Backed(rec)'
  BY DEF Backed, Approved, GovApproved

\* A job without a verdict, of the candidate of a cycle that has none.
LEMMA AgreeUndecided ==
  ASSUME IInv, NEW s, NewJob("cycle", s),
         \A n \in DOMAIN s : s[n].file # "decided",
         cycle'.id \notin crossed' \cup broken' => \A v \in Decisions : ~Ruled(cycle'.id, v)
  PROVE  AgreeInv'
<1>0. TypeInv /\ JobShape /\ "cycle" \in Writers
      BY DEF IInv, Writers
<1>1. ASSUME NEW c \in Ids, NEW v \in Decisions, Undisturbed(c)', \E n \in DOMAIN s : s[n].id = c, Ruled(c, v)'
      PROVE  FALSE
  <2>1. c = cycle'.id
        BY <1>1 DEF NewJob
  <2>2. ~\E n \in DOMAIN s : s[n] = To("decided", c, v)
        BY DEF To
  <2>3. Ruled(c, v)
        BY <1>0, <1>1, <2>2, NewJobFacts
  <2> QED
      BY <1>1, <2>1, <2>3 DEF Undisturbed
<1> QED
    BY <1>0, <1>1, AgreeNew

\* A cycle begins.
LEMMA Begins ==
  ASSUME IInv, CycleBegins
  PROVE  IInv'
<1> SUFFICES ASSUME NEW c, c = cycle.id + 1, NEW rec, rec = FirstRecord(c), NEW s, s = Both(rec)
             PROVE  IInv'
    OBVIOUS
<1>0. TypeInv /\ JobShape /\ StateInv /\ "cycle" \in Writers
      BY DEF IInv, Writers
<1>1. /\ c \in Ids /\ cycle.step = "idle" /\ job["cycle"] = <<>>
      /\ job' = [job EXCEPT !["cycle"] = s]
      /\ UNCHANGED <<source, files, reading, board, broken>> /\ crossed' = crossed
      BY DEF CycleBegins, CycleAt, CycleWrites, Elsewhere, bounds
<1>2. PICK kind \in Kinds[c] : cycle' = [id |-> c, kind |-> kind, step |-> "final", mine |-> None]
      BY DEF CycleBegins
<1>3. kind \in [artifact : BOOLEAN, ready : BOOLEAN, commit : BOOLEAN]
      BY <1>1, <1>2, KindsAssumption DEF Ids
<1>4. cycle.id \in Nat /\ c \in Nat
      BY <1>0, IdsAreNumbers DEF TypeInv, CycleTypes
<1>5. RecordOK(rec) /\ rec.id = c /\ rec.decision = "not_ready" /\ ~Approved(rec)
      BY <1>1, FirstShape
<1>6. /\ To("cand", c, rec) \in Writes /\ To("latest", c, rec) \in Writes
      BY <1>1, <1>5 DEF To, Writes, RecordOK
<1>7. /\ s \in Seq(Writes) /\ Len(s) = 2 /\ DOMAIN s = 1..2
      /\ s[1] = To("cand", c, rec) /\ s[2] = To("latest", c, rec)
      BY <1>5, <1>6, BothShape
<1>8. \A n \in DOMAIN s : s[n].id = c /\ s[n].val = rec /\ s[n].file \in {"cand", "latest"}
      BY <1>7 DEF To
<1>9. /\ \A n \in DOMAIN s : WriteOK(s[n])
      /\ OneEach(s)
  <2>1. \A n \in DOMAIN s : WriteOK(s[n])
        BY <1>5, <1>8 DEF WriteOK
  <2>2. OneEach(s)
        BY <1>7, <1>8 DEF OneEach, To
  <2> QED
      BY <2>1, <2>2
<1>10. cycle'.id = c /\ cycle'.step = "final" /\ cycle.id <= c /\ c # cycle.id
      BY <1>2, <1>4
<1>11. CycleTypes'
      BY <1>1, <1>2, <1>3 DEF CycleTypes, Steps
<1>12. NewJob("cycle", s)
      BY <1>0, <1>1, <1>4, <1>7, <1>8, <1>9, <1>10, <1>11 DEF NewJob, TypeInv
<1>13. Backed(rec)'
  <2>1. rec.id <= cycle'.id
        BY <1>4, <1>5, <1>10
  <2> QED
      BY <1>5, <2>1, PlainRecord
<1>14. GoodJob("cycle", s)
      BY <1>5, <1>8, <1>13 DEF GoodJob
<1>15. job'["cycle"] = s /\ job'["operator"] = job["operator"] /\ TypeInv' /\ JobShape'
      BY <1>0, <1>12, NewJobFacts DEF Writers
<1>16. c > cycle.id
      BY <1>4
<1>17. cand[c] = None /\ decided[c] = None /\ report[c] = None /\ c \notin crossed \cup broken
      BY <1>0, <1>1, <1>16 DEF StateInv, NewInv
<1>18. \A n \in DOMAIN job["operator"] : job["operator"][n].id # c
      BY <1>0, <1>4, <1>16 DEF JobShape, Writers
<1>19. \A v \in Decisions : ~Ruled(c, v)
  <2>1. \A q \in Writers : \A n \in DOMAIN job[q] : \A v : job[q][n] # To("decided", c, v)
        BY <1>1, <1>18 DEF Writers, To
  <2> QED
      BY <1>17, <2>1, Nothing DEF Ruled
<1>20. AgreeInv'
  <2>1. \A n \in DOMAIN s : s[n].file # "decided"
        BY <1>8
  <2> QED
      BY <1>10, <1>12, <1>19, <2>1, AgreeUndecided
<1>21. CycleInv'
  <2>1. ~Has(s, c, "decided")
        BY <1>8 DEF Has
  <2> QED
      BY <1>1, <1>10, <1>15, <1>17, <2>1 DEF CycleInv, files
<1>22. NewInv'
  <2>1. ASSUME NEW d \in Ids, d > cycle'.id
        PROVE  cand'[d] = None /\ decided'[d] = None /\ report'[d] = None /\ d \notin crossed' \cup broken'
    <3>1. d > cycle.id
          BY <1>4, <1>10, <2>1, IdsAreNumbers
    <3> QED
        BY <1>0, <1>1, <3>1 DEF StateInv, NewInv, files
  <2>2. ASSUME NEW d \in Ids, CycleBusy(d)'
        PROVE  d \notin broken' /\ \A n \in DOMAIN job'["operator"] : job'["operator"][n].id # d
        BY <1>1, <1>10, <1>15, <1>17, <1>18, <2>2 DEF CycleBusy
  <2> QED
      BY <2>1, <2>2 DEF NewInv
<1>23. LatestInv'
  <2>1. LatestInv
        BY <1>0 DEF StateInv
  <2>2. Has(s, c, "latest")
        BY <1>7, <1>8 DEF Has, To
  <2>3. ASSUME NEW q \in Writers, NEW n \in DOMAIN job'[q], job'[q][n].file = "packet"
        PROVE  q = "cycle" /\ latest' # None
    <3>1. q # "cycle"
          BY <1>8, <1>15, <2>3
    <3> QED
        BY <1>15, <2>1, <2>3, <3>1 DEF LatestInv, Writers
  <2> QED
      BY <1>1, <1>10, <1>15, <2>1, <2>2, <2>3 DEF LatestInv, files, Has
<1>24. FirstInv'
      BY <1>1, <1>5, <1>8, <1>10, <1>15, <1>17, Nothing DEF FirstInv, files, Readable
<1> QED
    BY <1>0, <1>10, <1>12, <1>14, <1>20, <1>21, <1>22, <1>23, <1>24, NewJobKeeps

\* What the later steps of a cycle write: the packet, its record twice, the report.
CycleWrite(w, c, rec) ==
  \/ w = To("cand", c, rec) \/ w = To("latest", c, rec)
  \/ w = To("packet", c, "blocked") \/ w = To("report", c, ReportOf(rec))

\* A job of a cycle that gives no verdict is a good one.
LEMMA CycleJob ==
  ASSUME IInv, cycle.step # "idle", job["cycle"] = <<>>,
         NEW c, c = cycle.id, NEW rec, RecordOK(rec), rec.id = c, Backed(rec)',
         c \notin crossed /\ rec.decision = "accept" => decided[c] # None,
         NEW s \in Seq(Writes), OneEach(s), \A n \in DOMAIN s : CycleWrite(s[n], c, rec),
         CycleWrites(s), Elsewhere, CycleTypes', cycle'.id = c
  PROVE  NewJob("cycle", s) /\ GoodJob("cycle", s)
<1>1. c \in Ids /\ c \in Nat /\ latest # None
      BY StepFacts
<1>2. UNCHANGED <<source, files, reading, board, broken>> /\ crossed' = crossed
      BY DEF Elsewhere, bounds
<1>3. job' = [job EXCEPT !["cycle"] = s] /\ crossed \subseteq Ids
      BY DEF CycleWrites, IInv, TypeInv
<1>4. ASSUME NEW n \in DOMAIN s
      PROVE  /\ s[n].id = c /\ WriteOK(s[n])
             /\ \/ s[n].file \in {"cand", "latest"} /\ s[n].val = rec
                \/ s[n].file = "packet"
                \/ s[n].file = "report" /\ s[n].val.decision = rec.decision
  <2>1. ReportOf(rec) \in Reports /\ ReportOf(rec).id = c /\ ReportOf(rec).decision = rec.decision
        BY ReportShape
  <2>2. CASE s[n] = To("cand", c, rec) \/ s[n] = To("latest", c, rec)
        BY <2>2 DEF To, WriteOK
  <2>3. CASE s[n] = To("packet", c, "blocked")
        BY <2>3 DEF To, WriteOK
  <2>4. CASE s[n] = To("report", c, ReportOf(rec))
    <3> DEFINE rep == ReportOf(rec)
    <3> HIDE DEF rep
    <3> QED
        BY <2>1, <2>4 DEF To, WriteOK, rep
  <2> QED
      BY <2>2, <2>3, <2>4 DEF CycleWrite
<1>5. NewJob("cycle", s)
  <2>1. \A n \in DOMAIN s : WriteOK(s[n]) /\ s[n].id <= cycle'.id /\ s[n].id = cycle'.id
        BY <1>1, <1>4
  <2> QED
      BY <1>1, <1>2, <1>3, <2>1 DEF NewJob
<1>6. GoodJob("cycle", s)
  <2> SUFFICES ASSUME NEW n \in DOMAIN s
               PROVE  /\ s[n].file = "accepted" => Before(s, n, "decided") /\ Before(s, n, "patch")
                      /\ s[n].file \in {"cand", "latest"} => Backed(s[n].val)'
                      /\ s[n].file = "latest" /\ s[n].val.decision = "accept" /\ s[n].id \notin crossed' =>
                           decided[s[n].id] # None \/ Before(s, n, "decided")
                      /\ s[n].file = "report" /\ s[n].val.decision = "accept" /\ s[n].id \notin crossed' =>
                           decided[s[n].id] # None
      BY <1>1 DEF GoodJob
  <2>1. CASE s[n].file \in {"cand", "latest"} /\ s[n].val = rec
    <3>1. Backed(s[n].val)'
          BY <2>1
    <3> QED
        BY <1>2, <1>4, <2>1, <3>1
  <2>2. CASE s[n].file = "packet"
        BY <2>2
  <2>3. CASE s[n].file = "report" /\ s[n].val.decision = rec.decision
        BY <1>2, <1>4, <2>3
  <2> QED
      BY <1>4, <2>1, <2>2, <2>3
<1> QED
    BY <1>5, <1>6

\* A step of a cycle that leaves its candidate without a verdict.
LEMMA PlainStep ==
  ASSUME IInv, cycle.step \notin {"idle", "accepted"}, job["cycle"] = <<>>,
         NEW c, c = cycle.id, NEW rec, RecordOK(rec), rec.id = c, rec.decision # "accept", Backed(rec)',
         NEW s \in Seq(Writes), OneEach(s), \A n \in DOMAIN s : CycleWrite(s[n], c, rec),
         CycleWrites(s), Elsewhere, CycleTypes', cycle'.id = c, cycle'.step \notin {"idle", "final", "accepted"}
  PROVE  IInv'
<1>1. NewJob("cycle", s) /\ GoodJob("cycle", s)
      BY CycleJob
<1>2. /\ c \in Ids
      /\ c \notin crossed => decided[c] = None /\ \A v \in Decisions : ~Ruled(c, v)
      BY StepFacts
<1>3. \A n \in DOMAIN s : s[n].file # "decided"
      BY DEF CycleWrite, To
<1>4. UNCHANGED files /\ crossed' = crossed /\ broken' = broken
      BY DEF Elsewhere, bounds
<1>5. AgreeInv'
      BY <1>1, <1>2, <1>3, <1>4, AgreeUndecided
<1>6. job'["cycle"] = s
      BY <1>1, NewJobFacts DEF IInv, Writers
<1>7. CycleInv'
  <2>1. ~Has(s, c, "decided")
        BY <1>3 DEF Has
  <2> QED
      BY <1>2, <1>4, <1>6, <2>1 DEF CycleInv, files
<1> QED
    BY <1>1, <1>5, <1>7, CycleStep

\* The cycle writes its final record.
LEMMA Finals ==
  ASSUME IInv, CycleFinal
  PROVE  IInv'
<1>1. cycle.step = "final" /\ job["cycle"] = <<>> /\ Elsewhere
      BY DEF CycleFinal, CycleAt
<1>2. cycle.id \in Ids /\ cycle.id \in Nat /\ cycle.kind \in [artifact : BOOLEAN, ready : BOOLEAN, commit : BOOLEAN]
      BY <1>1, StepFacts
<1> SUFFICES ASSUME NEW c, c = cycle.id, NEW ready \in BOOLEAN, ready = (cycle.kind.ready /\ cycle.kind.artifact),
                    NEW commit \in BOOLEAN, commit = cycle.kind.commit,
                    NEW rec, rec = FinalRecord(c, IF ready THEN "ready" ELSE "not_ready", commit),
                    NEW s, s = Both(rec)
             PROVE  IInv'
  <2>1. (cycle.kind.ready /\ cycle.kind.artifact) \in BOOLEAN /\ cycle.kind.commit \in BOOLEAN
        BY <1>2
  <2> QED
      BY <2>1
<1>3. CycleWrites(s) /\ cycle' = [cycle EXCEPT !.mine = rec, !.step = IF ready THEN "accept" ELSE "packet"]
      BY DEF CycleFinal
<1>4. RecordOK(rec) /\ rec.id = c /\ rec.decision # "accept" /\ ~Approved(rec)
  <2>1. (IF ready THEN "ready" ELSE "not_ready") \in {"ready", "not_ready"}
        OBVIOUS
  <2> QED
      BY <1>2, <2>1, FinalShape
<1>5. To("cand", c, rec) \in Writes /\ To("latest", c, rec) \in Writes
      BY <1>2, <1>4 DEF To, Writes, RecordOK
<1>6. /\ s \in Seq(Writes) /\ DOMAIN s = 1..2
      /\ s[1] = To("cand", c, rec) /\ s[2] = To("latest", c, rec)
      BY <1>4, <1>5, BothShape
<1>7. OneEach(s) /\ \A n \in DOMAIN s : CycleWrite(s[n], c, rec)
      BY <1>6 DEF OneEach, CycleWrite, To
<1>8. /\ cycle' = [id |-> c, kind |-> cycle.kind, step |-> IF ready THEN "accept" ELSE "packet", mine |-> rec]
  <2>1. cycle = [id |-> cycle.id, kind |-> cycle.kind, step |-> cycle.step, mine |-> cycle.mine]
        BY DEF IInv, TypeInv, CycleTypes
  <2> QED
      BY <1>3, <2>1
<1>9. /\ cycle'.id = c /\ cycle'.kind = cycle.kind /\ cycle'.mine = rec
      /\ cycle'.step \in {"accept", "packet"}
      /\ cycle' = [id |-> cycle'.id, kind |-> cycle'.kind, step |-> cycle'.step, mine |-> cycle'.mine]
      BY <1>8
<1>10. CycleTypes'
  <2>1. RecordOK(cycle'.mine) /\ cycle'.mine.id = c
        BY <1>4, <1>9
  <2>2. cycle'.step \in Steps
        BY <1>9 DEF Steps
  <2> QED
      BY <1>2, <1>9, <2>1, <2>2 DEF CycleTypes, RecordOK
<1>11. Backed(rec)'
      BY <1>2, <1>4, <1>9, PlainRecord
<1> QED
    BY <1>1, <1>3, <1>4, <1>6, <1>7, <1>9, <1>10, <1>11, PlainStep

\* A cycle fails.
LEMMA Failing ==
  ASSUME IInv, CycleFails, cycle.step # "idle", job["cycle"] = <<>>
  PROVE  IInv'
<1>0. TypeInv /\ JobShape /\ StateInv /\ SeenInv /\ LocalInv /\ ReadingInv
      BY DEF IInv
<1>1. UNCHANGED <<source, files, reading, board, crossed>> /\ broken' = broken \cup {cycle.id}
      BY DEF CycleFails
<1>2. job' = job
      BY <1>0 DEF CycleFails, CycleWrites, TypeInv, JobTypes
<1>3. /\ cycle' = [id |-> cycle.id, kind |-> None, step |-> "idle", mine |-> None]
      /\ cycle'.id = cycle.id /\ cycle'.step = "idle"
      BY DEF CycleFails, Idle
<1>4. cycle.id \in Ids /\ cycle.id \in Nat
      BY StepFacts
<1>5. TypeInv'
  <2>1. CycleTypes'
        BY <1>3, <1>4 DEF CycleTypes, Steps
  <2>2. JobTypes'
        BY <1>0, <1>2 DEF TypeInv, JobTypes, WriteOK, RecordOK
  <2>3. FileTypes'
        BY <1>0, <1>1 DEF TypeInv, FileTypes, files, RecordOK, Readable
  <2> QED
      BY <1>0, <1>1, <1>4, <2>1, <2>2, <2>3 DEF TypeInv
<1>6. JobShape'
      BY <1>0, <1>2, <1>3 DEF JobShape, OneEach
<1>7. /\ \A c, file : Coming(c, file)' <=> Coming(c, file)
      /\ \A c, v : Ruled(c, v)' <=> Ruled(c, v)
      /\ \A c : Granted(c)' <=> Granted(c)
      BY <1>1, <1>2 DEF Coming, Has, Ruled, Granted, files
<1>8. \A c \in Ids : ~CycleBusy(c)'
      BY <1>2, <1>3 DEF CycleBusy
<1>9. Onward
      BY <1>1, <1>3, <1>4, <1>7, <1>8 DEF Onward, files
<1>10. OrderInv'
      BY <1>0, <1>1, <1>2 DEF StateInv, OrderInv, Before, files
<1>11. NewInv'
      BY <1>0, <1>1, <1>3, <1>4, <1>8, IdsAreNumbers DEF StateInv, NewInv, files
<1>12. LatestInv'
      BY <1>0, <1>1, <1>2, <1>3 DEF StateInv, LatestInv, files
<1>13. FirstInv' /\ CycleInv'
      BY <1>3 DEF FirstInv, CycleInv
<1>14. AgreeInv'
  <2>1. AgreeInv
        BY <1>0 DEF StateInv
  <2>2. \A c \in Ids : Undisturbed(c)' => Undisturbed(c)
        BY <1>1 DEF Undisturbed
  <2> SUFFICES ASSUME NEW c \in Ids, Undisturbed(c)'
               PROVE  /\ decided'[c] # Torn
                      /\ \A v \in Decisions : Ruled(c, v)' =>
                           /\ \A p \in Writers : \A n \in DOMAIN job'[p] :
                                job'[p][n].id = c /\ job'[p][n].file = "cand" =>
                                  job'[p][n].val.decision = v /\ job'[p][n].val.review = "reviewed"
                           /\ ~Coming(c, "cand")' => cand'[c].decision = v /\ cand'[c].review = "reviewed"
                           /\ v = "accept" => Granted(c)'
      BY DEF AgreeInv
  <2> QED
      BY <1>1, <1>2, <1>7, <2>1, <2>2 DEF AgreeInv, files
<1>15. \A rec : rec.id \in Ids /\ Backed(rec) => Backed(rec)'
      BY <1>3, <1>4, <1>9, BackedStays
<1>16. SeenInv'
  <2>1. ASSUME NEW rec, rec = latest', Readable(rec) PROVE Backed(rec)'
    <3>1. rec.id \in Ids /\ Backed(rec)
          BY <1>0, <1>1, <2>1 DEF SeenInv, TypeInv, FileTypes, RecordOK, Records, files, Readable
    <3> QED
        BY <1>15, <3>1
  <2>2. ASSUME NEW c \in Ids, NEW rec, rec = cand'[c], Readable(rec) PROVE Backed(rec)'
    <3>1. rec.id \in Ids /\ Backed(rec)
          BY <1>0, <1>1, <2>2 DEF SeenInv, TypeInv, FileTypes, RecordOK, Records, files, Readable
    <3> QED
        BY <1>15, <3>1
  <2>3. ASSUME NEW q \in Writers, NEW n \in DOMAIN job'[q], job'[q][n].file \in {"cand", "latest"},
               NEW rec, rec = job'[q][n].val
        PROVE  Backed(rec)'
    <3>1. rec.id \in Ids /\ Backed(rec)
          BY <1>0, <1>2, <2>3 DEF SeenInv, TypeInv, JobTypes, WriteOK, RecordOK, Records
    <3> QED
        BY <1>15, <3>1
  <2> QED
      BY <1>3, <2>1, <2>2, <2>3 DEF SeenInv, Backed, Readable, Approved, GovApproved, Undisturbed
<1>17. LocalInv'
      BY <1>0, <1>1, <1>2 DEF LocalInv, Before, Readable, files
<1>18. ReadingInv'
      BY <1>0, <1>1, <1>5, <1>9, ReadingStays
<1> QED
    BY <1>5, <1>6, <1>10, <1>11, <1>12, <1>13, <1>14, <1>16, <1>17, <1>18 DEF IInv, StateInv

\* The shape of the jobs that begin with the packet.
LEMMA PacketJob ==
  ASSUME NEW c \in Ids, NEW rec, RecordOK(rec), rec.id = c
  PROVE  \A s : s = <<To("packet", c, "blocked")>> \o Both(rec) =>
           s \in Seq(Writes) /\ OneEach(s) /\ \A n \in DOMAIN s : CycleWrite(s[n], c, rec)
<1> DEFINE a == To("packet", c, "blocked")
<1> DEFINE b == To("cand", c, rec)
<1> DEFINE e == To("latest", c, rec)
<1> DEFINE s == <<To("packet", c, "blocked")>> \o Both(rec)
<1>1. a \in Writes /\ b \in Writes /\ e \in Writes
      BY DEF To, Writes, RecordOK
<1>2. s = <<a>> \o <<b, e>>
      BY DEF Both
<1>3. a.id = c /\ b.id = c /\ e.id = c /\ a.file = "packet" /\ b.file = "cand" /\ e.file = "latest"
      BY DEF To
<1>4. CycleWrite(a, c, rec) /\ CycleWrite(b, c, rec) /\ CycleWrite(e, c, rec)
      BY DEF CycleWrite
<1> HIDE DEF a, b, e, s
<1>5. s \in Seq(Writes) /\ Len(s) = 3 /\ s[1] = a /\ s[2] = b /\ s[3] = e
      BY <1>1, <1>2, ThreeWrites
<1>6. \A n \in DOMAIN s : n = 1 \/ n = 2 \/ n = 3
      BY <1>5
<1>7. \A n \in DOMAIN s : CycleWrite(s[n], c, rec)
      BY <1>4, <1>5, <1>6
<1>8. OneEach(s)
      BY <1>3, <1>5, <1>6 DEF OneEach
<1>9. s \in Seq(Writes) /\ OneEach(s) /\ \A n \in DOMAIN s : CycleWrite(s[n], c, rec)
      BY <1>5, <1>7, <1>8
<1> QED
    BY <1>9 DEF s

\* The jobs that end a cycle.
LEMMA CloseJob ==
  ASSUME NEW c \in Ids, NEW rec, RecordOK(rec), rec.id = c
  PROVE  \A s : s = Both(rec) \o <<To("report", c, ReportOf(rec))>> =>
           /\ s \in Seq(Writes) /\ OneEach(s) /\ Has(s, c, "cand")
           /\ \A n \in DOMAIN s : CycleWrite(s[n], c, rec)
<1> DEFINE a == To("cand", c, rec)
<1> DEFINE b == To("latest", c, rec)
<1> DEFINE e == To("report", c, ReportOf(rec))
<1> DEFINE s == Both(rec) \o <<To("report", c, ReportOf(rec))>>
<1>1. a \in Writes /\ b \in Writes /\ e \in Writes
      BY ReportShape DEF To, Writes, RecordOK
<1>2. s = <<a, b>> \o <<e>>
      BY DEF Both
<1>3. a.id = c /\ b.id = c /\ e.id = c /\ a.file = "cand" /\ b.file = "latest" /\ e.file = "report"
      BY DEF To
<1>4. CycleWrite(a, c, rec) /\ CycleWrite(b, c, rec) /\ CycleWrite(e, c, rec)
      BY DEF CycleWrite
<1> HIDE DEF a, b, e, s
<1>5. s \in Seq(Writes) /\ Len(s) = 3 /\ s[1] = a /\ s[2] = b /\ s[3] = e
      BY <1>1, <1>2, ThreeWrites
<1>6. DOMAIN s = 1..3 /\ \A n \in DOMAIN s : n = 1 \/ n = 2 \/ n = 3
      BY <1>5
<1>7. \A n \in DOMAIN s : CycleWrite(s[n], c, rec)
      BY <1>4, <1>5, <1>6
<1>8. OneEach(s) /\ Has(s, c, "cand")
      BY <1>3, <1>5, <1>6 DEF OneEach, Has
<1>9. s \in Seq(Writes) /\ OneEach(s) /\ Has(s, c, "cand") /\ \A n \in DOMAIN s : CycleWrite(s[n], c, rec)
      BY <1>5, <1>7, <1>8
<1> QED
    BY <1>9 DEF s

\* An accepted record that is there or coming stays so.
LEMMA GrantedStays ==
  ASSUME IInv, UNCHANGED files, NEW p \in Writers, job[p] = <<>>, NEW s, job' = [job EXCEPT ![p] = s],
         NEW c, Granted(c)
  PROVE  Granted(c)'
<1>1. \A q \in Writers : job[q] = <<>> \/ job'[q] = job[q]
      BY DEF Writers, IInv, TypeInv, JobTypes
<1>2. ASSUME NEW q \in Writers, Has(job[q], c, "accepted") PROVE Has(job'[q], c, "accepted")
      BY <1>1, <1>2 DEF Has
<1>3. Coming(c, "accepted") => Coming(c, "accepted")'
      BY <1>2 DEF Coming, Has
<1> QED
    BY <1>3 DEF Granted, files

\* A record made of the candidate that approves nothing the candidate did not is backed as the candidate is.
LEMMA DerivedRecord ==
  ASSUME IInv, UNCHANGED <<files, crossed, broken>>, cycle'.id = cycle.id, job["cycle"] = <<>>,
         NEW s, CycleWrites(s),
         NEW old, Backed(old), NEW new, new.id = old.id, new.id \in Ids,
         Approved(new) => GovApproved(old), GovApproved(new) => GovApproved(old)
  PROVE  Backed(new)'
<1>1. Granted(new.id) => Granted(new.id)'
      BY GrantedStays DEF CycleWrites, Writers
<1>2. Approved(new) => Approved(old)
      BY DEF Approved
<1> QED
    BY <1>1, <1>2 DEF Backed, Approved, GovApproved, Undisturbed, files

\* The cycle completes the packet of its candidate.
LEMMA Completes ==
  ASSUME IInv, CycleCompletes
  PROVE  IInv'
<1>1. cycle.step = "packet" /\ job["cycle"] = <<>>
      BY DEF CycleCompletes, CycleAt
<1>2. CASE ~(Readable(cand[cycle.id]) /\ NotReadyAtAll(cand[cycle.id]))
  <2>1. CycleFails
        BY <1>2 DEF CycleCompletes
  <2> QED
      BY <1>1, <2>1, Failing
<1>3. CASE Readable(cand[cycle.id]) /\ NotReadyAtAll(cand[cycle.id])
  <2> SUFFICES ASSUME NEW c, c = cycle.id, NEW old, old = cand[c], NEW rec, rec = Blocked(old),
                      NEW s, s = <<To("packet", c, "blocked")>> \o Both(rec)
               PROVE  IInv'
      OBVIOUS
  <2>1. CycleWrites(s) /\ cycle' = [cycle EXCEPT !.step = "inputs"] /\ Elsewhere
        BY <1>3 DEF CycleCompletes
  <2>2. c \in Ids /\ RecordOK(old) /\ old.id = c /\ Backed(old)
        BY <1>1, <1>3, StepFacts
  <2>3. /\ RecordOK(rec) /\ rec.id = c /\ rec.decision # "accept"
        /\ (Approved(rec) => GovApproved(old)) /\ (GovApproved(rec) => GovApproved(old))
        BY <2>2, BlockedShape
  <2>4. s \in Seq(Writes) /\ OneEach(s) /\ \A n \in DOMAIN s : CycleWrite(s[n], c, rec)
        BY <2>2, <2>3, PacketJob
  <2>5. /\ cycle = [id |-> cycle.id, kind |-> cycle.kind, step |-> cycle.step, mine |-> cycle.mine]
        /\ cycle.kind \in [artifact : BOOLEAN, ready : BOOLEAN, commit : BOOLEAN]
        /\ RecordOK(cycle.mine) /\ cycle.mine.id = c
        BY <1>1 DEF IInv, TypeInv, CycleTypes
  <2>6. cycle' = [id |-> c, kind |-> cycle.kind, step |-> "inputs", mine |-> cycle.mine]
        BY <2>1, <2>5
  <2>7. cycle'.id = c /\ cycle'.step = "inputs" /\ CycleTypes'
        BY <2>2, <2>5, <2>6 DEF CycleTypes, Steps, RecordOK
  <2>8. Backed(rec)'
    <3>1. UNCHANGED <<files, crossed, broken>>
          BY <2>1 DEF Elsewhere, bounds
    <3>2. cycle'.id = cycle.id /\ rec.id = old.id /\ rec.id \in Ids /\ CycleWrites(s)
          BY <2>1, <2>2, <2>3, <2>7
    <3> QED
        BY <1>1, <2>2, <2>3, <3>1, <3>2, DerivedRecord
  <2> QED
      BY <1>1, <2>1, <2>3, <2>4, <2>7, <2>8, PlainStep
<1> QED
    BY <1>2, <1>3

\* The cycle supplies the inputs of the review.
LEMMA Supplies ==
  ASSUME IInv, CycleSupplies
  PROVE  IInv'
<1>1. cycle.step = "inputs" /\ job["cycle"] = <<>>
      BY DEF CycleSupplies, CycleAt
<1> SUFFICES ASSUME NEW c, c = cycle.id, NEW old, old = cand[c]
             PROVE  IInv'
    OBVIOUS
<1>2. CASE ~(Readable(old) /\ old.drec = "blocked" /\ old.arec = "not_created")
  <2>1. CycleFails
        BY <1>2 DEF CycleSupplies
  <2> QED
      BY <1>1, <2>1, Failing
<1>3. CASE Readable(old) /\ old.drec = "blocked" /\ old.arec = "not_created"
  <2>2. c \in Ids /\ RecordOK(old) /\ old.id = c /\ Backed(old)
        BY <1>1, <1>3, StepFacts
  <2>5. /\ cycle = [id |-> cycle.id, kind |-> cycle.kind, step |-> cycle.step, mine |-> cycle.mine]
        /\ cycle.kind \in [artifact : BOOLEAN, ready : BOOLEAN, commit : BOOLEAN]
        /\ RecordOK(cycle.mine) /\ cycle.mine.id = c
        BY <1>1 DEF IInv, TypeInv, CycleTypes
  <2> SUFFICES ASSUME NEW ready \in BOOLEAN, ready = InputsSupplied(old, cycle.kind.artifact),
                      NEW rec, rec = Supplied(old, ready),
                      NEW s, s = <<To("packet", c, "blocked")>> \o Both(rec)
               PROVE  IInv'
    <3>1. InputsSupplied(old, cycle.kind.artifact) \in BOOLEAN
          BY DEF InputsSupplied
    <3> QED
        BY <3>1
  <2>1. CycleWrites(s) /\ cycle' = [cycle EXCEPT !.step = IF ready THEN "supplied" ELSE "blocked"] /\ Elsewhere
        BY <1>3 DEF CycleSupplies
  <2>3. /\ RecordOK(rec) /\ rec.id = c /\ rec.decision # "accept"
        /\ (Approved(rec) => GovApproved(old)) /\ (GovApproved(rec) => GovApproved(old))
        BY <2>2, SuppliedShape
  <2>4. s \in Seq(Writes) /\ OneEach(s) /\ \A n \in DOMAIN s : CycleWrite(s[n], c, rec)
        BY <2>2, <2>3, PacketJob
  <2>6. cycle' = [id |-> c, kind |-> cycle.kind, step |-> IF ready THEN "supplied" ELSE "blocked", mine |-> cycle.mine]
        BY <2>1, <2>5
  <2>7. /\ cycle'.id = c /\ cycle'.step \in {"supplied", "blocked"} /\ cycle'.kind = cycle.kind /\ cycle'.mine = cycle.mine
        /\ cycle' = [id |-> cycle'.id, kind |-> cycle'.kind, step |-> cycle'.step, mine |-> cycle'.mine]
        BY <2>6
  <2>8. CycleTypes'
        BY <2>2, <2>5, <2>7 DEF CycleTypes, Steps, RecordOK
  <2>9. Backed(rec)'
    <3>1. UNCHANGED <<files, crossed, broken>>
          BY <2>1 DEF Elsewhere, bounds
    <3>2. cycle'.id = cycle.id /\ rec.id = old.id /\ rec.id \in Ids /\ CycleWrites(s)
          BY <2>1, <2>2, <2>3, <2>7
    <3> QED
        BY <1>1, <2>2, <2>3, <3>1, <3>2, DerivedRecord
  <2>10. /\ cycle.step \notin {"idle", "accepted"} /\ job["cycle"] = <<>>
         /\ cycle'.step \notin {"idle", "final", "accepted"} /\ Elsewhere
    <3>1. cycle'.step = "supplied" \/ cycle'.step = "blocked"
          BY <2>7
    <3> QED
        BY <1>1, <2>1, <3>1
  <2>11. IInv /\ c = cycle.id /\ cycle'.id = c /\ CycleWrites(s)
         BY <2>1, <2>7
  <2> QED
      BY <2>3, <2>4, <2>8, <2>9, <2>10, <2>11, PlainStep
<1> QED
    BY <1>2, <1>3

\* A cycle ends with a record that is backed.
LEMMA CloseStep ==
  ASSUME IInv, cycle.step \in {"accepted", "supplied", "blocked"}, job["cycle"] = <<>>, Elsewhere,
         NEW c, c = cycle.id, cycle' = [Idle EXCEPT !.id = c],
         NEW rec, RecordOK(rec), rec.id = c, Backed(rec)',
         cycle.step = "accepted" => rec.decision = "accept" /\ rec.review = "reviewed",
         cycle.step # "accepted" => rec.decision # "accept",
         NEW s \in Seq(Writes), OneEach(s), Has(s, c, "cand"), \A n \in DOMAIN s : CycleWrite(s[n], c, rec),
         CycleWrites(s)
  PROVE  IInv'
<1>2. UNCHANGED <<files, crossed, broken>>
      BY DEF Elsewhere, bounds
<1>4. /\ c \in Ids
      /\ c \notin crossed =>
           /\ c \notin broken
           /\ \A n \in DOMAIN job["operator"] : job["operator"][n].id # c
           /\ cycle.step # "accepted" => decided[c] = None /\ \A v \in Decisions : ~Ruled(c, v)
           /\ cycle.step = "accepted" => decided[c] = "accept"
      BY StepFacts
<1>7. cycle' = [id |-> c, kind |-> None, step |-> "idle", mine |-> None] /\ cycle'.id = c /\ cycle'.step = "idle"
      BY DEF Idle
<1>8. CycleTypes'
      BY <1>4, <1>7 DEF CycleTypes, Steps
<1>11. c \notin crossed /\ rec.decision = "accept" => decided[c] # None
      BY <1>4, Nothing DEF Decisions
<1>12. NewJob("cycle", s) /\ GoodJob("cycle", s)
      BY <1>7, <1>8, <1>11, CycleJob
<1>13. \A n \in DOMAIN s : s[n].file # "decided" /\ s[n].id = c /\ (s[n].file = "cand" => s[n].val = rec)
      BY DEF CycleWrite, To
<1>14. AgreeInv'
  <2>1. CASE cycle.step # "accepted"
    <3>1. c \notin crossed' \cup broken' => \A v \in Decisions : ~Ruled(c, v)
          BY <1>2, <1>4, <2>1
    <3> QED
        BY <1>7, <1>12, <1>13, <3>1, AgreeUndecided
  <2>2. CASE cycle.step = "accepted"
    <3>1. ASSUME NEW d \in Ids, NEW v \in Decisions, Undisturbed(d)', \E n \in DOMAIN s : s[n].id = d, Ruled(d, v)'
          PROVE  /\ \A q \in Writers : \A n \in DOMAIN job'[q] :
                      job'[q][n].id = d /\ job'[q][n].file = "cand" =>
                        job'[q][n].val.decision = v /\ job'[q][n].val.review = "reviewed"
                 /\ Has(s, d, "cand")
                 /\ v = "accept" => Granted(d)'
      <4>1. d = c /\ c \notin crossed
            BY <1>2, <1>13, <3>1 DEF Undisturbed
      <4>2. /\ job'["cycle"] = s /\ job'["operator"] = job["operator"]
            /\ Ruled(c, v)' => \/ \E n \in DOMAIN s : s[n] = To("decided", c, v)
                               \/ Ruled(c, v)
            BY <1>12, NewJobFacts DEF IInv, Writers
      <4>3. Ruled(c, v)
            BY <1>13, <3>1, <4>1, <4>2 DEF To
      <4>4. v = "accept"
        <5>1. \A q \in Writers : \A n \in DOMAIN job[q] : job[q][n] # To("decided", c, v)
              BY <1>4, <4>1 DEF Writers, To
        <5> QED
            BY <1>4, <2>2, <4>1, <4>3, <5>1 DEF Ruled
      <4>5. ASSUME NEW q \in Writers, NEW n \in DOMAIN job'[q], job'[q][n].id = c, job'[q][n].file = "cand"
            PROVE  job'[q][n].val = rec
        <5>1. q = "cycle"
              BY <1>4, <4>1, <4>2, <4>5 DEF Writers
        <5> QED
            BY <1>13, <4>2, <4>5, <5>1
      <4>6. Granted(c)'
        <5>1. Undisturbed(rec.id)' /\ Approved(rec)
              BY <2>2, <3>1, <4>1 DEF Approved, Undisturbed
        <5> QED
            BY <5>1 DEF Backed, Approved, GovApproved
      <4> QED
          BY <2>2, <4>1, <4>4, <4>5, <4>6
    <3> QED
        BY <1>12, <3>1, AgreeNew DEF Writers
  <2> QED
      BY <2>1, <2>2
<1>15. CycleInv'
      BY <1>7 DEF CycleInv
<1> QED
    BY <1>7, <1>12, <1>14, <1>15, CycleStep

\* The three ways in which a cycle ends.
LEMMA Closes ==
  ASSUME IInv, CycleCloses
  PROVE  IInv'
<1>1. cycle.step \in {"accepted", "supplied", "blocked"} /\ job["cycle"] = <<>> /\ Elsewhere
      BY DEF CycleCloses, CycleAt
<1>2. UNCHANGED <<files, crossed, broken>>
      BY <1>1 DEF Elsewhere, bounds
<1> SUFFICES ASSUME NEW c, c = cycle.id, NEW old, old = cycle.mine,
                    NEW rec, rec = IF cycle.step = "accepted" THEN ClosedAccepted(old)
                                   ELSE ClosedPacket(old, cycle.step = "supplied")
             PROVE  IInv'
    OBVIOUS
<1> DEFINE s == Both(rec) \o <<To("report", c, ReportOf(rec))>>
<1>3. CycleWrites(s) /\ cycle' = [Idle EXCEPT !.id = c]
      BY DEF CycleCloses
<1>4. /\ c \in Ids /\ c \in Nat /\ RecordOK(old) /\ old.id = c /\ CycleBusy(c)
      /\ c \notin crossed =>
           /\ c \notin broken
           /\ \A n \in DOMAIN job["operator"] : job["operator"][n].id # c
           /\ cycle.step # "accepted" => decided[c] = None /\ \A v \in Decisions : ~Ruled(c, v)
           /\ cycle.step = "accepted" => decided[c] = "accept"
      BY <1>1, StepFacts
<1>5. cycle.step = "accepted" => old.decision = "accept" /\ old.review = "reviewed" /\ Backed(old)
      BY DEF IInv, StateInv, CycleInv, SeenInv
<1>6. /\ RecordOK(rec) /\ rec.id = c
      /\ cycle.step = "accepted" => rec.decision = "accept" /\ rec.review = "reviewed"
      /\ cycle.step # "accepted" => rec.decision # "accept" /\ ~Approved(rec)
  <2>1. CASE cycle.step = "accepted"
    <3>1. rec = ClosedAccepted(old)
          BY <2>1
    <3>2. RecordOK(rec) /\ rec.id = old.id /\ rec.decision = old.decision /\ rec.review = old.review
          BY <1>4, <3>1, AcceptedShape
    <3> QED
        BY <1>4, <1>5, <2>1, <3>2
  <2>2. CASE cycle.step # "accepted"
    <3>1. rec = ClosedPacket(old, cycle.step = "supplied") /\ (cycle.step = "supplied") \in BOOLEAN
          BY <2>2
    <3>2. RecordOK(rec) /\ rec.id = old.id /\ rec.decision \in {"ready", "not_ready"} /\ ~Approved(rec)
          BY <1>4, <3>1, PacketRecordShape
    <3> QED
        BY <1>4, <2>2, <3>2
  <2> QED
      BY <2>1, <2>2
<1>7. cycle' = [id |-> c, kind |-> None, step |-> "idle", mine |-> None] /\ cycle'.id = c /\ cycle'.step = "idle"
      BY <1>3 DEF Idle
<1>8. CycleTypes'
      BY <1>4, <1>7 DEF CycleTypes, Steps
<1>9. s \in Seq(Writes) /\ OneEach(s) /\ Has(s, c, "cand") /\ \A n \in DOMAIN s : CycleWrite(s[n], c, rec)
      BY <1>4, <1>6, CloseJob
<1> HIDE DEF s
<1>10. Backed(rec)'
  <2>1. CASE cycle.step = "accepted"
    <3>1. Granted(c) => Granted(c)'
          BY <1>1, <1>2, <1>3, GrantedStays DEF CycleWrites, Writers
    <3>2. Undisturbed(c) => Granted(c)
          BY <1>4, <1>5, <2>1 DEF Backed, Approved
    <3>3. rec.id <= cycle'.id
          BY <1>4, <1>6, <1>7
    <3>4. c \notin crossed => decided[c] # None
          BY <1>4, <2>1, Nothing DEF Decisions
    <3> QED
        BY <1>2, <1>6, <3>1, <3>2, <3>3, <3>4 DEF Backed, Approved, GovApproved, Undisturbed, files
  <2>2. CASE cycle.step # "accepted"
    <3>1. rec.id <= cycle'.id
          BY <1>4, <1>6, <1>7
    <3> QED
        BY <1>6, <2>2, <3>1, PlainRecord
  <2> QED
      BY <2>1, <2>2
<1> QED
    BY <1>1, <1>3, <1>6, <1>9, <1>10, CloseStep

-------------------------------------------------------------------------------
(* A review, by the cycle or by the operator *)

\* The writes of a review, in their order.
ReviewShape(s, c, new, d) ==
  /\ s \in Seq(Writes) /\ OneEach(s)
  /\ \A n \in DOMAIN s :
       /\ s[n].id = c /\ WriteOK(s[n])
       /\ \/ n = 1 /\ s[n].file = "cand" /\ s[n].val = new
          \/ n = 2 /\ s[n].file = "decided" /\ s[n].val = d
          \/ n = 3 /\ s[n].file = "latest" /\ s[n].val = new
          \/ n = 4 /\ s[n].file = "patch"
          \/ n = 5 /\ s[n].file = "accepted"
  /\ 1 \in DOMAIN s /\ 2 \in DOMAIN s
  /\ d = "accept" => 5 \in DOMAIN s
  /\ 5 \in DOMAIN s => 4 \in DOMAIN s

\* The job of a review has this shape.
LEMMA ReviewJob ==
  ASSUME NEW c \in Ids, NEW old, RecordOK(old), old.id = c, NEW d \in Decisions, NEW new, new = Reviewed(old, d)
  PROVE  ReviewShape(ReviewWrites(old, d), c, new, d)
<1> DEFINE a == To("cand", c, new)
<1> DEFINE b == To("decided", c, d)
<1> DEFINE e == To("latest", c, new)
<1> DEFINE f == To("patch", c, TRUE)
<1> DEFINE g == To("accepted", c, TRUE)
<1> DEFINE s == ReviewWrites(old, d)
<1>1. RecordOK(new) /\ new.id = c
      BY ReviewedShape
<1>2. a \in Writes /\ b \in Writes /\ e \in Writes /\ f \in Writes /\ g \in Writes
      BY <1>1 DEF To, Writes, RecordOK
<1>3. s = <<a, b, e>> \o IF d = "accept" THEN <<f, g>> ELSE <<>>
      BY DEF ReviewWrites
<1>4. /\ a.id = c /\ b.id = c /\ e.id = c /\ f.id = c /\ g.id = c
      /\ a.file = "cand" /\ b.file = "decided" /\ e.file = "latest" /\ f.file = "patch" /\ g.file = "accepted"
      /\ a.val = new /\ b.val = d /\ e.val = new /\ f.val = TRUE /\ g.val = TRUE
      BY DEF To
<1>4b. WriteOK(a) /\ WriteOK(b) /\ WriteOK(e) /\ WriteOK(f) /\ WriteOK(g)
  <2> HIDE DEF a, b, e, f, g
  <2> QED
      BY <1>1, <1>4 DEF WriteOK
<1> HIDE DEF a, b, e, f, g, s
<1>5. /\ s \in Seq(Writes) /\ s[1] = a /\ s[2] = b /\ s[3] = e
      /\ d = "accept" => Len(s) = 5 /\ s[4] = f /\ s[5] = g
      /\ d # "accept" => Len(s) = 3
  <2>1. CASE d = "accept"
    <3>1. s = <<a, b, e>> \o <<f, g>>
          BY <1>3, <2>1
    <3>2. s \in Seq(Writes) /\ Len(s) = 5 /\ s[1] = a /\ s[2] = b /\ s[3] = e /\ s[4] = f /\ s[5] = g
          BY <1>2, <3>1, ConcatProperties
    <3> QED
        BY <2>1, <3>2
  <2>2. CASE d # "accept"
    <3>1. s = <<a, b, e>> \o <<>>
          BY <1>3, <2>2
    <3>2. s \in Seq(Writes) /\ Len(s) = 3 /\ s[1] = a /\ s[2] = b /\ s[3] = e
          BY <1>2, <3>1, ConcatProperties
    <3> QED
        BY <2>2, <3>2
  <2> QED
      BY <2>1, <2>2
<1>6. /\ \A n \in DOMAIN s : n = 1 \/ n = 2 \/ n = 3 \/ (d = "accept" /\ (n = 4 \/ n = 5))
      /\ 1 \in DOMAIN s /\ 2 \in DOMAIN s /\ 3 \in DOMAIN s
      /\ d = "accept" => 4 \in DOMAIN s /\ 5 \in DOMAIN s
  <2>1. CASE d = "accept"
    <3>1. DOMAIN s = 1..5
          BY <1>5, <2>1
    <3> QED
        BY <2>1, <3>1
  <2>2. CASE d # "accept"
    <3>1. DOMAIN s = 1..3
          BY <1>5, <2>2
    <3> QED
        BY <2>2, <3>1
  <2> QED
      BY <2>1, <2>2
<1>7. OneEach(s)
  <2>1. \A n \in DOMAIN s : s[n].id = c
        BY <1>4, <1>5, <1>6
  <2>2. \A n \in DOMAIN s :
          /\ s[n].file = "cand" => n = 1
          /\ s[n].file = "decided" => n = 2
          /\ s[n].file = "latest" => n = 3
          /\ s[n].file = "patch" => n = 4
          /\ s[n].file = "accepted" => n = 5
          /\ s[n].file \in {"cand", "decided", "latest", "patch", "accepted"}
        BY <1>4, <1>5, <1>6
  <2> QED
      BY <2>1, <2>2 DEF OneEach
<1>8. \A n \in DOMAIN s :
        /\ s[n].id = c /\ WriteOK(s[n])
        /\ \/ n = 1 /\ s[n].file = "cand" /\ s[n].val = new
           \/ n = 2 /\ s[n].file = "decided" /\ s[n].val = d
           \/ n = 3 /\ s[n].file = "latest" /\ s[n].val = new
           \/ n = 4 /\ s[n].file = "patch"
           \/ n = 5 /\ s[n].file = "accepted"
      BY <1>4, <1>4b, <1>5, <1>6
<1>9. ReviewShape(s, c, new, d)
      BY <1>5, <1>6, <1>7, <1>8 DEF ReviewShape
<1> QED
    BY <1>9 DEF s

\* Where the other writer has nothing to write of the candidate, the job of a review keeps what is asked of jobs.
LEMMA ReviewStep ==
  ASSUME IInv, NEW p \in Writers, job[p] = <<>>,
         NEW c \in Ids, c <= cycle.id, NEW old, RecordOK(old), old.id = c, Backed(old),
         NEW d \in Decisions, NEW new, new = Reviewed(old, d),
         NEW s, ReviewShape(s, c, new, d),
         job' = [job EXCEPT ![p] = s], UNCHANGED <<source, files, reading, board, broken>>,
         crossed \subseteq crossed', crossed' \subseteq Ids, CycleTypes', cycle'.id = cycle.id,
         p = "operator" => cycle' = cycle,
         p = "cycle" => crossed' = crossed /\ cycle.step # "idle" /\ c = cycle.id,
         c \notin crossed' => \A q \in Writers \ {p} : \A n \in DOMAIN job[q] : job[q][n].id # c
  PROVE  NewJob(p, s) /\ GoodJob(p, s) /\ AgreeInv' /\ Backed(new)'
<1>0. TypeInv /\ JobShape
      BY DEF IInv
<1>1. RecordOK(new) /\ new.id = c /\ new.decision = d /\ new.review = "reviewed" /\ (GovApproved(new) <=> GovApproved(old))
      BY ReviewedShape
<1>2. c \in Nat /\ cycle.id \in Nat
      BY <1>0, IdsAreNumbers DEF TypeInv, CycleTypes
<1>3. /\ s \in Seq(Writes) /\ OneEach(s)
      /\ \A n \in DOMAIN s :
           \/ n = 1 /\ s[n].file = "cand" /\ s[n].val = new
           \/ n = 2 /\ s[n].file = "decided" /\ s[n].val = d
           \/ n = 3 /\ s[n].file = "latest" /\ s[n].val = new
           \/ n = 4 /\ s[n].file = "patch"
           \/ n = 5 /\ s[n].file = "accepted"
      /\ 1 \in DOMAIN s /\ 2 \in DOMAIN s
      /\ d = "accept" => 5 \in DOMAIN s
      /\ 5 \in DOMAIN s => 4 \in DOMAIN s
      BY DEF ReviewShape
<1>4. \A n \in DOMAIN s : s[n].id = c /\ WriteOK(s[n])
      BY DEF ReviewShape
<1>5. NewJob(p, s)
  <2>1. \A n \in DOMAIN s : WriteOK(s[n]) /\ s[n].id <= cycle'.id /\ (p = "cycle" => s[n].id = cycle'.id)
        BY <1>4
  <2> QED
      BY <1>2, <1>3, <2>1 DEF NewJob
<1>6. /\ job'[p] = s /\ (\A q \in Writers \ {p} : job'[q] = job[q])
      /\ \A file : Coming(c, file)' <=> Coming(c, file) \/ Has(s, c, file)
      /\ \A v : Ruled(c, v)' => \/ \E n \in DOMAIN s : s[n] = To("decided", c, v)
                                \/ Ruled(c, v) /\ (Has(s, c, "decided") => Coming(c, "decided"))
      BY <1>0, <1>5, NewJobFacts
<1>7. \A n \in DOMAIN s :
        /\ s[n].file = "cand" => s[n].val = new
        /\ s[n].file = "latest" => n = 3 /\ s[n].val = new
        /\ s[n].file = "decided" => s[n].val = d
        /\ s[n].file = "accepted" => n = 5
        /\ s[n].file \notin {"packet", "report"}
  <2> SUFFICES ASSUME NEW n \in DOMAIN s
               PROVE  /\ s[n].file = "cand" => s[n].val = new
                      /\ s[n].file = "latest" => n = 3 /\ s[n].val = new
                      /\ s[n].file = "decided" => s[n].val = d
                      /\ s[n].file = "accepted" => n = 5
                      /\ s[n].file \notin {"packet", "report"}
      OBVIOUS
  <2> QED
      BY <1>3
<1>8. /\ Has(s, c, "cand") /\ Has(s, c, "decided") /\ (d = "accept" => Has(s, c, "accepted"))
      /\ s[1].file = "cand" /\ s[2].file = "decided" /\ (4 \in DOMAIN s => s[4].file = "patch")
      BY <1>3, <1>4 DEF Has
<1>9. d = "accept" => Granted(c)'
      BY <1>6, <1>8 DEF Granted
<1>10. Backed(new)'
  <2>1. Granted(c) => Granted(c)'
        BY GrantedStays
  <2>2. Approved(new) => d = "accept" \/ Approved(old)
        BY <1>1 DEF Approved
  <2>3. new.id <= cycle'.id
        BY <1>1
  <2> QED
      BY <1>1, <1>9, <2>1, <2>2, <2>3 DEF Backed, Approved, GovApproved, Undisturbed, files
<1>11. GoodJob(p, s)
  <2>1. \A n \in DOMAIN s : s[n].file = "accepted" => Before(s, n, "decided") /\ Before(s, n, "patch")
    <3>1. ASSUME NEW n \in DOMAIN s, s[n].file = "accepted"
          PROVE  Before(s, n, "decided") /\ Before(s, n, "patch")
      <4>1. n = 5 /\ 2 \in 1..(n - 1) /\ 4 \in 1..(n - 1) /\ 4 \in DOMAIN s
            BY <1>3, <1>7, <3>1
      <4> QED
          BY <1>8, <4>1 DEF Before
    <3> QED
        BY <3>1
  <2>2. \A n \in DOMAIN s : s[n].file = "latest" => Before(s, n, "decided")
    <3>1. ASSUME NEW n \in DOMAIN s, s[n].file = "latest" PROVE Before(s, n, "decided")
      <4>1. n = 3 /\ 2 \in 1..(n - 1)
            BY <1>7, <3>1
      <4> QED
          BY <1>8, <4>1 DEF Before
    <3> QED
        BY <3>1
  <2>3. ASSUME NEW n \in DOMAIN s, s[n].file \in {"cand", "latest"} PROVE Backed(s[n].val)'
        BY <1>7, <1>10, <2>3
  <2> QED
      BY <1>7, <2>1, <2>2, <2>3 DEF GoodJob
<1>12. AgreeInv'
  <2>1. ASSUME NEW e \in Ids, NEW v \in Decisions, Undisturbed(e)', \E n \in DOMAIN s : s[n].id = e, Ruled(e, v)'
        PROVE  /\ \A q \in Writers : \A n \in DOMAIN job'[q] :
                    job'[q][n].id = e /\ job'[q][n].file = "cand" =>
                      job'[q][n].val.decision = v /\ job'[q][n].val.review = "reviewed"
               /\ Has(s, e, "cand")
               /\ v = "accept" => Granted(e)'
    <3>1. e = c /\ c \notin crossed'
          BY <1>4, <2>1 DEF Undisturbed
    <3>2. \A q \in Writers \ {p} : \A n \in DOMAIN job[q] : job[q][n].id # c
          BY <3>1
    <3>3. ~Coming(c, "decided")
          BY <3>2 DEF Coming, Has
    <3>4. \E n \in DOMAIN s : s[n] = To("decided", c, v)
          BY <1>6, <1>8, <2>1, <3>1, <3>3
    <3>5. v = d
          BY <1>7, <3>4 DEF To
    <3>6. ASSUME NEW q \in Writers, NEW n \in DOMAIN job'[q], job'[q][n].id = c, job'[q][n].file = "cand"
          PROVE  job'[q][n].val = new
      <4>1. q = p
            BY <1>6, <3>2, <3>6
      <4> QED
          BY <1>6, <1>7, <3>6, <4>1
    <3> QED
        BY <1>1, <1>8, <1>9, <3>1, <3>5, <3>6
  <2> QED
      BY <1>5, <2>1, AgreeNew
<1> QED
    BY <1>5, <1>10, <1>11, <1>12

\* The cycle reviews its own candidate.
LEMMA Accepts ==
  ASSUME IInv, CycleAccepts
  PROVE  IInv'
<1>1. cycle.step = "accept" /\ job["cycle"] = <<>>
      BY DEF CycleAccepts, CycleAt
<1>2. CASE ~Readable(cand[cycle.id])
  <2>1. CycleFails
        BY <1>2 DEF CycleAccepts
  <2> QED
      BY <1>1, <2>1, Failing
<1>3. CASE Readable(cand[cycle.id])
  <2> SUFFICES ASSUME NEW c, c = cycle.id, NEW old, old = cand[c], NEW new, new = Reviewed(old, "accept"),
                      NEW s, s = ReviewWrites(old, "accept")
               PROVE  IInv'
      OBVIOUS
  <2>1. CycleWrites(s) /\ cycle' = [cycle EXCEPT !.step = "accepted", !.mine = new] /\ Elsewhere
        BY <1>3 DEF CycleAccepts
  <2>2. UNCHANGED <<source, files, reading, board, broken>> /\ crossed' = crossed /\ job' = [job EXCEPT !["cycle"] = s]
        BY <2>1 DEF Elsewhere, bounds, CycleWrites
  <2>3. c \in Ids /\ c \in Nat /\ RecordOK(old) /\ old.id = c /\ Backed(old)
        BY <1>1, <1>3, StepFacts
  <2>4. "accept" \in Decisions /\ "cycle" \in Writers /\ crossed \subseteq Ids
        BY DEF Decisions, Writers, IInv, TypeInv
  <2>5. RecordOK(new) /\ new.id = c /\ new.decision = "accept" /\ new.review = "reviewed"
        BY <2>3, <2>4, ReviewedShape
  <2>6. ReviewShape(s, c, new, "accept")
        BY <2>3, <2>4, ReviewJob
  <2>7. /\ cycle = [id |-> cycle.id, kind |-> cycle.kind, step |-> cycle.step, mine |-> cycle.mine]
        /\ cycle.kind \in [artifact : BOOLEAN, ready : BOOLEAN, commit : BOOLEAN]
        BY <1>1 DEF IInv, TypeInv, CycleTypes
  <2>8. cycle' = [id |-> c, kind |-> cycle.kind, step |-> "accepted", mine |-> new]
        BY <2>1, <2>7
  <2>9. cycle'.id = c /\ cycle'.step = "accepted" /\ cycle'.mine = new /\ cycle'.kind = cycle.kind
        BY <2>8
  <2>10. CycleTypes'
    <3>1. RecordOK(cycle'.mine) /\ cycle'.mine.id = c
          BY <2>5, <2>9
    <3> QED
        BY <2>3, <2>7, <2>8, <2>9, <3>1 DEF CycleTypes, Steps, RecordOK
  <2>11. c <= cycle.id
         BY <2>3
  <2>12. c \notin crossed' => \A q \in Writers \ {"cycle"} : \A n \in DOMAIN job[q] : job[q][n].id # c
         BY <1>1, <2>2, StepFacts DEF Writers
  <2>13. NewJob("cycle", s) /\ GoodJob("cycle", s) /\ AgreeInv' /\ Backed(new)'
    <3>1. cycle.step # "idle" /\ crossed' = crossed /\ cycle'.id = cycle.id
          BY <1>1, <2>2, <2>9
    <3>2. /\ crossed \subseteq crossed' /\ crossed' \subseteq Ids
          /\ "cycle" = "operator" => cycle' = cycle
          /\ "cycle" = "cycle" => crossed' = crossed /\ cycle.step # "idle" /\ c = cycle.id
          BY <2>2, <2>4, <3>1
    <3> QED
        BY <1>1, <2>2, <2>3, <2>4, <2>6, <2>10, <2>11, <2>12, <3>1, <3>2, ReviewStep
  <2>14. CycleInv'
    <3>1. job'["cycle"] = s
          BY <2>4, <2>13, NewJobFacts DEF IInv
    <3>2. 2 \in DOMAIN s /\ s[2] = To("decided", c, "accept")
      <4>1. 2 \in DOMAIN s /\ s \in Seq(Writes)
            BY <2>6 DEF ReviewShape
      <4>2. s[2].id = c /\ s[2].file = "decided" /\ s[2].val = "accept"
            BY <2>6, <4>1 DEF ReviewShape
      <4>3. s[2] \in Writes
            BY <4>1
      <4> QED
          BY <4>1, <4>2, <4>3 DEF Writes, To
    <3>3. Ruled(c, "accept")'
          BY <2>4, <3>1, <3>2 DEF Ruled
    <3> QED
        BY <2>5, <2>9, <3>3 DEF CycleInv
  <2>15. cycle.step # "idle" /\ cycle'.id = cycle.id /\ cycle'.step # "final"
         BY <1>1, <2>9
  <2> QED
      BY <2>9, <2>13, <2>14, <2>15, CycleStep
<1> QED
    BY <1>2, <1>3

\* The operator reviews the latest candidate.
LEMMA OperatorReviews ==
  ASSUME IInv, NEW c \in Ids, NEW d \in Decisions, Reviews(c, d)
  PROVE  IInv'
<1>0. TypeInv /\ JobShape /\ StateInv /\ SeenInv
      BY DEF IInv
<1> SUFFICES ASSUME NEW old, old = cand[c], NEW new, new = Reviewed(old, d), NEW s, s = ReviewWrites(old, d)
             PROVE  IInv'
    OBVIOUS
<1>1. /\ job["operator"] = <<>> /\ Readable(old)
      /\ job' = [job EXCEPT !["operator"] = s]
      /\ crossed' = (IF CycleBusy(c) THEN crossed \cup {c} ELSE crossed)
      /\ UNCHANGED <<source, cycle, files, reading, board, broken>>
      BY DEF Reviews
<1>2. RecordOK(old) /\ old.id = c /\ Backed(old)
      BY <1>0, <1>1 DEF TypeInv, FileTypes, SeenInv
<1>3. c <= cycle.id
      BY <1>2 DEF Backed
<1>4. RecordOK(new) /\ new.id = c
      BY <1>2, ReviewedShape
<1>5. ReviewShape(s, c, new, d)
      BY <1>2, ReviewJob
<1>6. crossed \subseteq crossed' /\ crossed' \subseteq Ids
      BY <1>0, <1>1 DEF TypeInv
<1>7. CycleTypes'
      BY <1>0, <1>1 DEF TypeInv, CycleTypes, RecordOK
<1>8. "operator" \in Writers /\ cycle'.id = cycle.id
      BY <1>1 DEF Writers
<1>9. c \notin crossed' => \A q \in Writers \ {"operator"} : \A n \in DOMAIN job[q] : job[q][n].id # c
  <2>1. ASSUME c \notin crossed', NEW n \in DOMAIN job["cycle"], job["cycle"][n].id = c PROVE FALSE
    <3>1. cycle.id = c
          BY <1>0, <2>1 DEF JobShape, Writers
    <3>2. job["cycle"] # <<>>
          BY <2>1
    <3>3. CycleBusy(c)
          BY <3>1, <3>2 DEF CycleBusy
    <3> QED
        BY <1>1, <2>1, <3>3
  <2> QED
      BY <2>1 DEF Writers
<1>10. NewJob("operator", s) /\ GoodJob("operator", s) /\ AgreeInv' /\ Backed(new)'
       BY <1>1, <1>2, <1>3, <1>5, <1>6, <1>7, <1>8, <1>9, ReviewStep
<1>11. /\ job'["operator"] = s /\ job'["cycle"] = job["cycle"] /\ TypeInv' /\ JobShape' /\ Onward
       /\ \A b, file : Coming(b, file)' <=> Coming(b, file) \/ Has(s, b, file)
       /\ cycle.id \in Nat /\ cycle'.id \in Nat
       BY <1>0, <1>8, <1>10, NewJobFacts DEF Writers
<1>12. /\ \A n \in DOMAIN s : s[n].id = c /\ s[n].file # "packet"
       /\ \A b, file : Has(s, b, file) => b = c
       BY <1>5 DEF ReviewShape, Has
<1>13. \A b : CycleBusy(b)' <=> CycleBusy(b)
       BY <1>1, <1>11 DEF CycleBusy
<1>14. NewInv'
  <2>1. ASSUME NEW b \in Ids, b > cycle'.id
        PROVE  cand'[b] = None /\ decided'[b] = None /\ report'[b] = None /\ b \notin crossed' \cup broken'
    <3>1. cand[b] = None /\ decided[b] = None /\ report[b] = None /\ b \notin crossed \cup broken
          BY <1>0, <1>1, <2>1 DEF StateInv, NewInv
    <3>2. b # c
          BY <1>1, <3>1 DEF Readable
    <3> QED
        BY <1>1, <3>1, <3>2 DEF files
  <2>2. ASSUME NEW b \in Ids, CycleBusy(b)', b \notin crossed'
        PROVE  b \notin broken' /\ \A n \in DOMAIN job'["operator"] : job'["operator"][n].id # b
    <3>1. CycleBusy(b) /\ b \notin crossed /\ b # c
          BY <1>1, <1>6, <1>13, <2>2
    <3>2. b \notin broken
          BY <1>0, <3>1 DEF StateInv, NewInv
    <3> QED
        BY <1>1, <1>11, <1>12, <3>1, <3>2
  <2> QED
      BY <2>1, <2>2 DEF NewInv
<1>15. LatestInv'
  <2>1. ASSUME NEW q \in Writers, NEW n \in DOMAIN job'[q], job'[q][n].file = "packet" PROVE q = "cycle" /\ latest # None
    <3>1. q = "cycle"
          BY <1>11, <1>12, <2>1 DEF Writers
    <3> QED
        BY <1>0, <1>11, <2>1, <3>1 DEF StateInv, LatestInv
  <2> QED
      BY <1>0, <1>1, <1>11, <2>1 DEF StateInv, LatestInv, files, Has
<1>16. FirstInv'
       BY <1>0, <1>1, <1>6, <1>11 DEF StateInv, FirstInv, files, Readable
<1>17. CycleInv'
  <2>1. ASSUME cycle.step \notin {"idle", "accepted"}, cycle.id \notin crossed'
        PROVE  decided'[cycle.id] = None /\ ~Has(job'["cycle"], cycle.id, "decided")
        BY <1>0, <1>1, <1>6, <1>11, <2>1 DEF StateInv, CycleInv, files
  <2>2. ASSUME cycle.step = "accepted", cycle.id \notin crossed' PROVE Ruled(cycle.id, "accept")'
    <3>1. Ruled(cycle.id, "accept")
          BY <1>0, <1>6, <2>2 DEF StateInv, CycleInv
    <3>2. cycle.id # c
          BY <1>1, <2>2 DEF CycleBusy
    <3>3. CASE decided[cycle.id] = "accept" /\ ~Coming(cycle.id, "decided")
      <4>1. ~Coming(cycle.id, "decided")'
        <5> SUFFICES ASSUME NEW i, i = cycle.id, Coming(i, "decided")' PROVE FALSE
            BY <1>1 DEF Coming
        <5> QED
            BY <1>11, <1>12, <3>2, <3>3
      <4> QED
          BY <1>1, <3>3, <4>1 DEF Ruled, files
    <3>4. CASE \E q \in Writers : \E n \in DOMAIN job[q] : job[q][n] = To("decided", cycle.id, "accept")
      <4>1. PICK q \in Writers : \E n \in DOMAIN job[q] : job[q][n] = To("decided", cycle.id, "accept")
            BY <3>4
      <4>2. q = "cycle"
            BY <1>1, <4>1 DEF Writers
      <4> QED
          BY <1>1, <1>11, <4>1, <4>2 DEF Ruled
    <3> QED
        BY <3>1, <3>3, <3>4 DEF Ruled
  <2>3. cycle.step = "accepted" => cycle.mine.decision = "accept" /\ cycle.mine.review = "reviewed"
        BY <1>0 DEF StateInv, CycleInv
  <2> QED
      BY <1>1, <2>1, <2>2, <2>3 DEF CycleInv
<1>18. ASSUME NEW mine, mine = cycle'.mine, cycle'.step = "accepted" PROVE Backed(mine)'
  <2>1. mine.id \in Ids /\ Backed(mine)
        BY <1>0, <1>1, <1>18 DEF SeenInv, TypeInv, CycleTypes
  <2> QED
      BY <1>11, <2>1, BackedStays
<1> QED
    BY <1>8, <1>10, <1>14, <1>15, <1>16, <1>17, <1>18, NewJobKeeps

-------------------------------------------------------------------------------
(* The collector *)

\* A step that moves nothing but what the collector holds.
LEMMA Outside ==
  ASSUME IInv, UNCHANGED <<source, cycle, job, files, bounds>>, ReadingInv'
  PROVE  IInv'
<1>0. TypeInv /\ JobShape /\ StateInv /\ SeenInv /\ LocalInv
      BY DEF IInv
<1>1. UNCHANGED <<cycle, job, cand, latest, decided, patch, accepted, packet, report, crossed, broken>>
      BY DEF files, bounds
<1>2. TypeInv'
  <2>1. CycleTypes'
        BY <1>0, <1>1 DEF TypeInv, CycleTypes, RecordOK
  <2>2. JobTypes'
        BY <1>0, <1>1 DEF TypeInv, JobTypes, WriteOK, RecordOK
  <2>3. FileTypes'
        BY <1>0, <1>1 DEF TypeInv, FileTypes, RecordOK, Readable
  <2> QED
      BY <1>0, <1>1, <2>1, <2>2, <2>3 DEF TypeInv
<1>3. JobShape' /\ OrderInv' /\ NewInv' /\ LatestInv' /\ FirstInv'
      BY <1>0, <1>1 DEF JobShape, OneEach, StateInv, OrderInv, NewInv, LatestInv, FirstInv, CycleBusy, Before, Has, Readable
<1>4. /\ \A c, v : Ruled(c, v)' <=> Ruled(c, v)
      /\ \A c : (Granted(c)' <=> Granted(c)) /\ (Undisturbed(c)' <=> Undisturbed(c))
      /\ \A c, file : Coming(c, file)' <=> Coming(c, file)
      /\ \A rec : Backed(rec)' <=> Backed(rec)
      BY <1>1 DEF Ruled, Granted, Coming, Has, Undisturbed, Backed, Approved, GovApproved
<1>5. AgreeInv'
      BY <1>0, <1>1, <1>4 DEF StateInv, AgreeInv
<1>6. CycleInv'
  <2>1. Ruled(cycle.id, "accept")' <=> Ruled(cycle.id, "accept")
        BY <1>1 DEF Ruled, Coming, Has
  <2>2. CycleInv
        BY <1>0 DEF StateInv
  <2> QED
      BY <1>1, <2>1, <2>2 DEF CycleInv, Has
<1>7. SeenInv'
      BY <1>0, <1>1 DEF SeenInv, Backed, Approved, GovApproved, Undisturbed, Granted, Coming, Has, Readable
<1>8. LocalInv'
      BY <1>0, <1>1 DEF LocalInv, Before, Readable
<1> QED
    BY <1>2, <1>3, <1>5, <1>6, <1>7, <1>8 DEF IInv, StateInv

\* A non-empty set of numbers has a least one.
LEMMA Least == ASSUME NEW S, S \subseteq Nat, S # {}
               PROVE  \E x \in S : \A y \in S : x <= y
<1>1. \E R : IsWellFoundedOn(R, Nat) /\ R = {ss \in Nat \X Nat : ss[1] < ss[2]}
  <2>1. OpToRel(<, Nat) = {ss \in Nat \X Nat : ss[1] < ss[2]}
        BY DEF OpToRel
  <2>2. IsWellFoundedOn(OpToRel(<, Nat), Nat)
        BY NatLessThanWellFounded
  <2> QED
      BY <2>1, <2>2
<1>2. PICK R : IsWellFoundedOn(R, Nat) /\ R = {ss \in Nat \X Nat : ss[1] < ss[2]}
      BY <1>1
<1>3. PICK x \in S : \A y \in S : ~(<<y, x>> \in R)
      BY <1>2, WFMin
<1>4. ASSUME NEW y \in S PROVE x <= y
  <2>1. x \in Nat /\ y \in Nat
        OBVIOUS
  <2>2. ~ (<<y, x>> \in {ss \in Nat \X Nat : ss[1] < ss[2]})
        BY <1>2, <1>3, Zenon
  <2>3. ~ (y < x)
        BY <2>1, <2>2
  <2> QED
      BY <2>1, <2>3
<1> QED
    BY <1>3, <1>4

\* The newest of the candidates that a file is there of.
LEMMA NewestIs ==
  ASSUME NEW file
  PROVE  Newest(file) = None \/ (Newest(file) \in Ids /\ file[Newest(file)] # None)
<1> DEFINE known == {c \in Ids : file[c] # None}
<1> DEFINE N == Len(Kinds)
<1>1. N \in Nat /\ Ids = 1..N
      BY KindsAssumption DEF Ids
<1>2. CASE known = {}
      BY <1>2 DEF Newest
<1>3. CASE known # {}
  <2> DEFINE T == {N - c : c \in known}
  <2>1. known \subseteq 1..N
        BY <1>1
  <2> HIDE DEF known, N
  <2>2. T \subseteq Nat /\ T # {}
        BY <1>1, <1>3, <2>1
  <2> HIDE DEF T
  <2>3. PICK x \in T : \A y \in T : x <= y
        BY <2>2, Least
  <2>4. PICK c \in known : x = N - c
        BY <2>3 DEF T
  <2>5. \A d \in known : N - d \in T
        BY DEF T
  <2>6. \A d \in known : d <= c
        BY <1>1, <2>1, <2>3, <2>4, <2>5
  <2>7. Newest(file) = CHOOSE e \in known : \A d \in known : d <= e
        BY <1>3 DEF Newest, known
  <2>8. Newest(file) \in known
        BY <2>4, <2>6, <2>7
  <2> QED
      BY <2>8 DEF known
<1> QED
    BY <1>2, <1>3

\* What the collector keeps of a record.
LEMMA EssenceShape ==
  ASSUME NEW rec \in Records, NEW e, e = Essence(rec)
  PROVE  e \in Essences /\ e.id = rec.id /\ e.decision = rec.decision /\ e.gov = rec.gov
  BY DEF Essence, Essences, Records

\* What the collector makes of a host's record, and of the local one with the files next to it.
LEMMA PageAccepted ==
  ASSUME NEW status, NEW gov, NEW drec, NEW arec, Page(status, gov, drec, arec) = "accepted"
  PROVE  /\ status = "accept" \/ gov.decision = "accept" \/ gov.packet = "accepted"
         /\ ~Missing(drec) /\ ~Missing(arec)
<1>1. ~(/\ "accept" \in {status, IF gov.decision = None THEN status ELSE gov.decision} \/ gov.packet = "accepted"
        /\ ~Missing(drec) /\ ~Missing(arec)) => Page(status, gov, drec, arec) # "accepted"
      BY DEF Page
<1> QED
    BY <1>1

\* The collector reads the records.
LEMMA CollectBeginsKeeps ==
  ASSUME IInv, CollectBegins
  PROVE  IInv'
<1>0. TypeInv /\ StateInv /\ SeenInv /\ LocalInv /\ ReadingInv
      BY DEF IInv
<1>1. UNCHANGED <<source, cycle, job, files, board, bounds>>
      BY DEF CollectBegins
<1>2. PICK read \in Reads :
        reading' = IF source = "repo" THEN [step |-> "read", rec |-> LocalRecord(read), shown |-> None]
                   ELSE [step |-> "show", rec |-> None, shown |-> HostEvent(HostRecord(read))]
      BY DEF CollectBegins
<1>3. Readable(read) => read = latest /\ read \in Records /\ Backed(read)
      BY <1>0 DEF Reads, Readable, TypeInv, FileTypes, SeenInv, RecordOK
<1>4. cycle.id \in Nat
      BY <1>0, IdsAreNumbers DEF TypeInv, CycleTypes
<1>5. ASSUME NEW rec, rec = LocalRecord(read), rec # None PROVE ReadInv(rec)
  <2>1. CASE read = None /\ Newest(cand) # None /\ Readable(cand[Newest(cand)])
    <3> SUFFICES ASSUME NEW c, c = Newest(cand), NEW old, old = cand[c] PROVE ReadInv(rec)
        OBVIOUS
    <3>1. c \in Ids
          BY <2>1, NewestIs
    <3>2. old \in Records /\ old.id = c /\ Backed(old)
          BY <1>0, <2>1, <3>1 DEF TypeInv, FileTypes, SeenInv, RecordOK
    <3>3. rec = Essence(old)
      <4>1. ~Readable(read)
            BY <2>1 DEF Readable
      <4>2. LocalRecord(read) = Essence(cand[Newest(cand)])
            BY <2>1, <4>1 DEF LocalRecord
      <4> QED
          BY <1>5, <4>2
    <3>4. rec \in Essences /\ rec.id = c /\ rec.decision = old.decision /\ rec.gov = old.gov
          BY <3>2, <3>3, EssenceShape
    <3>5. ASSUME Approved(rec), c \notin crossed
          PROVE  decided[c] # None \/ (packet[c] = None /\ ~CycleBusy(c))
      <4>1. latest = None
            BY <2>1, Nothing DEF Reads
      <4>2. packet[c] = None
            BY <1>0, <3>1, <4>1 DEF StateInv, LatestInv
      <4>3. ASSUME CycleBusy(c) PROVE decided[c] # None
        <5>1. cycle.id = c /\ cycle.step = "final"
              BY <1>0, <4>1, <4>3 DEF StateInv, LatestInv, CycleBusy
        <5>2. old.decision = "not_ready"
              BY <1>0, <2>1, <3>5, <5>1 DEF StateInv, FirstInv
        <5>3. GovApproved(old)
              BY <3>4, <3>5, <5>2 DEF Approved, GovApproved
        <5> QED
            BY <3>2, <3>5, <5>3 DEF Backed
      <4> QED
          BY <4>2, <4>3
    <3> QED
        BY <3>2, <3>4, <3>5 DEF ReadInv, Backed
  <2>2. CASE Readable(read)
    <3>1. rec = Essence(read)
      <4>1. read # None
            BY <2>2 DEF Readable
      <4> QED
          BY <1>5, <2>2, <4>1 DEF LocalRecord
    <3>2. rec \in Essences /\ rec.id = read.id /\ rec.decision = read.decision /\ rec.gov = read.gov
          BY <1>3, <2>2, <3>1, EssenceShape
    <3>3. ASSUME Approved(rec), rec.id \notin crossed PROVE decided[rec.id] # None
          BY <1>0, <1>3, <2>2, <3>2, <3>3 DEF Backed, LocalInv, Approved, GovApproved
    <3> QED
        BY <1>3, <2>2, <3>2, <3>3 DEF ReadInv, Backed
  <2>3. CASE ~(read = None /\ Newest(cand) # None /\ Readable(cand[Newest(cand)])) /\ ~Readable(read)
    <3>1. rec = FromReport
          BY <1>5, <2>3 DEF LocalRecord
    <3> SUFFICES ASSUME NEW c, c = Newest(report) PROVE ReadInv(rec)
        OBVIOUS
    <3>2. c # None /\ Readable(report[c]) /\ rec = report[c]
          BY <1>5, <3>1 DEF FromReport
    <3>3. c \in Ids
          BY <3>2, NewestIs
    <3>4. rec \in Reports /\ rec.id = c /\ report[c] # None
          BY <1>0, <3>2, <3>3 DEF TypeInv, FileTypes, Readable
    <3>5. ~(c > cycle.id)
          BY <1>0, <3>3, <3>4 DEF StateInv, NewInv
    <3>6. c <= cycle.id
          BY <1>4, <3>3, <3>5, IdsAreNumbers
    <3>7. rec \in Essences /\ ~GovApproved(rec)
      <4>1. None # "accept" /\ None # "accepted"
            BY NoneAssumption DEF Words, Verdicts
      <4> QED
          BY <3>4, <4>1 DEF Reports, NoPacket, Governance, GovApproved
    <3>8. ASSUME Approved(rec), c \notin crossed PROVE decided[c] # None
          BY <1>0, <3>2, <3>3, <3>7, <3>8 DEF LocalInv, Approved
    <3> QED
        BY <3>4, <3>6, <3>7, <3>8 DEF ReadInv
  <2> QED
      BY <2>1, <2>2, <2>3
<1>6. ASSUME source # "repo", NEW e, e = HostEvent(HostRecord(read)), e # None PROVE EventOK(e)
  <2>1. Readable(read)
        BY <1>6 DEF HostEvent, HostRecord
  <2>2. read # None
        BY <2>1 DEF Readable
  <2>3. e = [id |-> read.id, status |-> read.decision, replay |-> None,
             page |-> Page(read.decision, read.gov, read.drec, read.arec)]
        BY <1>6, <2>1, <2>2 DEF HostEvent, HostRecord
  <2>4. read \in Records /\ Backed(read) /\ read.id \in Ids /\ read.decision \in Verdicts
        BY <1>3, <2>1 DEF Records
  <2>5. ASSUME Page(read.decision, read.gov, read.drec, read.arec) = "accepted", read.id \notin crossed
        PROVE  read.id \in broken \/ accepted[read.id] # None \/ Coming(read.id, "accepted")
    <3>1. Approved(read)
          BY <2>5, PageAccepted DEF Approved, GovApproved
    <3> QED
        BY <2>4, <2>5, <3>1 DEF Backed, Undisturbed, Granted
  <2>6. source = "eeepc"
        BY <1>0, <1>6 DEF ReadingInv
  <2> QED
      BY <2>3, <2>4, <2>5, <2>6, Nothing DEF EventOK
<1>7. ReadingInv'
  <2>1. CASE source = "repo"
    <3> SUFFICES ASSUME NEW rec, rec = LocalRecord(read) PROVE ReadingInv'
        OBVIOUS
    <3>1. reading' = [step |-> "read", rec |-> rec, shown |-> None]
          BY <1>2, <2>1
    <3>2. reading'.step = "read" /\ reading'.rec = rec /\ reading'.shown = None
          BY <3>1
    <3>3. rec # None => ReadInv(rec)'
          BY <1>1, <1>5 DEF ReadInv, Approved, GovApproved, CycleBusy, files, bounds
    <3>4. board # None => EventOK(board)'
          BY <1>0, <1>1 DEF ReadingInv, EventOK, Coming, Has, files, bounds
    <3> QED
        BY <1>0, <1>1, <2>1, <3>1, <3>2, <3>3, <3>4 DEF ReadingInv, ReadInv, Approved, GovApproved
  <2>2. CASE source # "repo"
    <3> SUFFICES ASSUME NEW e, e = HostEvent(HostRecord(read)) PROVE ReadingInv'
        OBVIOUS
    <3>1. reading' = [step |-> "show", rec |-> None, shown |-> e]
          BY <1>2, <2>2
    <3>2. reading'.step = "show" /\ reading'.rec = None /\ reading'.shown = e
          BY <3>1
    <3>3. e # None => EventOK(e)'
          BY <1>1, <1>6, <2>2 DEF EventOK, Coming, Has, files, bounds
    <3>4. board # None => EventOK(board)'
          BY <1>0, <1>1 DEF ReadingInv, EventOK, Coming, Has, files, bounds
    <3> QED
        BY <1>0, <1>1, <2>2, <3>1, <3>2, <3>3, <3>4 DEF ReadingInv, EventOK
  <2> QED
      BY <2>1, <2>2
<1> QED
    BY <1>1, <1>7, Outside

\* It reads the files next to them and makes an event of both.
LEMMA CollectShowsKeeps ==
  ASSUME IInv, CollectShows
  PROVE  IInv'
<1>0. ReadingInv
      BY DEF IInv
<1>1. UNCHANGED <<source, cycle, job, files, board, bounds>> /\ reading.step = "read"
      BY DEF CollectShows
<1> SUFFICES ASSUME NEW rec, rec = reading.rec, NEW e, e = LocalEvent(rec)
             PROVE  IInv'
    OBVIOUS
<1>2. reading' = [step |-> "show", rec |-> None, shown |-> e]
      BY DEF CollectShows
<1>3. ASSUME e # None PROVE EventOK(e)
  <2>1. rec # None
        BY <1>3 DEF LocalEvent
  <2>2. ReadInv(rec)
        BY <1>0, <2>1 DEF ReadingInv
  <2> SUFFICES ASSUME NEW c \in Ids, c = rec.id PROVE EventOK(e)
    <3>1. rec.id \in Ids
          BY <2>2 DEF ReadInv, Essences
    <3> QED
        BY <3>1
  <2>3. /\ e = [id |-> c, status |-> rec.decision, replay |-> Replay(rec),
                page |-> Page(rec.decision, rec.gov, DecisionRecord(c), AcceptedRecord(c))]
        BY <2>1 DEF LocalEvent
  <2>4. rec.decision \in Verdicts
        BY <2>2 DEF ReadInv, Essences
  <2>5. Replay(rec) = "ready" => accepted[c] # None
    <3>1. ~Readable(accepted[c]) => Replay(rec) # "ready"
          BY DEF Replay
    <3> QED
        BY <3>1 DEF Readable
  <2>6. ASSUME Page(rec.decision, rec.gov, DecisionRecord(c), AcceptedRecord(c)) = "accepted", c \notin crossed
        PROVE  accepted[c] # None
    <3>1. Approved(rec) /\ ~Missing(AcceptedRecord(c))
          BY <2>6, PageAccepted DEF Approved, GovApproved
    <3>2. decided[c] # None \/ packet[c] = None
          BY <2>2, <2>6, <3>1 DEF ReadInv
    <3>3. accepted[c] = None => AcceptedRecord(c) = "missing"
          BY <3>2 DEF AcceptedRecord, Readable
    <3> QED
        BY <3>1, <3>3 DEF Missing
  <2> QED
      BY <2>3, <2>4, <2>5, <2>6 DEF EventOK
<1>4. ReadingInv'
  <2>1. e # None => EventOK(e)'
        BY <1>1, <1>3 DEF EventOK, Coming, Has, files, bounds
  <2>2. board # None => EventOK(board)'
        BY <1>0, <1>1 DEF ReadingInv, EventOK, Coming, Has, files, bounds
  <2>3. reading'.step = "show" /\ reading'.rec = None /\ reading'.shown = e
        BY <1>2
  <2> QED
      BY <1>0, <1>1, <1>2, <2>1, <2>2, <2>3 DEF ReadingInv, EventOK
<1> QED
    BY <1>1, <1>4, Outside

\* It puts the event on the board.
LEMMA CollectEndsKeeps ==
  ASSUME IInv, CollectStores \/ CollectFails
  PROVE  IInv'
<1>0. ReadingInv
      BY DEF IInv
<1>1. UNCHANGED <<source, cycle, job, files, bounds>>
      BY DEF CollectStores, CollectFails
<1>2. reading' = [step |-> "idle", rec |-> None, shown |-> None]
      BY DEF CollectStores, CollectFails, NotRead
<1>3. \A e : EventOK(e) => EventOK(e)'
      BY <1>1 DEF EventOK, Coming, Has, files, bounds
<1>4. ASSUME NEW e, e = board', e # None PROVE EventOK(e)
      BY <1>0, <1>4 DEF CollectStores, CollectFails, Upsert, ReadingInv
<1>5. reading'.step = "idle" /\ reading'.rec = None /\ reading'.shown = None
      BY <1>2
<1>6. ASSUME NEW e, e = board', e # None PROVE EventOK(e)'
      BY <1>3, <1>4, <1>6
<1>7. ReadingInv'
      BY <1>0, <1>1, <1>2, <1>5, <1>6 DEF ReadingInv, EventOK
<1> QED
    BY <1>1, <1>7, Outside

-------------------------------------------------------------------------------
(* The theorems *)

\* The invariant holds at the start.
LEMMA InitIInv ==
  ASSUME Init
  PROVE  IInv
<1>1. /\ source \in Sources
      /\ cycle = [id |-> 0, kind |-> None, step |-> "idle", mine |-> None] /\ cycle.id = 0 /\ cycle.step = "idle"
      /\ job = [w \in Writers |-> <<>>] /\ (\A p \in Writers : job[p] = <<>>)
      /\ cand = [c \in Ids |-> None] /\ latest = None
      /\ decided = [c \in Ids |-> None] /\ patch = [c \in Ids |-> None] /\ accepted = [c \in Ids |-> None]
      /\ packet = [c \in Ids |-> None] /\ report = [c \in Ids |-> None]
      /\ reading = [step |-> "idle", rec |-> None, shown |-> None] /\ board = None
      /\ crossed = {} /\ broken = {}
      BY DEF Init, Idle, NotRead
<1>2. \A p \in Writers : DOMAIN job[p] = {} /\ job[p] \in Seq(Writes)
      BY <1>1
<1>3. "cycle" \in Writers /\ "operator" \in Writers
      BY DEF Writers
<1>4. TypeInv
  <2>1. CycleTypes
        BY <1>1 DEF CycleTypes, Steps
  <2>2. JobTypes
        BY <1>1, <1>2 DEF JobTypes
  <2>3. FileTypes
        BY <1>1 DEF FileTypes, Readable
  <2> QED
      BY <1>1, <2>1, <2>2, <2>3 DEF TypeInv
<1>5. JobShape
      BY <1>2 DEF JobShape, OneEach
<1>6. \A c : (\A file : ~Coming(c, file)) /\ ~CycleBusy(c)
      BY <1>1, <1>2, <1>3 DEF Coming, Has, CycleBusy
<1>7. OrderInv
      BY <1>1, <1>2 DEF OrderInv
<1>8. NewInv
      BY <1>1, <1>6 DEF NewInv
<1>9. LatestInv /\ FirstInv /\ CycleInv
      BY <1>1, <1>2, <1>3 DEF LatestInv, FirstInv, CycleInv
<1>10. AgreeInv
  <2>1. \A c \in Ids : \A v \in Decisions : ~Ruled(c, v)
        BY <1>1, <1>2, Nothing DEF Ruled
  <2> QED
      BY <1>1, <2>1, Nothing DEF AgreeInv
<1>11. SeenInv /\ LocalInv
       BY <1>1, <1>2 DEF SeenInv, LocalInv, Readable
<1>12. ReadingInv
  <2>1. reading.step = "idle" /\ reading.rec = None /\ reading.shown = None
        BY <1>1
  <2> QED
      BY <1>1, <2>1, SourcesAssumption DEF ReadingInv
<1> QED
    BY <1>4, <1>5, <1>7, <1>8, <1>9, <1>10, <1>11, <1>12 DEF IInv, StateInv

\* And every step preserves it.
LEMMA NextIInv ==
  ASSUME IInv, [Next]_vars
  PROVE  IInv'
<1>1. CASE Cycle
      BY <1>1, Begins, Finals, Accepts, Completes, Supplies, Closes DEF Cycle
<1>2. CASE Operator
      BY <1>2, OperatorReviews DEF Operator, Decisions
<1>3. CASE \E p \in Writers : Write(p) \/ Dies(p)
      BY <1>3, WriteKeeps, DeathKeeps
<1>4. CASE Collect
      BY <1>4, CollectBeginsKeeps, CollectShowsKeeps, CollectEndsKeeps DEF Collect
<1>5. CASE CollectFails
      BY <1>5, CollectEndsKeeps
<1>6. CASE UNCHANGED vars
  <2>1. UNCHANGED <<source, cycle, job, files, reading, board, bounds>>
        BY <1>6 DEF vars
  <2>2. ReadingInv'
    <3>1. ReadingInv
          BY DEF IInv
    <3> QED
        BY <2>1, <3>1 DEF ReadingInv, ReadInv, EventOK, Approved, GovApproved, CycleBusy, Coming, Has, files, bounds
  <2> QED
      BY <2>1, <2>2, Outside
<1> QED
    BY <1>1, <1>2, <1>3, <1>4, <1>5, <1>6 DEF Next

\* The inductive invariant, of the files, of what is still to be written and of what was read, holds in every state.
THEOREM Inductive == Spec => []IInv
<1>1. Init => IInv
      BY InitIInv
<1>2. IInv /\ [Next]_vars => IInv'
      BY NextIInv
<1> QED
    BY <1>1, <1>2, PTL DEF Spec

\* The types of the state: in every record a reader may find, the two references say the same.
THEOREM TypeCorrect == Spec => []TypeOK
<1>1. IInv => TypeOK
  <2> SUFFICES ASSUME IInv PROVE TypeOK
      OBVIOUS
  <2>1. TypeInv /\ ReadingInv
        BY DEF IInv
  <2> QED
      BY <2>1 DEF TypeInv, CycleTypes, FileTypes, ReadingInv, EventOK, TypeOK
<1> QED
    BY <1>1, Inductive, PTL

\* What the trail of a promotion says agrees: a candidate at rest with its decision, an accepted record with its
\* patch, the readers' verdicts with the records that are there.
THEOREM TrailCorrect == Spec => []TrailAgrees
<1>1. IInv => TrailAgrees
  <2> SUFFICES ASSUME IInv PROVE TrailAgrees
      OBVIOUS
  <2>0. TypeInv /\ JobShape /\ StateInv /\ ReadingInv
        BY DEF IInv
  <2>1. \A c \in Ids : Quiet(c) => \A file : ~Coming(c, file)
    <3> SUFFICES ASSUME NEW c \in Ids, Quiet(c), NEW p \in Writers, NEW n \in DOMAIN job[p], job[p][n].id = c
                 PROVE  FALSE
        BY DEF Coming, Has
    <3>1. p = "cycle"
          BY DEF Quiet, Writers
    <3>2. cycle.id = c /\ job["cycle"] # <<>>
      <4>1. cycle.id = c
            BY <2>0, <3>1 DEF JobShape
      <4> QED
          BY <3>1, <4>1
    <3> QED
        BY <3>2 DEF Quiet, CycleBusy
  <2>2. ASSUME NEW c \in Ids, Undisturbed(c), Quiet(c), decided[c] # None
        PROVE  /\ cand[c].decision = decided[c] /\ cand[c].review = "reviewed"
               /\ decided[c] = "accept" => accepted[c] # None
    <3>1. decided[c] \in Decisions
          BY <2>0, <2>2 DEF StateInv, AgreeInv, TypeInv, FileTypes
    <3>2. Ruled(c, decided[c])
          BY <2>1, <2>2 DEF Ruled
    <3>3. /\ ~Coming(c, "cand") => cand[c].decision = decided[c] /\ cand[c].review = "reviewed"
          /\ decided[c] = "accept" => Granted(c)
          BY <2>0, <2>2, <3>1, <3>2 DEF StateInv, AgreeInv
    <3> QED
        BY <2>1, <2>2, <3>3 DEF Granted
  <2>3. \A c \in Ids : accepted[c] # None => decided[c] # None /\ patch[c] # None
        BY <2>0 DEF StateInv, OrderInv
  <2>4. ASSUME board # None
        PROVE  /\ board.replay = "ready" => None \notin {decided[board.id], accepted[board.id], patch[board.id]}
               /\ board.page = "accepted" /\ board.id \notin crossed =>
                    accepted[board.id] # None \/ (source = "eeepc" /\ (~Quiet(board.id) \/ board.id \in broken))
    <3>1. EventOK(board)
          BY <2>0, <2>4 DEF ReadingInv
    <3> QED
        BY <2>1, <2>3, <3>1 DEF EventOK
  <2> QED
      BY <2>2, <2>3, <2>4 DEF TrailAgrees
<1> QED
    BY <1>1, Inductive, PTL
===============================================================================

---------------------------- MODULE Sessions_proofs ----------------------------
(***************************************************************************)
(* The inductive invariant of Sessions and the theorems that follow.       *)
(***************************************************************************)
EXTENDS Sessions, TLAPS, SequenceTheorems

\* A coroutine that still holds a Session object.
Live == Running \cup {"bgwait", "bgask"}

\* Keys and objects that commands refer to exist and belong together.
References ==
  /\ \A c \in Cmds : pc[c] # "idle" => key[c] \in Keys
  /\ \A c \in Cmds : pc[c] \in Live => at[c] \in 1..Len(sess) /\ sess[at[c]].key = key[c]
  /\ \A k \in Keys : disk[k].key = k
  /\ \A k \in Keys : cache[k] # 0 => sess[cache[k]].key = k

\* A live task works on the cached object, or waits on one that "/new" emptied.
Ownership ==
  \A c \in Cmds : pc[c] \in Live /\ key[c] \notin overtaken =>
    \/ at[c] = cache[key[c]]
    \/ pc[c] = "bgwait" /\ sess[at[c]].msgs = <<>>

\* At most one consolidation of a session awaits the LLM.
Exclusive ==
  \A c, d \in Cmds : pc[c] \in Asking /\ pc[d] \in Asking /\ key[c] = key[d] => c = d

\* The chunk sent to the LLM is still what follows the offset.
InFlight ==
  \A c \in Cmds : pc[c] \in Asking /\ key[c] \notin overtaken =>
    /\ job[c].end > sess[at[c]].lc /\ job[c].end < Len(sess[at[c]].msgs)
    /\ \A i \in (sess[at[c]].lc + 1)..job[c].end : sess[at[c]].msgs[i] \in job[c].chunk

\* Only "/new" leaves an archive task behind.
Archivers == \A c \in Cmds : pc[c] = "archive" => c \in News

IInv ==
  /\ TypeOK /\ LockHeld /\ References /\ Ownership /\ Exclusive /\ InFlight
  /\ CacheIsSaved /\ HiddenIsArchived /\ NothingLost

-------------------------------------------------------------------------------
(* Lemmas on the operators *)

\* Archiving a chunk keeps every earlier entry of HISTORY.md and adds the chunk.
LEMMA HistoryGrows ==
  ASSUME history \in Seq(SUBSET Cmds), NEW X \in SUBSET Cmds,
         history' = Append(history, X)
  PROVE  /\ history' \in Seq(SUBSET Cmds)
         /\ \A c \in Cmds : c \in Logged => c \in Logged'
         /\ \A c \in X : c \in Logged'
<1>1. /\ history' \in Seq(SUBSET Cmds)
      /\ Len(history') = Len(history) + 1
      /\ \A i \in 1..Len(history) : history'[i] = history[i]
      /\ history'[Len(history) + 1] = X
  BY AppendProperties
<1>2. DOMAIN history' = 1..(Len(history) + 1) /\ DOMAIN history = 1..Len(history)
  BY <1>1, LenProperties
<1>3. Len(history) \in Nat
  BY LenProperties
<1> QED
  BY <1>1, <1>2, <1>3 DEF Logged

\* What AskLLM and Leave do to the program counter and the job of their command.
LEMMA RoundStep ==
  ASSUME TypeOK, NEW c \in Cmds, pc[c] \in Running \cup {"bgwait", "bgask"},
         NEW s \in Session, NEW r \in Nat,
         AskLLM(c, s, r) \/ Leave(c)
  PROVE  /\ pc' \in [Cmds -> Locations]
         /\ job' \in [Cmds -> [chunk : SUBSET Cmds, end : Nat, n : Nat]]
         /\ \A d \in Cmds \ {c} : pc'[d] = pc[d] /\ job'[d] = job[d]
         /\ pc[c] \in Running => pc'[c] \in {"ask", "think"}
         /\ pc[c] \notin Running => pc'[c] \in {"bgask", "done"}
         /\ pc'[c] \in Asking =>
              /\ job'[c].end > s.lc /\ job'[c].end < Len(s.msgs)
              /\ \A i \in (s.lc + 1)..job'[c].end : s.msgs[i] \in job'[c].chunk
<1>0. s.msgs \in Seq(Cmds) /\ s.lc \in Nat /\ Len(s.msgs) \in Nat
  <2>1. s.msgs \in Seq(Cmds) /\ s.lc \in Nat
    BY DEF Session
  <2> QED
    BY <2>1, LenProperties
<1>1. CASE Leave(c)
  BY <1>1 DEF Leave, TypeOK, NoJob, Locations, Running, Asking
<1>2. CASE AskLLM(c, s, r)
  <2>1. PICK e \in Boundaries(s) :
          /\ job' = [job EXCEPT ![c] = [chunk |-> Slice(s, s.lc + 1, e), end |-> e, n |-> r]]
          /\ pc' = [pc EXCEPT ![c] = IF pc[c] \in Running THEN "ask" ELSE "bgask"]
    BY <1>2 DEF AskLLM
  <2>2. e \in Nat /\ e > s.lc /\ e < Len(s.msgs)
    BY <1>0 DEF Boundaries
  <2>3. \A p \in (s.lc + 1)..e : s.msgs[p] \in Cmds
    BY <1>0, <2>2, ElementOfSeq
  <2>4. Slice(s, s.lc + 1, e) \in SUBSET Cmds
    BY <2>3 DEF Slice
  <2>5. \A p \in (s.lc + 1)..e : s.msgs[p] \in Slice(s, s.lc + 1, e)
    BY DEF Slice
  <2>6. job[c] \in [chunk : SUBSET Cmds, end : Nat, n : Nat]
    BY DEF TypeOK
  <2> QED
    BY <2>1, <2>2, <2>4, <2>5 DEF TypeOK, Locations, Running, Asking
<1> QED
  BY <1>1, <1>2

\* A command that holds a session does so by a valid reference; the session is well typed.
LEMMA HeldSession ==
  ASSUME TypeOK, References, NEW c \in Cmds, pc[c] \in Live
  PROVE  /\ at[c] \in 1..Len(sess) /\ key[c] \in Keys
         /\ sess[at[c]] \in Session /\ sess[at[c]].key = key[c]
         /\ Len(sess) \in Nat /\ at[c] # 0
<1>1. Len(sess) \in Nat
  BY LenProperties DEF TypeOK
<1>2. at[c] \in 1..Len(sess) /\ sess[at[c]].key = key[c] /\ key[c] \in Keys
  BY DEF References, Live, Running
<1> QED
  BY <1>1, <1>2, ElementOfSeq DEF TypeOK

-------------------------------------------------------------------------------
(* Every action preserves the invariant *)

\* A chunk that reached HISTORY.md and the offset that follows it.
LEMMA ConsolidatedStep ==
  ASSUME IInv, NEW c \in Cmds, pc[c] \in Asking, Consolidated(c),
         UNCHANGED <<lock, key, at, observers>>
  PROVE  IInv'
<1> DEFINE k == key[c]
           o == at[c]
           s == [sess[o] EXCEPT !.lc = job[c].end]
<1>0. TypeOK /\ References
  BY DEF IInv
<1>1. pc[c] \in Live /\ pc[c] \in Running \cup {"bgwait", "bgask"}
  BY DEF Live, Asking, Running
<1>2. /\ o \in 1..Len(sess) /\ k \in Keys /\ o # 0
      /\ sess[o] \in Session /\ sess[o].key = k /\ Len(sess) \in Nat
  BY <1>0, <1>1, HeldSession
<1>3. job[c] \in [chunk : SUBSET Cmds, end : Nat, n : Nat]
  BY <1>0 DEF TypeOK
<1>4. /\ s \in Session /\ s.key = k /\ s.msgs = sess[o].msgs /\ s.lc = job[c].end
  BY <1>2, <1>3 DEF Session
<1> HIDE DEF s
<1>5. /\ sess' \in Seq(Session) /\ Len(sess') = Len(sess)
      /\ \A j \in 1..Len(sess) : sess'[j] = IF j = o THEN s ELSE sess[j]
  <2>1. sess' = [sess EXCEPT ![o] = s]
    BY DEF Consolidated, s
  <2>2. sess \in Seq(Session)
    BY <1>0 DEF TypeOK
  <2> QED
    BY <2>1, <2>2, <1>2, <1>4, ExceptSeq
<1>6. /\ history' \in Seq(SUBSET Cmds)
      /\ \A d \in Cmds : d \in Logged => d \in Logged'
      /\ \A d \in job[c].chunk : d \in Logged'
  <2>1. history' = Append(history, job[c].chunk) /\ history \in Seq(SUBSET Cmds)
    BY <1>0 DEF Consolidated, TypeOK
  <2> QED
    BY <2>1, <1>3, HistoryGrows
<1>7. disk' = [disk EXCEPT ![k] = s] /\ cache' = [cache EXCEPT ![k] = o] /\ failures' = 0
  BY DEF Consolidated, Save, s
<1>8. /\ pc' \in [Cmds -> Locations]
      /\ job' \in [Cmds -> [chunk : SUBSET Cmds, end : Nat, n : Nat]]
      /\ \A d \in Cmds \ {c} : pc'[d] = pc[d] /\ job'[d] = job[d]
      /\ pc[c] \in Running => pc'[c] \in {"ask", "think"}
      /\ pc[c] \notin Running => pc'[c] \in {"bgask", "done"}
      /\ pc'[c] \in Asking =>
           /\ job'[c].end > s.lc /\ job'[c].end < Len(s.msgs)
           /\ \A i \in (s.lc + 1)..job'[c].end : s.msgs[i] \in job'[c].chunk
  <2>1. AskLLM(c, s, job[c].n + 1) \/ Leave(c)
    BY DEF Consolidated, s
  <2>2. job[c].n + 1 \in Nat
    BY <1>3
  <2> QED
    BY <2>1, <2>2, <1>0, <1>1, <1>4, RoundStep
<1>9. UNCHANGED <<lock, key, at, crashes, overtaken, forsaken>>
  BY DEF observers
<1>10. TypeOK'
  <2>1. failures' \in 0..(MaxFailures - 1)
    BY <1>7, BoundsAssumption
  <2>2. cache' \in [Keys -> 0..Len(sess')]
    BY <1>0, <1>2, <1>5, <1>7 DEF TypeOK
  <2>3. disk' \in [Keys -> Session]
    BY <1>0, <1>2, <1>4, <1>7 DEF TypeOK
  <2>4. at' \in [Cmds -> 0..Len(sess')]
    BY <1>0, <1>5, <1>9 DEF TypeOK
  <2>5. lock' \in Cmds \cup {None} /\ key' \in [Cmds -> Keys \cup {None}]
        /\ crashes' \in 0..MaxCrashes /\ overtaken' \in SUBSET Keys /\ forsaken' \in SUBSET Cmds
    BY <1>0, <1>9 DEF TypeOK
  <2> QED
    BY <1>5, <1>6, <1>8, <2>1, <2>2, <2>3, <2>4, <2>5 DEF TypeOK
<1>11. LockHeld'
  BY <1>8, <1>9, <1>0 DEF IInv, LockHeld, Running, Asking, TypeOK
<1>12. References'
  <2>1. \A d \in Cmds : pc'[d] # "idle" => pc[d] # "idle"
    BY <1>1, <1>8 DEF Live, Running
  <2>2. \A d \in Cmds : pc'[d] \in Live => pc[d] \in Live
    BY <1>1, <1>8 DEF Live
  <2>3. \A d \in Cmds : pc'[d] \in Live =>
          at'[d] \in 1..Len(sess') /\ sess'[at'[d]].key = key'[d]
    BY <2>2, <1>0, <1>2, <1>4, <1>5, <1>9 DEF References
  <2>4. \A l \in Keys : cache'[l] # 0 => sess'[cache'[l]].key = l
    BY <1>0, <1>2, <1>4, <1>5, <1>7 DEF References, TypeOK
  <2> QED
    BY <2>1, <2>3, <2>4, <1>0, <1>4, <1>7, <1>9 DEF References, TypeOK
<1>13. Ownership'
  <2> SUFFICES ASSUME NEW d \in Cmds, pc'[d] \in Live, key[d] \notin overtaken
               PROVE  \/ at[d] = cache'[key[d]]
                      \/ pc'[d] = "bgwait" /\ sess'[at[d]].msgs = <<>>
    BY <1>9 DEF Ownership
  <2>1. pc[d] \in Live /\ key[d] \in Keys /\ at[d] \in 1..Len(sess)
    BY <1>0, <1>1, <1>8, HeldSession DEF Live
  <2>2. \/ at[d] = cache[key[d]]
        \/ pc[d] = "bgwait" /\ sess[at[d]].msgs = <<>>
    BY <2>1 DEF IInv, Ownership
  <2>3. \/ at[c] = cache[key[c]]
        \/ key[c] \in overtaken
    BY <1>1 DEF IInv, Ownership, Asking
  <2>4. CASE d = c
    BY <2>4, <1>0, <1>2, <1>7 DEF TypeOK
  <2>5. CASE d # c /\ key[d] = k
    BY <2>5, <2>1, <2>2, <2>3, <1>0, <1>4, <1>5, <1>7, <1>8 DEF TypeOK
  <2>6. CASE d # c /\ key[d] # k
    BY <2>6, <2>1, <2>2, <1>0, <1>4, <1>5, <1>7, <1>8 DEF TypeOK
  <2> QED
    BY <2>4, <2>5, <2>6
<1>14. Exclusive'
  <2>1. \A d \in Cmds : pc'[d] \in Asking => pc[d] \in Asking
    BY <1>8
  <2> QED
    BY <2>1, <1>9 DEF IInv, Exclusive
<1>15. InFlight'
  <2> SUFFICES ASSUME NEW d \in Cmds, pc'[d] \in Asking, key[d] \notin overtaken
               PROVE  /\ job'[d].end > sess'[at[d]].lc /\ job'[d].end < Len(sess'[at[d]].msgs)
                      /\ \A i \in (sess'[at[d]].lc + 1)..job'[d].end :
                           sess'[at[d]].msgs[i] \in job'[d].chunk
    BY <1>9 DEF InFlight
  <2>1. CASE d = c
    BY <2>1, <1>2, <1>5, <1>8
  <2>2. CASE d # c
    <3>1. pc[d] \in Asking /\ job'[d] = job[d]
      BY <2>2, <1>8
    <3>2. key[d] # key[c]
      BY <2>2, <3>1 DEF IInv, Exclusive
    <3>3. pc[d] \in Live
      BY <3>1 DEF Live, Asking, Running
    <3>4. at[d] \in 1..Len(sess) /\ sess[at[d]].key = key[d]
      BY <3>3, <1>0, HeldSession
    <3>5. sess'[at[d]] = sess[at[d]]
      BY <3>2, <3>4, <1>2, <1>5
    <3> QED
      BY <3>1, <3>5 DEF IInv, InFlight
  <2> QED
    BY <2>1, <2>2
<1>16. CacheIsSaved'
  <2> SUFFICES ASSUME NEW l \in Keys, cache'[l] # 0
               PROVE  sess'[cache'[l]] = disk'[l]
    BY DEF CacheIsSaved
  <2>1. CASE l = k
    BY <2>1, <1>0, <1>2, <1>5, <1>7 DEF TypeOK
  <2>2. CASE l # k
    <3>1. cache'[l] = cache[l] /\ disk'[l] = disk[l]
      BY <2>2, <1>0, <1>7 DEF TypeOK
    <3>2. cache[l] \in 1..Len(sess) /\ sess[cache[l]].key = l
      BY <3>1, <1>0, <1>2 DEF TypeOK, References
    <3>3. sess'[cache[l]] = sess[cache[l]]
      BY <3>2, <2>2, <1>2, <1>5
    <3> QED
      BY <3>1, <3>3 DEF IInv, CacheIsSaved
  <2> QED
    BY <2>1, <2>2
<1>17. HiddenIsArchived'
  <2> SUFFICES ASSUME NEW l \in Keys \ overtaken
               PROVE  /\ disk'[l].lc <= Len(disk'[l].msgs)
                      /\ \A i \in 1..disk'[l].lc : disk'[l].msgs[i] \in Logged'
    BY <1>9 DEF HiddenIsArchived
  <2>0. /\ disk[l].lc <= Len(disk[l].msgs)
        /\ \A i \in 1..disk[l].lc : disk[l].msgs[i] \in Logged
        /\ disk[l] \in Session
    BY <1>0 DEF IInv, HiddenIsArchived, TypeOK
  <2>1. CASE l = k
    <3>1. disk'[l] = s
      BY <2>1, <1>0, <1>7 DEF TypeOK
    <3>2. sess[o] = disk[l]
      BY <2>1, <1>1, <1>2 DEF IInv, Ownership, CacheIsSaved, Asking
    <3>3. /\ job[c].end > sess[o].lc /\ job[c].end < Len(sess[o].msgs)
          /\ \A i \in (sess[o].lc + 1)..job[c].end : sess[o].msgs[i] \in job[c].chunk
      BY <2>1 DEF IInv, InFlight
    <3>4. Len(sess[o].msgs) \in Nat /\ sess[o].lc \in Nat /\ job[c].end \in Nat
          /\ sess[o].msgs \in Seq(Cmds)
      <4>1. sess[o].msgs \in Seq(Cmds) /\ sess[o].lc \in Nat
        BY <1>2 DEF Session
      <4> QED
        BY <4>1, <1>3, LenProperties
    <3>5. ASSUME NEW i \in 1..job[c].end PROVE sess[o].msgs[i] \in Logged'
      <4>1. sess[o].msgs[i] \in Cmds
        BY <3>3, <3>4, ElementOfSeq
      <4>2. CASE i <= sess[o].lc
        <5>1. disk[l].msgs[i] \in Logged
          BY <4>2, <3>2, <3>4, <2>0
        <5> QED
          BY <5>1, <4>1, <3>2, <1>6
      <4>3. CASE i > sess[o].lc
        BY <4>3, <3>3, <3>4, <1>6
      <4> QED
        BY <4>2, <4>3, <3>4
    <3> QED
      BY <3>1, <3>3, <3>4, <3>5, <1>4
  <2>2. CASE l # k
    <3>1. disk'[l] = disk[l]
      BY <2>2, <1>0, <1>7 DEF TypeOK
    <3>2. \A i \in 1..disk[l].lc : disk[l].msgs[i] \in Cmds
      BY <2>0, ElementOfSeq, LenProperties DEF Session
    <3> QED
      BY <3>1, <3>2, <2>0, <1>6
  <2> QED
    BY <2>1, <2>2
<1>18. NothingLost'
  <2> SUFFICES ASSUME NEW d \in Cmds, Answered(d)', key[d] \notin overtaken
               PROVE  OnDisk(d)' \/ d \in Logged' \/ InArchive(d)' \/ d \in forsaken
    BY <1>9 DEF NothingLost
  <2>1. CASE d # c \/ pc[c] \notin Running
    <3>1. Answered(d)
      BY <2>1, <1>8 DEF Answered, Asking, Running
    <3>2. OnDisk(d) \/ d \in Logged \/ InArchive(d) \/ d \in forsaken
      BY <3>1 DEF IInv, NothingLost
    <3>3. InArchive(d) => InArchive(d)'
      BY <1>8 DEF InArchive, Asking
    <3>4. key[d] \in Keys
      BY <3>1, <1>0 DEF References, Answered
    <3>5. OnDisk(d) => OnDisk(d)'
      <4>1. CASE key[d] # k
        BY <4>1, <3>4, <1>0, <1>7, <1>9 DEF OnDisk, TypeOK
      <4>2. CASE key[d] = k
        <5>1. sess[o] = disk[k]
          BY <4>2, <1>1, <1>2 DEF IInv, Ownership, CacheIsSaved, Asking
        <5>2. disk'[k].msgs = disk[k].msgs
          BY <5>1, <1>0, <1>2, <1>4, <1>7 DEF TypeOK
        <5> QED
          BY <4>2, <5>2, <1>9 DEF OnDisk
      <4> QED
        BY <4>1, <4>2
    <3> QED
      BY <3>2, <3>3, <3>5, <1>6
  <2>2. CASE d = c /\ pc[c] \in Running
    BY <2>2, <1>8 DEF Answered
  <2> QED
    BY <2>1, <2>2
<1> QED
  BY <1>10, <1>11, <1>12, <1>13, <1>14, <1>15, <1>16, <1>17, <1>18 DEF IInv

\* Steps that change neither the sessions nor the log, only one command's control.
LEMMA ControlStep ==
  ASSUME IInv, NEW c \in Cmds, pc[c] \in Live,
         UNCHANGED <<storage, key, at, history, overtaken>>,
         \A d \in Cmds \ {c} : pc'[d] = pc[d] /\ job'[d] = job[d],
         pc'[c] \in Live \cup {"stopped", "done"},
         Answered(c)' => Answered(c)
  PROVE  References' /\ CacheIsSaved' /\ HiddenIsArchived'
         /\ (forsaken' = forsaken => NothingLost')
<1>0. TypeOK /\ References /\ pc[c] # "idle" /\ pc[c] # "archive"
  BY DEF IInv, Live, Running
<1>1. UNCHANGED <<sess, cache, disk, key, at, history, overtaken>>
  BY DEF storage
<1>2. References'
  <2>1. \A d \in Cmds : pc'[d] # "idle" => pc[d] # "idle"
    BY <1>0
  <2>2. \A d \in Cmds : pc'[d] \in Live => pc[d] \in Live
    OBVIOUS
  <2> QED
    BY <2>1, <2>2, <1>0, <1>1 DEF References
<1>3. CacheIsSaved' /\ HiddenIsArchived'
  BY <1>1 DEF IInv, CacheIsSaved, HiddenIsArchived, Logged
<1>4. ASSUME forsaken' = forsaken PROVE NothingLost'
  <2>1. \A d \in Cmds : Answered(d)' => Answered(d)
    BY DEF Answered
  <2>2. \A d \in Cmds : InArchive(d) => InArchive(d)'
    BY <1>0 DEF InArchive
  <2>3. Logged' = Logged /\ \A d \in Cmds : OnDisk(d)' = OnDisk(d)
    BY <1>1 DEF Logged, OnDisk
  <2> QED
    BY <2>1, <2>2, <2>3, <1>1, <1>4 DEF IInv, NothingLost
<1> QED
  BY <1>2, <1>3, <1>4

\* Acquiring the per-session lock and choosing a chunk: no other task awaits the LLM for it.
LEMMA StartConsolidationStep ==
  ASSUME IInv, NEW c \in Cmds, StartConsolidation(c)
  PROVE  IInv'
<1> DEFINE s == sess[at[c]]
<1>0. TypeOK /\ References
  BY DEF IInv
<1>1. /\ pc[c] \in {"wait", "bgwait"} /\ pc[c] \in Live /\ pc[c] \notin Asking
      /\ pc[c] \in Running \cup {"bgwait", "bgask"}
  BY DEF StartConsolidation, Live, Running, Asking
<1>2. UNCHANGED <<sess, cache, disk, lock, key, at, history, failures, crashes, overtaken, forsaken>>
  BY DEF StartConsolidation, storage, log, observers
<1>3. s \in Session /\ Len(s.msgs) \in Nat /\ s.lc \in Nat /\ key[c] \in Keys
  <2>1. s \in Session /\ key[c] \in Keys
    BY <1>0, <1>1, HeldSession
  <2>2. s.msgs \in Seq(Cmds) /\ s.lc \in Nat
    BY <2>1 DEF Session
  <2> QED
    BY <2>1, <2>2, LenProperties
<1>4. /\ pc' \in [Cmds -> Locations]
      /\ job' \in [Cmds -> [chunk : SUBSET Cmds, end : Nat, n : Nat]]
      /\ \A d \in Cmds \ {c} : pc'[d] = pc[d] /\ job'[d] = job[d]
      /\ pc[c] \in Running => pc'[c] \in {"ask", "think"}
      /\ pc[c] \notin Running => pc'[c] \in {"bgask", "done"}
      /\ pc'[c] \in Asking =>
           /\ job'[c].end > s.lc /\ job'[c].end < Len(s.msgs)
           /\ \A i \in (s.lc + 1)..job'[c].end : s.msgs[i] \in job'[c].chunk
  <2>1. AskLLM(c, s, 1) \/ Leave(c)
    BY DEF StartConsolidation
  <2>2. 1 \in Nat
    OBVIOUS
  <2> QED
    BY <2>1, <2>2, <1>0, <1>1, <1>3, RoundStep
<1>5. pc'[c] \in Asking => LockFree(key[c]) /\ s.msgs # <<>>
  <2>1. ASSUME pc'[c] \in Asking PROVE s.msgs # <<>>
    <3>1. Len(s.msgs) > 0 /\ Len(<<>>) = 0
      BY <2>1, <1>3, <1>4
    <3> QED
      BY <3>1
  <2>2. ASSUME pc'[c] \in Asking PROVE LockFree(key[c])
    BY <2>1, <2>2 DEF StartConsolidation
  <2> QED
    BY <2>1, <2>2
<1>6. TypeOK'
  BY <1>0, <1>2, <1>4 DEF TypeOK
<1>7. LockHeld'
  BY <1>0, <1>2, <1>4 DEF IInv, LockHeld, Running, Asking, TypeOK
<1>8. References' /\ CacheIsSaved' /\ HiddenIsArchived' /\ NothingLost'
  <2>1. pc'[c] \in Live \cup {"stopped", "done"}
    BY <1>4 DEF Live, Running
  <2>2. Answered(c)' => Answered(c)
    BY <1>1, <1>4 DEF Answered, Running
  <2> QED
    BY <2>1, <2>2, <1>1, <1>2, <1>4, ControlStep DEF storage
<1>9. Ownership'
  <2>1. \A d \in Cmds \ {c} : pc'[d] = pc[d]
    BY <1>4
  <2>2. pc'[c] \in Live /\ key[c] \notin overtaken => at[c] = cache[key[c]]
    <3> SUFFICES ASSUME pc'[c] \in Live, key[c] \notin overtaken
                 PROVE  at[c] = cache[key[c]]
      OBVIOUS
    <3>1. \/ at[c] = cache[key[c]]
          \/ pc[c] = "bgwait" /\ s.msgs = <<>>
      BY <1>1 DEF IInv, Ownership
    <3>2. CASE pc[c] = "bgwait" /\ s.msgs = <<>>
      <4>1. pc'[c] = "bgask"
        BY <3>2, <1>4 DEF Live, Running
      <4> QED
        BY <4>1, <3>2, <1>5 DEF Asking
    <3> QED
      BY <3>1, <3>2
  <2> QED
    BY <2>1, <2>2, <1>2 DEF IInv, Ownership
<1>10. Exclusive'
  BY <1>2, <1>4, <1>5 DEF IInv, Exclusive, LockFree
<1>11. InFlight'
  BY <1>2, <1>4 DEF IInv, InFlight
<1> QED
  BY <1>6, <1>7, <1>8, <1>9, <1>10, <1>11 DEF IInv

\* A consolidation that the LLM answered: its chunk is in HISTORY.md before the offset moves.
LEMMA ConsolidateOkStep ==
  ASSUME IInv, NEW c \in Cmds, ConsolidateOk(c)
  PROVE  IInv'
BY ConsolidatedStep DEF ConsolidateOk

\* A failed consolidation: given up, or dumped raw when the counter reaches the threshold.
LEMMA ConsolidateFailStep ==
  ASSUME IInv, NEW c \in Cmds, ConsolidateFail(c)
  PROVE  IInv'
<1>0. TypeOK /\ References
  BY DEF IInv
<1>1. pc[c] \in Asking /\ pc[c] \in Live /\ UNCHANGED <<lock, key, at, observers>>
  BY DEF ConsolidateFail, Live, Asking, Running
<1>2. CASE failures + 1 >= MaxFailures
  <2>1. Consolidated(c)
    BY <1>2, <1>0, BoundsAssumption DEF ConsolidateFail, TypeOK
  <2> QED
    BY <2>1, <1>1, ConsolidatedStep
<1>3. CASE failures + 1 < MaxFailures
  <2>1. failures' = failures + 1 /\ Leave(c) /\ UNCHANGED <<storage, history>>
    BY <1>3 DEF ConsolidateFail
  <2>2. /\ pc' \in [Cmds -> Locations]
        /\ job' \in [Cmds -> [chunk : SUBSET Cmds, end : Nat, n : Nat]]
        /\ \A d \in Cmds \ {c} : pc'[d] = pc[d] /\ job'[d] = job[d]
        /\ pc[c] \in Running => pc'[c] = "think"
        /\ pc[c] \notin Running => pc'[c] = "done"
    BY <2>1, <1>0 DEF Leave, TypeOK, NoJob, Locations, Running
  <2>3. failures' \in 0..(MaxFailures - 1)
    BY <2>1, <1>0, <1>3, BoundsAssumption DEF TypeOK
  <2>4. UNCHANGED <<sess, cache, disk, history, lock, key, at, crashes, overtaken, forsaken>>
    BY <2>1, <1>1 DEF storage, observers
  <2>5. TypeOK'
    BY <1>0, <2>2, <2>3, <2>4 DEF TypeOK
  <2>6. LockHeld'
    BY <1>0, <1>1, <2>2, <2>4 DEF IInv, LockHeld, Running, Asking, TypeOK
  <2>7. References' /\ CacheIsSaved' /\ HiddenIsArchived' /\ NothingLost'
    <3>1. pc'[c] \in Live \cup {"stopped", "done"}
      BY <2>2 DEF Live, Running
    <3>2. Answered(c)' => Answered(c)
      BY <1>1, <2>2 DEF Answered, Running, Asking
    <3> QED
      BY <3>1, <3>2, <1>1, <2>2, <2>4, ControlStep DEF storage
  <2>8. Ownership'
    <3>1. key[c] \notin overtaken => at[c] = cache[key[c]]
      BY <1>1 DEF IInv, Ownership, Asking
    <3> QED
      BY <3>1, <2>2, <2>4 DEF IInv, Ownership
  <2>9. Exclusive' /\ InFlight'
    <3>1. \A d \in Cmds : pc'[d] \in Asking => d # c /\ pc'[d] = pc[d] /\ job'[d] = job[d]
      BY <2>2 DEF Asking
    <3> QED
      BY <3>1, <2>4 DEF IInv, Exclusive, InFlight
  <2> QED
    BY <2>5, <2>6, <2>7, <2>8, <2>9 DEF IInv
<1> QED
  BY <1>0, <1>2, <1>3, BoundsAssumption DEF TypeOK

\* A cancelled or failed turn: it leaves the lock and no trace in the session.
LEMMA AbortTurnStep ==
  ASSUME IInv, NEW c \in Cmds, AbortTurn(c)
  PROVE  IInv'
<1>0. TypeOK /\ References
  BY DEF IInv
<1>1. pc[c] \in Running /\ pc[c] \in Live
  BY DEF AbortTurn, Live
<1>2. /\ UNCHANGED <<sess, cache, disk, key, at, history, failures, crashes, overtaken, forsaken>>
      /\ lock' = IF lock = c THEN None ELSE lock
  BY DEF AbortTurn, Unlock, storage, log, observers
<1>3. /\ pc' \in [Cmds -> Locations] /\ pc'[c] = "stopped"
      /\ job' \in [Cmds -> [chunk : SUBSET Cmds, end : Nat, n : Nat]]
      /\ \A d \in Cmds \ {c} : pc'[d] = pc[d] /\ job'[d] = job[d]
  BY <1>0 DEF AbortTurn, TypeOK, NoJob, Locations
<1>4. TypeOK'
  BY <1>0, <1>2, <1>3 DEF TypeOK
<1>5. LockHeld'
  <2>1. \A d \in Cmds : pc'[d] \in Running => d # c /\ pc[d] \in Running
    BY <1>3 DEF Running
  <2>2. lock' # None => lock' # c /\ lock' = lock
    BY <1>2
  <2>3. \A d \in Cmds : pc'[d] \in Running /\ key[d] \in ChatKeys => lock' = d
    <3> SUFFICES ASSUME NEW d \in Cmds, pc'[d] \in Running, key[d] \in ChatKeys
                 PROVE  lock' = d
      OBVIOUS
    <3>1. lock = d /\ d # c
      BY <2>1 DEF IInv, LockHeld
    <3> QED
      BY <3>1, <1>2
  <2>4. lock' # None => pc'[lock'] \in Running
    BY <2>2, <1>0, <1>3 DEF IInv, LockHeld, TypeOK
  <2> QED
    BY <2>3, <2>4, <1>2 DEF LockHeld
<1>6. References' /\ CacheIsSaved' /\ HiddenIsArchived' /\ NothingLost'
  <2>1. Answered(c)' => Answered(c)
    BY <1>3 DEF Answered
  <2> QED
    BY <2>1, <1>1, <1>2, <1>3, ControlStep DEF storage
<1>7. \A d \in Cmds : pc'[d] \in Live => d # c /\ pc'[d] = pc[d] /\ job'[d] = job[d]
  BY <1>3 DEF Live, Running
<1>8. Ownership'
  BY <1>2, <1>7 DEF IInv, Ownership
<1>9. Exclusive' /\ InFlight'
  <2>1. \A d \in Cmds : pc'[d] \in Asking => pc[d] \in Asking /\ job'[d] = job[d]
    BY <1>7 DEF Asking, Live, Running
  <2> QED
    BY <2>1, <1>2 DEF IInv, Exclusive, InFlight
<1> QED
  BY <1>4, <1>5, <1>6, <1>8, <1>9 DEF IInv

\* A turn's messages are appended to the cached object, which is then saved.
LEMMA CommitTurnStep ==
  ASSUME IInv, NEW c \in Cmds, CommitTurn(c)
  PROVE  IInv'
<1> DEFINE k == key[c]
           o == at[c]
           s == [sess[o] EXCEPT !.msgs = Append(@, c)]
<1>0. TypeOK /\ References /\ LockHeld
  BY DEF IInv
<1>1. pc[c] = "think" /\ pc[c] \in Live /\ pc[c] \in Running /\ pc[c] \notin Asking
  BY DEF CommitTurn, Live, Running, Asking
<1>2. /\ o \in 1..Len(sess) /\ k \in Keys /\ o # 0
      /\ sess[o] \in Session /\ sess[o].key = k /\ Len(sess) \in Nat
  BY <1>0, <1>1, HeldSession
<1>3. sess[o].msgs \in Seq(Cmds) /\ sess[o].lc \in Nat /\ Len(sess[o].msgs) \in Nat
  <2>1. sess[o].msgs \in Seq(Cmds) /\ sess[o].lc \in Nat
    BY <1>2 DEF Session
  <2> QED
    BY <2>1, LenProperties
<1>4. /\ Append(sess[o].msgs, c) \in Seq(Cmds)
      /\ Len(Append(sess[o].msgs, c)) = Len(sess[o].msgs) + 1
      /\ \A i \in 1..Len(sess[o].msgs) : Append(sess[o].msgs, c)[i] = sess[o].msgs[i]
      /\ Append(sess[o].msgs, c)[Len(sess[o].msgs) + 1] = c
  BY <1>3, AppendProperties
<1>5. s \in Session /\ s.key = k /\ s.msgs = Append(sess[o].msgs, c) /\ s.lc = sess[o].lc
  BY <1>2, <1>4 DEF Session
<1>6. /\ sess' = [sess EXCEPT ![o] = s]
      /\ disk' = [disk EXCEPT ![k] = s] /\ cache' = [cache EXCEPT ![k] = o]
  BY DEF CommitTurn, Save
<1> HIDE DEF s
<1>7. /\ sess' \in Seq(Session) /\ Len(sess') = Len(sess)
      /\ \A j \in 1..Len(sess) : sess'[j] = IF j = o THEN s ELSE sess[j]
  <2>1. sess \in Seq(Session)
    BY <1>0 DEF TypeOK
  <2> QED
    BY <2>1, <1>2, <1>5, <1>6, ExceptSeq
<1>8. /\ pc' = [pc EXCEPT ![c] = "bgwait"]
      /\ UNCHANGED <<key, at, job, history, failures, crashes, overtaken, forsaken>>
      /\ lock' = IF lock = c THEN None ELSE lock
  BY DEF CommitTurn, Unlock, log, observers
<1>9. /\ pc' \in [Cmds -> Locations] /\ pc'[c] = "bgwait"
      /\ \A d \in Cmds \ {c} : pc'[d] = pc[d]
  BY <1>0, <1>8 DEF TypeOK, Locations
<1>10. TypeOK'
  BY <1>0, <1>2, <1>5, <1>6, <1>7, <1>8, <1>9 DEF TypeOK
<1>11. LockHeld'
  <2>1. \A d \in Cmds : pc'[d] \in Running => d # c /\ pc[d] \in Running
    BY <1>9 DEF Running
  <2>2. ASSUME NEW d \in Cmds, pc'[d] \in Running, key[d] \in ChatKeys PROVE lock' = d
    <3>1. lock = d /\ d # c
      BY <2>1, <2>2 DEF IInv, LockHeld
    <3> QED
      BY <3>1, <1>8
  <2>3. lock' # None => pc'[lock'] \in Running
    BY <1>0, <1>8, <1>9 DEF LockHeld, TypeOK
  <2> QED
    BY <2>2, <2>3, <1>8 DEF LockHeld
<1>12. References'
  <2>1. \A d \in Cmds : pc'[d] # "idle" => pc[d] # "idle"
    BY <1>1, <1>9
  <2>2. \A d \in Cmds : pc'[d] \in Live => pc[d] \in Live
    BY <1>1, <1>9
  <2>3. \A d \in Cmds : pc'[d] \in Live =>
          at'[d] \in 1..Len(sess') /\ sess'[at'[d]].key = key'[d]
    BY <2>2, <1>0, <1>2, <1>5, <1>7, <1>8 DEF References
  <2>4. \A l \in Keys : cache'[l] # 0 => sess'[cache'[l]].key = l
    BY <1>0, <1>2, <1>5, <1>6, <1>7 DEF References, TypeOK
  <2> QED
    BY <2>1, <2>3, <2>4, <1>0, <1>5, <1>6, <1>8 DEF References, TypeOK
<1>13. key[c] \notin overtaken => o = cache[k] /\ sess[o] = disk[k]
  BY <1>1, <1>2 DEF IInv, Ownership, CacheIsSaved
<1>14. Ownership'
  <2> SUFFICES ASSUME NEW d \in Cmds, pc'[d] \in Live, key[d] \notin overtaken
               PROVE  \/ at[d] = cache'[key[d]]
                      \/ pc'[d] = "bgwait" /\ sess'[at[d]].msgs = <<>>
    BY <1>8 DEF Ownership
  <2>1. pc[d] \in Live /\ key[d] \in Keys /\ at[d] \in 1..Len(sess) /\ sess[at[d]].key = key[d]
    BY <1>0, <1>1, <1>9, HeldSession
  <2>2. \/ at[d] = cache[key[d]]
        \/ pc[d] = "bgwait" /\ sess[at[d]].msgs = <<>>
    BY <2>1 DEF IInv, Ownership
  <2>3. CASE d = c
    BY <2>3, <1>0, <1>2, <1>6 DEF TypeOK
  <2>4. CASE d # c /\ key[d] = k
    BY <2>4, <2>1, <2>2, <1>0, <1>6, <1>7, <1>9, <1>13 DEF TypeOK
  <2>5. CASE d # c /\ key[d] # k
    BY <2>5, <2>1, <2>2, <1>0, <1>2, <1>6, <1>7, <1>9 DEF TypeOK
  <2> QED
    BY <2>3, <2>4, <2>5
<1>15. Exclusive'
  BY <1>8, <1>9 DEF IInv, Exclusive, Asking
<1>16. InFlight'
  <2> SUFFICES ASSUME NEW d \in Cmds, pc'[d] \in Asking, key[d] \notin overtaken
               PROVE  /\ job[d].end > sess'[at[d]].lc /\ job[d].end < Len(sess'[at[d]].msgs)
                      /\ \A i \in (sess'[at[d]].lc + 1)..job[d].end :
                           sess'[at[d]].msgs[i] \in job[d].chunk
    BY <1>8 DEF InFlight
  <2>1. d # c /\ pc[d] \in Asking /\ pc[d] \in Live
    BY <1>9 DEF Asking, Live, Running
  <2>2. at[d] \in 1..Len(sess) /\ job[d].end \in Nat
    BY <2>1, <1>0, HeldSession DEF TypeOK
  <2>3. /\ job[d].end > sess[at[d]].lc /\ job[d].end < Len(sess[at[d]].msgs)
        /\ \A i \in (sess[at[d]].lc + 1)..job[d].end : sess[at[d]].msgs[i] \in job[d].chunk
    BY <2>1 DEF IInv, InFlight
  <2>4. CASE at[d] # o
    BY <2>2, <2>3, <2>4, <1>7
  <2>5. CASE at[d] = o
    <3>1. sess'[at[d]] = s
      BY <2>5, <1>2, <1>7
    <3>2. \A i \in (sess[o].lc + 1)..job[d].end : s.msgs[i] = sess[o].msgs[i]
      BY <2>2, <2>3, <2>5, <1>3, <1>4, <1>5
    <3>3. Len(s.msgs) = Len(sess[o].msgs) + 1 /\ s.lc = sess[o].lc
      BY <1>4, <1>5
    <3> QED
      BY <3>1, <3>2, <3>3, <2>2, <2>3, <2>5, <1>3
  <2> QED
    BY <2>4, <2>5
<1>17. CacheIsSaved'
  <2> SUFFICES ASSUME NEW l \in Keys, cache'[l] # 0
               PROVE  sess'[cache'[l]] = disk'[l]
    BY DEF CacheIsSaved
  <2>1. CASE l = k
    BY <2>1, <1>0, <1>2, <1>6, <1>7 DEF TypeOK
  <2>2. CASE l # k
    <3>1. cache'[l] = cache[l] /\ disk'[l] = disk[l]
      BY <2>2, <1>0, <1>6 DEF TypeOK
    <3>2. cache[l] \in 1..Len(sess) /\ sess[cache[l]].key = l
      BY <3>1, <1>0, <1>2 DEF TypeOK, References
    <3>3. sess'[cache[l]] = sess[cache[l]]
      BY <3>2, <2>2, <1>2, <1>7
    <3> QED
      BY <3>1, <3>3 DEF IInv, CacheIsSaved
  <2> QED
    BY <2>1, <2>2
<1>18. HiddenIsArchived'
  <2> SUFFICES ASSUME NEW l \in Keys \ overtaken
               PROVE  /\ disk'[l].lc <= Len(disk'[l].msgs)
                      /\ \A i \in 1..disk'[l].lc : disk'[l].msgs[i] \in Logged
    BY <1>8 DEF HiddenIsArchived, Logged
  <2>1. /\ disk[l].lc <= Len(disk[l].msgs)
        /\ \A i \in 1..disk[l].lc : disk[l].msgs[i] \in Logged
    BY DEF IInv, HiddenIsArchived
  <2>2. CASE l = k
    <3>1. disk'[l] = s /\ sess[o] = disk[l]
      BY <2>2, <1>0, <1>6, <1>13 DEF TypeOK
    <3>2. \A i \in 1..s.lc : s.msgs[i] = disk[l].msgs[i]
      BY <2>1, <3>1, <1>3, <1>4, <1>5
    <3> QED
      BY <2>1, <3>1, <3>2, <1>3, <1>4, <1>5
  <2>3. CASE l # k
    BY <2>1, <2>3, <1>0, <1>6 DEF TypeOK
  <2> QED
    BY <2>2, <2>3
<1>19. NothingLost'
  <2> SUFFICES ASSUME NEW d \in Cmds, Answered(d)', key[d] \notin overtaken
               PROVE  OnDisk(d)' \/ d \in Logged' \/ InArchive(d)' \/ d \in forsaken
    BY <1>8 DEF NothingLost
  <2>1. CASE d = c
    <3>1. disk'[key'[c]].msgs = s.msgs
      BY <1>0, <1>2, <1>6, <1>8 DEF TypeOK
    <3>2. s.msgs[Len(sess[o].msgs) + 1] = c /\ Len(s.msgs) = Len(sess[o].msgs) + 1
          /\ s.msgs \in Seq(Cmds)
      BY <1>4, <1>5
    <3>3. Len(sess[o].msgs) + 1 \in DOMAIN s.msgs
      BY <3>2, <1>3, LenProperties
    <3> QED
      BY <2>1, <3>1, <3>2, <3>3 DEF OnDisk
  <2>2. CASE d # c
    <3>1. Answered(d) /\ key[d] \in Keys
      BY <2>2, <1>0, <1>9 DEF Answered, References
    <3>2. OnDisk(d) \/ d \in Logged \/ InArchive(d) \/ d \in forsaken
      BY <3>1 DEF IInv, NothingLost
    <3>3. InArchive(d) => InArchive(d)'
      BY <1>1, <1>8, <1>9 DEF InArchive
    <3>4. OnDisk(d) => OnDisk(d)'
      <4>1. CASE key[d] # k
        BY <4>1, <3>1, <1>0, <1>6, <1>8 DEF OnDisk, TypeOK
      <4>2. CASE key[d] = k
        <5>1. disk'[key'[d]].msgs = s.msgs /\ disk[key[d]].msgs = sess[o].msgs
          BY <4>2, <1>0, <1>2, <1>6, <1>8, <1>13 DEF TypeOK
        <5>2. DOMAIN sess[o].msgs = 1..Len(sess[o].msgs)
              /\ DOMAIN s.msgs = 1..(Len(sess[o].msgs) + 1)
          BY <1>3, <1>4, <1>5, LenProperties
        <5>3. \A i \in DOMAIN sess[o].msgs : i \in DOMAIN s.msgs /\ s.msgs[i] = sess[o].msgs[i]
          BY <5>2, <1>3, <1>4, <1>5
        <5> QED
          BY <5>1, <5>3 DEF OnDisk
      <4> QED
        BY <4>1, <4>2
    <3> QED
      BY <3>2, <3>3, <3>4, <1>8 DEF Logged
  <2> QED
    BY <2>1, <2>2
<1> QED
  BY <1>10, <1>11, <1>12, <1>14, <1>15, <1>16, <1>17, <1>18, <1>19 DEF IInv

-------------------------------------------------------------------------------
(* Opening a session *)

\* get_or_create: a valid object that holds what the file holds; older objects stay.
LEMMA OpenSession ==
  ASSUME TypeOK, References, CacheIsSaved, NEW k \in Keys
  PROVE  /\ Heap(k) \in Seq(Session) /\ Len(Heap(k)) \in Nat
         /\ Len(sess) \in Nat /\ Len(sess) <= Len(Heap(k))
         /\ \A j \in 1..Len(sess) : Heap(k)[j] = sess[j]
         /\ Handle(k) \in 1..Len(Heap(k)) /\ Handle(k) # 0
         /\ Heap(k)[Handle(k)] = disk[k] /\ disk[k] \in Session /\ disk[k].key = k
         /\ cache[k] # 0 => Handle(k) = cache[k] /\ Heap(k) = sess
         /\ cache[k] = 0 => Handle(k) > Len(sess)
<1>1. sess \in Seq(Session) /\ Len(sess) \in Nat /\ disk[k] \in Session /\ disk[k].key = k
      /\ cache[k] \in 0..Len(sess)
  BY LenProperties DEF TypeOK, References
<1>2. CASE cache[k] # 0
  BY <1>1, <1>2 DEF Heap, Handle, CacheIsSaved
<1>3. CASE cache[k] = 0
  <2>1. Heap(k) = Append(sess, disk[k]) /\ Handle(k) = Len(sess) + 1
    BY <1>3 DEF Heap, Handle
  <2>2. /\ Append(sess, disk[k]) \in Seq(Session)
        /\ Len(Append(sess, disk[k])) = Len(sess) + 1
        /\ \A j \in 1..Len(sess) : Append(sess, disk[k])[j] = sess[j]
        /\ Append(sess, disk[k])[Len(sess) + 1] = disk[k]
    BY <1>1, AppendProperties
  <2> QED
    BY <1>1, <1>3, <2>1, <2>2
<1> QED
  BY <1>2, <1>3

\* A turn opens its session, under the global lock for chats and without it otherwise.
LEMMA BeginTurnStep ==
  ASSUME IInv, NEW c \in Cmds, NEW k \in Keys, BeginTurn(c, k)
  PROVE  IInv'
<1> DEFINE o == Handle(k)
           H == Heap(k)
<1>0. TypeOK /\ References /\ LockHeld /\ CacheIsSaved
  BY DEF IInv
<1>1. /\ H \in Seq(Session) /\ Len(H) \in Nat /\ Len(sess) \in Nat /\ Len(sess) <= Len(H)
      /\ \A j \in 1..Len(sess) : H[j] = sess[j]
      /\ o \in 1..Len(H) /\ o # 0
      /\ H[o] = disk[k] /\ disk[k] \in Session /\ disk[k].key = k
      /\ cache[k] # 0 => o = cache[k] /\ H = sess
      /\ cache[k] = 0 => o > Len(sess)
  BY <1>0, OpenSession
<1>2. /\ pc[c] = "idle" /\ c \in TurnCmds
      /\ \/ k \in ChatKeys /\ lock = None /\ lock' = c
         \/ k \in DirectKeys /\ lock' = lock
      /\ key' = [key EXCEPT ![c] = k] /\ at' = [at EXCEPT ![c] = o]
      /\ sess' = H /\ cache' = [cache EXCEPT ![k] = o]
      /\ UNCHANGED <<disk, job, history, failures, crashes, overtaken, forsaken>>
  BY DEF BeginTurn, TurnCmds, log, observers
<1> HIDE DEF o, H
<1>3. /\ pc' \in [Cmds -> Locations] /\ pc'[c] \in {"wait", "think"}
      /\ \A d \in Cmds \ {c} : pc'[d] = pc[d]
  BY <1>0 DEF BeginTurn, TypeOK, Locations, Running
<1>4. /\ key'[c] = k /\ at'[c] = o
      /\ \A d \in Cmds \ {c} : key'[d] = key[d] /\ at'[d] = at[d]
      /\ cache'[k] = o /\ \A l \in Keys \ {k} : cache'[l] = cache[l]
  BY <1>0, <1>2 DEF TypeOK
<1>5. TypeOK'
  <2>1. lock' \in Cmds \cup {None}
    BY <1>0, <1>2 DEF TypeOK
  <2>2. cache' \in [Keys -> 0..Len(H)] /\ at' \in [Cmds -> 0..Len(H)]
    BY <1>0, <1>1, <1>2 DEF TypeOK
  <2> QED
    BY <2>1, <2>2, <1>0, <1>1, <1>2, <1>3 DEF TypeOK
<1>6. LockHeld'
  <2>1. k \in DirectKeys => k \notin ChatKeys
    BY KindsAssumption
  <2>2. pc'[c] \in Running
    BY <1>3 DEF Running
  <2>3. None \notin Cmds
    BY KindsAssumption
  <2>4. lock' # None => pc'[lock'] \in Running
    BY <2>2, <1>0, <1>2, <1>3 DEF LockHeld, Running, TypeOK
  <2>5. ASSUME NEW d \in Cmds, pc'[d] \in Running, key'[d] \in ChatKeys PROVE lock' = d
    <3>1. CASE d = c
      BY <3>1, <2>1, <2>5, <1>2, <1>4
    <3>2. CASE d # c
      <4>1. lock = d
        BY <3>2, <2>5, <1>0, <1>3, <1>4 DEF LockHeld
      <4> QED
        BY <4>1, <2>3, <1>2
    <3> QED
      BY <3>1, <3>2
  <2> QED
    BY <2>4, <2>5 DEF LockHeld
<1>7. ASSUME NEW d \in Cmds, d # c, pc'[d] \in Live
      PROVE  /\ pc[d] \in Live /\ at'[d] \in 1..Len(sess) /\ sess'[at'[d]] = sess[at[d]]
             /\ sess[at[d]].key = key[d] /\ key[d] \in Keys /\ at'[d] = at[d] /\ key'[d] = key[d]
  <2>1. pc[d] \in Live /\ at'[d] = at[d] /\ key'[d] = key[d]
    BY <1>7, <1>3, <1>4
  <2>2. at[d] \in 1..Len(sess) /\ sess[at[d]].key = key[d] /\ key[d] \in Keys
    BY <2>1, <1>0, HeldSession
  <2> QED
    BY <2>1, <2>2, <1>1, <1>2
<1>8. References'
  <2>1. \A d \in Cmds : pc'[d] # "idle" => key'[d] \in Keys
    BY <1>0, <1>3, <1>4 DEF References
  <2>2. \A d \in Cmds : pc'[d] \in Live => at'[d] \in 1..Len(sess') /\ sess'[at'[d]].key = key'[d]
    BY <1>1, <1>2, <1>4, <1>7
  <2>3. \A l \in Keys : cache'[l] # 0 => sess'[cache'[l]].key = l
    BY <1>0, <1>1, <1>2, <1>4 DEF References, TypeOK
  <2> QED
    BY <2>1, <2>2, <2>3, <1>0, <1>2 DEF References
<1>9. Ownership'
  <2> SUFFICES ASSUME NEW d \in Cmds, pc'[d] \in Live, key'[d] \notin overtaken
               PROVE  \/ at'[d] = cache'[key'[d]]
                      \/ pc'[d] = "bgwait" /\ sess'[at'[d]].msgs = <<>>
    BY <1>2 DEF Ownership
  <2>1. CASE d = c
    BY <2>1, <1>4
  <2>2. CASE d # c
    <3>1. \/ at[d] = cache[key[d]]
          \/ pc[d] = "bgwait" /\ sess[at[d]].msgs = <<>>
      BY <2>2, <1>7 DEF IInv, Ownership
    <3>2. CASE pc[d] = "bgwait" /\ sess[at[d]].msgs = <<>>
      BY <3>2, <2>2, <1>3, <1>7
    <3>3. CASE at[d] = cache[key[d]]
      <4>1. at[d] # 0 /\ at'[d] = at[d] /\ key'[d] = key[d] /\ key[d] \in Keys
        BY <2>2, <1>1, <1>7
      <4>2. cache'[key[d]] = cache[key[d]]
        BY <4>1, <3>3, <1>1, <1>4
      <4> QED
        BY <4>1, <4>2, <3>3
    <3> QED
      BY <3>1, <3>2, <3>3
  <2> QED
    BY <2>1, <2>2
<1>10. \A d \in Cmds : pc'[d] \in Asking => d # c /\ pc[d] \in Asking /\ pc'[d] \in Live
  BY <1>3 DEF Asking, Live, Running
<1>11. Exclusive'
  BY <1>4, <1>10 DEF IInv, Exclusive
<1>12. InFlight'
  BY <1>2, <1>7, <1>10 DEF IInv, InFlight
<1>13. CacheIsSaved'
  <2> SUFFICES ASSUME NEW l \in Keys, cache'[l] # 0
               PROVE  sess'[cache'[l]] = disk[l]
    BY <1>2 DEF CacheIsSaved
  <2>1. CASE l = k
    BY <2>1, <1>1, <1>2, <1>4
  <2>2. CASE l # k
    BY <2>2, <1>0, <1>1, <1>2, <1>4 DEF CacheIsSaved, TypeOK
  <2> QED
    BY <2>1, <2>2
<1>14. HiddenIsArchived'
  BY <1>2 DEF IInv, HiddenIsArchived, Logged
<1>15. NothingLost'
  <2>1. \A d \in Cmds : Answered(d)' => d # c /\ Answered(d) /\ key'[d] = key[d]
    BY <1>3, <1>4 DEF Answered
  <2>2. \A d \in Cmds : InArchive(d) => InArchive(d)'
    BY <1>2, <1>3 DEF InArchive
  <2>3. \A d \in Cmds : d # c /\ OnDisk(d) => OnDisk(d)'
    BY <1>2, <1>4 DEF OnDisk
  <2> QED
    BY <2>1, <2>2, <2>3, <1>2 DEF IInv, NothingLost, Logged
<1> QED
  BY <1>5, <1>6, <1>8, <1>9, <1>11, <1>12, <1>13, <1>14, <1>15 DEF IInv

\* "/new" moves what the offset does not cover into an archive task and clears the session.
LEMMA NewSessionStep ==
  ASSUME IInv, NEW c \in Cmds, NEW k \in Keys, NewSession(c, k)
  PROVE  IInv'
<1> DEFINE o == Handle(k)
           H == Heap(k)
           snapshot == Slice(disk[k], disk[k].lc + 1, Len(disk[k].msgs))
<1>0. TypeOK /\ References /\ LockHeld /\ CacheIsSaved
  BY DEF IInv
<1>1. /\ H \in Seq(Session) /\ Len(H) \in Nat /\ Len(sess) \in Nat /\ Len(sess) <= Len(H)
      /\ \A j \in 1..Len(sess) : H[j] = sess[j]
      /\ o \in 1..Len(H) /\ o # 0
      /\ H[o] = disk[k] /\ disk[k] \in Session /\ disk[k].key = k
      /\ cache[k] # 0 => o = cache[k] /\ H = sess
      /\ cache[k] = 0 => o > Len(sess)
  BY <1>0, OpenSession
<1>2. /\ pc[c] = "idle" /\ c \in News /\ k \in ChatKeys /\ lock = None
      /\ key' = [key EXCEPT ![c] = k]
      /\ sess' = [H EXCEPT ![o] = Empty(k)]
      /\ disk' = [disk EXCEPT ![k] = Empty(k)]
      /\ cache' = [cache EXCEPT ![k] = 0]
      /\ pc' = [pc EXCEPT ![c] = IF snapshot = {} THEN "done" ELSE "archive"]
      /\ job' = [job EXCEPT ![c].chunk = snapshot]
      /\ overtaken' = IF LockFree(k) THEN overtaken ELSE overtaken \cup {k}
      /\ UNCHANGED <<lock, at, history, failures, crashes, forsaken>>
  <2>1. H[o] = disk[k]
    BY <1>1
  <2> QED
    BY <2>1 DEF NewSession, log
<1>3. /\ Empty(k) \in Session /\ Empty(k).key = k /\ Empty(k).msgs = <<>> /\ Empty(k).lc = 0
  <2>1. <<>> \in Seq(Cmds)
    OBVIOUS
  <2> QED
    BY <2>1 DEF Empty, Session
<1>4. disk[k].msgs \in Seq(Cmds) /\ disk[k].lc \in Nat /\ Len(disk[k].msgs) \in Nat
  <2>1. disk[k].msgs \in Seq(Cmds) /\ disk[k].lc \in Nat
    BY <1>1 DEF Session
  <2> QED
    BY <2>1, LenProperties
<1>5. /\ snapshot \in SUBSET Cmds
      /\ \A i \in (disk[k].lc + 1)..Len(disk[k].msgs) : disk[k].msgs[i] \in snapshot
  <2>1. \A i \in (disk[k].lc + 1)..Len(disk[k].msgs) : disk[k].msgs[i] \in Cmds
    BY <1>4, ElementOfSeq
  <2> QED
    BY <2>1 DEF Slice
<1> HIDE DEF o, H, snapshot
<1>6. /\ sess' \in Seq(Session) /\ Len(sess') = Len(H)
      /\ \A j \in 1..Len(H) : sess'[j] = IF j = o THEN Empty(k) ELSE H[j]
  BY <1>1, <1>2, <1>3, ExceptSeq
<1>7. /\ pc' \in [Cmds -> Locations] /\ pc'[c] \in {"done", "archive"}
      /\ pc'[c] = "done" => snapshot = {}
      /\ \A d \in Cmds \ {c} : pc'[d] = pc[d]
  BY <1>0, <1>2 DEF TypeOK, Locations
<1>8. /\ job' \in [Cmds -> [chunk : SUBSET Cmds, end : Nat, n : Nat]]
      /\ job'[c].chunk = snapshot
      /\ \A d \in Cmds \ {c} : job'[d] = job[d]
  <2>1. job[c] \in [chunk : SUBSET Cmds, end : Nat, n : Nat]
    BY <1>0 DEF TypeOK
  <2>2. job' = [job EXCEPT ![c] = [job[c] EXCEPT !.chunk = snapshot]]
    BY <1>2
  <2>3. [job[c] EXCEPT !.chunk = snapshot] \in [chunk : SUBSET Cmds, end : Nat, n : Nat]
        /\ [job[c] EXCEPT !.chunk = snapshot].chunk = snapshot
    BY <2>1, <1>5
  <2> QED
    BY <2>2, <2>3, <1>0 DEF TypeOK
<1>9. /\ key'[c] = k /\ \A d \in Cmds \ {c} : key'[d] = key[d]
      /\ cache'[k] = 0 /\ disk'[k] = Empty(k)
      /\ \A l \in Keys \ {k} : cache'[l] = cache[l] /\ disk'[l] = disk[l]
      /\ k \notin overtaken' => LockFree(k)
      /\ overtaken \subseteq overtaken' /\ overtaken' \in SUBSET Keys
  BY <1>0, <1>2 DEF TypeOK
<1>10. TypeOK'
  <2>1. cache' \in [Keys -> 0..Len(H)] /\ at' \in [Cmds -> 0..Len(H)]
    BY <1>0, <1>1, <1>2 DEF TypeOK
  <2>2. disk' \in [Keys -> Session] /\ key' \in [Cmds -> Keys \cup {None}]
    BY <1>0, <1>2, <1>3 DEF TypeOK
  <2> QED
    BY <2>1, <2>2, <1>0, <1>2, <1>6, <1>7, <1>8, <1>9 DEF TypeOK
<1>11. \A d \in Cmds : pc'[d] \in Live \cup Running \cup Asking => d # c /\ pc[d] = pc'[d]
  BY <1>7 DEF Live, Running, Asking
<1>12. LockHeld'
  BY <1>0, <1>2, <1>9, <1>11 DEF LockHeld
<1>13. ASSUME NEW d \in Cmds, pc'[d] \in Live
       PROVE  /\ d # c /\ pc[d] = pc'[d] /\ pc[d] \in Live /\ at'[d] = at[d] /\ key'[d] = key[d]
              /\ at[d] \in 1..Len(sess) /\ sess[at[d]].key = key[d] /\ key[d] \in Keys
              /\ sess'[at[d]] = IF at[d] = o THEN Empty(k) ELSE sess[at[d]]
  <2>1. d # c /\ pc[d] = pc'[d] /\ pc[d] \in Live /\ at'[d] = at[d] /\ key'[d] = key[d]
    BY <1>2, <1>9, <1>11, <1>13
  <2>2. at[d] \in 1..Len(sess) /\ sess[at[d]].key = key[d] /\ key[d] \in Keys
    BY <2>1, <1>0, HeldSession
  <2> QED
    BY <2>1, <2>2, <1>1, <1>6
<1>14. ASSUME NEW d \in Cmds, pc'[d] \in Live, at[d] = o PROVE key[d] = k
  BY <1>1, <1>13, <1>14
<1>15. References'
  <2>1. \A d \in Cmds : pc'[d] # "idle" => key'[d] \in Keys
    BY <1>0, <1>7, <1>9 DEF References
  <2>2. \A d \in Cmds : pc'[d] \in Live => at'[d] \in 1..Len(sess') /\ sess'[at'[d]].key = key'[d]
    BY <1>1, <1>3, <1>6, <1>13, <1>14
  <2>3. \A l \in Keys : disk'[l].key = l
    BY <1>0, <1>3, <1>9 DEF References
  <2>4. ASSUME NEW l \in Keys, cache'[l] # 0 PROVE sess'[cache'[l]].key = l
    <3>1. l # k /\ cache'[l] = cache[l] /\ cache[l] \in 1..Len(sess) /\ sess[cache[l]].key = l
      BY <2>4, <1>0, <1>1, <1>9 DEF References, TypeOK
    <3>2. cache[l] # o
      BY <3>1, <1>1
    <3> QED
      BY <3>1, <3>2, <1>1, <1>6
  <2> QED
    BY <2>1, <2>2, <2>3, <2>4 DEF References
<1>16. Ownership'
  <2> SUFFICES ASSUME NEW d \in Cmds, pc'[d] \in Live, key'[d] \notin overtaken'
               PROVE  \/ at'[d] = cache'[key'[d]]
                      \/ pc'[d] = "bgwait" /\ sess'[at'[d]].msgs = <<>>
    BY DEF Ownership
  <2>1. \/ at[d] = cache[key[d]]
        \/ pc[d] = "bgwait" /\ sess[at[d]].msgs = <<>>
    BY <1>9, <1>13 DEF IInv, Ownership
  <2>2. CASE key[d] # k
    BY <2>1, <2>2, <1>9, <1>13, <1>14
  <2>3. CASE key[d] = k
    <3>1. pc[d] \notin Running
      BY <2>3, <1>0, <1>2, <1>13, KindsAssumption DEF LockHeld
    <3>2. pc[d] \notin Asking
      BY <2>3, <1>9, <1>13 DEF LockFree
    <3>3. pc[d] = "bgwait"
      BY <3>1, <3>2, <1>13 DEF Live, Asking
    <3>4. CASE at[d] = o
      BY <3>3, <3>4, <1>3, <1>13
    <3>5. CASE at[d] # o
      <4>1. at[d] # cache[k]
        BY <3>5, <1>1, <1>13
      <4> QED
        BY <4>1, <2>1, <2>3, <3>3, <3>5, <1>13
    <3> QED
      BY <3>4, <3>5
  <2> QED
    BY <2>2, <2>3
<1>17. \A d \in Cmds : pc'[d] \in Asking => pc'[d] \in Live
  BY DEF Asking, Live, Running
<1>18. Exclusive'
  BY <1>13, <1>17 DEF IInv, Exclusive
<1>19. InFlight'
  <2> SUFFICES ASSUME NEW d \in Cmds, pc'[d] \in Asking, key'[d] \notin overtaken'
               PROVE  /\ job'[d].end > sess'[at'[d]].lc /\ job'[d].end < Len(sess'[at'[d]].msgs)
                      /\ \A i \in (sess'[at'[d]].lc + 1)..job'[d].end :
                           sess'[at'[d]].msgs[i] \in job'[d].chunk
    BY DEF InFlight
  <2>1. pc[d] \in Asking /\ d # c /\ key'[d] = key[d] /\ key[d] \notin overtaken
    BY <1>9, <1>13, <1>17
  <2>2. key[d] # k
    BY <2>1, <1>9 DEF LockFree
  <2>3. sess'[at'[d]] = sess[at[d]] /\ job'[d] = job[d]
    BY <2>1, <2>2, <1>8, <1>13, <1>14, <1>17
  <2> QED
    BY <2>1, <2>3 DEF IInv, InFlight
<1>20. CacheIsSaved'
  <2> SUFFICES ASSUME NEW l \in Keys, cache'[l] # 0
               PROVE  sess'[cache'[l]] = disk'[l]
    BY DEF CacheIsSaved
  <2>1. l # k /\ cache'[l] = cache[l] /\ disk'[l] = disk[l]
        /\ cache[l] \in 1..Len(sess) /\ sess[cache[l]].key = l
    BY <1>0, <1>1, <1>9 DEF References, TypeOK
  <2>2. cache[l] # o
    BY <2>1, <1>1
  <2>3. sess'[cache[l]] = sess[cache[l]]
    BY <2>1, <2>2, <1>1, <1>6
  <2> QED
    BY <2>1, <2>3, <1>0 DEF CacheIsSaved
<1>21. Logged' = Logged
  BY <1>2 DEF Logged
<1>22. HiddenIsArchived'
  <2> SUFFICES ASSUME NEW l \in Keys \ overtaken'
               PROVE  /\ disk'[l].lc <= Len(disk'[l].msgs)
                      /\ \A i \in 1..disk'[l].lc : disk'[l].msgs[i] \in Logged
    BY <1>21 DEF HiddenIsArchived
  <2>1. CASE l = k
    <3>1. disk'[l].lc = 0 /\ Len(disk'[l].msgs) = 0
      BY <2>1, <1>3, <1>9
    <3> QED
      BY <3>1
  <2>2. CASE l # k
    BY <2>2, <1>9 DEF IInv, HiddenIsArchived
  <2> QED
    BY <2>1, <2>2
<1>23. NothingLost'
  <2> SUFFICES ASSUME NEW d \in Cmds, Answered(d)', key'[d] \notin overtaken'
               PROVE  OnDisk(d)' \/ d \in Logged \/ InArchive(d)' \/ d \in forsaken
    BY <1>2, <1>21 DEF NothingLost
  <2>1. d # c
    <3>1. c \notin TurnCmds
      BY <1>2, KindsAssumption DEF TurnCmds
    <3> QED
      BY <3>1 DEF Answered
  <2>2. Answered(d) /\ key'[d] = key[d] /\ key[d] \in Keys /\ key[d] \notin overtaken
    BY <2>1, <1>0, <1>7, <1>9 DEF Answered, References
  <2>3. OnDisk(d) \/ d \in Logged \/ InArchive(d) \/ d \in forsaken
    BY <2>2 DEF IInv, NothingLost
  <2>4. InArchive(d) => InArchive(d)'
    BY <1>2, <1>7, <1>8 DEF InArchive
  <2>5. CASE OnDisk(d) /\ key[d] # k
    BY <2>2, <2>5, <1>9 DEF OnDisk
  <2>6. CASE OnDisk(d) /\ key[d] = k
    <3>1. PICK i \in DOMAIN disk[k].msgs : disk[k].msgs[i] = d
      BY <2>6 DEF OnDisk
    <3>2. i \in 1..Len(disk[k].msgs)
      BY <3>1, <1>4, LenProperties
    <3>3. CASE i <= disk[k].lc
      <4>1. k \in Keys \ overtaken /\ i \in 1..disk[k].lc
        BY <2>2, <2>6, <3>2, <3>3, <1>4
      <4> QED
        BY <4>1, <3>1 DEF IInv, HiddenIsArchived
    <3>4. CASE i > disk[k].lc
      <4>1. d \in snapshot
        BY <3>1, <3>2, <3>4, <1>4, <1>5
      <4>2. pc'[c] = "archive" /\ d \in job'[c].chunk
        BY <4>1, <1>7, <1>8
      <4> QED
        BY <4>2 DEF InArchive
    <3> QED
      BY <3>2, <3>3, <3>4, <1>4
  <2> QED
    BY <2>3, <2>4, <2>5, <2>6
<1> QED
  BY <1>10, <1>12, <1>15, <1>16, <1>18, <1>19, <1>20, <1>22, <1>23 DEF IInv

-------------------------------------------------------------------------------
(* The archive of "/new", and restarts *)

\* Steps of an archive task leave the sessions and every live task alone.
LEMMA ArchiveStep ==
  ASSUME IInv, NEW c \in News, c \in Cmds, pc[c] = "archive",
         UNCHANGED <<storage, lock, key, at, crashes, overtaken>>,
         pc' \in [Cmds -> Locations], pc'[c] \in {"archive", "done"},
         job' \in [Cmds -> [chunk : SUBSET Cmds, end : Nat, n : Nat]],
         \A d \in Cmds \ {c} : pc'[d] = pc[d] /\ job'[d] = job[d],
         history' \in Seq(SUBSET Cmds), failures' \in 0..(MaxFailures - 1),
         forsaken' \in SUBSET Cmds, forsaken \subseteq forsaken',
         Logged \subseteq Logged',
         \A d \in job[c].chunk : d \in Logged' \cup forsaken' \/ (pc'[c] = "archive" /\ d \in job'[c].chunk)
  PROVE  IInv'
<1>0. TypeOK /\ References
  BY DEF IInv
<1>1. UNCHANGED <<sess, cache, disk, lock, key, at, crashes, overtaken>>
  BY DEF storage
<1>2. \A d \in Cmds : pc'[d] \in Live \cup Running \cup Asking =>
        d # c /\ pc'[d] = pc[d] /\ job'[d] = job[d]
  BY DEF Live, Running, Asking
<1>3. \A d \in Cmds : pc'[d] # "idle" => pc[d] # "idle"
  OBVIOUS
<1>4. TypeOK' /\ References'
  BY <1>0, <1>1, <1>2, <1>3 DEF TypeOK, References
<1>5. LockHeld'
  <2>1. lock # None => lock # c /\ lock \in Cmds
    BY <1>0 DEF IInv, LockHeld, Running, TypeOK
  <2> QED
    BY <2>1, <1>1, <1>2 DEF IInv, LockHeld
<1>6. Ownership' /\ Exclusive' /\ InFlight'
  <2>1. Ownership'
    BY <1>1, <1>2 DEF IInv, Ownership
  <2>2. Exclusive'
    BY <1>1, <1>2 DEF IInv, Exclusive
  <2>3. InFlight'
    BY <1>1, <1>2 DEF IInv, InFlight
  <2> QED
    BY <2>1, <2>2, <2>3
<1>7. CacheIsSaved' /\ HiddenIsArchived'
  BY <1>1 DEF IInv, CacheIsSaved, HiddenIsArchived
<1>8. NothingLost'
  <2> SUFFICES ASSUME NEW d \in Cmds, Answered(d)', key[d] \notin overtaken
               PROVE  OnDisk(d)' \/ d \in Logged' \/ InArchive(d)' \/ d \in forsaken'
    BY <1>1 DEF NothingLost
  <2>1. Answered(d) \/ d = c
    BY DEF Answered
  <2>2. CASE Answered(d)
    <3>1. OnDisk(d) \/ d \in Logged \/ InArchive(d) \/ d \in forsaken
      BY <2>2 DEF IInv, NothingLost
    <3>2. InArchive(d) => d \in Logged' \/ InArchive(d)' \/ d \in forsaken'
      BY DEF InArchive
    <3> QED
      BY <3>1, <3>2, <1>1 DEF OnDisk
  <2>3. d # c
    BY KindsAssumption DEF Answered, TurnCmds
  <2> QED
    BY <2>1, <2>2, <2>3
<1> QED
  BY <1>4, <1>5, <1>6, <1>7, <1>8 DEF IInv

\* The archive of "/new" succeeds: its chunk is an entry of HISTORY.md.
LEMMA ArchiveOkStep ==
  ASSUME IInv, Archivers, NEW c \in Cmds, ArchiveOk(c)
  PROVE  IInv'
<1>0. TypeOK /\ pc[c] = "archive" /\ c \in News
  BY DEF IInv, Archivers, ArchiveOk
<1>1. UNCHANGED <<storage, lock, key, at, crashes, overtaken, forsaken>>
  BY DEF ArchiveOk, Archived
<1>2. job[c].chunk \in SUBSET Cmds /\ history \in Seq(SUBSET Cmds)
  BY <1>0 DEF TypeOK
<1>3. history' = Append(history, job[c].chunk)
  BY DEF ArchiveOk, Archived
<1>4. /\ history' \in Seq(SUBSET Cmds)
      /\ \A d \in Cmds : d \in Logged => d \in Logged'
      /\ \A d \in job[c].chunk : d \in Logged'
  BY <1>2, <1>3, HistoryGrows
<1>5. /\ pc' \in [Cmds -> Locations] /\ pc'[c] = "done"
      /\ job' \in [Cmds -> [chunk : SUBSET Cmds, end : Nat, n : Nat]]
      /\ \A d \in Cmds \ {c} : pc'[d] = pc[d] /\ job'[d] = job[d]
  BY <1>0 DEF ArchiveOk, Archived, TypeOK, NoJob, Locations
<1>6. failures' \in 0..(MaxFailures - 1)
  BY BoundsAssumption DEF ArchiveOk, Archived
<1>7. Logged \subseteq Cmds
  <2>1. \A i \in DOMAIN history : history[i] \subseteq Cmds
    BY <1>2, ElementOfSeq, LenProperties
  <2> QED
    BY <2>1 DEF Logged
<1>8. forsaken' \in SUBSET Cmds
  BY <1>0, <1>1 DEF TypeOK
<1> QED
  BY <1>0, <1>1, <1>4, <1>5, <1>6, <1>7, <1>8, ArchiveStep

\* A failed attempt: retried, given up (observed in forsaken), or dumped raw.
LEMMA ArchiveFailStep ==
  ASSUME IInv, Archivers, NEW c \in Cmds, ArchiveFail(c)
  PROVE  IInv'
<1>0. TypeOK /\ pc[c] = "archive" /\ c \in News
  BY DEF IInv, Archivers, ArchiveFail
<1>1. UNCHANGED <<storage, lock, key, at, crashes, overtaken>>
  BY DEF ArchiveFail
<1>2. CASE failures + 1 < MaxFailures
  <2>1. history' = history /\ failures' = failures + 1
    BY <1>2 DEF ArchiveFail
  <2>2. history' \in Seq(SUBSET Cmds) /\ Logged' = Logged
    BY <2>1, <1>0 DEF TypeOK, Logged
  <2>3. failures' \in 0..(MaxFailures - 1)
    BY <2>1, <1>0, <1>2, BoundsAssumption DEF TypeOK
  <2>4. job[c] \in [chunk : SUBSET Cmds, end : Nat, n : Nat]
    BY <1>0 DEF TypeOK
  <2>5. \/ /\ job' = [job EXCEPT ![c].n = @ + 1] /\ UNCHANGED <<pc, forsaken>>
        \/ /\ pc' = [pc EXCEPT ![c] = "done"]
           /\ job' = [job EXCEPT ![c] = NoJob]
           /\ forsaken' = forsaken \cup job[c].chunk
    BY <1>2 DEF ArchiveFail
  <2>6. /\ pc' \in [Cmds -> Locations] /\ pc'[c] \in {"archive", "done"}
        /\ job' \in [Cmds -> [chunk : SUBSET Cmds, end : Nat, n : Nat]]
        /\ \A d \in Cmds \ {c} : pc'[d] = pc[d] /\ job'[d] = job[d]
        /\ forsaken' \in SUBSET Cmds /\ forsaken \subseteq forsaken'
        /\ \A d \in job[c].chunk :
             d \in forsaken' \/ (pc'[c] = "archive" /\ d \in job'[c].chunk)
    <3>1. CASE job' = [job EXCEPT ![c].n = @ + 1] /\ UNCHANGED <<pc, forsaken>>
      <4> DEFINE j == [job[c] EXCEPT !.n = @ + 1]
      <4>1. j \in [chunk : SUBSET Cmds, end : Nat, n : Nat] /\ j.chunk = job[c].chunk
        BY <2>4
      <4>2. job' = [job EXCEPT ![c] = j]
        BY <3>1, <1>0 DEF TypeOK
      <4> HIDE DEF j
      <4>3. /\ job \in [Cmds -> [chunk : SUBSET Cmds, end : Nat, n : Nat]]
            /\ pc \in [Cmds -> Locations] /\ forsaken \in SUBSET Cmds
        BY <1>0 DEF TypeOK
      <4>4. /\ job' \in [Cmds -> [chunk : SUBSET Cmds, end : Nat, n : Nat]]
            /\ job'[c] = j /\ \A d \in Cmds \ {c} : job'[d] = job[d]
        BY <4>1, <4>2, <4>3
      <4> QED
        BY <3>1, <1>0, <4>1, <4>3, <4>4
    <3>2. CASE /\ pc' = [pc EXCEPT ![c] = "done"]
               /\ job' = [job EXCEPT ![c] = NoJob]
               /\ forsaken' = forsaken \cup job[c].chunk
      BY <3>2, <2>4, <1>0 DEF TypeOK, NoJob, Locations
    <3> QED
      BY <2>5, <3>1, <3>2
  <2> QED
    BY <2>2, <2>3, <2>6, <1>0, <1>1, ArchiveStep
<1>3. CASE ~(failures + 1 < MaxFailures)
  <2>1. ArchiveOk(c)
    BY <1>0, <1>3 DEF ArchiveFail, ArchiveOk
  <2> QED
    BY <2>1, ArchiveOkStep
<1> QED
  BY <1>2, <1>3

\* The end of the process: only files survive, no task and no Session object does.
LEMMA RestartStep ==
  ASSUME IInv, Archivers, NEW entries \in Seq(SUBSET Cmds), Restart(entries)
  PROVE  IInv'
<1>0. TypeOK /\ References
  BY DEF IInv
<1>1. /\ sess' = <<>> /\ cache' = [k \in Keys |-> 0] /\ lock' = None
      /\ at' = [c \in Cmds |-> 0] /\ job' = [c \in Cmds |-> NoJob]
      /\ failures' = 0 /\ crashes' = crashes + 1 /\ crashes < MaxCrashes
      /\ disk' = disk /\ key' = key /\ overtaken' = overtaken
      /\ history' = history \o entries
      /\ forsaken' = forsaken \cup UNION {job[c].chunk : c \in {d \in Cmds : pc[d] = "archive"}}
  BY DEF Restart
<1>2. /\ pc' \in [Cmds -> Locations]
      /\ \A c \in Cmds : /\ pc'[c] \in {"idle", "stopped", "done"}
                         /\ pc'[c] = "idle" <=> pc[c] = "idle"
                         /\ pc'[c] = "done" => pc[c] \in {"bgwait", "bgask", "archive", "done"}
  <2>1. pc' = [c \in Cmds |-> CASE pc[c] = "idle" -> "idle"
                              [] pc[c] \in Running \cup {"stopped"} -> "stopped"
                              [] OTHER -> "done"]
    BY DEF Restart
  <2>2. ASSUME NEW c \in Cmds
        PROVE  /\ pc'[c] \in {"idle", "stopped", "done"}
               /\ pc'[c] = "idle" <=> pc[c] = "idle"
               /\ pc'[c] = "done" => pc[c] \in {"bgwait", "bgask", "archive", "done"}
    <3>1. pc[c] \in Locations
      BY <1>0 DEF TypeOK
    <3>2. CASE pc[c] = "idle"
      BY <2>1, <3>2 DEF Running
    <3>3. CASE pc[c] \in Running \cup {"stopped"}
      BY <2>1, <3>3 DEF Running
    <3>4. CASE pc[c] \notin Running \cup {"idle", "stopped"}
      BY <2>1, <3>1, <3>4 DEF Running, Locations
    <3> QED
      BY <3>2, <3>3, <3>4
  <2>3. pc' \in [Cmds -> {"idle", "stopped", "done"}]
    BY <2>1, <2>2
  <2> QED
    BY <2>2, <2>3 DEF Locations
<1>3. /\ history' \in Seq(SUBSET Cmds) /\ Logged \subseteq Logged'
  <2>1. history \in Seq(SUBSET Cmds)
    BY <1>0 DEF TypeOK
  <2>2. /\ history' \in Seq(SUBSET Cmds)
        /\ Len(history') = Len(history) + Len(entries)
        /\ \A i \in 1..Len(history) : history'[i] = history[i]
    BY <2>1, <1>1, ConcatProperties
  <2>3. /\ DOMAIN history = 1..Len(history) /\ DOMAIN history' = 1..Len(history')
        /\ Len(history) \in Nat /\ Len(entries) \in Nat
    BY <2>1, <2>2, LenProperties
  <2> QED
    BY <2>2, <2>3 DEF Logged
<1>4. \A c \in Cmds : pc'[c] \notin Live /\ pc'[c] \notin Running /\ pc'[c] \notin Asking
  BY <1>2 DEF Live, Running, Asking
<1>5. TypeOK'
  <2>1. Len(<<>>) = 0 /\ sess' \in Seq(Session)
    BY <1>1
  <2>2. /\ cache' \in [Keys -> 0..Len(sess')] /\ at' \in [Cmds -> 0..Len(sess')]
        /\ job' \in [Cmds -> [chunk : SUBSET Cmds, end : Nat, n : Nat]]
    BY <2>1, <1>1 DEF NoJob
  <2>3. failures' \in 0..(MaxFailures - 1) /\ crashes' \in 0..MaxCrashes
    <3>1. crashes \in Nat /\ failures' = 0 /\ crashes' = crashes + 1 /\ crashes < MaxCrashes
      BY <1>0, <1>1, BoundsAssumption DEF TypeOK
    <3> QED
      BY <3>1, BoundsAssumption
  <2>4. forsaken' \in SUBSET Cmds
    BY <1>0, <1>1 DEF TypeOK
  <2> QED
    BY <2>1, <2>2, <2>3, <2>4, <1>0, <1>1, <1>2, <1>3 DEF TypeOK
<1>6. LockHeld' /\ Ownership' /\ Exclusive' /\ InFlight'
  BY <1>1, <1>4 DEF LockHeld, Ownership, Exclusive, InFlight
<1>7. References' /\ CacheIsSaved'
  BY <1>0, <1>1, <1>2, <1>4 DEF References, CacheIsSaved
<1>8. HiddenIsArchived'
  BY <1>1, <1>3 DEF IInv, HiddenIsArchived
<1>9. NothingLost'
  <2> SUFFICES ASSUME NEW d \in Cmds, Answered(d)', key[d] \notin overtaken
               PROVE  OnDisk(d)' \/ d \in Logged' \/ InArchive(d)' \/ d \in forsaken'
    BY <1>1 DEF NothingLost
  <2>1. Answered(d)
    BY <1>2, KindsAssumption DEF Answered, TurnCmds, Archivers
  <2>2. OnDisk(d) \/ d \in Logged \/ InArchive(d) \/ d \in forsaken
    BY <2>1 DEF IInv, NothingLost
  <2>3. InArchive(d) => d \in forsaken'
    BY <1>1 DEF InArchive
  <2> QED
    BY <2>2, <2>3, <1>1, <1>3 DEF OnDisk
<1> QED
  BY <1>5, <1>6, <1>7, <1>8, <1>9 DEF IInv

-------------------------------------------------------------------------------
(* The invariant *)

\* Initially nothing was said, archived or cached.
LEMMA InitInv == Init => IInv /\ Archivers
<1> SUFFICES ASSUME Init PROVE IInv /\ Archivers
  OBVIOUS
<1> USE DEF Init
<1>1. Len(<<>>) = 0 /\ sess \in Seq(Session) /\ history \in Seq(SUBSET Cmds)
  OBVIOUS
<1>2. \A k \in Keys : Empty(k) \in Session /\ Empty(k).key = k /\ Empty(k).lc = 0 /\ Empty(k).msgs = <<>>
  BY DEF Empty, Session
<1>3. disk \in [Keys -> Session]
  BY <1>2
<1>4. pc \in [Cmds -> Locations] /\ \A c \in Cmds : pc[c] = "idle"
  BY DEF Locations
<1>5. failures \in 0..(MaxFailures - 1) /\ crashes \in 0..MaxCrashes
  BY BoundsAssumption
<1>6. TypeOK
  BY <1>1, <1>3, <1>4, <1>5 DEF TypeOK, NoJob
<1>7. LockHeld /\ References /\ Ownership /\ Exclusive /\ InFlight /\ Archivers
  BY <1>2, <1>4 DEF LockHeld, References, Ownership, Exclusive, InFlight, Archivers,
                    Live, Running, Asking
<1>8. CacheIsSaved /\ NothingLost
  BY <1>4 DEF CacheIsSaved, NothingLost, Answered
<1>9. HiddenIsArchived
  BY <1>1, <1>2 DEF HiddenIsArchived
<1> QED
  BY <1>6, <1>7, <1>8, <1>9 DEF IInv

\* Only NewSession moves a command into "archive".
LEMMA ArchiversStep ==
  ASSUME TypeOK, Archivers, [Next]_vars
  PROVE  Archivers'
<1> SUFFICES ASSUME NEW d \in Cmds, pc'[d] = "archive", pc[d] # "archive"
             PROVE  d \in News
  BY DEF Archivers
<1> USE DEF TypeOK
<1>1. CASE UNCHANGED vars
  BY <1>1 DEF vars
<1>2. ASSUME NEW c \in Cmds, NEW k \in Keys, BeginTurn(c, k) \/ NewSession(c, k)
      PROVE  d \in News
  BY <1>2 DEF BeginTurn, NewSession
<1>3. ASSUME NEW c \in Cmds, Leave(c) PROVE FALSE
  BY <1>3 DEF Leave
<1>4. ASSUME NEW c \in Cmds, NEW s, NEW r, AskLLM(c, s, r) PROVE FALSE
  BY <1>4 DEF AskLLM
<1>5. ASSUME NEW c \in Cmds,
             StartConsolidation(c) \/ ConsolidateOk(c) \/ ConsolidateFail(c)
      PROVE  FALSE
  BY <1>5, <1>3, <1>4 DEF StartConsolidation, ConsolidateOk, ConsolidateFail, Consolidated
<1>6. ASSUME NEW c \in Cmds, CommitTurn(c) \/ AbortTurn(c) \/ ArchiveOk(c) \/ ArchiveFail(c)
      PROVE  FALSE
  BY <1>6 DEF CommitTurn, AbortTurn, ArchiveOk, ArchiveFail, Archived
<1>7. ASSUME NEW entries, Restart(entries) PROVE FALSE
  <2>1. pc'[d] = CASE pc[d] = "idle" -> "idle"
                   [] pc[d] \in Running \cup {"stopped"} -> "stopped"
                   [] OTHER -> "done"
    BY <1>7 DEF Restart
  <2> QED
    BY <2>1 DEF Running
<1> QED
  BY <1>1, <1>2, <1>5, <1>6, <1>7 DEF Next, Crash, CrashBeforeSave

\* A stuttering step preserves the invariant.
LEMMA StutterStep ==
  ASSUME IInv, UNCHANGED vars
  PROVE  IInv'
<1>1. UNCHANGED <<sess, cache, disk, lock, pc, key, at, job, history, failures,
                  crashes, overtaken, forsaken>>
  BY DEF vars, storage, log, observers
<1>2. TypeOK' /\ LockHeld' /\ References'
  BY <1>1 DEF IInv, TypeOK, LockHeld, References
<1>3. Ownership' /\ Exclusive' /\ InFlight'
  BY <1>1 DEF IInv, Ownership, Exclusive, InFlight
<1>4. CacheIsSaved' /\ HiddenIsArchived'
  BY <1>1 DEF IInv, CacheIsSaved, HiddenIsArchived, Logged
<1>5. NothingLost'
  BY <1>1 DEF IInv, NothingLost, Answered, Logged, InArchive, OnDisk
<1> QED
  BY <1>2, <1>3, <1>4, <1>5 DEF IInv

\* The inductive step: one lemma per action.
LEMMA NextInv ==
  ASSUME IInv, Archivers, [Next]_vars
  PROVE  IInv' /\ Archivers'
<1>1. Archivers'
  BY ArchiversStep DEF IInv
<1>2. ASSUME NEW c \in Cmds, NEW k \in Keys, BeginTurn(c, k) PROVE IInv'
  BY <1>2, BeginTurnStep
<1>3. ASSUME NEW c \in Cmds, NEW k \in Keys, NewSession(c, k) PROVE IInv'
  BY <1>3, NewSessionStep
<1>4. ASSUME NEW c \in Cmds, StartConsolidation(c) \/ ConsolidateOk(c) \/ ConsolidateFail(c)
      PROVE  IInv'
  BY <1>4, StartConsolidationStep, ConsolidateOkStep, ConsolidateFailStep
<1>5. ASSUME NEW c \in Cmds, CommitTurn(c) \/ AbortTurn(c) PROVE IInv'
  BY <1>5, CommitTurnStep, AbortTurnStep
<1>6. ASSUME NEW c \in Cmds, ArchiveOk(c) \/ ArchiveFail(c) PROVE IInv'
  BY <1>6, ArchiveOkStep, ArchiveFailStep
<1>7. ASSUME Crash PROVE IInv'
  <2>1. <<>> \in Seq(SUBSET Cmds)
    OBVIOUS
  <2> QED
    BY <1>7, <2>1, RestartStep DEF Crash
<1>8. ASSUME CrashBeforeSave PROVE IInv'
  <2>1. PICK c \in Cmds : Restart(<<job[c].chunk>>)
    BY <1>8 DEF CrashBeforeSave
  <2>2. job[c].chunk \in SUBSET Cmds
    BY DEF IInv, TypeOK
  <2>3. <<job[c].chunk>> \in Seq(SUBSET Cmds)
    BY <2>2
  <2> QED
    BY <2>1, <2>3, RestartStep
<1>9. CASE UNCHANGED vars
  BY <1>1, <1>9, StutterStep
<1> QED
  BY <1>1, <1>2, <1>3, <1>4, <1>5, <1>6, <1>7, <1>8, <1>9 DEF Next

\* IInv holds in every reachable state, for any number of sessions, commands and
\* crashes and any value of the thresholds.
THEOREM Invariance == Spec => [](IInv /\ Archivers)
<1>1. Init => IInv /\ Archivers
  BY InitInv
<1>2. IInv /\ Archivers /\ [Next]_vars => (IInv /\ Archivers)'
  BY NextInv
<1> QED
  BY <1>1, <1>2, PTL DEF Spec

\* Every variable keeps its type; in particular the failure counter never reaches
\* the threshold between two steps and every Session reference is valid.
THEOREM TypeCorrect == Spec => []TypeOK
<1>1. IInv /\ Archivers => TypeOK
  BY DEF IInv
<1> QED
  BY <1>1, Invariance, PTL

\* An answered turn is in the session file, in HISTORY.md or in a running archive,
\* but for the two observed exceptions (loop.py commit, memory.py consolidation).
THEOREM TurnsSurvive == Spec => []NothingLost
<1>1. IInv /\ Archivers => NothingLost
  BY DEF IInv
<1> QED
  BY <1>1, Invariance, PTL

\* last_consolidated hides only messages that are in HISTORY.md (get_history).
THEOREM OffsetIsSafe == Spec => []HiddenIsArchived
<1>1. IInv /\ Archivers => HiddenIsArchived
  BY DEF IInv
<1> QED
  BY <1>1, Invariance, PTL

\* The SessionManager cache and the session files agree between two awaits.
THEOREM CacheCoherent == Spec => []CacheIsSaved
<1>1. IInv /\ Archivers => CacheIsSaved
  BY DEF IInv
<1> QED
  BY <1>1, Invariance, PTL

\* The processing lock is held by a running chat turn, and by nobody else.
THEOREM LockDiscipline == Spec => []LockHeld
<1>1. IInv /\ Archivers => LockHeld
  BY DEF IInv
<1> QED
  BY <1>1, Invariance, PTL

\* Both hold between any two awaits (loop.py, session/manager.py).
THEOREM WholeBetweenAwaits == Spec => []BetweenAwaits
<1>1. CacheIsSaved /\ LockHeld => BetweenAwaits
  BY DEF BetweenAwaits
<1> QED
  BY <1>1, CacheCoherent, LockDiscipline, PTL

\* A session that extends itself.
LEMMA ExtendsRefl ==
  ASSUME NEW s \in Session
  PROVE  Extends(s, s)
<1>1. s.msgs \in Seq(Cmds) /\ s.lc \in Nat
  BY DEF Session
<1> QED
  BY <1>1, LenProperties DEF Extends

\* Saving a held session as s: what replaces the file is an extension of s when the
\* held object is the cached one, as Ownership says of tasks that are going to save.
LEMMA SaveExtends ==
  ASSUME IInv, NEW c \in Cmds, pc[c] \in Live \ {"bgwait"}, NEW s, Save(key[c], at[c], s),
         NEW k \in Keys \ overtaken, Extends(sess[at[c]], s)
  PROVE  Extends(disk[k], disk'[k])
<1>1. TypeOK /\ References
  BY DEF IInv
<1>2. at[c] \in 1..Len(sess) /\ key[c] \in Keys /\ at[c] # 0
  BY <1>1, HeldSession
<1>3. disk' = [disk EXCEPT ![key[c]] = s] /\ disk \in [Keys -> Session]
  BY <1>1 DEF Save, TypeOK
<1>4. CASE k = key[c]
  <2>1. at[c] = cache[k]
    BY <1>4 DEF IInv, Ownership
  <2>2. sess[at[c]] = disk[k]
    BY <1>2, <1>4, <2>1 DEF IInv, CacheIsSaved
  <2> QED
    BY <1>3, <1>4, <2>2
<1>5. CASE k # key[c]
  BY <1>3, <1>5, ExtendsRefl
<1> QED
  BY <1>4, <1>5

\* What a consolidation saves: the same messages and a later offset.
LEMMA ConsolidatedExtends ==
  ASSUME IInv, NEW c \in Cmds, pc[c] \in Asking, Consolidated(c), NEW k \in Keys \ overtaken
  PROVE  Extends(disk[k], disk'[k])
<1> DEFINE s == [sess[at[c]] EXCEPT !.lc = job[c].end]
<1>1. TypeOK /\ References /\ pc[c] \in Live \ {"bgwait"}
  BY DEF IInv, Asking, Live, Running
<1>2. sess[at[c]] \in Session /\ sess[at[c]].key = key[c] /\ key[c] \in Keys
  BY <1>1, HeldSession
<1>3. Save(key[c], at[c], s)
  BY DEF Consolidated
<1>4. /\ sess[at[c]].msgs \in Seq(Cmds) /\ sess[at[c]].lc \in Nat
      /\ s.msgs = sess[at[c]].msgs /\ s.lc = job[c].end
  BY <1>2 DEF Session
<1>5. job[c].end \in Nat
  BY <1>1 DEF TypeOK
<1>6. CASE key[c] \notin overtaken
  <2>1. sess[at[c]].lc <= s.lc
    BY <1>4, <1>5, <1>6 DEF IInv, InFlight
  <2>2. Len(sess[at[c]].msgs) \in Nat
    BY <1>4, LenProperties
  <2>3. Extends(sess[at[c]], s)
    <3> HIDE DEF s
    <3> QED
      BY <1>4, <2>1, <2>2 DEF Extends
  <2> HIDE DEF s
  <2> QED
    BY <1>1, <1>3, <2>3, SaveExtends
<1>7. CASE key[c] \in overtaken
  <2>1. disk'[k] = disk[k] /\ disk[k] \in Session
    BY <1>1, <1>3, <1>7 DEF Save, TypeOK
  <2> QED
    BY <2>1, ExtendsRefl
<1> QED
  BY <1>6, <1>7

\* What a turn saves: one more message and the same offset.
LEMMA CommitExtends ==
  ASSUME IInv, NEW c \in Cmds, CommitTurn(c), NEW k \in Keys \ overtaken
  PROVE  Extends(disk[k], disk'[k])
<1> DEFINE s == [sess[at[c]] EXCEPT !.msgs = Append(@, c)]
<1>1. TypeOK /\ References /\ pc[c] \in Live \ {"bgwait"}
  BY DEF IInv, CommitTurn, Live, Running
<1>2. sess[at[c]] \in Session
  BY <1>1, HeldSession
<1>3. Save(key[c], at[c], s)
  BY DEF CommitTurn
<1>4. /\ sess[at[c]].msgs \in Seq(Cmds) /\ sess[at[c]].lc \in Nat
      /\ s.msgs = Append(sess[at[c]].msgs, c) /\ s.lc = sess[at[c]].lc
  BY <1>2 DEF Session
<1>5. /\ Len(sess[at[c]].msgs) \in Nat
      /\ Len(s.msgs) = Len(sess[at[c]].msgs) + 1
      /\ \A i \in 1..Len(sess[at[c]].msgs) : s.msgs[i] = sess[at[c]].msgs[i]
      /\ DOMAIN sess[at[c]].msgs = 1..Len(sess[at[c]].msgs)
  BY <1>4, AppendProperties, LenProperties
<1> HIDE DEF s
<1>6. Extends(sess[at[c]], s)
  <2>1. Len(sess[at[c]].msgs) <= Len(s.msgs)
    BY <1>5
  <2>2. sess[at[c]].lc <= s.lc
    BY <1>4
  <2>3. \A i \in DOMAIN sess[at[c]].msgs : s.msgs[i] = sess[at[c]].msgs[i]
    BY <1>5
  <2> QED
    BY <2>1, <2>2, <2>3 DEF Extends
<1> QED
  BY <1>1, <1>3, <1>6, SaveExtends

\* A file changes in one of these steps only.
LEMMA FilesExtend ==
  ASSUME IInv, [Next]_vars, NEW k \in Keys \ overtaken
  PROVE  Extends(disk[k], disk'[k]) \/ IsNewSession(k)
<1>0. disk \in [Keys -> Session]
  BY DEF IInv, TypeOK
<1>1. ASSUME disk' = disk PROVE Extends(disk[k], disk'[k])
  BY <1>0, <1>1, ExtendsRefl
<1>2. ASSUME NEW c \in Cmds, NEW j \in Keys, BeginTurn(c, j) PROVE disk' = disk
  BY <1>2 DEF BeginTurn
<1>3. ASSUME NEW c \in Cmds, NEW j \in Keys, NewSession(c, j)
      PROVE  Extends(disk[k], disk'[k]) \/ IsNewSession(k)
  <2>1. CASE j = k
    <3>1. c \in News /\ pc[c] = "idle" /\ pc'[c] # "idle" /\ key'[c] = k
      BY <1>3, <2>1 DEF NewSession, IInv, TypeOK
    <3> QED
      BY <3>1 DEF IsNewSession
  <2>2. CASE j # k
    <3>1. disk'[k] = disk[k]
      BY <1>0, <1>3, <2>2 DEF NewSession
    <3> QED
      BY <1>0, <3>1, ExtendsRefl
  <2> QED
    BY <2>1, <2>2
<1>4. ASSUME NEW c \in Cmds, ConsolidateOk(c) \/ ConsolidateFail(c)
      PROVE  Extends(disk[k], disk'[k])
  <2>1. pc[c] \in Asking /\ (disk' = disk \/ Consolidated(c))
    BY <1>4 DEF ConsolidateOk, ConsolidateFail, storage
  <2> QED
    BY <1>1, <2>1, ConsolidatedExtends
<1>5. ASSUME NEW c \in Cmds,
             StartConsolidation(c) \/ AbortTurn(c) \/ ArchiveOk(c) \/ ArchiveFail(c)
      PROVE  disk' = disk
  BY <1>5 DEF StartConsolidation, AbortTurn, ArchiveOk, ArchiveFail, storage
<1>6. ASSUME Crash \/ CrashBeforeSave PROVE disk' = disk
  BY <1>6 DEF Crash, CrashBeforeSave, Restart
<1>7. ASSUME UNCHANGED vars PROVE disk' = disk
  BY <1>7 DEF vars, storage
<1> QED
  BY <1>1, <1>2, <1>3, <1>4, <1>5, <1>6, <1>7, CommitExtends DEF Next

\* A session's file is never rewritten: save() only appends messages and moves the
\* offset forward, until "/new" (manager.py save, loop.py, memory.py).
THEOREM FilesAppendOnly == Spec => AppendOnly
<1>1. (IInv /\ Archivers) /\ [Next]_vars =>
        [\A k \in Keys \ overtaken : Extends(disk[k], disk'[k]) \/ IsNewSession(k)]_vars
  BY FilesExtend
<1> QED
  BY <1>1, Invariance, PTL DEF Spec, AppendOnly

-------------------------------------------------------------------------------
(* No turn is archived twice, unless the process dies between the two writes of a consolidation. *)
(* A turn that is not archived is in exactly one place: behind the offset of its session's file, *)
(* once, or in the chunk of one archive task.  What a consolidation has in flight is still in    *)
(* the file.                                                                                     *)

\* The turn was committed; it stays so, and keeps its key.
Committed(c) == c \in Cmds /\ pc[c] \in {"bgwait", "bgask", "done"}
Whose(c, k) == Committed(c) /\ key[c] = k

\* Where turns are found, they were committed, and are of that session.
Provenance ==
  /\ \A o \in 1..Len(sess) : \A p \in 1..Len(sess[o].msgs) : Whose(sess[o].msgs[p], sess[o].key)
  /\ \A k \in Keys : \A p \in 1..Len(disk[k].msgs) : Whose(disk[k].msgs[p], k)
  /\ \A i \in DOMAIN history : \A c \in history[i] : Committed(c)
  /\ \A d \in Cmds : pc[d] \in Asking \cup {"archive"} => \A c \in job[d].chunk : Whose(c, key[d])

\* A file holds a turn once, and what follows its offset is archived nowhere.
Unarchived ==
  \A k \in Keys \ overtaken :
    /\ \A p, q \in 1..Len(disk[k].msgs) : disk[k].msgs[p] = disk[k].msgs[q] => p = q
    /\ \A p \in (disk[k].lc + 1)..Len(disk[k].msgs) :
         disk[k].msgs[p] \notin Logged /\ ~InArchive(disk[k].msgs[p])

\* x follows the offset of the object s, up to position e.
Follows(x, s, e) == \E p \in (s.lc + 1)..Len(s.msgs) : p <= e /\ s.msgs[p] = x

\* A chunk sent to the LLM is nothing but what follows the offset.
ChunkInv ==
  \A d \in Cmds : pc[d] \in Asking /\ key[d] \notin overtaken =>
    \A c \in job[d].chunk : Follows(c, sess[at[d]], job[d].end)

\* The turns of an archive task are in no other's, and not archived yet.
ArchiveInv ==
  \A d \in Cmds : pc[d] = "archive" => \A c \in job[d].chunk : key[c] \notin overtaken =>
    c \notin Logged /\ \A e \in Cmds \ {d} : pc[e] = "archive" => c \notin job[e].chunk

Parts == Provenance /\ Unarchived /\ ChunkInv /\ ArchiveInv /\ ArchivedOnce

OnceInv == crashes = 0 => Parts

-------------------------------------------------------------------------------
(* Lemmas *)

\* Entries and their union, before and after one is added.
LEMMA LoggedIs ==
  ASSUME history \in Seq(SUBSET Cmds), NEW X \in SUBSET Cmds, history' = Append(history, X)
  PROVE  /\ \A c : c \in Logged' <=> c \in Logged \/ c \in X
         /\ DOMAIN history' = DOMAIN history \cup {Len(history) + 1}
         /\ \A i \in DOMAIN history : i # Len(history) + 1 /\ history'[i] = history[i]
         /\ history'[Len(history) + 1] = X
<1>1. /\ DOMAIN history' = DOMAIN history \cup {Len(history) + 1}
      /\ \A i \in DOMAIN history : i # Len(history) + 1 /\ history'[i] = history[i]
      /\ history'[Len(history) + 1] = X
      OBVIOUS
<1>2. \A c : c \in Logged' <=> c \in Logged \/ c \in X
      BY <1>1 DEF Logged
<1> QED
    BY <1>1, <1>2

\* The chunk that AskLLM takes.
LEMMA RoundChunk ==
  ASSUME TypeOK, NEW c \in Cmds, pc[c] \in Running \cup {"bgwait", "bgask"},
         NEW s \in Session, NEW r \in Nat, AskLLM(c, s, r) \/ Leave(c)
  PROVE  /\ \A d \in Cmds \ {c} : pc'[d] = pc[d] /\ job'[d] = job[d]
         /\ pc'[c] \in {"ask", "think", "bgask", "done"}
         /\ pc[c] \in Running => pc'[c] \notin {"bgwait", "bgask", "done"}
         /\ pc[c] \notin Running => pc'[c] \in {"bgask", "done"}
         /\ pc'[c] \in Asking => \A x \in job'[c].chunk : Follows(x, s, job'[c].end)
<1>1. s.msgs \in Seq(Cmds) /\ s.lc \in Nat /\ Len(s.msgs) \in Nat
  <2>1. s.msgs \in Seq(Cmds) /\ s.lc \in Nat
        BY DEF Session
  <2> QED
      BY <2>1, LenProperties
<1>2. CASE Leave(c)
      BY <1>2 DEF Leave, TypeOK, NoJob, Running, Asking
<1>3. CASE AskLLM(c, s, r)
  <2>1. PICK e \in Boundaries(s) :
          /\ job' = [job EXCEPT ![c] = [chunk |-> Slice(s, s.lc + 1, e), end |-> e, n |-> r]]
          /\ pc' = [pc EXCEPT ![c] = IF pc[c] \in Running THEN "ask" ELSE "bgask"]
        BY <1>3 DEF AskLLM
  <2>2. /\ job'[c].chunk = Slice(s, s.lc + 1, e) /\ job'[c].end = e
        /\ \A d \in Cmds \ {c} : pc'[d] = pc[d] /\ job'[d] = job[d]
        /\ pc'[c] = IF pc[c] \in Running THEN "ask" ELSE "bgask"
        BY <2>1 DEF TypeOK
  <2>3. e <= Len(s.msgs) /\ e \in Nat
        BY <1>1 DEF Boundaries
  <2>4. ASSUME NEW x \in job'[c].chunk PROVE Follows(x, s, job'[c].end)
    <3>1. PICK p \in (s.lc + 1)..e : s.msgs[p] = x
          BY <2>2 DEF Slice
    <3>2. p \in (s.lc + 1)..Len(s.msgs) /\ p <= e
          BY <1>1, <2>3
    <3> QED
        BY <2>2, <3>1, <3>2 DEF Follows
  <2> QED
      BY <2>2, <2>4
<1> QED
    BY <1>2, <1>3

\* What a consolidation has in flight is not archived, and in no archive task.
LEMMA FlightIs ==
  ASSUME IInv, Parts, NEW c \in Cmds, pc[c] \in Asking, key[c] \notin overtaken,
         NEW x \in job[c].chunk
  PROVE  /\ x \notin Logged /\ ~InArchive(x)
         /\ at[c] = cache[key[c]] /\ sess[at[c]] = disk[key[c]]
         /\ \E p \in (disk[key[c]].lc + 1)..Len(disk[key[c]].msgs) : p <= job[c].end /\ disk[key[c]].msgs[p] = x
<1>1. pc[c] \in Live /\ pc[c] # "bgwait"
      BY DEF Live, Asking, Running
<1>2. key[c] \in Keys /\ at[c] \in 1..Len(sess) /\ sess[at[c]] \in Session /\ at[c] # 0
      BY <1>1, HeldSession DEF IInv
<1>3. at[c] = cache[key[c]] /\ sess[at[c]] = disk[key[c]]
      BY <1>1, <1>2 DEF IInv, Ownership, CacheIsSaved
<1>4. Follows(x, disk[key[c]], job[c].end)
      BY <1>3 DEF Parts, ChunkInv
<1>5. /\ Len(disk[key[c]].msgs) \in Nat /\ disk[key[c]].lc \in Nat /\ job[c].end \in Nat
  <2>1. disk[key[c]].msgs \in Seq(Cmds) /\ disk[key[c]].lc \in Nat /\ job[c].end \in Nat
        BY <1>2 DEF IInv, TypeOK, Session
  <2> QED
      BY <2>1, LenProperties
<1>6. PICK p \in (disk[key[c]].lc + 1)..Len(disk[key[c]].msgs) : p <= job[c].end /\ disk[key[c]].msgs[p] = x
      BY <1>4, <1>5 DEF Follows
<1>7. x \notin Logged /\ ~InArchive(x)
      BY <1>2, <1>6 DEF Parts, Unarchived
<1> QED
    BY <1>3, <1>6, <1>7

\* Steps that write neither file, but start, leave or give up a chunk.
LEMMA OnceFrame ==
  ASSUME Parts, UNCHANGED <<sess, disk, history, overtaken, key, at, crashes>>,
         \A d \in Cmds : Committed(d) => Committed(d)',
         \A d \in Cmds : pc'[d] = "archive" => pc[d] = "archive" /\ job'[d].chunk = job[d].chunk,
         \A d \in Cmds : pc'[d] \in Asking =>
           \/ pc[d] \in Asking /\ job'[d] = job[d]
           \/ /\ at[d] \in 1..Len(sess) /\ sess[at[d]] \in Session /\ sess[at[d]].key = key[d]
              /\ \A x \in job'[d].chunk : Follows(x, sess[at[d]], job'[d].end)
  PROVE  Parts'
<1>1. \A c, k : Whose(c, k) => Whose(c, k)'
      BY DEF Whose, Committed
<1>2. \A c : InArchive(c)' => InArchive(c)
      BY DEF InArchive
<1>3. Logged' = Logged
      BY DEF Logged
<1>4. Provenance'
  <2>1. ASSUME NEW o \in 1..Len(sess), NEW p \in 1..Len(sess[o].msgs)
        PROVE  Whose(sess[o].msgs[p], sess[o].key)'
        BY <1>1 DEF Parts, Provenance
  <2>2. ASSUME NEW k \in Keys, NEW p \in 1..Len(disk[k].msgs) PROVE Whose(disk[k].msgs[p], k)'
        BY <1>1 DEF Parts, Provenance
  <2>3. ASSUME NEW i \in DOMAIN history, NEW c \in history[i] PROVE Committed(c)'
        BY DEF Parts, Provenance, Committed
  <2>4. ASSUME NEW d \in Cmds, pc'[d] \in Asking \cup {"archive"}, NEW c \in job'[d].chunk
        PROVE  Whose(c, key[d])'
    <3>1. CASE pc[d] \in Asking \cup {"archive"} /\ job'[d].chunk = job[d].chunk
          BY <1>1, <3>1 DEF Parts, Provenance
    <3>2. CASE /\ at[d] \in 1..Len(sess) /\ sess[at[d]] \in Session /\ sess[at[d]].key = key[d]
               /\ \A x \in job'[d].chunk : Follows(x, sess[at[d]], job'[d].end)
      <4>1. sess[at[d]].lc \in Nat /\ Len(sess[at[d]].msgs) \in Nat
        <5>1. sess[at[d]].msgs \in Seq(Cmds) /\ sess[at[d]].lc \in Nat
              BY <3>2 DEF Session
        <5> QED
            BY <5>1, LenProperties
      <4>2. PICK p \in 1..Len(sess[at[d]].msgs) : sess[at[d]].msgs[p] = c
            BY <2>4, <3>2, <4>1 DEF Follows
      <4>3. Whose(c, key[d])
            BY <3>2, <4>2 DEF Parts, Provenance
      <4> QED
          BY <1>1, <4>3
    <3> QED
        BY <2>4, <3>1, <3>2
  <2> QED
      BY <2>1, <2>2, <2>3, <2>4 DEF Provenance
<1>5. Unarchived'
      BY <1>2, <1>3 DEF Parts, Unarchived
<1>6. ChunkInv'
      BY DEF Parts, ChunkInv, Follows
<1>7. ArchiveInv'
      BY <1>3 DEF Parts, ArchiveInv
<1>8. ArchivedOnce'
      BY DEF Parts, ArchivedOnce
<1> QED
    BY <1>4, <1>5, <1>6, <1>7, <1>8 DEF Parts

\* A step that adds the chunk of a consolidation to HISTORY.md and moves the offset.
LEMMA OnceConsolidated ==
  ASSUME IInv, Parts, NEW c \in Cmds, pc[c] \in Asking, Consolidated(c),
         UNCHANGED <<key, at, crashes, overtaken>>
  PROVE  Parts'
<1> DEFINE k == key[c]
           o == at[c]
           X == job[c].chunk
           s == [sess[o] EXCEPT !.lc = job[c].end]
<1>0. TypeOK /\ References /\ Provenance /\ Unarchived /\ ChunkInv /\ ArchiveInv
      BY DEF IInv, Parts
<1>1. pc[c] \in Live \ {"bgwait"} /\ pc[c] \in Running \cup {"bgwait", "bgask"} /\ pc[c] # "archive"
      BY DEF Live, Asking, Running
<1>2. /\ o \in 1..Len(sess) /\ k \in Keys /\ o # 0
      /\ sess[o] \in Session /\ sess[o].key = k /\ Len(sess) \in Nat
      BY <1>0, <1>1, HeldSession
<1>3. X \in SUBSET Cmds /\ job[c].end \in Nat /\ job[c].n \in Nat
      BY <1>0 DEF TypeOK
<1>4. s \in Session /\ s.key = k /\ s.msgs = sess[o].msgs /\ s.lc = job[c].end
      BY <1>2, <1>3 DEF Session
<1>5. /\ Len(sess') = Len(sess)
      /\ \A j \in 1..Len(sess) : sess'[j] = IF j = o THEN s ELSE sess[j]
      /\ disk' = [disk EXCEPT ![k] = s]
      /\ history' = Append(history, X)
      /\ AskLLM(c, s, job[c].n + 1) \/ Leave(c)
      BY <1>0, <1>2 DEF Consolidated, Save, TypeOK
<1> HIDE DEF s
<1>6. /\ \A x : x \in Logged' <=> x \in Logged \/ x \in X
      /\ DOMAIN history' = DOMAIN history \cup {Len(history) + 1}
      /\ \A i \in DOMAIN history : i # Len(history) + 1 /\ history'[i] = history[i]
      /\ history'[Len(history) + 1] = X
  <2>1. history \in Seq(SUBSET Cmds)
        BY <1>0 DEF TypeOK
  <2> QED
      BY <2>1, <1>3, <1>5, LoggedIs
<1>7. /\ \A d \in Cmds \ {c} : pc'[d] = pc[d] /\ job'[d] = job[d]
      /\ pc'[c] \in {"ask", "think", "bgask", "done"}
      /\ pc[c] \in Running => pc'[c] \notin {"bgwait", "bgask", "done"}
      /\ pc[c] \notin Running => pc'[c] \in {"bgask", "done"}
      /\ pc'[c] \in Asking => \A x \in job'[c].chunk : Follows(x, s, job'[c].end)
  <2>1. job[c].n + 1 \in Nat
        BY <1>3
  <2> QED
      BY <2>1, <1>0, <1>1, <1>4, <1>5, RoundChunk
<1>8. \A x : InArchive(x)' => InArchive(x)
      BY <1>7 DEF InArchive
<1>9. \A x : Committed(x) => Committed(x)'
      BY <1>7 DEF Committed, Running
<1>10. \A x, l : Whose(x, l) => Whose(x, l)'
       BY <1>9 DEF Whose
<1>11. \A x \in X : Whose(x, k)
       BY <1>0 DEF Provenance
<1>12. \A x \in X : k \notin overtaken => x \notin Logged /\ ~InArchive(x)
       BY FlightIs
<1>13. Provenance'
  <2>1. ASSUME NEW j \in 1..Len(sess), NEW p \in 1..Len(sess'[j].msgs)
        PROVE  Whose(sess[j].msgs[p], sess[j].key)'
    <3>1. sess'[j].msgs = sess[j].msgs /\ sess'[j].key = sess[j].key
          BY <1>2, <1>4, <1>5
    <3>2. Whose(sess[j].msgs[p], sess[j].key)
          BY <2>1, <3>1, <1>0 DEF Provenance
    <3> QED
        BY <3>1, <3>2, <1>10
  <2>2. ASSUME NEW l \in Keys, NEW p \in 1..Len(disk'[l].msgs) PROVE Whose(disk[l].msgs[p], l)'
    <3>1. CASE l = k
      <4>1. disk'[l].msgs = sess[o].msgs
            BY <3>1, <1>0, <1>4, <1>5 DEF TypeOK
      <4>2. Whose(sess[o].msgs[p], k)
            BY <2>2, <4>1, <1>0, <1>2 DEF Provenance
      <4> QED
          BY <3>1, <4>1, <4>2, <1>10
    <3>2. CASE l # k
      <4>1. disk'[l].msgs = disk[l].msgs
            BY <3>2, <1>0, <1>5 DEF TypeOK
      <4>2. Whose(disk[l].msgs[p], l)
            BY <2>2, <4>1, <1>0 DEF Provenance
      <4> QED
          BY <4>1, <4>2, <1>10
    <3> QED
        BY <3>1, <3>2
  <2>3. ASSUME NEW i \in DOMAIN history', NEW x \in history'[i] PROVE Committed(x)'
    <3>1. CASE i \in DOMAIN history
          BY <2>3, <3>1, <1>0, <1>6, <1>9 DEF Provenance
    <3>2. CASE i = Len(history) + 1
          BY <2>3, <3>2, <1>6, <1>9, <1>11 DEF Whose
    <3> QED
        BY <3>1, <3>2, <1>6
  <2>4. ASSUME NEW d \in Cmds, pc'[d] \in Asking \cup {"archive"}, NEW x \in job'[d].chunk
        PROVE  Whose(x, key[d])'
    <3>1. Whose(x, key[d])
      <4>1. CASE d = c
        <5>1. Follows(x, s, job'[c].end)
              BY <2>4, <4>1, <1>7
        <5>2. s.msgs \in Seq(Cmds) /\ s.lc \in Nat
              BY <1>4 DEF Session
        <5>3. PICK p \in 1..Len(s.msgs) : s.msgs[p] = x
              BY <5>1, <5>2, LenProperties DEF Follows
        <5> QED
            BY <4>1, <5>3, <1>0, <1>2, <1>4 DEF Provenance
      <4>2. CASE d # c
            BY <2>4, <4>2, <1>0, <1>7 DEF Provenance
      <4> QED
          BY <4>1, <4>2
    <3> QED
        BY <3>1, <1>10
  <2> QED
      BY <2>1, <2>2, <2>3, <2>4, <1>5 DEF Provenance
<1>14. Unarchived'
  <2> SUFFICES ASSUME NEW l \in Keys \ overtaken
               PROVE  /\ \A p, q \in 1..Len(disk'[l].msgs) : disk'[l].msgs[p] = disk'[l].msgs[q] => p = q
                      /\ \A p \in (disk'[l].lc + 1)..Len(disk'[l].msgs) :
                           disk'[l].msgs[p] \notin Logged' /\ ~InArchive(disk[l].msgs[p])'
      BY DEF Unarchived
  <2>0. /\ disk[l].msgs \in Seq(Cmds) /\ disk[l].lc \in Nat /\ Len(disk[l].msgs) \in Nat
        /\ \A p, q \in 1..Len(disk[l].msgs) : disk[l].msgs[p] = disk[l].msgs[q] => p = q
        /\ \A p \in (disk[l].lc + 1)..Len(disk[l].msgs) :
             disk[l].msgs[p] \notin Logged /\ ~InArchive(disk[l].msgs[p])
    <3>1. disk[l].msgs \in Seq(Cmds) /\ disk[l].lc \in Nat
          BY <1>0 DEF TypeOK, Session
    <3> QED
        BY <3>1, <1>0, LenProperties DEF Unarchived
  <2>1. disk'[l].msgs = disk[l].msgs /\ disk'[l].lc >= disk[l].lc
    <3>1. CASE l = k
      <4>1. sess[o] = disk[l] /\ job[c].end > sess[o].lc
            BY <3>1, <1>1, <1>2 DEF IInv, Ownership, CacheIsSaved, InFlight
      <4>2. disk'[l] = s
            BY <3>1, <1>0, <1>5 DEF TypeOK
      <4> QED
          BY <4>1, <4>2, <1>3, <1>4, <2>0
    <3>2. CASE l # k
          BY <3>2, <1>0, <1>5, <2>0 DEF TypeOK
    <3> QED
        BY <3>1, <3>2
  <2>2. ASSUME NEW p \in (disk'[l].lc + 1)..Len(disk[l].msgs) PROVE disk[l].msgs[p] \notin X
    <3>0. disk'[l].lc \in Nat
      <4>1. disk'[l] \in Session
            BY <1>0, <1>2, <1>4, <1>5 DEF TypeOK
      <4> QED
          BY <4>1 DEF Session
    <3>1. p \in 1..Len(disk[l].msgs)
          BY <2>0, <3>0
    <3>2. Whose(disk[l].msgs[p], l)
          BY <3>1, <1>0 DEF Provenance
    <3>3. CASE l # k
          BY <3>2, <3>3, <1>11 DEF Whose
    <3>4. CASE l = k /\ disk[l].msgs[p] \in X
      <4>1. PICK q \in (disk[l].lc + 1)..Len(disk[l].msgs) :
              q <= job[c].end /\ disk[l].msgs[q] = disk[l].msgs[p]
            BY <3>4, FlightIs
      <4>2. disk'[l].lc = job[c].end
            BY <3>4, <1>0, <1>4, <1>5 DEF TypeOK
      <4>3. q \in 1..Len(disk[l].msgs)
            BY <2>0
      <4>4. p = q
            BY <2>0, <3>1, <4>1, <4>3
      <4> QED
          BY <4>1, <4>2, <4>4, <1>3
    <3> QED
        BY <3>3, <3>4
  <2>3. ASSUME NEW p \in (disk'[l].lc + 1)..Len(disk[l].msgs)
        PROVE  disk[l].msgs[p] \notin Logged' /\ ~InArchive(disk[l].msgs[p])
    <3>0. disk'[l].lc \in Nat
      <4>1. disk'[l] \in Session
            BY <1>0, <1>2, <1>4, <1>5 DEF TypeOK
      <4> QED
          BY <4>1 DEF Session
    <3>1. p \in (disk[l].lc + 1)..Len(disk[l].msgs)
          BY <2>0, <2>1, <3>0
    <3> QED
        BY <3>1, <2>0, <2>2, <1>6
  <2> QED
      BY <2>0, <2>1, <2>3, <1>8
<1>15. ChunkInv'
  <2> SUFFICES ASSUME NEW d \in Cmds, pc'[d] \in Asking, key[d] \notin overtaken,
                      NEW x \in job'[d].chunk
               PROVE  Follows(x, sess'[at[d]], job'[d].end)
      BY DEF ChunkInv, Follows
  <2>1. CASE d = c
        BY <2>1, <1>2, <1>5, <1>7
  <2>2. CASE d # c
    <3>1. pc[d] \in Asking /\ job'[d] = job[d] /\ pc[d] \in Live
          BY <2>2, <1>7 DEF Asking, Live, Running
    <3>2. at[d] \in 1..Len(sess) /\ sess[at[d]].key = key[d]
          BY <3>1, <1>0, HeldSession
    <3>3. key[d] # k
          BY <2>2, <3>1 DEF IInv, Exclusive
    <3>4. sess'[at[d]] = sess[at[d]]
          BY <3>2, <3>3, <1>2, <1>5
    <3> QED
        BY <3>1, <3>4, <1>0 DEF ChunkInv
  <2> QED
      BY <2>1, <2>2
<1>16. ArchiveInv'
  <2> SUFFICES ASSUME NEW d \in Cmds, pc'[d] = "archive", NEW x \in job'[d].chunk, key[x] \notin overtaken
               PROVE  x \notin Logged' /\ \A e \in Cmds \ {d} : pc'[e] = "archive" => x \notin job'[e].chunk
      BY DEF ArchiveInv
  <2>1. pc[d] = "archive" /\ x \in job[d].chunk
        BY <1>7
  <2>2. x \notin X
        BY <2>1, <1>11, <1>12 DEF InArchive, Whose
  <2> QED
      BY <2>1, <2>2, <1>0, <1>6, <1>7 DEF ArchiveInv
<1>17. ArchivedOnce'
  <2> SUFFICES ASSUME crashes = 0, NEW i \in DOMAIN history', NEW j \in DOMAIN history', i # j,
                      NEW x \in history'[i], x \in history'[j]
               PROVE  key[x] \in overtaken
      BY DEF ArchivedOnce
  <2>1. ASSUME NEW h \in DOMAIN history, x \in history[h], x \in X PROVE key[x] \in overtaken
    <3>1. x \in Logged
          BY <2>1 DEF Logged
    <3> QED
        BY <2>1, <3>1, <1>11, <1>12 DEF Whose
  <2>2. CASE i \in DOMAIN history /\ j \in DOMAIN history
        BY <2>2, <1>6 DEF Parts, ArchivedOnce
  <2>3. CASE i = Len(history) + 1 /\ j \in DOMAIN history
        BY <2>1, <2>3, <1>6
  <2>4. CASE i \in DOMAIN history /\ j = Len(history) + 1
        BY <2>1, <2>4, <1>6
  <2> QED
      BY <2>2, <2>3, <2>4, <1>6
<1> QED
    BY <1>13, <1>14, <1>15, <1>16, <1>17 DEF Parts

\* The archive task of "/new" writes its turns to HISTORY.md and ends.
LEMMA OnceArchived ==
  ASSUME IInv, Parts, NEW c \in Cmds, pc[c] = "archive", Archived(c),
         UNCHANGED <<storage, key, at, crashes, overtaken>>
  PROVE  Parts'
<1> DEFINE X == job[c].chunk
<1>0. TypeOK /\ Provenance /\ Unarchived /\ ChunkInv /\ ArchiveInv
      BY DEF IInv, Parts
<1>1. /\ pc' = [pc EXCEPT ![c] = "done"] /\ job' = [job EXCEPT ![c] = NoJob]
      /\ history' = Append(history, X)
      /\ UNCHANGED <<sess, disk>>
      BY DEF Archived, storage
<1>2. /\ pc'[c] = "done" /\ \A d \in Cmds \ {c} : pc'[d] = pc[d] /\ job'[d] = job[d]
      BY <1>0, <1>1 DEF TypeOK
<1>3. /\ \A x : x \in Logged' <=> x \in Logged \/ x \in X
      /\ DOMAIN history' = DOMAIN history \cup {Len(history) + 1}
      /\ \A i \in DOMAIN history : i # Len(history) + 1 /\ history'[i] = history[i]
      /\ history'[Len(history) + 1] = X
  <2>1. history \in Seq(SUBSET Cmds) /\ X \in SUBSET Cmds
        BY <1>0 DEF TypeOK
  <2> QED
      BY <2>1, <1>1, LoggedIs
<1>4. \A x : InArchive(x)' => InArchive(x)
      BY <1>2 DEF InArchive
<1>5. \A x : Committed(x) => Committed(x)'
      BY <1>2 DEF Committed
<1>6. \A x, l : Whose(x, l) => Whose(x, l)'
      BY <1>5 DEF Whose
<1>7. \A x \in X : Whose(x, key[c]) /\ InArchive(x)
      BY <1>0 DEF Provenance, InArchive
<1>8. Provenance'
  <2>1. ASSUME NEW j \in 1..Len(sess), NEW p \in 1..Len(sess[j].msgs)
        PROVE  Whose(sess[j].msgs[p], sess[j].key)'
        BY <1>0, <1>1, <1>6 DEF Provenance
  <2>2. ASSUME NEW l \in Keys, NEW p \in 1..Len(disk[l].msgs) PROVE Whose(disk[l].msgs[p], l)'
        BY <1>0, <1>1, <1>6 DEF Provenance
  <2>3. ASSUME NEW i \in DOMAIN history', NEW x \in history'[i] PROVE Committed(x)'
    <3>1. CASE i \in DOMAIN history
          BY <2>3, <3>1, <1>0, <1>3, <1>5 DEF Provenance
    <3>2. CASE i = Len(history) + 1
          BY <2>3, <3>2, <1>3, <1>5, <1>7 DEF Whose
    <3> QED
        BY <3>1, <3>2, <1>3
  <2>4. ASSUME NEW d \in Cmds, pc'[d] \in Asking \cup {"archive"}, NEW x \in job'[d].chunk
        PROVE  Whose(x, key[d])'
    <3>1. d # c
          BY <2>4, <1>2 DEF Asking
    <3>2. Whose(x, key[d])
          BY <2>4, <3>1, <1>0, <1>2 DEF Provenance
    <3> QED
        BY <3>2, <1>6
  <2> QED
      BY <2>1, <2>2, <2>3, <2>4, <1>1 DEF Provenance
<1>9. Unarchived'
  <2>1. ASSUME NEW l \in Keys \ overtaken, NEW p \in (disk[l].lc + 1)..Len(disk[l].msgs)
        PROVE  disk[l].msgs[p] \notin Logged' /\ ~InArchive(disk[l].msgs[p])'
    <3>1. disk[l].msgs[p] \notin Logged /\ ~InArchive(disk[l].msgs[p])
          BY <1>0 DEF Unarchived
    <3> QED
        BY <3>1, <1>1, <1>3, <1>4, <1>7
  <2>2. ASSUME NEW l \in Keys \ overtaken, NEW p \in 1..Len(disk[l].msgs), NEW q \in 1..Len(disk[l].msgs),
               disk[l].msgs[p] = disk[l].msgs[q]
        PROVE  p = q
        BY <2>2, <1>0 DEF Unarchived
  <2> QED
      BY <2>1, <2>2, <1>1 DEF Unarchived
<1>10. ChunkInv'
  <2> SUFFICES ASSUME NEW d \in Cmds, pc'[d] \in Asking, key[d] \notin overtaken,
                      NEW x \in job'[d].chunk
               PROVE  Follows(x, sess[at[d]], job'[d].end)
      BY <1>1 DEF ChunkInv, Follows
  <2>1. d # c
        BY <1>2 DEF Asking
  <2> QED
      BY <2>1, <1>0, <1>2 DEF ChunkInv
<1>11. ArchiveInv'
  <2> SUFFICES ASSUME NEW d \in Cmds, pc'[d] = "archive", NEW x \in job'[d].chunk, key[x] \notin overtaken
               PROVE  x \notin Logged' /\ \A e \in Cmds \ {d} : pc'[e] = "archive" => x \notin job'[e].chunk
      BY DEF ArchiveInv
  <2>1. d # c /\ pc[d] = "archive" /\ x \in job[d].chunk
        BY <1>2
  <2>2. x \notin X
        BY <2>1, <1>0 DEF ArchiveInv
  <2>3. ASSUME NEW e \in Cmds \ {d}, pc'[e] = "archive" PROVE x \notin job'[e].chunk
    <3>1. e # c
          BY <2>3, <1>2
    <3> QED
        BY <2>1, <2>3, <3>1, <1>0, <1>2 DEF ArchiveInv
  <2> QED
      BY <2>1, <2>2, <2>3, <1>0, <1>3 DEF ArchiveInv
<1>12. ArchivedOnce'
  <2> SUFFICES ASSUME crashes = 0, NEW i \in DOMAIN history', NEW j \in DOMAIN history', i # j,
                      NEW x \in history'[i], x \in history'[j]
               PROVE  key[x] \in overtaken
      BY DEF ArchivedOnce
  <2>1. ASSUME NEW h \in DOMAIN history, x \in history[h], x \in X PROVE key[x] \in overtaken
    <3>1. x \in Logged
          BY <2>1 DEF Logged
    <3> QED
        BY <2>1, <3>1, <1>0 DEF ArchiveInv
  <2>2. CASE i \in DOMAIN history /\ j \in DOMAIN history
        BY <2>2, <1>3 DEF Parts, ArchivedOnce
  <2>3. CASE i = Len(history) + 1 /\ j \in DOMAIN history
        BY <2>1, <2>3, <1>3
  <2>4. CASE i \in DOMAIN history /\ j = Len(history) + 1
        BY <2>1, <2>4, <1>3
  <2> QED
      BY <2>2, <2>3, <2>4, <1>3
<1> QED
    BY <1>8, <1>9, <1>10, <1>11, <1>12 DEF Parts

\* A committed turn enters the file of its session, and was nowhere before.
LEMMA OnceCommit ==
  ASSUME IInv, Parts, NEW c \in Cmds, CommitTurn(c)
  PROVE  Parts'
<1> DEFINE k == key[c]
           o == at[c]
           s == [sess[o] EXCEPT !.msgs = Append(@, c)]
<1>0. TypeOK /\ References /\ Provenance /\ Unarchived /\ ChunkInv /\ ArchiveInv
      BY DEF IInv, Parts
<1>1. pc[c] = "think" /\ pc[c] \in Live \ {"bgwait"} /\ ~Committed(c)
      BY DEF CommitTurn, Live, Running, Committed
<1>2. /\ o \in 1..Len(sess) /\ k \in Keys /\ o # 0
      /\ sess[o] \in Session /\ sess[o].key = k /\ Len(sess) \in Nat
      BY <1>0, <1>1, HeldSession
<1>3. sess[o].msgs \in Seq(Cmds) /\ sess[o].lc \in Nat /\ Len(sess[o].msgs) \in Nat
  <2>1. sess[o].msgs \in Seq(Cmds) /\ sess[o].lc \in Nat
        BY <1>2 DEF Session
  <2> QED
      BY <2>1, LenProperties
<1>4. /\ Append(sess[o].msgs, c) \in Seq(Cmds)
      /\ Len(Append(sess[o].msgs, c)) = Len(sess[o].msgs) + 1
      /\ \A i \in 1..Len(sess[o].msgs) : Append(sess[o].msgs, c)[i] = sess[o].msgs[i]
      /\ Append(sess[o].msgs, c)[Len(sess[o].msgs) + 1] = c
      BY <1>3, AppendProperties
<1>5. s \in Session /\ s.key = k /\ s.msgs = Append(sess[o].msgs, c) /\ s.lc = sess[o].lc
      BY <1>2, <1>4 DEF Session
<1>6. /\ sess' = [sess EXCEPT ![o] = s] /\ disk' = [disk EXCEPT ![k] = s]
      /\ pc' = [pc EXCEPT ![c] = "bgwait"]
      /\ UNCHANGED <<key, at, job, history, crashes, overtaken>>
      BY DEF CommitTurn, Save, log, observers
<1> HIDE DEF s
<1>7. /\ Len(sess') = Len(sess)
      /\ \A j \in 1..Len(sess) : sess'[j] = IF j = o THEN s ELSE sess[j]
      BY <1>0, <1>2, <1>6 DEF TypeOK
<1>8. pc'[c] = "bgwait" /\ \A d \in Cmds \ {c} : pc'[d] = pc[d]
      BY <1>0, <1>6 DEF TypeOK
<1>9. \A x : InArchive(x)' => InArchive(x)
      BY <1>6, <1>8 DEF InArchive
<1>10. \A x : Committed(x) => Committed(x)'
       BY <1>8 DEF Committed
<1>11. /\ \A x, l : Whose(x, l) => Whose(x, l)'
       /\ \A l : l = k => Whose(c, l)'
  <2>1. \A x, l : Whose(x, l) => Whose(x, l)'
        BY <1>6, <1>10 DEF Whose
  <2>2. Committed(c)' /\ key'[c] = k
        BY <1>6, <1>8 DEF Committed
  <2> QED
      BY <2>1, <2>2, <1>6 DEF Whose
<1>12. Logged' = Logged
       BY <1>6 DEF Logged
<1>13. c \notin Logged /\ ~InArchive(c)
  <2>1. c \notin Logged
        BY <1>0, <1>1 DEF Provenance, Logged
  <2>2. ASSUME NEW d \in Cmds, pc[d] = "archive" PROVE c \notin job[d].chunk
        BY <2>2, <1>0, <1>1 DEF Provenance, Whose
  <2> QED
      BY <2>1, <2>2 DEF InArchive
<1>14. \A p \in 1..Len(s.msgs) : s.msgs[p] = c \/ Whose(s.msgs[p], k)
  <2> SUFFICES ASSUME NEW p \in 1..Len(s.msgs), p # Len(sess[o].msgs) + 1 PROVE Whose(s.msgs[p], k)
      BY <1>4, <1>5
  <2>1. p \in 1..Len(sess[o].msgs) /\ s.msgs[p] = sess[o].msgs[p]
        BY <1>3, <1>4, <1>5
  <2> QED
      BY <2>1, <1>0, <1>2 DEF Provenance
<1>15. Provenance'
  <2>1. ASSUME NEW j \in 1..Len(sess), NEW p \in 1..Len(sess'[j].msgs), NEW x, x = sess'[j].msgs[p],
               NEW l, l = sess'[j].key
        PROVE  Whose(x, l)'
    <3>1. CASE j = o
      <4>1. p \in 1..Len(s.msgs) /\ x = s.msgs[p] /\ l = k
            BY <2>1, <3>1, <1>2, <1>5, <1>7
      <4>2. x = c \/ Whose(x, l)
            BY <4>1, <1>14
      <4> QED
          BY <4>1, <4>2, <1>11
    <3>2. CASE j # o
      <4>1. Whose(x, l)
            BY <2>1, <3>2, <1>0, <1>7 DEF Provenance
      <4> QED
          BY <4>1, <1>11
    <3> QED
        BY <3>1, <3>2
  <2>2. ASSUME NEW l \in Keys, NEW p \in 1..Len(disk'[l].msgs), NEW x, x = disk'[l].msgs[p]
        PROVE Whose(x, l)'
    <3>1. CASE l = k
      <4>1. p \in 1..Len(s.msgs) /\ x = s.msgs[p]
            BY <2>2, <3>1, <1>0, <1>6 DEF TypeOK
      <4>2. x = c \/ Whose(x, l)
            BY <3>1, <4>1, <1>14
      <4> QED
          BY <3>1, <4>2, <1>11
    <3>2. CASE l # k
      <4>1. Whose(x, l)
            BY <2>2, <3>2, <1>0, <1>6 DEF Provenance, TypeOK
      <4> QED
          BY <4>1, <1>11
    <3> QED
        BY <3>1, <3>2
  <2>3. ASSUME NEW i \in DOMAIN history, NEW x \in history[i] PROVE Committed(x)'
        BY <1>0, <1>10 DEF Provenance
  <2>4. ASSUME NEW d \in Cmds, pc'[d] \in Asking \cup {"archive"}, NEW x \in job[d].chunk
        PROVE  Whose(x, key[d])'
    <3>1. d # c
          BY <2>4, <1>8 DEF Asking
    <3>2. Whose(x, key[d])
          BY <2>4, <3>1, <1>0, <1>8 DEF Provenance
    <3> QED
        BY <3>2, <1>6, <1>11
  <2> QED
      BY <2>1, <2>2, <2>3, <2>4, <1>6, <1>7 DEF Provenance
<1>16. Unarchived'
  <2> SUFFICES ASSUME NEW l \in Keys \ overtaken
               PROVE  /\ \A p, q \in 1..Len(disk'[l].msgs) : disk'[l].msgs[p] = disk'[l].msgs[q] => p = q
                      /\ \A p \in (disk'[l].lc + 1)..Len(disk'[l].msgs) : \A x :
                           x = disk'[l].msgs[p] => x \notin Logged /\ ~InArchive(x)
      BY <1>6, <1>9, <1>12 DEF Unarchived
  <2>1. /\ \A p, q \in 1..Len(disk[l].msgs) : disk[l].msgs[p] = disk[l].msgs[q] => p = q
        /\ \A p \in (disk[l].lc + 1)..Len(disk[l].msgs) :
             disk[l].msgs[p] \notin Logged /\ ~InArchive(disk[l].msgs[p])
        BY <1>0 DEF Unarchived
  <2>2. CASE l # k
        BY <2>1, <2>2, <1>0, <1>6 DEF TypeOK
  <2>3. CASE l = k
    <3>1. disk[l] = sess[o] /\ disk'[l] = s
          BY <2>3, <1>0, <1>1, <1>2, <1>6 DEF IInv, Ownership, CacheIsSaved, TypeOK
    <3>2. \A p \in 1..Len(sess[o].msgs) : sess[o].msgs[p] # c
          BY <1>0, <1>1, <1>2 DEF Provenance, Whose
    <3>3. \A p, q \in 1..Len(s.msgs) : s.msgs[p] = s.msgs[q] => p = q
          BY <2>1, <3>1, <3>2, <1>3, <1>4, <1>5
    <3>4. ASSUME NEW p \in (s.lc + 1)..Len(s.msgs)
          PROVE  s.msgs[p] \notin Logged /\ ~InArchive(s.msgs[p])
      <4>1. CASE p = Len(sess[o].msgs) + 1
            BY <4>1, <1>4, <1>5, <1>13
      <4>2. CASE p # Len(sess[o].msgs) + 1
        <5>1. p \in (sess[o].lc + 1)..Len(sess[o].msgs) /\ s.msgs[p] = sess[o].msgs[p]
              BY <4>2, <1>3, <1>4, <1>5
        <5> QED
            BY <5>1, <2>1, <3>1
      <4> QED
          BY <4>1, <4>2
    <3> QED
        BY <3>1, <3>3, <3>4
  <2> QED
      BY <2>2, <2>3
<1>17. ChunkInv'
  <2> SUFFICES ASSUME NEW d \in Cmds, pc'[d] \in Asking, key[d] \notin overtaken, NEW x \in job[d].chunk
               PROVE  Follows(x, sess'[at[d]], job[d].end)
      BY <1>6 DEF ChunkInv, Follows
  <2>1. d # c /\ pc[d] \in Asking /\ pc[d] \in Live
        BY <1>8 DEF Asking, Live, Running
  <2>2. at[d] \in 1..Len(sess) /\ Follows(x, sess[at[d]], job[d].end)
        BY <2>1, <1>0, HeldSession DEF ChunkInv
  <2>3. CASE at[d] # o
        BY <2>2, <2>3, <1>7
  <2>4. CASE at[d] = o
    <3>1. PICK p \in (sess[o].lc + 1)..Len(sess[o].msgs) : p <= job[d].end /\ sess[o].msgs[p] = x
          BY <2>2, <2>4 DEF Follows
    <3>2. p \in (s.lc + 1)..Len(s.msgs) /\ s.msgs[p] = x
          BY <3>1, <1>3, <1>4, <1>5
    <3>3. sess'[at[d]] = s
          BY <2>4, <1>2, <1>7
    <3> QED
        BY <3>1, <3>2, <3>3 DEF Follows
  <2> QED
      BY <2>3, <2>4
<1>18. ArchiveInv'
       BY <1>0, <1>6, <1>8, <1>12 DEF ArchiveInv
<1>19. ArchivedOnce'
       BY <1>6 DEF Parts, ArchivedOnce
<1> QED
    BY <1>15, <1>16, <1>17, <1>18, <1>19 DEF Parts

\* A new turn opens its session: the cached object, or one loaded from the file.
LEMMA OnceBegin ==
  ASSUME IInv, Parts, NEW c \in Cmds, NEW k \in Keys, BeginTurn(c, k)
  PROVE  Parts'
<1> DEFINE o == Handle(k)
           H == Heap(k)
<1>0. /\ TypeOK /\ References /\ CacheIsSaved
      /\ Provenance /\ Unarchived /\ ChunkInv /\ ArchiveInv
      BY DEF IInv, Parts
<1>1. /\ H \in Seq(Session) /\ Len(H) \in Nat /\ Len(sess) \in Nat /\ Len(sess) <= Len(H)
      /\ \A j \in 1..Len(sess) : H[j] = sess[j]
      /\ H[o] = disk[k] /\ disk[k].key = k
      /\ Len(H) # Len(sess) => Len(H) = Len(sess) + 1 /\ o = Len(sess) + 1
  <2>1. Len(H) # Len(sess) => Len(H) = Len(sess) + 1 /\ o = Len(sess) + 1
    <3>1. sess \in Seq(Session) /\ disk[k] \in Session
          BY <1>0 DEF TypeOK
    <3>2. Len(Append(sess, disk[k])) = Len(sess) + 1
          BY <3>1, AppendProperties
    <3> QED
        BY <3>2 DEF Heap, Handle
  <2> QED
      BY <2>1, <1>0, OpenSession
<1>2. /\ pc[c] = "idle" /\ key' = [key EXCEPT ![c] = k] /\ at' = [at EXCEPT ![c] = o]
      /\ sess' = H /\ UNCHANGED <<disk, job, history, crashes, overtaken>>
      BY DEF BeginTurn, log, observers
<1> HIDE DEF o, H
<1>3. /\ pc'[c] \in {"wait", "think"}
      /\ \A d \in Cmds \ {c} : pc'[d] = pc[d] /\ key'[d] = key[d] /\ at'[d] = at[d]
      BY <1>0, <1>2 DEF BeginTurn, TypeOK
<1>4. \A x : InArchive(x)' => InArchive(x)
      BY <1>2, <1>3 DEF InArchive
<1>5. \A x : Committed(x) => Committed(x)' /\ key'[x] = key[x]
      BY <1>2, <1>3 DEF Committed
<1>6. \A x, l : Whose(x, l) => Whose(x, l)'
      BY <1>5 DEF Whose
<1>7. Logged' = Logged
      BY <1>2 DEF Logged
<1>8. Provenance'
  <2>1. ASSUME NEW j \in 1..Len(H), NEW p \in 1..Len(H[j].msgs), NEW x, x = H[j].msgs[p],
               NEW l, l = H[j].key
        PROVE  Whose(x, l)'
    <3>1. CASE j \in 1..Len(sess)
          BY <2>1, <3>1, <1>0, <1>1, <1>6 DEF Provenance
    <3>2. CASE j = o
          BY <2>1, <3>2, <1>0, <1>1, <1>6 DEF Provenance
    <3> QED
        BY <3>1, <3>2, <1>1
  <2>2. ASSUME NEW l \in Keys, NEW p \in 1..Len(disk[l].msgs) PROVE Whose(disk[l].msgs[p], l)'
        BY <1>0, <1>2, <1>6 DEF Provenance
  <2>3. ASSUME NEW i \in DOMAIN history, NEW x \in history[i] PROVE Committed(x)'
        BY <1>0, <1>5 DEF Provenance
  <2>4. ASSUME NEW d \in Cmds, pc'[d] \in Asking \cup {"archive"}, NEW x \in job[d].chunk, NEW l, l = key'[d]
        PROVE  Whose(x, l)'
    <3>1. d # c
          BY <2>4, <1>3 DEF Asking
    <3> QED
        BY <2>4, <3>1, <1>0, <1>3, <1>6 DEF Provenance
  <2> QED
      BY <2>1, <2>2, <2>3, <2>4, <1>2 DEF Provenance
<1>9. Unarchived'
      BY <1>0, <1>2, <1>4, <1>7 DEF Unarchived
<1>10. ChunkInv'
  <2> SUFFICES ASSUME NEW d \in Cmds, pc'[d] \in Asking, key'[d] \notin overtaken, NEW x \in job[d].chunk
               PROVE  Follows(x, sess'[at'[d]], job[d].end)
      BY <1>2 DEF ChunkInv, Follows
  <2>1. d # c /\ pc[d] \in Asking /\ pc[d] \in Live /\ at'[d] = at[d] /\ key'[d] = key[d]
        BY <1>3 DEF Asking, Live, Running
  <2>2. at[d] \in 1..Len(sess) /\ Follows(x, sess[at[d]], job[d].end)
        BY <2>1, <1>0, HeldSession DEF ChunkInv
  <2> QED
      BY <2>1, <2>2, <1>1, <1>2
<1>11. ArchiveInv'
  <2> SUFFICES ASSUME NEW d \in Cmds, pc'[d] = "archive", NEW x \in job[d].chunk, key'[x] \notin overtaken
               PROVE  x \notin Logged /\ \A e \in Cmds \ {d} : pc'[e] = "archive" => x \notin job[e].chunk
      BY <1>2, <1>7 DEF ArchiveInv
  <2>1. d # c /\ pc[d] = "archive"
        BY <1>3
  <2>2. key'[x] = key[x]
        BY <2>1, <1>0, <1>5 DEF Provenance, Whose
  <2>3. \A e \in Cmds : pc'[e] = "archive" => pc[e] = "archive"
        BY <1>3
  <2> QED
      BY <2>1, <2>2, <2>3, <1>0 DEF ArchiveInv
<1>12. ArchivedOnce'
  <2> SUFFICES ASSUME crashes = 0, NEW i \in DOMAIN history, NEW j \in DOMAIN history, i # j,
                      NEW x \in history[i], x \in history[j]
               PROVE  key'[x] \in overtaken
      BY <1>2 DEF ArchivedOnce
  <2>1. key'[x] = key[x]
        BY <1>0, <1>5 DEF Provenance
  <2> QED
      BY <2>1 DEF Parts, ArchivedOnce
<1> QED
    BY <1>8, <1>9, <1>10, <1>11, <1>12 DEF Parts

\* "/new" moves what follows the offset to an archive task and empties the file.
LEMMA OnceNew ==
  ASSUME IInv, Parts, NEW c \in Cmds, NEW k \in Keys, NewSession(c, k)
  PROVE  Parts'
<1> DEFINE o == Handle(k)
           H == Heap(k)
           snapshot == Slice(disk[k], disk[k].lc + 1, Len(disk[k].msgs))
<1>0. /\ TypeOK /\ References /\ CacheIsSaved
      /\ Provenance /\ Unarchived /\ ChunkInv /\ ArchiveInv
      BY DEF IInv, Parts
<1>1. /\ H \in Seq(Session) /\ Len(H) \in Nat /\ Len(sess) \in Nat /\ Len(sess) <= Len(H)
      /\ \A j \in 1..Len(sess) : H[j] = sess[j]
      /\ o \in 1..Len(H) /\ H[o] = disk[k] /\ disk[k] \in Session /\ disk[k].key = k
      /\ Len(H) # Len(sess) => Len(H) = Len(sess) + 1 /\ o = Len(sess) + 1
  <2>1. Len(H) # Len(sess) => Len(H) = Len(sess) + 1 /\ o = Len(sess) + 1
    <3>1. sess \in Seq(Session) /\ disk[k] \in Session
          BY <1>0 DEF TypeOK
    <3>2. Len(Append(sess, disk[k])) = Len(sess) + 1
          BY <3>1, AppendProperties
    <3> QED
        BY <3>2 DEF Heap, Handle
  <2> QED
      BY <2>1, <1>0, OpenSession
<1>2. /\ pc[c] = "idle" /\ key' = [key EXCEPT ![c] = k]
      /\ sess' = [H EXCEPT ![o] = Empty(k)] /\ disk' = [disk EXCEPT ![k] = Empty(k)]
      /\ pc' = [pc EXCEPT ![c] = IF snapshot = {} THEN "done" ELSE "archive"]
      /\ job' = [job EXCEPT ![c].chunk = snapshot]
      /\ overtaken' = IF LockFree(k) THEN overtaken ELSE overtaken \cup {k}
      /\ UNCHANGED <<at, history, crashes>>
  <2>1. H[o] = disk[k]
        BY <1>1
  <2> QED
      BY <2>1 DEF NewSession, log
<1>3. Empty(k).key = k /\ Empty(k).msgs = <<>> /\ Empty(k).lc = 0 /\ Len(<<>>) = 0
      BY DEF Empty
<1>4. \A x \in snapshot : \E p \in (disk[k].lc + 1)..Len(disk[k].msgs) : disk[k].msgs[p] = x
      BY DEF Slice
<1> HIDE DEF o, H, snapshot
<1>5. \A x \in snapshot : /\ Whose(x, k)
                          /\ k \notin overtaken => x \notin Logged /\ ~InArchive(x)
  <2> TAKE x \in snapshot
  <2>1. disk[k].msgs \in Seq(Cmds) /\ disk[k].lc \in Nat
        BY <1>1 DEF Session
  <2>2. PICK p \in (disk[k].lc + 1)..Len(disk[k].msgs) : disk[k].msgs[p] = x
        BY <1>4
  <2>3. p \in 1..Len(disk[k].msgs)
        BY <2>1, LenProperties
  <2> QED
      BY <2>2, <2>3, <1>0 DEF Provenance, Unarchived
<1>6. /\ Len(sess') = Len(H) /\ \A j \in 1..Len(H) : sess'[j] = IF j = o THEN Empty(k) ELSE H[j]
      /\ disk'[k] = Empty(k) /\ \A l \in Keys \ {k} : disk'[l] = disk[l]
      BY <1>0, <1>1, <1>2 DEF TypeOK
<1>7. /\ pc'[c] \in {"done", "archive"} /\ job'[c].chunk = snapshot /\ key'[c] = k
      /\ \A d \in Cmds \ {c} : pc'[d] = pc[d] /\ job'[d] = job[d] /\ key'[d] = key[d]
  <2>1. job'[c].chunk = snapshot
        BY <1>0, <1>2 DEF TypeOK
  <2> QED
      BY <2>1, <1>0, <1>2 DEF TypeOK
<1>8. overtaken \subseteq overtaken' /\ (k \notin overtaken' => LockFree(k))
      BY <1>2
<1>9. \A x : InArchive(x)' => InArchive(x) \/ x \in snapshot
      BY <1>7 DEF InArchive
<1>10. \A x : Committed(x) => Committed(x)' /\ key'[x] = key[x]
       BY <1>2, <1>7 DEF Committed
<1>11. \A x, l : Whose(x, l) => Whose(x, l)'
       BY <1>10 DEF Whose
<1>12. Logged' = Logged
       BY <1>2 DEF Logged
<1>13. Provenance'
  <2>1. ASSUME NEW j \in 1..Len(H), NEW p \in 1..Len(sess'[j].msgs), NEW x, x = sess'[j].msgs[p],
               NEW l, l = sess'[j].key
        PROVE  Whose(x, l)'
    <3>1. j # o
          BY <1>3, <1>6
    <3>2. j \in 1..Len(sess)
          BY <3>1, <1>1
    <3> QED
        BY <2>1, <3>1, <3>2, <1>0, <1>1, <1>6, <1>11 DEF Provenance
  <2>2. ASSUME NEW l \in Keys, NEW p \in 1..Len(disk'[l].msgs), NEW x, x = disk'[l].msgs[p]
        PROVE Whose(x, l)'
    <3>1. l # k
          BY <1>3, <1>6
    <3> QED
        BY <2>2, <3>1, <1>0, <1>6, <1>11 DEF Provenance
  <2>3. ASSUME NEW i \in DOMAIN history, NEW x \in history[i] PROVE Committed(x)'
        BY <1>0, <1>10 DEF Provenance
  <2>4. ASSUME NEW d \in Cmds, pc'[d] \in Asking \cup {"archive"}, NEW x \in job'[d].chunk, NEW l, l = key'[d]
        PROVE  Whose(x, l)'
    <3>1. CASE d = c
          BY <2>4, <3>1, <1>5, <1>7, <1>11
    <3>2. CASE d # c
          BY <2>4, <3>2, <1>0, <1>7, <1>11 DEF Provenance
    <3> QED
        BY <3>1, <3>2
  <2> QED
      BY <2>1, <2>2, <2>3, <2>4, <1>2, <1>6 DEF Provenance
<1>14. Unarchived'
  <2> SUFFICES ASSUME NEW l \in Keys \ overtaken'
               PROVE  /\ \A p, q \in 1..Len(disk'[l].msgs) : disk'[l].msgs[p] = disk'[l].msgs[q] => p = q
                      /\ \A p \in (disk'[l].lc + 1)..Len(disk'[l].msgs) : \A x :
                           x = disk'[l].msgs[p] => x \notin Logged /\ ~InArchive(x)'
      BY <1>12 DEF Unarchived
  <2>1. CASE l = k
        BY <2>1, <1>3, <1>6
  <2>2. CASE l # k
    <3>1. l \in Keys \ overtaken /\ disk'[l] = disk[l]
          BY <2>2, <1>6, <1>8
    <3>2. disk[l].msgs \in Seq(Cmds) /\ disk[l].lc \in Nat
          BY <1>0 DEF TypeOK, Session
    <3>3. ASSUME NEW p \in (disk[l].lc + 1)..Len(disk[l].msgs), NEW x, x = disk[l].msgs[p]
          PROVE  x \notin Logged /\ ~InArchive(x)'
      <4>1. p \in 1..Len(disk[l].msgs)
            BY <3>2, LenProperties
      <4>2. Whose(x, l) /\ x \notin Logged /\ ~InArchive(x)
            BY <3>1, <3>3, <4>1, <1>0 DEF Provenance, Unarchived
      <4>3. x \notin snapshot
            BY <2>2, <4>2, <1>5 DEF Whose
      <4> QED
          BY <4>2, <4>3, <1>9
    <3> QED
        BY <3>1, <3>3, <1>0 DEF Unarchived
  <2> QED
      BY <2>1, <2>2
<1>15. ChunkInv'
  <2> SUFFICES ASSUME NEW d \in Cmds, pc'[d] \in Asking, key'[d] \notin overtaken', NEW x \in job'[d].chunk
               PROVE  Follows(x, sess'[at[d]], job'[d].end)
      BY <1>2 DEF ChunkInv, Follows
  <2>1. d # c
        BY <1>7 DEF Asking
  <2>2. pc[d] \in Asking /\ pc[d] \in Live /\ job'[d] = job[d] /\ key'[d] = key[d]
        BY <2>1, <1>7 DEF Asking, Live, Running
  <2>3. /\ at[d] \in 1..Len(sess) /\ sess[at[d]].key = key[d]
        /\ Follows(x, sess[at[d]], job[d].end)
        BY <2>2, <1>0, <1>8, HeldSession DEF ChunkInv
  <2>4. key[d] # k
        BY <2>2, <1>8 DEF LockFree
  <2>5. at[d] # o
        BY <2>3, <2>4, <1>1
  <2> QED
      BY <2>2, <2>3, <2>5, <1>1, <1>6
<1>16. ArchiveInv'
  <2> SUFFICES ASSUME NEW d \in Cmds, pc'[d] = "archive", NEW x \in job'[d].chunk, key'[x] \notin overtaken',
                      NEW e \in Cmds
               PROVE  x \notin Logged /\ (e # d /\ pc'[e] = "archive" => x \notin job'[e].chunk)
      BY <1>12 DEF ArchiveInv
  <2>1. Committed(x)
        BY <1>0, <1>5, <1>7 DEF Provenance, Whose
  <2>2. key[x] \notin overtaken
        BY <2>1, <1>8, <1>10
  <2>3. x \in snapshot => x \notin Logged /\ ~InArchive(x)
        BY <2>2, <1>5 DEF Whose
  <2>4. CASE d = c
        BY <2>3, <2>4, <1>7 DEF InArchive
  <2>5. CASE d # c
    <3>1. pc[d] = "archive" /\ x \in job[d].chunk
          BY <2>5, <1>7
    <3>2. x \notin Logged /\ (e # d /\ e # c /\ pc[e] = "archive" => x \notin job[e].chunk)
          BY <3>1, <2>2, <1>0 DEF ArchiveInv
    <3>3. x \notin snapshot
          BY <2>3, <3>1 DEF InArchive
    <3> QED
        BY <3>2, <3>3, <1>7
  <2> QED
      BY <2>4, <2>5
<1>17. ArchivedOnce'
  <2> SUFFICES ASSUME crashes = 0, NEW i \in DOMAIN history, NEW j \in DOMAIN history, i # j,
                      NEW x \in history[i], x \in history[j]
               PROVE  key'[x] \in overtaken'
      BY <1>2 DEF ArchivedOnce
  <2>1. key'[x] = key[x]
        BY <1>0, <1>10 DEF Provenance
  <2> QED
      BY <2>1, <1>8 DEF Parts, ArchivedOnce
<1> QED
    BY <1>13, <1>14, <1>15, <1>16, <1>17 DEF Parts

-------------------------------------------------------------------------------
(* The invariant *)

\* Before the first crash, one lemma per action; a crash ends what is promised.
LEMMA OnceNext ==
  ASSUME IInv, OnceInv, [Next]_vars
  PROVE  OnceInv'
<1> SUFFICES ASSUME crashes' = 0 PROVE Parts'
    BY DEF OnceInv
<1> USE DEF TypeOK, storage, log, observers
<1>0. TypeOK /\ References
      BY DEF IInv
<1>1. ASSUME Crash \/ CrashBeforeSave PROVE FALSE
  <2>1. ASSUME NEW entries, Restart(entries) PROVE crashes' = crashes + 1
        BY <2>1 DEF Restart
  <2>2. crashes' = crashes + 1
        BY <1>1, <2>1 DEF Crash, CrashBeforeSave
  <2>3. crashes \in Nat
        BY <1>0, BoundsAssumption
  <2> QED
      BY <2>2, <2>3
<1>2. crashes' = crashes
      BY <1>1 DEF Next, BeginTurn, NewSession, StartConsolidation, ConsolidateOk, ConsolidateFail,
                  CommitTurn, AbortTurn, ArchiveOk, ArchiveFail, vars
<1>3. Parts
      BY <1>2 DEF OnceInv
<1>4. CASE UNCHANGED vars
  <2>1. UNCHANGED <<sess, disk, history, overtaken, key, at, crashes, pc, job>>
        BY <1>4 DEF vars
  <2> QED
      BY <2>1, <1>3, OnceFrame DEF Committed
<1>5. ASSUME NEW c \in Cmds, NEW k \in Keys, BeginTurn(c, k) \/ NewSession(c, k) PROVE Parts'
      BY <1>3, <1>5, OnceBegin, OnceNew
<1>6. ASSUME NEW c \in Cmds, StartConsolidation(c) PROVE Parts'
  <2>1. UNCHANGED <<sess, disk, history, overtaken, key, at, crashes>>
        BY <1>6 DEF StartConsolidation
  <2>2. pc[c] \in {"wait", "bgwait"} /\ pc[c] \in Live /\ pc[c] \in Running \cup {"bgwait", "bgask"}
        BY <1>6 DEF StartConsolidation, Live, Running
  <2>3. at[c] \in 1..Len(sess) /\ sess[at[c]] \in Session /\ sess[at[c]].key = key[c]
        BY <2>2, <1>0, HeldSession
  <2>4. AskLLM(c, sess[at[c]], 1) \/ Leave(c)
        BY <1>6 DEF StartConsolidation
  <2>5. /\ \A d \in Cmds \ {c} : pc'[d] = pc[d] /\ job'[d] = job[d]
        /\ pc'[c] \in {"ask", "think", "bgask", "done"}
        /\ pc[c] \notin Running => pc'[c] \in {"bgask", "done"}
        /\ pc'[c] \in Asking => \A x \in job'[c].chunk : Follows(x, sess[at[c]], job'[c].end)
        BY <1>0, <2>2, <2>3, <2>4, RoundChunk
  <2>6. \A d \in Cmds : Committed(d) => Committed(d)'
        BY <2>2, <2>5 DEF Committed, Running
  <2>7. \A d \in Cmds : pc'[d] = "archive" => pc[d] = "archive" /\ job'[d].chunk = job[d].chunk
        BY <2>5
  <2> QED
      BY <1>3, <2>1, <2>3, <2>5, <2>6, <2>7, OnceFrame
<1>7. ASSUME NEW c \in Cmds, ConsolidateOk(c) PROVE Parts'
      BY <1>3, <1>7, OnceConsolidated DEF ConsolidateOk
<1>8. ASSUME NEW c \in Cmds, pc[c] \in Live \cup {"archive"}, pc[c] # "bgwait",
             UNCHANGED <<sess, disk, history, overtaken, key, at, crashes>>,
             \A d \in Cmds \ {c} : pc'[d] = pc[d] /\ job'[d] = job[d],
             pc'[c] \in {"think", "stopped", "done", "archive"}, pc[c] = "bgask" => pc'[c] = "done",
             pc'[c] = "archive" => pc[c] = "archive" /\ job'[c].chunk = job[c].chunk
      PROVE  Parts'
  <2>1. \A d \in Cmds : Committed(d) => Committed(d)'
        BY <1>8 DEF Committed, Live, Running
  <2>2. \A d \in Cmds : pc'[d] = "archive" => pc[d] = "archive" /\ job'[d].chunk = job[d].chunk
        BY <1>8
  <2>3. \A d \in Cmds : pc'[d] \in Asking => pc[d] \in Asking /\ job'[d] = job[d]
        BY <1>8 DEF Asking
  <2> QED
      BY <1>3, <1>8, <2>1, <2>2, <2>3, OnceFrame
<1>9. ASSUME NEW c \in Cmds, ConsolidateFail(c) PROVE Parts'
  <2>1. pc[c] \in Asking /\ UNCHANGED <<key, at, crashes, overtaken>>
        BY <1>9 DEF ConsolidateFail
  <2>2. CASE Consolidated(c)
        BY <1>3, <2>1, <2>2, OnceConsolidated
  <2>3. CASE Leave(c) /\ UNCHANGED <<storage, history>>
    <3>1. /\ \A d \in Cmds \ {c} : pc'[d] = pc[d] /\ job'[d] = job[d]
          /\ pc'[c] = IF pc[c] \in Running THEN "think" ELSE "done"
          BY <1>0, <2>3 DEF Leave
    <3>2. pc[c] \in Live /\ pc[c] # "bgwait" /\ (pc[c] = "bgask" => pc'[c] = "done")
          BY <2>1, <3>1 DEF Asking, Live, Running
    <3> QED
        BY <1>8, <2>1, <2>3, <3>1, <3>2
  <2> QED
      BY <1>9, <2>2, <2>3 DEF ConsolidateFail
<1>10. ASSUME NEW c \in Cmds, CommitTurn(c) PROVE Parts'
       BY <1>3, <1>10, OnceCommit
<1>11. ASSUME NEW c \in Cmds, AbortTurn(c) PROVE Parts'
  <2>1. /\ UNCHANGED <<sess, disk, history, overtaken, key, at, crashes>>
        /\ pc[c] \in Live /\ pc[c] # "bgwait" /\ pc[c] # "bgask" /\ pc'[c] = "stopped"
        /\ \A d \in Cmds \ {c} : pc'[d] = pc[d] /\ job'[d] = job[d]
        BY <1>0, <1>11 DEF AbortTurn, Live, Running
  <2> QED
      BY <1>8, <2>1
<1>12. ASSUME NEW c \in Cmds, ArchiveOk(c) PROVE Parts'
       BY <1>3, <1>12, OnceArchived DEF ArchiveOk
<1>13. ASSUME NEW c \in Cmds, ArchiveFail(c) PROVE Parts'
  <2>1. pc[c] = "archive" /\ UNCHANGED <<storage, key, at, crashes, overtaken>>
        BY <1>13 DEF ArchiveFail
  <2>2. CASE Archived(c)
        BY <1>3, <2>1, <2>2, OnceArchived
  <2>3. CASE UNCHANGED history /\ job' = [job EXCEPT ![c].n = @ + 1] /\ UNCHANGED pc
    <3>1. /\ \A d \in Cmds \ {c} : pc'[d] = pc[d] /\ job'[d] = job[d]
          /\ pc'[c] = "archive" /\ job'[c].chunk = job[c].chunk
          BY <1>0, <2>1, <2>3
    <3> QED
        BY <1>8, <2>1, <2>3, <3>1
  <2>4. CASE UNCHANGED history /\ pc' = [pc EXCEPT ![c] = "done"] /\ job' = [job EXCEPT ![c] = NoJob]
    <3>1. /\ \A d \in Cmds \ {c} : pc'[d] = pc[d] /\ job'[d] = job[d]
          /\ pc'[c] = "done"
          BY <1>0, <2>1, <2>4
    <3> QED
        BY <1>8, <2>1, <2>4, <3>1
  <2> QED
      BY <1>13, <2>2, <2>3, <2>4 DEF ArchiveFail
<1> QED
    BY <1>1, <1>4, <1>5, <1>6, <1>7, <1>9, <1>10, <1>11, <1>12, <1>13 DEF Next

\* No turn is archived twice, whatever the interleaving of turns, consolidations,
\* "/new" and their failures, before the process first dies (memory.py).
THEOREM ArchivesOnce == Spec => []ArchivedOnce
<1>1. Init => OnceInv
  <2> SUFFICES ASSUME Init PROVE Parts
      BY DEF OnceInv
  <2> USE DEF Init
  <2>1. /\ Len(sess) = 0 /\ DOMAIN history = {} /\ Logged = {}
        /\ \A k \in Keys : Len(disk[k].msgs) = 0 /\ disk[k].lc = 0
        /\ \A d \in Cmds : pc[d] = "idle"
        BY DEF Empty, Logged
  <2>2. \A d \in Cmds : pc[d] \notin Asking /\ pc[d] # "archive"
        BY <2>1 DEF Asking
  <2> QED
      BY <2>1, <2>2 DEF Parts, Provenance, Unarchived, ChunkInv, ArchiveInv, ArchivedOnce
<1>2. IInv /\ Archivers /\ OnceInv /\ [Next]_vars => OnceInv'
      BY OnceNext
<1>3. OnceInv => ArchivedOnce
      BY DEF OnceInv, Parts, ArchivedOnce
<1> QED
    BY <1>1, <1>2, <1>3, Invariance, PTL DEF Spec
===============================================================================

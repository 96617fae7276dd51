------------------------ MODULE AgentDispatch_proofs --------------------------
(***************************************************************************)
(* The safety properties of AgentDispatch for any sets of messages, stops, *)
(* direct turns, subagents and chats, and any number of restarts.          *)
(*                                                                         *)
(* The order of the answers is a property of two queues: what waits in the *)
(* bus and at the lock is what arrived and is not finished, in the order   *)
(* in which it arrived.  The tools, the subagents and the tasks of a       *)
(* session each have an invariant of their own.                            *)
(***************************************************************************)
EXTENDS AgentDispatch, FiniteSetTheorems, TLAPS

Served == Msgs \cup Subs
AtLock == {"wait", "think"}

\* x arrived before y.
Earlier(x, y) ==
  \E i, j \in DOMAIN arrived : i < j /\ arrived[i] = x /\ arrived[j] = y

\* Everything arrives once, and has been idle until then.
ArrivedInv ==
  /\ \A i, j \in DOMAIN arrived : arrived[i] = arrived[j] => i = j
  /\ \A x \in Served : pc[x] # "idle" <=> \E i \in DOMAIN arrived : arrived[i] = x

\* The queue of the bus continues the one at the lock, both in the order of arrival.
LineInv ==
  /\ \A i, j \in DOMAIN lockq : i < j => Earlier(lockq[i], lockq[j])
  /\ \A i, j \in DOMAIN inbound :
       i < j /\ inbound[i] \in Served /\ inbound[j] \in Served => Earlier(inbound[i], inbound[j])
  /\ \A i \in DOMAIN lockq, j \in DOMAIN inbound :
       inbound[j] \in Served => Earlier(lockq[i], inbound[j])

\* Who is queued is in the bus; who waits or works is at the lock, who works is first.
PlaceInv ==
  /\ \A i \in DOMAIN inbound : inbound[i] \in Served => pc[inbound[i]] = "queued"
  /\ \A x \in Served : pc[x] = "queued" => \E i \in DOMAIN inbound : inbound[i] = x
  /\ \A x \in Served : pc[x] \in AtLock <=> \E i \in DOMAIN lockq : lockq[i] = x
  /\ \A x \in Served : pc[x] = "think" => 1 \in DOMAIN lockq /\ lockq[1] = x
  /\ \A d \in Directs : pc[d] \notin {"queued", "wait"}

\* What arrived and is not finished stands in the bus or at the lock, in its order.
QueueInv == ArrivedInv /\ LineInv /\ PlaceInv /\ InOrder

\* Subagents, their files, and the chat they were spawned for.
SubInv ==
  \A s \in Subs :
    /\ sub[s] # "none" => origin[s] \in Chats /\ parent[s] \in Turns
    /\ sub[s] = "none" <=> telemetry[s] = "none"
    /\ telemetry[s] = "ended" <=> sub[s] = "ended"
    /\ telemetry[s] = "ended" <=> pc[s] # "idle"
    /\ telemetry[s] = "running" => sub[s] \in Alive \cup {"lost", "stillborn"}
    /\ sub[s] # "none" /\ parent[s] \in Msgs \ overlapped => origin[s] = Chat[parent[s]]

\* A turn that is at work alone has the tools for itself.
ToolInv ==
  /\ \A t, u \in Turns : t # u /\ pc[t] = "think" /\ pc[u] = "think" => t \in overlapped
  /\ \A t \in Turns : pc[t] = "think" =>
       /\ ctx \in Chats
       /\ t \notin overlapped => ctx = Home(t) /\ (t \in Msgs /\ sent => t \in spoke)
  /\ AnsweredAtHome

\* The tasks a "/stop" must find, and has found.
StopInv ==
  /\ \A t \in Served : pc[t] \in AtLock => t \in victims \/ t \in active[KeyOf(t)]
  /\ \A k \in Keys : \A t \in active[k] : pc[t] \in AtLock /\ KeyOf(t) = k
  /\ \A t \in victims : pc[t] \in AtLock
  /\ stopping = None => victims = {}
  /\ stopping # None =>
       \A t \in Served : pc[t] \in AtLock /\ KeyOf(t) = Key[stopping] => t \in victims

IInv == TypeOK /\ QueueInv /\ SubInv /\ ToolInv /\ StopInv

-------------------------------------------------------------------------------
(* Types *)

\* The sets of turns and commands, once for all.
LEMMA Ids ==
  /\ Served \subseteq Turns /\ Msgs \subseteq Served /\ Subs \subseteq Served
  /\ Served \cap Stops = {} /\ Served \cap Directs = {} /\ Turns \cap Stops = {}
  /\ Turns = Served \cup Directs /\ Queueable = Served \cup Stops
  /\ None \notin Turns /\ None \notin Stops /\ None \notin Chats
  BY IdsAssumption DEF Served, Turns, Queueable

\* Who leaves the lock's queue leaves the others in their order.
LEMMA LeftIs ==
  ASSUME NEW S, lockq \in Seq(S), NEW t
  PROVE  /\ Left(t) \in Seq(S)
         /\ \/ Left(t) = lockq /\ \A i \in DOMAIN lockq : lockq[i] # t
            \/ \E i \in DOMAIN lockq :
                 /\ lockq[i] = t
                 /\ DOMAIN Left(t) = 1..(Len(lockq) - 1)
                 /\ \A p \in DOMAIN Left(t) : Left(t)[p] = IF p < i THEN lockq[p] ELSE lockq[p + 1]
<1>1. CASE \A i \in DOMAIN lockq : lockq[i] # t
      BY <1>1 DEF Left
<1>2. CASE \E i \in DOMAIN lockq : lockq[i] = t
  <2> DEFINE i == CHOOSE p \in DOMAIN lockq : lockq[p] = t
             a == SubSeq(lockq, 1, i - 1)
             b == SubSeq(lockq, i + 1, Len(lockq))
  <2>1. i \in DOMAIN lockq /\ lockq[i] = t
        BY <1>2
  <2>2. Left(t) = a \o b
        BY <1>2 DEF Left
  <2> HIDE DEF i
  <2>3. i \in 1..Len(lockq) /\ Len(lockq) \in Nat
        BY <2>1
  <2>4. a \in Seq(S) /\ Len(a) = i - 1 /\ \A p \in 1..(i - 1) : a[p] = lockq[p]
        BY <2>3
  <2>5. b \in Seq(S) /\ Len(b) = Len(lockq) - i /\ \A p \in 1..(Len(lockq) - i) : b[p] = lockq[i + p]
        BY <2>3
  <2> HIDE DEF a, b
  <2>6. a \o b \in Seq(S) /\ Len(a \o b) = Len(lockq) - 1
    <3>1. a \o b \in Seq(S) /\ Len(a \o b) = Len(a) + Len(b)
          BY <2>4, <2>5
    <3>2. Len(a) + Len(b) = Len(lockq) - 1
          BY <2>3, <2>4, <2>5
    <3> QED
        BY <3>1, <3>2
  <2>7. DOMAIN (a \o b) = 1..(Len(lockq) - 1)
        BY <2>6
  <2>8. \A p \in 1..(Len(lockq) - 1) : (a \o b)[p] = IF p < i THEN lockq[p] ELSE lockq[p + 1]
    <3> SUFFICES ASSUME NEW p \in 1..(Len(lockq) - 1)
                 PROVE  (a \o b)[p] = IF p < i THEN lockq[p] ELSE lockq[p + 1]
        OBVIOUS
    <3>1. (a \o b)[p] = IF p <= Len(a) THEN a[p] ELSE b[p - Len(a)]
          BY <2>3, <2>4, <2>5
    <3>2. CASE p < i
          BY <2>3, <2>4, <3>1, <3>2
    <3>3. CASE ~(p < i)
      <4>1. p - Len(a) \in 1..(Len(lockq) - i) /\ i + (p - Len(a)) = p + 1 /\ ~(p <= Len(a))
            BY <2>3, <2>4, <3>3
      <4> QED
          BY <2>5, <3>1, <3>3, <4>1
    <3> QED
        BY <3>2, <3>3
  <2> QED
      BY <2>1, <2>2, <2>6, <2>7, <2>8
<1> QED
    BY <1>1, <1>2

\* The initial state has the types.
LEMMA InitType == Init => TypeOK
<1> SUFFICES ASSUME Init PROVE TypeOK
    OBVIOUS
<1>1. restarts \in 0..MaxRestarts
      BY RoutesAssumption DEF Init
<1>2. /\ inbound \in Seq(Queueable) /\ arrived \in Seq(Msgs \cup Subs) /\ lockq \in Seq(Msgs \cup Subs)
      BY DEF Init
<1>3. /\ pc \in [Turns \cup Stops -> {"idle", "queued", "wait", "think"} \cup Finished]
      /\ active \in [Keys -> SUBSET (Msgs \cup Subs)]
      BY DEF Init
<1>4. /\ sub \in [Subs -> Alive \cup {"none", "ended", "cancelled", "stillborn", "lost"}]
      /\ origin \in [Subs -> Chats \cup {None}] /\ parent \in [Subs -> Turns \cup {None}]
      /\ telemetry \in [Subs -> {"none", "running", "ended", "cancelled"}]
      BY DEF Init
<1> QED
    BY <1>1, <1>2, <1>3, <1>4 DEF Init, TypeOK

\* Every step keeps the types.
LEMMA StepType == TypeOK /\ [Next]_vars => TypeOK'
<1> SUFFICES ASSUME TypeOK, [Next]_vars PROVE TypeOK'
    OBVIOUS
<1> USE Ids DEF TypeOK, Served
<1>1. ASSUME NEW m \in Queueable, Publish(m)
      PROVE  /\ inbound' \in Seq(Queueable)
             /\ m \in Served => arrived' \in Seq(Msgs \cup Subs)
             /\ m \in Stops => arrived' \in Seq(Msgs \cup Subs)
             /\ pc' \in [Turns \cup Stops -> {"idle", "queued", "wait", "think"} \cup Finished]
      BY <1>1 DEF Publish
<1>2. ASSUME NEW t \in Turns, NEW how \in Finished, EndTask(t, how)
      PROVE  /\ lockq' \in Seq(Msgs \cup Subs)
             /\ active' \in [Keys -> SUBSET (Msgs \cup Subs)]
             /\ pc' \in [Turns \cup Stops -> {"idle", "queued", "wait", "think"} \cup Finished]
      BY <1>2, LeftIs DEF EndTask
<1>3. ASSUME NEW t \in Turns PROVE Home(t) \in Chats \cup {None}
      BY <1>3, RoutesAssumption DEF Home, Turns
<1>4. ASSUME NEW t \in Turns, TurnContext(t)
      PROVE  ctx' \in Chats \cup {None} /\ sent' \in BOOLEAN /\ overlapped' \in SUBSET Turns
      BY <1>3, <1>4 DEF TurnContext, Overlap
<1>5. ASSUME NEW t \in Turns, NEW to, PublishOutbound(t, to)
      PROVE  spoke' \in SUBSET Msgs /\ strayed' \in SUBSET Turns
      BY <1>5 DEF PublishOutbound
<1>6. ASSUME NEW k, CancelSubs(k)
      PROVE  /\ sub' \in [Subs -> Alive \cup {"none", "ended", "cancelled", "stillborn", "lost"}]
             /\ telemetry' \in [Subs -> {"none", "running", "ended", "cancelled"}]
             /\ UNCHANGED <<origin, parent>>
      BY <1>6 DEF CancelSubs
<1>7. ASSUME NEW m \in Msgs \cup Stops, Receive(m) PROVE TypeOK'
      BY <1>1, <1>7 DEF Receive, loop, tools, agents, out
<1>8. inbound # <<>> => Head(inbound) \in Queueable /\ Tail(inbound) \in Seq(Queueable)
      OBVIOUS
<1>9. CASE Dispatch
  <2>1. Head(inbound) \in Served /\ Tail(inbound) \in Seq(Queueable)
        BY <1>8, <1>9 DEF Dispatch
  <2> DEFINE m == Head(inbound)
  <2>2. pc' = [pc EXCEPT ![m] = "wait"] /\ lockq' = Append(lockq, m)
        BY <1>9 DEF Dispatch
  <2>3. pc' \in [Turns \cup Stops -> {"idle", "queued", "wait", "think"} \cup Finished]
        BY <2>2
  <2>4. active' = [active EXCEPT ![KeyOf(m)] = @ \cup {m}]
        BY <1>9 DEF Dispatch
  <2> HIDE DEF m
  <2>5. m \in Msgs \cup Subs
        BY <2>1 DEF m
  <2>6. lockq' \in Seq(Msgs \cup Subs)
        BY <2>2, <2>5
  <2> DEFINE k == KeyOf(m)
  <2>7. active' = [active EXCEPT ![k] = active[k] \cup {m}]
        BY <2>4
  <2> HIDE DEF k
  <2>8. active' = [x \in Keys |-> IF x = k THEN active[x] \cup {m} ELSE active[x]]
        BY <2>7
  <2>9. \A x \in Keys : active[x] \cup {m} \in SUBSET (Msgs \cup Subs)
        BY <2>5
  <2>10. active' \in [Keys -> SUBSET (Msgs \cup Subs)]
        BY <2>8, <2>9
  <2> QED
      BY <1>9, <2>1, <2>3, <2>6, <2>10 DEF Dispatch, loop, tools, agents, out
<1>10. CASE HandleStop
  <2>1. /\ Head(inbound) \in Stops /\ Tail(inbound) \in Seq(Queueable)
        /\ Key[Head(inbound)] \in Keys
        BY <1>8, <1>10, RoutesAssumption DEF HandleStop
  <2>2. active[Key[Head(inbound)]] \subseteq Msgs \cup Subs
        BY <2>1
  <2>3. CASE StopTargets(Key[Head(inbound)]) # {}
        BY <1>10, <2>1, <2>2, <2>3 DEF HandleStop, StopTargets, tools, agents, out
  <2>4. CASE StopTargets(Key[Head(inbound)]) = {}
    <3>1. CancelSubs(Key[Head(inbound)]) /\ pc' = [pc EXCEPT ![Head(inbound)] = "done"] /\ stopping' = stopping
          BY <1>10, <2>4 DEF HandleStop
    <3>2. pc' \in [Turns \cup Stops -> {"idle", "queued", "wait", "think"} \cup Finished]
          BY <2>1, <3>1 DEF Finished
    <3> QED
        BY <1>6, <1>10, <2>1, <2>2, <3>1, <3>2 DEF HandleStop, StopTargets, tools, out
  <2> QED
      BY <2>3, <2>4
<1>11. CASE FinishStop
  <2>1. pc' \in [Turns \cup Stops -> {"idle", "queued", "wait", "think"} \cup Finished]
        BY <1>11 DEF FinishStop, Finished
  <2> QED
      BY <1>6, <1>11, <2>1 DEF FinishStop, queue, tools, out
<1>12. CASE Restart
  <2>1. pc' \in [Turns \cup Stops -> {"idle", "queued", "wait", "think"} \cup Finished]
        BY <1>12 DEF Restart, Finished
  <2>2. sub' \in [Subs -> Alive \cup {"none", "ended", "cancelled", "stillborn", "lost"}]
        BY <1>12 DEF Restart
  <2>3. restarts' \in 0..MaxRestarts
        BY <1>12, RoutesAssumption DEF Restart
  <2>4. /\ inbound' \in Seq(Queueable) /\ lockq' \in Seq(Msgs \cup Subs)
        BY <1>12 DEF Restart
  <2>6. active' \in [Keys -> SUBSET (Msgs \cup Subs)]
        BY <1>12 DEF Restart
  <2>7. sent' \in BOOLEAN
        BY <1>12 DEF Restart
  <2>5. /\ stopping' = None /\ victims' = {} /\ ctx' = None
        /\ UNCHANGED <<arrived, overlapped, origin, telemetry, parent, spoke, strayed>>
        BY <1>12 DEF Restart, out
  <2> QED
      BY <2>1, <2>2, <2>3, <2>4, <2>5, <2>6, <2>7
<1>13. ASSUME NEW t \in Turns, BeginTurn(t) PROVE TypeOK'
  <2>1. pc' \in [Turns \cup Stops -> {"idle", "queued", "wait", "think"} \cup Finished]
        BY <1>13 DEF BeginTurn
  <2> QED
      BY <1>4, <1>13, <2>1 DEF BeginTurn, queue, loop, agents, out
<1>14. ASSUME NEW t \in Turns, BeginDirect(t) PROVE TypeOK'
  <2>1. pc' \in [Turns \cup Stops -> {"idle", "queued", "wait", "think"} \cup Finished]
        BY <1>14 DEF BeginDirect
  <2> QED
      BY <1>4, <1>14, <2>1 DEF BeginDirect, queue, loop, agents, out
<1>15. ASSUME NEW t \in Turns, CallMessage(t) PROVE TypeOK'
      BY <1>5, <1>15 DEF CallMessage, queue, loop, agents
<1>16. ASSUME NEW t \in Turns, EndTurn(t) PROVE TypeOK'
  <2>1. EndTask(t, "done") /\ "done" \in Finished
        BY <1>16 DEF EndTurn, Finished
  <2>2. UNCHANGED out \/ PublishOutbound(t, Home(t))
        BY <1>16, IdsAssumption DEF EndTurn, Turns
  <2>3. spoke' \in SUBSET Msgs /\ strayed' \in SUBSET Turns
        BY <1>5, <2>2 DEF out
  <2> QED
      BY <1>2, <1>16, <2>1, <2>3 DEF EndTurn, queue, loop, tools, agents
<1>17. ASSUME NEW t \in Turns, FailTurn(t) PROVE TypeOK'
  <2>1. EndTask(t, "failed") /\ "failed" \in Finished
        BY <1>17 DEF FailTurn, Finished
  <2>2. spoke' \in SUBSET Msgs /\ strayed' \in SUBSET Turns
        BY <1>5, <1>17 DEF FailTurn, out
  <2> QED
      BY <1>2, <1>17, <2>1, <2>2 DEF FailTurn, queue, loop, tools, agents
<1>18. ASSUME NEW t \in Turns, CancelTurn(t) PROVE TypeOK'
  <2>1. EndTask(t, "cancelled") /\ "cancelled" \in Finished
        BY <1>18 DEF CancelTurn, Finished
  <2> QED
      BY <1>2, <1>18, <2>1 DEF CancelTurn, queue, tools, agents, out
<1>19. ASSUME NEW t \in Turns, NEW s \in Subs, CallSpawn(t, s) PROVE TypeOK'
  <2>1. sub' \in [Subs -> Alive \cup {"none", "ended", "cancelled", "stillborn", "lost"}]
        BY <1>19 DEF CallSpawn, Alive
  <2> QED
      BY <1>19, <2>1 DEF CallSpawn, queue, loop, tools, out
<1>20. ASSUME NEW s \in Subs, StartSub(s) PROVE TypeOK'
  <2>1. sub' \in [Subs -> Alive \cup {"none", "ended", "cancelled", "stillborn", "lost"}]
        BY <1>20 DEF StartSub, Alive
  <2> QED
      BY <1>20, <2>1 DEF StartSub, queue, loop, tools, out
<1>21. ASSUME NEW s \in Subs, EndSub(s) PROVE TypeOK'
  <2>1. Publish(s) /\ s \in Queueable /\ s \in Served
        BY <1>21 DEF EndSub
  <2> QED
      BY <1>1, <1>21, <2>1 DEF EndSub, loop, tools, out
<1>22. CASE UNCHANGED vars
      BY <1>22 DEF vars, queue, loop, tools, agents, out
<1> QED
    BY <1>7, <1>9, <1>10, <1>11, <1>12, <1>13, <1>14, <1>15, <1>16, <1>17, <1>18, <1>19, <1>20,
       <1>21, <1>22 DEF Next

-------------------------------------------------------------------------------
(* The order of the answers *)

\* What Append does, seen from the positions.
LEMMA AppendIs ==
  ASSUME NEW S, NEW q \in Seq(S), NEW e \in S
  PROVE  /\ DOMAIN Append(q, e) = DOMAIN q \cup {Len(q) + 1}
         /\ \A i \in DOMAIN q : i \in Nat /\ i < Len(q) + 1 /\ Append(q, e)[i] = q[i]
         /\ Append(q, e)[Len(q) + 1] = e /\ Len(q) + 1 \in Nat \ DOMAIN q
  OBVIOUS

\* What Tail does, seen from the positions.
LEMMA TailIs ==
  ASSUME NEW S, NEW q \in Seq(S), q # <<>>
  PROVE  /\ 1 \in DOMAIN q /\ Head(q) = q[1] /\ q[1] \in S
         /\ \A i \in DOMAIN Tail(q) : i \in Nat /\ i + 1 \in DOMAIN q /\ 1 < i + 1 /\ Tail(q)[i] = q[i + 1]
         /\ \A i \in DOMAIN q : i # 1 => i - 1 \in DOMAIN Tail(q) /\ Tail(q)[i - 1] = q[i]
  OBVIOUS

\* The arrivals are linearly ordered.
LEMMA EarlierIs ==
  ASSUME TypeOK, ArrivedInv
  PROVE  /\ \A x, y : Earlier(x, y) => ~Earlier(y, x)
         /\ \A i, j \in DOMAIN arrived : i < j => Earlier(arrived[i], arrived[j])
         /\ \A x, y : Earlier(x, y) => x # y
<1>1. \A i \in DOMAIN arrived : i \in Nat
      BY DEF TypeOK
<1>2. ASSUME NEW x, NEW y, Earlier(x, y), Earlier(y, x) PROVE FALSE
  <2>1. PICK i \in DOMAIN arrived, j \in DOMAIN arrived : i < j /\ arrived[i] = x /\ arrived[j] = y
        BY <1>2 DEF Earlier
  <2>2. PICK k \in DOMAIN arrived, l \in DOMAIN arrived : k < l /\ arrived[k] = y /\ arrived[l] = x
        BY <1>2 DEF Earlier
  <2>3. j = k /\ i = l
        BY <2>1, <2>2 DEF ArrivedInv
  <2> QED
      BY <1>1, <2>1, <2>2, <2>3
<1>3. \A x, y : Earlier(x, y) => ~Earlier(y, x)
      BY <1>2
<1>4. \A i, j \in DOMAIN arrived : i < j => Earlier(arrived[i], arrived[j])
      BY DEF Earlier
<1> QED
    BY <1>3, <1>4

\* Something new arrives at the bus.
LEMMA QueuePublish ==
  ASSUME TypeOK, TypeOK', QueueInv, NEW m \in Queueable, pc[m] = "idle", Publish(m), lockq' = lockq
  PROVE  QueueInv'
<1> DEFINE n == Len(inbound) + 1
           a == Len(arrived) + 1
<1>1. /\ inbound' = Append(inbound, m)
      /\ m \in Served => arrived' = Append(arrived, m)
      /\ m \in Stops => arrived' = arrived
      /\ pc' = [pc EXCEPT ![m] = "queued"]
      BY Ids DEF Publish
<1>2. /\ inbound \in Seq(Queueable) /\ arrived \in Seq(Served) /\ lockq \in Seq(Served)
      /\ pc \in [Turns \cup Stops -> {"idle", "queued", "wait", "think"} \cup Finished]
      BY DEF TypeOK, Served
<1>3. /\ DOMAIN inbound' = DOMAIN inbound \cup {n}
      /\ \A i \in DOMAIN inbound : i \in Nat /\ i < n /\ inbound'[i] = inbound[i]
      /\ inbound'[n] = m /\ n \in Nat \ DOMAIN inbound
      BY <1>1, <1>2, AppendIs
<1>4. m \in Turns \cup Stops /\ (m \in Served \/ m \in Stops)
      BY Ids
<1>5. pc'[m] = "queued" /\ \A x \in Turns \cup Stops : x # m => pc'[x] = pc[x]
      BY <1>1, <1>2, <1>4
<1>6. /\ DOMAIN arrived \subseteq DOMAIN arrived'
      /\ \A i \in DOMAIN arrived : i \in Nat /\ arrived'[i] = arrived[i] /\ arrived[i] \in Served
      /\ m \in Stops => DOMAIN arrived' = DOMAIN arrived
      /\ m \in Served => /\ DOMAIN arrived' = DOMAIN arrived \cup {a}
                         /\ arrived'[a] = m /\ \A i \in DOMAIN arrived : i < a
                         /\ a \in Nat \ DOMAIN arrived
  <2>1. CASE m \in Served
        BY <1>1, <1>2, <2>1, AppendIs, Ids
  <2>2. CASE m \in Stops
        BY <1>1, <1>2, <2>2, Ids
  <2> QED
      BY <1>4, <2>1, <2>2
<1> HIDE DEF n, a
<1>7. m \in Served => \A i \in DOMAIN arrived : arrived[i] # m
      BY DEF QueueInv, ArrivedInv
<1>8. \A x, y : Earlier(x, y) => Earlier(x, y)'
      BY <1>6 DEF Earlier
<1>9. ASSUME NEW x \in Served, pc[x] # "idle", m \in Served PROVE Earlier(x, m)'
  <2>1. PICK i \in DOMAIN arrived : arrived[i] = x
        BY <1>9 DEF QueueInv, ArrivedInv
  <2> QED
      BY <1>6, <1>9, <2>1 DEF Earlier
<1>10. ArrivedInv'
  <2>1. ASSUME NEW i \in DOMAIN arrived', NEW j \in DOMAIN arrived', arrived'[i] = arrived'[j] PROVE i = j
        BY <1>4, <1>6, <1>7, <2>1 DEF QueueInv, ArrivedInv
  <2>2. ASSUME NEW x \in Served PROVE (pc'[x] # "idle" <=> \E i \in DOMAIN arrived' : arrived'[i] = x)
    <3>1. x \in Turns \cup Stops
          BY Ids
    <3>2. CASE x = m
          BY <1>5, <1>6, <3>2
    <3>3. CASE x # m
          BY <1>4, <1>5, <1>6, <3>1, <3>3 DEF QueueInv, ArrivedInv
    <3> QED
        BY <3>2, <3>3
  <2> QED
      BY <2>1, <2>2 DEF ArrivedInv
<1>11. ASSUME NEW i \in DOMAIN inbound, inbound[i] \in Served
       PROVE  pc[inbound[i]] = "queued" /\ inbound[i] # m
       BY <1>11 DEF QueueInv, PlaceInv
<1>12. ASSUME NEW i \in DOMAIN lockq
       PROVE  lockq[i] \in Served /\ pc[lockq[i]] # "idle"
  <2>1. lockq[i] \in Served
        BY <1>2
  <2>2. pc[lockq[i]] \in AtLock
        BY <2>1 DEF QueueInv, PlaceInv
  <2> QED
      BY <2>1, <2>2 DEF AtLock
<1>13. LineInv'
  <2>1. ASSUME NEW i \in DOMAIN lockq', NEW j \in DOMAIN lockq', i < j
        PROVE  Earlier(lockq[i], lockq[j])'
        BY <1>8, <2>1 DEF QueueInv, LineInv
  <2>2. ASSUME NEW i \in DOMAIN inbound', NEW j \in DOMAIN inbound', i < j,
               inbound'[i] \in Served, inbound'[j] \in Served
        PROVE  Earlier(inbound[i], inbound[j])'
    <3>1. i \in DOMAIN inbound /\ inbound'[i] = inbound[i]
          BY <1>3, <2>2
    <3>2. CASE j \in DOMAIN inbound
      <4>1. Earlier(inbound[i], inbound[j])
            BY <1>3, <2>2, <3>1, <3>2 DEF QueueInv, LineInv
      <4>2. inbound'[j] = inbound[j]
            BY <1>3, <3>2
      <4> DEFINE x == inbound[i]
                 y == inbound[j]
      <4>3. inbound'[i] = x /\ inbound'[j] = y /\ Earlier(x, y)
            BY <3>1, <4>1, <4>2
      <4> HIDE DEF x, y
      <4>4. \E u, v : inbound'[i] = u /\ inbound'[j] = v /\ Earlier(u, v)
            BY <4>3
      <4> QED
          BY <1>8, <4>4
    <3>3. CASE j = n
      <4>1. inbound'[j] = m /\ m \in Served /\ pc[inbound[i]] # "idle" /\ inbound[i] \in Served
            BY <1>3, <1>11, <2>2, <3>1, <3>3
      <4> QED
          BY <1>9, <3>1, <4>1
    <3> QED
        BY <1>3, <3>2, <3>3
  <2>3. ASSUME NEW i \in DOMAIN lockq', NEW j \in DOMAIN inbound', inbound'[j] \in Served
        PROVE  Earlier(lockq[i], inbound[j])'
    <3>1. lockq'[i] = lockq[i] /\ lockq[i] \in Served /\ pc[lockq[i]] # "idle"
          BY <1>12
    <3>2. CASE j = n
          BY <1>3, <1>9, <2>3, <3>1, <3>2
    <3>3. CASE j \in DOMAIN inbound
      <4>1. inbound'[j] = inbound[j] /\ Earlier(lockq[i], inbound[j])
            BY <1>3, <2>3, <3>3 DEF QueueInv, LineInv
      <4> QED
          BY <1>8, <3>1, <4>1
    <3> QED
        BY <1>3, <3>2, <3>3
  <2> QED
      BY <2>1, <2>2, <2>3 DEF LineInv
<1>14. PlaceInv'
  <2>1. ASSUME NEW i \in DOMAIN inbound', inbound'[i] \in Served PROVE pc'[inbound'[i]] = "queued"
        BY <1>3, <1>5, <1>11, <2>1, Ids
  <2>2. ASSUME NEW x \in Served, pc'[x] = "queued" PROVE \E i \in DOMAIN inbound' : inbound'[i] = x
    <3>1. CASE x = m
          BY <1>3, <3>1
    <3>2. CASE x # m
      <4>1. pc[x] = "queued"
            BY <1>5, <2>2, <3>2, Ids
      <4>2. PICK i \in DOMAIN inbound : inbound[i] = x
            BY <4>1 DEF QueueInv, PlaceInv
      <4> QED
          BY <1>3, <4>2
    <3> QED
        BY <3>1, <3>2
  <2>3. ASSUME NEW x \in Served
        PROVE  /\ pc'[x] \in AtLock <=> pc[x] \in AtLock
               /\ pc'[x] = "think" => pc[x] = "think"
        BY <1>5, Ids DEF AtLock
  <2>4. ASSUME NEW d \in Directs PROVE pc'[d] = pc[d]
        BY <1>4, <1>5, Ids
  <2> QED
      BY <2>1, <2>2, <2>3, <2>4 DEF QueueInv, PlaceInv
<1>15. InOrder'
  <2> SUFFICES ASSUME NEW i \in DOMAIN arrived', NEW j \in DOMAIN arrived', i < j,
                      pc'[arrived'[j]] \in {"think", "done", "failed"}
               PROVE  pc'[arrived'[i]] \in Finished
      BY DEF InOrder
  <2>1. arrived'[j] # m
        BY <1>5
  <2>2. i \in DOMAIN arrived /\ j \in DOMAIN arrived /\ arrived'[i] = arrived[i] /\ arrived'[j] = arrived[j]
        BY <1>4, <1>6, <2>1
  <2>3. arrived[i] \in Turns /\ arrived[j] \in Turns /\ arrived[i] # m
        BY <1>4, <1>6, <1>7, <2>2, Ids
  <2>4. pc'[arrived[i]] = pc[arrived[i]] /\ pc'[arrived[j]] = pc[arrived[j]]
        BY <1>5, <2>1, <2>2, <2>3
  <2> QED
      BY <2>2, <2>4 DEF QueueInv, InOrder
<1> QED
    BY <1>10, <1>13, <1>14, <1>15 DEF QueueInv

\* A message leaves the bus for the lock, whose queue it ends.
LEMMA QueueDispatch ==
  ASSUME TypeOK, TypeOK', QueueInv, Dispatch
  PROVE  QueueInv'
<1> DEFINE m == Head(inbound)
           n == Len(lockq) + 1
<1>1. /\ inbound # <<>> /\ m \in Served /\ inbound' = Tail(inbound)
      /\ pc' = [pc EXCEPT ![m] = "wait"] /\ lockq' = Append(lockq, m) /\ arrived' = arrived
  <2>1. inbound # <<>> => Head(inbound) \in Queueable
        BY DEF TypeOK
  <2> QED
      BY <2>1, Ids DEF Dispatch
<1>2. /\ inbound \in Seq(Queueable) /\ arrived \in Seq(Served) /\ lockq \in Seq(Served)
      /\ pc \in [Turns \cup Stops -> {"idle", "queued", "wait", "think"} \cup Finished]
      BY DEF TypeOK, Served
<1>3. /\ 1 \in DOMAIN inbound /\ m = inbound[1]
      /\ \A i \in DOMAIN inbound' : i \in Nat /\ i + 1 \in DOMAIN inbound /\ 1 < i + 1 /\ inbound'[i] = inbound[i + 1]
      /\ \A i \in DOMAIN inbound : i # 1 => i - 1 \in DOMAIN inbound' /\ inbound'[i - 1] = inbound[i]
      BY <1>1, <1>2, TailIs
<1>4. /\ DOMAIN lockq' = DOMAIN lockq \cup {n}
      /\ \A i \in DOMAIN lockq : i \in Nat /\ i < n /\ lockq'[i] = lockq[i]
      /\ lockq'[n] = m /\ n \in Nat \ DOMAIN lockq
      BY <1>1, <1>2, AppendIs
<1>5. pc'[m] = "wait" /\ \A x \in Turns \cup Stops : x # m => pc'[x] = pc[x]
      BY <1>1, <1>2, Ids
<1>6. m \in Served /\ pc[m] = "queued"
      BY <1>1, <1>3 DEF QueueInv, PlaceInv
<1> HIDE DEF m, n
<1>7. \A x, y : Earlier(x, y) => Earlier(x, y)'
      BY <1>1 DEF Earlier
<1>8. ArrivedInv'
      BY <1>1, <1>5, <1>6, Ids DEF QueueInv, ArrivedInv
<1>9. ASSUME NEW i \in DOMAIN lockq PROVE Earlier(lockq[i], m)
      BY <1>3, <1>6 DEF QueueInv, LineInv
<1>10. ASSUME NEW i \in DOMAIN inbound', inbound'[i] \in Served
       PROVE  /\ Earlier(m, inbound'[i]) /\ inbound'[i] # m /\ pc[inbound'[i]] = "queued"
              /\ \A j \in DOMAIN lockq : Earlier(lockq[j], inbound'[i])
  <2> DEFINE y == inbound'[i]
  <2>1. i + 1 \in DOMAIN inbound /\ 1 < i + 1 /\ y = inbound[i + 1] /\ y \in Served
        BY <1>3, <1>10
  <2> HIDE DEF y
  <2>2. Earlier(m, y) /\ pc[y] = "queued" /\ \A j \in DOMAIN lockq : Earlier(lockq[j], y)
        BY <1>3, <1>6, <2>1 DEF QueueInv, LineInv, PlaceInv
  <2>3. y # m
        BY <2>2, EarlierIs DEF QueueInv
  <2> QED
      BY <2>2, <2>3 DEF y
<1>11. LineInv'
  <2>1. ASSUME NEW i \in DOMAIN lockq', NEW j \in DOMAIN lockq', i < j
        PROVE  Earlier(lockq[i], lockq[j])'
    <3> DEFINE x == lockq'[i]
               y == lockq'[j]
    <3>1. i \in DOMAIN lockq /\ x = lockq[i]
          BY <1>4, <2>1
    <3>2. Earlier(x, y)
      <4>1. CASE j = n
            BY <1>4, <1>9, <3>1, <4>1
      <4>2. CASE j \in DOMAIN lockq
            BY <1>4, <2>1, <3>1, <4>2 DEF QueueInv, LineInv
      <4> QED
          BY <1>4, <4>1, <4>2
    <3>3. \E u, v : lockq'[i] = u /\ lockq'[j] = v /\ Earlier(u, v)
          BY <3>2
    <3> QED
        BY <1>7, <3>3
  <2>2. ASSUME NEW i \in DOMAIN inbound', NEW j \in DOMAIN inbound', i < j,
               inbound'[i] \in Served, inbound'[j] \in Served
        PROVE  Earlier(inbound[i], inbound[j])'
    <3>1. i + 1 < j + 1 /\ i + 1 \in DOMAIN inbound /\ j + 1 \in DOMAIN inbound
          BY <1>3, <2>2
    <3>2. inbound'[i] = inbound[i + 1] /\ inbound'[j] = inbound[j + 1]
          BY <1>3
    <3>3. Earlier(inbound[i + 1], inbound[j + 1])
          BY <2>2, <3>1, <3>2 DEF QueueInv, LineInv
    <3>4. \E u, v : inbound'[i] = u /\ inbound'[j] = v /\ Earlier(u, v)
          BY <3>2, <3>3
    <3> QED
        BY <1>7, <3>4
  <2>3. ASSUME NEW i \in DOMAIN lockq', NEW j \in DOMAIN inbound', inbound'[j] \in Served
        PROVE  Earlier(lockq[i], inbound[j])'
    <3>1. Earlier(m, inbound'[j]) /\ \A k \in DOMAIN lockq : Earlier(lockq[k], inbound'[j])
          BY <1>10, <2>3
    <3>2. \E u, v : lockq'[i] = u /\ inbound'[j] = v /\ Earlier(u, v)
          BY <1>4, <3>1
    <3> QED
        BY <1>7, <3>2
  <2> QED
      BY <2>1, <2>2, <2>3 DEF LineInv
<1>12. PlaceInv'
  <2>1. ASSUME NEW i \in DOMAIN inbound', inbound'[i] \in Served PROVE pc'[inbound'[i]] = "queued"
        BY <1>5, <1>10, <2>1, Ids
  <2>2. ASSUME NEW x \in Served, pc'[x] = "queued" PROVE \E i \in DOMAIN inbound' : inbound'[i] = x
    <3>1. x # m /\ pc[x] = "queued"
          BY <1>5, <2>2, Ids
    <3>2. PICK i \in DOMAIN inbound : inbound[i] = x
          BY <3>1 DEF QueueInv, PlaceInv
    <3> QED
        BY <1>3, <3>1, <3>2
  <2>3. ASSUME NEW x \in Served PROVE (pc'[x] \in AtLock <=> \E i \in DOMAIN lockq' : lockq'[i] = x)
    <3>1. CASE x = m
          BY <1>4, <1>5, <3>1 DEF AtLock
    <3>2. CASE x # m
      <4>1. pc'[x] \in AtLock <=> \E i \in DOMAIN lockq : lockq[i] = x
            BY <1>5, <3>2, Ids DEF QueueInv, PlaceInv
      <4> QED
          BY <1>4, <3>2, <4>1
    <3> QED
        BY <3>1, <3>2
  <2>4. ASSUME NEW x \in Served, pc'[x] = "think" PROVE 1 \in DOMAIN lockq' /\ lockq'[1] = x
    <3>1. pc[x] = "think"
          BY <1>5, <2>4, Ids
    <3> QED
        BY <1>4, <3>1 DEF QueueInv, PlaceInv
  <2>5. ASSUME NEW d \in Directs PROVE pc'[d] = pc[d]
        BY <1>5, <1>6, Ids
  <2> QED
      BY <2>1, <2>2, <2>3, <2>4, <2>5 DEF QueueInv, PlaceInv
<1>13. InOrder'
  <2> SUFFICES ASSUME NEW i \in DOMAIN arrived, NEW j \in DOMAIN arrived, i < j,
                      pc'[arrived[j]] \in {"think", "done", "failed"}
               PROVE  pc'[arrived[i]] \in Finished
      BY <1>1 DEF InOrder
  <2>1. arrived[i] \in Turns /\ arrived[j] \in Turns
        BY <1>2, Ids
  <2>2. pc[arrived[j]] \in {"think", "done", "failed"}
        BY <1>5, <2>1
  <2>3. pc[arrived[i]] \in Finished
        BY <2>2 DEF QueueInv, InOrder
  <2>4. arrived[i] # m
        BY <1>6, <2>3 DEF Finished
  <2> QED
      BY <1>5, <2>1, <2>3, <2>4
<1> QED
    BY <1>8, <1>11, <1>12, <1>13 DEF QueueInv

\* The first at the lock goes to work: everything that arrived before it is finished.
LEMMA QueueBegin ==
  ASSUME TypeOK, TypeOK', QueueInv, NEW t \in Turns, BeginTurn(t)
  PROVE  QueueInv'
<1>1. /\ t \in Served /\ pc[t] = "wait" /\ pc' = [pc EXCEPT ![t] = "think"]
      /\ inbound' = inbound /\ arrived' = arrived /\ lockq' = lockq
      /\ lockq # <<>> /\ Head(lockq) = t
      BY DEF BeginTurn, queue, HasLock, Served
<1>2. /\ arrived \in Seq(Served) /\ lockq \in Seq(Served)
      /\ pc \in [Turns \cup Stops -> {"idle", "queued", "wait", "think"} \cup Finished]
      BY DEF TypeOK, Served
<1>3. 1 \in DOMAIN lockq /\ lockq[1] = t
      BY <1>1, <1>2, TailIs
<1>4. pc'[t] = "think" /\ \A x \in Turns \cup Stops : x # t => pc'[x] = pc[x]
      BY <1>1, <1>2, Ids
<1>5. ArrivedInv'
      BY <1>1, <1>4, Ids DEF QueueInv, ArrivedInv
<1>6. LineInv'
  <2>1. \A x, y : Earlier(x, y) <=> Earlier(x, y)'
        BY <1>1 DEF Earlier
  <2>2. LineInv /\ inbound' = inbound /\ lockq' = lockq
        BY <1>1 DEF QueueInv
  <2> QED
      BY <2>1, <2>2 DEF LineInv
<1>7. PlaceInv'
  <2>1. ASSUME NEW x \in Served
        PROVE  /\ pc'[x] = "queued" <=> pc[x] = "queued"
               /\ pc'[x] \in AtLock <=> pc[x] \in AtLock
               /\ pc'[x] = "think" => pc[x] = "think" \/ x = t
        BY <1>1, <1>4, Ids DEF AtLock
  <2>2. ASSUME NEW d \in Directs PROVE pc'[d] = pc[d]
        BY <1>1, <1>4, Ids
  <2> QED
      BY <1>1, <1>3, <2>1, <2>2 DEF QueueInv, PlaceInv
<1>8. ASSUME NEW x \in Served, Earlier(x, t) PROVE pc[x] \in Finished
  <2>1. ~Earlier(t, x) /\ x # t
        BY <1>8, EarlierIs DEF QueueInv
  <2>2. pc[x] # "idle"
        BY <1>8 DEF QueueInv, ArrivedInv, Earlier
  <2>3. pc[x] # "queued"
    <3>1. SUFFICES ASSUME pc[x] = "queued" PROVE FALSE
          OBVIOUS
    <3>2. PICK i \in DOMAIN inbound : inbound[i] = x
          BY <3>1 DEF QueueInv, PlaceInv
    <3>3. Earlier(lockq[1], inbound[i])
          BY <1>3, <3>2 DEF QueueInv, LineInv
    <3> QED
        BY <1>3, <2>1, <3>2, <3>3
  <2>4. pc[x] \notin AtLock
    <3>1. SUFFICES ASSUME pc[x] \in AtLock PROVE FALSE
          OBVIOUS
    <3>2. PICK i \in DOMAIN lockq : lockq[i] = x
          BY <3>1 DEF QueueInv, PlaceInv
    <3>3. 1 < i
          BY <1>2, <1>3, <2>1, <3>2
    <3>4. Earlier(lockq[1], lockq[i])
          BY <1>3, <3>3 DEF QueueInv, LineInv
    <3> QED
        BY <1>3, <2>1, <3>2, <3>4
  <2> QED
      BY <1>2, <2>2, <2>3, <2>4, Ids DEF AtLock
<1>9. InOrder'
  <2> SUFFICES ASSUME NEW i \in DOMAIN arrived, NEW j \in DOMAIN arrived, i < j,
                      pc'[arrived[j]] \in {"think", "done", "failed"}
               PROVE  pc'[arrived[i]] \in Finished
      BY <1>1 DEF InOrder
  <2>1. arrived[i] \in Served /\ arrived[j] \in Served /\ arrived[i] \in Turns /\ arrived[j] \in Turns
        BY <1>2, Ids
  <2>2. pc[arrived[i]] \in Finished
    <3>1. CASE arrived[j] = t
          BY <1>8, <2>1, <3>1 DEF Earlier
    <3>2. CASE arrived[j] # t
          BY <1>4, <2>1, <3>2 DEF QueueInv, InOrder
    <3> QED
        BY <3>1, <3>2
  <2>3. arrived[i] # t
        BY <1>1, <2>2 DEF Finished
  <2> QED
      BY <1>4, <2>1, <2>2, <2>3
<1> QED
    BY <1>5, <1>6, <1>7, <1>9 DEF QueueInv

\* f gives each place of the lock's queue its place before t left, in the same order.
OldPlaces(f, t) ==
  /\ \A p \in DOMAIN lockq' : lockq'[p] = lockq[f[p]] /\ lockq'[p] # t
  /\ \A p, q \in DOMAIN lockq' : p < q => f[p] < f[q]
  /\ \A i \in DOMAIN lockq : lockq[i] # t => \E p \in DOMAIN lockq' : f[p] = i
  /\ 1 \in DOMAIN lockq /\ lockq[1] # t => 1 \in DOMAIN lockq' /\ f[1] = 1

\* A turn ends: who worked was first at the lock, who is cancelled leaves a gap.
LEMMA QueueEnd ==
  ASSUME TypeOK, TypeOK', QueueInv, NEW t \in Turns, NEW how \in Finished, EndTask(t, how),
         inbound' = inbound, arrived' = arrived,
         pc[t] \in AtLock, how # "cancelled" => pc[t] = "think"
  PROVE  QueueInv'
<1>1. /\ pc' = [pc EXCEPT ![t] = how] /\ lockq' = Left(t)
      BY DEF EndTask
<1>2. /\ arrived \in Seq(Served) /\ lockq \in Seq(Served) /\ \A i \in DOMAIN lockq : i \in Nat
      /\ pc \in [Turns \cup Stops -> {"idle", "queued", "wait", "think"} \cup Finished]
      BY DEF TypeOK, Served
<1>3. pc'[t] = how /\ \A x \in Turns \cup Stops : x # t => pc'[x] = pc[x]
      BY <1>1, <1>2, Ids
<1>4. how \notin {"idle", "queued", "wait", "think"} /\ pc[t] \notin {"idle", "queued"} \cup Finished
      BY DEF AtLock, Finished
<1>5. ASSUME NEW i \in DOMAIN lockq, NEW j \in DOMAIN lockq, lockq[i] = lockq[j] PROVE i = j
  <2>1. ASSUME NEW k \in DOMAIN lockq, NEW l \in DOMAIN lockq, k < l PROVE lockq[k] # lockq[l]
    <3>1. Earlier(lockq[k], lockq[l])
          BY <2>1 DEF QueueInv, LineInv
    <3> QED
        BY <3>1, EarlierIs DEF QueueInv
  <2> QED
      BY <1>2, <1>5, <2>1
<1>6. \E f \in [DOMAIN lockq' -> DOMAIN lockq] : OldPlaces(f, t)
  <2> USE DEF OldPlaces
  <2>1. CASE lockq' = lockq /\ \A i \in DOMAIN lockq : lockq[i] # t
    <3> DEFINE f == [p \in DOMAIN lockq |-> p]
    <3>1. /\ f \in [DOMAIN lockq' -> DOMAIN lockq] /\ \A p \in DOMAIN lockq : f[p] = p
          BY <2>1
    <3> HIDE DEF f
    <3> QED
        BY <2>1, <3>1
  <2>2. ASSUME NEW i \in DOMAIN lockq, lockq[i] = t, DOMAIN lockq' = 1..(Len(lockq) - 1),
               \A p \in DOMAIN lockq' : lockq'[p] = IF p < i THEN lockq[p] ELSE lockq[p + 1]
        PROVE  \E f \in [DOMAIN lockq' -> DOMAIN lockq] : OldPlaces(f, t)
    <3> DEFINE f == [p \in DOMAIN lockq' |-> IF p < i THEN p ELSE p + 1]
    <3>1. i \in 1..Len(lockq) /\ Len(lockq) \in Nat /\ DOMAIN lockq = 1..Len(lockq)
          BY <1>2
    <3>2. /\ f \in [DOMAIN lockq' -> DOMAIN lockq]
          /\ \A p \in DOMAIN lockq' : p \in Nat /\ f[p] = IF p < i THEN p ELSE p + 1
          BY <2>2, <3>1
    <3> HIDE DEF f
    <3>3. \A p \in DOMAIN lockq' : lockq'[p] = lockq[f[p]] /\ f[p] # i
          BY <2>2, <3>1, <3>2
    <3>4. \A p \in DOMAIN lockq' : lockq'[p] # t
          BY <1>5, <2>2, <3>2, <3>3
    <3>5. \A p, q \in DOMAIN lockq' : p < q => f[p] < f[q]
          BY <3>1, <3>2
    <3>6. ASSUME NEW k \in DOMAIN lockq, lockq[k] # t PROVE \E p \in DOMAIN lockq' : f[p] = k
      <4>1. k # i /\ k \in 1..Len(lockq)
            BY <2>2, <3>1, <3>6
      <4>2. CASE k < i
            BY <2>2, <3>1, <3>2, <4>1, <4>2
      <4>3. CASE k > i
        <5>1. k - 1 \in DOMAIN lockq' /\ ~(k - 1 < i) /\ (k - 1) + 1 = k
              BY <2>2, <3>1, <4>1, <4>3
        <5> QED
            BY <3>2, <5>1
      <4> QED
          BY <3>1, <4>1, <4>2, <4>3
    <3>7. ASSUME 1 \in DOMAIN lockq, lockq[1] # t PROVE 1 \in DOMAIN lockq' /\ f[1] = 1
          BY <2>2, <3>1, <3>2, <3>7
    <3> QED
        BY <3>2, <3>3, <3>4, <3>5, <3>6, <3>7
  <2> QED
      BY <1>1, <1>2, <2>1, <2>2, LeftIs
<1>7. PICK f \in [DOMAIN lockq' -> DOMAIN lockq] : OldPlaces(f, t)
      BY <1>6
<1> USE DEF OldPlaces
<1>8. \A x, y : Earlier(x, y) => Earlier(x, y)'
      BY DEF Earlier
<1>9. ArrivedInv'
      BY <1>3, <1>4, Ids DEF QueueInv, ArrivedInv
<1>10. LineInv'
  <2>1. ASSUME NEW i \in DOMAIN lockq', NEW j \in DOMAIN lockq', i < j
        PROVE  Earlier(lockq[i], lockq[j])'
    <3>1. Earlier(lockq[f[i]], lockq[f[j]])
          BY <1>7, <2>1 DEF QueueInv, LineInv
    <3>2. \E u, v : lockq'[i] = u /\ lockq'[j] = v /\ Earlier(u, v)
          BY <1>7, <3>1
    <3> QED
        BY <1>8, <3>2
  <2>2. ASSUME NEW i \in DOMAIN inbound', NEW j \in DOMAIN inbound', i < j,
               inbound'[i] \in Served, inbound'[j] \in Served
        PROVE  Earlier(inbound[i], inbound[j])'
        BY <1>8, <2>2 DEF QueueInv, LineInv
  <2>3. ASSUME NEW i \in DOMAIN lockq', NEW j \in DOMAIN inbound', inbound'[j] \in Served
        PROVE  Earlier(lockq[i], inbound[j])'
    <3>1. Earlier(lockq[f[i]], inbound[j])
          BY <1>7, <2>3 DEF QueueInv, LineInv
    <3>2. \E u, v : lockq'[i] = u /\ inbound'[j] = v /\ Earlier(u, v)
          BY <1>7, <3>1
    <3> QED
        BY <1>8, <3>2
  <2> QED
      BY <2>1, <2>2, <2>3 DEF LineInv
<1>11. PlaceInv'
  <2>1. ASSUME NEW x \in Served PROVE (pc'[x] = "queued" <=> pc[x] = "queued")
        BY <1>3, <1>4, Ids
  <2>2. ASSUME NEW x \in Served PROVE (pc'[x] \in AtLock <=> \E p \in DOMAIN lockq' : lockq'[p] = x)
    <3>1. CASE x = t
          BY <1>3, <1>4, <1>7, <3>1 DEF AtLock
    <3>2. CASE x # t
      <4>1. pc'[x] \in AtLock <=> \E i \in DOMAIN lockq : lockq[i] = x
            BY <1>3, <3>2, Ids DEF QueueInv, PlaceInv
      <4>2. (\E i \in DOMAIN lockq : lockq[i] = x) <=> \E p \in DOMAIN lockq' : lockq'[p] = x
            BY <1>7, <3>2
      <4> QED
          BY <4>1, <4>2
    <3> QED
        BY <3>1, <3>2
  <2>3. ASSUME NEW x \in Served, pc'[x] = "think" PROVE 1 \in DOMAIN lockq' /\ lockq'[1] = x
    <3>1. x # t /\ pc[x] = "think"
          BY <1>3, <1>4, <2>3, Ids
    <3>2. 1 \in DOMAIN lockq /\ lockq[1] = x
          BY <3>1 DEF QueueInv, PlaceInv
    <3> QED
        BY <1>7, <3>1, <3>2
  <2>4. ASSUME NEW d \in Directs PROVE pc'[d] \notin {"queued", "wait"}
        BY <1>3, <1>4, Ids DEF QueueInv, PlaceInv
  <2> QED
      BY <2>1, <2>2, <2>3, <2>4 DEF QueueInv, PlaceInv
<1>12. InOrder'
  <2> SUFFICES ASSUME NEW i \in DOMAIN arrived, NEW j \in DOMAIN arrived, i < j,
                      pc'[arrived[j]] \in {"think", "done", "failed"}
               PROVE  pc'[arrived[i]] \in Finished
      BY DEF InOrder
  <2>1. arrived[i] \in Turns /\ arrived[j] \in Turns
        BY <1>2, Ids
  <2>2. pc[arrived[j]] \in {"think", "done", "failed"}
        BY <1>3, <2>1
  <2>3. pc[arrived[i]] \in Finished
        BY <2>2 DEF QueueInv, InOrder
  <2> QED
      BY <1>3, <2>1, <2>3
<1> QED
    BY <1>9, <1>10, <1>11, <1>12 DEF QueueInv

\* Steps that leave the turns of the queue where they are.
LEMMA QueueFrame ==
  ASSUME TypeOK, TypeOK', QueueInv, inbound' = inbound, lockq' = lockq, arrived' = arrived,
         \A x \in Served : pc'[x] = pc[x], \A d \in Directs : pc'[d] \notin {"queued", "wait"}
  PROVE  QueueInv'
<1>1. \A i \in DOMAIN arrived : arrived[i] \in Served
      BY DEF TypeOK, Served
<1>2. \A x, y : Earlier(x, y) <=> Earlier(x, y)'
      BY DEF Earlier
<1>3. ArrivedInv'
      BY DEF QueueInv, ArrivedInv
<1>4. LineInv'
      BY <1>2 DEF QueueInv, LineInv
<1>5. PlaceInv'
      BY DEF QueueInv, PlaceInv
<1>6. InOrder'
      BY <1>1 DEF QueueInv, InOrder
<1> QED
    BY <1>3, <1>4, <1>5, <1>6 DEF QueueInv

\* Every step keeps the order; the result of a subagent is published once (SubInv).
LEMMA StepQueue == TypeOK /\ TypeOK' /\ QueueInv /\ SubInv /\ [Next]_vars => QueueInv'
<1> SUFFICES ASSUME TypeOK, TypeOK', QueueInv, SubInv, [Next]_vars PROVE QueueInv'
    OBVIOUS
<1>1. \A d \in Directs : pc[d] \notin {"queued", "wait"}
      BY DEF QueueInv, PlaceInv
<1>2. pc \in [Turns \cup Stops -> {"idle", "queued", "wait", "think"} \cup Finished]
      BY DEF TypeOK
<1>3. ASSUME NEW m \in Msgs \cup Stops, Receive(m) PROVE QueueInv'
      BY <1>3, QueuePublish, Ids DEF Receive, Served
<1>4. CASE Dispatch
      BY <1>4, QueueDispatch
<1>5. CASE HandleStop
  <2> DEFINE s == Head(inbound)
  <2>1. /\ s \in Stops /\ inbound # <<>> /\ inbound' = Tail(inbound) /\ lockq' = lockq /\ arrived' = arrived
        /\ pc' = pc \/ pc' = [pc EXCEPT ![s] = "done"]
        BY <1>5 DEF HandleStop
  <2>2. /\ \A x \in Served \cup Directs : pc'[x] = pc[x]
        BY <1>2, <2>1, Ids
  <2>3. /\ \A i \in DOMAIN inbound' : i \in Nat /\ i + 1 \in DOMAIN inbound /\ 1 < i + 1 /\ inbound'[i] = inbound[i + 1]
        /\ \A i \in DOMAIN inbound : i # 1 => i - 1 \in DOMAIN inbound' /\ inbound'[i - 1] = inbound[i]
        /\ inbound[1] \notin Served
    <3>1. inbound \in Seq(Queueable)
          BY DEF TypeOK
    <3> QED
        BY <2>1, <3>1, TailIs, Ids
  <2>4. \A i \in DOMAIN arrived : arrived[i] \in Served
        BY DEF TypeOK, Served
  <2>5. \A x, y : Earlier(x, y) => Earlier(x, y)'
        BY <2>1 DEF Earlier
  <2> HIDE DEF s
  <2>6. ArrivedInv'
        BY <2>1, <2>2 DEF QueueInv, ArrivedInv
  <2>7. LineInv'
    <3>1. ASSUME NEW i \in DOMAIN lockq', NEW j \in DOMAIN lockq', i < j
          PROVE  Earlier(lockq[i], lockq[j])'
          BY <2>1, <2>5, <3>1 DEF QueueInv, LineInv
    <3>2. ASSUME NEW i \in DOMAIN inbound', NEW j \in DOMAIN inbound', i < j,
                 inbound'[i] \in Served, inbound'[j] \in Served
          PROVE  Earlier(inbound[i], inbound[j])'
      <4>1. i + 1 < j + 1 /\ i + 1 \in DOMAIN inbound /\ j + 1 \in DOMAIN inbound
            BY <2>3, <3>2
      <4>2. Earlier(inbound[i + 1], inbound[j + 1])
            BY <2>3, <3>2, <4>1 DEF QueueInv, LineInv
      <4>3. \E u, v : inbound'[i] = u /\ inbound'[j] = v /\ Earlier(u, v)
            BY <2>3, <4>2
      <4> QED
          BY <2>5, <4>3
    <3>3. ASSUME NEW i \in DOMAIN lockq', NEW j \in DOMAIN inbound', inbound'[j] \in Served
          PROVE  Earlier(lockq[i], inbound[j])'
      <4>1. Earlier(lockq[i], inbound[j + 1])
            BY <2>1, <2>3, <3>3 DEF QueueInv, LineInv
      <4>2. \E u, v : lockq'[i] = u /\ inbound'[j] = v /\ Earlier(u, v)
            BY <2>1, <2>3, <4>1
      <4> QED
          BY <2>5, <4>2
    <3> QED
        BY <3>1, <3>2, <3>3 DEF LineInv
  <2>8. PlaceInv'
    <3>1. ASSUME NEW i \in DOMAIN inbound', inbound'[i] \in Served PROVE pc'[inbound'[i]] = "queued"
          BY <2>2, <2>3, <3>1 DEF QueueInv, PlaceInv
    <3>2. ASSUME NEW x \in Served, pc'[x] = "queued" PROVE \E i \in DOMAIN inbound' : inbound'[i] = x
      <4>1. PICK i \in DOMAIN inbound : inbound[i] = x
            BY <2>2, <3>2 DEF QueueInv, PlaceInv
      <4> QED
          BY <2>3, <4>1
    <3> QED
        BY <1>1, <2>1, <2>2, <3>1, <3>2 DEF QueueInv, PlaceInv
  <2>9. InOrder'
        BY <2>1, <2>2, <2>4 DEF QueueInv, InOrder
  <2> QED
      BY <2>6, <2>7, <2>8, <2>9 DEF QueueInv
<1>6. CASE FinishStop
  <2>1. /\ stopping \in Stops /\ pc' = [pc EXCEPT ![stopping] = "done"]
        /\ inbound' = inbound /\ lockq' = lockq /\ arrived' = arrived
        BY <1>6 DEF FinishStop, queue, TypeOK
  <2>2. \A x \in Served \cup Directs : pc'[x] = pc[x]
        BY <1>2, <2>1, Ids
  <2> QED
      BY <1>1, <2>1, <2>2, QueueFrame
<1>7. CASE Restart
  <2>1. /\ inbound' = <<>> /\ lockq' = <<>> /\ arrived' = arrived
        /\ \A x \in Turns : pc'[x] = IF pc[x] \in {"queued", "wait", "think"} THEN "lost" ELSE pc[x]
        BY <1>7 DEF Restart
  <2>2. ArrivedInv'
        BY <2>1, Ids DEF QueueInv, ArrivedInv
  <2>3. LineInv'
        BY <2>1 DEF LineInv
  <2>4. PlaceInv'
        BY <2>1, Ids DEF PlaceInv, AtLock
  <2>5. InOrder'
    <3>1. \A i \in DOMAIN arrived : arrived[i] \in Turns
          BY Ids DEF TypeOK
    <3> QED
        BY <2>1, <3>1 DEF QueueInv, InOrder, Finished
  <2> QED
      BY <2>2, <2>3, <2>4, <2>5 DEF QueueInv
<1>8. ASSUME NEW t \in Turns, BeginTurn(t) PROVE QueueInv'
      BY <1>8, QueueBegin
<1>9. ASSUME NEW t \in Turns, BeginDirect(t) PROVE QueueInv'
  <2>1. /\ t \in Directs /\ pc' = [pc EXCEPT ![t] = "think"]
        /\ inbound' = inbound /\ lockq' = lockq /\ arrived' = arrived
        BY <1>9 DEF BeginDirect, queue
  <2>2. /\ \A x \in Served : pc'[x] = pc[x]
        /\ \A d \in Directs : pc'[d] \notin {"queued", "wait"}
        BY <1>1, <1>2, <2>1, Ids
  <2> QED
      BY <2>1, <2>2, QueueFrame
<1>10. ASSUME NEW t \in Turns, CallMessage(t) PROVE QueueInv'
       BY <1>1, <1>10, QueueFrame DEF CallMessage, queue
<1>11. ASSUME NEW t \in Turns, EndTurn(t) PROVE QueueInv'
       BY <1>11, QueueEnd DEF EndTurn, Thinking, queue, Finished, AtLock
<1>12. ASSUME NEW t \in Turns, FailTurn(t) PROVE QueueInv'
       BY <1>12, QueueEnd DEF FailTurn, Thinking, queue, Finished, AtLock
<1>13. ASSUME NEW t \in Turns, CancelTurn(t) PROVE QueueInv'
  <2>1. pc[t] \in AtLock /\ EndTask(t, "cancelled") /\ inbound' = inbound /\ arrived' = arrived
        BY <1>13 DEF CancelTurn, queue, AtLock
  <2> QED
      BY <2>1, QueueEnd DEF Finished
<1>14. ASSUME NEW t \in Turns, NEW s \in Subs, CallSpawn(t, s) PROVE QueueInv'
       BY <1>1, <1>14, QueueFrame DEF CallSpawn, queue
<1>15. ASSUME NEW s \in Subs, StartSub(s) PROVE QueueInv'
       BY <1>1, <1>15, QueueFrame DEF StartSub, queue
<1>16. ASSUME NEW s \in Subs, EndSub(s) PROVE QueueInv'
  <2>1. /\ sub[s] = "work" /\ Publish(s) /\ lockq' = lockq
        BY <1>16 DEF EndSub
  <2>2. pc[s] = "idle"
        BY <2>1 DEF SubInv
  <2> QED
      BY <2>1, <2>2, QueuePublish, Ids
<1>17. CASE UNCHANGED vars
       BY <1>1, <1>17, QueueFrame DEF vars, queue
<1> QED
    BY <1>3, <1>4, <1>5, <1>6, <1>7, <1>8, <1>9, <1>10, <1>11, <1>12, <1>13, <1>14, <1>15, <1>16,
       <1>17 DEF Next

-------------------------------------------------------------------------------
(* Subagents *)

\* What a turn that is not idle any more knows of its subagent: it was spawned.
LEMMA SpawnedIs ==
  ASSUME TypeOK, SubInv, NEW t \in Turns, pc[t] # "idle"
  PROVE  Home(t) \in Chats /\ (t \in Served => KeyOf(t) \in Keys)
<1>1. CASE t \in Subs
  <2>1. sub[t] # "none" /\ origin[t] \in Chats
        BY <1>1 DEF SubInv
  <2> QED
      BY <1>1, <2>1, RoutesAssumption DEF Home, KeyOf
<1>2. CASE t \notin Subs
      BY <1>2, RoutesAssumption DEF Home, KeyOf, Turns, Served
<1> QED
    BY <1>1, <1>2

\* Steps of turns: no subagent changes, and none of their results becomes idle or new.
LEMMA SubFrame ==
  ASSUME SubInv, UNCHANGED <<sub, origin, telemetry, parent>>, overlapped \subseteq overlapped',
         \A s \in Subs : pc'[s] = "idle" <=> pc[s] = "idle"
  PROVE  SubInv'
  BY DEF SubInv

\* cancel_by_session leaves telemetry and tasks in agreement.
LEMMA SubCancel ==
  ASSUME TypeOK, SubInv, NEW k, CancelSubs(k), overlapped' = overlapped,
         \A s \in Subs : pc'[s] = pc[s]
  PROVE  SubInv'
<1>1. /\ \A s \in Subs : \/ sub'[s] = sub[s] /\ telemetry'[s] = telemetry[s]
                         \/ /\ sub[s] = "work" /\ sub'[s] = "cancelled" /\ telemetry'[s] = "cancelled"
                         \/ /\ sub[s] = "new" /\ sub'[s] = "stillborn" /\ telemetry'[s] = telemetry[s]
      /\ origin' = origin /\ parent' = parent
      BY DEF CancelSubs, Alive
<1> SUFFICES ASSUME NEW s \in Subs
             PROVE  /\ sub'[s] # "none" => origin'[s] \in Chats /\ parent'[s] \in Turns
                    /\ sub'[s] = "none" <=> telemetry'[s] = "none"
                    /\ telemetry'[s] = "ended" <=> sub'[s] = "ended"
                    /\ telemetry'[s] = "ended" <=> pc'[s] # "idle"
                    /\ telemetry'[s] = "running" => sub'[s] \in Alive \cup {"lost", "stillborn"}
                    /\ sub'[s] # "none" /\ parent'[s] \in Msgs \ overlapped' => origin'[s] = Chat[parent'[s]]
    BY DEF SubInv
<1> QED
    BY <1>1 DEF SubInv, Alive

\* Every step keeps subagents, their files and their chats in agreement.
LEMMA StepSub == TypeOK /\ QueueInv /\ SubInv /\ ToolInv /\ [Next]_vars => SubInv'
<1> SUFFICES ASSUME TypeOK, QueueInv, SubInv, ToolInv, [Next]_vars PROVE SubInv'
    OBVIOUS
<1>1. /\ pc \in [Turns \cup Stops -> {"idle", "queued", "wait", "think"} \cup Finished]
      /\ sub \in [Subs -> Alive \cup {"none", "ended", "cancelled", "stillborn", "lost"}]
      /\ telemetry \in [Subs -> {"none", "running", "ended", "cancelled"}]
      /\ origin \in [Subs -> Chats \cup {None}] /\ parent \in [Subs -> Turns \cup {None}]
      BY DEF TypeOK
<1>2. ASSUME NEW t \in Turns, NEW to, pc[t] # "idle", to # "idle", pc' = [pc EXCEPT ![t] = to]
      PROVE  \A s \in Subs : pc'[s] = "idle" <=> pc[s] = "idle"
      BY <1>1, <1>2, Ids
<1>3. ASSUME NEW t \in Turns, TurnContext(t) PROVE overlapped \subseteq overlapped'
      BY <1>3 DEF TurnContext
<1>4. ASSUME NEW m \in Msgs \cup Stops, Receive(m) PROVE SubInv'
  <2>1. pc' = [pc EXCEPT ![m] = "queued"] /\ m \notin Subs
        BY <1>4, IdsAssumption DEF Receive, Publish
  <2>2. \A s \in Subs : pc'[s] = pc[s]
        BY <1>1, <2>1, Ids
  <2> QED
      BY <1>4, <2>2, SubFrame DEF Receive, tools, agents
<1>5. CASE Dispatch
  <2>1. Head(inbound) \in Served /\ pc[Head(inbound)] = "queued"
    <3>1. inbound # <<>> /\ Head(inbound) \notin Stops /\ inbound \in Seq(Queueable)
          BY <1>5 DEF Dispatch, TypeOK
    <3>2. 1 \in DOMAIN inbound /\ Head(inbound) = inbound[1] /\ inbound[1] \in Queueable
          BY <3>1, TailIs
    <3> QED
        BY <3>1, <3>2, Ids DEF QueueInv, PlaceInv
  <2>2. pc' = [pc EXCEPT ![Head(inbound)] = "wait"]
        BY <1>5 DEF Dispatch
  <2>3. \A s \in Subs : pc'[s] = "idle" <=> pc[s] = "idle"
        BY <1>2, <2>1, <2>2, Ids
  <2> QED
      BY <1>5, <2>3, SubFrame DEF Dispatch, tools, agents
<1>6. CASE HandleStop
  <2>1. /\ Head(inbound) \in Stops /\ overlapped' = overlapped
        /\ pc' = pc \/ pc' = [pc EXCEPT ![Head(inbound)] = "done"]
        BY <1>6 DEF HandleStop, tools
  <2>2. \A s \in Subs : pc'[s] = pc[s]
        BY <1>1, <2>1, Ids
  <2>3. UNCHANGED agents \/ CancelSubs(Key[Head(inbound)])
        BY <1>6 DEF HandleStop
  <2> QED
      BY <2>1, <2>2, <2>3, SubFrame, SubCancel DEF agents
<1>7. CASE FinishStop
  <2>1. /\ stopping \in Stops /\ overlapped' = overlapped
        /\ pc' = [pc EXCEPT ![stopping] = "done"] /\ CancelSubs(Key[stopping])
        BY <1>7 DEF FinishStop, tools, TypeOK
  <2>2. \A s \in Subs : pc'[s] = pc[s]
        BY <1>1, <2>1, Ids
  <2> QED
      BY <2>1, <2>2, SubCancel
<1>8. CASE Restart
  <2>1. /\ \A s \in Subs : /\ pc'[s] = "idle" <=> pc[s] = "idle"
                           /\ sub'[s] = IF sub[s] \in Alive THEN "lost" ELSE sub[s]
        /\ UNCHANGED <<overlapped, origin, telemetry, parent>>
        BY <1>1, <1>8, Ids DEF Restart
  <2> QED
      BY <2>1 DEF SubInv, Alive
<1>9. ASSUME NEW t \in Turns, BeginTurn(t) \/ BeginDirect(t) PROVE SubInv'
  <2>1. /\ pc' = [pc EXCEPT ![t] = "think"] /\ UNCHANGED agents /\ TurnContext(t)
        /\ pc[t] # "idle" \/ t \notin Subs
        BY <1>9, IdsAssumption DEF BeginTurn, BeginDirect
  <2>2. \A s \in Subs : pc'[s] = "idle" <=> pc[s] = "idle"
        BY <1>1, <2>1, Ids
  <2> QED
      BY <1>3, <2>1, <2>2, SubFrame DEF agents
<1>10. ASSUME NEW t \in Turns, CallMessage(t) PROVE SubInv'
       BY <1>10, SubFrame DEF CallMessage, agents
<1>11. ASSUME NEW t \in Turns, EndTurn(t) \/ FailTurn(t) \/ CancelTurn(t) PROVE SubInv'
  <2>1. /\ UNCHANGED agents /\ UNCHANGED tools /\ pc[t] \in AtLock
        /\ \E how \in Finished : pc' = [pc EXCEPT ![t] = how]
        BY <1>11 DEF EndTurn, FailTurn, CancelTurn, EndTask, Thinking, AtLock, Finished
  <2>2. \A s \in Subs : pc'[s] = "idle" <=> pc[s] = "idle"
        BY <1>2, <2>1 DEF AtLock, Finished
  <2> QED
      BY <2>1, <2>2, SubFrame DEF agents, tools
<1>12. ASSUME NEW t \in Turns, NEW s \in Subs, CallSpawn(t, s) PROVE SubInv'
  <2>1. /\ pc[t] = "think" /\ sub[s] = "none" /\ pc' = pc /\ overlapped' = overlapped
        /\ sub' = [sub EXCEPT ![s] = "new"] /\ origin' = [origin EXCEPT ![s] = ctx]
        /\ telemetry' = [telemetry EXCEPT ![s] = "running"] /\ parent' = [parent EXCEPT ![s] = t]
        BY <1>12 DEF CallSpawn, Thinking, tools
  <2>2. ctx \in Chats /\ (t \in Msgs \ overlapped => ctx = Chat[t])
        BY <2>1, IdsAssumption DEF ToolInv, Home
  <2>3. telemetry[s] = "none" /\ pc[s] = "idle"
        BY <2>1 DEF SubInv
  <2>4. ASSUME NEW u \in Subs
        PROVE  IF u = s THEN sub'[u] = "new" /\ origin'[u] = ctx /\ telemetry'[u] = "running" /\ parent'[u] = t
               ELSE sub'[u] = sub[u] /\ origin'[u] = origin[u] /\ telemetry'[u] = telemetry[u]
                    /\ parent'[u] = parent[u]
        BY <1>1, <2>1
  <2> QED
      BY <2>1, <2>2, <2>3, <2>4 DEF SubInv, Alive
<1>13. ASSUME NEW s \in Subs, StartSub(s) PROVE SubInv'
  <2>1. /\ sub[s] = "new" /\ sub' = [sub EXCEPT ![s] = "work"]
        /\ UNCHANGED <<pc, overlapped, origin, telemetry, parent>>
        BY <1>13 DEF StartSub, tools
  <2>2. \A u \in Subs : sub'[u] = IF u = s THEN "work" ELSE sub[u]
        BY <1>1, <2>1
  <2> QED
      BY <2>1, <2>2 DEF SubInv, Alive
<1>14. ASSUME NEW s \in Subs, EndSub(s) PROVE SubInv'
  <2>1. /\ sub[s] = "work" /\ sub' = [sub EXCEPT ![s] = "ended"]
        /\ telemetry' = [telemetry EXCEPT ![s] = "ended"] /\ pc' = [pc EXCEPT ![s] = "queued"]
        /\ UNCHANGED <<overlapped, origin, parent>>
        BY <1>14 DEF EndSub, Publish, tools
  <2>2. ASSUME NEW u \in Subs
        PROVE  IF u = s THEN sub'[u] = "ended" /\ telemetry'[u] = "ended" /\ pc'[u] = "queued"
               ELSE sub'[u] = sub[u] /\ telemetry'[u] = telemetry[u] /\ pc'[u] = pc[u]
        BY <1>1, <2>1, Ids
  <2> QED
      BY <2>1, <2>2 DEF SubInv, Alive
<1>15. CASE UNCHANGED vars
       BY <1>15, SubFrame DEF vars, tools, agents
<1> QED
    BY <1>4, <1>5, <1>6, <1>7, <1>8, <1>9, <1>10, <1>11, <1>12, <1>13, <1>14, <1>15 DEF Next

-------------------------------------------------------------------------------
(* The shared tools *)

\* Steps in which nobody starts, ends, speaks or is spawned.
LEMMA ToolFrame ==
  ASSUME ToolInv, UNCHANGED <<ctx, sent, overlapped, spoke, strayed>>,
         \A t \in Turns : /\ pc'[t] = "think" => pc[t] = "think" /\ Home(t)' = Home(t)
                          /\ pc'[t] \in {"done", "failed"} => pc[t] \in {"done", "failed"}
  PROVE  ToolInv'
<1>1. ASSUME NEW t \in Turns, pc'[t] = "think"
      PROVE  /\ ctx' \in Chats
             /\ t \notin overlapped' => ctx' = Home(t)' /\ (t \in Msgs /\ sent' => t \in spoke')
      BY <1>1 DEF ToolInv
<1>2. \A t, u \in Turns : t # u /\ pc'[t] = "think" /\ pc'[u] = "think" => t \in overlapped'
      BY DEF ToolInv
<1>3. AnsweredAtHome'
      BY DEF ToolInv, AnsweredAtHome, Turns
<1> QED
    BY <1>1, <1>2, <1>3 DEF ToolInv

\* Whoever begins a turn has the tools, unless another turn is at work.
LEMMA ToolBegin ==
  ASSUME TypeOK, ToolInv, NEW t \in Turns, pc[t] \notin {"done", "failed"}, Home(t) \in Chats,
         pc' = [pc EXCEPT ![t] = "think"], TurnContext(t), UNCHANGED <<origin, spoke, strayed>>
  PROVE  ToolInv'
<1>1. pc'[t] = "think" /\ \A u \in Turns : u # t => pc'[u] = pc[u]
      BY DEF TypeOK
<1>2. /\ ctx' = Home(t) /\ sent' = (t \in Subs /\ sent) /\ overlapped \subseteq overlapped'
      /\ \A u \in Turns \ {t} : pc[u] = "think" => u \in overlapped' /\ t \in overlapped'
      BY DEF TurnContext, Overlap
<1>3. \A u : Home(u)' = Home(u)
      BY DEF Home
<1>4. \A u, v \in Turns : u # v /\ pc'[u] = "think" /\ pc'[v] = "think" => u \in overlapped'
      BY <1>1, <1>2 DEF ToolInv
<1>5. ASSUME NEW u \in Turns, pc'[u] = "think"
      PROVE  /\ ctx' \in Chats
             /\ u \notin overlapped' => ctx' = Home(u)' /\ (u \in Msgs /\ sent' => u \in spoke')
      BY <1>1, <1>2, <1>3, <1>5, IdsAssumption
<1>6. AnsweredAtHome'
      BY <1>1, <1>2 DEF ToolInv, AnsweredAtHome, Turns
<1> QED
    BY <1>4, <1>5, <1>6 DEF ToolInv

\* Whoever ends a turn has spoken, unless its turn may end in silence.
LEMMA ToolEnd ==
  ASSUME TypeOK, ToolInv, NEW t \in Turns, NEW how \in Finished, pc' = [pc EXCEPT ![t] = how],
         UNCHANGED <<ctx, sent, overlapped, origin>>, pc[t] \in AtLock,
         UNCHANGED out \/ PublishOutbound(t, Home(t)),
         t \in Msgs /\ how # "cancelled" => t \in spoke' \/ t \in overlapped
  PROVE  ToolInv'
<1>1. /\ pc'[t] = how /\ how # "think" /\ \A u \in Turns : u # t => pc'[u] = pc[u]
      BY DEF TypeOK, Finished
<1>2. spoke \subseteq spoke' /\ strayed' = strayed
      BY DEF PublishOutbound, out
<1>3. \A u : Home(u)' = Home(u)
      BY DEF Home
<1>4. \A u, v \in Turns : u # v /\ pc'[u] = "think" /\ pc'[v] = "think" => u \in overlapped'
      BY <1>1 DEF ToolInv
<1>5. ASSUME NEW u \in Turns, pc'[u] = "think"
      PROVE  /\ ctx' \in Chats
             /\ u \notin overlapped' => ctx' = Home(u)' /\ (u \in Msgs /\ sent' => u \in spoke')
      BY <1>1, <1>2, <1>3, <1>5 DEF ToolInv
<1>6. AnsweredAtHome'
  <2>1. ASSUME NEW m \in Msgs \ overlapped, pc'[m] \in {"done", "failed"} PROVE m \in spoke'
    <3>1. m \in Turns
          BY DEF Turns
    <3>2. CASE m = t
          BY <1>1, <2>1, <3>2
    <3>3. CASE m # t
          BY <1>1, <1>2, <2>1, <3>1, <3>3 DEF ToolInv, AnsweredAtHome
    <3> QED
        BY <3>2, <3>3
  <2>2. strayed' = {}
        BY <1>2 DEF ToolInv, AnsweredAtHome
  <2> QED
      BY <2>1, <2>2 DEF AnsweredAtHome
<1> QED
    BY <1>4, <1>5, <1>6 DEF ToolInv

\* Every step leaves the tools to a turn that is at work alone.
LEMMA StepTool == TypeOK /\ QueueInv /\ SubInv /\ ToolInv /\ [Next]_vars => ToolInv'
<1> SUFFICES ASSUME TypeOK, QueueInv, SubInv, ToolInv, [Next]_vars PROVE ToolInv'
    OBVIOUS
<1>1. pc \in [Turns \cup Stops -> {"idle", "queued", "wait", "think"} \cup Finished]
      BY DEF TypeOK
<1>2. ASSUME NEW m \in Turns \cup Stops, NEW to \in {"queued", "wait"}, pc' = [pc EXCEPT ![m] = to],
             UNCHANGED <<tools, out, origin>>
      PROVE  ToolInv'
  <2>1. ASSUME NEW t \in Turns
        PROVE  /\ pc'[t] = "think" => pc[t] = "think" /\ Home(t)' = Home(t)
               /\ pc'[t] \in {"done", "failed"} => pc[t] \in {"done", "failed"}
        BY <1>1, <1>2 DEF Home
  <2> QED
      BY <1>2, <2>1, ToolFrame DEF tools, out
<1>3. ASSUME NEW s \in Stops, pc' = pc \/ pc' = [pc EXCEPT ![s] = "done"], UNCHANGED <<tools, out, origin>>
      PROVE  ToolInv'
  <2>1. ASSUME NEW t \in Turns PROVE pc'[t] = pc[t] /\ Home(t)' = Home(t)
        BY <1>1, <1>3, Ids DEF Home
  <2> QED
      BY <1>3, <2>1, ToolFrame DEF tools, out
<1>4. ASSUME NEW m \in Msgs \cup Stops, Receive(m) PROVE ToolInv'
  <2>1. pc' = [pc EXCEPT ![m] = "queued"] /\ m \in Turns \cup Stops /\ UNCHANGED <<tools, out, origin>>
        BY <1>4 DEF Receive, Publish, Turns, agents
  <2> QED
      BY <1>2, <2>1
<1>5. CASE Dispatch
  <2>1. inbound # <<>> /\ inbound \in Seq(Queueable)
        BY <1>5 DEF Dispatch, TypeOK
  <2>2. Head(inbound) \in Turns \cup Stops
        BY <2>1, Ids
  <2>3. pc' = [pc EXCEPT ![Head(inbound)] = "wait"] /\ UNCHANGED <<tools, out, origin>>
        BY <1>5 DEF Dispatch, agents
  <2> QED
      BY <1>2, <2>2, <2>3
<1>6. CASE HandleStop
  <2>1. /\ Head(inbound) \in Stops /\ UNCHANGED <<tools, out, origin>>
        /\ pc' = pc \/ pc' = [pc EXCEPT ![Head(inbound)] = "done"]
        BY <1>6 DEF HandleStop, agents, CancelSubs
  <2> QED
      BY <1>3, <2>1
<1>7. CASE FinishStop
  <2>1. /\ stopping \in Stops /\ UNCHANGED <<tools, out, origin>> /\ pc' = [pc EXCEPT ![stopping] = "done"]
        BY <1>7 DEF FinishStop, CancelSubs, TypeOK
  <2> QED
      BY <1>3, <2>1
<1>8. CASE Restart
  <2>1. /\ \A t \in Turns : /\ pc'[t] # "think"
                            /\ pc'[t] \in {"done", "failed"} => pc[t] \in {"done", "failed"}
        /\ UNCHANGED <<overlapped, spoke, strayed>>
        BY <1>1, <1>8 DEF Restart, out
  <2>2. AnsweredAtHome'
        BY <2>1 DEF ToolInv, AnsweredAtHome, Turns
  <2> QED
      BY <2>1, <2>2 DEF ToolInv
<1>9. ASSUME NEW t \in Turns, BeginTurn(t) PROVE ToolInv'
  <2>1. /\ pc[t] = "wait" /\ pc' = [pc EXCEPT ![t] = "think"] /\ TurnContext(t)
        /\ UNCHANGED <<origin, spoke, strayed>>
        BY <1>9 DEF BeginTurn, agents, out
  <2>2. Home(t) \in Chats
        BY <2>1, SpawnedIs
  <2> QED
      BY <2>1, <2>2, ToolBegin
<1>10. ASSUME NEW t \in Turns, BeginDirect(t) PROVE ToolInv'
  <2>1. /\ pc[t] = "idle" /\ pc' = [pc EXCEPT ![t] = "think"] /\ TurnContext(t) /\ t \in Directs
        /\ UNCHANGED <<origin, spoke, strayed>>
        BY <1>10 DEF BeginDirect, agents, out
  <2>2. Home(t) \in Chats
        BY <2>1, IdsAssumption, RoutesAssumption DEF Home
  <2> QED
      BY <2>1, <2>2, ToolBegin
<1>11. ASSUME NEW t \in Turns, CallMessage(t) PROVE ToolInv'
  <2>1. /\ pc[t] = "think" /\ PublishOutbound(t, ctx) /\ sent' = TRUE
        /\ UNCHANGED <<pc, ctx, overlapped, origin>>
        BY <1>11 DEF CallMessage, Thinking, agents
  <2>2. t \notin overlapped => ctx = Home(t)
        BY <2>1 DEF ToolInv
  <2>3. strayed' = {}
        BY <2>1, <2>2 DEF PublishOutbound, ToolInv, AnsweredAtHome
  <2>4. spoke \subseteq spoke' /\ (t \in Msgs => t \in spoke')
        BY <2>1 DEF PublishOutbound
  <2>5. \A u : Home(u)' = Home(u)
        BY <2>1 DEF Home
  <2>6. ASSUME NEW u \in Turns, pc'[u] = "think"
        PROVE  /\ ctx' \in Chats
               /\ u \notin overlapped' => ctx' = Home(u)' /\ (u \in Msgs /\ sent' => u \in spoke')
    <3>1. u \notin overlapped => u = t
          BY <2>1, <2>6 DEF ToolInv
    <3> QED
        BY <2>1, <2>2, <2>4, <2>5, <2>6, <3>1 DEF ToolInv
  <2>7. \A u, v \in Turns : u # v /\ pc'[u] = "think" /\ pc'[v] = "think" => u \in overlapped'
        BY <2>1 DEF ToolInv
  <2>8. AnsweredAtHome'
        BY <2>1, <2>3, <2>4 DEF ToolInv, AnsweredAtHome
  <2> QED
      BY <2>6, <2>7, <2>8 DEF ToolInv
<1>12. ASSUME NEW t \in Turns, EndTurn(t) PROVE ToolInv'
  <2>1. /\ pc[t] = "think" /\ pc' = [pc EXCEPT ![t] = "done"]
        /\ UNCHANGED <<ctx, sent, overlapped, origin>>
        BY <1>12 DEF EndTurn, EndTask, Thinking, tools, agents
  <2>2. UNCHANGED out \/ PublishOutbound(t, Home(t))
        BY <1>12, IdsAssumption DEF EndTurn, Turns
  <2>3. t \in Msgs => \/ sent /\ UNCHANGED out
                      \/ PublishOutbound(t, Home(t))
        BY <1>12, IdsAssumption DEF EndTurn
  <2>4. t \in Msgs => t \in spoke' \/ t \in overlapped
        BY <2>1, <2>3 DEF ToolInv, PublishOutbound, out
  <2> QED
      BY <2>1, <2>2, <2>4, ToolEnd DEF Finished, AtLock
<1>13. ASSUME NEW t \in Turns, FailTurn(t) PROVE ToolInv'
  <2>1. /\ pc[t] = "think" /\ pc' = [pc EXCEPT ![t] = "failed"]
        /\ UNCHANGED <<ctx, sent, overlapped, origin>>
        BY <1>13 DEF FailTurn, EndTask, Thinking, tools, agents
  <2>2. /\ UNCHANGED out \/ PublishOutbound(t, Home(t))
        /\ t \in Msgs => t \in spoke'
        BY <1>13 DEF FailTurn, PublishOutbound
  <2> QED
      BY <2>1, <2>2, ToolEnd DEF Finished, AtLock
<1>14. ASSUME NEW t \in Turns, CancelTurn(t) PROVE ToolInv'
  <2>1. /\ pc[t] \in AtLock /\ pc' = [pc EXCEPT ![t] = "cancelled"]
        /\ UNCHANGED <<ctx, sent, overlapped, origin>> /\ UNCHANGED out
        BY <1>14 DEF CancelTurn, EndTask, tools, agents, AtLock
  <2> QED
      BY <2>1, ToolEnd DEF Finished
<1>15. ASSUME NEW t \in Turns, NEW s \in Subs, CallSpawn(t, s) PROVE ToolInv'
  <2>1. /\ sub[s] = "none" /\ pc' = pc /\ UNCHANGED <<ctx, sent, overlapped, spoke, strayed>>
        /\ origin' = [origin EXCEPT ![s] = ctx]
        BY <1>15 DEF CallSpawn, tools, out
  <2>2. pc[s] = "idle"
        BY <2>1 DEF SubInv
  <2>3. ASSUME NEW u \in Turns, pc[u] = "think" PROVE Home(u)' = Home(u)
    <3>1. u # s
          BY <2>2, <2>3
    <3>2. u \in Subs => origin'[u] = origin[u]
          BY <2>1, <3>1 DEF TypeOK
    <3> QED
        BY <3>2 DEF Home
  <2> QED
      BY <2>1, <2>3, ToolFrame
<1>16. ASSUME NEW s \in Subs, StartSub(s) PROVE ToolInv'
       BY <1>16, ToolFrame DEF StartSub, tools, out, Home
<1>17. ASSUME NEW s \in Subs, EndSub(s) PROVE ToolInv'
  <2>1. pc' = [pc EXCEPT ![s] = "queued"] /\ s \in Turns \cup Stops /\ UNCHANGED <<tools, out, origin>>
        BY <1>17, Ids DEF EndSub, Publish
  <2> QED
      BY <1>2, <2>1
<1>18. CASE UNCHANGED vars
       BY <1>18, ToolFrame DEF vars, tools, out, agents, Home
<1> QED
    BY <1>4, <1>5, <1>6, <1>7, <1>8, <1>9, <1>10, <1>11, <1>12, <1>13, <1>14, <1>15, <1>16, <1>17,
       <1>18 DEF Next

-------------------------------------------------------------------------------
(* "/stop" *)

\* Steps that leave the tasks, their sessions and the "/stop" in progress alone.
LEMMA StopFrame ==
  ASSUME StopInv, UNCHANGED <<active, stopping, victims>>,
         \A t \in Served : /\ pc'[t] \in AtLock <=> pc[t] \in AtLock
                           /\ pc[t] \in AtLock => KeyOf(t)' = KeyOf(t),
         \A k \in Keys : active[k] \subseteq Served, victims \subseteq Served
  PROVE  StopInv'
<1>1. \A t \in Served : pc'[t] \in AtLock => t \in victims' \/ t \in active'[KeyOf(t)']
      BY DEF StopInv
<1>2. \A k \in Keys : \A t \in active'[k] : pc'[t] \in AtLock /\ KeyOf(t)' = k
      BY DEF StopInv
<1>3. /\ \A t \in victims' : pc'[t] \in AtLock
      /\ stopping' = None => victims' = {}
      BY DEF StopInv
<1>4. stopping' # None =>
        \A t \in Served : pc'[t] \in AtLock /\ KeyOf(t)' = Key[stopping'] => t \in victims'
      BY DEF StopInv
<1> QED
    BY <1>1, <1>2, <1>3, <1>4 DEF StopInv

\* A task that ends is forgotten by its session and by the "/stop" that awaits it.
LEMMA StopEnd ==
  ASSUME TypeOK, SubInv, StopInv, NEW t \in Turns, NEW how \in Finished, EndTask(t, how),
         UNCHANGED <<stopping, origin>>, victims' = victims \ {t}
  PROVE  StopInv'
<1>1. /\ pc'[t] = how /\ \A u \in Turns : u # t => pc'[u] = pc[u]
      /\ \A k \in Keys : active'[k] = active[k] \ {t}
      BY DEF EndTask, TypeOK
<1>2. how \notin AtLock
      BY DEF Finished, AtLock
<1>3. \A u : KeyOf(u)' = KeyOf(u)
      BY DEF KeyOf
<1>4. ASSUME NEW u \in Served, pc'[u] \in AtLock
      PROVE  u # t /\ pc[u] \in AtLock
      BY <1>1, <1>2, <1>4, Ids
<1>5. ASSUME NEW u \in Served, pc'[u] \in AtLock
      PROVE  u \in victims' \/ u \in active'[KeyOf(u)']
  <2>1. u # t /\ pc[u] \in AtLock
        BY <1>4, <1>5
  <2>2. CASE u \in victims
        BY <2>1, <2>2
  <2>3. CASE u \in active[KeyOf(u)]
    <3>1. KeyOf(u) \in Keys
      <4>1. pc[u] # "idle" /\ u \in Turns
            BY <2>1, Ids DEF AtLock
      <4> QED
          BY <4>1, SpawnedIs
    <3> QED
        BY <1>1, <1>3, <2>1, <2>3, <3>1
  <2> QED
      BY <2>1, <2>2, <2>3 DEF StopInv
<1>6. \A k \in Keys : active[k] \subseteq Turns
      BY Ids DEF TypeOK, Served
<1>7. \A k \in Keys : \A u \in active'[k] : pc'[u] \in AtLock /\ KeyOf(u)' = k
      BY <1>1, <1>3, <1>6 DEF StopInv
<1>8. victims \subseteq Turns
      BY Ids DEF TypeOK, Served
<1>9. \A u \in victims' : pc'[u] \in AtLock
      BY <1>1, <1>8 DEF StopInv
<1>10. /\ stopping' = None => victims' = {}
       /\ stopping' # None =>
            \A u \in Served : pc'[u] \in AtLock /\ KeyOf(u)' = Key[stopping'] => u \in victims'
       BY <1>3, <1>4 DEF StopInv
<1> QED
    BY <1>5, <1>7, <1>9, <1>10 DEF StopInv

\* Every step keeps the tasks where a "/stop" finds them, and those it found in its hands.
LEMMA StepStop == TypeOK /\ QueueInv /\ SubInv /\ StopInv /\ [Next]_vars => StopInv'
<1> SUFFICES ASSUME TypeOK, QueueInv, SubInv, StopInv, [Next]_vars PROVE StopInv'
    OBVIOUS
<1>1. /\ pc \in [Turns \cup Stops -> {"idle", "queued", "wait", "think"} \cup Finished]
      /\ active \in [Keys -> SUBSET Served] /\ victims \subseteq Served
      BY DEF TypeOK, Served
<1>2. /\ \A k \in Keys : active[k] \subseteq Served
      /\ victims \subseteq Served
      BY <1>1
<1>3. origin' = origin => \A t : KeyOf(t)' = KeyOf(t)
      BY DEF KeyOf
<1>4. ASSUME UNCHANGED <<active, loop, origin>>, NEW m \in Turns \cup Stops, pc[m] \notin AtLock,
             NEW to, to \notin AtLock, pc' = [pc EXCEPT ![m] = to]
      PROVE  StopInv'
  <2>1. \A t \in Served : pc'[t] \in AtLock <=> pc[t] \in AtLock
        BY <1>1, <1>4, Ids
  <2> QED
      BY <1>2, <1>3, <1>4, <2>1, StopFrame DEF loop
<1>5. ASSUME NEW m \in Msgs \cup Stops, Receive(m) PROVE StopInv'
  <2>1. /\ pc' = [pc EXCEPT ![m] = "queued"] /\ pc[m] = "idle" /\ m \in Turns \cup Stops
        /\ UNCHANGED <<active, loop, origin>>
        BY <1>5 DEF Receive, Publish, Turns, agents
  <2> QED
      BY <1>4, <2>1 DEF AtLock
<1>6. CASE Dispatch
  <2> DEFINE m == Head(inbound)
             k == KeyOf(m)
  <2>1. m \in Served /\ pc[m] = "queued"
    <3>1. inbound # <<>> /\ Head(inbound) \notin Stops /\ inbound \in Seq(Queueable)
          BY <1>6 DEF Dispatch, TypeOK
    <3>2. 1 \in DOMAIN inbound /\ Head(inbound) = inbound[1] /\ inbound[1] \in Queueable
          BY <3>1, TailIs
    <3> QED
        BY <3>1, <3>2, Ids DEF QueueInv, PlaceInv
  <2>2. /\ stopping = None /\ stopping' = None /\ victims' = victims /\ origin' = origin
        /\ pc' = [pc EXCEPT ![m] = "wait"] /\ active' = [active EXCEPT ![k] = active[k] \cup {m}]
        BY <1>6 DEF Dispatch, loop, agents
  <2>3. k \in Keys
        BY <2>1, SpawnedIs, Ids
  <2>4. victims = {}
        BY <2>2 DEF StopInv
  <2>5. \A t : KeyOf(t)' = KeyOf(t)
        BY <1>3, <2>2
  <2>6. k = KeyOf(m)
        OBVIOUS
  <2> HIDE DEF m, k
  <2>7. pc'[m] = "wait" /\ \A t \in Served : t # m => pc'[t] = pc[t]
        BY <1>1, <2>1, <2>2, Ids
  <2>8. active'[k] = active[k] \cup {m} /\ \A l \in Keys : l # k => active'[l] = active[l]
        BY <1>1, <2>2, <2>3
  <2>9. ASSUME NEW t \in Served, pc'[t] \in AtLock PROVE t \in active'[KeyOf(t)']
    <3>1. CASE t = m
          BY <2>5, <2>6, <2>8, <3>1
    <3>2. CASE t # m
      <4>1. t \in active[KeyOf(t)] /\ KeyOf(t) \in Keys
        <5>1. pc[t] \in AtLock /\ pc[t] # "idle" /\ t \in Turns
              BY <2>7, <2>9, <3>2, Ids DEF AtLock
        <5> QED
            BY <2>4, <5>1, SpawnedIs DEF StopInv
      <4> QED
          BY <2>5, <2>8, <4>1
    <3> QED
        BY <3>1, <3>2
  <2>10. ASSUME NEW l \in Keys, NEW t \in active'[l] PROVE pc'[t] \in AtLock /\ KeyOf(t)' = l
    <3>1. CASE t = m
      <4>1. m \notin active[l]
            BY <2>1 DEF StopInv, AtLock
      <4> QED
          BY <2>5, <2>6, <2>7, <2>8, <2>10, <3>1, <4>1 DEF AtLock
    <3>2. CASE t # m
      <4>1. t \in active[l] /\ t \in Served
            BY <1>2, <2>8, <2>10, <3>2
      <4> QED
          BY <2>5, <2>7, <3>2, <4>1 DEF StopInv
    <3> QED
        BY <3>1, <3>2
  <2> QED
      BY <2>2, <2>4, <2>9, <2>10 DEF StopInv
<1>7. CASE HandleStop
  <2> DEFINE s == Head(inbound)
             k == Key[s]
  <2>1. /\ s \in Stops /\ stopping = None /\ victims' = active[k] /\ active' = [active EXCEPT ![k] = {}]
        /\ pc' = pc \/ pc' = [pc EXCEPT ![s] = "done"]
        /\ IF active[k] # {} THEN stopping' = s ELSE stopping' = stopping
        /\ origin' = origin
        BY <1>7 DEF HandleStop, StopTargets, CancelSubs, agents
  <2>2. k \in Keys /\ s # None
        BY <2>1, RoutesAssumption, Ids
  <2>3. k = Key[s]
        OBVIOUS
  <2> HIDE DEF s, k
  <2>4. \A t \in Served : pc'[t] = pc[t]
        BY <1>1, <2>1, Ids
  <2>5. victims = {} /\ \A t : KeyOf(t)' = KeyOf(t)
        BY <1>3, <2>1 DEF StopInv
  <2>6. active'[k] = {} /\ \A l \in Keys : l # k => active'[l] = active[l]
        BY <1>1, <2>1, <2>2
  <2>7. ASSUME NEW t \in Served, pc[t] \in AtLock
        PROVE  t \in active[KeyOf(t)] /\ KeyOf(t) \in Keys
    <3>1. pc[t] # "idle" /\ t \in Turns
          BY <2>7, Ids DEF AtLock
    <3> QED
        BY <2>5, <2>7, <3>1, SpawnedIs DEF StopInv
  <2>8. \A t \in Served : pc'[t] \in AtLock => t \in victims' \/ t \in active'[KeyOf(t)']
    <3> SUFFICES ASSUME NEW t \in Served, pc'[t] \in AtLock PROVE t \in victims' \/ t \in active'[KeyOf(t)']
        OBVIOUS
    <3>1. t \in active[KeyOf(t)] /\ KeyOf(t) \in Keys
          BY <2>4, <2>7
    <3> QED
        BY <2>1, <2>5, <2>6, <3>1
  <2>9. \A l \in Keys : \A t \in active'[l] : pc'[t] \in AtLock /\ KeyOf(t)' = l
        BY <1>2, <2>4, <2>5, <2>6 DEF StopInv
  <2>10. \A t \in victims' : pc'[t] \in AtLock
         BY <1>2, <2>1, <2>2, <2>4 DEF StopInv
  <2>11. stopping' = None => victims' = {}
         BY <2>1, <2>2
  <2>12. stopping' # None =>
           \A t \in Served : pc'[t] \in AtLock /\ KeyOf(t)' = Key[stopping'] => t \in victims'
    <3> SUFFICES ASSUME stopping' # None, NEW t \in Served, pc'[t] \in AtLock, KeyOf(t)' = Key[stopping']
                 PROVE  t \in victims'
        OBVIOUS
    <3>1. stopping' = s
          BY <2>1
    <3>2. KeyOf(t) = k /\ t \in active[KeyOf(t)]
          BY <2>3, <2>4, <2>5, <2>7, <3>1
    <3> QED
        BY <2>1, <3>2
  <2> QED
      BY <2>8, <2>9, <2>10, <2>11, <2>12 DEF StopInv
<1>8. CASE FinishStop
  <2>1. /\ stopping' = None /\ victims = {} /\ UNCHANGED <<active, victims, origin>> /\ stopping \in Stops
        /\ pc' = [pc EXCEPT ![stopping] = "done"]
        BY <1>8 DEF FinishStop, CancelSubs, TypeOK
  <2>2. \A t \in Served : pc'[t] = pc[t] /\ KeyOf(t)' = KeyOf(t)
        BY <1>1, <1>3, <2>1, Ids
  <2>3. \A t \in Served : pc'[t] \in AtLock => t \in victims' \/ t \in active'[KeyOf(t)']
        BY <2>1, <2>2 DEF StopInv
  <2>4. \A k \in Keys : \A t \in active'[k] : pc'[t] \in AtLock /\ KeyOf(t)' = k
        BY <1>2, <2>1, <2>2 DEF StopInv
  <2> QED
      BY <2>1, <2>3, <2>4 DEF StopInv
<1>9. CASE Restart
  <2>1. /\ stopping' = None /\ victims' = {} /\ \A k \in Keys : active'[k] = {}
        /\ \A t \in Turns : pc'[t] \notin AtLock
        BY <1>1, <1>9 DEF Restart, AtLock
  <2> QED
      BY <2>1, Ids DEF StopInv
<1>10. ASSUME NEW t \in Turns, BeginTurn(t) PROVE StopInv'
  <2>1. /\ pc[t] = "wait" /\ pc' = [pc EXCEPT ![t] = "think"] /\ UNCHANGED <<active, loop, origin>>
        BY <1>10 DEF BeginTurn, agents
  <2>2. \A u \in Served : pc'[u] \in AtLock <=> pc[u] \in AtLock
        BY <1>1, <2>1, Ids DEF AtLock
  <2> QED
      BY <1>2, <1>3, <2>1, <2>2, StopFrame DEF loop
<1>11. ASSUME NEW t \in Turns, BeginDirect(t) PROVE StopInv'
  <2>1. /\ t \in Directs /\ pc' = [pc EXCEPT ![t] = "think"] /\ UNCHANGED <<active, loop, origin>>
        BY <1>11 DEF BeginDirect, agents
  <2>2. \A u \in Served : pc'[u] = pc[u]
        BY <1>1, <2>1, Ids
  <2> QED
      BY <1>2, <1>3, <2>1, <2>2, StopFrame DEF loop
<1>12. ASSUME NEW t \in Turns, CallMessage(t) PROVE StopInv'
       BY <1>2, <1>3, <1>12, StopFrame DEF CallMessage, loop, agents
<1>13. ASSUME NEW t \in Turns, EndTurn(t) \/ FailTurn(t) PROVE StopInv'
  <2>1. /\ \E how \in Finished : EndTask(t, how)
        /\ UNCHANGED <<stopping, victims, origin>> /\ t \notin victims
        BY <1>13 DEF EndTurn, FailTurn, Thinking, Finished, loop, agents
  <2>2. victims' = victims \ {t}
        BY <2>1
  <2> QED
      BY <2>1, <2>2, StopEnd
<1>14. ASSUME NEW t \in Turns, CancelTurn(t) PROVE StopInv'
       BY <1>14, StopEnd DEF CancelTurn, agents, Finished
<1>15. ASSUME NEW t \in Turns, NEW s \in Subs, CallSpawn(t, s) PROVE StopInv'
  <2>1. /\ sub[s] = "none" /\ UNCHANGED <<pc, active, loop>> /\ origin' = [origin EXCEPT ![s] = ctx]
        BY <1>15 DEF CallSpawn
  <2>2. pc[s] = "idle"
        BY <2>1 DEF SubInv
  <2>3. ASSUME NEW u \in Served, pc[u] \in AtLock PROVE KeyOf(u)' = KeyOf(u)
    <3>1. u # s
          BY <2>2, <2>3 DEF AtLock
    <3>2. u \in Subs => origin'[u] = origin[u]
          BY <2>1, <3>1 DEF TypeOK
    <3> QED
        BY <3>2 DEF KeyOf
  <2> QED
      BY <1>2, <2>1, <2>3, StopFrame DEF loop
<1>16. ASSUME NEW s \in Subs, StartSub(s) PROVE StopInv'
       BY <1>2, <1>3, <1>16, StopFrame DEF StartSub, loop
<1>17. ASSUME NEW s \in Subs, EndSub(s) PROVE StopInv'
  <2>1. /\ sub[s] = "work" /\ pc' = [pc EXCEPT ![s] = "queued"] /\ UNCHANGED <<active, loop, origin>>
        BY <1>17 DEF EndSub, Publish
  <2>2. pc[s] = "idle"
        BY <2>1 DEF SubInv
  <2> QED
      BY <1>4, <2>1, <2>2, Ids DEF AtLock
<1>18. CASE UNCHANGED vars
       BY <1>2, <1>3, <1>18, StopFrame DEF vars, loop, agents
<1> QED
    BY <1>5, <1>6, <1>7, <1>8, <1>9, <1>10, <1>11, <1>12, <1>13, <1>14, <1>15, <1>16, <1>17,
       <1>18 DEF Next

-------------------------------------------------------------------------------
(* Theorems *)

\* The initial state satisfies the invariant.
LEMMA InitIInv == Init => IInv
<1> SUFFICES ASSUME Init PROVE IInv
    OBVIOUS
<1>1. TypeOK
      BY InitType
<1>2. /\ \A t \in Turns \cup Stops : pc[t] = "idle"
      /\ inbound = <<>> /\ arrived = <<>> /\ lockq = <<>>
      /\ \A s \in Subs : sub[s] = "none" /\ telemetry[s] = "none"
      /\ \A k \in Keys : active[k] = {}
      /\ stopping = None /\ victims = {} /\ strayed = {}
      BY DEF Init
<1>3. QueueInv
  <2>1. ArrivedInv
        BY <1>2, Ids DEF ArrivedInv
  <2>2. LineInv
        BY <1>2 DEF LineInv
  <2>3. PlaceInv
        BY <1>2, Ids DEF PlaceInv, AtLock
  <2>4. InOrder
        BY <1>2 DEF InOrder
  <2> QED
      BY <2>1, <2>2, <2>3, <2>4 DEF QueueInv
<1>4. SubInv
      BY <1>2, Ids DEF SubInv
<1>5. ToolInv
      BY <1>2, Ids DEF ToolInv, AnsweredAtHome
<1>6. StopInv
      BY <1>2, Ids DEF StopInv, AtLock
<1> QED
    BY <1>1, <1>3, <1>4, <1>5, <1>6 DEF IInv

\* Every step keeps the invariant.
LEMMA StepIInv == IInv /\ [Next]_vars => IInv'
  BY StepType, StepQueue, StepSub, StepTool, StepStop DEF IInv

\* The inductive invariant holds in every reachable state, for any sets of messages,
\* commands, turns and subagents.
THEOREM DispatchInvariance == Spec => []IInv
<1>1. Init => IInv
      BY InitIInv
<1>2. IInv /\ [Next]_vars => IInv'
      BY StepIInv
<1> QED
    BY <1>1, <1>2, PTL DEF Spec

\* Every variable of the agent loop keeps its type (AgentLoop, MessageBus, SubagentManager).
THEOREM DispatchTypeCorrect == Spec => []TypeOK
<1>1. IInv => TypeOK
      BY DEF IInv
<1> QED
    BY <1>1, DispatchInvariance, PTL

\* Messages and results are worked on in the order of their arrival, and answered in their
\* own chats, by the tasks of AgentLoop._dispatch behind one lock.
THEOREM AnswersInOrder == Spec => []AnsweredInOrder
<1>1. IInv => AnsweredInOrder
      BY DEF IInv, QueueInv, ToolInv, AnsweredInOrder
<1> QED
    BY <1>1, DispatchInvariance, PTL

\* A subagent reports once, unless it was cancelled: telemetry, message and task agree
\* (SubagentManager._run_subagent, cancel_by_session).
THEOREM ResultsAlwaysReported == Spec => []ResultsReported
<1>1. ASSUME IInv PROVE ResultsReported
  <2> SUFFICES ASSUME NEW s \in Subs
               PROVE  /\ telemetry[s] = "ended" <=> pc[s] # "idle"
                      /\ Cardinality({i \in DOMAIN arrived : arrived[i] = s}) <= 1
                      /\ telemetry[s] = "running" => sub[s] \in Alive \cup {"lost", "stillborn"}
      BY DEF ResultsReported
  <2> DEFINE places == {i \in DOMAIN arrived : arrived[i] = s}
  <2>1. \A i, j \in places : i = j
        BY <1>1 DEF IInv, QueueInv, ArrivedInv
  <2>2. places = {} \/ \E i : places = {i}
        BY <2>1
  <2> HIDE DEF places
  <2>3. Cardinality(places) <= 1
    <3>1. Cardinality(places) = 0 \/ Cardinality(places) = 1
          BY <2>2, FS_EmptySet, FS_Singleton, Zenon
    <3> QED
        BY <3>1
  <2>4. SubInv
        BY <1>1 DEF IInv
  <2> QED
      BY <2>3, <2>4 DEF SubInv, places
<1> QED
    BY <1>1, DispatchInvariance, PTL

\* When "/stop" is answered, no task of its session and no subagent of its turns is left
\* (AgentLoop._handle_stop, SubagentManager.cancel_by_session).
THEOREM StopAlwaysComplete == Spec => StopIsComplete
<1> DEFINE Complete ==
      \A s \in Stops : pc[s] # "done" /\ pc'[s] = "done" =>
        /\ \A t \in Msgs \cup Subs : pc'[t] \in {"wait", "think"} => KeyOf(t) # Key[s]
        /\ \A u \in Subs : sub'[u] \in Alive /\ parent[u] \in Msgs \ overlapped =>
             Key[s] # Key[parent[u]] \/ Key[s] # Chat[parent[u]]
<1>1. ASSUME IInv, [Next]_vars PROVE Complete
  <2> SUFFICES ASSUME NEW s \in Stops, pc[s] # "done", pc'[s] = "done"
               PROVE  /\ \A t \in Served : pc'[t] \in {"wait", "think"} => KeyOf(t) # Key[s]
                      /\ \A u \in Subs : sub'[u] \in Alive /\ parent[u] \in Msgs \ overlapped =>
                           Key[s] # Chat[parent[u]]
      BY DEF Served
  <2>1. /\ pc \in [Turns \cup Stops -> {"idle", "queued", "wait", "think"} \cup Finished]
        /\ active \in [Keys -> SUBSET Served]
        BY <1>1 DEF IInv, TypeOK, Served
  <2>2. ASSUME CancelSubs(Key[s]), NEW u \in Subs, sub'[u] \in Alive, parent[u] \in Msgs \ overlapped
        PROVE  Key[s] # Chat[parent[u]]
    <3>1. origin[u] # Key[s] /\ sub'[u] = sub[u]
          BY <2>2 DEF CancelSubs, Alive
    <3>2. origin[u] = Chat[parent[u]]
          BY <1>1, <2>2, <3>1 DEF IInv, SubInv, Alive
    <3> QED
        BY <3>1, <3>2
  <2>3. ASSUME NEW t \in Served, pc[t] \in {"wait", "think"}
        PROVE  KeyOf(t) \in Keys
    <3>1. pc[t] # "idle" /\ t \in Turns
          BY <2>3, Ids
    <3> QED
        BY <1>1, <3>1, SpawnedIs DEF IInv
  <2>4. CASE HandleStop
    <3>1. Head(inbound) = s
          BY <2>1, <2>4, Ids DEF HandleStop
    <3>2. active[Key[s]] = {} /\ CancelSubs(Key[s]) /\ stopping = None
          BY <2>4, <3>1 DEF HandleStop, StopTargets
    <3>3. \A t \in Served : pc'[t] = pc[t]
          BY <2>1, <2>4, <3>1, <3>2, Ids DEF HandleStop, StopTargets
    <3>4. ASSUME NEW t \in Served, pc'[t] \in {"wait", "think"} PROVE KeyOf(t) # Key[s]
          BY <1>1, <2>3, <3>2, <3>3, <3>4 DEF IInv, StopInv, AtLock
    <3> QED
        BY <2>2, <3>2, <3>4
  <2>5. CASE FinishStop
    <3>1. stopping = s /\ victims = {} /\ CancelSubs(Key[s]) /\ s # None
          BY <1>1, <2>1, <2>5, Ids DEF FinishStop, IInv, TypeOK
    <3>2. \A t \in Served : pc'[t] = pc[t]
          BY <2>1, <2>5, <3>1, Ids DEF FinishStop
    <3>3. ASSUME NEW t \in Served, pc'[t] \in {"wait", "think"} PROVE KeyOf(t) # Key[s]
          BY <1>1, <3>1, <3>2, <3>3 DEF IInv, StopInv, AtLock
    <3> QED
        BY <2>2, <3>1, <3>3
\* No other step ends a "/stop".
  <2>6. \/ pc' = pc
        \/ \E m \in Turns \cup Stops : \E to : pc' = [pc EXCEPT ![m] = to] /\ (m \in Stops => to # "done")
        \/ Restart \/ HandleStop \/ FinishStop
    <3>1. ASSUME NEW m \in Msgs \cup Stops, Receive(m)
          PROVE  pc' = [pc EXCEPT ![m] = "queued"] /\ m \in Turns \cup Stops
          BY <3>1 DEF Receive, Publish, Turns
    <3>2. CASE Dispatch
      <4>1. Head(inbound) \in Turns \cup Stops
        <5>1. inbound # <<>> /\ inbound \in Seq(Queueable)
              BY <1>1, <3>2 DEF Dispatch, IInv, TypeOK
        <5> QED
            BY <5>1, Ids
      <4> QED
          BY <3>2, <4>1 DEF Dispatch
    <3>3. ASSUME NEW t \in Turns, BeginTurn(t) \/ BeginDirect(t)
          PROVE  pc' = [pc EXCEPT ![t] = "think"]
          BY <3>3 DEF BeginTurn, BeginDirect
    <3>4. ASSUME NEW t \in Turns, CallMessage(t) \/ \E u \in Subs : CallSpawn(t, u)
          PROVE  pc' = pc
          BY <3>4 DEF CallMessage, CallSpawn
    <3>5. ASSUME NEW t \in Turns, EndTurn(t) \/ FailTurn(t) \/ CancelTurn(t)
          PROVE  \E to : pc' = [pc EXCEPT ![t] = to] /\ (t \in Stops => to # "done")
          BY <3>5, Ids DEF EndTurn, FailTurn, CancelTurn, EndTask
    <3>6. ASSUME NEW u \in Subs, StartSub(u) \/ EndSub(u)
          PROVE  pc' = pc \/ (u \in Turns /\ pc' = [pc EXCEPT ![u] = "queued"])
          BY <3>6, Ids DEF StartSub, EndSub, Publish
    <3>7. CASE UNCHANGED vars
          BY <3>7 DEF vars
    <3>8. "queued" # "done" /\ "wait" # "done" /\ "think" # "done"
          OBVIOUS
    <3> QED
        BY <1>1, <3>1, <3>2, <3>3, <3>4, <3>5, <3>6, <3>7, <3>8 DEF Next
  <2>7. CASE Restart
        BY <2>1, <2>7 DEF Restart
  <2>8. CASE pc' = pc
        BY <2>8
  <2>9. CASE \E m \in Turns \cup Stops : \E to : pc' = [pc EXCEPT ![m] = to] /\ (m \in Stops => to # "done")
        BY <2>1, <2>9
  <2> QED
      BY <2>4, <2>5, <2>6, <2>7, <2>8, <2>9
<1>2. ASSUME IInv, [Next]_vars PROVE [Complete]_vars
      BY <1>1, <1>2
<1>3. Spec => [][Complete]_vars
      BY <1>2, DispatchInvariance, PTL DEF Spec
<1> QED
    BY <1>3 DEF StopIsComplete
===============================================================================

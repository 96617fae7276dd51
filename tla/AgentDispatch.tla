---------------------------- MODULE AgentDispatch -----------------------------
(***************************************************************************)
(* The agent loop as a scheduler of turns (agent/loop.py): the inbound     *)
(* queue of the bus, one task per message behind one global lock, "/stop", *)
(* "/restart", the turns of cron jobs and heartbeats that bypass queue and *)
(* lock (process_direct), and the subagents that turns leave running       *)
(* (agent/subagent.py), whose results come back through the queue.         *)
(*                                                                         *)
(* All turns share one tool registry: set_context and start_turn write the *)
(* target of the message, spawn and cron tools and the flag _sent_in_turn. *)
(* A subagent and the turn that reports its result have the same name.     *)
(***************************************************************************)
EXTENDS Naturals, Sequences, FiniteSets

CONSTANTS
  Msgs,        \* messages of users
  Stops,       \* "/stop" commands
  Directs,     \* turns of process_direct
  Subs,        \* subagents that may be spawned
  Chats,       \* "channel:chat_id"
  Keys,        \* session keys: chats, and threads of them (session_key_override)
  Chat,        \* the chat of each message, stop and direct turn
  Key,         \* the session_key of each message and stop
  MaxRestarts, \* bound: how often the process is replaced
  None

Turns == Msgs \cup Directs \cup Subs
Queueable == Msgs \cup Stops \cup Subs

ASSUME IdsAssumption ==
  /\ Msgs \cap Stops = {} /\ Msgs \cap Directs = {} /\ Msgs \cap Subs = {}
  /\ Stops \cap Directs = {} /\ Stops \cap Subs = {} /\ Directs \cap Subs = {}
  /\ None \notin Turns \cup Stops \cup Chats
ASSUME RoutesAssumption ==
  /\ Chats \subseteq Keys /\ MaxRestarts \in Nat
  /\ Chat \in [Msgs \cup Stops \cup Directs -> Chats]
  /\ Key \in [Msgs \cup Stops -> Keys]

VARIABLES
  inbound,    \* MessageBus.inbound
  pc,         \* where each turn and each stop stands
  lockq,      \* _processing_lock: its holder, then its waiters in FIFO order
  active,     \* _active_tasks: session key -> tasks
  stopping,   \* the "/stop" whose handler blocks AgentLoop.run, or None
  victims,    \* the tasks it cancelled and still awaits
  ctx,        \* the chat that set_context last gave to the shared tools
  sent,       \* MessageTool._sent_in_turn
  sub,        \* state of each subagent's task
  origin,     \* the chat, and session key, each subagent was spawned for
  telemetry,  \* state/subagents/<id>.json: its status ("ended": ok or error)
  spoke,      \* observer: user turns that published something
  strayed,    \* observer: turns that published to another chat without an overlap
  parent,     \* observer: the turn that spawned each subagent
  overlapped, \* observer: turns that were at work at the same time as another
  arrived,    \* observer: messages and results in the order of their arrival
  restarts

queue == <<inbound, arrived>>
loop == <<stopping, victims>>
tools == <<ctx, sent, overlapped>>
agents == <<sub, origin, telemetry, parent>>
out == <<spoke, strayed>>
vars == <<queue, pc, lockq, active, loop, tools, agents, out, restarts>>

Finished == {"done", "failed", "cancelled", "lost"}
Alive == {"new", "work"}

KeyOf(t) == IF t \in Subs THEN origin[t] ELSE Key[t]
Home(t) == IF t \in Subs THEN origin[t] ELSE Chat[t]

TypeOK ==
  /\ inbound \in Seq(Queueable) /\ arrived \in Seq(Msgs \cup Subs)
  /\ pc \in [Turns \cup Stops -> {"idle", "queued", "wait", "think"} \cup Finished]
  /\ lockq \in Seq(Msgs \cup Subs)
  /\ active \in [Keys -> SUBSET (Msgs \cup Subs)]
  /\ stopping \in Stops \cup {None} /\ victims \in SUBSET (Msgs \cup Subs)
  /\ ctx \in Chats \cup {None} /\ sent \in BOOLEAN
  /\ sub \in [Subs -> Alive \cup {"none", "ended", "cancelled", "stillborn", "lost"}]
  /\ origin \in [Subs -> Chats \cup {None}]
  /\ telemetry \in [Subs -> {"none", "running", "ended", "cancelled"}]
  /\ spoke \in SUBSET Msgs /\ strayed \in SUBSET Turns
  /\ parent \in [Subs -> Turns \cup {None}] /\ overlapped \in SUBSET Turns
  /\ restarts \in 0..MaxRestarts

Init ==
  /\ inbound = <<>> /\ arrived = <<>>
  /\ pc = [t \in Turns \cup Stops |-> "idle"]
  /\ lockq = <<>>
  /\ active = [k \in Keys |-> {}]
  /\ stopping = None /\ victims = {}
  /\ ctx = None /\ sent = FALSE
  /\ sub = [s \in Subs |-> "none"]
  /\ origin = [s \in Subs |-> None]
  /\ telemetry = [s \in Subs |-> "none"]
  /\ spoke = {} /\ strayed = {}
  /\ parent = [s \in Subs |-> None] /\ overlapped = {}
  /\ restarts = 0

-------------------------------------------------------------------------------
(* The bus and the loop of AgentLoop.run *)

Publish(m) ==
  /\ inbound' = Append(inbound, m)
  /\ arrived' = IF m \in Stops THEN arrived ELSE Append(arrived, m)
  /\ pc' = [pc EXCEPT ![m] = "queued"]

\* A channel publishes a message or a "/stop".
Receive(m) ==
  /\ m \in Msgs \cup Stops /\ pc[m] = "idle"
  /\ Publish(m)
  /\ UNCHANGED <<lockq, active, loop, tools, agents, out, restarts>>

\* Take the next message, create its _dispatch task, which queues for the lock.
Dispatch ==
  LET m == Head(inbound) IN
  /\ stopping = None /\ inbound # <<>> /\ m \notin Stops
  /\ inbound' = Tail(inbound)
  /\ pc' = [pc EXCEPT ![m] = "wait"]
  /\ active' = [active EXCEPT ![KeyOf(m)] = @ \cup {m}]
  /\ lockq' = Append(lockq, m)
  /\ UNCHANGED <<arrived, loop, tools, agents, out, restarts>>

-------------------------------------------------------------------------------
(* Turns *)

\* Turns at work when t begins, and t when there is one: they share the tools.
Overlap(t) ==
  LET others == {u \in Turns \ {t} : pc[u] = "think"} IN
  IF others = {} THEN {} ELSE others \cup {t}

\* _set_tool_context, and start_turn unless it is the turn of a subagent's result.
TurnContext(t) ==
  /\ ctx' = Home(t)
  /\ sent' = (t \in Subs /\ sent)
  /\ overlapped' = overlapped \cup Overlap(t)

\* Mutation of HasLock: whoever waits may go when nobody is at work.
HasLockBarging(t) == \A u \in Msgs \cup Subs : pc[u] # "think"

\* The holder is the head of the queue of an asyncio.Lock.
HasLock(t) == lockq # <<>> /\ Head(lockq) = t

\* _process_message of the lock's holder, up to its agent loop.
BeginTurn(t) ==
  /\ t \in Msgs \cup Subs /\ pc[t] = "wait" /\ t \notin victims
  /\ HasLock(t)
  /\ pc' = [pc EXCEPT ![t] = "think"]
  /\ TurnContext(t)
  /\ UNCHANGED <<queue, lockq, active, loop, agents, out, restarts>>

\* process_direct: a cron job or a heartbeat starts a turn whatever else is running.
BeginDirect(d) ==
  /\ d \in Directs /\ pc[d] = "idle"
  /\ pc' = [pc EXCEPT ![d] = "think"]
  /\ TurnContext(d)
  /\ UNCHANGED <<queue, lockq, active, loop, agents, out, restarts>>

\* Something of turn t is published for a chat.
PublishOutbound(t, to) ==
  /\ spoke' = spoke \cup ({t} \cap Msgs)
  /\ strayed' = IF to = Home(t) \/ t \in overlapped THEN strayed ELSE strayed \cup {t}

Thinking(t) == pc[t] = "think" /\ t \notin victims

\* The LLM calls the message tool without naming a target.
CallMessage(t) ==
  /\ Thinking(t)
  /\ PublishOutbound(t, ctx)
  /\ sent' = TRUE
  /\ UNCHANGED <<queue, pc, lockq, active, loop, ctx, overlapped, agents, restarts>>

\* The LLM calls the spawn tool: telemetry says "running" and a task is created.
CallSpawn(t, s) ==
  /\ Thinking(t) /\ s \in Subs /\ sub[s] = "none"
  /\ sub' = [sub EXCEPT ![s] = "new"]
  /\ origin' = [origin EXCEPT ![s] = ctx]
  /\ telemetry' = [telemetry EXCEPT ![s] = "running"]
  /\ parent' = [parent EXCEPT ![s] = t]
  /\ UNCHANGED <<queue, pc, lockq, active, loop, tools, out, restarts>>

\* asyncio.Lock, released by its holder t or given up by the waiter t.
Left(t) ==
  IF \A i \in DOMAIN lockq : lockq[i] # t THEN lockq
  ELSE LET i == CHOOSE p \in DOMAIN lockq : lockq[p] = t IN
       SubSeq(lockq, 1, i - 1) \o SubSeq(lockq, i + 1, Len(lockq))

\* Mutation of EndTask: whoever holds the lock keeps it.
EndTaskKeepsLock(t, how) ==
  /\ pc' = [pc EXCEPT ![t] = how]
  /\ lockq' = IF HasLock(t) THEN lockq ELSE Left(t)
  /\ active' = [k \in Keys |-> active[k] \ {t}]

\* The task ends: the lock is released or given up, the done callback forgets the task.
EndTask(t, how) ==
  /\ pc' = [pc EXCEPT ![t] = how]
  /\ lockq' = Left(t)
  /\ active' = [k \in Keys |-> active[k] \ {t}]

\* The agent loop has its answer; a user's turn that used the message tool stays silent,
\* and whether a direct turn's answer is delivered is up to its caller.
EndTurn(t) ==
  /\ Thinking(t)
  /\ EndTask(t, "done")
  /\ CASE t \in Subs    -> PublishOutbound(t, Home(t))
       [] t \in Msgs    -> IF sent THEN UNCHANGED out ELSE PublishOutbound(t, Home(t))
       [] t \in Directs -> UNCHANGED out \/ (~sent /\ PublishOutbound(t, Home(t)))
  /\ UNCHANGED <<queue, loop, tools, agents, restarts>>

\* An exception: a user gets an error message.  That of a result's turn is addressed to
\* the channel "system", which no channel serves; a direct turn's goes to its caller.
FailTurn(t) ==
  /\ Thinking(t)
  /\ EndTask(t, "failed")
  /\ IF t \in Msgs THEN PublishOutbound(t, Home(t)) ELSE UNCHANGED out
  /\ UNCHANGED <<queue, loop, tools, agents, restarts>>

\* CancelledError: a victim of "/stop", waiting or at work, or the turn of a cron job
\* whose tick was cancelled.  Nothing is published.
CancelTurn(t) ==
  /\ \/ t \in victims /\ pc[t] \in {"wait", "think"}
     \/ t \in Directs /\ pc[t] = "think"
  /\ EndTask(t, "cancelled")
  /\ victims' = victims \ {t}
  /\ UNCHANGED <<queue, stopping, tools, agents, out, restarts>>

-------------------------------------------------------------------------------
(* Subagents *)

StartSub(s) ==
  /\ sub[s] = "new"
  /\ sub' = [sub EXCEPT ![s] = "work"]
  /\ UNCHANGED <<queue, pc, lockq, active, loop, tools, origin, telemetry, parent, out, restarts>>

\* It finishes or fails: telemetry, then the announcement as a message of "system".
EndSub(s) ==
  /\ sub[s] = "work"
  /\ sub' = [sub EXCEPT ![s] = "ended"]
  /\ telemetry' = [telemetry EXCEPT ![s] = "ended"]
  /\ Publish(s)
  /\ UNCHANGED <<lockq, active, loop, tools, origin, parent, out, restarts>>

\* Mutation of CancelSubs: the telemetry takes over the state of the task.
CancelSubsStates(k) ==
  LET hit(s) == origin[s] = k /\ sub[s] \in Alive IN
  /\ sub' = [s \in Subs |-> IF ~hit(s) THEN sub[s]
                            ELSE IF sub[s] = "new" THEN "stillborn" ELSE "cancelled"]
  /\ telemetry' = [s \in Subs |-> IF hit(s) THEN sub'[s] ELSE telemetry[s]]
  /\ UNCHANGED <<origin, parent>>

\* Mutation of CancelSubs: a cancelled task has no handler for its telemetry either.
CancelSubsSilently(k) ==
  LET hit(s) == origin[s] = k /\ sub[s] \in Alive IN
  /\ sub' = [s \in Subs |-> IF ~hit(s) THEN sub[s]
                            ELSE IF sub[s] = "new" THEN "stillborn" ELSE "cancelled"]
  /\ UNCHANGED <<origin, telemetry, parent>>

\* cancel_by_session(k): a task that never ran has no handler to write the telemetry.
CancelSubs(k) ==
  LET hit(s) == origin[s] = k /\ sub[s] \in Alive IN
  /\ sub' = [s \in Subs |-> IF ~hit(s) THEN sub[s]
                            ELSE IF sub[s] = "new" THEN "stillborn" ELSE "cancelled"]
  /\ telemetry' = [s \in Subs |-> IF hit(s) /\ sub[s] = "work" THEN "cancelled" ELSE telemetry[s]]
  /\ UNCHANGED <<origin, parent>>

-------------------------------------------------------------------------------
(* "/stop" and "/restart" *)

\* Mutation of StopTargets: only the task that is at work is cancelled.
StopTargetsWorking(k) == {t \in active[k] : pc[t] = "think"}

StopTargets(k) == active[k]

\* _handle_stop: pop and cancel the session's tasks; with none of them there is no await
\* before the subagents are cancelled.
HandleStop ==
  LET s == Head(inbound)
      k == Key[s] IN
  /\ stopping = None /\ inbound # <<>> /\ s \in Stops
  /\ inbound' = Tail(inbound)
  /\ victims' = StopTargets(k)
  /\ active' = [active EXCEPT ![k] = {}]
  /\ IF StopTargets(k) # {}
       THEN stopping' = s /\ UNCHANGED <<pc, agents>>
       ELSE /\ CancelSubs(k)
            /\ pc' = [pc EXCEPT ![s] = "done"]
            /\ UNCHANGED stopping
  /\ UNCHANGED <<arrived, lockq, tools, out, restarts>>

\* All cancelled tasks were awaited, so whatever they spawned has started.
FinishStop ==
  /\ stopping # None /\ victims = {}
  /\ \A s \in Subs : sub[s] # "new"
  /\ CancelSubs(Key[stopping])
  /\ pc' = [pc EXCEPT ![stopping] = "done"]
  /\ stopping' = None
  /\ UNCHANGED <<queue, lockq, active, victims, tools, out, restarts>>

\* "/restart" (os.execv a second later) or the death of the process: only the
\* telemetry files and what was already published remain.
Restart ==
  /\ restarts < MaxRestarts /\ restarts' = restarts + 1
  /\ inbound' = <<>> /\ lockq' = <<>>
  /\ pc' = [t \in Turns \cup Stops |-> IF pc[t] \in {"queued", "wait", "think"} THEN "lost" ELSE pc[t]]
  /\ active' = [k \in Keys |-> {}]
  /\ stopping' = None /\ victims' = {}
  /\ ctx' = None /\ sent' = FALSE
  /\ sub' = [s \in Subs |-> IF sub[s] \in Alive THEN "lost" ELSE sub[s]]
  /\ UNCHANGED <<arrived, overlapped, origin, telemetry, parent, out>>

Next ==
  \/ \E m \in Msgs \cup Stops : Receive(m)
  \/ Dispatch \/ HandleStop \/ FinishStop \/ Restart
  \/ \E t \in Turns : \/ BeginTurn(t) \/ BeginDirect(t) \/ CallMessage(t)
                      \/ EndTurn(t) \/ FailTurn(t) \/ CancelTurn(t)
                      \/ \E s \in Subs : CallSpawn(t, s)
  \/ \E s \in Subs : StartSub(s) \/ EndSub(s)

Spec == Init /\ [][Next]_vars

\* The event loop runs what is ready; LLM calls return; a turn does not call tools for
\* ever (max_iterations); cancellation is delivered.
FairSpec ==
  /\ Spec
  /\ WF_vars(Dispatch) /\ WF_vars(HandleStop) /\ WF_vars(FinishStop)
  /\ \A t \in Turns : WF_vars(BeginTurn(t)) /\ WF_vars(EndTurn(t)) /\ WF_vars(CancelTurn(t))
  /\ \A s \in Subs : WF_vars(StartSub(s)) /\ WF_vars(EndSub(s))

-------------------------------------------------------------------------------
(* Properties *)

\* Messages and results are worked on strictly in the order of their arrival, over all
\* sessions, although each has a task of its own and any of them may be cancelled.
InOrder ==
  \A i, j \in DOMAIN arrived :
    i < j /\ pc[arrived[j]] \in {"think", "done", "failed"} => pc[arrived[i]] \in Finished

\* A user's turn that ends, well or badly, has put something into its chat, and what a
\* turn publishes goes to its own chat, although context and flag are shared by all
\* turns.  Excepted: turns that overlap with one outside the lock.
AnsweredAtHome ==
  /\ \A m \in Msgs \ overlapped : pc[m] \in {"done", "failed"} => m \in spoke
  /\ strayed = {}

\* Tasks that run side by side answer like one that works through its queue.
AnsweredInOrder == InOrder /\ AnsweredAtHome

\* When "/stop" is answered, no task of its session is left, and no subagent that a turn
\* of the session spawned, even while the stop was being handled.  Excepted: threads,
\* whose subagents are filed under the chat, and turns that overlapped with another.
StopIsComplete ==
  [][\A s \in Stops : pc[s] # "done" /\ pc'[s] = "done" =>
       /\ \A t \in Msgs \cup Subs : pc'[t] \in {"wait", "think"} => KeyOf(t) # Key[s]
       /\ \A u \in Subs : sub'[u] \in Alive /\ parent[u] \in Msgs \ overlapped =>
            Key[s] # Key[parent[u]] \/ Key[s] # Chat[parent[u]]]_vars

\* A subagent reports once, and only if it was not cancelled: its result is queued or
\* handled exactly when its telemetry says it ended by itself.
ResultsReported ==
  \A s \in Subs :
    /\ telemetry[s] = "ended" <=> pc[s] # "idle"
    /\ Cardinality({i \in DOMAIN arrived : arrived[i] = s}) <= 1
    /\ telemetry[s] = "running" => sub[s] \in Alive \cup {"lost", "stillborn"}

\* Every message, result and "/stop" that arrived is dealt with: the global lock and the
\* handler that blocks the loop never wait for each other.
Settles == <>[](\A t \in Turns \cup Stops : pc[t] \in Finished \cup {"idle"})
===============================================================================

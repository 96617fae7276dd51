-------------------------------- MODULE Mochat ---------------------------------
(***************************************************************************)
(* The inbound side of the Mochat channel (nanobot/channels/mochat.py).    *)
(* Events come over a socket, to which each connect handler subscribes     *)
(* from the cursor of the session; while the socket is down, a worker      *)
(* fetches them: from the cursor for a session, the last messages for a    *)
(* panel.  Ids that were seen are dropped, a session without a cursor      *)
(* drops its first payload as history, and a panel may hold messages back  *)
(* until the bot is mentioned or a timer fires.  The cursor goes to disk   *)
(* with a delay.                                                           *)
(*                                                                         *)
(* A behaviour is about one target, a session or a panel.                  *)
(***************************************************************************)
EXTENDS Naturals, Sequences, FiniteSets, SequencesExt

CONSTANTS
  Settings,     \* kinds of targets with their settings
  Limit,        \* watch_limit
  Cap,          \* MAX_SEEN_MESSAGE_IDS
  MaxPosted, MaxLives, MaxFaults, \* bounds on messages, starts of the channel, and calls that fail
  None

ASSUME SettingsAssumption ==
  Settings \subseteq [kind: {"session", "panel"}, delay: BOOLEAN, require: BOOLEAN]
ASSUME LimitAssumption == Limit \in Nat \ {0} /\ Cap \in Nat \ {0}
ASSUME BoundsAssumption == {MaxPosted, MaxLives, MaxFaults} \subseteq Nat

VARIABLES
  config,    \* the target of the behaviour
  posted,    \* the messages of the target, whose sequence numbers are their ids
  lives,     \* how often the channel was started
  sock,      \* "off", "starting", "open", "down", or "gone": the first connect failed
  handlers,  \* connect handlers that wait for the answer to their subscription
  pushing,   \* how far the server has told the socket of this connection, None if it does not
  wire,      \* payloads pushed over the socket
  fallback,  \* _fallback_mode
  worker,    \* None, or the fallback worker: the payload it is to handle, None while it has not asked
  cursor,    \* _session_cursor, None if the session is not in it
  dirty,     \* the task that will save the cursors is there
  saved,     \* the cursor file, None if it lacks the session or cannot be read
  cold,      \* the session is in _cold_sessions
  memory,    \* of the events: ids seen, entries held back, their timer, and what was put on the bus
  told,      \* ids put on the bus in any life (observer)
  history,   \* ids dropped as history (observer)
  faults

connection == <<sock, handlers, pushing, wire, fallback, worker>>
disk == <<dirty, saved>>
vars == <<config, posted, lives, connection, cursor, disk, cold, memory, told, history, faults>>

Fresh == [seen |-> <<>>, held |-> <<>>, timer |-> FALSE, out |-> <<>>]

Init ==
  /\ config \in Settings
  /\ posted = <<>> /\ lives = 0
  /\ sock = "off" /\ handlers = {} /\ pushing = None /\ wire = <<>>
  /\ fallback = FALSE /\ worker = None
  /\ cursor = None /\ dirty = FALSE /\ saved = None /\ cold = FALSE
  /\ memory = Fresh /\ told = {} /\ history = {} /\ faults = 0

On == sock # "off"
Session == config.kind = "session"
From(c) == IF c = None THEN 0 ELSE c
NewerOf(i, j) == IF i > j THEN i ELSE j
Upto(i) == NewerOf(0, IF Len(posted) > i + Limit THEN i + Limit ELSE Len(posted))

\* The messages after i, as many as a payload holds.
After(i) == [n \in 1..(Upto(i) - i) |-> i + n]
Latest == LET n == IF Len(posted) > Limit THEN Limit ELSE Len(posted)
          IN  [i \in 1..n |-> Len(posted) - n + i]

(* What becomes of an event: _process_inbound_event. *)
Ignored(id) == posted[id].who # "friend"
Remember(mem, id) ==
  LET all == Append(mem.seen, id)
  IN  [mem EXCEPT !.seen = IF Len(all) > Cap THEN Tail(all) ELSE all]

Dispatch(mem, ids) == [mem EXCEPT !.out = Append(@, ids)]

\* A mention takes what was held back along; the timer is for what is held now.
Hold(mem, id) == [mem EXCEPT !.held = Append(@, id), !.timer = TRUE]
Release(mem, ids) == Dispatch([mem EXCEPT !.held = <<>>, !.timer = FALSE], ids)

Seen(mem, id) == id \in ToSet(mem.seen)

Processed(mem, id) ==
  LET new == Remember(mem, id)
      mentioned == posted[id].mention
  IN  CASE Ignored(id) \/ Seen(mem, id) -> mem
        [] OTHER -> CASE Session -> Dispatch(new, <<id>>)
                      [] config.delay -> IF mentioned THEN Release(new, Append(new.held, id)) ELSE Hold(new, id)
                      [] config.require /\ ~mentioned -> new
                      [] OTHER -> Dispatch(new, <<id>>)

ProcessedAll(ids) == FoldLeft(Processed, memory, ids)

OnBus(mem) == UNION {ToSet(mem.out[n]) : n \in DOMAIN mem.out}
Remembers(mem) == memory' = mem /\ told' = told \cup OnBus(mem)

\* _mark_session_cursor: never back.
MarkedTo(i) == IF i < From(cursor) THEN cursor ELSE i

\* _handle_watch_payload, of a list of events that may be empty.
Watched(ids) ==
  IF Session
  THEN /\ cursor' = IF ids = <<>> THEN MarkedTo(From(cursor)) ELSE MarkedTo(Last(ids))
       /\ dirty' = TRUE
       /\ cold' = FALSE
       /\ IF cold THEN history' = history \cup ToSet(ids) /\ UNCHANGED <<memory, told>>
                  ELSE Remembers(ProcessedAll(ids)) /\ UNCHANGED history
  ELSE /\ Remembers(ProcessedAll(ids))
       /\ UNCHANGED <<cursor, dirty, cold, history>>

Quiet == UNCHANGED <<cursor, dirty, cold, memory, told, history>>

Post ==
  /\ Len(posted) < MaxPosted
  /\ \E who \in {"friend", "stranger"}, mention \in BOOLEAN :
       /\ mention => who = "friend"
       /\ Session => who = "friend" /\ ~mention
       /\ posted' = Append(posted, [who |-> who, mention |-> mention])
  /\ UNCHANGED <<config, lives, connection, cursor, disk, cold, memory, told, history, faults>>

(* The life of the channel. *)
\* A session of the configuration without a cursor starts cold.
Start ==
  /\ ~On /\ lives < MaxLives
  /\ lives' = lives + 1
  /\ sock' = "starting"
  /\ cursor' = saved
  /\ cold' = (Session /\ saved = None)
  /\ memory' = Fresh
  /\ UNCHANGED <<config, posted, handlers, pushing, wire, fallback, worker, disk, told, history, faults>>

Off ==
  /\ sock' = "off" /\ handlers' = {} /\ pushing' = None /\ wire' = <<>>
  /\ fallback' = FALSE /\ worker' = None
  /\ cursor' = None /\ dirty' = FALSE /\ cold' = FALSE
  /\ memory' = Fresh
  /\ UNCHANGED <<config, posted, lives, told, history, faults>>

\* A handler that has its answer takes it before the cursors are saved (half a second, or a farewell, later).
AllHandled == \A h \in handlers : h.reply # "answered"

\* stop(): what is held back is gone, the cursors are saved.
Stop ==
  /\ On /\ lives < MaxLives /\ AllHandled
  /\ saved' = IF Session THEN cursor ELSE saved
  /\ Off

\* The process dies, perhaps while it writes the cursor file.
Crash ==
  /\ On /\ lives < MaxLives
  /\ saved' \in IF dirty THEN {saved, None} ELSE {saved}
  /\ Off

SaveCursors ==
  /\ On /\ dirty /\ AllHandled
  /\ saved' = cursor /\ dirty' = FALSE
  /\ UNCHANGED <<config, posted, lives, connection, cursor, cold, memory, told, history, faults>>

(* The socket. *)
EnsureFallback == fallback' = TRUE /\ worker' = IF worker = None THEN [got |-> None] ELSE worker
\* Mutation of StopFallback: the workers are not cancelled.
StopFallbackOnly == fallback' = FALSE /\ UNCHANGED worker

StopFallback == fallback' = FALSE /\ worker' = None

\* Mutation of SubscribesFrom: from the newest message on.
SubscribesFromEnd == Len(posted)

SubscribesFrom == From(cursor)

\* The connect handler asks for the events after the cursor, and waits.  Two handlers may wait at a time; the
\* client leaves a tenth of a second between connections.
Connect ==
  /\ sock \in {"starting", "down"} /\ Cardinality(handlers) < 2 /\ AllHandled
  /\ sock' = "open"
  /\ handlers' = handlers \cup {[live |-> TRUE, reply |-> None, got |-> <<>>, from |-> SubscribesFrom]}
  /\ cold' = (cold \/ (Session /\ cursor = None))
  /\ UNCHANGED <<config, posted, lives, pushing, wire, fallback, worker, cursor, disk, memory, told, history, faults>>

\* Mutation of ConnectFails: the exception leaves the handler before the workers start.
ConnectFailsQuietly ==
  /\ sock = "starting" /\ handlers = {} /\ faults < MaxFaults
  /\ faults' = faults + 1
  /\ sock' = "gone"
  /\ UNCHANGED <<config, posted, lives, handlers, pushing, wire, fallback, worker, cursor, disk, cold, memory, told, history>>

\* No connection at start(): there will be no socket, the workers go on for ever.
ConnectFails ==
  /\ sock = "starting" /\ handlers = {} /\ faults < MaxFaults
  /\ faults' = faults + 1
  /\ sock' = "gone"
  /\ EnsureFallback
  /\ UNCHANGED <<config, posted, lives, handlers, pushing, wire, cursor, disk, cold, memory, told, history>>

\* The server answers with the events after the cursor, and from then on pushes those that follow.
Answer(h) ==
  /\ sock = "open" /\ h \in handlers /\ h.live /\ h.reply = None
  /\ handlers' = (handlers \ {h}) \cup {[h EXCEPT !.reply = "answered", !.got = IF Session THEN After(h.from) ELSE <<>>]}
  /\ pushing' = IF Session THEN Upto(h.from) ELSE Len(posted)
  /\ UNCHANGED <<config, posted, lives, sock, wire, fallback, worker, cursor, disk, cold, memory, told, history, faults>>

\* The handler takes the answer, and goes on to the panels and the directory.
Subscribed(h) ==
  /\ h \in handlers /\ h.reply = "answered"
  /\ handlers' = (handlers \ {h}) \cup {[h EXCEPT !.reply = "subscribed", !.got = <<>>]}
  /\ IF Session THEN Watched(h.got) ELSE Quiet
  /\ UNCHANGED <<config, posted, lives, sock, pushing, wire, fallback, worker, saved, faults>>

\* _socket_call gets no answer, or a refusal; of the panels perhaps after the sessions had theirs.
SubscribeFails(h) ==
  /\ h \in handlers /\ h.reply \in {None, "subscribed"}
  /\ h.live => faults < MaxFaults
  /\ faults' = IF h.live THEN faults + 1 ELSE faults
  /\ handlers' = (handlers \ {h}) \cup {[h EXCEPT !.reply = "failed"]}
  /\ UNCHANGED <<config, posted, lives, sock, pushing, wire, fallback, worker, cursor, disk, cold, memory, told, history>>

\* The handler is through.  It does not look at the connection again.
HandlerEnds(h) ==
  /\ h \in handlers /\ h.reply \in {"subscribed", "failed"}
  /\ handlers' = handlers \ {h}
  /\ IF h.reply = "subscribed" THEN StopFallback ELSE EnsureFallback
  /\ Quiet
  /\ UNCHANGED <<config, posted, lives, sock, pushing, wire, saved, faults>>

Push ==
  /\ sock = "open" /\ pushing # None /\ pushing < Len(posted)
  /\ wire' = Append(wire, After(pushing))
  /\ pushing' = Upto(pushing)
  /\ UNCHANGED <<config, posted, lives, sock, handlers, fallback, worker, cursor, disk, cold, memory, told, history, faults>>

PushHandled ==
  /\ sock = "open" /\ wire # <<>>
  /\ wire' = Tail(wire)
  /\ Watched(Head(wire))
  /\ UNCHANGED <<config, posted, lives, sock, handlers, pushing, fallback, worker, saved, faults>>

\* notify:chat.*: the newest message by another way, which knows no cursor.
Notified ==
  /\ sock = "open" /\ posted # <<>>
  /\ ~Seen(memory, Len(posted))
  /\ Remembers(Processed(memory, Len(posted)))
  /\ UNCHANGED <<config, posted, lives, connection, cursor, disk, cold, history, faults>>

Disconnect ==
  /\ sock = "open"
  /\ sock' = "down" /\ pushing' = None /\ wire' = <<>>
  /\ handlers' = {[h EXCEPT !.live = FALSE] : h \in handlers}
  /\ EnsureFallback
  /\ UNCHANGED <<config, posted, lives, cursor, disk, cold, memory, told, history, faults>>

(* The fallback worker. *)
WorkerAsks ==
  /\ worker # None /\ worker.got = None
  /\ worker' = [got |-> IF Session THEN After(From(cursor)) ELSE Latest]
  /\ UNCHANGED <<config, posted, lives, sock, handlers, pushing, wire, fallback, cursor, disk, cold, memory, told, history, faults>>

WorkerHandles ==
  /\ worker # None /\ worker.got # None
  /\ worker' = [got |-> None]
  /\ Watched(worker.got)
  /\ UNCHANGED <<config, posted, lives, sock, handlers, pushing, wire, fallback, saved, faults>>

WorkerError ==
  /\ worker # None /\ worker.got # None /\ faults < MaxFaults
  /\ faults' = faults + 1
  /\ worker' = [got |-> None]
  /\ UNCHANGED <<config, posted, lives, sock, handlers, pushing, wire, fallback, cursor, disk, cold, memory, told, history>>

\* The delay is over: _flush_delayed_entries.
TimerFires ==
  /\ On /\ memory.timer
  /\ Remembers(IF memory.held = <<>> THEN [memory EXCEPT !.timer = FALSE] ELSE Release(memory, memory.held))
  /\ UNCHANGED <<config, posted, lives, connection, cursor, disk, cold, history, faults>>

Worker == WorkerAsks \/ WorkerError \/ WorkerHandles
Handlers == \E h \in handlers : SubscribeFails(h) \/ HandlerEnds(h) \/ Answer(h) \/ Subscribed(h)
Socket == Connect \/ ConnectFails

Next ==
  \/ Post \/ Start \/ Stop \/ Crash \/ SaveCursors \/ Socket \/ Handlers \/ Push \/ PushHandled \/ Notified
  \/ Disconnect \/ Worker \/ TimerFires

\* The channel is started again, the client reconnects, calls return, and tasks that can run do.
Fairness ==
  WF_vars(Start \/ Socket) /\ WF_vars(Handlers) /\ WF_vars(Worker) /\ WF_vars(Push \/ PushHandled)

Spec == Init /\ [][Next]_vars /\ Fairness

-----------------------------------------------------------------------------
Ids == 1..Len(posted)
Replies == {None, "answered", "subscribed", "failed"}

\* The types of the state; a cursor never points past the messages there are.
TypeOK ==
  /\ config \in Settings /\ lives \in 0..MaxLives /\ faults \in 0..MaxFaults
  /\ sock \in {"off", "starting", "open", "down", "gone"}
  /\ \A h \in handlers : h.live \in BOOLEAN /\ h.reply \in Replies /\ ToSet(h.got) \subseteq Ids
  /\ From(cursor) \in 0..Len(posted) /\ From(saved) \in 0..Len(posted)
  /\ ToSet(memory.seen) \subseteq Ids /\ Len(memory.seen) <= Cap
  /\ (worker # None) = fallback
  /\ told \subseteq Ids /\ history \subseteq Ids

Settled(id) == id \in told \cup history \/ Ignored(id)
InHand(id) == \E h \in handlers : id \in ToSet(h.got)

\* Whatever connects, breaks, restarts, or overtakes: no cursor, in memory or on disk, points past a message of a
\* session that was neither put on the bus, nor sent by someone else, nor dropped as history; and a message of a
\* panel that is held back has a timer that will let it go.
NothingLost ==
  /\ Session => \A id \in Ids :
       /\ id <= From(cursor) => Settled(id) \/ InHand(id)
       /\ id <= From(saved) => Settled(id)
  /\ memory.held # <<>> => memory.timer
  /\ ~Session => \A id \in ToSet(memory.seen) :
       \/ id \in OnBus(memory) \cup ToSet(memory.held)
       \/ ~config.delay /\ config.require /\ ~posted[id].mention

\* In one life of the channel no message is put on the bus twice, whichever of the socket, the worker, the
\* subscription and the notification bring it.
OncePerLife ==
  LET out == FlattenSeq(memory.out)
  IN  IsInjective(out) /\ ToSet(out) \cap ToSet(memory.held) = {}

\* Between the platform and the bus nothing disappears and nothing is doubled.
DeliveredOnce == NothingLost /\ OncePerLife

\* The channel hears nothing: it has a connection that nobody subscribed to, and no worker.
Deaf == sock = "open" /\ pushing = None /\ handlers = {} /\ ~fallback

\* Time and again every message of a session so far has got to the bus or was dropped, through all failures and
\* restarts, unless a handler of an earlier connection stopped the workers of this one.
Heard == []<>(Deaf \/ (Session => \A id \in Ids : Settled(id)))
===============================================================================

------------------------------- MODULE Gateway --------------------------------
(***************************************************************************)
(* The work the gateway does without being asked (nanobot/cli/commands.py, *)
(* nanobot/heartbeat): the tick of the heartbeat and the callback of a     *)
(* cron job.  Each asks the model through chat_with_retry (providers/      *)
(* base.py), runs a turn, lets the model judge whether the result is worth *)
(* telling (utils/evaluator.py), and publishes it for the dispatcher of    *)
(* Outbound.                                                               *)
(***************************************************************************)
EXTENDS Outbound

CONSTANTS
  Runs,       \* background runs to look at: a behaviour is about one of them
  MaxErrors,  \* bound on the calls of the model that end in an error
  MaxTalk     \* bound on the messages agent turns publish

ASSUME RunsAssumption == Runs \subseteq {"heartbeat", "cron"}
ASSUME BoundsAssumption == MaxErrors \in Nat /\ MaxTalk \in Nat
\* None is no call of the model.
ASSUME NoneAssumption == None \notin [images: BOOLEAN, stripped: BOOLEAN, calls: Nat, waits: BOOLEAN]

VARIABLES
  run,        \* the background run: "heartbeat" or "cron", fixed
  stage,      \* where it is
  call,       \* the call of the model it is waiting for
  errors

gvars == <<run, stage, call, errors>>
vars == <<ovars, gvars>>

RetryDelays == 3   \* length of _CHAT_RETRY_DELAYS

\* A call that has not been answered: its images, whether they were taken out, how often chat() was called.
Asking(images) == [images |-> images, stripped |-> FALSE, calls |-> 1, waits |-> FALSE]

\* The gateway hands its two callbacks to the scheduler and to the heartbeat, ...
Wired == run \in Runs

\* ... and starts both, which wait for their time.
Asleep == stage = "asleep" /\ call = None

Init ==
  /\ OutboundInit
  /\ Wired /\ Asleep
  /\ errors = 0

Ask(where, images) == stage' = where /\ call' = Asking(images)

Ends == stage' = "over" /\ call' = None

\* _tick: the time has come; an empty HEARTBEAT.md is left until the next time.
Tick ==
  /\ run = "heartbeat" /\ stage = "asleep"
  /\ Ask("decide", FALSE)
  /\ UNCHANGED <<ovars, run, errors>>

\* on_cron_job: process_direct starts a turn, which resets the flag of the message tool.
CronDue ==
  /\ run = "cron" /\ stage = "asleep"
  /\ \E images \in BOOLEAN : Ask("turn", images)
  /\ UNCHANGED <<ovars, run, errors>>

\* Mutation of Retries: a transient error of the call without images is waited out, too.
RetriesStripped(reply) ==
  CASE call.calls > RetryDelays -> None
    [] reply = "transient" -> [call EXCEPT !.waits = TRUE]
    [] reply = "permanent" /\ call.images -> [call EXCEPT !.stripped = TRUE, !.calls = @ + 1]
    [] OTHER -> None

\* chat_with_retry: a transient error is waited out after each of the first calls, any other error is
\* final, but for one more call without images if there were some.
Retries(reply) ==
  LET first == ~call.stripped /\ call.calls <= RetryDelays
  IN  CASE reply = "transient" /\ first -> [call EXCEPT !.waits = TRUE]
        [] reply = "permanent" /\ first /\ call.images -> [call EXCEPT !.stripped = TRUE, !.calls = @ + 1]
        [] OTHER -> None

\* chat() answers, or raises, which _safe_chat turns into an error.
Errs(reply) ==
  /\ reply # "ok" => errors < MaxErrors
  /\ errors' = IF reply = "ok" THEN errors ELSE errors + 1

ChatRetried(reply) ==
  /\ call # None /\ ~call.waits
  /\ reply # "ok" /\ Retries(reply) # None
  /\ Errs(reply)
  /\ call' = Retries(reply)
  /\ UNCHANGED <<ovars, run, stage>>

ChatResumed ==
  /\ call # None /\ call.waits
  /\ call' = [call EXCEPT !.waits = FALSE, !.calls = @ + 1]
  /\ UNCHANGED <<ovars, run, stage, errors>>

\* The last answer of a call, which the caller goes on with.
Answers(reply) ==
  /\ call # None /\ ~call.waits
  /\ reply = "ok" \/ Retries(reply) = None
  /\ Errs(reply)

\* _decide: run only if the model calls its tool with "run"; an error is a skip.
Decided(reply) ==
  /\ stage = "decide"
  /\ Answers(reply)
  /\ \/ /\ reply = "ok"
        /\ \E images \in BOOLEAN : Ask("turn", images)
     \/ Ends
  /\ UNCHANGED <<ovars, run>>

\* The turn is over.  An error of the model is its answer, too.  A cron job is not told
\* if the message tool was used, in its turn or in another one at the same time (the flag is shared), nor
\* if it has no recipient; nothing is told without an answer.
TurnEnds(reply) ==
  /\ stage = "turn"
  /\ Answers(reply)
  /\ \E tool, answer, deliver \in BOOLEAN :
       /\ reply # "ok" => answer
       /\ IF (run = "cron" /\ (tool \/ ~deliver)) \/ ~answer
          THEN Ends
          ELSE Ask("evaluate", FALSE)
  /\ UNCHANGED <<ovars, run>>

\* The cycle or the turn raises: the tick logs it, the cron service records it.
TurnFails ==
  /\ stage = "turn"
  /\ Ends
  /\ UNCHANGED <<ovars, run, errors>>

\* evaluate_response: anything but a clear no is a yes.  The heartbeat tells the newest chat of an
\* enabled channel, if there is one; the job tells its own recipient.
Evaluated(reply) ==
  /\ stage = "evaluate"
  /\ Answers(reply)
  /\ Ends
  /\ \/ /\ reply = "ok" \/ run = "heartbeat"
        /\ UNCHANGED ovars
     \/ /\ \E m \in Shapes :
             /\ m.kind = "final" /\ m.media = 0 /\ m.chunks > 0
             /\ run = "heartbeat" => m.here
             /\ Published(m)
        /\ UNCHANGED <<config, up, hand, arrived, faults>>
  /\ UNCHANGED run

\* Any other turn publishes a message.
OtherAnswer ==
  /\ Len(fate) < MaxTalk
  /\ \E m \in Shapes : Publish(m)
  /\ UNCHANGED gvars

Replies == {"ok", "transient", "permanent"}

Starting == Tick \/ CronDue
Background ==
  \/ ChatResumed \/ TurnFails
  \/ \E reply \in Replies : ChatRetried(reply) \/ Decided(reply) \/ TurnEnds(reply) \/ Evaluated(reply)
Dispatching == OutboundNext /\ UNCHANGED gvars

Next == Starting \/ Background \/ OtherAnswer \/ Dispatching

\* The loops go on, and every call of the model or of a platform ends, well or badly.  The latter is assumed
\* of the client libraries: the code gives some no timeout (Feishu's lark client, Matrix's nio client).
Spec == Init /\ [][Next]_vars /\ WF_vars(Background) /\ WF_vars(Dispatching)

-----------------------------------------------------------------------------
Fates == {"queued", "sending", "dropped", "failed", "done"}
Stages == {"asleep", "decide", "turn", "evaluate", "over"}
Modes == {"send", "html", "plain", "start", "upload", "image", "file", "quote", "create"}
CallSet == {c \in [images: BOOLEAN, stripped: BOOLEAN, calls: 1..(RetryDelays + 1), waits: BOOLEAN] :
              (c.stripped => c.images) /\ ~(c.stripped /\ c.waits)}

\* The types of the state, and the budget of a call of the model: chat() is called four times at most, whatever
\* mix of transient errors, other errors and images comes up, and images are only taken out where there are some.
TypeOK ==
  /\ config \in Configs /\ up \in BOOLEAN
  /\ \A k \in DOMAIN fate : fate[k].m \in Shapes /\ fate[k].is \in Fates
  /\ \A k \in DOMAIN outbound : fate[outbound[k].id].is = "queued"
  /\ hand # None => /\ fate[hand.id].is = "sending" /\ hand.todo # <<>>
                    /\ hand.tries \in 0..(SendRetries - 1) /\ hand.mode \in Modes
  /\ run \in Runs /\ stage \in Stages /\ call \in CallSet \cup {None}
  /\ (call # None) = (stage \in {"decide", "turn", "evaluate"})

TextFirst == {"dingtalk", "slack"}
NoteLast == {"discord", "matrix"}
\* Piece p may be seen before piece q.
Before(p, q) ==
  \/ p.id < q.id
  \/ /\ p.id = q.id
     /\ \/ p.what = q.what /\ p.i < q.i
        \/ {p.what, q.what} = {"media", "note"} /\ IF config.adapter \in NoteLast THEN q.what = "note" ELSE p.i <= q.i
        \/ p.what # q.what /\ (IF config.adapter \in TextFirst THEN p.what ELSE q.what) = "chunk"

MaxCopies(p) ==
  CASE config.adapter = "telegram" -> (CASE p.what = "chunk" -> 2 * SendRetries [] p.what = "media" -> SendRetries [] OTHER -> 1)
    [] config.adapter = "discord" -> SendRetries
    [] config.adapter = "dingtalk" /\ p.what = "media" -> 3
    [] config.adapter = "feishu" /\ config.quote -> 2
    [] OTHER -> 1

\* What the user sees of the answers: messages in the order they were published and the pieces of each in the
\* order of the adapter, through all retries and fallbacks; each piece in at most as many copies as calls that
\* timed out can leave; and on Telegram, of a message that was sent to its end, each attachment or its note.
SeenRight ==
  /\ \A j, k \in DOMAIN arrived : j < k => Before(arrived[j].piece, arrived[k].piece)
  /\ \A k \in DOMAIN arrived : arrived[k].copies <= MaxCopies(arrived[k].piece)
  /\ config.adapter = "telegram" =>
       \A n \in DOMAIN fate : \A i \in 1..fate[n].m.media :
         fate[n].is = "done" =>
           \E k \in DOMAIN arrived : LET p == arrived[k].piece IN p.id = n /\ p.i = i /\ p.what \in {"media", "note"}

\* Every run that started comes to its end, and every published message is sent, refused or dropped: no answer
\* of the model, error or exception of a platform stops the heartbeat, the cron callback or the dispatcher.
Settles ==
  /\ (stage # "asleep") ~> (stage = "over")
  /\ \A n \in 1..(MaxTalk + 1) :
       (Len(fate) >= n) ~> (Len(fate) >= n /\ fate[n].is \in {"dropped", "failed", "done"})
=============================================================================

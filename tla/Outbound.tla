------------------------------- MODULE Outbound -------------------------------
(***************************************************************************)
(* The way of an answer out of the gateway (nanobot/channels): the         *)
(* dispatcher of the channel manager takes one message at a time from the  *)
(* bus and waits for the send() of its channel, which hands it to the      *)
(* platform piece by piece, with the retries and fallbacks of the adapter. *)
(*                                                                         *)
(* A piece is an attachment, a chunk of the text (also an empty text,      *)
(* where it is sent), or the note that stands for attachments that could   *)
(* not be sent. A call to the platform ends "ok"; "late", an exception     *)
(* although the piece arrived (a timeout); "lost", an exception and it     *)
(* did not arrive; "refused", an error answer; or "missing": no call, the  *)
(* file cannot be read, uploaded or is too big.                            *)
(***************************************************************************)
EXTENDS Naturals, Sequences, FiniteSets, SequencesExt

CONSTANTS
  Configs,    \* the adapter a behaviour is about, with its settings
  Shapes,     \* messages, by what the dispatcher and the adapters tell apart
  MaxFaults,  \* bound on the calls that do not end "ok"
  None

OneCall == {"whatsapp", "qq", "wecom", "email", "mochat"}  \* one call for the whole text
Adapters == OneCall \cup {"telegram", "discord", "matrix", "dingtalk", "feishu", "slack"}
ASSUME ConfigsAssumption ==
  /\ Configs \subseteq [adapter: Adapters, progress: BOOLEAN, hints: BOOLEAN, quote: BOOLEAN]
  /\ \A c \in Configs : c.quote => c.adapter = "feishu"
\* here: whether the message is for the adapter of the behaviour, or for a channel that is not there
ASSUME ShapesAssumption ==
  Shapes \subseteq [id: {0}, here: BOOLEAN, kind: {"final", "progress", "hint"}, media: Nat, chunks: Nat]
ASSUME FaultsAssumption == MaxFaults \in Nat

VARIABLES
  config,    \* adapter and settings, fixed
  up,        \* the client of the channel is running and can reach this chat
  outbound,  \* the queue of the bus
  hand,      \* the message the dispatcher is sending, and how far it is
  arrived,   \* what the user sees: the pieces in order, with the copies of each
  fate,      \* every message published so far and what became of it (observer)
  faults

ovars == <<config, up, outbound, hand, arrived, fate, faults>>

SendRetries == 3      \* _SEND_MAX_RETRIES of telegram, range(3) of discord

Results == {"ok", "late", "lost", "refused", "missing"}
Arrives(r) == r \in {"ok", "late"}

Pieces(what, n) == [i \in 1..n |-> [what |-> what, i |-> i]]
Note(i) == [what |-> "note", i |-> i]
Media(m) == Pieces("media", m.media)
Chunks(m) == Pieces("chunk", m.chunks)
\* One call for the whole text; for an empty one only if the adapter makes it even then.
Text(m, even) == Pieces("chunk", IF m.chunks > 0 \/ even THEN 1 ELSE 0)

\* _init_channels: the adapters of the channels the configuration enables.
Configured == config \in Configs

OutboundInit ==
  /\ Configured
  /\ up = FALSE
  /\ outbound = <<>>
  /\ hand = None
  /\ arrived = <<>>
  /\ fate = <<>>
  /\ faults = 0

\* The channel's start() has come as far as its client, or the connection of the WhatsApp bridge,
\* the frame WeCom answers to, is there now; until then send() logs and returns.
ChannelStarts ==
  /\ ~up /\ up' = TRUE
  /\ UNCHANGED <<config, outbound, hand, arrived, fate, faults>>

\* publish_outbound: to the end of the queue, which has no limit
Published(m) ==
  /\ outbound' = Append(outbound, [m EXCEPT !.id = Len(fate) + 1])
  /\ fate' = Append(fate, [m |-> m, is |-> "queued"])

\* An agent turn publishes progress, a tool hint, or its answer.
Publish(m) ==
  /\ Published(m)
  /\ UNCHANGED <<config, up, hand, arrived, faults>>

\* The send() of the adapter: which pieces it will try, in which order, and in which mode it starts.
\* Slack and Matrix send an empty text if there is nothing else; Mochat joins the references of the
\* attachments into the text; WeCom returns if there is none; WhatsApp, QQ and email send it as it is.
Plan(m) ==
  CASE config.adapter = "slack" -> Text(m, m.media = 0) \o Media(m)
    [] config.adapter = "matrix" -> Media(m) \o Text(m, m.media = 0)
    [] config.adapter = "dingtalk" -> Text(m, FALSE) \o Media(m)
    [] config.adapter = "feishu" -> IF m.kind = "hint" THEN Text(m, FALSE) ELSE Media(m) \o Chunks(m)
    [] config.adapter = "wecom" -> Text(m, FALSE)
    [] config.adapter = "mochat" -> Text(m, m.media > 0)
    [] config.adapter \in {"whatsapp", "qq", "email"} -> Text(m, TRUE)
    [] OTHER -> Media(m) \o Chunks(m)

StartMode(m) ==
  CASE config.adapter = "telegram" -> "html"
    [] config.adapter = "dingtalk" -> "start"
    [] config.adapter = "feishu" -> IF config.quote /\ m.kind = "final" THEN "quote" ELSE "create"
    [] OTHER -> "send"

\* The filters of the dispatcher for progress and tool hints.
Filtered(m) ==
  \/ m.kind = "hint" /\ ~config.hints
  \/ m.kind = "progress" /\ ~config.progress

\* Mutation of Remaining: a message for an unknown channel stays.
RemainingUnknown == IF Head(outbound).here THEN Tail(outbound) ELSE outbound

\* consume_outbound takes the message out of the queue, whatever comes of it.
Remaining == Tail(outbound)

\* DingTalk may get no token for this message, email may have auto replies off, WeCom no frame to answer.
AskFirst == {"dingtalk", "email", "wecom"}

\* _dispatch_outbound takes the next message.
Take ==
  /\ hand = None /\ outbound # <<>>
  /\ \E token \in {TRUE, config.adapter \notin AskFirst} :
     LET m == Head(outbound)
         dropped == Filtered(m) \/ ~m.here \/ ~up \/ ~token \/ Plan(m) = <<>>
     IN  /\ outbound' = Remaining
         /\ hand' = IF dropped THEN None
                    ELSE [id |-> m.id, todo |-> Plan(m), mode |-> StartMode(m), tries |-> 0,
                          failed |-> {}, sent |-> FALSE, chunks |-> m.chunks]
         /\ fate' = [fate EXCEPT ![m.id].is = IF dropped THEN "dropped" ELSE "sending"]
  /\ UNCHANGED <<config, up, arrived, faults>>

\* A call for the piece at hand ends with result r.
Calls(adapters, r) ==
  /\ hand # None /\ config.adapter \in adapters
  /\ r # "ok" => faults < MaxFaults
  /\ faults' = IF r = "ok" THEN faults ELSE faults + 1
  /\ UNCHANGED <<config, up, outbound>>

Piece == Head(hand.todo)
Seen == [id |-> hand.id, what |-> Piece.what, i |-> Piece.i]

\* A second copy of a piece comes right after the first: send() is at that piece until it goes on.
Shown(p) ==
  IF arrived # <<>> /\ Last(arrived).piece = p
  THEN [arrived EXCEPT ![Len(arrived)].copies = @ + 1]
  ELSE Append(arrived, [piece |-> p, copies |-> 1])

Arrival(r) == arrived' = IF Arrives(r) THEN Shown(Seen) ELSE arrived

GoOn(h) ==
  /\ hand' = IF h.todo = <<>> THEN None ELSE h
  /\ fate' = IF h.todo = <<>> THEN [fate EXCEPT ![h.id].is = "done"] ELSE fate

\* Whether an attachment that failed is left out, or spoken of in a piece of its own.
Rest(h) == [h EXCEPT !.todo = Tail(@), !.tries = 0]
Again(h) == [h EXCEPT !.tries = @ + 1]
\* Mutation of InsteadNote: no note is sent.
InsteadNothing(h) == [h EXCEPT !.todo = Tail(@), !.tries = 0]

InsteadNote(h) == [h EXCEPT !.todo = <<Note(Head(@).i)>> \o Tail(@), !.tries = 0]

\* An exception leaves send(): the dispatcher logs it and the rest of the message is gone.
Raised ==
  /\ hand' = None
  /\ fate' = [fate EXCEPT ![hand.id].is = "failed"]

(* Telegram.  An attachment with a URL is retried on a timeout, a local one is not; a failure is
   told by a note, whose own failure leaves send().  A chunk is tried as HTML, on any failure that is
   left as plain text, and then given up, while the next chunk goes on.                            *)
TimedOut(r) == r \in {"late", "lost"}
TelegramMedia(r, remote) ==
  /\ Piece.what = "media"
  /\ hand.tries > 0 => remote
  /\ GoOn(CASE r = "ok" -> Rest(hand)
            [] TimedOut(r) /\ remote /\ hand.tries + 1 < SendRetries -> Again(hand)
            [] OTHER -> InsteadNote(hand))

TelegramNote(r) ==
  /\ Piece.what = "note" /\ r # "missing"
  /\ IF r = "ok" THEN GoOn(Rest(hand)) ELSE Raised

TelegramChunk(r) ==
  /\ Piece.what = "chunk" /\ r # "missing"
  /\ GoOn(IF TimedOut(r) /\ hand.tries + 1 < SendRetries THEN Again(hand)
          ELSE IF r # "ok" /\ hand.mode = "html" THEN [hand EXCEPT !.mode = "plain", !.tries = 0]
          ELSE [Rest(hand) EXCEPT !.mode = "html"])

TelegramCall(r) ==
  /\ Calls({"telegram"}, r)
  /\ Arrival(r)
  /\ (\E remote \in BOOLEAN : TelegramMedia(r, remote)) \/ TelegramNote(r) \/ TelegramChunk(r)

(* Discord.  Each attachment and each chunk is tried three times; a chunk that failed ends the
   message; failed attachments are told only if there is no text and nothing was sent.            *)
DiscordMedia(r) ==
  /\ Piece.what = "media"
  /\ LET over == r = "missing" \/ (r # "ok" /\ hand.tries + 1 = SendRetries)
         rest == CASE r = "ok" -> [Rest(hand) EXCEPT !.sent = TRUE]
                   [] over -> [Rest(hand) EXCEPT !.failed = @ \cup {Piece.i}]
                   [] OTHER -> Again(hand)
     IN  GoOn(IF rest.todo = <<>> /\ rest.failed # {} /\ ~rest.sent /\ rest.chunks = 0
              THEN [rest EXCEPT !.todo = <<Note(1)>>]
              ELSE rest)

DiscordText(r) ==
  /\ Piece.what \in {"chunk", "note"} /\ r # "missing"
  /\ GoOn(CASE r = "ok" -> Rest(hand)
            [] r # "ok" /\ hand.tries + 1 = SendRetries -> [hand EXCEPT !.todo = <<>>]
            [] OTHER -> Again(hand))

DiscordCall(r) ==
  /\ Calls({"discord"}, r)
  /\ Arrival(r)
  /\ DiscordMedia(r) \/ DiscordText(r)

(* Matrix.  Failed attachments are named at the end of the text, which is then sent although
   empty.  An error answer to room_send is no exception: it counts as sent.                       *)
MatrixMedia(r) ==
  /\ Piece.what = "media"
  /\ LET fails == r \in {"missing", "late", "lost"}
         rest == IF fails THEN [Rest(hand) EXCEPT !.failed = @ \cup {Piece.i}] ELSE Rest(hand)
         last == rest.todo = <<>> \/ Head(rest.todo).what # "media"
     IN  GoOn(IF last /\ rest.failed # {} THEN [rest EXCEPT !.todo = <<Note(1)>>] ELSE rest)

MatrixText(r) ==
  /\ Piece.what \in {"chunk", "note"} /\ r # "missing"
  /\ IF r \in {"ok", "refused"} THEN GoOn(Rest(hand)) ELSE Raised

MatrixCall(r) ==
  /\ Calls({"matrix"}, r)
  /\ Arrival(r)
  /\ MatrixMedia(r) \/ MatrixText(r)

(* DingTalk.  The text first, whatever comes of it; an image with a URL is tried by its URL, then
   uploaded like the others and, if it is an image, sent as one before it is sent as a file.  A
   failure is told by a note, whatever comes of that.                                             *)
DingTalkUpload(r, image) ==
  /\ Piece.what = "media" /\ hand.mode \in {"start", "upload"}
  /\ GoOn(IF r = "ok" THEN [hand EXCEPT !.mode = IF image THEN "image" ELSE "file"]
                      ELSE [InsteadNote(hand) EXCEPT !.mode = "start"])
  /\ UNCHANGED arrived

DingTalkMedia(r) ==
  /\ Piece.what = "media" /\ hand.mode # "upload" /\ r # "missing"
  /\ Arrival(r)
  /\ GoOn(CASE r = "ok" -> [Rest(hand) EXCEPT !.mode = "start"]
            [] r # "ok" /\ hand.mode = "start" -> [hand EXCEPT !.mode = "upload"]  \* an image's URL
            [] r # "ok" /\ hand.mode = "image" -> [hand EXCEPT !.mode = "file"]
            [] OTHER -> [InsteadNote(hand) EXCEPT !.mode = "start"])

DingTalkText(r) ==
  /\ Piece.what \in {"chunk", "note"} /\ r # "missing"
  /\ Arrival(r)
  /\ GoOn(Rest(hand))

DingTalkCall(r) ==
  /\ Calls({"dingtalk"}, r)
  /\ (\E image \in BOOLEAN : DingTalkUpload(r, image)) \/ DingTalkMedia(r) \/ DingTalkText(r)

(* Feishu.  The first piece that is sent quotes the user's message, and is sent again without the
   quote if that fails; nothing else is retried and no failure is told.                           *)
FeishuUploadFails ==
  /\ Calls({"feishu"}, "missing")
  /\ Piece.what = "media"
  /\ GoOn(Rest(hand))
  /\ UNCHANGED arrived

FeishuSent(r) ==
  /\ r # "missing"
  /\ Calls({"feishu"}, r)
  /\ Arrival(r)
  /\ GoOn(IF hand.mode = "quote" /\ r # "ok" THEN [hand EXCEPT !.mode = "create"]
          ELSE [Rest(hand) EXCEPT !.mode = "create"])

FeishuCall(r) == (r = "missing" /\ FeishuUploadFails) \/ FeishuSent(r)

(* Slack.  An exception for the text leaves out the attachments; one for an attachment is logged. *)
SlackCall(r) ==
  /\ Calls({"slack"}, r)
  /\ r = "missing" => Piece.what = "media"
  /\ Arrival(r)
  /\ GoOn(IF Piece.what = "chunk" /\ r # "ok" THEN [hand EXCEPT !.todo = <<>>] ELSE Rest(hand))

(* The others make one call for the text; only the email adapter lets its exception out. *)
Once(adapter, r) ==
  /\ Calls({adapter}, r)
  /\ r # "missing"
  /\ Arrival(r)

WhatsAppCall(r) == Once("whatsapp", r) /\ GoOn(Rest(hand))
QQCall(r) == Once("qq", r) /\ GoOn(Rest(hand))
WecomCall(r) == Once("wecom", r) /\ GoOn(Rest(hand))
MochatCall(r) == Once("mochat", r) /\ GoOn(Rest(hand))
EmailCall(r) == Once("email", r) /\ IF r = "ok" THEN GoOn(Rest(hand)) ELSE Raised

PlatformCall ==
  \E r \in Results :
    TelegramCall(r) \/ DiscordCall(r) \/ MatrixCall(r) \/ DingTalkCall(r) \/ FeishuCall(r)
      \/ SlackCall(r) \/ WhatsAppCall(r) \/ QQCall(r) \/ WecomCall(r) \/ MochatCall(r) \/ EmailCall(r)

OutboundNext == ChannelStarts \/ Take \/ PlatformCall
=============================================================================

-------------------------------- MODULE Inbound --------------------------------
(***************************************************************************)
(* The way of a message into the gateway (nanobot/channels): an adapter    *)
(* takes the events of its platform, drops what it has seen, what is its   *)
(* own, not meant for the bot or not allowed, waits for reactions,         *)
(* downloads and typing indicators on the way, and puts the message on the *)
(* bus.  Adapters of platforms that await one handler before the next      *)
(* event keep the order; the others run the handlers side by side.         *)
(*                                                                         *)
(* A behaviour is about one adapter and one chat.  A task is a handler; it *)
(* stops only where the code awaits something that takes time.             *)
(***************************************************************************)
EXTENDS Naturals, Sequences, FiniteSets, FiniteSetsExt, SequencesExt

CONSTANTS
  Adapters,   \* the adapters to look at
  Events,     \* what may be posted: who by, in what form, and whether it is meant for the bot
  Window,     \* ids an adapter remembers (1000 in the code)
  MaxPosted,  \* bound on the messages posted
  MaxAgain,   \* bound on events the platform delivers twice
  MaxFaults   \* bound on calls that fail: of a mail server, of the platform or the disk inside a handler

OneByOne == {"telegram", "discord", "matrix", "whatsapp", "qq"}  \* the platform's loop awaits the handler
SideBySide == {"feishu", "wecom", "slack", "dingtalk"}
Remembering == {"feishu", "wecom", "qq", "whatsapp"}

ASSUME AdaptersAssumption == Adapters \subseteq OneByOne \cup SideBySide \cup {"email"}
ASSUME EventsAssumption ==
  Events \subseteq [who: {"friend", "stranger", "self"},
                    form: {"text", "media", "album", "empty", "command", "mention"}, meant: BOOLEAN]
ASSUME BoundsAssumption == Window \in Nat \ {0} /\ {MaxPosted, MaxAgain, MaxFaults} \subseteq Nat

VARIABLES
  adapter,    \* fixed
  named,      \* Slack: auth_test told the adapter the id of its own user; fixed
  posted,     \* every message of the chat, by id
  wire,       \* events the platform has not delivered yet
  again,      \* how often it delivered an event a second time
  tasks,      \* the handlers under way, in the order they began
  seen,       \* _processed_message_ids: what the adapter, or the email channel, remembers
  album,      \* Telegram: the parts of the media group that are buffered
  flushing,   \* Telegram: the task that will forward the album is there
  batch,      \* email: the mails this poll has fetched
  unread,     \* email: the mails the server shows as unread
  polling,    \* email: a poll is under way, and how often it connected
  found,      \* email: the mails its search found, and it has not fetched yet
  skipped,    \* email: the mails a poll found and could not fetch (observer)
  faults,
  lost,       \* ids of messages that went with a call that failed (observer)
  inbound,    \* what was put on the bus: groups of ids
  dismissed,  \* ids an adapter dropped for a reason (observer)
  typing,     \* a task keeps the typing indicator of the chat on
  answered    \* how many of the inbound messages have been answered

mail == <<batch, unread, polling, found, skipped, faults>>
group == <<album, flushing>>
ends == <<inbound, dismissed, lost>>
platform == <<adapter, named, posted, again>>
vars == <<platform, wire, tasks, seen, group, mail, ends, typing, answered>>

\* Slack's start() asks auth_test who it is, and goes on when that fails.
KnowsItself == named \in BOOLEAN /\ (adapter # "slack" => named)

Init ==
  /\ adapter \in Adapters /\ KnowsItself
  /\ posted = <<>> /\ wire = <<>> /\ again = 0
  /\ tasks = <<>> /\ seen = <<>>
  /\ album = <<>> /\ flushing = FALSE
  /\ batch = <<>> /\ unread = {} /\ polling = 0 /\ found = {} /\ skipped = {} /\ faults = 0
  /\ inbound = <<>> /\ dismissed = {} /\ lost = {} /\ typing = FALSE /\ answered = 0

\* What an adapter can get: only Telegram has albums and commands, only Slack mentions, ...
\* An empty mail is one without a sender; a file on Slack has a subtype, like what is not meant for the bot.
Possible(e) ==
  /\ e.form \in {"album", "command"} => adapter = "telegram"
  /\ e.form = "mention" => adapter = "slack"
  /\ e.form = "empty" => adapter \in {"feishu", "wecom", "qq", "dingtalk", "email"}
  /\ e.form = "media" => adapter \notin {"email", "qq", "slack"}
  /\ e.who = "self" => adapter \in {"discord", "matrix", "feishu", "slack"}
  /\ ~e.meant => adapter \in {"telegram", "discord", "matrix", "feishu", "slack"}

\* A message is posted.  Slack sends a mention in a channel as two events; twin is the plain one.
Event(id, twin) == [id |-> id, twin |-> twin]
Post ==
  /\ Len(posted) < MaxPosted
  /\ \E e \in Events :
       LET id == Len(posted) + 1 IN
       /\ Possible(e)
       /\ posted' = Append(posted, e)
       /\ wire' = CASE adapter = "email" -> wire
                    [] adapter = "slack" /\ e.form = "mention" -> wire \o <<Event(id, FALSE), Event(id, TRUE)>>
                    [] OTHER -> Append(wire, Event(id, FALSE))
       /\ unread' = IF adapter = "email" THEN unread \cup {id} ELSE unread
  /\ UNCHANGED <<adapter, named, again, tasks, seen, group, batch, polling, found, skipped, faults, ends,
                 typing, answered>>

\* A platform that missed an acknowledgement, or a bridge that reconnected, delivers an event again, before so
\* many others that the cache has lost it.
Redeliver ==
  /\ again < MaxAgain /\ adapter \in Remembering
  /\ \E n \in DOMAIN seen :
       LET id == seen[n]
           others == {seen[j] : j \in (n + 1)..Len(seen)} \cup {wire[j].id : j \in DOMAIN wire}
                       \cup {tasks[k].ev.id : k \in {k \in DOMAIN tasks : tasks[k].at = "begun"}}
       IN
       /\ Cardinality(others) < Window
       /\ wire' = Append(wire, Event(id, FALSE))
  /\ again' = again + 1
  /\ UNCHANGED <<adapter, named, posted, tasks, seen, group, mail, ends, typing, answered>>

\* An event reaches the adapter: its handler begins, at once or when the one before it has returned.
Deliver ==
  /\ wire # <<>>
  /\ adapter \in OneByOne => tasks = <<>>
  /\ tasks' = Append(tasks, [ev |-> Head(wire), at |-> "begun"])
  /\ wire' = Tail(wire)
  /\ UNCHANGED <<platform, seen, group, mail, ends, typing, answered>>

Msg(k) == posted[tasks[k].ev.id]
Id(k) == tasks[k].ev.id
\* Handlers begin in the order the events came in.
At(k, place) ==
  /\ k \in DOMAIN tasks /\ tasks[k].at = place
  /\ place = "begun" => \A j \in 1..(k - 1) : tasks[j].at # "begun"

WaitsAt(k, place) == tasks' = [tasks EXCEPT ![k].at = place] /\ UNCHANGED ends
Returns(k) == tasks' = RemoveAt(tasks, k)
Dismissed(k) == Returns(k) /\ dismissed' = dismissed \cup {Id(k)} /\ UNCHANGED <<inbound, lost>>

\* BaseChannel._handle_message: is_allowed, then publish_inbound.
Allowed(who) == who # "stranger"
Passed(ids, who) ==
  /\ IF Allowed(who)
     THEN inbound' = Append(inbound, ids) /\ UNCHANGED dismissed
     ELSE dismissed' = dismissed \cup ToSet(ids) /\ UNCHANGED inbound
  /\ UNCHANGED lost
Handled(k) == Returns(k) /\ Passed(<<Id(k)>>, Msg(k).who)

\* Mutation of Known: only the last id is looked at.
KnownLast(k) == seen # <<>> /\ Last(seen) = Id(k)

\* The cache of the last ids.
Known(k) == Id(k) \in ToSet(seen)

\* Mutation of Remembered: nothing is evicted.
RememberedAll(id) == Append(seen, id)

Remembered(id) == IF Len(seen) < Window THEN Append(seen, id) ELSE Append(Tail(seen), id)

TelegramTypes == typing' = TRUE
DiscordTypes == typing' = TRUE
MatrixTypes == typing' = TRUE

\* What a handler leaves alone when it neither remembers nor types.
Steps(name) == adapter = name /\ UNCHANGED <<platform, wire, mail, answered>>
Only == UNCHANGED <<seen, group, typing>>

(* Telegram.  Commands go straight on.  A group message that is not meant for the bot is dropped;
   media are downloaded; the parts of an album are buffered for a task that forwards them as one
   message; the typing indicator goes on before the sender is checked.                            *)
TelegramCommand(k) ==
  /\ At(k, "begun") /\ Msg(k).form = "command"
  /\ Handled(k)
  /\ Only

TelegramBegins(k) ==
  /\ At(k, "begun") /\ Msg(k).form # "command"
  /\ IF ~Msg(k).meant THEN Dismissed(k) ELSE WaitsAt(k, "loading")
  /\ Only

TelegramGoesOn(k) ==
  /\ At(k, "loading") /\ Msg(k).form # "album"
  /\ TelegramTypes
  /\ Handled(k)
  /\ UNCHANGED <<seen, group>>

TelegramBuffers(k) ==
  /\ At(k, "loading") /\ Msg(k).form = "album"
  /\ album' = Append(album, Id(k))
  /\ flushing' = TRUE
  /\ typing' = (typing \/ album = <<>>)
  /\ Returns(k)
  /\ UNCHANGED <<seen, ends>>

TelegramStep(k) ==
  /\ Steps("telegram")
  /\ TelegramCommand(k) \/ TelegramBegins(k) \/ TelegramGoesOn(k) \/ TelegramBuffers(k)

\* Mutation of AlbumDue: it waits for a second part.
AlbumDueWhole == flushing /\ Len(album) > 1

\* The album is the sender's of its first part; its task is gone when it is forwarded.
AlbumDue == flushing /\ album # <<>>
FlushMediaGroup ==
  /\ Steps("telegram") /\ AlbumDue
  /\ Passed(album, posted[Head(album)].who)
  /\ album' = <<>> /\ flushing' = FALSE
  /\ UNCHANGED <<tasks, seen, typing>>

(* Discord and Matrix check the sender first, and turn the typing indicator on before the message
   goes on; Matrix waits for the server then.                                                     *)
Unwanted(k) == Msg(k).who = "self" \/ ~Allowed(Msg(k).who) \/ ~Msg(k).meant

DiscordBegins(k) ==
  /\ At(k, "begun") /\ (Unwanted(k) \/ Msg(k).form = "media")
  /\ IF Unwanted(k) THEN Dismissed(k) ELSE WaitsAt(k, "loading")
  /\ Only

DiscordGoesOn(k) ==
  /\ At(k, "loading") \/ (At(k, "begun") /\ ~Unwanted(k) /\ Msg(k).form # "media")
  /\ DiscordTypes
  /\ Handled(k)
  /\ UNCHANGED <<seen, group>>

DiscordStep(k) == Steps("discord") /\ (DiscordBegins(k) \/ DiscordGoesOn(k))

MatrixBegins(k) ==
  /\ At(k, "begun")
  /\ CASE Unwanted(k) -> Dismissed(k)
       [] Msg(k).form = "media" -> WaitsAt(k, "loading")
       [] OTHER -> WaitsAt(k, "typing")
  /\ Only

MatrixFetches(k) == At(k, "loading") /\ WaitsAt(k, "typing") /\ Only

MatrixGoesOn(k) ==
  /\ At(k, "typing")
  /\ MatrixTypes
  /\ Handled(k)
  /\ UNCHANGED <<seen, group>>

MatrixStep(k) == Steps("matrix") /\ (MatrixBegins(k) \/ MatrixFetches(k) \/ MatrixGoesOn(k))

(* Feishu and WeCom remember the id before anything else, and see who sent the message last. *)
FeishuBegins(k) ==
  /\ At(k, "begun")
  /\ seen' = IF Known(k) THEN seen ELSE Remembered(Id(k))
  /\ CASE Known(k) -> Returns(k) /\ UNCHANGED ends
       [] ~Known(k) /\ (Msg(k).who = "self" \/ ~Msg(k).meant) -> Dismissed(k)
       [] OTHER -> WaitsAt(k, "reacting")
  /\ UNCHANGED <<group, typing>>

FeishuReads(k) ==
  /\ At(k, "reacting")
  /\ CASE Msg(k).form = "media" -> WaitsAt(k, "loading")
       [] Msg(k).form = "empty" -> Dismissed(k)
       [] OTHER -> Handled(k)
  /\ Only

Loaded(k) == At(k, "loading") /\ Handled(k) /\ Only

FeishuStep(k) == Steps("feishu") /\ (FeishuBegins(k) \/ FeishuReads(k) \/ Loaded(k))

WecomBegins(k) ==
  /\ At(k, "begun")
  /\ seen' = IF Known(k) THEN seen ELSE Remembered(Id(k))
  /\ CASE Known(k) -> Returns(k) /\ UNCHANGED ends
       [] ~Known(k) /\ Msg(k).form = "media" -> WaitsAt(k, "loading")
       [] ~Known(k) /\ Msg(k).form = "empty" -> Dismissed(k)
       [] OTHER -> Handled(k)
  /\ UNCHANGED <<group, typing>>

WecomStep(k) == Steps("wecom") /\ (WecomBegins(k) \/ Loaded(k))

\* QQ and WhatsApp wait for nothing.
QQStep(k) ==
  /\ Steps("qq") /\ At(k, "begun")
  /\ seen' = IF Known(k) THEN seen ELSE Remembered(Id(k))
  /\ CASE Known(k) -> Returns(k) /\ UNCHANGED ends
       [] ~Known(k) /\ Msg(k).form = "empty" -> Dismissed(k)
       [] OTHER -> Handled(k)
  /\ UNCHANGED <<group, typing>>

WhatsAppStep(k) ==
  /\ Steps("whatsapp") /\ At(k, "begun")
  /\ seen' = IF Known(k) THEN seen ELSE Remembered(Id(k))
  /\ IF Known(k) THEN Returns(k) /\ UNCHANGED ends ELSE Handled(k)
  /\ UNCHANGED <<group, typing>>

(* Slack acknowledges first.  It takes a mention for the app_mention event, and can tell the plain
   event only by its own user id; without that, the policy of the channel decides.               *)
SlackBegins(k) == At(k, "begun") /\ WaitsAt(k, "acknowledged") /\ Only

SlackReads(k) ==
  /\ At(k, "acknowledged")
  /\ \/ /\ Unwanted(k) \/ tasks[k].ev.twin
        /\ IF tasks[k].ev.twin THEN Returns(k) /\ UNCHANGED ends ELSE Dismissed(k)
     \/ /\ ~Unwanted(k) /\ (tasks[k].ev.twin => ~named)
        /\ WaitsAt(k, "reacting")
  /\ Only

SlackStep(k) ==
  /\ Steps("slack")
  /\ SlackBegins(k) \/ SlackReads(k) \/ (At(k, "reacting") /\ Handled(k) /\ Only)

(* DingTalk downloads a file, and leaves the rest to a task in the background.                    *)
DingTalkReads(k) ==
  /\ At(k, "begun")
  /\ CASE Msg(k).form = "media" -> WaitsAt(k, "loading")
       [] Msg(k).form = "empty" -> Dismissed(k)
       [] OTHER -> WaitsAt(k, "background")
  /\ Only

DingTalkLoaded(k) == At(k, "loading") /\ WaitsAt(k, "background") /\ Only

DingTalkHandled(k) == At(k, "background") /\ Handled(k) /\ Only

DingTalkStep(k) == Steps("dingtalk") /\ (DingTalkReads(k) \/ DingTalkLoaded(k) \/ DingTalkHandled(k))

(* A call fails in a handler, and the message is lost: DingTalk's download leaves nothing to say;
   what Telegram, Matrix, Feishu and Slack do not catch ends the handler.                         *)

\* DingTalk: no answer to process() without a text.
DingTalkUnloaded(k) == adapter = "dingtalk" /\ At(k, "loading")
\* Telegram: get_me, asked once for the messages of a group.
TelegramUnnamed(k) == adapter = "telegram" /\ At(k, "begun") /\ Msg(k).form # "command"
\* Matrix: the client's download raises (an error answer does not).
MatrixUnloaded(k) == adapter = "matrix" /\ At(k, "loading")
\* Feishu: the file cannot be written; its id is remembered already.
FeishuUnsaved(k) == adapter = "feishu" /\ At(k, "loading")
\* Slack: the acknowledgement; if Slack sends the event again, then as one that comes now.
SlackUnacknowledged(k) == adapter = "slack" /\ At(k, "begun")

\* Matrix awaits its handlers inside the answer of a sync: what it brought after this event may go too.
Behind == IF adapter = "matrix" THEN 0..Len(wire) ELSE {0}

HandlerFails(k) ==
  /\ faults < MaxFaults /\ faults' = faults + 1
  /\ \/ DingTalkUnloaded(k) \/ TelegramUnnamed(k) \/ MatrixUnloaded(k) \/ FeishuUnsaved(k)
     \/ SlackUnacknowledged(k)
  /\ Returns(k)
  /\ \E n \in Behind :
       /\ wire' = SubSeq(wire, n + 1, Len(wire))
       /\ lost' = lost \cup {Id(k)} \cup {wire[j].id : j \in 1..n}
  /\ UNCHANGED <<platform, seen, group, batch, unread, polling, found, skipped, inbound, dismissed, typing, answered>>

(* Email.  A thread fetches the unread mails one by one, remembers each and marks it as read; when
   it is done, all go on.  A mail that cannot be fetched is left to the next poll, and so is one
   without a sender, for ever.  If the connection is stale it starts again once, with the mails it
   has; any other error, or a second one, ends the poll and leaves what it has fetched behind.     *)
Polls == adapter = "email" /\ UNCHANGED <<platform, wire, tasks, group, typing, answered>>

Search == found' = unread \ ToSet(seen)

PollBegins ==
  /\ Polls /\ polling = 0
  /\ polling' = 1 /\ batch' = <<>> /\ Search
  /\ UNCHANGED <<unread, skipped, faults, seen, ends>>

\* mark_seen may be off, or the poll may break before the mail is marked.
Fetched(id) ==
  /\ posted[id].form # "empty"
  /\ batch' = Append(batch, id)
  /\ seen' = Append(seen, id)
  /\ unread' \in {unread, unread \ {id}}
  /\ UNCHANGED <<skipped, faults>>

\* The answer to FETCH is not OK or holds no mail, or the mail has no sender: on to the next.
Skipped(id) ==
  /\ \/ posted[id].form = "empty" /\ UNCHANGED faults
     \/ posted[id].form # "empty" /\ faults < MaxFaults /\ faults' = faults + 1
  /\ skipped' = skipped \cup {id}
  /\ UNCHANGED <<batch, seen, unread>>

FetchOne ==
  /\ Polls /\ polling > 0 /\ found # {}
  /\ LET id == Min(found) IN found' = found \ {id} /\ (Fetched(id) \/ Skipped(id))
  /\ UNCHANGED <<polling, ends>>

PollBreaks(stale) ==
  /\ Polls /\ polling > 0 /\ faults < MaxFaults
  /\ faults' = faults + 1
  /\ IF stale /\ polling = 1
     THEN polling' = 2 /\ Search /\ UNCHANGED batch
     ELSE polling' = 0 /\ batch' = <<>> /\ found' = {}
  /\ UNCHANGED <<unread, skipped, seen, ends>>

PollEnds ==
  /\ Polls /\ polling > 0 /\ found = {}
  /\ polling' = 0 /\ batch' = <<>>
  /\ LET ok == SelectSeq(batch, LAMBDA id : Allowed(posted[id].who))
     IN  /\ inbound' = inbound \o [i \in DOMAIN ok |-> <<ok[i]>>]
         /\ dismissed' = dismissed \cup (ToSet(batch) \ ToSet(ok))
  /\ UNCHANGED <<unread, found, skipped, faults, seen, lost>>

EmailStep ==
  \/ PollBegins \/ FetchOne \/ PollEnds
  \/ \E stale \in BOOLEAN : PollBreaks(stale)

\* The answer to the next message is sent, which turns the typing indicator off.
Answer ==
  /\ answered < Len(inbound)
  /\ answered' = answered + 1
  /\ typing' = FALSE
  /\ UNCHANGED <<platform, wire, tasks, seen, group, mail, ends>>

Handler(k) ==
  TelegramStep(k) \/ DiscordStep(k) \/ MatrixStep(k) \/ FeishuStep(k) \/ WecomStep(k)
    \/ QQStep(k) \/ WhatsAppStep(k) \/ SlackStep(k) \/ DingTalkStep(k)

Next ==
  \/ Post \/ Redeliver \/ Deliver \/ FlushMediaGroup \/ EmailStep \/ Answer
  \/ \E k \in 1..(2 * MaxPosted + MaxAgain) : Handler(k) \/ HandlerFails(k)

\* Calls of the platform return, timers fire, the mailbox is polled again and again, and turns end.
Fairness ==
  /\ WF_vars(Deliver) /\ WF_vars(FlushMediaGroup) /\ WF_vars(EmailStep) /\ WF_vars(Answer)
  /\ WF_vars(\E k \in 1..(2 * MaxPosted + MaxAgain) : Handler(k))

Spec == Init /\ [][Next]_vars /\ Fairness

-----------------------------------------------------------------------------
Ids == 1..Len(posted)
Places == {"begun", "loading", "reacting", "typing", "acknowledged", "background"}

\* The types of the state; a platform that awaits its handlers has at most one.
TypeOK ==
  /\ adapter \in Adapters /\ named \in BOOLEAN /\ posted \in Seq(Events)
  /\ \A k \in DOMAIN tasks : Id(k) \in Ids /\ tasks[k].at \in Places
  /\ adapter \in OneByOne => Len(tasks) <= 1
  /\ ToSet(seen) \subseteq Ids /\ Len(seen) <= IF adapter = "email" THEN MaxPosted ELSE Window
  /\ unread \subseteq Ids /\ found \subseteq Ids /\ polling \in 0..2
  /\ dismissed \subseteq Ids /\ lost \subseteq Ids /\ skipped \subseteq unread \cup ToSet(seen)
  /\ answered \in 0..Len(inbound) /\ typing \in BOOLEAN /\ flushing \in BOOLEAN

OnBus == FlattenSeq(inbound)
Albums == {id \in Ids : posted[id].form = "album"}

\* What reaches the bus: nobody's message who is not allowed; no message twice, whatever the platform delivers
\* again, while the cache holds it (Slack without its own user id may take a mention twice); in the order they
\* were posted where handlers are awaited, aside from albums and from mails that a poll found and could not
\* fetch, which a later one may bring after later mails; and whoever buffered an album left a task for it.
BusRight ==
  /\ \A j \in DOMAIN OnBus : Allowed(posted[OnBus[j]].who)
  /\ named => IsInjective(OnBus)
  /\ adapter \in OneByOne \cup {"email"} =>
       LET plain == SelectSeq(OnBus, LAMBDA id : id \notin Albums \cup skipped)
       IN  \A i, j \in DOMAIN plain : i < j => plain[i] <= plain[j]
  /\ flushing = (album # <<>>)

Begun(id) == id \in Ids /\ \A k \in DOMAIN wire : wire[k].id # id
Settled(id) == id \in dismissed \cup ToSet(OnBus)

\* Every message that reached an adapter gets to the bus or is dropped for a reason, unless it is lost with a
\* call that fails in its handler (HandlerFails); one such failure stops no other handler.  And the typing
\* indicator goes off again, except that Telegram turns it on for a sender who then is turned away.
Served ==
  /\ \A id \in 1..MaxPosted : (adapter # "email" /\ Begun(id)) ~> (Settled(id) \/ id \in lost)
  /\ typing ~> (~typing \/ (adapter = "telegram" /\ \E id \in dismissed : ~Allowed(posted[id].who)))

\* Every unread mail becomes a message for the agent, or is turned away.
MailHeard == \A id \in 1..MaxPosted : (adapter = "email" /\ id \in Ids) ~> Settled(id)
=============================================================================

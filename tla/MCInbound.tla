------------------------------ MODULE MCInbound -------------------------------
\* The adapters, and one event of each form an adapter can meet.
EXTENDS Inbound
MCAdapters == OneByOne \cup SideBySide \cup {"email"}
E(who, form, meant) == [who |-> who, form |-> form, meant |-> meant]
MCEvents ==
  {E("friend", "text", TRUE), E("friend", "media", TRUE), E("friend", "album", TRUE), E("friend", "mention", TRUE),
   E("friend", "command", TRUE), E("friend", "empty", TRUE), E("friend", "text", FALSE), E("stranger", "text", TRUE), E("self", "text", TRUE)}
MailEvents == {E("friend", "text", TRUE), E("stranger", "text", TRUE)}
=============================================================================

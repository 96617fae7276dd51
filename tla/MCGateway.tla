------------------------------ MODULE MCGateway -------------------------------
\* Every adapter, and messages with attachments, several chunks, or neither.
EXTENDS Gateway
Config(adapter, tells, quote) == [adapter |-> adapter, progress |-> tells, hints |-> ~tells, quote |-> quote]
MCConfigs ==
  {Config(a, TRUE, FALSE) : a \in {"telegram", "discord", "matrix", "dingtalk", "slack", "email", "whatsapp", "wecom", "mochat"}}
    \cup {Config("qq", FALSE, FALSE), Config("feishu", FALSE, TRUE)}
Shape(here, kind, media, chunks) == [id |-> 0, here |-> here, kind |-> kind, media |-> media, chunks |-> chunks]
MCShapes ==
  {Shape(TRUE, "final", 1, 2), Shape(TRUE, "final", 1, 0), Shape(TRUE, "final", 0, 1), Shape(TRUE, "final", 0, 0),
   Shape(FALSE, "final", 0, 1), Shape(TRUE, "hint", 0, 1)}
=============================================================================

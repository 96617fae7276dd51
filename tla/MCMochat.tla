------------------------------- MODULE MCMochat -------------------------------
\* A session, a panel that holds messages back, and a panel that asks to be mentioned.
EXTENDS Mochat
S(kind, delay, require) == [kind |-> kind, delay |-> delay, require |-> require]
MCSettings == {S("session", FALSE, FALSE), S("panel", TRUE, FALSE), S("panel", FALSE, TRUE)}
=============================================================================

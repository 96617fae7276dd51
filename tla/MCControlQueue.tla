--------------------------- MODULE MCControlQueue ----------------------------
\* The instance of ControlQueue.cfg.
EXTENDS ControlQueue
==============================================================================

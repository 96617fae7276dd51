----------------------------- MODULE MCTaskPlanner -----------------------------
\* The instance of TaskPlanner.cfg.
EXTENDS TaskPlanner
===============================================================================

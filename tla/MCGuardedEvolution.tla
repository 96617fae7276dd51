-------------------------- MODULE MCGuardedEvolution --------------------------
(***************************************************************************)
(* A good first version, a broken second one and a good third one.         *)
(***************************************************************************)
EXTENDS GuardedEvolution

MCBroken == {1}
===============================================================================

---------------------------- MODULE MCPlayerSync ----------------------------
(***************************************************************************)
(* Instances of PlayerSync for TLC: two servers, with one plugin or both.  *)
(***************************************************************************)
EXTENDS PlayerSync

\* No login comes before the quit ahead of it is over, while that quit stores
\* the first profile: what the last login then reads is the previous one.
FirstQuitOver == data = None => login = None \/ tasks = {}
=============================================================================

---------------------------- MODULE MCLocEngNi ----------------------------
(***************************************************************************)
(* Two requests: in one session, the second while the thread of the first  *)
(* is on its way out; or one in each session; and a restart of the engine. *)
(***************************************************************************)
EXTENDS LocEngNi
=============================================================================

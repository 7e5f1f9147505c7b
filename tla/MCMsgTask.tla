---------------------------- MODULE MCMsgTask ----------------------------
(***************************************************************************)
(* A MsgTask and three messages: one in the worker's hands, one queued and *)
(* one that is sent by the proc() of the first, or refused.                *)
(***************************************************************************)
EXTENDS MsgTask
=============================================================================

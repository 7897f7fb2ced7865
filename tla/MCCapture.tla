----------------------------- MODULE MCCapture ------------------------------
(***************************************************************************)
(* An instance of Capture for TLC.  Every call has one tool call, so the   *)
(* call names that as well as the message.                                 *)
(***************************************************************************)
EXTENDS Capture

MCId == Call
MCModel == {Alias, Served}
=============================================================================

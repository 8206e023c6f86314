---------------------------- MODULE MCChatStream ----------------------------
(***************************************************************************)
(* ChatStream for TLC.                                                     *)
(***************************************************************************)
EXTENDS ChatStream, TLC

=============================================================================

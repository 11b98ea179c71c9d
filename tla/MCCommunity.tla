---------------------------- MODULE MCCommunity ----------------------------
(***************************************************************************)
(* The model-checking instance of Community.                               *)
(***************************************************************************)
EXTENDS Community
=============================================================================

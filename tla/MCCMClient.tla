----------------------------- MODULE MCCMClient -----------------------------
(***************************************************************************)
(* CMClient with one or two callers, one of which is sent more packets     *)
(* than a job holds, so that its queue can overflow.                       *)
(***************************************************************************)
EXTENDS CMClient, TLC

CONSTANTS p, q

TwoReplies == p :> 2 @@ q :> 1
LongReply  == p :> 3
=============================================================================

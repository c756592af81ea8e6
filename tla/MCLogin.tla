------------------------------ MODULE MCLogin ------------------------------
(***************************************************************************)
(* Login with two processes, two accounts and one publisher key.           *)
(***************************************************************************)
EXTENDS Login, TLC

CONSTANTS p, q, a, b, k

\* Both codes; a code or a confirmation; a confirmation alone; nothing the client
\* knows; and nothing needed.
MCOffers == {{"emailCode", "deviceCode"}, {"deviceCode", "deviceConfirmation"},
             {"emailConfirmation"}, {"other"}, {"none", "emailCode"}}

Alike == Permutations(Processes) \cup Permutations(Accounts)
============================================================================

---------------------------- MODULE MCUsageInbox ----------------------------
(* Small instances of UsageInbox for TLC. *)
EXTENDS UsageInbox, TLC

CONSTANTS r1, r2

TwoRequests == {r1, r2}
OneRequest  == {r1}
SecondMalformed == {2}
=============================================================================

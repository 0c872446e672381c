---------------------------- MODULE UsageDelivery ---------------------------
(***************************************************************************)
(* What usage ingestion promises about each provider attempt queued by CPA *)
(* (docs/adr/0008, docs/adr/0009): at most one usage event, recorded from  *)
(* a persisted row, and otherwise an explicit loss.  Delivery is at most   *)
(* once before the message is stored and exactly once or given up after.   *)
(***************************************************************************)
CONSTANTS Messages, Malformed

VARIABLE fate  \* unsent, queued, held, stored, recorded or dropped

Init == fate = [m \in Messages |-> "unsent"]

\* The messages of S, all in one of the fates of From, move on to fate to.
Move(S, From, to) ==
    /\ \A m \in S : fate[m] \in From
    /\ fate' = [m \in Messages |-> IF m \in S THEN to ELSE fate[m]]

Send(S)   == Move(S, {"unsent"}, "queued")
Take(S)   == Move(S, {"queued"}, "held")
Store(S)  == Move(S, {"held"}, "stored")
Record(S) == Move(S, {"stored"}, "recorded") /\ S \cap Malformed = {}
Drop(S)   == Move(S, {"queued", "held", "stored"}, "dropped")

Next ==
    \E S \in SUBSET Messages :
        Send(S) \/ Take(S) \/ Store(S) \/ Record(S) \/ Drop(S)

Spec == Init /\ [][Next]_fate

=============================================================================

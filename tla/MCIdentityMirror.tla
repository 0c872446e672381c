-------------------------- MODULE MCIdentityMirror --------------------------
(***************************************************************************)
(* IdentitySync for the mirror, in two stories that together would be too  *)
(* many states: two overlapping syncs with provider keys, one account      *)
(* request and one change at CPA; and two account requests that both reach *)
(* CPA, with the runner's sync and no provider keys.                       *)
(***************************************************************************)
EXTENDS IdentitySync

CONSTANTS a1, k1, m1, t1, t2

OneFile     == {a1}
OneKey      == {k1}
OneManual   == {m1}
TwoTogglers == {t1, t2}

VARIABLE story

MirrorInit ==
    /\ Init
    /\ story \in {"syncs", "requests"}
    /\ story = "requests" => keys = [t \in Types |-> {}]

MirrorNext ==
    /\ Next
    /\ story = "syncs" => at'[t2] = "idle" /\ changes' <= 1
    /\ story = "requests" => pc'[m1] = "idle" /\ keys' = keys
    /\ UNCHANGED story

MirrorSpec ==
    /\ MirrorInit /\ [][MirrorNext]_<<vars, story>>
    /\ Fairness

=============================================================================

---------------------------- MODULE MCUsageRollup ---------------------------
(* Small instances of UsageRollup for TLC. *)
EXTENDS UsageRollup, TLC

CONSTANTS e1, e2, e3

ThreeEvents == {e1, e2, e3}
TwoEvents   == {e1, e2}
PastHours   == 0 .. UpgradeHour - 1
CurrentHour == 0 .. UpgradeHour
EventSymmetry == Permutations(Events)

=============================================================================

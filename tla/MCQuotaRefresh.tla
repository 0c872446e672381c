--------------------------- MODULE MCQuotaRefresh ---------------------------
(* A small instance of QuotaRefresh for TLC.  A behaviour looks at two     *)
(* auth files whose tasks compete for a worker token ("tasks"), at one     *)
(* auth file refreshed again and again ("again"), or at one auth file that *)
(* is refreshed and checked while the clock moves ("observations").        *)
EXTENDS QuotaRefresh

CONSTANTS a1, a2, r1, c1

VARIABLE focus

TwoAuths   == {a1, a2}
OneRequest == {r1}
OneCaller  == {c1}

NoChecks == clock' = clock /\ pc'[c1] = "idle"

OneFile ==
    /\ a2 \in active'
    /\ valid'[r1] # a2
    /\ \A c \in Checkers : auth'[c] # a2

TwoTasks == seq' <= 2

Focus ==
    CASE focus = "tasks"        -> NoChecks /\ TwoTasks
      [] focus = "again"        -> NoChecks /\ OneFile
      [] focus = "observations" -> OneFile /\ TwoTasks

MCVars == <<vars, focus>>

MCInit == Init /\ focus \in {"tasks", "again", "observations"}

MCNext == Next /\ Focus /\ focus' = focus

MCSpec == MCInit /\ [][MCNext]_MCVars /\ Fairness

=============================================================================

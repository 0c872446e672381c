----------------------------- MODULE ReportData -----------------------------
(***************************************************************************)
(* The tables the reports read: usage_events, usage_rollups_hourly,        *)
(* model_price_settings and the backfill state, and the writers that may   *)
(* commit between two statements of a report (a report opens no            *)
(* transaction; the single database connection serialises statements).     *)
(*                                                                         *)
(* How the rollups are kept is UsageRollup's subject.  Here a rollup row   *)
(* is the set of events it counts, and what matters is which events the    *)
(* rollups hold and whether the backfill allows them to be read.           *)
(*                                                                         *)
(* Time is counted in ticks, the resolution of a timestamp: the code's     *)
(* nanosecond is one tick.                                                 *)
(***************************************************************************)
EXTENDS Integers, FiniteSets, FiniteSetsExt

CONSTANTS
    TicksPerHour,   \* ticks in one hour
    HoursPerDay,    \* hours in one day
    Offset,         \* the configured time zone's offset from UTC, in ticks
    LastTick,       \* bound: the last timestamp of the model
    Workloads,      \* sets of events that may arrive; a behaviour uses one
    MaxEvents       \* bound: usage events stored in one behaviour

Ticks     == 0 .. LastTick
NoValue   == "none"             \* an empty or NULL column
Tristate  == {"yes", "no", "null"}
Kind      == [provider : STRING, model : STRING, alias : STRING,
              key : STRING, apiKey : STRING,
              failed : BOOLEAN, quality : {"absent", "unclassified", "complete"},
              tokens : Nat, generate : Tristate, stream : Tristate,
              latency : Nat, ttft : Nat]

ASSUME ReportDataAssumption ==
    /\ TicksPerHour \in Nat \ {0} /\ HoursPerDay \in Nat \ {0}
    /\ Offset \in Nat /\ LastTick \in Nat /\ MaxEvents \in Nat
    /\ Workloads \subseteq SUBSET [t : Ticks, k : Kind]

VARIABLES
    events,      \* usage_events
    rolled,      \* the events usage_rollups_hourly counts
    backfilled,  \* the backfill has completed and covers its target
    prices,      \* the models of model_price_settings
    arrivals     \* the events that may arrive in this behaviour

dataVars == <<events, rolled, backfilled, prices, arrivals>>

Models == {a.k.model : a \in arrivals} \ {NoValue}

-----------------------------------------------------------------------------
(* One event: its hour, its local day, its tokens and its cost.            *)

HourStart(t) == (t \div TicksPerHour) * TicksPerHour
LocalHour(t) == (t + Offset) \div TicksPerHour
LocalDay(t)  == (t + Offset) \div (TicksPerHour * HoursPerDay)

\* Only attempts with valid accounting have canonical tokens.
Tokens(e) == IF e.k.quality = "absent" THEN 0 ELSE e.k.tokens

\* The cost of an attempt is known when its accounting is complete and its
\* model is priced, or it used no tokens at all.
KnownCost(e, priced) ==
    e.k.quality = "complete" /\ (priced \/ e.k.tokens = 0)

\* Prices are scaled to one unit per token.
CostOf(e, priced) ==
    IF e.k.quality = "complete" /\ priced THEN e.k.tokens ELSE 0

\* cost_completeness.go
assessCostCompleteness(missingPricingEvents, knownCostAttempts) ==
    CASE missingPricingEvents = 0 -> "available"
      [] missingPricingEvents > 0 /\ knownCostAttempts > 0 -> "partial"
      [] OTHER -> "unavailable"

-----------------------------------------------------------------------------
(* The writers.                                                            *)

\* Before the rollups existed events were stored without them.
DataInit ==
    /\ arrivals \in Workloads
    /\ \E E \in {{}} \cup {{[id |-> 1, t |-> a.t, k |-> a.k]} : a \in arrivals} :
        /\ events = E
        /\ rolled = {}
        /\ backfilled = (E = {})
        /\ prices = {}

\* InsertUsageEvents: the event and its rollup in one transaction.
InsertEvent(a) ==
    /\ Cardinality(events) < MaxEvents
    /\ LET e == [id |-> Cardinality(events) + 1, t |-> a.t, k |-> a.k]
       IN  /\ events' = events \cup {e}
           /\ rolled' = rolled \cup {e}
    /\ UNCHANGED <<backfilled, prices, arrivals>>

\* The last batch of the backfill.
CompleteBackfill ==
    /\ ~ backfilled
    /\ backfilled' = TRUE
    /\ rolled' = events
    /\ UNCHANGED <<events, prices, arrivals>>

\* PUT /pricing/:model; the model is one the proxy lists, or a used one.
\* Changing a stored price changes no completeness.
UpdatePricing(m) ==
    /\ m \in Models \ prices
    /\ prices' = prices \cup {m}
    /\ UNCHANGED <<events, rolled, backfilled, arrivals>>

\* DELETE /pricing/:model
DeletePricing(m) ==
    /\ m \in prices
    /\ prices' = prices \ {m}
    /\ UNCHANGED <<events, rolled, backfilled, arrivals>>

\* The writers of usage_events alone, for reports that read nothing else.
IntakeNext == \E a \in arrivals : InsertEvent(a)

DataNext ==
    \/ IntakeNext
    \/ CompleteBackfill
    \/ \E m \in Models : UpdatePricing(m)
    \/ \E m \in Models : DeletePricing(m)
=============================================================================

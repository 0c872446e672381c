----------------------------- MODULE PassiveQuota -----------------------------
(***************************************************************************)
(* How the passive quota signals that CPA lists with a Codex auth file     *)
(* become quota rows (quota/passive.go).  The signals are a Go map, so     *)
(* they are visited in any order; each is parsed on its own, and what is   *)
(* malformed gives no fact.  The rows are built when all were visited.     *)
(*                                                                         *)
(* A value is represented by what parsing it gives: "bad" is malformed,    *)
(* "zero" and the others are well formed.                                  *)
(***************************************************************************)
EXTENDS Integers, FiniteSets

CONSTANTS
    Groups,       \* the limits a provider may name
    MaxSignals    \* bound: signals of one observation

Windows == {"primary", "secondary"}
Nil     == "nil"
FiveHours == "5h"      \* a duration of 5 hours, and its label
Weekly    == "Weekly"
OtherTime == "other"   \* any other duration

GroupFields == {"allowed", "limit-reached"}
Verdicts    == {"true", "false", "bad"}
FieldValues == [used    |-> {"zero", "some", "bad"},
                minutes |-> {"zero", FiveHours, Weekly, OtherTime, "bad"},
                after   |-> {"zero", "some", "bad"},
                at      |-> {"some", "bad"}]
WindowFields == DOMAIN FieldValues

\* One signal: a field of a group, or of a window of a group.
Signals ==
    [group : Groups, window : {Nil}, field : GroupFields, value : Verdicts]
      \cup UNION {[group : Groups, window : Windows, field : {f},
                   value : FieldValues[f]] : f \in WindowFields}

SameKey(s, t) ==
    s.group = t.group /\ s.window = t.window /\ s.field = t.field

ASSUME PassiveQuotaAssumption == MaxSignals \in Nat

VARIABLES
    stage,     \* "idle", "visiting" the signals, or "done"
    input,     \* history: the signals of the observation
    pending,   \* the signals not visited yet
    groups,    \* the groups built so far
    rows       \* the rows, once built

passiveVars == <<stage, input, pending, groups, rows>>

-----------------------------------------------------------------------------
(* Visiting the signals.                                                   *)

\* zero: an explicit zero duration.
EmptyWindow == [used |-> Nil, minutes |-> Nil, after |-> Nil, at |-> Nil,
                zero |-> FALSE]

EmptyGroup == [allowed |-> Nil, limit |-> Nil, windows |-> <<>>]

\* A map with one entry set.
With(map, key, value) ==
    [k \in DOMAIN map \cup {key} |-> IF k = key THEN value ELSE map[k]]

GroupOf(name) == IF name \in DOMAIN groups THEN groups[name] ELSE EmptyGroup

\* A well-formed value is kept; a zero duration is remembered but is no fact.
SetField(window, field, value) ==
    CASE value = "bad" -> window
      [] field = "minutes" /\ value = "zero" -> [window EXCEPT !.zero = TRUE]
      [] OTHER -> [window EXCEPT ![field] = value]

WithWindow(group, s) ==
    LET old == IF s.window \in DOMAIN group.windows
               THEN group.windows[s.window] ELSE EmptyWindow
    IN  [group EXCEPT !.windows = With(@, s.window, SetField(old, s.field, s.value))]

WithVerdict(group, s) ==
    CASE s.value = "bad" -> group
      [] s.value # "bad" /\ s.field = "allowed" -> [group EXCEPT !.allowed = s.value]
      [] OTHER -> [group EXCEPT !.limit = s.value]

\* The proxy's observation has one more signal; a map has one value a key.
SendSignal(s) ==
    /\ stage = "idle"
    /\ Cardinality(input) < MaxSignals
    /\ \A t \in input : ~ SameKey(s, t)
    /\ input' = input \cup {s}
    /\ UNCHANGED <<stage, pending, groups, rows>>

\* normalizePassiveObservation: an observation whose time is readable.
ObserveSignals ==
    /\ stage = "idle" /\ input # {}
    /\ stage' = "visiting"
    /\ pending' = input
    /\ UNCHANGED <<input, groups, rows>>

VisitSignal(s) ==
    /\ s \in pending
    /\ pending' = pending \ {s}
    /\ groups' = With(groups, s.group,
                      IF s.window = Nil THEN WithVerdict(GroupOf(s.group), s)
                                        ELSE WithWindow(GroupOf(s.group), s))
    /\ UNCHANGED <<stage, input, rows>>

-----------------------------------------------------------------------------
(* Building the rows.                                                      *)

HasFact(w) == \E f \in WindowFields : w[f] # Nil

ZeroPlaceholderIgnored(w) == FALSE

\* What the proxy sends for a window the provider does not have.
ZeroPlaceholder(w) ==
    w.zero /\ w.used \in {Nil, "zero"} /\ w.after \in {Nil, "zero"} /\ w.at = Nil

\* The windows left in a group: not a placeholder, and with a fact.
KeptWindows(g) ==
    {w \in DOMAIN g.windows :
        ~ ZeroPlaceholder(g.windows[w]) /\ HasFact(g.windows[w])}

\* A group that is both allowed and at its limit, or neither, says nothing.
Verdict(g) ==
    IF g.allowed # Nil /\ g.limit # Nil /\ g.allowed = g.limit
    THEN [allowed |-> Nil, limit |-> Nil]
    ELSE [allowed |-> g.allowed, limit |-> g.limit]

\* codexPassiveLabel
codexPassiveLabel(duration) ==
    IF duration \in {FiveHours, Weekly} THEN duration ELSE "Window"

WindowRow(name, w) ==
    LET g == groups[name]
    IN  [group |-> name, kind |-> w, label |-> codexPassiveLabel(g.windows[w].minutes),
         facts |-> [f \in WindowFields |-> g.windows[w][f]], verdict |-> Verdict(g)]

\* A row of its own for the verdict when no window carries it.
StateRow(name) ==
    [group |-> name, kind |-> "state", label |-> "Rate limit",
     facts |-> [f \in WindowFields |-> Nil], verdict |-> Verdict(groups[name])]

NeedsStateRow(g) ==
    KeptWindows(g) = {} /\ (Verdict(g).allowed # Nil \/ Verdict(g).limit # Nil)

\* The rows of one group.
GroupRows(name) ==
    {WindowRow(name, w) : w \in KeptWindows(groups[name])}
        \cup IF NeedsStateRow(groups[name]) THEN {StateRow(name)} ELSE {}

normalizeCodexPassiveRows ==
    /\ stage = "visiting" /\ pending = {}
    /\ rows' = UNION {GroupRows(n) : n \in DOMAIN groups}
    /\ stage' = "done"
    /\ UNCHANGED <<input, pending, groups>>

\* The next observation is normalized from nothing.
NextObservation ==
    /\ stage = "done"
    /\ stage' = "idle"
    /\ input' = {} /\ groups' = <<>> /\ rows' = {}
    /\ UNCHANGED pending

PassiveInit ==
    /\ stage = "idle"
    /\ input = {} /\ pending = {} /\ groups = <<>> /\ rows = {}

PassiveNext ==
    \/ \E s \in Signals : SendSignal(s)
    \/ ObserveSignals
    \/ \E s \in pending : VisitSignal(s)
    \/ normalizeCodexPassiveRows
    \/ NextObservation

PassiveSpec == PassiveInit /\ [][PassiveNext]_passiveVars

-----------------------------------------------------------------------------
(* Properties.                                                             *)

Given(name, window, field) ==
    {s.value : s \in {x \in input : x.group = name /\ x.window = window
                                       /\ x.field = field}} \ {"bad"}

\* The fact a window's field states, if any; a zero duration states none.
FactOf(name, w, f) ==
    LET stated == Given(name, w, f) \ IF f = "minutes" THEN {"zero"} ELSE {}
    IN  IF stated = {} THEN Nil ELSE CHOOSE v \in stated : TRUE

\* A window announced with a zero duration is shown only for a fact that is
\* not zero as well.
Shown(name, w) ==
    \E f \in WindowFields :
        FactOf(name, w, f) \notin
            {Nil} \cup IF "zero" \in Given(name, w, "minutes") THEN {"zero"} ELSE {}

\* Whatever order the signals are visited in, a finished observation shows
\* every window with a fact and no other, with exactly its well-formed
\* facts and the label of its own duration; a consistent verdict of a group
\* is on every row of the group and on at least one, also when all its
\* windows were malformed or placeholders; a contradictory one on none
\* (normalizeCodexPassiveRows).
PassiveRowsFaithful ==
    stage = "done" =>
        \A name \in Groups :
            LET allowed == Given(name, Nil, "allowed")
                limit   == Given(name, Nil, "limit-reached")
                mine    == {r \in rows : r.group = name}
                said    == IF allowed = limit THEN {} ELSE allowed \cup limit
            IN  /\ {r.kind : r \in mine} \ {"state"} = {w \in Windows : Shown(name, w)}
                /\ \A r \in mine :
                      /\ r.kind \in Windows =>
                            /\ r.facts = [f \in WindowFields |-> FactOf(name, r.kind, f)]
                            /\ r.label \in {FiveHours, Weekly} <=>
                                  FactOf(name, r.kind, "minutes") = r.label
                      /\ {r.verdict.allowed, r.verdict.limit} \ {Nil} = said
                /\ said # {} => mine # {}
                /\ Cardinality({r.kind : r \in mine}) = Cardinality(mine)
=============================================================================

---------------------------- MODULE IdentitySync ----------------------------
(***************************************************************************)
(* The local mirror of CPA's auth files and provider keys: metadata syncs  *)
(* fetch listings, replace the identities and aggregate usage statistics,  *)
(* while accounts are enabled and disabled through CPA and ingestion adds  *)
(* usage events (service/sync.go, service/provider_metadata.go,            *)
(* service/account_status.go, repository/usage_identities.go,              *)
(* app/metadata_sync.go).                                                  *)
(*                                                                         *)
(* One step is one request to CPA, one database statement or one           *)
(* transaction.  Two syncs can overlap: the runner's and a manual one.     *)
(* Of an identity's metadata the model keeps what can go stale in a way    *)
(* that matters: presence, type, disabled flag and the source time of the  *)
(* passive quota.  Provider types are numbered in registry order.          *)
(***************************************************************************)
EXTENDS Naturals, FiniteSets, FiniteSetsExt

CONSTANTS
    AuthFiles,    \* auth indexes of auth files
    Keys,         \* auth indexes of provider keys
    NumTypes,     \* provider adapters in the registry
    Runner,       \* the goroutine of MetadataSyncRunner
    Manual,       \* the metadata stage of manual syncs, one at a time
    Togglers,     \* concurrent account status requests
    MaxEvents,    \* bound: usage events ever stored
    MaxSeen,      \* bound: source times of passive quota
    MaxChanges    \* bound: changes at CPA

Types   == 1 .. NumTypes
Ids     == AuthFiles \cup Keys
Events  == 1 .. MaxEvents
Seen    == 0 .. MaxSeen
NoTime  == 0
NoType  == 0
Syncers == {Runner} \cup Manual

ASSUME IdentitySyncAssumption ==
    /\ AuthFiles \cap Keys = {}
    /\ NumTypes \in Nat \ {0}
    /\ Runner \notin Manual
    /\ MaxEvents \in Nat /\ MaxSeen \in Nat /\ MaxChanges \in Nat

Listing   == [files : SUBSET AuthFiles, off : SUBSET AuthFiles,
              seen : [AuthFiles -> Seen]]
NoListing == [files |-> {}, off |-> {}, seen |-> [a \in AuthFiles |-> NoTime]]
NoInputs  == [k \in Keys |-> NoType]
NoSnap    == [i \in Ids |-> [total |-> 0, cursor |-> 0]]

VARIABLES
    (* CPA *)
    cpa,         \* its auth files, the disabled ones, their passive quota
    keys,        \* the keys of each provider type
    changes,
    (* the database *)
    row,         \* usage_identities: "absent", "active" or "deleted"
    type,        \* type column of a provider key
    disabled,    \* auth files with the disabled flag
    passive,     \* source time of passive_quota
    total,       \* total_requests
    cursor,      \* last_aggregated_usage_event_id
    eventsOf,    \* ids of the usage events of each identity
    stored,      \* usage events so far
    (* SyncMetadata *)
    pc, good, ok, listing, adapter, inputs, fetched, known, snap,
    (* SetIdentityDisabled *)
    at, who, want, observed

cpaVars    == <<cpa, keys, changes>>
statVars   == <<total, cursor>>
eventVars  == <<eventsOf, stored>>
mirrorVars == <<row, type, disabled, passive>>
localVars  == <<good, ok, listing, adapter, inputs, fetched, known, snap>>
toggleVars == <<at, who, want, observed>>
vars       == <<cpa, keys, changes, row, type, disabled, passive, total, cursor,
                eventsOf, stored, pc, good, ok, listing, adapter, inputs, fetched,
                known, snap, at, who, want, observed>>

PC == {"idle", "auth", "provider", "replaceAuth", "replaceProviders", "list",
       "aggregate"}
At == {"idle", "resolve", "set", "persist", "readBack", "update"}

TypeOK ==
    /\ cpa \in Listing
    /\ keys \in [Types -> SUBSET Keys]
    /\ changes \in 0 .. MaxChanges
    /\ row \in [Ids -> {"absent", "active", "deleted"}]
    /\ type \in [Keys -> Types \cup {NoType}]
    /\ disabled \subseteq AuthFiles
    /\ passive \in [AuthFiles -> Seen]
    /\ total \in [Ids -> 0 .. MaxEvents]
    /\ cursor \in [Ids -> 0 .. MaxEvents]
    /\ eventsOf \in [Ids -> SUBSET Events]
    /\ stored \in 0 .. MaxEvents
    /\ pc \in [Syncers -> PC]
    /\ good \subseteq Syncers
    /\ ok \subseteq Syncers
    /\ listing \in [Syncers -> Listing]
    /\ adapter \in [Syncers -> Types]
    /\ inputs \in [Syncers -> [Keys -> Types \cup {NoType}]]
    /\ fetched \in [Syncers -> SUBSET Types]
    /\ known \in [Syncers -> SUBSET Ids]
    /\ snap \in [Syncers -> [Ids -> [total : 0 .. MaxEvents,
                                     cursor : 0 .. MaxEvents]]]
    /\ at \in [Togglers -> At]
    /\ who \in [Togglers -> AuthFiles]
    /\ want \subseteq Togglers
    /\ observed \subseteq Togglers

\* A new installation: CPA has anything, the database nothing.
Init ==
    /\ cpa \in [files : SUBSET AuthFiles, off : {{}},
                seen : {[a \in AuthFiles |-> NoTime]}]
    /\ keys \in [Types -> SUBSET Keys]
    /\ changes = 0
    /\ row = [i \in Ids |-> "absent"]
    /\ type = NoInputs
    /\ disabled = {}
    /\ passive = [a \in AuthFiles |-> NoTime]
    /\ total = [i \in Ids |-> 0]
    /\ cursor = [i \in Ids |-> 0]
    /\ eventsOf = [i \in Ids |-> {}]
    /\ stored = 0
    /\ pc = [s \in Syncers |-> "idle"]
    /\ good = {}
    /\ ok = {}
    /\ listing = [s \in Syncers |-> NoListing]
    /\ adapter = [s \in Syncers |-> 1]
    /\ inputs = [s \in Syncers |-> NoInputs]
    /\ fetched = [s \in Syncers |-> {}]
    /\ known = [s \in Syncers |-> {}]
    /\ snap = [s \in Syncers |-> NoSnap]
    /\ at = [t \in Togglers |-> "idle"]
    /\ who \in [Togglers -> AuthFiles]
    /\ want = {}
    /\ observed = {}

-----------------------------------------------------------------------------
(* CPA changes on its own. *)

Change ==
    /\ changes < MaxChanges
    /\ changes' = changes + 1

\* An auth file appears or disappears, or is enabled or disabled elsewhere.
ChangeFile(a) ==
    /\ Change
    /\ \/ cpa' = [cpa EXCEPT !.files = @ \cup {a}]
       \/ cpa' = [files |-> cpa.files \ {a}, off |-> cpa.off \ {a},
                  seen |-> [cpa.seen EXCEPT ![a] = NoTime]]
       \/ a \in cpa.files /\ cpa' = [cpa EXCEPT !.off = @ \cup {a}]
       \/ a \in cpa.files /\ cpa' = [cpa EXCEPT !.off = @ \ {a}]
    /\ UNCHANGED <<keys, mirrorVars, statVars, eventVars, pc, localVars, toggleVars>>

\* CPA reports another passive observation, an older one after a restart, or
\* none.
ChangeQuota(a) ==
    /\ Change
    /\ a \in cpa.files
    /\ \E q \in Seen : cpa' = [cpa EXCEPT !.seen[a] = q]
    /\ UNCHANGED <<keys, mirrorVars, statVars, eventVars, pc, localVars, toggleVars>>

ChangeKeys(t) ==
    /\ Change
    /\ \E S \in SUBSET Keys : keys' = [keys EXCEPT ![t] = S]
    /\ UNCHANGED <<cpa, mirrorVars, statVars, eventVars, pc, localVars, toggleVars>>

-----------------------------------------------------------------------------
(* Ingestion. *)

\* InsertUsageEvents; an identity need not be known when its events arrive.
InsertUsageEvents(i) ==
    /\ stored < MaxEvents
    /\ stored' = stored + 1
    /\ eventsOf' = [eventsOf EXCEPT ![i] = @ \cup {stored + 1}]
    /\ UNCHANGED <<cpaVars, mirrorVars, statVars, pc, localVars, toggleVars>>

-----------------------------------------------------------------------------
(* SyncMetadata. *)

Goto(s, label) == pc' = [pc EXCEPT ![s] = label]

\* Locals that are not read again.
ForgetListing(s) == listing' = [listing EXCEPT ![s] = NoListing]

ForgetInputs(s) ==
    /\ inputs' = [inputs EXCEPT ![s] = NoInputs]
    /\ fetched' = [fetched EXCEPT ![s] = {}]

Return(s) ==
    /\ Goto(s, "idle")
    /\ good' = good \ {s}
    /\ ok' = ok \ {s}
    /\ known' = [known EXCEPT ![s] = {}]
    /\ snap' = [snap EXCEPT ![s] = NoSnap]

\* A round of the runner in which nothing is going to fail is marked as good
\* when it begins; any other round may fail anywhere, or nowhere.
SyncMetadata(s, S) ==
    /\ pc[s] = "idle"
    /\ Goto(s, "auth")
    /\ good' = good \cup S
    /\ ok' = ok \cup {s}
    /\ UNCHANGED <<listing, adapter, inputs, fetched, known, snap, cpaVars,
                   mirrorVars, statVars, eventVars, toggleVars>>

FetchAuthFiles(s) ==
    /\ pc[s] = "auth"
    /\ Goto(s, "provider")
    /\ \/ listing' = [listing EXCEPT ![s] = cpa] /\ ok' = ok
       \/ s \notin good /\ listing' = listing /\ ok' = ok \ {s}
    /\ UNCHANGED <<good, adapter, inputs, fetched, known, snap, cpaVars, mirrorVars,
                   statVars, eventVars, toggleVars>>

\* providerMetadata.fetch: one adapter after the other; a key that several
\* list belongs to the first, and an adapter that fails is left out.
FetchProvider(s) ==
    LET t == adapter[s] IN
    /\ pc[s] = "provider"
    /\ IF t < NumTypes
         THEN adapter' = [adapter EXCEPT ![s] = t + 1] /\ pc' = pc
         ELSE adapter' = [adapter EXCEPT ![s] = 1] /\ Goto(s, "replaceAuth")
    /\ \/ /\ fetched' = [fetched EXCEPT ![s] = @ \cup {t}]
          /\ inputs' = [inputs EXCEPT ![s] =
                [k \in Keys |-> IF @[k] = NoType /\ k \in keys[t] THEN t ELSE @[k]]]
       \/ s \notin good /\ UNCHANGED <<fetched, inputs>>
    /\ UNCHANGED <<good, ok, listing, known, snap, cpaVars, mirrorVars, statVars,
                   eventVars, toggleVars>>

\* mergePassiveAccountObservation: the newer source time wins.
Merge(existing, incoming) ==
    IF incoming = NoTime \/ incoming < existing THEN existing ELSE incoming

\* upsertUsageIdentities: an identity that CPA lists is active, also when it
\* had been deleted.
Restored(old) == "active"

StaleKept(old) == old

\* An active identity that is not listed.
Stale(old) == IF old = "active" THEN "deleted" ELSE old

\* syncAuthFiles, ReplaceUsageIdentitiesForAuthType: one transaction, from
\* the listing fetched before.
ReplaceAuthFiles(s) ==
    LET in == listing[s] IN
    /\ pc[s] = "replaceAuth"
    /\ s \in ok
    /\ Goto(s, "replaceProviders")
    /\ row' = [i \in Ids |-> IF i \notin AuthFiles THEN row[i]
                             ELSE IF i \in in.files THEN Restored(row[i])
                             ELSE Stale(row[i])]
    /\ disabled' = (disabled \ in.files) \cup (in.off \cap in.files)
    /\ passive' = [a \in AuthFiles |-> IF a \in in.files
                                         THEN Merge(passive[a], in.seen[a])
                                         ELSE passive[a]]
    /\ ForgetListing(s)
    /\ UNCHANGED <<type, good, ok, adapter, inputs, fetched, known, snap, cpaVars,
                   statVars, eventVars, toggleVars>>

\* Nothing was fetched, or the transaction fails: the accounts stay as they
\* are, the providers are still replaced.
AuthFilesNotReplaced(s) ==
    /\ pc[s] = "replaceAuth"
    /\ s \notin good
    /\ ok' = ok \ {s}
    /\ Goto(s, "replaceProviders")
    /\ ForgetListing(s)
    /\ UNCHANGED <<good, adapter, inputs, fetched, known, snap, cpaVars,
                   mirrorVars, statVars, eventVars, toggleVars>>

AfterReplace(s) ==
    IF s \in ok THEN Goto(s, "list") /\ UNCHANGED <<good, ok, known, snap>>
               ELSE Return(s)

\* Only a key of a type that was fetched can be marked deleted.
InScope(s, k) == type[k] \in fetched[s]

\* syncProviderMetadata, ReplaceUsageIdentitiesForProviderTypes.  The fetch
\* error of a type is a warning: statistics are aggregated all the same.
ReplaceProviders(s) ==
    LET in == inputs[s] IN
    /\ pc[s] = "replaceProviders"
    /\ type' = [k \in Keys |-> IF in[k] # NoType THEN in[k] ELSE type[k]]
    /\ row' = [i \in Ids |->
                 IF i \notin Keys THEN row[i]
                 ELSE IF in[i] # NoType THEN Restored(row[i])
                 ELSE IF InScope(s, i) THEN Stale(row[i])
                 ELSE row[i]]
    /\ AfterReplace(s)
    /\ ForgetInputs(s)
    /\ UNCHANGED <<listing, adapter, disabled, passive, cpaVars, statVars, eventVars, toggleVars>>

ReplaceProvidersFails(s) ==
    /\ pc[s] = "replaceProviders"
    /\ s \notin good
    /\ Return(s)
    /\ ForgetInputs(s)
    /\ UNCHANGED <<listing, adapter, cpaVars, mirrorVars, statVars, eventVars,
                   toggleVars>>

\* AggregateUsageIdentityStats, the read before its transaction: every
\* identity, deleted ones too, with its totals and its cursor.
ListIdentities(s) ==
    /\ pc[s] = "list"
    /\ Goto(s, "aggregate")
    /\ known' = [known EXCEPT ![s] = {i \in Ids : row[i] # "absent"}]
    /\ snap' = [snap EXCEPT ![s] =
                  [i \in Ids |-> [total |-> total[i], cursor |-> cursor[i]]]]
    /\ UNCHANGED <<good, ok, listing, adapter, inputs, fetched, cpaVars, mirrorVars,
                   statVars, eventVars, toggleVars>>

\* The events of i behind the cursor that s has read.
Delta(s, i) == {e \in eventsOf[i] : e > snap[s][i].cursor}

Counted(s) == {i \in known[s] : Delta(s, i) # {}}

NewTotalCurrent(s, i) == total[i] + Cardinality(Delta(s, i))

NewTotal(s, i) == snap[s][i].total + Cardinality(Delta(s, i))

\* The transaction: for every identity read before with events behind the
\* cursor read before, totals and cursor are overwritten.
Aggregate(s) ==
    /\ pc[s] = "aggregate"
    /\ total' = [i \in Ids |-> IF i \in Counted(s) THEN NewTotal(s, i) ELSE total[i]]
    /\ cursor' = [i \in Ids |-> IF i \in Counted(s) THEN Max(Delta(s, i)) ELSE cursor[i]]
    /\ Return(s)
    /\ UNCHANGED <<listing, adapter, inputs, fetched, cpaVars, mirrorVars, eventVars,
                   toggleVars>>

AggregateFails(s) ==
    /\ pc[s] \in {"list", "aggregate"}
    /\ s \notin good
    /\ Return(s)
    /\ UNCHANGED <<listing, adapter, inputs, fetched, cpaVars, mirrorVars, statVars,
                   eventVars, toggleVars>>

-----------------------------------------------------------------------------
(* AccountStatusService.SetIdentityDisabled. *)

Toggle(t, from, to) ==
    /\ at[t] = from
    /\ at' = [at EXCEPT ![t] = to]
    /\ UNCHANGED <<row, type, passive, statVars, eventVars, pc, localVars>>

\* The identity exists, deleted or not.
SetIdentityDisabled(t, a) ==
    /\ row[a] # "absent"
    /\ Toggle(t, "idle", "resolve")
    /\ who' = [who EXCEPT ![t] = a]
    /\ \E S \in {{}, {t}} : want' = want \cup S
    /\ UNCHANGED <<observed, disabled, cpaVars>>

\* FetchAuthFileByAuthIndex, for the file's name.
ResolveName(t) ==
    /\ who[t] \in cpa.files
    /\ Toggle(t, "resolve", "set")
    /\ UNCHANGED <<who, want, observed, disabled, cpaVars>>

Flag(S, a, b) == IF b THEN S \cup {a} ELSE S \ {a}

\* CPA carries out the change; its answer may get lost.
SetAuthFileDisabled(t) ==
    /\ who[t] \in cpa.files
    /\ Change
    /\ cpa' = [cpa EXCEPT !.off = Flag(@, who[t], t \in want)]
    /\ \/ Toggle(t, "set", "persist") /\ want' = want
       \/ Toggle(t, "set", "idle") /\ want' = want \ {t}
    /\ UNCHANGED <<keys, who, observed, disabled>>

\* SetUsageIdentityDisabled: the local flag, by row id.
PersistDisabled(t) ==
    /\ Toggle(t, "persist", "readBack")
    /\ disabled' = Flag(disabled, who[t], t \in want)
    /\ want' = want \ {t}
    /\ UNCHANGED <<who, observed, cpaVars>>

ReadBack(t) ==
    /\ who[t] \in cpa.files
    /\ Toggle(t, "readBack", "update")
    /\ observed' = Flag(observed, t, who[t] \in cpa.off)
    /\ UNCHANGED <<who, want, disabled, cpaVars>>

\* UpdateUsageIdentityAuthFileState, and the return.
UpdateState(t) ==
    /\ Toggle(t, "update", "idle")
    /\ disabled' = Flag(disabled, who[t], t \in observed)
    /\ observed' = observed \ {t}
    /\ UNCHANGED <<who, want, cpaVars>>

\* A request to CPA or a statement fails, or CPA has no such file.
ToggleFails(t) ==
    /\ at[t] # "idle"
    /\ Toggle(t, at[t], "idle")
    /\ want' = want \ {t}
    /\ observed' = observed \ {t}
    /\ UNCHANGED <<who, disabled, cpaVars>>

-----------------------------------------------------------------------------
\* The process stops and starts again; not during a round in which nothing
\* fails.
Crash ==
    /\ good = {}
    /\ pc' = [s \in Syncers |-> "idle"]
    /\ ok' = {}
    /\ listing' = [s \in Syncers |-> NoListing]
    /\ adapter' = [s \in Syncers |-> 1]
    /\ inputs' = [s \in Syncers |-> NoInputs]
    /\ fetched' = [s \in Syncers |-> {}]
    /\ known' = [s \in Syncers |-> {}]
    /\ snap' = [s \in Syncers |-> NoSnap]
    /\ at' = [t \in Togglers |-> "idle"]
    /\ want' = {}
    /\ observed' = {}
    /\ UNCHANGED <<cpaVars, mirrorVars, statVars, eventVars, good, who>>

SyncStep(s) ==
    \/ FetchAuthFiles(s) \/ FetchProvider(s)
    \/ ReplaceAuthFiles(s) \/ AuthFilesNotReplaced(s)
    \/ ReplaceProviders(s) \/ ReplaceProvidersFails(s)
    \/ ListIdentities(s) \/ Aggregate(s) \/ AggregateFails(s)

ToggleStep(t) ==
    \/ ResolveName(t) \/ SetAuthFileDisabled(t) \/ PersistDisabled(t)
    \/ ReadBack(t) \/ UpdateState(t) \/ ToggleFails(t)

Next ==
    \/ \E a \in AuthFiles : ChangeFile(a) \/ ChangeQuota(a)
    \/ \E t \in Types : ChangeKeys(t)
    \/ \E i \in Ids : InsertUsageEvents(i)
    \/ \E s \in Syncers : SyncStep(s) \/ SyncMetadata(s, {})
    \/ SyncMetadata(Runner, {Runner})
    \/ \E t \in Togglers : ToggleStep(t) \/ \E a \in AuthFiles : SetIdentityDisabled(t, a)
    \/ Crash

Spec == Init /\ [][Next]_vars

\* Whoever has started goes on; the runner's timer fires again and again, and
\* rounds without a failure recur.
Fairness ==
    /\ \A s \in Syncers : WF_vars(SyncStep(s))
    /\ \A t \in Togglers : WF_vars(ToggleStep(t))
    /\ SF_vars(SyncMetadata(Runner, {Runner}))

FairSpec == Spec /\ Fairness

-----------------------------------------------------------------------------
CountUpTo(S, c) == Cardinality({e \in S : e <= c})

\* The total of an identity counts exactly its events up to its cursor: no
\* event is skipped or counted twice, although totals and cursor are read
\* outside the transaction that overwrites them, other syncs aggregate in
\* between, events of identities not yet known wait, and deleted identities
\* come back.
StatsExact ==
    \A i \in Ids : total[i] = CountUpTo(eventsOf[i], cursor[i])

\* No sync takes back what an earlier or overlapping one has recorded: totals,
\* cursors and the source time of the passive quota never decrease
\* (docs/design/quota-observation-retention.md: missing or older passive
\* snapshots preserve the latest readings).
HistoryAdvances ==
    [][/\ \A i \in Ids : total[i] <= total'[i] /\ cursor[i] <= cursor'[i]
       /\ \A a \in AuthFiles : passive[a] <= passive'[a]]_vars

-----------------------------------------------------------------------------
(* The inductive invariant behind these two. *)

EventsOK == stored \in Nat /\ eventsOf \in [Ids -> SUBSET (1 .. stored)]

\* A cursor is the id of an event of its own identity.
CursorOK ==
    /\ total \in [Ids -> Nat]
    /\ cursor \in [Ids -> Nat]
    /\ \A i \in Ids : cursor[i] = 0 \/ cursor[i] \in eventsOf[i]

\* What a sync has read before its transaction was exact then, which events
\* stored later do not change, and the cursor has not moved back since.
SnapOK ==
    /\ pc \in [Syncers -> PC]
    /\ snap \in [Syncers -> [Ids -> [total : Nat, cursor : Nat]]]
    /\ \A s \in Syncers : pc[s] = "aggregate" => \A i \in Ids :
          /\ snap[s][i].total = CountUpTo(eventsOf[i], snap[s][i].cursor)
          /\ snap[s][i].cursor <= cursor[i]

ListingOK ==
    /\ cpa \in Listing
    /\ listing \in [Syncers -> Listing]
    /\ passive \in [AuthFiles -> Nat]

Inv == EventsOK /\ CursorOK /\ SnapOK /\ ListingOK /\ StatsExact

-----------------------------------------------------------------------------
\* What the pages show agrees with CPA.
Mirrored ==
    /\ \A a \in AuthFiles : row[a] = "active" <=> a \in cpa.files
    /\ \A a \in cpa.files : a \in disabled <=> a \in cpa.off
    /\ \A k \in Keys : row[k] = "active" <=> \E t \in Types : k \in keys[t]

\* Once CPA stops changing, the mirror becomes right and stays right, whatever
\* order the stale listings of overlapping syncs and the flags of account
\* requests are written in.
MirrorConverges == <>[]Mirrored

=============================================================================

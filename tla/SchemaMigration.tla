--------------------------- MODULE SchemaMigration --------------------------
(***************************************************************************)
(* Opening the SQLite database: the creation of a fresh one, and the       *)
(* upgrade of an older one by the ordered schema migrations with their     *)
(* ledger (repository/db.go, repository/migration).                        *)
(*                                                                         *)
(* A database is a record; a migration is an operator from databases to    *)
(* databases, so that one step of the process is one transaction: the      *)
(* migration together with its row in the ledger.  Columns are kept in the *)
(* groups in which the migrations add and drop them.  Of the rows the      *)
(* model keeps what migrations compute with: how an event is attributed,   *)
(* its hour, whether it has a cache-read fact, the identities with the     *)
(* events their totals count, the backfill state, whether the inbox still  *)
(* holds processable rows, and whether two events have the same key.       *)
(***************************************************************************)
EXTENDS Integers, FiniteSets, FiniteSetsExt, Sequences, SequencesExt

CONSTANTS
    MaxEvent,    \* bound: events of a legacy database, by id
    Keys,        \* raw provider keys: usage_events.source, lookup_key
    Auths,       \* auth indexes
    AuthFiles,   \* those of auth files
    MaxHour,     \* bound: hours 0 .. MaxHour of events
    MaxFailures, \* bound: crashes and failed statements
    PrefixName   \* a provider_metadata row made from a prefix ("gemini", ...)

ASSUME SchemaMigrationAssumption ==
    /\ MaxEvent \in Nat \ {0} /\ MaxHour \in Nat /\ MaxFailures \in Nat
    /\ IsFiniteSet(Keys) /\ IsFiniteSet(Auths)
    /\ AuthFiles \subseteq Auths /\ PrefixName \notin Keys \cup Auths

Events == 1 .. MaxEvent
Hours  == 0 .. MaxHour
NoHour == -1
NoRow  == [status |-> "none", target |-> NoHour, covered |-> NoHour]
Blank  == ""

\* entities.All, in the order in which AutoMigrate creates the tables.
CoreTables == <<"usage_events", "redis_usage_inboxes", "model_price_settings",
                "usage_identities", "quota_observations", "key_aliases",
                "usage_rollup_backfill_states", "usage_rollups_hourly">>

\* The column groups of the current entities.
CurrentColumns ==
    [usage_events |-> {"redis", "alias", "ttft", "attempt", "accounting"},
     redis_usage_inboxes |-> {},
     usage_identities |-> {"lookup", "metadata", "project", "baseURL", "disabled",
                           "availability", "passive", "renewal"},
     usage_rollups_hourly |-> {"accounting"}]

VARIABLES
    db,        \* the database file
    pc,        \* OpenDatabase: "down", "create", "seed", "mark", "run", "ensure", "open"
    at,        \* the table or migration it has come to
    torn,      \* a fresh creation was interrupted (history)
    failures   \* crashes and failed statements so far (bounded)

vars == <<db, pc, at, torn, failures>>

-----------------------------------------------------------------------------
(* Helpers of the migrations. *)

Has(d, t) == t \in d.tables

HasColumn(d, t, c) == Has(d, t) /\ c \in d.cols[t]

WithColumns(d, t, cs) == [d EXCEPT !.cols[t] = @ \cup cs]

\* The common form of the migrations that add missing columns: nothing without
\* the table, ALTER TABLE for each column that is missing.
AddColumns(d, t, cs) == IF Has(d, t) THEN WithColumns(d, t, cs) ELSE d

dropColumnIfExists(d, t, c) == IF Has(d, t) THEN [d EXCEPT !.cols[t] = @ \ {c}] ELSE d

CreateTable(d, t) == [d EXCEPT !.tables = @ \cup {t}]

\* Attribution of an event to an identity in the first statistics: by auth index
\* for auth files, by source for providers; an event without auth type counts.
BackfillEvents(d, i) ==
    {e \in Events :
        IF i.kind = "oauth" THEN d.ev[e].auth = i.identity /\ d.ev[e].type \in {"oauth", Blank}
                            ELSE d.ev[e].src = i.identity /\ d.ev[e].type \in {"apikey", Blank}}

\* The attribution of providers by auth index.
EventsByAuthIndex(d, i) ==
    {e \in Events : d.ev[e].auth = i.identity /\ d.ev[e].type \in {"apikey", Blank}}

\* A plausible bug: the totals are written without the cursor.
FullStatsWithoutCursor(i, es) == [i EXCEPT !.counted = es]

\* The total of an identity as the set of events it counts, and its cursor.
FullStats(i, es) == [i EXCEPT !.counted = es, !.cursor = Max(es \cup {0})]

-----------------------------------------------------------------------------
(* The migrations. *)

addUsageEventRedisFields(d) ==
    AddColumns(CreateTable(d, "redis_usage_inboxes"), "usage_events", {"redis"})

\* Processed inbox rows fill the blank fields of their events.
FillRedisFields(ev, p) ==
    [ev EXCEPT !.type  = IF @ = Blank THEN p ELSE @,
               !.named = @ \/ p # Blank]

backfillUsageEventRedisFields(d) ==
    IF /\ Has(d, "redis_usage_inboxes")
       /\ HasColumn(d, "usage_events", "redis")
    THEN [d EXCEPT !.ev = [e \in Events |-> FillRedisFields(@[e], d.payload[e])]]
    ELSE d

dropSnapshotRuns(d) == [d EXCEPT !.tables = @ \ {"snapshot_runs"}]

dropLegacySnapshotRunColumns(d) ==
    dropColumnIfExists(dropColumnIfExists(d, "usage_events", "snapshot"),
                       "redis_usage_inboxes", "snapshot")

createUsageIdentities(d) ==
    IF Has(d, "usage_identities") THEN d
    ELSE WithColumns(CreateTable(d, "usage_identities"), "usage_identities", {"lookup"})

\* INSERT ... ON CONFLICT(auth_type, identity): rows that exist keep their totals.
InsertIdentities(ids, kind, names) ==
    ids \cup {[kind |-> kind, identity |-> n, lookup |-> Blank, counted |-> {}, cursor |-> 0] :
                  n \in {m \in names : ~ \E i \in ids : i.kind = kind /\ i.identity = m}}

migrateUsageIdentitiesMetadata(d) ==
    LET files == IF Has(d, "auth_files") THEN d.authFiles ELSE {}
        keys  == IF Has(d, "provider_metadata") THEN d.metadata ELSE {}
    IN [d EXCEPT !.ids = InsertIdentities(InsertIdentities(@, "oauth", files), "apikey", keys)]

\* Events of a known provider key become apikey events with that provider, then
\* events of a known auth file become oauth events.
IdentityType(d, e) ==
    IF d.ev[e].type # Blank THEN d.ev[e].type
    ELSE IF \E i \in d.ids : i.kind = "apikey" /\ i.identity = d.ev[e].src THEN "apikey"
    ELSE IF \E i \in d.ids : i.kind = "oauth" /\ i.identity = d.ev[e].auth THEN "oauth"
    ELSE Blank

IdentityNamed(d, e) ==
    d.ev[e].named \/ \E i \in d.ids : i.kind = "apikey" /\ i.identity = d.ev[e].src

backfillUsageEventIdentityFields(d) ==
    IF Has(d, "usage_identities") /\ HasColumn(d, "usage_events", "redis")
    THEN [d EXCEPT !.ev = [e \in Events |->
             [d.ev[e] EXCEPT !.type = IdentityType(d, e), !.named = IdentityNamed(d, e)]]]
    ELSE d

backfillUsageIdentityStats(d) ==
    IF Has(d, "usage_identities") /\ HasColumn(d, "usage_events", "redis")
    THEN [d EXCEPT !.ids = {FullStats(i, BackfillEvents(d, i)) : i \in @}]
    ELSE d

dropLegacyMetadataTables(d) ==
    [d EXCEPT !.tables = @ \ {"auth_files", "provider_metadata"}]

removePrefixUsageIdentities(d) ==
    [d EXCEPT !.ids = {i \in @ : ~(i.kind = "apikey" /\ i.identity = PrefixName)}]

\* The rebuilt table has the columns known then, and no later ones.
normalizeUsageIdentitiesSchema(d) == [d EXCEPT !.cols["usage_identities"] = {"lookup"}]

addUsageIdentityLookupKey(d) ==
    IF Has(d, "usage_identities")
    THEN [normalizeUsageIdentitiesSchema(AddColumns(d, "usage_identities", {"lookup"}))
             EXCEPT !.ids = {IF i.kind = "apikey" /\ i.lookup = Blank
                             THEN [i EXCEPT !.lookup = i.identity] ELSE i : i \in @}]
    ELSE d

\* The auth indexes of the events of a raw key under its own provider's name.
AuthIndexesOf(d, i) ==
    {d.ev[e].auth : e \in {x \in Events : /\ d.ev[x].src = i.lookup
                                           /\ d.ev[x].named
                                           /\ d.ev[x].type \in {"apikey", Blank}}}

\* A row whose identity is still the raw key.
IsRaw(i) == i.kind = "apikey" /\ i.lookup # Blank /\ i.identity = i.lookup

\* A raw row that maps to one auth index becomes the row of that index, or is
\* merged into it; any other raw row is deleted.
ToAuthIndex(d, ids, i) ==
    LET as == AuthIndexesOf(d, i)
        a  == CHOOSE x \in as : TRUE
        others == {o \in ids : ~(o.kind = i.kind /\ o.identity = i.identity)}
    IN IF Cardinality(as) # 1 THEN others
       ELSE IF \E o \in others : o.kind = "apikey" /\ o.identity = a
       THEN {IF o.kind = "apikey" /\ o.identity = a
             THEN [o EXCEPT !.lookup = IF @ = Blank THEN i.lookup ELSE @,
                            !.counted = {}, !.cursor = 0] ELSE o : o \in others}
       ELSE others \cup {[i EXCEPT !.identity = a, !.counted = {}, !.cursor = 0]}

backfillAIProviderUsageIdentityStatsByAuthIndex(d) ==
    [d EXCEPT !.ids = {IF i.kind = "apikey" THEN FullStats(i, EventsByAuthIndex(d, i)) ELSE i :
                          i \in @}]

\* The raw rows one after the other.
RawRowsToAuthIndex(d) ==
    LET raw   == {i \in d.ids : IsRaw(i)}
        order == SetToSeq(raw)
        after[n \in 0 .. Cardinality(raw)] ==
            IF n = 0 THEN d.ids ELSE ToAuthIndex(d, after[n - 1], order[n])
    IN after[Cardinality(raw)]

migrateAIProviderIdentitiesToAuthIndex(d) ==
    IF HasColumn(d, "usage_identities", "lookup") /\ HasColumn(d, "usage_events", "redis")
    THEN backfillAIProviderUsageIdentityStatsByAuthIndex(
            [d EXCEPT !.ids = RawRowsToAuthIndex(d)])
    ELSE d

\* The index migrations: the tables they need, or an error.
addUsagePerformanceIndexes(d) == d

addUsageIdentityMetadataFields(d) == AddColumns(d, "usage_identities", {"metadata", "window"})

addUsageEventModelAlias(d) == AddColumns(d, "usage_events", {"alias"})

updateUsageIdentityQuotaFields(d) == AddColumns(d, "usage_identities", {"project"})

removeUsageIdentityQuotaFields(d) == dropColumnIfExists(d, "usage_identities", "window")

addUsageIdentityBaseURL(d) == AddColumns(d, "usage_identities", {"baseURL"})

createKeyAliases(d) == CreateTable(d, "key_aliases")

ensureUsageEventEventKeyUnique(d) == [d EXCEPT !.unique = TRUE]

seedUsageRollupBackfillState(d) ==
    IF d.state = NoRow THEN [d EXCEPT !.state.status = "pending"] ELSE d

createUsageRollupBackfillState(d) ==
    seedUsageRollupBackfillState(CreateTable(d, "usage_rollup_backfill_states"))

\* AutoMigrate: the current columns are created or added.
createUsageRollupsHourly(d) ==
    WithColumns(CreateTable(d, "usage_rollups_hourly"), "usage_rollups_hourly",
                CurrentColumns["usage_rollups_hourly"])

addRedisInboxProcessableIndex(d) == d

addUsageEventTTFT(d) == AddColumns(d, "usage_events", {"ttft"})

addUsageAttemptFields(d) == AddColumns(d, "usage_events", {"attempt"})

\* The hours of events with a valid cache-read fact.
FactHours(d) == {d.ev[e].hour : e \in {x \in Events : d.ev[x].fact}}

completedRollupBackfillStateCoversTarget(s) ==
    s.status = "completed" /\ s.target # NoHour /\ s.covered # NoHour /\ s.covered >= s.target

latestUsageEventBucket(d) == Max({d.ev[e].hour : e \in Events})

\* A plausible bug: an incomplete backfill continues where it was.
CoveredBeforeKept(s, exact) == s.covered

\* The coverage an incomplete backfill keeps: nothing from the first fact on.
CoveredBefore(s, exact) == IF s.covered = NoHour THEN NoHour ELSE Min({s.covered, exact})

\* Hours that must be built again: a completed backfill is scheduled for the
\* facts only, an incomplete one for the union of both ranges.
ScheduleCacheRead(d) ==
    LET s == d.state
        exact == Min(FactHours(d)) - 1
        last == Max(FactHours(d))
    IN [d EXCEPT !.state =
          IF completedRollupBackfillStateCoversTarget(s)
          THEN [status |-> "pending", target |-> last, covered |-> exact]
          ELSE [status |-> "pending", covered |-> CoveredBefore(s, exact),
                target |-> IF s.target # NoHour THEN Max({s.target, last})
                                                ELSE latestUsageEventBucket(d)]]

addUsageRollupCacheReadFields(d) ==
    LET e == AddColumns(d, "usage_rollups_hourly", {"cacheRead"})
    IN IF /\ Has(d, "usage_rollups_hourly") /\ Has(d, "usage_rollup_backfill_states")
          /\ HasColumn(d, "usage_events", "attempt")
          /\ FactHours(d) # {}
       THEN ScheduleCacheRead(e) ELSE e

addUsageIdentityDisabled(d) == AddColumns(d, "usage_identities", {"disabled"})

addUsageAccountingFields(d) == AddColumns(d, "usage_events", {"accounting"})

addUsageIdentityAvailability(d) == AddColumns(d, "usage_identities", {"availability"})

\* The canonical columns come, the columns of the earlier accounting go.
addUsageRollupAccountingFields(d) ==
    IF Has(d, "usage_rollups_hourly")
    THEN [d EXCEPT !.cols["usage_rollups_hourly"] = (@ \cup {"accounting"}) \ {"tokens", "cacheRead"}]
    ELSE d

addUsageIdentityPassiveQuota(d) == AddColumns(d, "usage_identities", {"passive"})

\* The table is copied, dropped and renamed; indexes and sequence are restored.
makeUsageEventCacheColumnsNullable(d) == [d EXCEPT !.strict = FALSE]

createQuotaObservations(d) == CreateTable(d, "quota_observations")

addUsageIdentityAuthRenewal(d) == AddColumns(d, "usage_identities", {"renewal"})

-----------------------------------------------------------------------------
orderedMigrations ==
    <<"add_usage_event_redis_fields", "backfill_usage_event_redis_fields",
      "drop_snapshot_runs", "drop_legacy_snapshot_run_columns",
      "create_usage_identities", "migrate_usage_identities_metadata",
      "backfill_usage_event_identity_fields", "backfill_usage_identity_stats",
      "drop_legacy_metadata_tables", "remove_prefix_usage_identities",
      "add_usage_identity_lookup_key", "migrate_ai_provider_identities_to_auth_index",
      "add_usage_performance_indexes", "add_usage_identity_metadata_fields",
      "add_usage_event_model_alias", "update_usage_identity_quota_fields",
      "remove_usage_identity_quota_fields", "add_usage_identity_base_url",
      "create_key_aliases", "ensure_usage_event_event_key_unique",
      "create_usage_rollup_backfill_state", "create_usage_rollups_hourly",
      "add_redis_inbox_processable_index", "add_usage_event_ttft",
      "add_usage_attempt_fields", "add_usage_rollup_cache_read_fields",
      "add_usage_identity_disabled", "add_usage_accounting_fields",
      "add_usage_identity_availability", "add_usage_rollup_accounting_fields",
      "add_usage_identity_passive_quota", "make_usage_event_cache_columns_nullable",
      "create_quota_observations", "add_usage_identity_auth_renewal">>

Versions == 1 .. Len(orderedMigrations)

Migrate(v, d) ==
    LET m == orderedMigrations[v] IN
    CASE m = "add_usage_event_redis_fields" -> addUsageEventRedisFields(d)
      [] m = "backfill_usage_event_redis_fields" -> backfillUsageEventRedisFields(d)
      [] m = "drop_snapshot_runs" -> dropSnapshotRuns(d)
      [] m = "drop_legacy_snapshot_run_columns" -> dropLegacySnapshotRunColumns(d)
      [] m = "create_usage_identities" -> createUsageIdentities(d)
      [] m = "migrate_usage_identities_metadata" -> migrateUsageIdentitiesMetadata(d)
      [] m = "backfill_usage_event_identity_fields" -> backfillUsageEventIdentityFields(d)
      [] m = "backfill_usage_identity_stats" -> backfillUsageIdentityStats(d)
      [] m = "drop_legacy_metadata_tables" -> dropLegacyMetadataTables(d)
      [] m = "remove_prefix_usage_identities" -> removePrefixUsageIdentities(d)
      [] m = "add_usage_identity_lookup_key" -> addUsageIdentityLookupKey(d)
      [] m = "migrate_ai_provider_identities_to_auth_index" ->
             migrateAIProviderIdentitiesToAuthIndex(d)
      [] m = "add_usage_performance_indexes" -> addUsagePerformanceIndexes(d)
      [] m = "add_usage_identity_metadata_fields" -> addUsageIdentityMetadataFields(d)
      [] m = "add_usage_event_model_alias" -> addUsageEventModelAlias(d)
      [] m = "update_usage_identity_quota_fields" -> updateUsageIdentityQuotaFields(d)
      [] m = "remove_usage_identity_quota_fields" -> removeUsageIdentityQuotaFields(d)
      [] m = "add_usage_identity_base_url" -> addUsageIdentityBaseURL(d)
      [] m = "create_key_aliases" -> createKeyAliases(d)
      [] m = "ensure_usage_event_event_key_unique" -> ensureUsageEventEventKeyUnique(d)
      [] m = "create_usage_rollup_backfill_state" -> createUsageRollupBackfillState(d)
      [] m = "create_usage_rollups_hourly" -> createUsageRollupsHourly(d)
      [] m = "add_redis_inbox_processable_index" -> addRedisInboxProcessableIndex(d)
      [] m = "add_usage_event_ttft" -> addUsageEventTTFT(d)
      [] m = "add_usage_attempt_fields" -> addUsageAttemptFields(d)
      [] m = "add_usage_rollup_cache_read_fields" -> addUsageRollupCacheReadFields(d)
      [] m = "add_usage_identity_disabled" -> addUsageIdentityDisabled(d)
      [] m = "add_usage_accounting_fields" -> addUsageAccountingFields(d)
      [] m = "add_usage_identity_availability" -> addUsageIdentityAvailability(d)
      [] m = "add_usage_rollup_accounting_fields" -> addUsageRollupAccountingFields(d)
      [] m = "add_usage_identity_passive_quota" -> addUsageIdentityPassiveQuota(d)
      [] m = "make_usage_event_cache_columns_nullable" -> makeUsageEventCacheColumnsNullable(d)
      [] m = "create_quota_observations" -> createQuotaObservations(d)
      [] m = "add_usage_identity_auth_renewal" -> addUsageIdentityAuthRenewal(d)

\* A plausible bug: rows in any status block the cutover.
BlockedByAnyRow(v, d) ==
    orderedMigrations[v] = "add_usage_accounting_fields" /\ Has(d, "redis_usage_inboxes")

\* The inbox must be finished before the accounting cutover.
Blocked(v, d) ==
    /\ orderedMigrations[v] = "add_usage_accounting_fields"
    /\ Has(d, "usage_events") /\ Has(d, "redis_usage_inboxes") /\ d.pending

\* Two events with the same event_key: the unique index cannot be created.
DuplicateEventKeys(v, d) ==
    orderedMigrations[v] = "ensure_usage_event_event_key_unique" /\ d.dup

\* A migration that reports a missing schema.
MissingSchema(v, d) ==
    \/ /\ orderedMigrations[v] = "add_usage_performance_indexes"
       /\ ~(/\ HasColumn(d, "usage_events", "redis")
            /\ Has(d, "redis_usage_inboxes") /\ Has(d, "usage_identities"))
    \/ /\ orderedMigrations[v] = "ensure_usage_event_event_key_unique"
       /\ ~Has(d, "usage_events")
    \/ /\ orderedMigrations[v] = "create_quota_observations"
       /\ ~Has(d, "usage_identities")
    \/ /\ orderedMigrations[v] = "make_usage_event_cache_columns_nullable"
       /\ Has(d, "usage_events") /\ ~HasColumn(d, "usage_events", "attempt")

\* The version returns an error, and its transaction is rolled back.
Refused(v, d) == Blocked(v, d) \/ MissingSchema(v, d) \/ DuplicateEventKeys(v, d)

-----------------------------------------------------------------------------
(* The database files the process can find. *)

Empty ==
    [tables |-> {}, cols |-> [t \in DOMAIN CurrentColumns |-> {}], ids |-> {},
     ev |-> [e \in Events |-> [src |-> Blank, auth |-> Blank, type |-> Blank, named |-> FALSE,
                               hour |-> 0, fact |-> FALSE]],
     payload |-> [e \in Events |-> Blank], authFiles |-> {}, metadata |-> {},
     state |-> NoRow, pending |-> FALSE, strict |-> FALSE, unique |-> FALSE, dup |-> FALSE,
     applied |-> {}]

\* A database from before the ledger: events with a snapshot run, metadata in
\* tables of their own, perhaps an inbox whose rows know more of the events, and
\* perhaps two events with one key, as its index on event_key is not unique.
LegacyDatabase(src, auth, p, files, keys, inbox, dup) ==
    [Empty EXCEPT
       !.tables = {"usage_events", "model_price_settings", "snapshot_runs",
                   "auth_files", "provider_metadata"}
                  \cup IF inbox THEN {"redis_usage_inboxes"} ELSE {},
       !.cols["usage_events"] = {"snapshot"},
       !.cols["redis_usage_inboxes"] = IF inbox THEN {"snapshot"} ELSE {},
       !.ev = [e \in Events |-> [src |-> src[e], auth |-> auth[e], type |-> Blank,
                                 named |-> FALSE, hour |-> 0, fact |-> FALSE]],
       !.payload = p, !.authFiles = files, !.metadata = keys \cup {PrefixName},
       !.strict = TRUE, !.dup = dup]

\* Rows of the inbox fill the first event that has their key, never a second one.
IsLegacy(d) ==
    \E src \in [Events -> Keys], auth \in [Events -> Auths],
      p \in [Events -> {Blank, "apikey", "oauth"}], files \in SUBSET AuthFiles,
      keys \in SUBSET Keys, inbox, dup \in BOOLEAN :
        /\ ~inbox => \A e \in Events : p[e] = Blank
        /\ dup => \E e, f \in Events : e < f /\ p[f] = Blank
        /\ d = LegacyDatabase(src, auth, p, files, keys, inbox, dup)

\* The version of the published release before the cutover.
Published == CHOOSE v \in Versions : orderedMigrations[v] = "add_usage_attempt_fields"

\* A database of the published release: its backfill is anywhere.
PublishedDatabase(hour, fact, pend, st, target, covered) ==
    [Empty EXCEPT
       !.tables = Range(CoreTables) \ {"quota_observations"},
       !.cols = [usage_events |-> {"redis", "alias", "ttft", "attempt"},
                 redis_usage_inboxes |-> {},
                 usage_identities |-> {"lookup", "metadata", "project", "baseURL"},
                 usage_rollups_hourly |-> {"tokens"}],
       !.ev = [e \in Events |-> [@[e] EXCEPT !.hour = hour[e], !.fact = fact[e]]],
       !.state = [status |-> st, target |-> target, covered |-> covered],
       !.pending = pend, !.strict = TRUE, !.unique = TRUE,
       !.applied = 1 .. Published]

IsPublished(d) ==
    \E hour \in [Events -> Hours], fact \in [Events -> BOOLEAN], pend \in BOOLEAN,
      st \in {"pending", "running", "completed", "failed"},
      target, covered \in Hours \cup {NoHour} :
        /\ covered <= target
        /\ st = "completed" => covered = target
        /\ d = PublishedDatabase(hour, fact, pend, st, target, covered)

Init ==
    /\ db = Empty \/ IsLegacy(db) \/ IsPublished(db)
    /\ pc = "down" /\ at = 1 /\ torn = FALSE /\ failures = 0

-----------------------------------------------------------------------------
(* OpenDatabase. *)

\* A file without tables is created, any other is migrated.
OpenDatabase ==
    /\ pc = "down"
    /\ pc' = IF db.tables = {} THEN "create" ELSE "run"
    /\ at' = 1
    /\ UNCHANGED <<db, torn, failures>>

\* AutoMigrate creates one table after the other, in no common transaction.
AutoMigrate ==
    /\ pc = "create"
    /\ LET t == CoreTables[at] IN
       db' = [db EXCEPT !.tables = @ \cup {t},
                        !.cols = [x \in DOMAIN @ |-> IF x = t THEN CurrentColumns[x] ELSE @[x]],
                        !.unique = @ \/ t = "usage_events"]
    /\ pc' = IF at = Len(CoreTables) THEN "seed" ELSE "create"
    /\ at' = IF at = Len(CoreTables) THEN 1 ELSE at + 1
    /\ UNCHANGED <<torn, failures>>

EnsureUsageRollupBackfillState ==
    /\ pc \in {"seed", "ensure"}
    /\ db' = seedUsageRollupBackfillState(db)
    /\ pc' = IF pc = "seed" THEN "mark" ELSE "open"
    /\ UNCHANGED <<at, torn, failures>>

MarkAllAsApplied ==
    /\ pc = "mark"
    /\ db' = [db EXCEPT !.applied = Versions]
    /\ pc' = "open"
    /\ UNCHANGED <<at, torn, failures>>

\* A plausible bug: a refused version is recorded as well.
RunMigrationRecorded ==
    /\ pc = "run"
    /\ db' = IF at \in db.applied THEN db
             ELSE IF Refused(at, db)
             THEN [db EXCEPT !.applied = @ \cup {at}]
             ELSE [Migrate(at, db) EXCEPT !.applied = @ \cup {at}]
    /\ pc' = IF at = Len(orderedMigrations) THEN "ensure" ELSE "run"
    /\ at' = IF at = Len(orderedMigrations) THEN 1 ELSE at + 1
    /\ UNCHANGED <<torn, failures>>

\* One version: skipped, or refused, or applied with its ledger row.
RunMigration ==
    /\ pc = "run"
    /\ IF at \notin db.applied /\ Refused(at, db)
       THEN pc' = "down" /\ UNCHANGED <<db, at>>
       ELSE /\ db' = IF at \in db.applied THEN db
                     ELSE [Migrate(at, db) EXCEPT !.applied = @ \cup {at}]
            /\ pc' = IF at = Len(orderedMigrations) THEN "ensure" ELSE "run"
            /\ at' = IF at = Len(orderedMigrations) THEN 1 ELSE at + 1
    /\ UNCHANGED <<torn, failures>>

\* A statement fails or the process dies: the open transaction is rolled back,
\* OpenDatabase has returned, and the file keeps what was committed.
Fail ==
    /\ pc # "down" /\ failures < MaxFailures
    /\ failures' = failures + 1
    /\ torn' = (torn \/ (pc = "create" /\ db.tables # {}))
    /\ pc' = "down" /\ at' = 1
    /\ UNCHANGED db

\* The process ends after it had the database open.
Close ==
    /\ pc = "open"
    /\ pc' = "down" /\ at' = 1
    /\ UNCHANGED <<db, torn, failures>>

\* The consumer that was deployed before finishes the inbox, as the runbook and
\* the error of the cutover ask.
FinishInbox ==
    /\ pc = "down" /\ db.pending
    /\ db' = [db EXCEPT !.pending = FALSE]
    /\ UNCHANGED <<pc, at, torn, failures>>

Next ==
    \/ OpenDatabase \/ AutoMigrate \/ EnsureUsageRollupBackfillState \/ MarkAllAsApplied
    \/ RunMigration \/ Fail \/ Close \/ FinishInbox

Spec == Init /\ [][Next]_vars

FairSpec ==
    /\ Spec
    /\ WF_vars(OpenDatabase \/ AutoMigrate \/ EnsureUsageRollupBackfillState
               \/ MarkAllAsApplied \/ RunMigration)
    /\ SF_vars(FinishInbox)

-----------------------------------------------------------------------------
(* Properties. *)

\* Whatever the database was and wherever earlier starts were interrupted, an
\* open database has every table and column of the current entities and nothing
\* of the retired ones, and no two of its events have one key.  The one hole is known: no migration creates
\* model_price_settings, so a fresh creation interrupted before that table
\* leaves a database without it for good.
SchemaCurrent ==
    pc = "open" =>
      /\ Range(CoreTables) \ db.tables \subseteq (IF torn THEN {"model_price_settings"} ELSE {})
      /\ db.tables \subseteq Range(CoreTables)
      /\ db.cols = CurrentColumns
      /\ db.unique /\ ~db.dup /\ ~db.strict /\ db.state # NoRow
      /\ db.applied = Versions

\* The events the running process attributes to an identity: exact type and
\* auth index (repository/usage_identities.go).
LiveMatch(i, e) == db.ev[e].type = i.kind /\ db.ev[e].auth = i.identity

\* Migrated totals can be continued by the running process: of the events it
\* would attribute to an identity, exactly those up to the cursor are counted,
\* and no event is counted for two identities.
HandOver ==
    pc = "open" =>
      /\ \A i \in db.ids, e \in Events : LiveMatch(i, e) => (e \in i.counted <=> e <= i.cursor)
      /\ \A i, j \in db.ids : i # j => i.counted \cap j.counted = {}

\* The hours with events that the backfill has still to build.
StillToBuild(d) ==
    IF d.state.status = "completed" THEN {}
    ELSE {h \in {d.ev[e].hour : e \in Events} :
             h > d.state.covered /\ (d.state.target = NoHour \/ h <= d.state.target)}

\* A migration never takes an hour from the backfill's schedule, and the one
\* that adds the cache-read columns puts every hour with a cache-read fact on it.
ScheduleNeverShrinks ==
    [][pc = "run" /\ db.state # NoRow =>
         /\ StillToBuild(db) \subseteq StillToBuild(db')
         /\ db'.applied \ db.applied = {Published + 1} => FactHours(db) \subseteq StillToBuild(db')
      ]_vars

\* The version that creates the unique index.
UniqueVersion == CHOOSE v \in Versions : orderedMigrations[v] = "ensure_usage_event_event_key_unique"

\* However often starts fail before, the database opens again: an interrupted
\* creation or migration never leaves a file that cannot be opened.  The one
\* exception is a legacy file with duplicate event keys: it gets as far as the
\* version before the unique index and stays there, whole, for good
\* (20260518_usage_event_event_key_unique.go).
OpensEventually ==
    /\ ~db.dup => []<>(pc = "open")
    /\ db.dup => <>[](pc # "open" /\ db.applied = 1 .. UniqueVersion - 1)

=============================================================================

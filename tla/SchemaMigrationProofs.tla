------------------------ MODULE SchemaMigrationProofs -----------------------
(***************************************************************************)
(* Proofs about SchemaMigration for any number of events, keys, auth       *)
(* indexes, hours and failures.                                            *)
(*                                                                         *)
(* The ledger always holds the versions 1 .. n for some n, and what a      *)
(* database with n applied versions has is stated once, as a function of   *)
(* n: its tables and columns (SchemaAt), its identities (RowsAt).  Each    *)
(* version then has to lead from version - 1 to version, whatever path the *)
(* file took to get there; a database torn in its creation is simply one   *)
(* with no version applied.                                                *)
(***************************************************************************)
EXTENDS SchemaMigration, TLAPS, FiniteSetTheorems, WellFoundedInduction

ColumnTables == {"usage_events", "redis_usage_inboxes", "usage_identities",
                 "usage_rollups_hourly"}

AllTables == {"usage_events", "redis_usage_inboxes", "model_price_settings",
              "usage_identities", "quota_observations", "key_aliases",
              "usage_rollup_backfill_states", "usage_rollups_hourly",
              "snapshot_runs", "auth_files", "provider_metadata"}

AllColumns == {"redis", "alias", "ttft", "attempt", "accounting", "snapshot", "lookup",
               "metadata", "project", "baseURL", "disabled", "availability", "passive",
               "renewal", "window", "tokens", "cacheRead"}

Names == Keys \cup Auths \cup {PrefixName, Blank}

IdentityRow == [kind : {"oauth", "apikey"}, identity : Names, lookup : Names,
                counted : SUBSET Events, cursor : Nat]

EventRow == [src : Keys \cup {Blank}, auth : Auths \cup {Blank},
             type : {Blank, "apikey", "oauth"}, named : BOOLEAN, hour : Hours,
             fact : BOOLEAN]

StateRow == [status : {"none", "pending", "running", "completed", "failed"},
             target : Int, covered : Int]

Database ==
    [tables : SUBSET AllTables, cols : [ColumnTables -> SUBSET AllColumns],
     ids : SUBSET IdentityRow, ev : [Events -> EventRow],
     payload : [Events -> {Blank, "apikey", "oauth"}],
     authFiles : SUBSET AuthFiles, metadata : SUBSET (Keys \cup {PrefixName}),
     state : StateRow, pending : BOOLEAN, strict : BOOLEAN, unique : BOOLEAN,
     dup : BOOLEAN, applied : SUBSET Versions]

\* The tables of a database after n versions, and what goes with them.
TablesAt(n, d) ==
    /\ "usage_events" \in d.tables
    /\ n >= 1  => "redis_usage_inboxes" \in d.tables
    /\ n >= 3  => "snapshot_runs" \notin d.tables
    /\ n >= 5  => "usage_identities" \in d.tables
    /\ n >= 9  => "auth_files" \notin d.tables /\ "provider_metadata" \notin d.tables
    /\ n >= 19 => "key_aliases" \in d.tables
    /\ n >= 20 => d.unique /\ ~d.dup
    /\ n >= 21 => "usage_rollup_backfill_states" \in d.tables /\ d.state # NoRow
    /\ n >= 22 => "usage_rollups_hourly" \in d.tables
    /\ n >= 32 => ~d.strict
    /\ n >= 33 => "quota_observations" \in d.tables

EventColumnsAt(n, d) ==
    LET c == d.cols["usage_events"] IN
    /\ c \subseteq {"redis", "alias", "ttft", "attempt", "accounting", "snapshot"}
    /\ n >= 1  => "redis" \in c
    /\ n >= 4  => "snapshot" \notin c
    /\ n >= 15 => "alias" \in c
    /\ n >= 24 => "ttft" \in c
    /\ n >= 25 => "attempt" \in c
    /\ n >= 28 => "accounting" \in c

\* Version 11 rebuilds the table with the columns of its time.
IdentityColumnsAt(n, d) ==
    LET c == d.cols["usage_identities"] IN
    /\ c \subseteq {"lookup", "metadata", "project", "baseURL", "disabled",
                    "availability", "passive", "renewal", "window"}
    /\ "window" \in c => 14 <= n /\ n < 17
    /\ n >= 11 => "lookup" \in c
    /\ n >= 14 => "metadata" \in c
    /\ n >= 16 => "project" \in c
    /\ n >= 18 => "baseURL" \in c
    /\ n >= 27 => "disabled" \in c
    /\ n >= 29 => "availability" \in c
    /\ n >= 31 => "passive" \in c
    /\ n >= 34 => "renewal" \in c

OtherColumnsAt(n, d) ==
    LET inbox == d.cols["redis_usage_inboxes"]
        hourly == d.cols["usage_rollups_hourly"] IN
    /\ inbox \subseteq {"snapshot"}
    /\ n >= 4 => inbox = {}
    /\ hourly \subseteq {"accounting", "tokens", "cacheRead"}
    /\ n >= 30 => hourly = {"accounting"}

SchemaAt(n, d) ==
    TablesAt(n, d) /\ EventColumnsAt(n, d) /\ IdentityColumnsAt(n, d) /\ OtherColumnsAt(n, d)

-----------------------------------------------------------------------------
(* Which operator a version is. *)

LEMMA VersionsAre == Versions = 1 .. 34 /\ Len(orderedMigrations) = 34
BY DEF Versions, orderedMigrations

LEMMA PublishedIs == Published = 25
<1>1. orderedMigrations[25] = "add_usage_attempt_fields"
  BY DEF orderedMigrations
<1>2. ASSUME NEW v \in 1 .. 34, orderedMigrations[v] = "add_usage_attempt_fields"
      PROVE  v = 25
  BY <1>2, SMTT(60) DEF orderedMigrations
<1> QED
  BY <1>1, <1>2, VersionsAre DEF Published

\* The operator of each version.
LEMMA MigrateIs ==
    ASSUME NEW d
    PROVE  /\ Migrate(1, d) = addUsageEventRedisFields(d)
           /\ Migrate(2, d) = backfillUsageEventRedisFields(d)
           /\ Migrate(3, d) = dropSnapshotRuns(d)
           /\ Migrate(4, d) = dropLegacySnapshotRunColumns(d)
           /\ Migrate(5, d) = createUsageIdentities(d)
           /\ Migrate(6, d) = migrateUsageIdentitiesMetadata(d)
           /\ Migrate(7, d) = backfillUsageEventIdentityFields(d)
           /\ Migrate(8, d) = backfillUsageIdentityStats(d)
           /\ Migrate(9, d) = dropLegacyMetadataTables(d)
           /\ Migrate(10, d) = removePrefixUsageIdentities(d)
           /\ Migrate(11, d) = addUsageIdentityLookupKey(d)
           /\ Migrate(12, d) = migrateAIProviderIdentitiesToAuthIndex(d)
           /\ Migrate(13, d) = addUsagePerformanceIndexes(d)
           /\ Migrate(14, d) = addUsageIdentityMetadataFields(d)
           /\ Migrate(15, d) = addUsageEventModelAlias(d)
           /\ Migrate(16, d) = updateUsageIdentityQuotaFields(d)
           /\ Migrate(17, d) = removeUsageIdentityQuotaFields(d)
           /\ Migrate(18, d) = addUsageIdentityBaseURL(d)
           /\ Migrate(19, d) = createKeyAliases(d)
           /\ Migrate(20, d) = ensureUsageEventEventKeyUnique(d)
           /\ Migrate(21, d) = createUsageRollupBackfillState(d)
           /\ Migrate(22, d) = createUsageRollupsHourly(d)
           /\ Migrate(23, d) = addRedisInboxProcessableIndex(d)
           /\ Migrate(24, d) = addUsageEventTTFT(d)
           /\ Migrate(25, d) = addUsageAttemptFields(d)
           /\ Migrate(26, d) = addUsageRollupCacheReadFields(d)
           /\ Migrate(27, d) = addUsageIdentityDisabled(d)
           /\ Migrate(28, d) = addUsageAccountingFields(d)
           /\ Migrate(29, d) = addUsageIdentityAvailability(d)
           /\ Migrate(30, d) = addUsageRollupAccountingFields(d)
           /\ Migrate(31, d) = addUsageIdentityPassiveQuota(d)
           /\ Migrate(32, d) = makeUsageEventCacheColumnsNullable(d)
           /\ Migrate(33, d) = createQuotaObservations(d)
           /\ Migrate(34, d) = addUsageIdentityAuthRenewal(d)
<1>1. /\ Migrate(1, d) = addUsageEventRedisFields(d)
      /\ Migrate(2, d) = backfillUsageEventRedisFields(d)
      /\ Migrate(3, d) = dropSnapshotRuns(d)
      /\ Migrate(4, d) = dropLegacySnapshotRunColumns(d)
      /\ Migrate(5, d) = createUsageIdentities(d)
      /\ Migrate(6, d) = migrateUsageIdentitiesMetadata(d)
      /\ Migrate(7, d) = backfillUsageEventIdentityFields(d)
  BY SMTT(30) DEF Migrate, orderedMigrations
<1>2. /\ Migrate(8, d) = backfillUsageIdentityStats(d)
      /\ Migrate(9, d) = dropLegacyMetadataTables(d)
      /\ Migrate(10, d) = removePrefixUsageIdentities(d)
      /\ Migrate(11, d) = addUsageIdentityLookupKey(d)
      /\ Migrate(12, d) = migrateAIProviderIdentitiesToAuthIndex(d)
      /\ Migrate(13, d) = addUsagePerformanceIndexes(d)
      /\ Migrate(14, d) = addUsageIdentityMetadataFields(d)
  BY SMTT(30) DEF Migrate, orderedMigrations
<1>3. /\ Migrate(15, d) = addUsageEventModelAlias(d)
      /\ Migrate(16, d) = updateUsageIdentityQuotaFields(d)
      /\ Migrate(17, d) = removeUsageIdentityQuotaFields(d)
      /\ Migrate(18, d) = addUsageIdentityBaseURL(d)
      /\ Migrate(19, d) = createKeyAliases(d)
      /\ Migrate(20, d) = ensureUsageEventEventKeyUnique(d)
      /\ Migrate(21, d) = createUsageRollupBackfillState(d)
  BY SMTT(30) DEF Migrate, orderedMigrations
<1>4. /\ Migrate(22, d) = createUsageRollupsHourly(d)
      /\ Migrate(23, d) = addRedisInboxProcessableIndex(d)
      /\ Migrate(24, d) = addUsageEventTTFT(d)
      /\ Migrate(25, d) = addUsageAttemptFields(d)
      /\ Migrate(26, d) = addUsageRollupCacheReadFields(d)
      /\ Migrate(27, d) = addUsageIdentityDisabled(d)
      /\ Migrate(28, d) = addUsageAccountingFields(d)
  BY SMTT(30) DEF Migrate, orderedMigrations
<1>5. /\ Migrate(29, d) = addUsageIdentityAvailability(d)
      /\ Migrate(30, d) = addUsageRollupAccountingFields(d)
      /\ Migrate(31, d) = addUsageIdentityPassiveQuota(d)
      /\ Migrate(32, d) = makeUsageEventCacheColumnsNullable(d)
      /\ Migrate(33, d) = createQuotaObservations(d)
      /\ Migrate(34, d) = addUsageIdentityAuthRenewal(d)
  BY SMTT(30) DEF Migrate, orderedMigrations
<1> QED
  BY <1>1, <1>2, <1>3, <1>4, <1>5

-----------------------------------------------------------------------------
(* The schema, version by version. *)

\* e is d but for its tables and columns.
SameRows(d, e) ==
    /\ e \in Database
    /\ e.ids = d.ids /\ e.ev = d.ev /\ e.payload = d.payload
    /\ e.authFiles = d.authFiles /\ e.metadata = d.metadata /\ e.state = d.state
    /\ e.pending = d.pending /\ e.strict = d.strict /\ e.unique = d.unique /\ e.dup = d.dup
    /\ e.applied = d.applied

\* e is d but for its rows.
SameSchema(d, e) ==
    /\ e.tables = d.tables /\ e.cols = d.cols /\ e.state = d.state
    /\ e.strict = d.strict /\ e.unique = d.unique /\ e.dup = d.dup

LEMMA AddColumnsIs ==
    ASSUME NEW d \in Database, NEW t \in ColumnTables, NEW cs \in SUBSET AllColumns
    PROVE  LET e == AddColumns(d, t, cs) IN
           /\ SameRows(d, e)
           /\ e.tables = d.tables
           /\ t \in d.tables => e.cols = [d.cols EXCEPT ![t] = @ \cup cs]
BY DEF AddColumns, WithColumns, Has, SameRows, Database

LEMMA WithColumnsIs ==
    ASSUME NEW d \in Database, NEW t \in ColumnTables, NEW cs \in SUBSET AllColumns
    PROVE  LET e == WithColumns(d, t, cs) IN
           /\ SameRows(d, e)
           /\ e.tables = d.tables
           /\ e.cols = [d.cols EXCEPT ![t] = @ \cup cs]
BY DEF WithColumns, SameRows, Database

LEMMA DropColumnIs ==
    ASSUME NEW d \in Database, NEW t \in ColumnTables, NEW c
    PROVE  LET e == dropColumnIfExists(d, t, c) IN
           /\ SameRows(d, e)
           /\ e.tables = d.tables
           /\ t \in d.tables => e.cols = [d.cols EXCEPT ![t] = @ \ {c}]
BY DEF dropColumnIfExists, Has, SameRows, Database

LEMMA CreateTableIs ==
    ASSUME NEW d \in Database, NEW t \in AllTables
    PROVE  LET e == CreateTable(d, t) IN
           /\ SameRows(d, e)
           /\ e.tables = d.tables \cup {t}
           /\ e.cols = d.cols
BY DEF CreateTable, SameRows, Database

\* The seed changes nothing but a missing state.
LEMMA SeedIs ==
    ASSUME NEW d \in Database
    PROVE  LET e == seedUsageRollupBackfillState(d) IN
           /\ e \in Database /\ e.state # NoRow
           /\ e = [d EXCEPT !.state = e.state]
           /\ d.state # NoRow => e = d
           /\ e.tables = d.tables /\ e.cols = d.cols
           /\ e.strict = d.strict /\ e.unique = d.unique /\ e.dup = d.dup
           /\ e.ids = d.ids /\ e.ev = d.ev /\ e.applied = d.applied
BY DEF seedUsageRollupBackfillState, Database, NoRow, StateRow

\* The schedule changes nothing but the state.
LEMMA ScheduleIs ==
    ASSUME NEW d \in Database
    PROVE  LET e == ScheduleCacheRead(d) IN
           /\ \E t, c : e = [d EXCEPT !.state = [status |-> "pending", target |-> t, covered |-> c]]
           /\ e.state # NoRow
           /\ e.tables = d.tables /\ e.cols = d.cols
           /\ e.strict = d.strict /\ e.unique = d.unique /\ e.dup = d.dup
           /\ e.ids = d.ids /\ e.ev = d.ev /\ e.applied = d.applied
<1>1. \E t, c : ScheduleCacheRead(d)
                  = [d EXCEPT !.state = [status |-> "pending", target |-> t, covered |-> c]]
  BY DEF ScheduleCacheRead
<1>2. PICK t, c : ScheduleCacheRead(d)
                  = [d EXCEPT !.state = [status |-> "pending", target |-> t, covered |-> c]]
  BY <1>1
<1>3. ScheduleCacheRead(d).state = [status |-> "pending", target |-> t, covered |-> c]
  BY <1>2 DEF Database
<1>4. ScheduleCacheRead(d).state # NoRow
  <2>1. ScheduleCacheRead(d).state.status = "pending"
    BY <1>3
  <2> QED
    BY <2>1 DEF NoRow
<1> HIDE DEF ScheduleCacheRead
<1> DEFINE e == ScheduleCacheRead(d)
<1>5. /\ e.tables = d.tables /\ e.cols = d.cols
      /\ e.strict = d.strict /\ e.unique = d.unique /\ e.dup = d.dup
      /\ e.ids = d.ids /\ e.ev = d.ev /\ e.applied = d.applied
  BY <1>2 DEF Database
<1> QED
  BY <1>1, <1>4, <1>5

\* Versions that change rows only.
LEMMA RowVersions ==
    ASSUME NEW d \in Database, NEW v \in {2, 6, 7, 8, 10, 12, 13, 23}
    PROVE  SameSchema(d, Migrate(v, d))
<1> USE DEF SameSchema, Database
<1>2. SameSchema(d, backfillUsageEventRedisFields(d))
  BY DEF backfillUsageEventRedisFields
<1>6. SameSchema(d, migrateUsageIdentitiesMetadata(d))
  BY DEF migrateUsageIdentitiesMetadata
<1>7. SameSchema(d, backfillUsageEventIdentityFields(d))
  BY DEF backfillUsageEventIdentityFields
<1>8. SameSchema(d, backfillUsageIdentityStats(d))
  BY DEF backfillUsageIdentityStats
<1>10. SameSchema(d, removePrefixUsageIdentities(d))
  BY DEF removePrefixUsageIdentities
<1>12. SameSchema(d, migrateAIProviderIdentitiesToAuthIndex(d))
  BY DEF migrateAIProviderIdentitiesToAuthIndex, backfillAIProviderUsageIdentityStatsByAuthIndex
<1>13. SameSchema(d, addUsagePerformanceIndexes(d))
  BY DEF addUsagePerformanceIndexes
<1>23. SameSchema(d, addRedisInboxProcessableIndex(d))
  BY DEF addRedisInboxProcessableIndex
<1> QED
  BY <1>2, <1>6, <1>7, <1>8, <1>10, <1>12, <1>13, <1>23, MigrateIs

\* No version creates the table of the prices, and none drops it.
PricesKept(d, e) == "model_price_settings" \in d.tables => "model_price_settings" \in e.tables

\* A version leads from the schema before it to the one after it.
LEMMA SchemaStep ==
    ASSUME NEW v \in 1 .. 34, NEW d \in Database, SchemaAt(v - 1, d), ~Refused(v, d)
    PROVE  SchemaAt(v, Migrate(v, d)) /\ PricesKept(d, Migrate(v, d))
<1> SUFFICES ASSUME NEW e, e = Migrate(v, d) PROVE SchemaAt(v, e) /\ PricesKept(d, e)
  OBVIOUS
<1>a. d.cols \in [ColumnTables -> SUBSET AllColumns] /\ d.tables \in SUBSET AllTables
  BY DEF Database
<1>b. "usage_events" \in d.tables /\ (v >= 6 => "usage_identities" \in d.tables)
  BY DEF SchemaAt, TablesAt

<1>rows. CASE v \in {2, 6, 7, 8, 10, 12, 13, 23}
  <2>1. SameSchema(d, e)
    BY <1>rows, RowVersions
  <2> QED
    BY <2>1, <1>rows DEF SameSchema, SchemaAt, TablesAt, EventColumnsAt, IdentityColumnsAt,
                               OtherColumnsAt, ColumnTables, PricesKept
<1>1. CASE v = 1
  <2> DEFINE c == CreateTable(d, "redis_usage_inboxes")
  <2>1. SameRows(d, c) /\ c.tables = d.tables \cup {"redis_usage_inboxes"} /\ c.cols = d.cols
    BY CreateTableIs DEF AllTables
  <2>2. e = AddColumns(c, "usage_events", {"redis"})
    BY <1>1, MigrateIs DEF addUsageEventRedisFields
  <2>3. c \in Database /\ "usage_events" \in c.tables
    BY <1>b, <2>1 DEF SameRows
  <2> HIDE DEF c
  <2>4. SameRows(c, e) /\ e.tables = c.tables /\ e.cols = [c.cols EXCEPT !["usage_events"] = @ \cup {"redis"}]
    BY <2>2, <2>3, AddColumnsIs DEF ColumnTables, AllColumns
  <2> QED
    BY <1>1, <1>a, <2>1, <2>4 DEF SameRows, SchemaAt, TablesAt, EventColumnsAt, IdentityColumnsAt,
                               OtherColumnsAt, ColumnTables, PricesKept
<1>3. CASE v = 3
  <2>1. /\ SameRows(d, e) /\ e.tables = d.tables \ {"snapshot_runs"} /\ e.cols = d.cols
    BY <1>3, <1>b, MigrateIs DEF ColumnTables, AllTables, AllColumns, dropSnapshotRuns, SameRows, Database
  <2> QED
    BY <1>3, <1>a, <2>1 DEF SameRows, SchemaAt, TablesAt, EventColumnsAt, IdentityColumnsAt,
                               OtherColumnsAt, ColumnTables, PricesKept
<1>4. CASE v = 4
  <2> DEFINE c == dropColumnIfExists(d, "usage_events", "snapshot")
  <2>1. SameRows(d, c) /\ c.tables = d.tables /\ c.cols = [d.cols EXCEPT !["usage_events"] = @ \ {"snapshot"}]
    BY <1>b, DropColumnIs DEF ColumnTables
  <2>2. e = dropColumnIfExists(c, "redis_usage_inboxes", "snapshot")
    BY <1>4, MigrateIs DEF dropLegacySnapshotRunColumns
  <2>3. c \in Database /\ "redis_usage_inboxes" \in c.tables
    BY <1>4, <2>1 DEF SameRows, SchemaAt, TablesAt
  <2> HIDE DEF c
  <2>4. /\ SameRows(c, e) /\ e.tables = c.tables
        /\ e.cols = [c.cols EXCEPT !["redis_usage_inboxes"] = @ \ {"snapshot"}]
    BY <2>2, <2>3, DropColumnIs DEF ColumnTables
  <2> QED
    BY <1>4, <1>a, <2>1, <2>4 DEF SameRows, SchemaAt, TablesAt, EventColumnsAt, IdentityColumnsAt,
                               OtherColumnsAt, ColumnTables, PricesKept
<1>5. CASE v = 5
  <2> DEFINE c == CreateTable(d, "usage_identities")
  <2>1. SameRows(d, c) /\ c.tables = d.tables \cup {"usage_identities"} /\ c.cols = d.cols
    BY CreateTableIs DEF AllTables
  <2>2. \/ e = d /\ "usage_identities" \in d.tables
        \/ e = WithColumns(c, "usage_identities", {"lookup"})
    BY <1>5, MigrateIs DEF createUsageIdentities, Has
  <2>3. c \in Database
    BY <2>1 DEF SameRows
  <2> HIDE DEF c
  <2>4. \/ e = d /\ "usage_identities" \in d.tables
        \/ /\ SameRows(c, e) /\ e.tables = c.tables
           /\ e.cols = [c.cols EXCEPT !["usage_identities"] = @ \cup {"lookup"}]
    BY <2>2, <2>3, WithColumnsIs DEF ColumnTables, AllColumns
  <2> QED
    BY <1>5, <1>a, <2>1, <2>4 DEF SameRows, SchemaAt, TablesAt, EventColumnsAt, IdentityColumnsAt,
                               OtherColumnsAt, ColumnTables, PricesKept
<1>9. CASE v = 9
  <2>1. /\ SameRows(d, e) /\ e.cols = d.cols
       /\ e.tables = d.tables \ {"auth_files", "provider_metadata"}
    <3>1. e = dropLegacyMetadataTables(d)
      BY <1>9, MigrateIs
    <3>2. e = [d EXCEPT !.tables = @ \ {"auth_files", "provider_metadata"}]
      BY <3>1 DEF dropLegacyMetadataTables
    <3> QED
      BY <3>2 DEF SameRows, Database
  <2> QED
    BY <1>9, <1>a, <2>1 DEF SameRows, SchemaAt, TablesAt, EventColumnsAt, IdentityColumnsAt,
                               OtherColumnsAt, ColumnTables, PricesKept
<1>11. CASE v = 11
  <2> DEFINE c == AddColumns(d, "usage_identities", {"lookup"})
  <2>1. /\ SameRows(d, c) /\ c.tables = d.tables
        /\ c.cols = [d.cols EXCEPT !["usage_identities"] = @ \cup {"lookup"}]
    BY <1>11, <1>b, AddColumnsIs DEF ColumnTables, AllColumns
  <2> DEFINE n == normalizeUsageIdentitiesSchema(c)
  <2>2. \E ids : e = [n EXCEPT !.ids = ids]
    <3>1. e = [n EXCEPT !.ids = {IF i.kind = "apikey" /\ i.lookup = Blank
                                 THEN [i EXCEPT !.lookup = i.identity] ELSE i : i \in n.ids}]
      BY <1>11, <1>b, MigrateIs DEF addUsageIdentityLookupKey, Has
    <3> QED
      BY <3>1
  <2>3. c \in Database
    BY <2>1 DEF SameRows
  <2> HIDE DEF c
  <2>4. /\ e.tables = c.tables /\ e.state = c.state /\ e.strict = c.strict /\ e.unique = c.unique /\ e.dup = c.dup
        /\ e.cols = [c.cols EXCEPT !["usage_identities"] = {"lookup"}]
    BY <2>2, <2>3 DEF Database, normalizeUsageIdentitiesSchema
  <2> QED
    BY <1>11, <1>a, <2>1, <2>4 DEF SameRows, SchemaAt, TablesAt, EventColumnsAt, IdentityColumnsAt,
                               OtherColumnsAt, ColumnTables, PricesKept
<1>14. CASE v = 14
  <2>1. e = AddColumns(d, "usage_identities", {"metadata", "window"})
    BY <1>14, MigrateIs DEF addUsageIdentityMetadataFields
  <2>2. SameRows(d, e) /\ e.tables = d.tables /\ e.cols = [d.cols EXCEPT !["usage_identities"] = @ \cup {"metadata", "window"}]
    BY <1>14, <1>b, <2>1, AddColumnsIs DEF ColumnTables, AllColumns
  <2> QED
    BY <1>14, <1>a, <2>2 DEF SameRows, SchemaAt, TablesAt, EventColumnsAt, IdentityColumnsAt,
                               OtherColumnsAt, ColumnTables, PricesKept
<1>15. CASE v = 15
  <2>1. e = AddColumns(d, "usage_events", {"alias"})
    BY <1>15, MigrateIs DEF addUsageEventModelAlias
  <2>2. SameRows(d, e) /\ e.tables = d.tables /\ e.cols = [d.cols EXCEPT !["usage_events"] = @ \cup {"alias"}]
    BY <1>15, <1>b, <2>1, AddColumnsIs DEF ColumnTables, AllColumns
  <2> QED
    BY <1>15, <1>a, <2>2 DEF SameRows, SchemaAt, TablesAt, EventColumnsAt, IdentityColumnsAt,
                               OtherColumnsAt, ColumnTables, PricesKept
<1>16. CASE v = 16
  <2>1. e = AddColumns(d, "usage_identities", {"project"})
    BY <1>16, MigrateIs DEF updateUsageIdentityQuotaFields
  <2>2. SameRows(d, e) /\ e.tables = d.tables /\ e.cols = [d.cols EXCEPT !["usage_identities"] = @ \cup {"project"}]
    BY <1>16, <1>b, <2>1, AddColumnsIs DEF ColumnTables, AllColumns
  <2> QED
    BY <1>16, <1>a, <2>2 DEF SameRows, SchemaAt, TablesAt, EventColumnsAt, IdentityColumnsAt,
                               OtherColumnsAt, ColumnTables, PricesKept
<1>17. CASE v = 17
  <2>1. e = dropColumnIfExists(d, "usage_identities", "window")
    BY <1>17, MigrateIs DEF removeUsageIdentityQuotaFields
  <2>2. SameRows(d, e) /\ e.tables = d.tables /\ e.cols = [d.cols EXCEPT !["usage_identities"] = @ \ {"window"}]
    BY <1>17, <1>b, <2>1, DropColumnIs DEF ColumnTables
  <2> QED
    BY <1>17, <1>a, <2>2 DEF SameRows, SchemaAt, TablesAt, EventColumnsAt, IdentityColumnsAt,
                               OtherColumnsAt, ColumnTables, PricesKept
<1>18. CASE v = 18
  <2>1. e = AddColumns(d, "usage_identities", {"baseURL"})
    BY <1>18, MigrateIs DEF addUsageIdentityBaseURL
  <2>2. SameRows(d, e) /\ e.tables = d.tables /\ e.cols = [d.cols EXCEPT !["usage_identities"] = @ \cup {"baseURL"}]
    BY <1>18, <1>b, <2>1, AddColumnsIs DEF ColumnTables, AllColumns
  <2> QED
    BY <1>18, <1>a, <2>2 DEF SameRows, SchemaAt, TablesAt, EventColumnsAt, IdentityColumnsAt,
                               OtherColumnsAt, ColumnTables, PricesKept
<1>19. CASE v = 19
  <2>1. /\ SameRows(d, e) /\ e.tables = d.tables \cup {"key_aliases"} /\ e.cols = d.cols
    <3>1. e = CreateTable(d, "key_aliases")
      BY <1>19, MigrateIs DEF createKeyAliases
    <3> QED
      BY <3>1, CreateTableIs DEF AllTables
  <2> QED
    BY <1>19, <1>a, <2>1 DEF SameRows, SchemaAt, TablesAt, EventColumnsAt, IdentityColumnsAt,
                               OtherColumnsAt, ColumnTables, PricesKept
<1>20. CASE v = 20
  <2>1. /\ e.tables = d.tables /\ e.cols = d.cols /\ e.state = d.state
       /\ e.strict = d.strict /\ e.unique /\ e.dup = d.dup
    BY <1>20, <1>b, MigrateIs DEF ColumnTables, AllTables, AllColumns, ensureUsageEventEventKeyUnique, Database
  <2>2. ~d.dup
    BY <1>20 DEF Refused, DuplicateEventKeys, orderedMigrations
  <2> QED
    BY <1>20, <1>a, <2>1, <2>2 DEF SameRows, SchemaAt, TablesAt, EventColumnsAt, IdentityColumnsAt,
                               OtherColumnsAt, ColumnTables, PricesKept
<1>21. CASE v = 21
  <2> DEFINE c == CreateTable(d, "usage_rollup_backfill_states")
  <2>1. /\ SameRows(d, c) /\ c.cols = d.cols
        /\ c.tables = d.tables \cup {"usage_rollup_backfill_states"}
    BY CreateTableIs DEF AllTables
  <2>2. e = seedUsageRollupBackfillState(c)
    BY <1>21, MigrateIs DEF createUsageRollupBackfillState
  <2>3. c \in Database
    BY <2>1 DEF SameRows
  <2> HIDE DEF c
  <2>4. /\ e.tables = c.tables /\ e.cols = c.cols /\ e.state # NoRow
        /\ e.strict = c.strict /\ e.unique = c.unique /\ e.dup = c.dup
    BY <2>2, <2>3, SeedIs
  <2> QED
    BY <1>21, <1>a, <2>1, <2>4 DEF SameRows, SchemaAt, TablesAt, EventColumnsAt, IdentityColumnsAt,
                               OtherColumnsAt, ColumnTables, PricesKept
<1>22. CASE v = 22
  <2> DEFINE c == CreateTable(d, "usage_rollups_hourly")
  <2>1. /\ SameRows(d, c) /\ c.cols = d.cols
        /\ c.tables = d.tables \cup {"usage_rollups_hourly"}
    BY CreateTableIs DEF AllTables
  <2>2. e = WithColumns(c, "usage_rollups_hourly", {"accounting"})
    BY <1>22, MigrateIs DEF createUsageRollupsHourly, CurrentColumns
  <2>3. c \in Database
    BY <2>1 DEF SameRows
  <2> HIDE DEF c
  <2>4. /\ SameRows(c, e) /\ e.tables = c.tables
        /\ e.cols = [c.cols EXCEPT !["usage_rollups_hourly"] = @ \cup {"accounting"}]
    BY <2>2, <2>3, WithColumnsIs DEF ColumnTables, AllColumns
  <2> QED
    BY <1>22, <1>a, <2>1, <2>4 DEF SameRows, SchemaAt, TablesAt, EventColumnsAt, IdentityColumnsAt,
                               OtherColumnsAt, ColumnTables, PricesKept
<1>24. CASE v = 24
  <2>1. e = AddColumns(d, "usage_events", {"ttft"})
    BY <1>24, MigrateIs DEF addUsageEventTTFT
  <2>2. SameRows(d, e) /\ e.tables = d.tables /\ e.cols = [d.cols EXCEPT !["usage_events"] = @ \cup {"ttft"}]
    BY <1>24, <1>b, <2>1, AddColumnsIs DEF ColumnTables, AllColumns
  <2> QED
    BY <1>24, <1>a, <2>2 DEF SameRows, SchemaAt, TablesAt, EventColumnsAt, IdentityColumnsAt,
                               OtherColumnsAt, ColumnTables, PricesKept
<1>25. CASE v = 25
  <2>1. e = AddColumns(d, "usage_events", {"attempt"})
    BY <1>25, MigrateIs DEF addUsageAttemptFields
  <2>2. SameRows(d, e) /\ e.tables = d.tables /\ e.cols = [d.cols EXCEPT !["usage_events"] = @ \cup {"attempt"}]
    BY <1>25, <1>b, <2>1, AddColumnsIs DEF ColumnTables, AllColumns
  <2> QED
    BY <1>25, <1>a, <2>2 DEF SameRows, SchemaAt, TablesAt, EventColumnsAt, IdentityColumnsAt,
                               OtherColumnsAt, ColumnTables, PricesKept
<1>26. CASE v = 26
  <2> DEFINE c == AddColumns(d, "usage_rollups_hourly", {"cacheRead"})
  <2>1. /\ SameRows(d, c) /\ c.tables = d.tables
        /\ c.cols = [d.cols EXCEPT !["usage_rollups_hourly"] = @ \cup {"cacheRead"}]
    BY <1>26, AddColumnsIs DEF ColumnTables, AllColumns, SchemaAt, TablesAt
  <2>2. e = c \/ e = ScheduleCacheRead(c)
    BY <1>26, MigrateIs DEF addUsageRollupCacheReadFields
  <2>3. c \in Database
    BY <2>1 DEF SameRows
  <2> HIDE DEF c
  <2>4. \/ e = c
        \/ /\ e.tables = c.tables /\ e.cols = c.cols /\ e.state # NoRow
           /\ e.strict = c.strict /\ e.unique = c.unique /\ e.dup = c.dup
    BY <2>2, <2>3, ScheduleIs
  <2> QED
    BY <1>26, <1>a, <2>1, <2>4 DEF SameRows, SchemaAt, TablesAt, EventColumnsAt, IdentityColumnsAt,
                               OtherColumnsAt, ColumnTables, PricesKept
<1>27. CASE v = 27
  <2>1. e = AddColumns(d, "usage_identities", {"disabled"})
    BY <1>27, MigrateIs DEF addUsageIdentityDisabled
  <2>2. SameRows(d, e) /\ e.tables = d.tables /\ e.cols = [d.cols EXCEPT !["usage_identities"] = @ \cup {"disabled"}]
    BY <1>27, <1>b, <2>1, AddColumnsIs DEF ColumnTables, AllColumns
  <2> QED
    BY <1>27, <1>a, <2>2 DEF SameRows, SchemaAt, TablesAt, EventColumnsAt, IdentityColumnsAt,
                               OtherColumnsAt, ColumnTables, PricesKept
<1>28. CASE v = 28
  <2>1. e = AddColumns(d, "usage_events", {"accounting"})
    BY <1>28, MigrateIs DEF addUsageAccountingFields
  <2>2. SameRows(d, e) /\ e.tables = d.tables /\ e.cols = [d.cols EXCEPT !["usage_events"] = @ \cup {"accounting"}]
    BY <1>28, <1>b, <2>1, AddColumnsIs DEF ColumnTables, AllColumns
  <2> QED
    BY <1>28, <1>a, <2>2 DEF SameRows, SchemaAt, TablesAt, EventColumnsAt, IdentityColumnsAt,
                               OtherColumnsAt, ColumnTables, PricesKept
<1>29. CASE v = 29
  <2>1. e = AddColumns(d, "usage_identities", {"availability"})
    BY <1>29, MigrateIs DEF addUsageIdentityAvailability
  <2>2. SameRows(d, e) /\ e.tables = d.tables /\ e.cols = [d.cols EXCEPT !["usage_identities"] = @ \cup {"availability"}]
    BY <1>29, <1>b, <2>1, AddColumnsIs DEF ColumnTables, AllColumns
  <2> QED
    BY <1>29, <1>a, <2>2 DEF SameRows, SchemaAt, TablesAt, EventColumnsAt, IdentityColumnsAt,
                               OtherColumnsAt, ColumnTables, PricesKept
<1>30. CASE v = 30
  <2>1. /\ SameRows(d, e) /\ e.tables = d.tables
        /\ e.cols = [d.cols EXCEPT !["usage_rollups_hourly"] = (@ \cup {"accounting"}) \ {"tokens", "cacheRead"}]
    <3>1. e = [d EXCEPT !.cols["usage_rollups_hourly"] = (@ \cup {"accounting"}) \ {"tokens", "cacheRead"}]
      BY <1>30, MigrateIs DEF addUsageRollupAccountingFields, Has, SchemaAt, TablesAt
    <3> QED
      BY <3>1, SMTT(30) DEF SameRows, Database, ColumnTables, AllColumns
  <2> QED
    BY <1>30, <1>a, <2>1 DEF SameRows, SchemaAt, TablesAt, EventColumnsAt, IdentityColumnsAt,
                               OtherColumnsAt, ColumnTables, PricesKept
<1>31. CASE v = 31
  <2>1. e = AddColumns(d, "usage_identities", {"passive"})
    BY <1>31, MigrateIs DEF addUsageIdentityPassiveQuota
  <2>2. SameRows(d, e) /\ e.tables = d.tables /\ e.cols = [d.cols EXCEPT !["usage_identities"] = @ \cup {"passive"}]
    BY <1>31, <1>b, <2>1, AddColumnsIs DEF ColumnTables, AllColumns
  <2> QED
    BY <1>31, <1>a, <2>2 DEF SameRows, SchemaAt, TablesAt, EventColumnsAt, IdentityColumnsAt,
                               OtherColumnsAt, ColumnTables, PricesKept
<1>32. CASE v = 32
  <2>1. /\ e.tables = d.tables /\ e.cols = d.cols /\ e.state = d.state
       /\ ~e.strict /\ e.unique = d.unique /\ e.dup = d.dup
    BY <1>32, <1>b, MigrateIs DEF ColumnTables, AllTables, AllColumns, makeUsageEventCacheColumnsNullable, Database
  <2> QED
    BY <1>32, <1>a, <2>1 DEF SameRows, SchemaAt, TablesAt, EventColumnsAt, IdentityColumnsAt,
                               OtherColumnsAt, ColumnTables, PricesKept
<1>33. CASE v = 33
  <2>1. /\ SameRows(d, e) /\ e.tables = d.tables \cup {"quota_observations"} /\ e.cols = d.cols
    <3>1. e = CreateTable(d, "quota_observations")
      BY <1>33, MigrateIs DEF createQuotaObservations
    <3> QED
      BY <3>1, CreateTableIs DEF AllTables
  <2> QED
    BY <1>33, <1>a, <2>1 DEF SameRows, SchemaAt, TablesAt, EventColumnsAt, IdentityColumnsAt,
                               OtherColumnsAt, ColumnTables, PricesKept
<1>34. CASE v = 34
  <2>1. e = AddColumns(d, "usage_identities", {"renewal"})
    BY <1>34, MigrateIs DEF addUsageIdentityAuthRenewal
  <2>2. SameRows(d, e) /\ e.tables = d.tables /\ e.cols = [d.cols EXCEPT !["usage_identities"] = @ \cup {"renewal"}]
    BY <1>34, <1>b, <2>1, AddColumnsIs DEF ColumnTables, AllColumns
  <2> QED
    BY <1>34, <1>a, <2>2 DEF SameRows, SchemaAt, TablesAt, EventColumnsAt, IdentityColumnsAt,
                               OtherColumnsAt, ColumnTables, PricesKept
<1> QED
  BY <1>rows, <1>1, <1>3, <1>4, <1>5, <1>9, <1>11, <1>14, <1>15, <1>16, <1>17, <1>18, <1>19, <1>20, <1>21, <1>22, <1>24, <1>25, <1>26, <1>27, <1>28, <1>29, <1>30, <1>31, <1>32, <1>33, <1>34

-----------------------------------------------------------------------------
(* Least and greatest elements, and a function defined step by step. *)

LEMMA LeastNumber ==
    ASSUME NEW T \in SUBSET Nat, T # {}
    PROVE  \E x \in T : \A y \in T : x <= y
<1> DEFINE R == OpToRel(<, Nat)
<1>1. IsWellFoundedOn(R, Nat)
  BY NatLessThanWellFounded
<1>2. PICK x \in T : \A y \in T : ~ (<<y, x>> \in R)
  <2> HIDE DEF R
  <2> QED
    BY <1>1, WFMin
<1>3. \A y \in T : ~ (y < x)
  BY <1>2 DEF OpToRel
<1> QED
  BY <1>3

LEMMA MinOf ==
    ASSUME NEW S \in SUBSET Nat, S # {}
    PROVE  Min(S) \in S /\ \A y \in S : Min(S) <= y
BY LeastNumber DEF Min

LEMMA MaxOf ==
    ASSUME NEW n \in Nat, NEW S \in SUBSET (0 .. n), S # {}
    PROVE  Max(S) \in S /\ \A y \in S : y <= Max(S)
<1> DEFINE T == {m \in Nat : n - m \in S}
<1>1. T # {}
  <2>1. PICK y \in S : TRUE
    OBVIOUS
  <2>2. n - y \in Nat /\ n - (n - y) = y
    OBVIOUS
  <2> QED
    BY <2>1, <2>2
<1>2. PICK x \in T : \A y \in T : x <= y
  <2> HIDE DEF T
  <2>1. T \in SUBSET Nat
    BY DEF T
  <2> QED
    BY <1>1, <2>1, LeastNumber
<1>3. n - x \in S /\ \A y \in S : n - x >= y
  <2>1. \A y \in S : n - y \in T
    OBVIOUS
  <2> QED
    BY <1>2, <2>1
<1>4. Max(S) \in S /\ \A y \in S : Max(S) >= y
  BY <1>3 DEF Max
<1> QED
  BY <1>4

LEMMA MaxPair ==
    ASSUME NEW a \in Int, NEW b \in Int
    PROVE  Max({a, b}) \in {a, b} /\ Max({a, b}) >= a /\ Max({a, b}) >= b
<1>1. \E x \in {a, b} : \A y \in {a, b} : x >= y
  OBVIOUS
<1> QED
  BY <1>1 DEF Max

LEMMA MinPair ==
    ASSUME NEW a \in Int, NEW b \in Int
    PROVE  Min({a, b}) \in {a, b} /\ Min({a, b}) <= a /\ Min({a, b}) <= b
<1>1. \E x \in {a, b} : \A y \in {a, b} : x <= y
  OBVIOUS
<1> QED
  BY <1>1 DEF Min

\* A function that is given its first value and each next one from the last.
IsStep(G, N, V) == G \in [(1 .. N) \X V -> V]

ByStep(f, N, V, b, G) ==
    /\ f \in [0 .. N -> V] /\ f[0] = b
    /\ \A k \in 1 .. N : f[k] = G[<<k, f[k - 1]>>]

LEMMA FunctionByStep ==
    ASSUME NEW N \in Nat, NEW V, NEW b \in V, NEW G, IsStep(G, N, V)
    PROVE  \E f : ByStep(f, N, V, b, G)
<1> USE DEF IsStep
<1> DEFINE Upto(m) ==
              \E f \in [0 .. m -> V] : f[0] = b /\ \A k \in 1 .. m : f[k] = G[<<k, f[k - 1]>>]
           Bad == {m \in 0 .. N : ~ Upto(m)}
<1>1. Upto(0)
  <2> DEFINE f == [k \in 0 .. 0 |-> b]
  <2>1. f \in [0 .. 0 -> V] /\ f[0] = b
    OBVIOUS
  <2>2. 1 .. 0 = {}
    OBVIOUS
  <2> HIDE DEF f
  <2> QED
    BY <2>1, <2>2
<1>2. ASSUME NEW m \in 1 .. N, Upto(m - 1) PROVE Upto(m)
  <2>1. PICK f \in [0 .. m - 1 -> V] :
                f[0] = b /\ \A k \in 1 .. m - 1 : f[k] = G[<<k, f[k - 1]>>]
    BY <1>2
  <2> DEFINE g == [k \in 0 .. m |-> IF k = m THEN G[<<m, f[m - 1]>>] ELSE f[k]]
  <2>2. f[m - 1] \in V /\ <<m, f[m - 1]>> \in (1 .. N) \X V
    OBVIOUS
  <2>3. g \in [0 .. m -> V]
    BY <2>2
  <2>4. g[0] = b
    BY <2>1
  <2>5. ASSUME NEW k \in 1 .. m PROVE g[k] = G[<<k, g[k - 1]>>]
    <3>1. CASE k = m
      <4>1. g[m] = G[<<m, f[m - 1]>>] /\ g[m - 1] = f[m - 1]
        OBVIOUS
      <4> HIDE DEF g
      <4> QED
        BY <3>1, <4>1
    <3>2. CASE k # m
      BY <2>1, <3>2
    <3> QED
      BY <3>1, <3>2
  <2> HIDE DEF g
  <2> QED
    BY <2>3, <2>4, <2>5
<1>3. Bad = {}
  <2> SUFFICES ASSUME Bad # {} PROVE FALSE
    OBVIOUS
  <2>1. PICK m \in Bad : \A y \in Bad : m <= y
    <3> HIDE DEF Upto
    <3>1. Bad \in SUBSET Nat
      OBVIOUS
    <3> HIDE DEF Bad
    <3> QED
      BY <3>1, LeastNumber
  <2> HIDE DEF Upto
  <2>2. m # 0
    BY <1>1
  <2>3. m \in 1 .. N /\ m - 1 \in 0 .. N /\ ~(m <= m - 1)
    BY <2>2
  <2>4. Upto(m - 1)
    BY <2>1, <2>3
  <2> QED
    BY <1>2, <2>3, <2>4
<1>4. Upto(N)
  <2> HIDE DEF Upto
  <2> QED
    BY <1>3
<1> QED
  BY <1>4 DEF ByStep

-----------------------------------------------------------------------------
(* The identities, version by version. *)

\* (auth_type, identity) is a key.
UniqueIds(ids) ==
    \A i, j \in ids : i.kind = j.kind /\ i.identity = j.identity => i = j

\* An event of a known auth file has a type, so that it cannot count for a
\* provider as well.
FilesTyped(d) ==
    \A i \in d.ids, e \in Events :
        i.kind = "oauth" /\ d.ev[e].auth = i.identity => d.ev[e].type # Blank

Counts(i, es) == i.counted = es /\ \A e \in es : e <= i.cursor

RowsAt(n, d) ==
    /\ UniqueIds(d.ids)
    /\ n >= 7  => FilesTyped(d)
    /\ n >= 8  => \A i \in d.ids : i.kind = "oauth" => Counts(i, BackfillEvents(d, i))
    /\ n >= 12 => \A i \in d.ids : i.kind = "apikey" => Counts(i, EventsByAuthIndex(d, i))

LEMMA EventsFinite == Events \in SUBSET (0 .. MaxEvent) /\ MaxEvent \in Nat \ {0}
BY SchemaMigrationAssumption DEF Events

LEMMA IdsFinite ==
    ASSUME NEW ids \in SUBSET IdentityRow, UniqueIds(ids)
    PROVE  IsFiniteSet(ids)
<1> DEFINE Kinds == {"oauth", "apikey"}
           f == [i \in ids |-> <<i.kind, i.identity>>]
<1>1. IsFiniteSet(Kinds)
  <2>1. IsFiniteSet({"oauth"})
    BY FS_Singleton
  <2>2. IsFiniteSet({"oauth"} \cup {"apikey"})
    BY <2>1, FS_AddElement
  <2>3. Kinds = {"oauth"} \cup {"apikey"}
    OBVIOUS
  <2> QED
    BY <2>2, <2>3
<1>2. IsFiniteSet(Names)
  <2>1. IsFiniteSet(Keys \cup Auths)
    BY SchemaMigrationAssumption, FS_Union
  <2>2. Names = ((Keys \cup Auths) \cup {PrefixName}) \cup {Blank}
    BY DEF Names
  <2>3. IsFiniteSet((Keys \cup Auths) \cup {PrefixName})
    BY <2>1, FS_AddElement
  <2>4. IsFiniteSet(((Keys \cup Auths) \cup {PrefixName}) \cup {Blank})
    BY <2>3, FS_AddElement
  <2> QED
    BY <2>2, <2>4
<1>3. IsFiniteSet(Kinds \X Names)
  BY <1>1, <1>2, FS_Product
<1>4. f \in Injection(ids, Kinds \X Names)
  <2>1. f \in [ids -> Kinds \X Names]
    BY DEF IdentityRow
  <2>2. \A i, j \in ids : f[i] = f[j] => i = j
    BY DEF UniqueIds
  <2> QED
    BY <2>1, <2>2 DEF Injection, IsInjective
<1> QED
  BY <1>3, <1>4, FS_Injection

\* FullStats counts the events and leaves the key alone.
LEMMA FullStatsIs ==
    ASSUME NEW i \in IdentityRow, NEW es \in SUBSET Events
    PROVE  /\ FullStats(i, es) \in IdentityRow
           /\ FullStats(i, es).kind = i.kind /\ FullStats(i, es).identity = i.identity
           /\ Counts(FullStats(i, es), es)
<1>1. es \cup {0} \in SUBSET (0 .. MaxEvent) /\ es \cup {0} # {}
  BY EventsFinite
<1>2. Max(es \cup {0}) \in es \cup {0} /\ \A y \in es \cup {0} : y <= Max(es \cup {0})
  BY <1>1, EventsFinite, MaxOf
<1>3. Max(es \cup {0}) \in Nat
  BY <1>1, <1>2
<1> QED
  BY <1>2, <1>3 DEF FullStats, IdentityRow, Counts

\* One raw row: the key stays a key, and no row of an auth file changes.
LEMMA ToAuthIndexKeeps ==
    ASSUME NEW d \in Database, NEW ids \in SUBSET IdentityRow, UniqueIds(ids),
           NEW i \in IdentityRow, i.kind = "apikey"
    PROVE  /\ ToAuthIndex(d, ids, i) \in SUBSET IdentityRow
           /\ UniqueIds(ToAuthIndex(d, ids, i))
           /\ \A x \in ToAuthIndex(d, ids, i) : x.kind = "oauth" => x \in ids
<1> DEFINE as == AuthIndexesOf(d, i)
           a == CHOOSE x \in as : TRUE
           others == {o \in ids : ~(o.kind = i.kind /\ o.identity = i.identity)}
           Target(o) == o.kind = "apikey" /\ o.identity = a
           Merged(o) == IF Target(o)
                        THEN [o EXCEPT !.lookup = IF @ = Blank THEN i.lookup ELSE @,
                                       !.counted = {}, !.cursor = 0]
                        ELSE o
           moved == [i EXCEPT !.identity = a, !.counted = {}, !.cursor = 0]
<1>1. others \in SUBSET IdentityRow /\ UniqueIds(others) /\ others \subseteq ids
  BY DEF UniqueIds
<1>2. CASE Cardinality(as) # 1
  <2>1. ToAuthIndex(d, ids, i) = others
    BY <1>2 DEF ToAuthIndex
  <2> QED
    BY <1>1, <2>1
<1>3. CASE Cardinality(as) = 1 /\ \E o \in others : Target(o)
  <2>1. ToAuthIndex(d, ids, i) = {Merged(o) : o \in others}
    BY <1>3 DEF ToAuthIndex
  <2>2. ASSUME NEW o \in others
        PROVE  /\ Merged(o) \in IdentityRow
               /\ Merged(o).kind = o.kind /\ Merged(o).identity = o.identity
               /\ o.kind = "oauth" => Merged(o) = o
    BY <1>1 DEF IdentityRow
  <2> HIDE DEF Merged
  <2> QED
    BY <1>1, <2>1, <2>2 DEF UniqueIds
<1>4. CASE Cardinality(as) = 1 /\ ~ \E o \in others : Target(o)
  <2>1. ToAuthIndex(d, ids, i) = others \cup {moved}
    BY <1>4 DEF ToAuthIndex
  <2>2. as \in SUBSET (Auths \cup {Blank}) /\ IsFiniteSet(Auths \cup {Blank})
    BY SchemaMigrationAssumption, FS_AddElement DEF AuthIndexesOf, Database, EventRow
  <2>3. as # {}
    BY <1>4, FS_EmptySet
  <2>4. a \in Names
    BY <2>2, <2>3 DEF Names
  <2>5. moved \in IdentityRow /\ moved.kind = "apikey" /\ moved.identity = a
    BY <2>4 DEF IdentityRow
  <2> HIDE DEF moved, others, a, as
  <2> QED
    BY <1>1, <1>4, <2>1, <2>5 DEF UniqueIds
<1> QED
  BY <1>2, <1>3, <1>4

\* All raw rows, one after the other.
LEMMA RawRowsKeep ==
    ASSUME NEW d \in Database, UniqueIds(d.ids)
    PROVE  /\ RawRowsToAuthIndex(d) \in SUBSET IdentityRow
           /\ UniqueIds(RawRowsToAuthIndex(d))
           /\ \A x \in RawRowsToAuthIndex(d) : x.kind = "oauth" => x \in d.ids
<1> DEFINE raw == {i \in d.ids : IsRaw(i)}
           order == SetToSeq(raw)
           N == Cardinality(raw)
           V == {ids \in SUBSET IdentityRow :
                    UniqueIds(ids) /\ \A x \in ids : x.kind = "oauth" => x \in d.ids}
           IsAfter(g) == g = [n \in 0 .. N |-> IF n = 0 THEN d.ids
                                                ELSE ToAuthIndex(d, g[n - 1], order[n])]
           after == CHOOSE g : IsAfter(g)
<1>1. d.ids \in SUBSET IdentityRow /\ d.ids \in V
  BY DEF Database
<1>2. N \in Nat /\ ExistsBijection(1 .. N, raw)
  BY <1>1, IdsFinite, FS_Subset, FS_CardinalityType
<1>3. order \in [1 .. N -> raw]
  <2>1. PICK f : f \in Bijection(1 .. N, raw)
    BY <1>2 DEF ExistsBijection
  <2>2. f \in [1 .. N -> raw] /\ IsInjective(f)
    BY <2>1 DEF Bijection, Injection
  <2> QED
    BY <2>2 DEF SetToSeq
<1>4. ASSUME NEW n \in 1 .. N, NEW ids \in V PROVE ToAuthIndex(d, ids, order[n]) \in V
  <2>1. order[n] \in IdentityRow /\ order[n].kind = "apikey"
    BY <1>1, <1>3 DEF IsRaw
  <2> HIDE DEF order
  <2> QED
    BY <2>1, ToAuthIndexKeeps
<1> DEFINE G == [p \in (1 .. N) \X V |-> ToAuthIndex(d, p[2], order[p[1]])]
<1>5. IsStep(G, N, V)
  <2> HIDE DEF N, V, order
  <2> QED
    BY <1>4 DEF IsStep
<1>6. PICK f : ByStep(f, N, V, d.ids, G)
  <2>1. N \in Nat /\ d.ids \in V
    BY <1>1, <1>2
  <2> HIDE DEF G, N, V
  <2> QED
    BY <1>5, <2>1, FunctionByStep
<1>7. IsAfter(f)
  <2> HIDE DEF N, V, order
  <2>1. ASSUME NEW k \in 0 .. N
        PROVE  f[k] = IF k = 0 THEN d.ids ELSE ToAuthIndex(d, f[k - 1], order[k])
    <3> USE DEF ByStep
    <3>1. CASE k = 0
      BY <1>6, <3>1
    <3>2. CASE k # 0
      <4>1. k \in 1 .. N /\ k - 1 \in 0 .. N
        BY <1>2, <3>2
      <4>2. <<k, f[k - 1]>> \in (1 .. N) \X V
        BY <1>6, <4>1
      <4>3. G[<<k, f[k - 1]>>] = ToAuthIndex(d, f[k - 1], order[k])
        BY <4>2
      <4> QED
        BY <1>6, <3>2, <4>1, <4>3
    <3> QED
      BY <3>1, <3>2
  <2> QED
    BY <1>6, <2>1 DEF ByStep
<1>8. IsAfter(after)
  <2> HIDE DEF IsAfter
  <2> QED
    BY <1>7
<1>9. RawRowsToAuthIndex(d) = after[N]
  BY DEF RawRowsToAuthIndex
<1> HIDE DEF after, N, V, order, raw
<1> DEFINE Bad == {n \in 0 .. N : after[n] \notin V}
<1>10. Bad = {}
  <2> SUFFICES ASSUME Bad # {} PROVE FALSE
    OBVIOUS
  <2>1. PICK m \in Bad : \A y \in Bad : m <= y
    <3>1. Bad \in SUBSET Nat
      BY <1>2
    <3> HIDE DEF Bad
    <3> QED
      BY <3>1, LeastNumber
  <2>2. m # 0
    BY <1>1, <1>2, <1>8
  <2>3. m \in 1 .. N /\ m - 1 \in 0 .. N /\ ~(m <= m - 1)
    BY <1>2, <2>2
  <2>4. after[m - 1] \in V
    BY <2>1, <2>3
  <2>5. after[m] = ToAuthIndex(d, after[m - 1], order[m])
    BY <1>2, <1>8, <2>2, <2>3
  <2> QED
    BY <1>4, <2>3, <2>4, <2>5
<1>11. after[N] \in V
  BY <1>2, <1>10
<1> QED
  BY <1>9, <1>11 DEF V

\* e is d but for its schema and its backfill.
SameData(d, e) ==
    /\ e \in Database
    /\ e.ids = d.ids /\ e.ev = d.ev /\ e.applied = d.applied

LEMMA SameRowsIsSameData ==
    ASSUME NEW d, NEW e, SameRows(d, e)
    PROVE  SameData(d, e)
BY DEF SameRows, SameData

LEMMA SameDataTransitive ==
    ASSUME NEW c, NEW d, NEW e, SameData(c, d), SameData(d, e)
    PROVE  SameData(c, e)
BY DEF SameData

\* The facts' hours, and with them the schedule, are hours.
LEMMA ScheduleTyped ==
    ASSUME NEW d \in Database, FactHours(d) # {}
    PROVE  SameData(d, ScheduleCacheRead(d))
<1>1. FactHours(d) \in SUBSET Hours /\ Hours = 0 .. MaxHour /\ MaxHour \in Nat
  BY SchemaMigrationAssumption DEF FactHours, Database, EventRow, Hours
<1>2. Min(FactHours(d)) \in Nat
  <2>1. FactHours(d) \in SUBSET Nat
    BY <1>1
  <2> QED
    BY <2>1, MinOf
<1>3. Max(FactHours(d)) \in Nat
  <2>1. FactHours(d) \in SUBSET (0 .. MaxHour) /\ MaxHour \in Nat
    BY <1>1
  <2>2. Max(FactHours(d)) \in FactHours(d)
    BY <2>1, MaxOf
  <2> QED
    BY <2>1, <2>2
<1>4. latestUsageEventBucket(d) \in Nat
  <2> DEFINE hs == {d.ev[e].hour : e \in Events}
  <2>1. hs \in SUBSET (0 .. MaxHour)
    BY <1>1 DEF Database, EventRow
  <2>2. 1 \in Events
    BY SchemaMigrationAssumption DEF Events
  <2>3. hs # {}
    BY <2>2
  <2>4. Max(hs) \in hs
    <3> HIDE DEF hs
    <3> QED
      BY <1>1, <2>1, <2>3, MaxOf
  <2> HIDE DEF hs
  <2> QED
    BY <2>1, <2>4 DEF latestUsageEventBucket, hs
<1>5. d.state \in StateRow /\ d.state.target \in Int /\ d.state.covered \in Int
  BY DEF Database, StateRow
<1>6. CoveredBefore(d.state, Min(FactHours(d)) - 1) \in Int
  <2>1. Min({d.state.covered, Min(FactHours(d)) - 1}) \in Int
    <3> DEFINE m == Min(FactHours(d)) - 1
    <3>1. m \in Int /\ d.state.covered \in Int
      BY <1>2, <1>5
    <3> HIDE DEF m
    <3>2. Min({d.state.covered, m}) \in {d.state.covered, m}
      BY <3>1, MinPair
    <3> QED
      BY <3>1, <3>2 DEF m
  <2> QED
    BY <2>1 DEF CoveredBefore, NoHour
<1>7. Max({d.state.target, Max(FactHours(d))}) \in Int
  <2> DEFINE m == Max(FactHours(d))
  <2>1. m \in Int /\ d.state.target \in Int
    BY <1>3, <1>5
  <2> HIDE DEF m
  <2>2. Max({d.state.target, m}) \in {d.state.target, m}
    BY <2>1, MaxPair
  <2> QED
    BY <2>1, <2>2 DEF m
<1>8. ScheduleCacheRead(d).state \in StateRow
  BY <1>2, <1>3, <1>4, <1>6, <1>7 DEF ScheduleCacheRead, StateRow, Database
<1>9. PICK st : ScheduleCacheRead(d) = [d EXCEPT !.state = st]
  BY ScheduleIs
<1> QED
  BY <1>8, <1>9 DEF SameData, Database

LEMMA ColumnsKeepData ==
    ASSUME NEW d \in Database, NEW t \in ColumnTables, NEW cs \in SUBSET AllColumns
    PROVE  SameData(d, AddColumns(d, t, cs)) /\ SameData(d, WithColumns(d, t, cs))
BY DEF AddColumns, WithColumns, Has, SameData, Database

LEMMA DropKeepsData ==
    ASSUME NEW d \in Database, NEW t \in ColumnTables, NEW c
    PROVE  SameData(d, dropColumnIfExists(d, t, c))
BY DEF dropColumnIfExists, Has, SameData, Database

\* The versions that are about the schema leave the rows alone.
LEMMA SchemaVersions ==
    ASSUME NEW v \in (1 .. 34) \ {2, 6, 7, 8, 10, 11, 12}, NEW d \in Database
    PROVE  SameData(d, Migrate(v, d))
<1> SUFFICES ASSUME NEW e, e = Migrate(v, d) PROVE SameData(d, e)
  OBVIOUS
<1>14. CASE v = 14
  <2>1. e = AddColumns(d, "usage_identities", {"metadata", "window"})
    BY <1>14, MigrateIs DEF addUsageIdentityMetadataFields
  <2>2. "usage_identities" \in ColumnTables /\ {"metadata", "window"} \in SUBSET AllColumns
    BY DEF ColumnTables, AllColumns
  <2> QED
    BY <2>1, <2>2, ColumnsKeepData
<1>15. CASE v = 15
  <2>1. e = AddColumns(d, "usage_events", {"alias"})
    BY <1>15, MigrateIs DEF addUsageEventModelAlias
  <2>2. "usage_events" \in ColumnTables /\ {"alias"} \in SUBSET AllColumns
    BY DEF ColumnTables, AllColumns
  <2> QED
    BY <2>1, <2>2, ColumnsKeepData
<1>16. CASE v = 16
  <2>1. e = AddColumns(d, "usage_identities", {"project"})
    BY <1>16, MigrateIs DEF updateUsageIdentityQuotaFields
  <2>2. "usage_identities" \in ColumnTables /\ {"project"} \in SUBSET AllColumns
    BY DEF ColumnTables, AllColumns
  <2> QED
    BY <2>1, <2>2, ColumnsKeepData
<1>18. CASE v = 18
  <2>1. e = AddColumns(d, "usage_identities", {"baseURL"})
    BY <1>18, MigrateIs DEF addUsageIdentityBaseURL
  <2>2. "usage_identities" \in ColumnTables /\ {"baseURL"} \in SUBSET AllColumns
    BY DEF ColumnTables, AllColumns
  <2> QED
    BY <2>1, <2>2, ColumnsKeepData
<1>24. CASE v = 24
  <2>1. e = AddColumns(d, "usage_events", {"ttft"})
    BY <1>24, MigrateIs DEF addUsageEventTTFT
  <2>2. "usage_events" \in ColumnTables /\ {"ttft"} \in SUBSET AllColumns
    BY DEF ColumnTables, AllColumns
  <2> QED
    BY <2>1, <2>2, ColumnsKeepData
<1>25. CASE v = 25
  <2>1. e = AddColumns(d, "usage_events", {"attempt"})
    BY <1>25, MigrateIs DEF addUsageAttemptFields
  <2>2. "usage_events" \in ColumnTables /\ {"attempt"} \in SUBSET AllColumns
    BY DEF ColumnTables, AllColumns
  <2> QED
    BY <2>1, <2>2, ColumnsKeepData
<1>27. CASE v = 27
  <2>1. e = AddColumns(d, "usage_identities", {"disabled"})
    BY <1>27, MigrateIs DEF addUsageIdentityDisabled
  <2>2. "usage_identities" \in ColumnTables /\ {"disabled"} \in SUBSET AllColumns
    BY DEF ColumnTables, AllColumns
  <2> QED
    BY <2>1, <2>2, ColumnsKeepData
<1>28. CASE v = 28
  <2>1. e = AddColumns(d, "usage_events", {"accounting"})
    BY <1>28, MigrateIs DEF addUsageAccountingFields
  <2>2. "usage_events" \in ColumnTables /\ {"accounting"} \in SUBSET AllColumns
    BY DEF ColumnTables, AllColumns
  <2> QED
    BY <2>1, <2>2, ColumnsKeepData
<1>29. CASE v = 29
  <2>1. e = AddColumns(d, "usage_identities", {"availability"})
    BY <1>29, MigrateIs DEF addUsageIdentityAvailability
  <2>2. "usage_identities" \in ColumnTables /\ {"availability"} \in SUBSET AllColumns
    BY DEF ColumnTables, AllColumns
  <2> QED
    BY <2>1, <2>2, ColumnsKeepData
<1>31. CASE v = 31
  <2>1. e = AddColumns(d, "usage_identities", {"passive"})
    BY <1>31, MigrateIs DEF addUsageIdentityPassiveQuota
  <2>2. "usage_identities" \in ColumnTables /\ {"passive"} \in SUBSET AllColumns
    BY DEF ColumnTables, AllColumns
  <2> QED
    BY <2>1, <2>2, ColumnsKeepData
<1>34. CASE v = 34
  <2>1. e = AddColumns(d, "usage_identities", {"renewal"})
    BY <1>34, MigrateIs DEF addUsageIdentityAuthRenewal
  <2>2. "usage_identities" \in ColumnTables /\ {"renewal"} \in SUBSET AllColumns
    BY DEF ColumnTables, AllColumns
  <2> QED
    BY <2>1, <2>2, ColumnsKeepData
<1>3. CASE v = 3
  <2>1. e = [d EXCEPT !.tables = @ \ {"snapshot_runs"}]
    BY <1>3, MigrateIs DEF dropSnapshotRuns
  <2> QED
    BY <2>1 DEF SameData, Database
<1>9. CASE v = 9
  <2>1. e = [d EXCEPT !.tables = @ \ {"auth_files", "provider_metadata"}]
    BY <1>9, MigrateIs DEF dropLegacyMetadataTables
  <2> QED
    BY <2>1 DEF SameData, Database
<1>20. CASE v = 20
  <2>1. e = [d EXCEPT !.unique = TRUE]
    BY <1>20, MigrateIs DEF ensureUsageEventEventKeyUnique
  <2> QED
    BY <2>1 DEF SameData, Database
<1>32. CASE v = 32
  <2>1. e = [d EXCEPT !.strict = FALSE]
    BY <1>32, MigrateIs DEF makeUsageEventCacheColumnsNullable
  <2> QED
    BY <2>1 DEF SameData, Database
<1>13. CASE v = 13
  BY <1>13, MigrateIs DEF SameData, Database, addUsagePerformanceIndexes
<1>23. CASE v = 23
  BY <1>23, MigrateIs DEF SameData, Database, addRedisInboxProcessableIndex
<1>30. CASE v = 30
  <2>1. \/ e = d
        \/ e = [d EXCEPT !.cols["usage_rollups_hourly"] = (@ \cup {"accounting"}) \ {"tokens", "cacheRead"}]
    BY <1>30, MigrateIs DEF addUsageRollupAccountingFields
  <2> QED
    BY <2>1 DEF SameData, Database, ColumnTables, AllColumns
<1>19. CASE v = 19
  BY <1>19, MigrateIs, CreateTableIs, SameRowsIsSameData DEF createKeyAliases, AllTables
<1>33. CASE v = 33
  BY <1>33, MigrateIs, CreateTableIs, SameRowsIsSameData DEF createQuotaObservations, AllTables
<1>17. CASE v = 17
  <2>1. e = dropColumnIfExists(d, "usage_identities", "window")
    BY <1>17, MigrateIs DEF removeUsageIdentityQuotaFields
  <2>2. "usage_identities" \in ColumnTables
    BY DEF ColumnTables
  <2> QED
    BY <2>1, <2>2, DropKeepsData
<1>1. CASE v = 1
  <2> DEFINE c == CreateTable(d, "redis_usage_inboxes")
  <2>1. SameRows(d, c)
    BY CreateTableIs DEF ColumnTables, AllTables, AllColumns
  <2>2. SameData(d, c) /\ c \in Database
    BY <2>1, SameRowsIsSameData DEF SameRows
  <2>3. e = AddColumns(c, "usage_events", {"redis"})
    BY <1>1, MigrateIs DEF addUsageEventRedisFields
  <2> HIDE DEF c
  <2>4. SameData(c, e)
    <3>1. "usage_events" \in ColumnTables /\ {"redis"} \in SUBSET AllColumns
      BY DEF ColumnTables, AllColumns
    <3> QED
      BY <2>2, <2>3, <3>1, ColumnsKeepData
  <2> QED
    BY <2>2, <2>4, SameDataTransitive
<1>4. CASE v = 4
  <2> DEFINE c == dropColumnIfExists(d, "usage_events", "snapshot")
  <2>1. SameRows(d, c)
    BY DropColumnIs DEF ColumnTables, AllTables, AllColumns
  <2>2. SameData(d, c) /\ c \in Database
    BY <2>1, SameRowsIsSameData DEF SameRows
  <2>3. e = dropColumnIfExists(c, "redis_usage_inboxes", "snapshot")
    BY <1>4, MigrateIs DEF dropLegacySnapshotRunColumns
  <2> HIDE DEF c
  <2>4. SameData(c, e)
    <3>1. "redis_usage_inboxes" \in ColumnTables
      BY DEF ColumnTables
    <3> QED
      BY <2>2, <2>3, <3>1, DropKeepsData
  <2> QED
    BY <2>2, <2>4, SameDataTransitive
<1>5. CASE v = 5
  <2> DEFINE c == CreateTable(d, "usage_identities")
  <2>1. SameRows(d, c)
    BY CreateTableIs DEF ColumnTables, AllTables, AllColumns
  <2>2. SameData(d, c) /\ c \in Database
    BY <2>1, SameRowsIsSameData DEF SameRows
  <2>3. e = d \/ e = WithColumns(c, "usage_identities", {"lookup"})
    BY <1>5, MigrateIs DEF createUsageIdentities
  <2> HIDE DEF c
  <2>4. e = d \/ SameData(c, e)
    <3>1. "usage_identities" \in ColumnTables /\ {"lookup"} \in SUBSET AllColumns
      BY DEF ColumnTables, AllColumns
    <3> QED
      BY <2>2, <2>3, <3>1, ColumnsKeepData
  <2>5. SameData(d, d)
    BY DEF SameData
  <2> QED
    BY <2>2, <2>4, <2>5, SameDataTransitive
<1>21. CASE v = 21
  <2> DEFINE c == CreateTable(d, "usage_rollup_backfill_states")
  <2>1. SameRows(d, c)
    BY CreateTableIs DEF ColumnTables, AllTables, AllColumns
  <2>2. SameData(d, c) /\ c \in Database
    BY <2>1, SameRowsIsSameData DEF SameRows
  <2>3. e = seedUsageRollupBackfillState(c)
    BY <1>21, MigrateIs DEF createUsageRollupBackfillState
  <2> HIDE DEF c
  <2>4. SameData(c, e)
    BY <2>2, <2>3, SeedIs DEF SameData
  <2> QED
    BY <2>2, <2>4, SameDataTransitive
<1>22. CASE v = 22
  <2> DEFINE c == CreateTable(d, "usage_rollups_hourly")
  <2>1. SameRows(d, c)
    BY CreateTableIs DEF ColumnTables, AllTables, AllColumns
  <2>2. SameData(d, c) /\ c \in Database
    BY <2>1, SameRowsIsSameData DEF SameRows
  <2>3. e = WithColumns(c, "usage_rollups_hourly", {"accounting"})
    BY <1>22, MigrateIs DEF createUsageRollupsHourly, CurrentColumns
  <2> HIDE DEF c
  <2>4. SameData(c, e)
    <3>1. "usage_rollups_hourly" \in ColumnTables /\ {"accounting"} \in SUBSET AllColumns
      BY DEF ColumnTables, AllColumns
    <3> QED
      BY <2>2, <2>3, <3>1, ColumnsKeepData
  <2> QED
    BY <2>2, <2>4, SameDataTransitive
<1>26. CASE v = 26
  <2> DEFINE c == AddColumns(d, "usage_rollups_hourly", {"cacheRead"})
  <2>1. SameRows(d, c)
    BY AddColumnsIs DEF ColumnTables, AllColumns
  <2>2. SameData(d, c) /\ c \in Database
    BY <2>1, SameRowsIsSameData DEF SameRows
  <2>3. \/ e = c
        \/ e = ScheduleCacheRead(c) /\ FactHours(d) # {}
    BY <1>26, MigrateIs DEF addUsageRollupCacheReadFields
  <2> HIDE DEF c
  <2>4. FactHours(c) = FactHours(d)
    BY <2>2 DEF SameData, FactHours
  <2>5. e = c \/ SameData(c, e)
    BY <2>2, <2>3, <2>4, ScheduleTyped
  <2> QED
    BY <2>2, <2>5, SameDataTransitive
<1> QED
  BY <1>1, <1>3, <1>4, <1>5, <1>9, <1>13, <1>14, <1>15, <1>16, <1>17, <1>18, <1>19, <1>20, <1>21,
     <1>22, <1>23, <1>24, <1>25, <1>26, <1>27, <1>28, <1>29, <1>30, <1>31, <1>32, <1>33, <1>34

\* Same rows, same events, so the same facts about them.
LEMMA RowsOfSameData ==
    ASSUME NEW n \in Int, NEW d, NEW e, e.ids = d.ids, e.ev = d.ev, RowsAt(n, d)
    PROVE  RowsAt(n, e)
<1>1. \A i : BackfillEvents(e, i) = BackfillEvents(d, i)
             /\ EventsByAuthIndex(e, i) = EventsByAuthIndex(d, i)
  BY DEF BackfillEvents, EventsByAuthIndex
<1> QED
  BY <1>1 DEF RowsAt, FilesTyped

\* The rows of a version, from those of the version before.
RowsLed(v, d, e) == e \in Database /\ e.applied = d.applied /\ RowsAt(v, e)

Retyped(x, t, b) == [x EXCEPT !.type = t, !.named = b]

LEMMA RetypedIs ==
    ASSUME NEW x \in EventRow, NEW t \in {Blank, "apikey", "oauth"}, NEW b \in BOOLEAN
    PROVE  /\ Retyped(x, t, b) \in EventRow
           /\ Retyped(x, t, b).type = t /\ Retyped(x, t, b).auth = x.auth
BY DEF EventRow, Retyped

LEMMA RedisFieldsRows ==
    ASSUME NEW d \in Database, RowsAt(1, d)
    PROVE  RowsLed(2, d, backfillUsageEventRedisFields(d))
<1> DEFINE ev == [e \in Events |-> FillRedisFields(d.ev[e], d.payload[e])]
<1>1. ev \in [Events -> EventRow]
  <2> SUFFICES ASSUME NEW e \in Events PROVE FillRedisFields(d.ev[e], d.payload[e]) \in EventRow
    OBVIOUS
  <2> DEFINE x == d.ev[e]
             p == d.payload[e]
             t == IF x.type = Blank THEN p ELSE x.type
             b == x.named \/ p # Blank
  <2>1. x \in EventRow /\ p \in {Blank, "apikey", "oauth"} /\ x.type \in {Blank, "apikey", "oauth"}
    BY DEF Database, EventRow
  <2>2. FillRedisFields(x, p) = Retyped(x, t, b)
    BY DEF FillRedisFields, Retyped
  <2>3. t \in {Blank, "apikey", "oauth"}
    BY <2>1
  <2>4. b \in BOOLEAN
    OBVIOUS
  <2> HIDE DEF x, p, t, b
  <2>5. FillRedisFields(x, p) \in EventRow
    BY <2>1, <2>2, <2>3, <2>4, RetypedIs
  <2> QED
    BY <2>5 DEF x, p
<1>2. \/ backfillUsageEventRedisFields(d) = d
      \/ backfillUsageEventRedisFields(d) = [d EXCEPT !.ev = ev]
  BY DEF backfillUsageEventRedisFields
<1> HIDE DEF ev
<1> QED
  BY <1>1, <1>2 DEF RowsLed, RowsAt, Database

\* ON CONFLICT keeps the key a key.
LEMMA InsertKeepsKey ==
    ASSUME NEW ids \in SUBSET IdentityRow, UniqueIds(ids), NEW kind \in {"oauth", "apikey"},
           NEW names \in SUBSET Names
    PROVE  /\ InsertIdentities(ids, kind, names) \in SUBSET IdentityRow
           /\ UniqueIds(InsertIdentities(ids, kind, names))
<1> DEFINE Missing == {m \in names : ~ \E i \in ids : i.kind = kind /\ i.identity = m}
           Blanked(n) == [kind |-> kind, identity |-> n, lookup |-> Blank, counted |-> {}, cursor |-> 0]
           new == {Blanked(n) : n \in Missing}
<1>1. InsertIdentities(ids, kind, names) = ids \cup new
  BY DEF InsertIdentities
<1>2. \A n \in Missing : Blanked(n) \in IdentityRow
  BY DEF IdentityRow, Names
<1>3. \A i \in ids, j \in new : ~(i.kind = j.kind /\ i.identity = j.identity)
  OBVIOUS
<1>4. \A i, j \in new : i.identity = j.identity => i = j
  OBVIOUS
<1>5. new \in SUBSET IdentityRow
  BY <1>2
<1> HIDE DEF new
<1> QED
  BY <1>1, <1>3, <1>4, <1>5 DEF UniqueIds

LEMMA MetadataRows ==
    ASSUME NEW d \in Database, RowsAt(5, d)
    PROVE  RowsLed(6, d, migrateUsageIdentitiesMetadata(d))
<1> DEFINE files == IF Has(d, "auth_files") THEN d.authFiles ELSE {}
           keys == IF Has(d, "provider_metadata") THEN d.metadata ELSE {}
           one == InsertIdentities(d.ids, "oauth", files)
           two == InsertIdentities(one, "apikey", keys)
<1>1. files \in SUBSET Names /\ keys \in SUBSET Names
  BY SchemaMigrationAssumption DEF Database, Names
<1>2. d.ids \in SUBSET IdentityRow /\ UniqueIds(d.ids)
  BY DEF Database, RowsAt
<1>3. migrateUsageIdentitiesMetadata(d) = [d EXCEPT !.ids = two]
  BY DEF migrateUsageIdentitiesMetadata
<1> HIDE DEF files, keys
<1>4. one \in SUBSET IdentityRow /\ UniqueIds(one)
  BY <1>1, <1>2, InsertKeepsKey
<1> HIDE DEF one
<1>5. two \in SUBSET IdentityRow /\ UniqueIds(two)
  BY <1>1, <1>4, InsertKeepsKey
<1> HIDE DEF two
<1> QED
  BY <1>3, <1>5 DEF RowsLed, RowsAt, Database

\* Every event of a known auth file gets a type.
LEMMA IdentityFieldsRows ==
    ASSUME NEW d \in Database, RowsAt(6, d), SchemaAt(6, d)
    PROVE  RowsLed(7, d, backfillUsageEventIdentityFields(d))
<1> DEFINE Typed(e) == Retyped(d.ev[e], IdentityType(d, e), IdentityNamed(d, e))
           ev == [e \in Events |-> Typed(e)]
           f == [d EXCEPT !.ev = ev]
<1>1. backfillUsageEventIdentityFields(d) = f
  <2>1. Has(d, "usage_identities") /\ HasColumn(d, "usage_events", "redis")
    BY DEF Has, HasColumn, SchemaAt, TablesAt, EventColumnsAt
  <2> QED
    BY <2>1 DEF backfillUsageEventIdentityFields, Retyped
<1>2. ASSUME NEW e \in Events
      PROVE  /\ IdentityType(d, e) \in {Blank, "apikey", "oauth"}
             /\ (\E i \in d.ids : i.kind = "oauth" /\ i.identity = d.ev[e].auth)
                    => IdentityType(d, e) # Blank
  BY DEF IdentityType, Database, EventRow, Blank
<1>3. ASSUME NEW e \in Events
      PROVE  /\ Typed(e) \in EventRow
             /\ Typed(e).type = IdentityType(d, e) /\ Typed(e).auth = d.ev[e].auth
  <2>1. d.ev[e] \in EventRow
    BY DEF Database
  <2>2. IdentityNamed(d, e) \in BOOLEAN
    BY DEF IdentityNamed
  <2>3. IdentityType(d, e) \in {Blank, "apikey", "oauth"}
    BY <1>2
  <2> DEFINE x == d.ev[e]
             t == IdentityType(d, e)
             b == IdentityNamed(d, e)
  <2> HIDE DEF x, t, b
  <2>4. x \in EventRow /\ t \in {Blank, "apikey", "oauth"} /\ b \in BOOLEAN
    BY <2>1, <2>2, <2>3 DEF x, t, b
  <2>5. /\ Retyped(x, t, b) \in EventRow
        /\ Retyped(x, t, b).type = t /\ Retyped(x, t, b).auth = x.auth
    BY <2>4, RetypedIs, SMTT(60)
  <2> QED
    BY <2>5 DEF x, t, b
<1> HIDE DEF Typed
<1>4. f \in Database /\ f.applied = d.applied /\ f.ids = d.ids /\ f.ev = ev
  BY <1>3 DEF Database
<1>5. FilesTyped(f)
  BY <1>2, <1>3, <1>4 DEF FilesTyped
<1> HIDE DEF f
<1> QED
  BY <1>1, <1>4, <1>5 DEF RowsLed, RowsAt

LEMMA BackfillEventsAre ==
    ASSUME NEW d, NEW i
    PROVE  BackfillEvents(d, i) \in SUBSET Events /\ EventsByAuthIndex(d, i) \in SUBSET Events
BY DEF BackfillEvents, EventsByAuthIndex

LEMMA StatsRows ==
    ASSUME NEW d \in Database, RowsAt(7, d), SchemaAt(7, d)
    PROVE  RowsLed(8, d, backfillUsageIdentityStats(d))
<1> DEFINE Full(i) == FullStats(i, BackfillEvents(d, i))
           ids == {Full(i) : i \in d.ids}
           f == [d EXCEPT !.ids = ids]
<1>1. backfillUsageIdentityStats(d) = f
  BY DEF backfillUsageIdentityStats, Has, HasColumn, SchemaAt, TablesAt, EventColumnsAt
<1>2. d.ids \in SUBSET IdentityRow /\ UniqueIds(d.ids) /\ FilesTyped(d)
  BY DEF Database, RowsAt
<1>3. ASSUME NEW i \in d.ids
      PROVE  /\ Full(i) \in IdentityRow /\ Full(i).kind = i.kind /\ Full(i).identity = i.identity
             /\ Counts(Full(i), BackfillEvents(d, i))
  BY <1>2, BackfillEventsAre, FullStatsIs
<1>4. \A i, j : i.kind = j.kind /\ i.identity = j.identity
                   => BackfillEvents(d, i) = BackfillEvents(d, j)
  BY DEF BackfillEvents
<1> HIDE DEF Full
<1>5. ids \in SUBSET IdentityRow /\ UniqueIds(ids)
  BY <1>2, <1>3 DEF UniqueIds
<1>6. \A i \in ids : Counts(i, BackfillEvents(d, i))
  BY <1>3, <1>4
<1>7. \A i \in ids : \E j \in d.ids : i.kind = j.kind /\ i.identity = j.identity
  BY <1>3
<1> HIDE DEF ids
<1>8. f \in Database /\ f.applied = d.applied /\ f.ids = ids /\ f.ev = d.ev
  BY <1>5 DEF Database
<1>9. FilesTyped(f)
  BY <1>2, <1>7, <1>8 DEF FilesTyped
<1>10. \A i : BackfillEvents(f, i) = BackfillEvents(d, i)
  BY <1>8 DEF BackfillEvents
<1> HIDE DEF f
<1> QED
  BY <1>1, <1>5, <1>6, <1>8, <1>9, <1>10 DEF RowsLed, RowsAt

LEMMA PrefixRows ==
    ASSUME NEW d \in Database, RowsAt(9, d)
    PROVE  RowsLed(10, d, removePrefixUsageIdentities(d))
<1> DEFINE ids == {i \in d.ids : ~(i.kind = "apikey" /\ i.identity = PrefixName)}
           f == [d EXCEPT !.ids = ids]
<1>1. removePrefixUsageIdentities(d) = f
  BY DEF removePrefixUsageIdentities
<1>2. ids \subseteq d.ids
  OBVIOUS
<1> HIDE DEF ids
<1>3. f \in Database /\ f.applied = d.applied /\ f.ids = ids /\ f.ev = d.ev
  BY <1>2 DEF Database
<1>4. \A i : BackfillEvents(f, i) = BackfillEvents(d, i)
  BY <1>3 DEF BackfillEvents
<1> HIDE DEF f
<1> QED
  BY <1>1, <1>2, <1>3, <1>4 DEF RowsLed, RowsAt, UniqueIds, FilesTyped

LEMMA LookupKeyRows ==
    ASSUME NEW d \in Database, RowsAt(10, d), SchemaAt(10, d)
    PROVE  RowsLed(11, d, addUsageIdentityLookupKey(d))
<1> DEFINE Keyed(i) == IF i.kind = "apikey" /\ i.lookup = Blank
                       THEN [i EXCEPT !.lookup = i.identity] ELSE i
           c == AddColumns(d, "usage_identities", {"lookup"})
           n == normalizeUsageIdentitiesSchema(c)
           ids == {Keyed(i) : i \in d.ids}
           f == addUsageIdentityLookupKey(d)
<1>1. c \in Database /\ c.ids = d.ids /\ c.ev = d.ev /\ c.applied = d.applied
  <2>1. "usage_identities" \in ColumnTables /\ {"lookup"} \in SUBSET AllColumns
    BY DEF ColumnTables, AllColumns
  <2>2. SameData(d, c)
    BY <2>1, ColumnsKeepData
  <2> QED
    BY <2>2 DEF SameData
<1>2. f = [n EXCEPT !.ids = {Keyed(i) : i \in n.ids}]
  BY DEF addUsageIdentityLookupKey, Has, SchemaAt, TablesAt
<1> HIDE DEF c
<1>3. n \in Database /\ n.ids = d.ids /\ n.ev = d.ev /\ n.applied = d.applied
  BY <1>1 DEF normalizeUsageIdentitiesSchema, Database, ColumnTables, AllColumns
<1>4. d.ids \in SUBSET IdentityRow /\ UniqueIds(d.ids) /\ FilesTyped(d)
  BY DEF Database, RowsAt
<1>5. ASSUME NEW i \in d.ids
      PROVE  /\ Keyed(i) \in IdentityRow /\ Keyed(i).kind = i.kind /\ Keyed(i).identity = i.identity
             /\ i.kind = "oauth" => Keyed(i) = i
  BY <1>4 DEF IdentityRow
<1> HIDE DEF Keyed, n
<1>6. ids \in SUBSET IdentityRow /\ UniqueIds(ids)
  BY <1>4, <1>5 DEF UniqueIds
<1>7. \A x \in ids : x.kind = "oauth" => x \in d.ids
  BY <1>5
<1>8. f = [n EXCEPT !.ids = ids]
  BY <1>2, <1>3
<1> HIDE DEF ids, f
<1>9. f \in Database /\ f.applied = d.applied /\ f.ids = ids /\ f.ev = d.ev
  BY <1>3, <1>6, <1>8 DEF Database
<1>10. \A i : BackfillEvents(f, i) = BackfillEvents(d, i)
  BY <1>9 DEF BackfillEvents
<1>11. RowsLed(11, d, f)
  BY <1>6, <1>7, <1>9, <1>10 DEF RowsLed, RowsAt, FilesTyped
<1> QED
  BY <1>11 DEF f

LEMMA AuthIndexRows ==
    ASSUME NEW d \in Database, RowsAt(11, d), SchemaAt(11, d)
    PROVE  RowsLed(12, d, migrateAIProviderIdentitiesToAuthIndex(d))
<1> DEFINE c == [d EXCEPT !.ids = RawRowsToAuthIndex(d)]
           Full(i) == IF i.kind = "apikey" THEN FullStats(i, EventsByAuthIndex(c, i)) ELSE i
           ids == {Full(i) : i \in c.ids}
           f == [c EXCEPT !.ids = ids]
<1>1. migrateAIProviderIdentitiesToAuthIndex(d) = f
  <2>1. HasColumn(d, "usage_identities", "lookup") /\ HasColumn(d, "usage_events", "redis")
    BY DEF Has, HasColumn, SchemaAt, TablesAt, EventColumnsAt, IdentityColumnsAt
  <2> QED
    BY <2>1 DEF migrateAIProviderIdentitiesToAuthIndex,
                backfillAIProviderUsageIdentityStatsByAuthIndex
<1>2. UniqueIds(d.ids) /\ FilesTyped(d)
      /\ \A i \in d.ids : i.kind = "oauth" => Counts(i, BackfillEvents(d, i))
  BY DEF RowsAt
<1>3. /\ c \in Database /\ c.ev = d.ev /\ c.applied = d.applied /\ UniqueIds(c.ids)
      /\ \A x \in c.ids : x.kind = "oauth" => x \in d.ids
  BY <1>2, RawRowsKeep DEF Database
<1> HIDE DEF c
<1>4. ASSUME NEW i \in c.ids
      PROVE  /\ Full(i) \in IdentityRow /\ Full(i).kind = i.kind /\ Full(i).identity = i.identity
             /\ i.kind = "oauth" => Full(i) = i
             /\ i.kind = "apikey" => Counts(Full(i), EventsByAuthIndex(c, i))
  <2>1. i \in IdentityRow /\ EventsByAuthIndex(c, i) \in SUBSET Events
    BY <1>3, BackfillEventsAre DEF Database
  <2> QED
    BY <2>1, FullStatsIs
<1>5. \A i, j : i.identity = j.identity => EventsByAuthIndex(c, i) = EventsByAuthIndex(c, j)
  BY DEF EventsByAuthIndex
<1> HIDE DEF Full
<1>6. ids \in SUBSET IdentityRow /\ UniqueIds(ids)
  BY <1>3, <1>4 DEF UniqueIds
<1>7. /\ \A x \in ids : x.kind = "oauth" => x \in d.ids
      /\ \A x \in ids : x.kind = "apikey" => Counts(x, EventsByAuthIndex(c, x))
  BY <1>3, <1>4, <1>5
<1> HIDE DEF ids
<1>8. f \in Database /\ f.applied = d.applied /\ f.ids = ids /\ f.ev = d.ev
  BY <1>3, <1>6 DEF Database
<1>9. \A i : /\ BackfillEvents(f, i) = BackfillEvents(d, i)
             /\ EventsByAuthIndex(f, i) = EventsByAuthIndex(c, i)
  BY <1>3, <1>8 DEF BackfillEvents, EventsByAuthIndex
<1> HIDE DEF f
<1>10. RowsLed(12, d, f)
  BY <1>2, <1>6, <1>7, <1>8, <1>9 DEF RowsLed, RowsAt, FilesTyped
<1> QED
  BY <1>1, <1>10

\* A version leads from the rows before it to the rows after it.
LEMMA RowsStep ==
    ASSUME NEW v \in 1 .. 34, NEW d \in Database, SchemaAt(v - 1, d), RowsAt(v - 1, d)
    PROVE  RowsLed(v, d, Migrate(v, d))
<1>1. CASE v \in (1 .. 34) \ {2, 6, 7, 8, 10, 11, 12}
  <2>1. SameData(d, Migrate(v, d))
    BY <1>1, SchemaVersions
  <2>2. RowsAt(v, d)
    BY <1>1 DEF RowsAt
  <2>3. RowsAt(v, Migrate(v, d))
    BY <2>1, <2>2, RowsOfSameData DEF SameData
  <2> QED
    BY <2>1, <2>3 DEF SameData, RowsLed
<1>2. CASE v = 2
  BY <1>2, MigrateIs, RedisFieldsRows
<1>6. CASE v = 6
  BY <1>6, MigrateIs, MetadataRows
<1>7. CASE v = 7
  BY <1>7, MigrateIs, IdentityFieldsRows
<1>8. CASE v = 8
  BY <1>8, MigrateIs, StatsRows
<1>10. CASE v = 10
  BY <1>10, MigrateIs, PrefixRows
<1>11. CASE v = 11
  BY <1>11, MigrateIs, LookupKeyRows
<1>12. CASE v = 12
  BY <1>12, MigrateIs, AuthIndexRows
<1> QED
  BY <1>1, <1>2, <1>6, <1>7, <1>8, <1>10, <1>11, <1>12

-----------------------------------------------------------------------------
(* The inductive invariant. *)

\* The ledger holds the first n versions, and the database is that of n.
StagedAt(n, d) == d.applied = 1 .. n /\ SchemaAt(n, d) /\ RowsAt(n, d)

\* A fresh creation has come past its first k tables.
Created(k, d) ==
    /\ d.tables = {CoreTables[j] : j \in 1 .. k}
    /\ \A t \in ColumnTables : d.cols[t] = IF t \in d.tables THEN CurrentColumns[t] ELSE {}
    /\ k >= 1 => d.unique
    /\ ~d.strict /\ ~d.dup /\ d.ids = {} /\ d.applied = {}

PlaceInv ==
    /\ pc \in {"down", "create", "seed", "mark", "run", "ensure", "open"}
    /\ pc = "create" => at \in 1 .. 8 /\ Created(at - 1, db)
    /\ pc \in {"seed", "mark"} => Created(8, db)
    /\ pc = "mark" => db.state # NoRow
    /\ pc = "run" => at \in 1 .. 34 /\ db.tables # {} /\ 1 .. (at - 1) \subseteq db.applied
    /\ pc \in {"ensure", "open"} => db.tables # {} /\ db.applied = 1 .. 34

\* A file has no tables and was never touched, or it is at some version: a
\* creation that was interrupted leaves one of version 0.
SchemaInv ==
    /\ db \in Database /\ torn \in BOOLEAN
    /\ db.tables = {} => Created(0, db)
    /\ db.tables # {} => \E n \in 0 .. 34 : StagedAt(n, db)
    /\ pc # "create" /\ db.tables # {} => "model_price_settings" \in db.tables \/ torn
    /\ PlaceInv

LEMMA CoreTablesAre ==
    /\ Len(CoreTables) = 8 /\ CoreTables \in [1 .. 8 -> AllTables]
    /\ CoreTables[1] = "usage_events" /\ CoreTables[2] = "redis_usage_inboxes"
    /\ CoreTables[3] = "model_price_settings" /\ CoreTables[4] = "usage_identities"
    /\ CoreTables[5] = "quota_observations" /\ CoreTables[6] = "key_aliases"
    /\ CoreTables[7] = "usage_rollup_backfill_states" /\ CoreTables[8] = "usage_rollups_hourly"
    /\ Range(CoreTables) = {"usage_events", "redis_usage_inboxes", "model_price_settings",
                            "usage_identities", "quota_observations", "key_aliases",
                            "usage_rollup_backfill_states", "usage_rollups_hourly"}
<1>1. /\ Len(CoreTables) = 8
      /\ CoreTables[1] = "usage_events" /\ CoreTables[2] = "redis_usage_inboxes"
      /\ CoreTables[3] = "model_price_settings" /\ CoreTables[4] = "usage_identities"
      /\ CoreTables[5] = "quota_observations" /\ CoreTables[6] = "key_aliases"
      /\ CoreTables[7] = "usage_rollup_backfill_states" /\ CoreTables[8] = "usage_rollups_hourly"
      /\ DOMAIN CoreTables = 1 .. 8
  BY DEF CoreTables
<1>2. CoreTables = [j \in 1 .. 8 |-> CoreTables[j]]
  BY DEF CoreTables
<1>3. \A j \in 1 .. 8 : j = 1 \/ j = 2 \/ j = 3 \/ j = 4 \/ j = 5 \/ j = 6 \/ j = 7 \/ j = 8
  OBVIOUS
<1>4. CoreTables \in [1 .. 8 -> AllTables]
  BY <1>1, <1>2, <1>3 DEF AllTables
<1> QED
  BY <1>1, <1>3, <1>4 DEF Range

\* The tables that have columns to tell apart, and their columns.
LEMMA CurrentColumnsAre ==
    /\ DOMAIN CurrentColumns = ColumnTables
    /\ CurrentColumns \in [ColumnTables -> SUBSET AllColumns]
    /\ CurrentColumns["usage_events"] = {"redis", "alias", "ttft", "attempt", "accounting"}
    /\ CurrentColumns["redis_usage_inboxes"] = {}
    /\ CurrentColumns["usage_identities"] = {"lookup", "metadata", "project", "baseURL",
                                             "disabled", "availability", "passive", "renewal"}
    /\ CurrentColumns["usage_rollups_hourly"] = {"accounting"}
BY DEF CurrentColumns, ColumnTables, AllColumns

\* An empty file has nothing.
LEMMA EmptyIsNew ==
    /\ Empty \in Database /\ Created(0, Empty)
    /\ Empty.tables = {} /\ Empty.cols = [t \in ColumnTables |-> {}]
<1>1. [src |-> Blank, auth |-> Blank, type |-> Blank, named |-> FALSE, hour |-> 0, fact |-> FALSE]
         \in EventRow
  BY SchemaMigrationAssumption DEF EventRow, Hours
<1>2. NoRow \in StateRow
  BY DEF NoRow, StateRow, NoHour
<1>3. Empty \in Database
  BY <1>1, <1>2, CurrentColumnsAre DEF Empty, Database
<1>4. {CoreTables[j] : j \in 1 .. 0} = {}
  OBVIOUS
<1> QED
  BY <1>3, <1>4, CurrentColumnsAre DEF Created, Empty

\* A database from before the ledger is one of version 0.
LEMMA LegacyStaged ==
    ASSUME NEW d, IsLegacy(d)
    PROVE  /\ d \in Database /\ StagedAt(0, d)
           /\ d.tables # {} /\ "model_price_settings" \in d.tables
<1>1. PICK src \in [Events -> Keys], auth \in [Events -> Auths],
           p \in [Events -> {Blank, "apikey", "oauth"}], files \in SUBSET AuthFiles,
           keys \in SUBSET Keys, inbox \in BOOLEAN, dup \in BOOLEAN :
        d = LegacyDatabase(src, auth, p, files, keys, inbox, dup)
  BY DEF IsLegacy
<1> DEFINE ev == [e \in Events |-> [src |-> src[e], auth |-> auth[e], type |-> Blank,
                                    named |-> FALSE, hour |-> 0, fact |-> FALSE]]
           ts == {"usage_events", "model_price_settings", "snapshot_runs",
                  "auth_files", "provider_metadata"}
                 \cup IF inbox THEN {"redis_usage_inboxes"} ELSE {}
           ib == IF inbox THEN {"snapshot"} ELSE {}
           cs == [[Empty.cols EXCEPT !["usage_events"] = {"snapshot"}]
                     EXCEPT !["redis_usage_inboxes"] = ib]
<1>2. ev \in [Events -> EventRow] /\ ts \in SUBSET AllTables
      /\ keys \cup {PrefixName} \in SUBSET (Keys \cup {PrefixName})
  BY SchemaMigrationAssumption DEF EventRow, Hours, AllTables
<1>3. /\ cs \in [ColumnTables -> SUBSET AllColumns]
      /\ cs["usage_events"] = {"snapshot"} /\ cs["redis_usage_inboxes"] = ib
      /\ cs["usage_identities"] = {} /\ cs["usage_rollups_hourly"] = {}
  BY EmptyIsNew DEF ColumnTables, AllColumns
<1>4. d = [Empty EXCEPT !.tables = ts, !.cols = cs, !.ev = ev, !.payload = p, !.authFiles = files,
                        !.metadata = keys \cup {PrefixName}, !.strict = TRUE, !.dup = dup]
  <2> DEFINE e1 == [Empty EXCEPT !.tables = ts]
             e2 == [e1 EXCEPT !.cols["usage_events"] = {"snapshot"}]
             e3 == [e2 EXCEPT !.cols["redis_usage_inboxes"] = ib]
  <2>1. d = [e3 EXCEPT !.ev = ev, !.payload = p, !.authFiles = files,
                       !.metadata = keys \cup {PrefixName}, !.strict = TRUE, !.dup = dup]
    BY <1>1 DEF LegacyDatabase
  <2> HIDE DEF ts, ib, ev
  <2>2. e3 = [Empty EXCEPT !.tables = ts, !.cols = cs]
    BY EmptyIsNew DEF Database
  <2> HIDE DEF e3, cs
  <2> QED
    BY <2>1, <2>2
<1>5. d.tables = ts /\ d.cols = cs /\ d.ids = {} /\ d.applied = {}
  <2> HIDE DEF ts, cs, ev
  <2> QED
    BY <1>4, EmptyIsNew DEF Database, Created
<1>6. d \in Database
  <2> HIDE DEF ts, cs, ev
  <2> QED
    BY <1>2, <1>3, <1>4, EmptyIsNew DEF Database
<1> HIDE DEF cs
<1>7. SchemaAt(0, d) /\ RowsAt(0, d)
  BY <1>3, <1>5 DEF SchemaAt, TablesAt, EventColumnsAt, IdentityColumnsAt, OtherColumnsAt,
                    RowsAt, UniqueIds
<1>8. d.applied = 1 .. 0
  BY <1>5
<1> QED
  BY <1>5, <1>6, <1>7, <1>8 DEF StagedAt

\* A database of the published release is one of version 25.
LEMMA PublishedStaged ==
    ASSUME NEW d, IsPublished(d)
    PROVE  /\ d \in Database /\ StagedAt(25, d)
           /\ d.tables # {} /\ "model_price_settings" \in d.tables
<1>1. PICK hour \in [Events -> Hours], fact \in [Events -> BOOLEAN], pend \in BOOLEAN,
           st \in {"pending", "running", "completed", "failed"},
           target \in Hours \cup {NoHour}, covered \in Hours \cup {NoHour} :
        d = PublishedDatabase(hour, fact, pend, st, target, covered)
  BY SMTT(30) DEF IsPublished
<1> DEFINE ts == Range(CoreTables) \ {"quota_observations"}
           ev == [e \in Events |-> [Empty.ev[e] EXCEPT !.hour = hour[e], !.fact = fact[e]]]
           cs == [usage_events |-> {"redis", "alias", "ttft", "attempt"},
                  redis_usage_inboxes |-> {},
                  usage_identities |-> {"lookup", "metadata", "project", "baseURL"},
                  usage_rollups_hourly |-> {"tokens"}]
           state == [status |-> st, target |-> target, covered |-> covered]
<1>2. ev \in [Events -> EventRow]
  <2> SUFFICES ASSUME NEW e \in Events
               PROVE  [Empty.ev[e] EXCEPT !.hour = hour[e], !.fact = fact[e]] \in EventRow
    OBVIOUS
  <2>1. Empty.ev[e] \in EventRow
    BY EmptyIsNew DEF Database
  <2> QED
    BY <2>1 DEF EventRow
<1>3. /\ cs \in [ColumnTables -> SUBSET AllColumns]
      /\ cs["usage_events"] = {"redis", "alias", "ttft", "attempt"}
      /\ cs["redis_usage_inboxes"] = {}
      /\ cs["usage_identities"] = {"lookup", "metadata", "project", "baseURL"}
      /\ cs["usage_rollups_hourly"] = {"tokens"}
  BY DEF ColumnTables, AllColumns
<1>4. state \in StateRow /\ state.status = st /\ ts \in SUBSET AllTables
      /\ 1 .. Published \in SUBSET Versions
  BY SchemaMigrationAssumption, CoreTablesAre, PublishedIs, VersionsAre
     DEF StateRow, Hours, NoHour, AllTables
<1>5. d = [Empty EXCEPT !.tables = ts, !.cols = cs, !.ev = ev, !.state = state, !.pending = pend,
                        !.strict = TRUE, !.unique = TRUE, !.applied = 1 .. Published]
  BY <1>1 DEF PublishedDatabase
<1> HIDE DEF ts, ev, cs, state
<1>6. d \in Database
  BY <1>2, <1>3, <1>4, <1>5, EmptyIsNew DEF Database
<1>7. d.tables = ts /\ d.cols = cs /\ d.ids = {} /\ d.applied = 1 .. 25 /\ d.unique /\ ~d.dup
      /\ d.state = state
  BY <1>5, EmptyIsNew, PublishedIs DEF Database, Created
<1>8. d.state # NoRow
  BY <1>4, <1>7 DEF NoRow
<1>9. d.tables = {"usage_events", "redis_usage_inboxes", "model_price_settings",
                  "usage_identities", "key_aliases", "usage_rollup_backfill_states",
                  "usage_rollups_hourly"}
  BY <1>7, CoreTablesAre DEF ts
<1>10. TablesAt(25, d)
  BY <1>7, <1>8, <1>9 DEF TablesAt
<1>11. SchemaAt(25, d)
  BY <1>3, <1>7, <1>10 DEF SchemaAt, EventColumnsAt, IdentityColumnsAt, OtherColumnsAt
<1>12. RowsAt(25, d)
  BY <1>7 DEF RowsAt, UniqueIds, FilesTyped
<1> QED
  BY <1>6, <1>7, <1>9, <1>11, <1>12 DEF StagedAt

LEMMA InitSchemaInv == Init => SchemaInv
<1> SUFFICES ASSUME Init PROVE SchemaInv
  OBVIOUS
<1>1. PlaceInv
  BY DEF Init, PlaceInv
<1>2. CASE db = Empty
  <2>1. Empty.tables = {}
    BY DEF Empty
  <2> QED
    BY <1>1, <1>2, <2>1, EmptyIsNew DEF Init, SchemaInv
<1>3. CASE IsLegacy(db)
  <2>1. \E n \in 0 .. 34 : StagedAt(n, db)
    BY <1>3, LegacyStaged
  <2> QED
    BY <1>1, <1>3, <2>1, LegacyStaged DEF Init, SchemaInv
<1>4. CASE IsPublished(db)
  <2>1. \E n \in 0 .. 34 : StagedAt(n, db)
    BY <1>4, PublishedStaged
  <2> QED
    BY <1>1, <1>4, <2>1, PublishedStaged DEF Init, SchemaInv
<1> QED
  BY <1>2, <1>3, <1>4 DEF Init

-----------------------------------------------------------------------------
(* The steps of OpenDatabase. *)

\* What a version promises does not depend on the ledger, nor on the inbox, and
\* a seeded state can only help it.
LEMMA SchemaOfSame ==
    ASSUME NEW n \in Int, NEW d, NEW e, SchemaAt(n, d),
           e.tables = d.tables, e.cols = d.cols, e.strict = d.strict, e.unique = d.unique,
           e.dup = d.dup,
           d.state # NoRow => e.state # NoRow
    PROVE  SchemaAt(n, e)
BY DEF SchemaAt, TablesAt, EventColumnsAt, IdentityColumnsAt, OtherColumnsAt

\* An interrupted creation is a database of version 0.
LEMMA CreatedIsStaged ==
    ASSUME NEW k \in 1 .. 8, NEW d \in Database, Created(k, d)
    PROVE  StagedAt(0, d) /\ d.tables # {}
<1>1. "usage_events" \in d.tables
  <2>1. 1 \in 1 .. k
    OBVIOUS
  <2>2. CoreTables[1] \in d.tables
    BY <2>1 DEF Created
  <2> QED
    BY <2>2, CoreTablesAre
<1>2. /\ d.cols["usage_events"] \subseteq {"redis", "alias", "ttft", "attempt", "accounting"}
      /\ d.cols["redis_usage_inboxes"] = {}
      /\ d.cols["usage_identities"] \subseteq
            {"lookup", "metadata", "project", "baseURL", "disabled", "availability", "passive", "renewal"}
      /\ d.cols["usage_rollups_hourly"] \subseteq {"accounting"}
  <2>1. /\ "usage_events" \in ColumnTables /\ "redis_usage_inboxes" \in ColumnTables
        /\ "usage_identities" \in ColumnTables /\ "usage_rollups_hourly" \in ColumnTables
    BY DEF ColumnTables
  <2> QED
    BY <2>1, CurrentColumnsAre DEF Created
<1>3. SchemaAt(0, d)
  BY <1>1, <1>2 DEF SchemaAt, TablesAt, EventColumnsAt, IdentityColumnsAt, OtherColumnsAt
<1>4. RowsAt(0, d) /\ d.applied = 1 .. 0
  BY DEF Created, RowsAt, UniqueIds
<1> QED
  BY <1>1, <1>3, <1>4 DEF StagedAt

\* A finished creation with its seed is a database of the last version.
LEMMA CreatedIsCurrent ==
    ASSUME NEW d \in Database, Created(8, d), d.state # NoRow
    PROVE  SchemaAt(34, d) /\ RowsAt(34, d) /\ "model_price_settings" \in d.tables
<1>1. d.tables = {"usage_events", "redis_usage_inboxes", "model_price_settings",
                  "usage_identities", "quota_observations", "key_aliases",
                  "usage_rollup_backfill_states", "usage_rollups_hourly"}
  <2>1. {CoreTables[j] : j \in 1 .. 8} = Range(CoreTables)
    BY CoreTablesAre DEF Range
  <2> QED
    BY <2>1, CoreTablesAre DEF Created
<1>2. /\ d.cols["usage_events"] = {"redis", "alias", "ttft", "attempt", "accounting"}
      /\ d.cols["redis_usage_inboxes"] = {}
      /\ d.cols["usage_identities"] =
            {"lookup", "metadata", "project", "baseURL", "disabled", "availability", "passive", "renewal"}
      /\ d.cols["usage_rollups_hourly"] = {"accounting"}
  <2>1. /\ "usage_events" \in ColumnTables /\ "redis_usage_inboxes" \in ColumnTables
        /\ "usage_identities" \in ColumnTables /\ "usage_rollups_hourly" \in ColumnTables
    BY DEF ColumnTables
  <2> QED
    BY <1>1, <2>1, CurrentColumnsAre DEF Created
<1>3. TablesAt(34, d)
  <2>1. d.unique /\ ~d.dup /\ ~d.strict /\ d.state # NoRow
    BY DEF Created
  <2> QED
    BY <1>1, <2>1, SMTT(30) DEF TablesAt
<1>4. SchemaAt(34, d)
  BY <1>2, <1>3 DEF SchemaAt, EventColumnsAt, IdentityColumnsAt, OtherColumnsAt
<1>5. RowsAt(34, d)
  BY DEF Created, RowsAt, UniqueIds, FilesTyped
<1> QED
  BY <1>1, <1>4, <1>5

\* One table of a creation.
LEMMA CreatedStep ==
    ASSUME SchemaInv, AutoMigrate
    PROVE  db' \in Database /\ Created(at, db') /\ at \in 1 .. 8
<1> DEFINE t == CoreTables[at]
           cs == [x \in ColumnTables |-> IF x = t THEN CurrentColumns[x] ELSE db.cols[x]]
<1>1. db \in Database /\ at \in 1 .. 8 /\ Created(at - 1, db)
  BY DEF SchemaInv, PlaceInv, AutoMigrate
<1>2. t \in AllTables
  BY <1>1, CoreTablesAre
<1>3. cs \in [ColumnTables -> SUBSET AllColumns]
  BY <1>1, CurrentColumnsAre DEF Database
<1>4. db' = [db EXCEPT !.tables = @ \cup {t}, !.cols = cs, !.unique = @ \/ t = "usage_events"]
  <2>1. DOMAIN db.cols = ColumnTables
    BY <1>1 DEF Database
  <2>2. db' = [db EXCEPT !.tables = @ \cup {t},
                         !.cols = [x \in DOMAIN @ |-> IF x = t THEN CurrentColumns[x] ELSE @[x]],
                         !.unique = @ \/ t = "usage_events"]
    BY DEF AutoMigrate
  <2> HIDE DEF t
  <2> QED
    BY <1>1, <2>1, <2>2 DEF Database
<1>5. (db.unique \/ t = "usage_events") \in BOOLEAN
  OBVIOUS
<1> HIDE DEF cs, t
<1>6. db' \in Database
  BY <1>1, <1>2, <1>3, <1>4, <1>5 DEF Database
<1>7. /\ db'.tables = db.tables \cup {t} /\ db'.cols = cs
      /\ db'.unique = (db.unique \/ t = "usage_events")
      /\ db'.strict = db.strict /\ db'.dup = db.dup /\ db'.ids = db.ids /\ db'.applied = db.applied
  BY <1>1, <1>4 DEF Database
<1>8. {CoreTables[j] : j \in 1 .. at} = {CoreTables[j] : j \in 1 .. at - 1} \cup {t}
  <2>1. 1 .. at = (1 .. at - 1) \cup {at}
    BY <1>1
  <2> QED
    BY <2>1 DEF t
<1>9. \A x \in ColumnTables : db'.cols[x] = IF x \in db'.tables THEN CurrentColumns[x] ELSE {}
  BY <1>1, <1>7 DEF Created, cs
<1>10. db'.unique
  <2>1. CASE at = 1
    BY <1>7, <2>1, CoreTablesAre DEF t
  <2>2. CASE at # 1
    <3>1. at - 1 >= 1
      BY <1>1, <2>2
    <3>2. db.unique
      BY <1>1, <3>1 DEF Created
    <3> QED
      BY <1>7, <3>2
  <2> QED
    BY <2>1, <2>2
<1> QED
  BY <1>1, <1>6, <1>7, <1>8, <1>9, <1>10 DEF Created

\* One version that was applied with its row in the ledger.
LEMMA AppliedStep ==
    ASSUME NEW v \in 1 .. 34, NEW d \in Database, StagedAt(v - 1, d), ~Refused(v, d),
           NEW e, e = [Migrate(v, d) EXCEPT !.applied = @ \cup {v}]
    PROVE  /\ e \in Database /\ StagedAt(v, e) /\ PricesKept(d, e)
           /\ e.ev = Migrate(v, d).ev /\ e.state = Migrate(v, d).state
<1> DEFINE m == Migrate(v, d)
<1>1. SchemaAt(v, m) /\ PricesKept(d, m)
  BY SchemaStep DEF StagedAt
<1>2. m \in Database /\ m.applied = d.applied /\ RowsAt(v, m)
  BY RowsStep DEF StagedAt, RowsLed
<1>3. e = [m EXCEPT !.applied = m.applied \cup {v}]
  BY <1>2 DEF Database
<1>4. v \in Versions
  BY VersionsAre
<1>5. m.applied \cup {v} \in SUBSET Versions
  BY <1>2, <1>4 DEF Database
<1> HIDE DEF m
<1>6. /\ e \in Database /\ e.applied = m.applied \cup {v}
      /\ e.tables = m.tables /\ e.cols = m.cols /\ e.strict = m.strict /\ e.unique = m.unique /\ e.dup = m.dup
      /\ e.state = m.state /\ e.ids = m.ids /\ e.ev = m.ev
  <2> DEFINE ledger == m.applied \cup {v}
  <2>1. e = [m EXCEPT !.applied = ledger] /\ ledger \in SUBSET Versions
    BY <1>3, <1>5
  <2> HIDE DEF ledger
  <2>2. /\ e \in Database /\ e.applied = ledger
        /\ e.tables = m.tables /\ e.cols = m.cols /\ e.strict = m.strict /\ e.unique = m.unique /\ e.dup = m.dup
        /\ e.state = m.state /\ e.ids = m.ids /\ e.ev = m.ev
    BY <1>2, <2>1 DEF Database
  <2> QED
    BY <2>2 DEF ledger
<1>7. SchemaAt(v, e)
  <2>1. v \in Int
    OBVIOUS
  <2> QED
    BY <1>1, <1>6, <2>1, SchemaOfSame
<1>8. RowsAt(v, e)
  <2>1. v \in Int
    OBVIOUS
  <2> QED
    BY <1>2, <1>6, <2>1, RowsOfSameData
<1>9. (1 .. (v - 1)) \cup {v} = 1 .. v
  OBVIOUS
<1>10. e.applied = 1 .. v
  BY <1>2, <1>6, <1>9 DEF StagedAt
<1> QED
  BY <1>1, <1>6, <1>7, <1>8, <1>10 DEF StagedAt, PricesKept, m

\* The version that comes next is the one the ledger lacks.
LEMMA NextVersion ==
    ASSUME SchemaInv, pc = "run", at \notin db.applied
    PROVE  db \in Database /\ at \in 1 .. 34 /\ StagedAt(at - 1, db)
<1>1. db \in Database /\ at \in 1 .. 34 /\ db.tables # {} /\ 1 .. (at - 1) \subseteq db.applied
  BY DEF SchemaInv, PlaceInv
<1>2. PICK n \in 0 .. 34 : StagedAt(n, db)
  BY <1>1 DEF SchemaInv
<1>3. db.applied = 1 .. n
  BY <1>2 DEF StagedAt
<1>4. n < at
  <2>1. at \notin 1 .. n
    BY <1>3
  <2> QED
    BY <1>1, <2>1
<1>5. at - 1 <= n
  <2>1. CASE at = 1
    BY <2>1
  <2>2. CASE at # 1
    <3>1. at - 1 \in 1 .. (at - 1)
      BY <1>1, <2>2
    <3>2. at - 1 \in 1 .. n
      BY <1>1, <1>3, <3>1
    <3> QED
      BY <3>2
  <2> QED
    BY <2>1, <2>2
<1>6. n = at - 1
  BY <1>1, <1>4, <1>5
<1> QED
  BY <1>1, <1>2, <1>6

LEMMA StagedHasTables ==
    ASSUME NEW n, NEW d, StagedAt(n, d)
    PROVE  d.tables # {}
BY DEF StagedAt, SchemaAt, TablesAt

LEMMA RunKeepsInv ==
    ASSUME SchemaInv, RunMigration
    PROVE  SchemaInv'
<1>0. /\ db \in Database /\ torn \in BOOLEAN /\ at \in 1 .. 34 /\ db.tables # {} /\ pc = "run"
      /\ 1 .. (at - 1) \subseteq db.applied /\ torn' = torn
      /\ ("model_price_settings" \in db.tables \/ torn)
  BY DEF SchemaInv, PlaceInv, RunMigration
<1>1. CASE at \notin db.applied /\ Refused(at, db)
  <2>1. db' = db /\ pc' = "down"
    BY <1>1 DEF RunMigration
  <2> QED
    BY <1>0, <2>1 DEF SchemaInv, PlaceInv, Created, StagedAt, RowsAt, SchemaAt
<1>2. CASE ~(at \notin db.applied /\ Refused(at, db))
  <2>1. /\ db' = IF at \in db.applied THEN db ELSE [Migrate(at, db) EXCEPT !.applied = @ \cup {at}]
        /\ pc' = IF at = 34 THEN "ensure" ELSE "run"
        /\ at' = IF at = 34 THEN 1 ELSE at + 1
    BY <1>2, VersionsAre DEF RunMigration
  <2>2. \E n \in 0 .. 34 : /\ StagedAt(n, db') /\ at <= n /\ db' \in Database
                           /\ ("model_price_settings" \in db'.tables \/ torn)
    <3>1. CASE at \in db.applied
      <4>1. PICK n \in 0 .. 34 : StagedAt(n, db)
        BY <1>0 DEF SchemaInv
      <4>2. at <= n
        BY <3>1, <4>1 DEF StagedAt
      <4> QED
        BY <1>0, <2>1, <3>1, <4>1, <4>2
    <3>2. CASE at \notin db.applied
      <4>1. StagedAt(at - 1, db)
        BY <1>0, <3>2, NextVersion
      <4>2. db' = [Migrate(at, db) EXCEPT !.applied = @ \cup {at}]
        BY <2>1, <3>2
      <4>3. StagedAt(at, db') /\ db' \in Database /\ PricesKept(db, db')
        BY <1>0, <1>2, <3>2, <4>1, <4>2, AppliedStep
      <4>4. at \in 0 .. 34 /\ at <= at
        BY <1>0
      <4> QED
        BY <1>0, <4>3, <4>4 DEF PricesKept
    <3> QED
      BY <3>1, <3>2
  <2>3. PICK n \in 0 .. 34 : /\ StagedAt(n, db') /\ at <= n /\ db' \in Database
                             /\ ("model_price_settings" \in db'.tables \/ torn)
    BY <2>2
  <2>4. db'.tables # {} /\ db'.applied = 1 .. n
    BY <2>3, StagedHasTables DEF StagedAt
  <2>5. CASE at = 34
    <3>1. n = 34
      BY <2>3, <2>5
    <3>2. pc' = "ensure" /\ db'.applied = 1 .. 34
      BY <2>1, <2>4, <2>5, <3>1
    <3>3. PlaceInv'
      BY <2>4, <3>2 DEF PlaceInv
    <3> QED
      BY <1>0, <2>3, <2>4, <3>3 DEF SchemaInv
  <2>6. CASE at # 34
    <3>1. at + 1 \in 1 .. 34 /\ 1 .. ((at + 1) - 1) \subseteq 1 .. n
      BY <1>0, <2>3, <2>6
    <3>2. pc' = "run" /\ at' = at + 1
      BY <2>1, <2>6
    <3>3. at' \in 1 .. 34 /\ 1 .. (at' - 1) \subseteq db'.applied
      BY <2>4, <3>1, <3>2
    <3>4. PlaceInv'
      BY <2>4, <3>2, <3>3 DEF PlaceInv
    <3> QED
      BY <1>0, <2>3, <2>4, <3>4 DEF SchemaInv
  <2> QED
    BY <2>5, <2>6
<1> QED
  BY <1>1, <1>2

\* Every step of the process keeps the invariant.
LEMMA NextSchemaInv ==
    ASSUME SchemaInv, [Next]_vars
    PROVE  SchemaInv'
<1>0. db \in Database /\ torn \in BOOLEAN
  BY DEF SchemaInv
<1>open. CASE OpenDatabase
  <2>1. db' = db /\ torn' = torn /\ at' = 1 /\ pc = "down"
        /\ pc' = (IF db.tables = {} THEN "create" ELSE "run")
    BY <1>open DEF OpenDatabase
  <2>2. PlaceInv'
    <3>1. 1 .. (1 - 1) = {}
      OBVIOUS
    <3>2. db.tables = {} => Created(1 - 1, db)
      BY DEF SchemaInv
    <3>3. CASE db.tables = {}
      <4>1. pc' = "create"
        BY <2>1, <3>3
      <4>2. Created(at' - 1, db')
        BY <2>1, <3>2, <3>3
      <4> QED
        BY <2>1, <4>1, <4>2 DEF PlaceInv
    <3>4. CASE db.tables # {}
      <4>1. pc' = "run" /\ at' \in 1 .. 34
        BY <2>1, <3>4
      <4>2. 1 .. (at' - 1) = {}
        BY <2>1, <3>1
      <4> QED
        BY <2>1, <3>4, <4>1, <4>2 DEF PlaceInv
    <3> QED
      BY <3>3, <3>4
  <2>3. pc # "create"
    BY <2>1
  <2> QED
    BY <2>1, <2>2, <2>3 DEF SchemaInv
<1>create. CASE AutoMigrate
  <2>1. db' \in Database /\ Created(at, db') /\ at \in 1 .. 8
    BY <1>create, CreatedStep
  <2>2. torn' = torn /\ pc' = (IF at = 8 THEN "seed" ELSE "create")
        /\ at' = (IF at = 8 THEN 1 ELSE at + 1)
    BY <1>create, CoreTablesAre DEF AutoMigrate
  <2>3. StagedAt(0, db') /\ db'.tables # {}
    BY <2>1, CreatedIsStaged
  <2>4. pc' # "create" => "model_price_settings" \in db'.tables
    <3> SUFFICES ASSUME at = 8 PROVE "model_price_settings" \in db'.tables
      BY <2>2
    <3>1. CoreTables[3] \in db'.tables
      BY <2>1 DEF Created
    <3> QED
      BY <3>1, CoreTablesAre
  <2>5. PlaceInv'
    <3>1. CASE at = 8
      BY <2>1, <2>2, <3>1 DEF PlaceInv
    <3>2. CASE at # 8
      <4>1. at' \in 1 .. 8 /\ at' - 1 = at /\ pc' = "create"
        BY <2>1, <2>2, <3>2
      <4> QED
        BY <2>1, <4>1 DEF PlaceInv
    <3> QED
      BY <3>1, <3>2
  <2>6. \E n \in 0 .. 34 : StagedAt(n, db')
    BY <2>3
  <2> QED
    BY <1>0, <2>1, <2>2, <2>3, <2>4, <2>5, <2>6 DEF SchemaInv
<1>seed. CASE EnsureUsageRollupBackfillState
  <2>1. /\ db' \in Database /\ db'.state # NoRow
        /\ db'.tables = db.tables /\ db'.cols = db.cols
        /\ db'.strict = db.strict /\ db'.unique = db.unique /\ db'.dup = db.dup
        /\ db'.ids = db.ids /\ db'.ev = db.ev /\ db'.applied = db.applied
    BY <1>0, <1>seed, SeedIs DEF EnsureUsageRollupBackfillState
  <2>2. /\ pc \in {"seed", "ensure"} /\ torn' = torn /\ at' = at
        /\ pc' = IF pc = "seed" THEN "mark" ELSE "open"
    BY <1>seed DEF EnsureUsageRollupBackfillState
  <2>3. ASSUME NEW n \in 0 .. 34, StagedAt(n, db) PROVE StagedAt(n, db')
    <3>1. n \in Int
      OBVIOUS
    <3>2. SchemaAt(n, db')
      BY <2>1, <2>3, <3>1, SchemaOfSame DEF StagedAt
    <3>3. RowsAt(n, db')
      BY <2>1, <2>3, <3>1, RowsOfSameData DEF StagedAt
    <3> QED
      BY <2>1, <2>3, <3>2, <3>3 DEF StagedAt
  <2>4. \A k : Created(k, db) => Created(k, db')
    BY <2>1 DEF Created
  <2>5. PlaceInv'
    BY <2>1, <2>2, <2>4 DEF PlaceInv, SchemaInv
  <2> QED
    BY <1>0, <2>1, <2>2, <2>3, <2>4, <2>5 DEF SchemaInv
<1>mark. CASE MarkAllAsApplied
  <2>1. /\ Created(8, db) /\ db.state # NoRow /\ pc' = "open" /\ torn' = torn
        /\ db' = [db EXCEPT !.applied = Versions]
    BY <1>mark DEF MarkAllAsApplied, SchemaInv, PlaceInv
  <2>2. SchemaAt(34, db) /\ RowsAt(34, db) /\ "model_price_settings" \in db.tables
    BY <1>0, <2>1, CreatedIsCurrent
  <2>3. /\ db' \in Database /\ db'.applied = 1 .. 34
        /\ db'.tables = db.tables /\ db'.cols = db.cols /\ db'.state = db.state
        /\ db'.strict = db.strict /\ db'.unique = db.unique /\ db'.dup = db.dup
        /\ db'.ids = db.ids /\ db'.ev = db.ev
    BY <1>0, <2>1, VersionsAre DEF Database
  <2>4. SchemaAt(34, db') /\ RowsAt(34, db')
    BY <2>2, <2>3, SchemaOfSame, RowsOfSameData
  <2>5. StagedAt(34, db')
    BY <2>3, <2>4 DEF StagedAt
  <2>6. PlaceInv'
    BY <2>1, <2>2, <2>3 DEF PlaceInv
  <2>7. \E n \in 0 .. 34 : StagedAt(n, db')
    BY <2>5
  <2> QED
    BY <1>0, <2>1, <2>2, <2>3, <2>6, <2>7 DEF SchemaInv
<1>run. CASE RunMigration
  BY <1>run, RunKeepsInv
<1>fail. CASE Fail
  <2>1. db' = db /\ pc' = "down" /\ torn' = (torn \/ (pc = "create" /\ db.tables # {}))
    BY <1>fail DEF Fail
  <2>2. PlaceInv'
    BY <2>1 DEF PlaceInv
  <2>3. torn' \in BOOLEAN /\ (torn => torn')
    BY <1>0, <2>1
  <2>4. db.tables # {} => "model_price_settings" \in db.tables \/ torn'
    BY <2>1, <2>3 DEF SchemaInv
  <2> QED
    BY <2>1, <2>2, <2>3, <2>4 DEF SchemaInv
<1>close. CASE Close
  <2>1. db' = db /\ pc' = "down" /\ torn' = torn /\ pc # "create"
    BY <1>close DEF Close
  <2>2. PlaceInv'
    BY <2>1 DEF PlaceInv
  <2> QED
    BY <2>1, <2>2 DEF SchemaInv
<1>inbox. CASE FinishInbox
  <2>1. db' = [db EXCEPT !.pending = FALSE] /\ pc = "down" /\ pc' = pc /\ torn' = torn
    BY <1>inbox DEF FinishInbox
  <2>2. /\ db' \in Database /\ db'.applied = db.applied
        /\ db'.tables = db.tables /\ db'.cols = db.cols /\ db'.state = db.state
        /\ db'.strict = db.strict /\ db'.unique = db.unique /\ db'.dup = db.dup
        /\ db'.ids = db.ids /\ db'.ev = db.ev
    BY <1>0, <2>1 DEF Database
  <2>3. ASSUME NEW n \in 0 .. 34, StagedAt(n, db) PROVE StagedAt(n, db')
    <3>1. n \in Int
      OBVIOUS
    <3>2. SchemaAt(n, db')
      BY <2>2, <2>3, <3>1, SchemaOfSame DEF StagedAt
    <3>3. RowsAt(n, db')
      BY <2>2, <2>3, <3>1, RowsOfSameData DEF StagedAt
    <3> QED
      BY <2>2, <2>3, <3>2, <3>3 DEF StagedAt
  <2>4. Created(0, db) => Created(0, db')
    BY <2>2 DEF Created
  <2>5. PlaceInv'
    BY <2>1 DEF PlaceInv
  <2> QED
    BY <1>0, <2>1, <2>2, <2>3, <2>4, <2>5 DEF SchemaInv
<1>stutter. CASE UNCHANGED vars
  <2>1. db' = db /\ pc' = pc /\ at' = at /\ torn' = torn
    BY <1>stutter DEF vars
  <2> QED
    BY <2>1 DEF SchemaInv, PlaceInv
<1> QED
  BY <1>open, <1>create, <1>seed, <1>mark, <1>run, <1>fail, <1>close, <1>inbox, <1>stutter
     DEF Next

LEMMA SpecSchemaInv == Spec => []SchemaInv
BY InitSchemaInv, NextSchemaInv, PTL DEF Spec

\* An open database is at the last version.
LEMMA OpenIsCurrent ==
    ASSUME SchemaInv, pc = "open"
    PROVE  /\ db \in Database /\ SchemaAt(34, db) /\ RowsAt(34, db) /\ db.applied = 1 .. 34
           /\ ("model_price_settings" \in db.tables \/ torn)
<1>1. /\ db \in Database /\ db.tables # {} /\ db.applied = 1 .. 34
      /\ ("model_price_settings" \in db.tables \/ torn)
  BY DEF SchemaInv, PlaceInv
<1>2. PICK n \in 0 .. 34 : StagedAt(n, db)
  BY <1>1 DEF SchemaInv
<1>3. 34 \in 1 .. n
  <2>1. 34 \in 1 .. 34
    OBVIOUS
  <2>2. 1 .. 34 = 1 .. n
    BY <1>1, <1>2 DEF StagedAt
  <2> QED
    BY <2>1, <2>2
<1>4. n = 34
  BY <1>3
<1> QED
  BY <1>1, <1>2, <1>4 DEF StagedAt

LEMMA InvSchemaCurrent == SchemaInv => SchemaCurrent
<1> SUFFICES ASSUME SchemaInv, pc = "open"
             PROVE  /\ Range(CoreTables) \ db.tables \subseteq
                          (IF torn THEN {"model_price_settings"} ELSE {})
                    /\ db.tables \subseteq Range(CoreTables)
                    /\ db.cols = CurrentColumns
                    /\ db.unique /\ ~db.dup /\ ~db.strict /\ db.state # NoRow
                    /\ db.applied = Versions
  BY DEF SchemaCurrent
<1>1. /\ db \in Database /\ SchemaAt(34, db) /\ db.applied = 1 .. 34
      /\ ("model_price_settings" \in db.tables \/ torn)
  BY OpenIsCurrent
<1>2. TablesAt(34, db) /\ db.tables \in SUBSET AllTables
  BY <1>1 DEF SchemaAt, Database
<1>3. Range(CoreTables) \ db.tables \subseteq (IF torn THEN {"model_price_settings"} ELSE {})
  BY <1>1, <1>2, CoreTablesAre DEF TablesAt
<1>4. db.tables \subseteq Range(CoreTables)
  BY <1>2, CoreTablesAre DEF TablesAt, AllTables
<1>5. db.cols = CurrentColumns
  <2>1. db.cols \in [ColumnTables -> SUBSET AllColumns]
    BY <1>1 DEF Database
  <2>2. /\ db.cols["usage_events"] = CurrentColumns["usage_events"]
        /\ db.cols["usage_identities"] = CurrentColumns["usage_identities"]
        /\ db.cols["redis_usage_inboxes"] = CurrentColumns["redis_usage_inboxes"]
        /\ db.cols["usage_rollups_hourly"] = CurrentColumns["usage_rollups_hourly"]
    BY <1>1, CurrentColumnsAre DEF SchemaAt, EventColumnsAt, IdentityColumnsAt, OtherColumnsAt
  <2>3. \A t \in ColumnTables : db.cols[t] = CurrentColumns[t]
    BY <2>2 DEF ColumnTables
  <2> QED
    BY <2>1, <2>3, CurrentColumnsAre
<1>6. db.unique /\ ~db.dup /\ ~db.strict /\ db.state # NoRow
  BY <1>2 DEF TablesAt
<1> QED
  BY <1>1, <1>3, <1>4, <1>5, <1>6, VersionsAre

\* Whatever file the process finds and wherever earlier starts were cut off, a
\* database that OpenDatabase hands out has the current tables and columns.
THEOREM SpecSchemaCurrent == Spec => []SchemaCurrent
BY SpecSchemaInv, InvSchemaCurrent, PTL

LEMMA InvHandOver == SchemaInv => HandOver
<1> SUFFICES ASSUME SchemaInv, pc = "open"
             PROVE  /\ \A i \in db.ids, e \in Events :
                          LiveMatch(i, e) => (e \in i.counted <=> e <= i.cursor)
                    /\ \A i, j \in db.ids : i # j => i.counted \cap j.counted = {}
  BY DEF HandOver
<1>1. db \in Database /\ RowsAt(34, db)
  BY OpenIsCurrent
<1>2. /\ UniqueIds(db.ids) /\ FilesTyped(db)
      /\ \A i \in db.ids : i.kind = "oauth" => Counts(i, BackfillEvents(db, i))
      /\ \A i \in db.ids : i.kind = "apikey" => Counts(i, EventsByAuthIndex(db, i))
  BY <1>1 DEF RowsAt
<1>3. \A i \in db.ids : i.kind = "oauth" \/ i.kind = "apikey"
  BY <1>1 DEF Database, IdentityRow
<1>4. ASSUME NEW i \in db.ids, NEW e \in Events, LiveMatch(i, e)
      PROVE  e \in i.counted /\ e <= i.cursor
  BY <1>2, <1>3, <1>4 DEF LiveMatch, Counts, BackfillEvents, EventsByAuthIndex
<1>5. ASSUME NEW i \in db.ids, NEW e \in i.counted
      PROVE  /\ e \in Events /\ db.ev[e].auth = i.identity
             /\ db.ev[e].type = i.kind \/ db.ev[e].type = Blank
  BY <1>2, <1>3 DEF Counts, BackfillEvents, EventsByAuthIndex
<1>6. ASSUME NEW i \in db.ids, NEW j \in db.ids, NEW e, e \in i.counted, e \in j.counted
      PROVE  i = j
  <2>1. i.identity = j.identity
    BY <1>5, <1>6
  <2>2. CASE i.kind = j.kind
    BY <1>2, <2>1, <2>2 DEF UniqueIds
  <2>3. CASE i.kind # j.kind
    <3>1. db.ev[e].type = Blank /\ e \in Events
      BY <1>5, <1>6, <2>3
    <3>2. ~(i.kind = "oauth") /\ ~(j.kind = "oauth")
      BY <1>2, <1>5, <1>6, <3>1 DEF FilesTyped
    <3> QED
      BY <1>3, <2>3, <3>2
  <2> QED
    BY <2>2, <2>3
<1> QED
  BY <1>4, <1>6

\* The totals the migrations leave can be continued by the running process:
\* nothing it would attribute is missed or counted again, and nothing counts twice.
THEOREM SpecHandOver == Spec => []HandOver
BY SpecSchemaInv, InvHandOver, PTL

-----------------------------------------------------------------------------
(* The backfill's schedule. *)

\* No version changes the hours of the events, and only the one that adds the
\* cache-read columns touches a state that is there.
ScheduleKept(d, e) ==
    /\ \A x \in Events : e.ev[x].hour = d.ev[x].hour
    /\ d.state # NoRow => e.state = d.state

LEMMA RetypedHour ==
    ASSUME NEW x \in EventRow, NEW t, NEW b
    PROVE  Retyped(x, t, b).hour = x.hour
BY DEF EventRow, Retyped

LEMMA RowVersionsKeep ==
    ASSUME NEW d \in Database
    PROVE  /\ ScheduleKept(d, backfillUsageEventRedisFields(d))
           /\ ScheduleKept(d, migrateUsageIdentitiesMetadata(d))
           /\ ScheduleKept(d, backfillUsageEventIdentityFields(d))
           /\ ScheduleKept(d, backfillUsageIdentityStats(d))
           /\ ScheduleKept(d, removePrefixUsageIdentities(d))
           /\ ScheduleKept(d, addUsageIdentityLookupKey(d))
           /\ ScheduleKept(d, migrateAIProviderIdentitiesToAuthIndex(d))
<1>0. \A e \in Events : d.ev[e] \in EventRow
  BY DEF Database
<1>2. ScheduleKept(d, backfillUsageEventRedisFields(d))
  <2> DEFINE t(e) == IF d.ev[e].type = Blank THEN d.payload[e] ELSE d.ev[e].type
             b(e) == d.ev[e].named \/ d.payload[e] # Blank
             ev == [e \in Events |-> Retyped(d.ev[e], t(e), b(e))]
  <2>1. \/ backfillUsageEventRedisFields(d) = d
        \/ backfillUsageEventRedisFields(d) = [d EXCEPT !.ev = ev]
    BY DEF backfillUsageEventRedisFields, FillRedisFields, Retyped
  <2>2. \A e \in Events : ev[e].hour = d.ev[e].hour
    BY <1>0, RetypedHour
  <2> HIDE DEF ev
  <2> QED
    BY <2>1, <2>2 DEF ScheduleKept, Database
<1>7. ScheduleKept(d, backfillUsageEventIdentityFields(d))
  <2> DEFINE ev == [e \in Events |-> Retyped(d.ev[e], IdentityType(d, e), IdentityNamed(d, e))]
  <2>1. \/ backfillUsageEventIdentityFields(d) = d
        \/ backfillUsageEventIdentityFields(d) = [d EXCEPT !.ev = ev]
    BY DEF backfillUsageEventIdentityFields, Retyped
  <2>2. \A e \in Events : ev[e].hour = d.ev[e].hour
    BY <1>0, RetypedHour
  <2> HIDE DEF ev
  <2> QED
    BY <2>1, <2>2 DEF ScheduleKept, Database
<1>6. ScheduleKept(d, migrateUsageIdentitiesMetadata(d))
  BY DEF migrateUsageIdentitiesMetadata, ScheduleKept, Database
<1>8. ScheduleKept(d, backfillUsageIdentityStats(d))
  BY DEF backfillUsageIdentityStats, ScheduleKept, Database
<1>10. ScheduleKept(d, removePrefixUsageIdentities(d))
  BY DEF removePrefixUsageIdentities, ScheduleKept, Database
<1>11. ScheduleKept(d, addUsageIdentityLookupKey(d))
  <2>1. PICK c, ids : /\ c \in Database /\ c.ev = d.ev /\ c.state = d.state
                      /\ \/ addUsageIdentityLookupKey(d) = d
                         \/ addUsageIdentityLookupKey(d) = [c EXCEPT !.ids = ids]
    <3> DEFINE c == AddColumns(d, "usage_identities", {"lookup"})
               n == normalizeUsageIdentitiesSchema(c)
    <3>1. n \in Database /\ n.ev = d.ev /\ n.state = d.state
      <4>1. c \in Database /\ c.ev = d.ev /\ c.state = d.state
        BY DEF AddColumns, WithColumns, Has, Database, AllColumns, ColumnTables
      <4> HIDE DEF c
      <4> QED
        BY <4>1 DEF normalizeUsageIdentitiesSchema, Database, AllColumns, ColumnTables
    <3>2. \/ addUsageIdentityLookupKey(d) = d
          \/ \E ids : addUsageIdentityLookupKey(d) = [n EXCEPT !.ids = ids]
      BY DEF addUsageIdentityLookupKey
    <3> HIDE DEF n
    <3> QED
      BY <3>1, <3>2
  <2> QED
    BY <2>1 DEF ScheduleKept, Database
<1>12. ScheduleKept(d, migrateAIProviderIdentitiesToAuthIndex(d))
  <2>1. \/ migrateAIProviderIdentitiesToAuthIndex(d) = d
        \/ \E a, b : migrateAIProviderIdentitiesToAuthIndex(d)
                        = [[d EXCEPT !.ids = a] EXCEPT !.ids = b]
    BY DEF migrateAIProviderIdentitiesToAuthIndex, backfillAIProviderUsageIdentityStatsByAuthIndex
  <2> QED
    BY <2>1 DEF ScheduleKept, Database
<1> QED
  BY <1>2, <1>6, <1>7, <1>8, <1>10, <1>11, <1>12

\* Columns and tables come and go without the state.
LEMMA ColumnsKeep ==
    ASSUME NEW d \in Database, NEW t \in ColumnTables, NEW cs \in SUBSET AllColumns
    PROVE  ScheduleKept(d, AddColumns(d, t, cs)) /\ ScheduleKept(d, WithColumns(d, t, cs))
BY DEF AddColumns, WithColumns, Has, ScheduleKept, Database

LEMMA DropKeeps ==
    ASSUME NEW d \in Database, NEW t \in ColumnTables, NEW c
    PROVE  ScheduleKept(d, dropColumnIfExists(d, t, c)) /\ dropColumnIfExists(d, t, c) \in Database
BY DEF dropColumnIfExists, Has, ScheduleKept, Database

LEMMA KeptTwice ==
    ASSUME NEW c, NEW d, NEW e, ScheduleKept(c, d), ScheduleKept(d, e)
    PROVE  ScheduleKept(c, e)
BY DEF ScheduleKept

LEMMA SchemaVersionsKeep ==
    ASSUME NEW d \in Database, NEW v \in (1 .. 34) \ {26}
    PROVE  ScheduleKept(d, Migrate(v, d))
<1>0. /\ "usage_events" \in ColumnTables /\ "usage_identities" \in ColumnTables
      /\ "usage_rollups_hourly" \in ColumnTables /\ "redis_usage_inboxes" \in ColumnTables
      /\ {"redis"} \in SUBSET AllColumns /\ {"lookup"} \in SUBSET AllColumns
      /\ {"accounting"} \in SUBSET AllColumns
  BY DEF ColumnTables, AllColumns
<1>1. CASE v = 1
  <2> DEFINE c == CreateTable(d, "redis_usage_inboxes")
  <2>1. c \in Database /\ c.ev = d.ev /\ c.state = d.state
    BY CreateTableIs DEF AllTables, SameRows
  <2>2. Migrate(v, d) = AddColumns(c, "usage_events", {"redis"})
    BY <1>1, MigrateIs DEF addUsageEventRedisFields
  <2> HIDE DEF c
  <2>3. ScheduleKept(c, Migrate(v, d))
    BY <1>0, <2>1, <2>2, ColumnsKeep
  <2> QED
    BY <2>1, <2>3 DEF ScheduleKept
<1>2. CASE v \in {2, 6, 7, 8, 10, 11, 12}
  BY <1>2, MigrateIs, RowVersionsKeep
<1>3. CASE v \in {3, 9, 13, 19, 20, 23, 30, 32, 33}
  <2> USE DEF ScheduleKept, Database
  <2>1. ScheduleKept(d, dropSnapshotRuns(d)) /\ ScheduleKept(d, dropLegacyMetadataTables(d))
    BY DEF dropSnapshotRuns, dropLegacyMetadataTables
  <2>2. /\ ScheduleKept(d, addUsagePerformanceIndexes(d))
        /\ ScheduleKept(d, addRedisInboxProcessableIndex(d))
    BY DEF addUsagePerformanceIndexes, addRedisInboxProcessableIndex
  <2>3. ScheduleKept(d, createKeyAliases(d)) /\ ScheduleKept(d, createQuotaObservations(d))
    BY DEF createKeyAliases, createQuotaObservations, CreateTable
  <2>4. /\ ScheduleKept(d, ensureUsageEventEventKeyUnique(d))
        /\ ScheduleKept(d, makeUsageEventCacheColumnsNullable(d))
    BY DEF ensureUsageEventEventKeyUnique, makeUsageEventCacheColumnsNullable
  <2>5. ScheduleKept(d, addUsageRollupAccountingFields(d))
    BY DEF addUsageRollupAccountingFields
  <2> QED
    BY <1>3, <2>1, <2>2, <2>3, <2>4, <2>5, MigrateIs
<1>4. CASE v = 4
  <2> DEFINE c == dropColumnIfExists(d, "usage_events", "snapshot")
  <2>1. c \in Database /\ ScheduleKept(d, c)
    BY <1>0, DropKeeps
  <2>2. Migrate(v, d) = dropColumnIfExists(c, "redis_usage_inboxes", "snapshot")
    BY <1>4, MigrateIs DEF dropLegacySnapshotRunColumns
  <2> HIDE DEF c
  <2>3. ScheduleKept(c, Migrate(v, d))
    BY <1>0, <2>1, <2>2, DropKeeps
  <2> QED
    BY <2>1, <2>3, KeptTwice
<1>5. CASE v = 5
  <2> DEFINE c == CreateTable(d, "usage_identities")
  <2>1. c \in Database /\ c.ev = d.ev /\ c.state = d.state
    BY CreateTableIs DEF AllTables, SameRows
  <2>2. Migrate(v, d) = d \/ Migrate(v, d) = WithColumns(c, "usage_identities", {"lookup"})
    BY <1>5, MigrateIs DEF createUsageIdentities
  <2> HIDE DEF c
  <2>3. Migrate(v, d) = d \/ ScheduleKept(c, Migrate(v, d))
    BY <1>0, <2>1, <2>2, ColumnsKeep
  <2> QED
    BY <2>1, <2>3 DEF ScheduleKept
<1>17. CASE v = 17
  <2>1. Migrate(v, d) = dropColumnIfExists(d, "usage_identities", "window")
    BY <1>17, MigrateIs DEF removeUsageIdentityQuotaFields
  <2> QED
    BY <1>0, <2>1, DropKeeps
<1>21. CASE v = 21
  <2> DEFINE c == CreateTable(d, "usage_rollup_backfill_states")
  <2>1. c \in Database /\ c.ev = d.ev /\ c.state = d.state
    BY CreateTableIs DEF AllTables, SameRows
  <2>2. Migrate(v, d) = seedUsageRollupBackfillState(c)
    BY <1>21, MigrateIs DEF createUsageRollupBackfillState
  <2> HIDE DEF c
  <2>3. Migrate(v, d).ev = c.ev /\ (c.state # NoRow => Migrate(v, d) = c)
    BY <2>1, <2>2, SeedIs
  <2> QED
    BY <2>1, <2>3 DEF ScheduleKept
<1>22. CASE v = 22
  <2> DEFINE c == CreateTable(d, "usage_rollups_hourly")
  <2>1. c \in Database /\ c.ev = d.ev /\ c.state = d.state
    BY CreateTableIs DEF AllTables, SameRows
  <2>2. Migrate(v, d) = WithColumns(c, "usage_rollups_hourly", {"accounting"})
    BY <1>22, MigrateIs, CurrentColumnsAre DEF createUsageRollupsHourly
  <2> HIDE DEF c
  <2>3. ScheduleKept(c, Migrate(v, d))
    BY <1>0, <2>1, <2>2, ColumnsKeep
  <2> QED
    BY <2>1, <2>3 DEF ScheduleKept
<1>14. CASE v \in {14, 15, 16, 18, 24, 25, 27, 28, 29, 31, 34}
  <2>1. \E t \in {"usage_events", "usage_identities"}, cs \in SUBSET AllColumns :
            Migrate(v, d) = AddColumns(d, t, cs)
    BY <1>14, MigrateIs
       DEF addUsageIdentityMetadataFields, addUsageEventModelAlias, updateUsageIdentityQuotaFields,
           addUsageIdentityBaseURL, addUsageEventTTFT, addUsageAttemptFields,
           addUsageIdentityDisabled, addUsageAccountingFields, addUsageIdentityAvailability,
           addUsageIdentityPassiveQuota, addUsageIdentityAuthRenewal, AllColumns
  <2> QED
    BY <1>0, <2>1, ColumnsKeep
<1> QED
  BY <1>1, <1>2, <1>3, <1>4, <1>5, <1>14, <1>17, <1>21, <1>22

\* Same hours and same state, same schedule.
LEMMA StillToBuildOfSame ==
    ASSUME NEW d, NEW e, e.state = d.state, \A x \in Events : e.ev[x].hour = d.ev[x].hour
    PROVE  StillToBuild(e) = StillToBuild(d)
<1>1. {e.ev[x].hour : x \in Events} = {d.ev[x].hour : x \in Events}
  OBVIOUS
<1> QED
  BY <1>1 DEF StillToBuild

\* The schedule for the cache-read facts keeps what was scheduled and covers
\* every fact.
LEMMA ScheduleCovers ==
    ASSUME NEW d \in Database, FactHours(d) # {}
    PROVE  /\ StillToBuild(d) \subseteq StillToBuild(ScheduleCacheRead(d))
           /\ FactHours(d) \subseteq StillToBuild(ScheduleCacheRead(d))
<1> DEFINE s == d.state
           hs == {d.ev[x].hour : x \in Events}
           exact == Min(FactHours(d)) - 1
           last == Max(FactHours(d))
           latest == Max(hs)
           e == ScheduleCacheRead(d)
           keep == IF s.covered = NoHour THEN NoHour ELSE Min({s.covered, exact})
           upto == IF s.target # NoHour THEN Max({s.target, last}) ELSE latest
<1>1. /\ FactHours(d) \subseteq hs /\ hs \in SUBSET (0 .. MaxHour) /\ MaxHour \in Nat
      /\ s.covered \in Int /\ s.target \in Int
  BY SchemaMigrationAssumption DEF FactHours, Database, EventRow, Hours, StateRow
<1>2. Min(FactHours(d)) \in Nat /\ \A h \in FactHours(d) : Min(FactHours(d)) <= h
  <2>1. FactHours(d) \in SUBSET Nat
    BY <1>1
  <2>2. Min(FactHours(d)) \in FactHours(d) /\ \A h \in FactHours(d) : Min(FactHours(d)) <= h
    BY <2>1, MinOf
  <2> QED
    BY <2>1, <2>2
<1>3. exact \in Int /\ exact >= -1 /\ \A h \in FactHours(d) : exact < h
  BY <1>1, <1>2
<1>4. last \in Nat /\ \A h \in FactHours(d) : h <= last
  <2>1. FactHours(d) \in SUBSET (0 .. MaxHour)
    BY <1>1
  <2>2. last \in FactHours(d) /\ \A h \in FactHours(d) : h <= last
    BY <1>1, <2>1, MaxOf
  <2> QED
    BY <2>1, <2>2
<1>5. latest \in Nat /\ \A h \in hs : h <= latest
  <2>1. hs # {}
    BY <1>1
  <2>2. latest \in hs /\ \A h \in hs : h <= latest
    <3> HIDE DEF hs
    <3> QED
      BY <1>1, <2>1, MaxOf
  <2> QED
    BY <1>1, <2>2
<1>6. keep \in Int /\ keep <= s.covered /\ \A h \in FactHours(d) : keep < h
  <2>1. CASE s.covered = NoHour
    BY <1>1, <2>1 DEF NoHour
  <2>2. CASE s.covered # NoHour
    <3>1. keep = Min({s.covered, exact})
      BY <2>2
    <3> HIDE DEF exact, keep, s
    <3>2. keep \in {s.covered, exact} /\ keep <= s.covered /\ keep <= exact
      BY <1>1, <1>3, <3>1, MinPair
    <3> QED
      BY <1>1, <1>3, <3>2
  <2> QED
    BY <2>1, <2>2
<1>7. /\ upto \in Nat
      /\ \A h \in hs : (s.target = NoHour \/ h <= s.target) => h <= upto
      /\ \A h \in FactHours(d) : h <= upto
  <2>1. CASE s.target = NoHour
    BY <1>1, <1>5, <2>1
  <2>2. CASE s.target # NoHour
    <3>1. upto = Max({s.target, last})
      BY <2>2
    <3> HIDE DEF last, upto, s
    <3>2. upto \in {s.target, last} /\ upto >= s.target /\ upto >= last
      BY <1>1, <1>4, <3>1, MaxPair
    <3> QED
      BY <1>1, <1>4, <2>2, <3>2
  <2> QED
    BY <2>1, <2>2
<1>8. /\ e.ev = d.ev
      /\ e.state = IF completedRollupBackfillStateCoversTarget(s)
                   THEN [status |-> "pending", target |-> last, covered |-> exact]
                   ELSE [status |-> "pending", covered |-> keep, target |-> upto]
  BY DEF ScheduleCacheRead, CoveredBefore, latestUsageEventBucket, Database
<1>9. StillToBuild(e) = {h \in hs : h > e.state.covered
                                   /\ (e.state.target = NoHour \/ h <= e.state.target)}
  <2>1. e.state.status = "pending"
    BY <1>8
  <2> QED
    BY <1>8, <2>1 DEF StillToBuild
<1>10. StillToBuild(d) = IF s.status = "completed" THEN {}
                         ELSE {h \in hs : h > s.covered /\ (s.target = NoHour \/ h <= s.target)}
  BY DEF StillToBuild
<1> HIDE DEF e, hs, keep, upto, last, exact, s
<1>11. CASE completedRollupBackfillStateCoversTarget(s)
  <2>1. e.state.covered = exact /\ e.state.target = last
    BY <1>8, <1>11
  <2>2. StillToBuild(d) = {}
    BY <1>10, <1>11 DEF completedRollupBackfillStateCoversTarget
  <2> QED
    BY <1>1, <1>3, <1>4, <1>9, <2>1, <2>2 DEF e
<1>12. CASE ~completedRollupBackfillStateCoversTarget(s)
  <2>1. e.state.covered = keep /\ e.state.target = upto
    BY <1>8, <1>12
  <2>2. StillToBuild(d) \subseteq StillToBuild(e)
    <3> SUFFICES ASSUME NEW h \in StillToBuild(d) PROVE h \in StillToBuild(e)
      OBVIOUS
    <3>1. h \in hs /\ h > s.covered /\ (s.target = NoHour \/ h <= s.target)
      BY <1>10
    <3>2. h > keep /\ h <= upto
      BY <1>1, <1>6, <1>7, <3>1
    <3> QED
      BY <1>9, <2>1, <3>1, <3>2
  <2>3. FactHours(d) \subseteq StillToBuild(e)
    BY <1>1, <1>6, <1>7, <1>9, <2>1
  <2> QED
    BY <2>2, <2>3 DEF e
<1> QED
  BY <1>11, <1>12

\* The version that adds the cache-read columns.
LEMMA CacheReadVersion ==
    ASSUME NEW d \in Database, SchemaAt(25, d)
    PROVE  /\ StillToBuild(d) \subseteq StillToBuild(Migrate(26, d))
           /\ FactHours(d) \subseteq StillToBuild(Migrate(26, d))
<1> DEFINE c == AddColumns(d, "usage_rollups_hourly", {"cacheRead"})
<1>1. /\ Has(d, "usage_rollups_hourly") /\ Has(d, "usage_rollup_backfill_states")
      /\ HasColumn(d, "usage_events", "attempt")
  BY DEF Has, HasColumn, SchemaAt, TablesAt, EventColumnsAt
<1>2. Migrate(26, d) = IF FactHours(d) # {} THEN ScheduleCacheRead(c) ELSE c
  BY <1>1, MigrateIs DEF addUsageRollupCacheReadFields
<1>3. SameRows(d, c)
  BY AddColumnsIs DEF ColumnTables, AllColumns
<1> HIDE DEF c
<1>4. c \in Database /\ c.ev = d.ev /\ c.state = d.state
  BY <1>3 DEF SameRows
<1>5. FactHours(c) = FactHours(d)
  BY <1>4 DEF FactHours
<1>6. StillToBuild(c) = StillToBuild(d)
  BY <1>4, StillToBuildOfSame
<1>7. CASE FactHours(d) # {}
  BY <1>2, <1>4, <1>5, <1>6, <1>7, ScheduleCovers
<1>8. CASE FactHours(d) = {}
  BY <1>2, <1>6, <1>8
<1> QED
  BY <1>7, <1>8

\* What one step does to the schedule.
ScheduleStep ==
    pc = "run" /\ db.state # NoRow =>
      /\ StillToBuild(db) \subseteq StillToBuild(db')
      /\ db'.applied \ db.applied = {Published + 1} => FactHours(db) \subseteq StillToBuild(db')

LEMMA ScheduleStepHolds ==
    ASSUME SchemaInv, [Next]_vars
    PROVE  ScheduleStep
<1> SUFFICES ASSUME pc = "run", db.state # NoRow
             PROVE  /\ StillToBuild(db) \subseteq StillToBuild(db')
                    /\ db'.applied \ db.applied = {Published + 1}
                          => FactHours(db) \subseteq StillToBuild(db')
  BY DEF ScheduleStep
<1>1. db' = db \/ RunMigration
  BY DEF Next, OpenDatabase, AutoMigrate, EnsureUsageRollupBackfillState, MarkAllAsApplied,
         Fail, Close, FinishInbox, vars
<1>2. CASE db' = db
  <2>1. db'.applied \ db.applied = {}
    BY <1>2
  <2> QED
    BY <1>2, <2>1
<1>3. CASE db' # db
  <2>1. /\ at \notin db.applied /\ ~Refused(at, db)
        /\ db' = [Migrate(at, db) EXCEPT !.applied = @ \cup {at}]
    BY <1>1, <1>3 DEF RunMigration
  <2>2. db \in Database /\ at \in 1 .. 34 /\ StagedAt(at - 1, db)
    BY <2>1, NextVersion
  <2>3. StagedAt(at, db') /\ db'.ev = Migrate(at, db).ev /\ db'.state = Migrate(at, db).state
    BY <2>1, <2>2, AppliedStep
  <2>4. StillToBuild(db') = StillToBuild(Migrate(at, db))
    BY <2>3, StillToBuildOfSame
  <2>5. CASE at = 26
    <3>1. SchemaAt(25, db)
      BY <2>2, <2>5 DEF StagedAt
    <3> QED
      BY <2>2, <2>4, <2>5, <3>1, CacheReadVersion
  <2>6. CASE at # 26
    <3>1. ScheduleKept(db, Migrate(at, db))
      BY <2>2, <2>6, SchemaVersionsKeep
    <3>2. StillToBuild(Migrate(at, db)) = StillToBuild(db)
      BY <3>1, StillToBuildOfSame DEF ScheduleKept
    <3>3. db'.applied \ db.applied # {26}
      <4>1. db'.applied = 1 .. at /\ db.applied = 1 .. (at - 1)
        BY <2>2, <2>3 DEF StagedAt
      <4>2. at \in db'.applied \ db.applied
        BY <2>2, <4>1
      <4> QED
        BY <2>6, <4>2
    <3> QED
      BY <2>4, <3>2, <3>3, PublishedIs
  <2> QED
    BY <2>5, <2>6
<1> QED
  BY <1>2, <1>3

\* No migration takes an hour off the backfill's schedule, and the one that adds
\* the cache-read columns puts every hour with a cache-read fact on it.
THEOREM SpecScheduleNeverShrinks == Spec => ScheduleNeverShrinks
<1>1. SchemaInv /\ [Next]_vars => [ScheduleStep]_vars
  BY ScheduleStepHolds
<1> QED
  BY <1>1, SpecSchemaInv, PTL DEF Spec, ScheduleNeverShrinks, ScheduleStep

=============================================================================

---------------------------- MODULE ModelSupport ----------------------------
(***************************************************************************)
(* One load of the registered models of selected accounts                  *)
(* (service/model_support.go, api/model_support.go, cpa/client.go): a      *)
(* bounded number of workers asks CPA for each account's auth file and its *)
(* models, then for the catalog of each channel, all under one deadline;   *)
(* the result says of a model that a single account registers it only when *)
(* every account was loaded.                                               *)
(***************************************************************************)
EXTENDS Integers, FiniteSets, FiniteSetsExt

CONSTANTS
    Accounts,      \* identities with an auth file
    Inactive,      \* those deleted, or of another kind
    Models,
    Channels,      \* catalogs upstream
    ChannelOf,     \* modelDefinitionChannel of each account's type, or NoChannel
    NoChannel,
    MaxAccounts,   \* ModelSupportMaxAccounts
    MaxConcurrency \* ModelSupportMaxConcurrency

ASSUME ModelSupportAssumption ==
    /\ Inactive \subseteq Accounts /\ IsFiniteSet(Accounts)
    /\ ChannelOf \in [Accounts -> Channels \cup {NoChannel}] /\ NoChannel \notin Channels
    /\ MaxAccounts \in Nat /\ MaxConcurrency \in Nat \ {0}

VARIABLES
    upstream,  \* the models CPA has registered for each account
    load,      \* [pc, scope, complete, claims, defined]
    task,      \* the workers: [Accounts \cup Channels -> state]
    found,     \* the result per account: [status, code, models]
    catalog,   \* per channel: "unknown", "loaded", "error"
    expired    \* the deadline of the request has passed

supportVars == <<upstream, load, task, found, catalog, expired>>

Jobs == Accounts \cup Channels
NotFound == [status |-> "failed", code |-> "none", models |-> {}]
NoLoad == [pc |-> "idle", scope |-> {}, complete |-> FALSE, claims |-> {},
           defined |-> {}]

SupportInit ==
    /\ upstream \in [Accounts -> SUBSET Models]
    /\ load = NoLoad
    /\ task = [j \in Jobs |-> "none"]
    /\ found = [a \in Accounts |-> NotFound]
    /\ catalog = [c \in Channels |-> "unknown"]
    /\ expired = FALSE

\* runBounded: a waiting worker starts when a slot of the semaphore is free.
Active == {j \in Jobs : task[j] \in {"file", "models", "catalog"}}

Slot == Cardinality(Active) < MaxConcurrency

-----------------------------------------------------------------------------
\* Load: validateModelSupportScope and loadModelSupportIdentities.  A scope that
\* is empty, too large or names an inactive account is refused as a whole.
BeginLoad(scope) ==
    /\ load.pc \in {"idle", "done", "refused"}
    /\ IF scope = {} \/ Cardinality(scope) > MaxAccounts \/ scope \cap Inactive # {}
       THEN load' = [NoLoad EXCEPT !.pc = "refused"] /\ UNCHANGED task
       ELSE /\ load' = [NoLoad EXCEPT !.pc = "accounts", !.scope = scope]
            /\ task' = [j \in Jobs |-> IF j \in scope THEN "waiting" ELSE "none"]
    /\ found' = [a \in Accounts |-> NotFound]
    /\ catalog' = [c \in Channels |-> "unknown"]
    /\ expired' = FALSE
    /\ UNCHANGED upstream

StartAccount(a) ==
    /\ load.pc = "accounts" /\ task[a] = "waiting" /\ Slot
    /\ task' = [task EXCEPT ![a] = "file"]
    /\ UNCHANGED <<upstream, load, found, catalog, expired>>

\* doJSONRequestWithBody: after the deadline every request fails; before it any
\* may fail, by the transport, the status or the decoding.
Answers(ok) == IF expired THEN {"upstream_error"} ELSE ok \cup {"upstream_error"}

\* loadAccount, after FetchAuthFileByAuthIndex.
AuthFileAnswered(a) ==
    /\ task[a] = "file"
    /\ \E r \in Answers({"ok", "auth_file_missing", "invalid_upstream_response"}) :
         IF r = "ok"
         THEN /\ task' = [task EXCEPT ![a] = "models"]
              /\ UNCHANGED found
         ELSE /\ task' = [task EXCEPT ![a] = "done"]
              /\ found' = [found EXCEPT ![a].code = r]
    /\ UNCHANGED <<upstream, load, catalog, expired>>

\* loadAccount, after FetchAuthFileModels: buildRegisteredModelSupport takes the
\* distinct models, a list with a nameless model is invalid as a whole.
ModelsAnswered(a) ==
    /\ task[a] = "models"
    /\ task' = [task EXCEPT ![a] = "done"]
    /\ \E r \in Answers({"ok", "invalid_upstream_response"}) :
         found' = [found EXCEPT ![a] = IF r = "ok"
                      THEN [status |-> "loaded", code |-> "none", models |-> upstream[a]]
                      ELSE [@ EXCEPT !.code = r]]
    /\ UNCHANGED <<upstream, load, catalog, expired>>

\* All workers are done: the catalogs of the channels of loaded accounts.
uniqueLoadedModelSupportChannels ==
    {ChannelOf[a] : a \in {x \in load.scope : found[x].status = "loaded"}} \ {NoChannel}

BeginCatalogs ==
    /\ load.pc = "accounts" /\ \A a \in load.scope : task[a] = "done"
    /\ load' = [load EXCEPT !.pc = "catalogs"]
    /\ task' = [j \in Jobs |-> IF j \in uniqueLoadedModelSupportChannels THEN "waiting" ELSE "none"]
    /\ UNCHANGED <<upstream, found, catalog, expired>>

StartCatalog(c) ==
    /\ load.pc = "catalogs" /\ task[c] = "waiting" /\ Slot
    /\ task' = [task EXCEPT ![c] = "catalog"]
    /\ UNCHANGED <<upstream, load, found, catalog, expired>>

\* A catalog counts when it is of the channel asked for and has distinct names.
CatalogAnswered(c) ==
    /\ task[c] = "catalog"
    /\ task' = [task EXCEPT ![c] = "done"]
    /\ \E r \in Answers({"ok", "invalid_upstream_response"}) :
         catalog' = [catalog EXCEPT ![c] = IF r = "ok" THEN "loaded" ELSE "error"]
    /\ UNCHANGED <<upstream, load, found, expired>>

-----------------------------------------------------------------------------
\* The accounts seen to register a model.
Observed(m) == {a \in load.scope : found[a].status = "loaded" /\ m \in found[a].models}

\* A plausible bug: the scope counts as complete when something was loaded.
ScopeCompleteSome == \E a \in load.scope : found[a].status = "loaded"

ScopeComplete == \A a \in load.scope : found[a].status = "loaded"

\* buildModelSupportCoverage: per observed model the count, and in a complete
\* scope whether it is single.
Coverage ==
    {[model |-> m, observed |-> Cardinality(Observed(m)),
      single |-> IF ScopeComplete THEN {Cardinality(Observed(m)) = 1} ELSE {}] :
        m \in {x \in Models : Observed(x) # {}}}

\* applyModelSupportDefinitions: the accounts whose models get a definition
\* status from a catalog; those of the others are unknown or in error.
Defined ==
    {a \in load.scope : found[a].status = "loaded" /\ ChannelOf[a] # NoChannel
        /\ catalog[ChannelOf[a]] = "loaded"}

FinishLoad ==
    /\ load.pc = "catalogs" /\ \A c \in Channels : task[c] \in {"none", "done"}
    /\ load' = [load EXCEPT !.pc = "done", !.complete = ScopeComplete,
                                !.claims = Coverage, !.defined = Defined]
    /\ UNCHANGED <<upstream, task, found, catalog, expired>>

\* The deadline of the request.
Deadline ==
    /\ load.pc \in {"accounts", "catalogs"} /\ ~expired
    /\ expired' = TRUE
    /\ UNCHANGED <<upstream, load, task, found, catalog>>

SupportNext ==
    \/ \E s \in SUBSET Accounts : BeginLoad(s)
    \/ \E a \in Accounts : StartAccount(a) \/ AuthFileAnswered(a) \/ ModelsAnswered(a)
    \/ BeginCatalogs
    \/ \E c \in Channels : StartCatalog(c) \/ CatalogAnswered(c)
    \/ FinishLoad \/ Deadline

SupportSpec == SupportInit /\ [][SupportNext]_supportVars

-----------------------------------------------------------------------------
(* Properties. *)

\* A result that calls a model the single account's of the scope is right about
\* what CPA has registered, however many of the requests failed or ran into the
\* deadline; and a count never exceeds the accounts that register the model.
SingleClaimSound ==
    load.pc = "done" =>
      \A x \in load.claims :
        LET true == Cardinality({a \in load.scope : x.model \in upstream[a]}) IN
        /\ x.observed <= true
        /\ TRUE \in x.single => true = 1

=============================================================================

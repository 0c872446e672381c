----------------------------- MODULE UsageListing -----------------------------
(***************************************************************************)
(* The request event log (repository/usage_events.go, api/usage_events.go):*)
(* a client pages through one selection with the window end its first      *)
(* response fixed, or exports the selection as one file.  A request counts *)
(* the selection, lists the models for the filter and loads the rows, in   *)
(* three statements; late events of the window are stored between them.    *)
(***************************************************************************)
EXTENDS ReportData

CONSTANTS
    Selections,       \* the selections asked for
    PageSize,         \* rows of a page
    ExportLimit,      \* usageEventsCSVExportLimit
    MaxListWrites     \* bound: commits during one session of a client

Selection == [start : Ticks, end : Ticks, provider : STRING, model : STRING,
              account : STRING, minLatency : Nat,
              result : {NoValue, "success", "failed"}]

ASSUME UsageListingAssumption ==
    /\ PageSize \in Nat \ {0} /\ ExportLimit \in Nat \ {0}
    /\ MaxListWrites \in Nat
    /\ Selections \subseteq Selection

VARIABLES
    list,      \* the request: its selection, its kind, page and stage
    count,     \* the count the request read
    options,   \* the models the request offers as filter values
    shown,     \* the rows of the pages received so far
    last,      \* the rows of the last response
    stored,    \* history: the selection when the first page was counted
    atRead,    \* history: the selection when the last rows were read
    inserts    \* history: the commits of the session

listVars == <<list, count, options, shown, last, stored, atRead, inserts>>

-----------------------------------------------------------------------------
(* The selection and its order.                                            *)

Wanted(value, column) == value = NoValue \/ value = column

\* applyUsageEventFilterOptionsQuery: the window and the provider alone.
InWindowOf(s, e) ==
    s.start <= e.t /\ e.t <= s.end /\ Wanted(s.provider, e.k.provider)

\* applyUsageEventListQuery
Matches(s, e) ==
    /\ InWindowOf(s, e)
    /\ Wanted(s.model, e.k.model)
    /\ Wanted(s.account, e.k.key)
    /\ e.k.latency >= s.minLatency
    /\ Wanted(s.result, IF e.k.failed THEN "failed" ELSE "success")

Selected == {e \in events : Matches(list.selection, e)}

\* ORDER BY timestamp DESC, id DESC
Precedes(a, b) == a.t > b.t \/ (a.t = b.t /\ a.id > b.id)

\* The place of a row in that order, from 1.
Position(E, e) == Cardinality({x \in E : Precedes(x, e)}) + 1

\* LIMIT size OFFSET offset
Slice(E, size, offset) ==
    {e \in E : offset < Position(E, e) /\ Position(E, e) <= offset + size}

totalPages(n) == IF n > 0 THEN (n + PageSize - 1) \div PageSize ELSE 1

-----------------------------------------------------------------------------
(* Requests.                                                               *)

Idle(s) == [selection |-> s, kind |-> "none", page |-> 1, stage |-> "idle"]

ListInit ==
    /\ list = Idle(CHOOSE s \in Selections : TRUE)
    /\ count = 0 /\ options = {} /\ shown = {} /\ last = {}
    /\ stored = {} /\ atRead = {} /\ inserts = 0

\* parseUsageEventListFilterQuery: the first page of a selection.
ListUsageEvents(s) ==
    /\ list.stage = "idle"
    /\ list' = [selection |-> s, kind |-> "page", page |-> 1, stage |-> "count"]
    /\ inserts' = 0
    /\ UNCHANGED <<count, options, shown, last, stored, atRead>>

\* parseUsageEventExportFilterQuery: an export takes no page, and asks for
\* one row more than it may hold.
ExportUsageEvents(s) ==
    /\ list.stage = "idle"
    /\ list' = [selection |-> s, kind |-> "export", page |-> 1, stage |-> "count"]
    /\ inserts' = 0
    /\ UNCHANGED <<count, options, shown, last, stored, atRead>>

exportPageSizeAtLimit == ExportLimit

exportPageSize == ExportLimit + 1

Count ==
    /\ list.stage = "count"
    /\ count' = Cardinality(Selected)
    /\ stored' = IF list.page = 1 THEN Selected ELSE stored
    /\ list' = [list EXCEPT !.stage = "options"]
    /\ UNCHANGED <<options, shown, last, atRead, inserts>>

listUsageEventModelFilterOptions ==
    /\ list.stage = "options"
    /\ options' = {e.k.model : e \in {x \in events : InWindowOf(list.selection, x)}}
                      \ {NoValue}
    /\ list' = [list EXCEPT !.stage = "rows"]
    /\ UNCHANGED <<count, shown, last, stored, atRead, inserts>>

OffsetZeroBased(page) == page * PageSize

OffsetOf(page) == (page - 1) * PageSize

LoadPage ==
    /\ list.stage = "rows" /\ list.kind = "page"
    /\ LET rows == Slice(Selected, PageSize, OffsetOf(list.page))
       IN  /\ last' = rows
           /\ shown' = shown \cup rows
    /\ atRead' = Selected
    /\ list' = [list EXCEPT !.stage = "shown"]
    /\ UNCHANGED <<count, options, stored, inserts>>

\* The client asks for the next page as long as the response names one.
NextPage ==
    /\ list.stage = "shown"
    /\ list.page < totalPages(count)
    /\ list' = [list EXCEPT !.page = @ + 1, !.stage = "count"]
    /\ UNCHANGED <<count, options, shown, last, stored, atRead, inserts>>

\* The export is refused when its count or its rows exceed the limit.
LoadExport ==
    /\ list.stage = "rows" /\ list.kind = "export"
    /\ LET rows == Slice(Selected, exportPageSize, 0)
           refused == count > ExportLimit \/ Cardinality(rows) > ExportLimit
       IN  /\ last' = IF refused THEN {} ELSE rows
           /\ list' = [list EXCEPT !.stage =
                          IF refused THEN "refused" ELSE "exported"]
    /\ atRead' = Selected
    /\ UNCHANGED <<count, options, shown, stored, inserts>>

\* The client leaves, or a statement fails.
EndSession ==
    /\ list.stage # "idle"
    /\ list' = Idle(list.selection)
    /\ count' = 0 /\ options' = {} /\ shown' = {} /\ last' = {}
    /\ stored' = {} /\ atRead' = {} /\ inserts' = 0

ListNext ==
    \/ /\ \/ \E s \in Selections : ListUsageEvents(s)
          \/ \E s \in Selections : ExportUsageEvents(s)
          \/ Count
          \/ listUsageEventModelFilterOptions
          \/ LoadPage
          \/ NextPage
          \/ LoadExport
          \/ EndSession
       /\ UNCHANGED dataVars
    \/ /\ IntakeNext
       /\ list.stage # "idle" => inserts < MaxListWrites
       /\ inserts' = IF list.stage = "idle" THEN 0 ELSE inserts + 1
       /\ UNCHANGED <<list, count, options, shown, last, stored, atRead>>

ListSpec == DataInit /\ ListInit /\ [][ListNext]_<<dataVars, listVars>>

-----------------------------------------------------------------------------
(* Properties.                                                             *)

\* Paging skips nothing: an event of the selection that was stored when the
\* first page was counted and that no page has shown yet is older than every
\* row of the last page, however many late events were stored in between.
\* It may be on a later page, or past the last page the count allowed, never
\* between the pages (ListUsageEventsWithFilter).
PagesSkipNothing ==
    list.stage = "shown" =>
        \A e \in stored \ shown, r \in last : Precedes(r, e)

\* An export that is not refused is the complete selection at the moment its
\* rows were read, although the limit was checked on a count read earlier
\* (registerUsageEventsRoutes, /usage/events/export).
ExportComplete ==
    list.stage = "exported" =>
        /\ last = atRead
        /\ Cardinality(last) <= ExportLimit
        /\ stored \subseteq last
=============================================================================

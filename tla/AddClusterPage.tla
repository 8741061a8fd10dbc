--------------------------- MODULE AddClusterPage ---------------------------
(***************************************************************************)
(* The add-cluster page, src/console/ui/src/pages/add-cluster/ui/index.tsx:*)
(* four queries load the deployments, environments, PostgreSQL versions    *)
(* and the default cluster name; an effect on their data resets the form   *)
(* fields taken from them; a spinner hides the form while three of the     *)
(* queries fetch or the reset is in flight; the user edits what is shown.  *)
(*                                                                         *)
(* A query's data is NoData or a record [ver, empty]: ver counts the data  *)
(* objects the query has produced (a new object is a new dependency of the *)
(* effect; a refetch with equal content keeps the object), empty says the  *)
(* list is empty.  A form field holds DefaultValue, the ver of the data it  *)
(* was reset from, or UserValue once the user edited it.                   *)
(***************************************************************************)
EXTENDS Integers, FiniteSets

CONSTANTS
    NoData,             \* a query that has not produced data
    DefaultValue,       \* a field holding its CLUSTER_FORM_DEFAULT_VALUES value
    UserValue,          \* a field holding what the user entered
    EmptyListsPossible, \* whether the server may answer with an empty list
    MaxRefetches        \* the refetches a behaviour may see

ASSUME EmptyListsPossible \in BOOLEAN /\ MaxRefetches \in Nat

Queries == {"deployments", "environments", "postgresVersions", "clusterName"}
\* The queries answering a list; clusterName answers an object.
ListQueries == Queries \ {"clusterName"}
\* The form field each query's data is reset into.
SourceOf == [provider |-> "deployments", environment |-> "environments",
             postgresVersion |-> "postgresVersions", clusterName |-> "clusterName"]
Fields == DOMAIN SourceOf

MaxVer == 1 + MaxRefetches

VARIABLES
    status,         \* per query: "fetching" or "done" (isFetching)
    data,           \* per query: NoData or [ver, empty]
    lastDeps,       \* the effect's dependencies when it last ran
    form,           \* per field: DefaultValue, a data ver, or UserValue
    isResetting,    \* the isResetting state
    pendingThens,   \* resetForm().then(...) callbacks not yet run
    refetches       \* refetches so far

vars == <<status, data, lastDeps, form, isResetting, pendingThens, refetches>>

-----------------------------------------------------------------------------
\* Mutant: clusterName.data left out of the dependency list.
EffectDepsWithoutClusterName == ListQueries

\* [deployments.data, postgresVersions.data, environments.data, clusterName.data]
EffectDeps == Queries

Deps(d) == [q \in EffectDeps |-> d[q]]

\* deployments.data?.data?.length && ... && clusterName.data
Ready(d) == /\ \A q \in ListQueries : d[q] # NoData /\ ~d[q].empty
            /\ d["clusterName"] # NoData

\* isLoading || isResetting || deployments.isFetching || ... (line 111)
Visible == ~isResetting /\ \A q \in ListQueries : status[q] = "done"

\* React flushes a pending passive effect before it handles the next input.
EffectPending == Deps(data) # lastDeps

\* The answers a query can give: a list query may answer an empty list.
Empties(q) == IF q \in ListQueries /\ EmptyListsPossible THEN BOOLEAN ELSE {FALSE}

-----------------------------------------------------------------------------
Init ==
    /\ status = [q \in Queries |-> "fetching"]
    /\ data = [q \in Queries |-> NoData]
    \* the effect ran on mount, found no data and did nothing
    /\ lastDeps = Deps([q \in Queries |-> NoData])
    /\ form = [f \in Fields |-> DefaultValue]
    /\ isResetting = FALSE
    /\ pendingThens = 0
    /\ refetches = 0

\* The server answers query q: new content is a new data object; equal
\* content keeps the object (structural sharing).
QueryResolves(q) ==
    /\ status[q] = "fetching"
    /\ status' = [status EXCEPT ![q] = "done"]
    /\ \/ \E e \in Empties(q) :
             data' = [data EXCEPT ![q] = [ver |-> IF @ = NoData THEN 1 ELSE @.ver + 1,
                                          empty |-> e]]
       \/ data[q] # NoData /\ UNCHANGED data
    /\ UNCHANGED <<lastDeps, form, isResetting, pendingThens, refetches>>

\* The cache refetches query q; its data stays until the answer.
Refetch(q) ==
    /\ status[q] = "done"
    /\ refetches < MaxRefetches
    /\ status' = [status EXCEPT ![q] = "fetching"]
    /\ refetches' = refetches + 1
    /\ UNCHANGED <<data, lastDeps, form, isResetting, pendingThens>>

\* Mutant: the guard dropped; the reset writes whatever the queries hold.
ResetWithoutGuard ==
    /\ form' = [f \in Fields |-> IF data[SourceOf[f]] = NoData THEN NoData
                                  ELSE data[SourceOf[f]].ver]
    /\ isResetting' = TRUE
    /\ pendingThens' = pendingThens + 1

\* setIsResetting(true); methods.reset(values => ({...values, ...fields}));
\* the .then(() => setIsResetting(false)) callback is queued.
ResetForm ==
    /\ Ready(data)
    /\ form' = [f \in Fields |-> data[SourceOf[f]].ver]
    /\ isResetting' = TRUE
    /\ pendingThens' = pendingThens + 1

\* useEffect(..., deps): runs after a render in which a dependency changed.
Effect ==
    /\ EffectPending
    /\ lastDeps' = Deps(data)
    /\ \/ ResetForm
       \/ ~Ready(data) /\ UNCHANGED <<form, isResetting, pendingThens>>
    /\ UNCHANGED <<status, data, refetches>>

\* The microtask of resetForm().then(() => setIsResetting(false)).
ResetSettled ==
    /\ pendingThens > 0
    /\ pendingThens' = pendingThens - 1
    /\ isResetting' = FALSE
    /\ UNCHANGED <<status, data, lastDeps, form, refetches>>

\* The user changes a field of the form on screen.
UserEdit(f) ==
    /\ Visible
    /\ ~EffectPending
    /\ form[f] # UserValue
    /\ form' = [form EXCEPT ![f] = UserValue]
    /\ UNCHANGED <<status, data, lastDeps, isResetting, pendingThens, refetches>>

Next ==
    \/ \E q \in Queries : QueryResolves(q) \/ Refetch(q)
    \/ Effect
    \/ ResetSettled
    \/ \E f \in Fields : UserEdit(f)

\* The server answers every query, React runs every pending effect and the
\* microtask queue drains; the user and the cache owe nothing.
Fairness ==
    /\ \A q \in Queries : WF_vars(QueryResolves(q))
    /\ WF_vars(Effect)
    /\ WF_vars(ResetSettled)

Spec == Init /\ [][Next]_vars /\ Fairness

-----------------------------------------------------------------------------
DataValue == {NoData} \cup [ver : 1..MaxVer, empty : BOOLEAN]

TypeOK ==
    /\ status \in [Queries -> {"fetching", "done"}]
    /\ data \in [Queries -> DataValue]
    /\ form \in [Fields -> {DefaultValue, UserValue} \cup 1..MaxVer]
    /\ isResetting \in BOOLEAN
    /\ pendingThens \in 0..MaxVer * Cardinality(Queries)
    /\ refetches \in 0..MaxRefetches

\* Every field holds the user's edit or the latest data of its query.
FormCurrent ==
    \A f \in Fields : form[f] = UserValue \/ (data[SourceOf[f]] # NoData
                                           /\ form[f] = data[SourceOf[f]].ver)

\* Once the queries are answered, the page ends up showing the form, every
\* field reset from the latest data of its query unless the user edited it
\* (the effect of lines 61-92 with the spinner of line 111).
EventuallyInitialised == <>[](Visible /\ FormCurrent)

\* A field the user edited is never overwritten (methods.reset of the
\* effect keeps ...values only for the fields it does not list).
NoUserEditOverwritten ==
    [][\A f \in Fields : form[f] = UserValue => form'[f] = UserValue]_vars

=============================================================================

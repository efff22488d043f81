------------------------------- MODULE Mutate -------------------------------
(* The rule-driven mutation engine (01-context/src/mutate.py) with the        *)
(* retention prune (01-context/src/retention_sweep.py), one action per        *)
(* transaction.  A call that raises rolls its transaction back and is a       *)
(* stuttering step, so only the calls that commit are actions.                *)
(*                                                                            *)
(* The clock `now` of a call is an argument the caller read earlier: it never *)
(* runs ahead of the wall clock, but the calls of several callers may commit  *)
(* in an order their `now`s do not follow.                                    *)
(*                                                                            *)
(* A node is represented by the namespace that owns it.  Its content fields   *)
(* (long_context, content_rev, dirty, the embedding) are the state of module  *)
(* Freshness; labels, episodes and supersede_kind are left out.               *)
EXTENDS Naturals, Relations

CONSTANTS
    Keys,        \* keys of :Entity nodes
    Namespaces,  \* namespace tags of nodes and edges
    Facts,       \* the edges callers speak of
    Times,       \* clock readings
    SENTINEL,    \* 9999-12-31, the invalid_at of a current edge
    NULL         \* an absent property

ASSUME FactsAssumption ==
    Facts \subseteq [s : Keys, rel : RelNames, o : Keys, ns : Namespaces]

ASSUME ClockAssumption ==
    /\ Times \subseteq Nat
    /\ SENTINEL \in Nat
    /\ \A t \in Times : t < SENTINEL
    /\ NULL \notin Nat

ASSUME NamespaceAssumption == NULL \notin Namespaces

VARIABLES
    owner,   \* owner[k]: the namespace of the node with key k, NULL when there is none
    edges,   \* edges[e]: the RELATES_TO edge of fact e, or NoEdge
    wall     \* the database's datetime()

vars == <<owner, edges, wall>>

-----------------------------------------------------------------------------
(* Edges                                                                      *)

NoEdge == [present |-> FALSE, valid_at |-> 0, invalid_at |-> 0, expired_at |-> NULL]

Edge == [present : {TRUE}, valid_at : Times, invalid_at : Times \cup {SENTINEL},
         expired_at : Times \cup {NULL}]

\* WHERE r.invalid_at > datetime($now)
Current(edge, now) == edge.invalid_at > now

\* The validity window, as stamp.CARD_Q and current_targets read it.
ValidAt(edge, t) == edge.valid_at <= t /\ t < edge.invalid_at

\* The edges of one subject, relation and namespace.
Slot(e) == {f \in Facts : f.s = e.s /\ f.rel = e.rel /\ f.ns = e.ns}

\* Mutant: no WHERE, so an edge that ended already ends again.
CloseAny(edge, now) == [edge EXCEPT !.invalid_at = now, !.expired_at = now]

\* Mutant: expired_at is forgotten.
CloseSilently(edge, now) ==
    IF Current(edge, now) THEN [edge EXCEPT !.invalid_at = now] ELSE edge

\* SET r.invalid_at = now, r.expired_at = now WHERE r.invalid_at > now
Close(edge, now) ==
    IF Current(edge, now)
    THEN [edge EXCEPT !.invalid_at = now, !.expired_at = now]
    ELSE edge

\* Mutant: a resurrected edge keeps the start of its former window.
MergeKeepingStart(edge, now) ==
    [present |-> TRUE,
     valid_at |-> IF edge.present THEN edge.valid_at ELSE now,
     invalid_at |-> SENTINEL,
     expired_at |-> NULL]

\* Mutant: the start of an edge that is current is refreshed too.
MergeRefreshing(edge, now) ==
    [present |-> TRUE, valid_at |-> now, invalid_at |-> SENTINEL, expired_at |-> NULL]

\* MERGE: create the edge, keep a current one's valid_at, resurrect a historical one.
Merge(edge, now) ==
    [present |-> TRUE,
     valid_at |-> IF Current(edge, now) THEN edge.valid_at ELSE now,
     invalid_at |-> SENTINEL,
     expired_at |-> NULL]

\* A current path of at least one edge leads from a to b in the graph of rel and ns.
Path(rel, ns, now, a, b) ==
    LET Targets(k) == {f.o : f \in {g \in Facts : /\ g.rel = rel /\ g.ns = ns /\ g.s = k
                                                  /\ Current(edges[g], now)}}
    IN  \A S \in SUBSET Keys :
            (Targets(a) \subseteq S /\ \A k \in S : Targets(k) \subseteq S) => b \in S

-----------------------------------------------------------------------------
(* Transactions                                                               *)

Init ==
    /\ owner = [k \in Keys |-> NULL]
    /\ edges = [e \in Facts |-> NoEdge]
    /\ wall \in Times

\* resolve_entity: MERGE by key; a node another namespace owns raises.
Resolve(k, ns) ==
    /\ owner[k] \in {NULL, ns}
    /\ owner' = [owner EXCEPT ![k] = ns]
    /\ UNCHANGED <<edges, wall>>

\* Mutant: the incumbents are not closed.
AddedBeside(e, now) ==
    [f \in Facts |->
        IF f = e /\ owner[e.s] # NULL /\ owner[e.o] # NULL
        THEN Merge(edges[f], now) ELSE edges[f]]

\* What apply_edge(op="add") makes of the edges: the incumbents of an evicting
\* relation are closed whether or not the MERGE then finds the object.
Added(e, now) ==
    [f \in Facts |->
        IF f \notin Slot(e) THEN edges[f]
        ELSE IF f.o = e.o
             THEN IF owner[e.s] # NULL /\ owner[e.o] # NULL
                  THEN Merge(edges[f], now) ELSE edges[f]
             ELSE IF evicts(e.rel) THEN Close(edges[f], now) ELSE edges[f]]

\* Mutant: the cycle guard looks for a path in the direction of the edge.
AddEdgeForward(e, now) ==
    /\ guarded(e.rel) => ~Path(e.rel, e.ns, now, e.s, e.o)
    /\ edges' = Added(e, now)
    /\ UNCHANGED <<owner, wall>>

\* apply_edge(op="add"): cycle guard, collision check, eviction, MERGE.
AddEdge(e, now) ==
    /\ guarded(e.rel) => ~Path(e.rel, e.ns, now, e.o, e.s)
    /\ rejects(e.rel) => \A f \in Slot(e) : f.o # e.o => ~Current(edges[f], now)
    /\ edges' = Added(e, now)
    /\ UNCHANGED <<owner, wall>>

\* apply_edge(op="remove"): refused when the relation's verbs have no remove.
RemoveEdge(e, now) ==
    /\ "remove" \in RULES[e.rel].verbs
    /\ edges' = [edges EXCEPT ![e] = Close(edges[e], now)]
    /\ UNCHANGED <<owner, wall>>

\* apply_set_snapshot: add what is desired and not current, remove what is
\* current and not desired, in one transaction.
SetSnapshot(e, desired, now) ==
    /\ RULES[e.rel].set_snapshot
    /\ owner[e.s] # NULL
    /\ edges' = [f \in Facts |->
           IF f \notin Slot(e) THEN edges[f]
           ELSE IF f.o \notin desired THEN Close(edges[f], now)
           ELSE IF Current(edges[f], now) \/ owner[f.o] = NULL THEN edges[f]
           ELSE Merge(edges[f], now)]
    /\ UNCHANGED <<owner, wall>>

\* retention_sweep.prune: delete what ended before the cutoff, of one namespace
\* or (NULL) of all.
Prune(before, ns) ==
    /\ edges' = [f \in Facts |->
           IF /\ edges[f].invalid_at <= wall /\ edges[f].invalid_at < before
              /\ ns \in {NULL, f.ns}
           THEN NoEdge ELSE edges[f]]
    /\ UNCHANGED <<owner, wall>>

Tick ==
    /\ wall' \in {t \in Times : t > wall}
    /\ UNCHANGED <<owner, edges>>

\* The clock readings a caller may hold: none from the future.
Readings == {t \in Times : t <= wall}

Next ==
    \/ \E k \in Keys, ns \in Namespaces : Resolve(k, ns)
    \/ \E e \in Facts, now \in Readings : AddEdge(e, now)
    \/ \E e \in Facts, now \in Readings : RemoveEdge(e, now)
    \/ \E e \in Facts, desired \in SUBSET Keys, now \in Readings :
           SetSnapshot(e, desired, now)
    \/ \E before \in Times, ns \in Namespaces \cup {NULL} : Prune(before, ns)
    \/ Tick

Spec == Init /\ [][Next]_vars

-----------------------------------------------------------------------------
(* Properties                                                                 *)

\* The state is well typed: owners are namespaces, every edge is absent or
\* carries a window of clock readings (mutate.py's node and edge fields).
TypeOK ==
    /\ owner \in [Keys -> Namespaces \cup {NULL}]
    /\ edges \in [Facts -> Edge \cup {NoEdge}]
    /\ wall \in Times

\* At every instant a functional relation of a subject points to at most one
\* object, now or in the past: the windows that evict, reject and resurrect
\* leave never overlap, in whatever order the callers' clocks arrive
\* (mutate.py apply_edge; read back by stamp.CARD_Q).
AsOfUnique ==
    \A e \in Facts : functional(e.rel) =>
        \A f \in Slot(e), t \in Times :
            ValidAt(edges[e], t) /\ ValidAt(edges[f], t) => e.o = f.o

\* invariant_check.VIOLATION_Q finds nothing: no functional relation of a
\* subject has two objects that are current on the wall clock.
SingleCurrent ==
    \A e \in Facts : functional(e.rel) =>
        \A f \in Slot(e) :
            Current(edges[e], wall) /\ Current(edges[f], wall) => e.o = f.o

\* The SENTINEL contract (mutate.py header): an edge is current on the wall
\* clock exactly when it carries SENTINEL, and expired_at is absent on exactly
\* those edges.
SentinelContract ==
    \A e \in Facts : edges[e].present =>
        /\ Current(edges[e], wall) <=> edges[e].invalid_at = SENTINEL
        /\ edges[e].expired_at = NULL <=> edges[e].invalid_at = SENTINEL

\* The graph of a graph_invariant relation has no cycle through two or more
\* nodes: no add closes one, whatever clock its guard reads
\* (mutate.py cycle guard).
AcyclicButSelfLoops ==
    \A e \in Facts :
        /\ guarded(e.rel) /\ Current(edges[e], wall) /\ e.s # e.o
        => ~Path(e.rel, e.ns, wall, e.o, e.s)

\* relations.yaml: "dependency graph must stay acyclic".
Acyclic ==
    \A e \in Facts :
        guarded(e.rel) => ~Path(e.rel, e.ns, wall, e.s, e.s)

\* Who reads only what is current sees a set that each transaction changes at
\* once, by the rules of the relation, and that time and the prune leave alone:
\* the clocks of the callers, however old, do not show (mutate.py apply_edge and
\* apply_set_snapshot, retention_sweep.py prune; read by current_targets).
CurrentFacts == {e \in Facts : Current(edges[e], wall)}
Store == INSTANCE CurrentEdges WITH current <- CurrentFacts
CurrentPromise == Store!Spec

\* The step asserts e again after it had ended.
Reasserts(e) ==
    edges[e].present /\ edges[e].invalid_at # SENTINEL /\ edges'[e].invalid_at = SENTINEL

\* Nothing but asserting a fact again that had ended rewrites the past: any other
\* edge that a step leaves was valid before its end exactly when it was valid
\* before the step, and a new one has no past, with clocks in whatever order
\* (mutate.py: invalidate, do not delete; only the prune forgets whole edges).
PastKept ==
    [][\A e \in Facts : edges'[e].present /\ ~Reasserts(e) =>
          \A t \in Times :
              /\ t < edges'[e].invalid_at
              /\ ~edges[e].present => t < edges'[e].valid_at
              => (ValidAt(edges'[e], t) <=> ValidAt(edges[e], t))]_vars

\* An add leaves every answer about the time before its clock as it was.
\* ARCHITECTURE.md: "a new edge is added alongside. Nothing is destroyed, so
\* history is replayable" (mutate.py apply_edge, the MERGE).
HistoryReplayable ==
    [][\A e \in Facts, now \in Readings : AddEdge(e, now) =>
          \A f \in Facts, t \in Times :
              t < now => (ValidAt(edges'[f], t) <=> ValidAt(edges[f], t))]_vars

=============================================================================

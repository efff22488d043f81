---------------------------- MODULE CurrentEdges ----------------------------
(* What the write engine promises (01-context/src/mutate.py: "invalidate,    *)
(* don't delete" and the rule contract it enforces) to whoever asks only what *)
(* is true now: the current edges are one set, every transaction changes it   *)
(* at once and by the rules of the relation, and neither the time that passes *)
(* nor the pruning of the past changes it.                                    *)
EXTENDS Relations

CONSTANTS
    Keys,        \* keys of :Entity nodes
    Namespaces,  \* namespace tags of nodes and edges
    Facts,       \* the edges callers speak of
    NULL         \* an absent node

VARIABLES
    owner,       \* owner[k]: the namespace of the node with key k, NULL when there is none
    current      \* the facts with a current edge

Slot(e) == {f \in Facts : f.s = e.s /\ f.rel = e.rel /\ f.ns = e.ns}

\* The current edges that give the subject of e another object.
Rivals(e) == {f \in Slot(e) \cap current : f.o # e.o}

\* A path of current edges of rel and ns leads from a to b.
Leads(rel, ns, a, b) ==
    LET Targets(k) == {f.o : f \in {g \in current : g.rel = rel /\ g.ns = ns /\ g.s = k}}
    IN  \A S \in SUBSET Keys :
            (Targets(a) \subseteq S /\ \A k \in S : Targets(k) \subseteq S) => b \in S

\* resolve_entity never takes a node from its owner.
Resolve(k, ns) ==
    /\ owner[k] \in {NULL, ns}
    /\ owner' = [owner EXCEPT ![k] = ns]
    /\ UNCHANGED current

\* A cycle and a second object of a rejecting relation are refused; the rivals
\* under an evicting one end, and e is current if its nodes exist.
Add(e) ==
    /\ guarded(e.rel) => ~Leads(e.rel, e.ns, e.o, e.s)
    /\ rejects(e.rel) => Rivals(e) = {}
    /\ current' = (IF evicts(e.rel) THEN current \ Rivals(e) ELSE current)
                  \cup IF owner[e.s] # NULL /\ owner[e.o] # NULL THEN {e} ELSE {}
    /\ UNCHANGED owner

Remove(e) ==
    /\ "remove" \in RULES[e.rel].verbs
    /\ current' = current \ {e}
    /\ UNCHANGED owner

\* Nothing but what is desired stays, and all of that does; which of the rest
\* is added is open, as a caller with an old clock takes an edge that ended
\* since then for a current one and does not add it.
SetSnapshot(e, desired) ==
    LET kept == {f \in current : f \in Slot(e) => f.o \in desired}
        missing == {f \in Slot(e) : f.o \in desired /\ owner[f.o] # NULL}
    IN  /\ RULES[e.rel].set_snapshot
        /\ owner[e.s] # NULL
        /\ kept \subseteq current' /\ current' \subseteq kept \cup missing
        /\ UNCHANGED owner

Init ==
    /\ owner = [k \in Keys |-> NULL]
    /\ current = {}

Next ==
    \/ \E k \in Keys, ns \in Namespaces : Resolve(k, ns)
    \/ \E e \in Facts : Add(e) \/ Remove(e)
    \/ \E e \in Facts, desired \in SUBSET Keys : SetSnapshot(e, desired)

Spec == Init /\ [][Next]_<<owner, current>>

=============================================================================

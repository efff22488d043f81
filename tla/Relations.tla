----------------------------- MODULE Relations -----------------------------
(* The rule contract of 01-context/schema/relations.yaml, as mutate.py       *)
(* loads it into RULES.  Each relation carries the axes the engine reads:    *)
(* arity, overflow_policy, verbs, temporal, contradiction.resolution and     *)
(* set_snapshot.                                                             *)

Rule(arity, overflow, verbs, temporal, resolution, snapshot) ==
    [arity |-> arity, overflow_policy |-> overflow, verbs |-> verbs,
     temporal |-> temporal, resolution |-> resolution,
     set_snapshot |-> snapshot]

AddOnly == {"add"}
AddRemove == {"add", "remove"}

RULES ==
  [ ASSIGNED_TO  |-> Rule("one", "evict",  AddRemove, "bi-temporal", "structural", FALSE),
    HAS_STATUS   |-> Rule("one", "evict",  AddRemove, "bi-temporal", "structural", FALSE),
    HAS_PRIORITY |-> Rule("one", "evict",  AddRemove, "bi-temporal", "structural", FALSE),
    BLOCKS       |-> Rule("inf", "reject", AddRemove, "bi-temporal", "structural", FALSE),
    DEPENDS_ON   |-> Rule("inf", "reject", AddRemove, "bi-temporal", "graph_invariant", FALSE),
    PART_OF      |-> Rule("one", "reject", AddRemove, "static", "structural", FALSE),
    OWNS         |-> Rule("inf", "reject", AddRemove, "bi-temporal", "structural", TRUE),
    IMPLEMENTS   |-> Rule("inf", "reject", AddOnly, "static", "structural", FALSE),
    AUTHORED     |-> Rule("one", "reject", AddOnly, "static", "structural", FALSE),
    DECIDED      |-> Rule("inf", "reject", AddOnly, "static", "structural", FALSE),
    VOTED_ON     |-> Rule("inf", "reject", AddOnly, "static", "structural", FALSE),
    SUPERSEDES   |-> Rule("inf", "reject", AddOnly, "static", "graph_invariant", FALSE),
    IN_SUBDOMAIN |-> Rule("one", "evict",  AddRemove, "static", "structural", FALSE),
    IN_DOMAIN    |-> Rule("one", "evict",  AddRemove, "static", "structural", FALSE),
    MENTIONS     |-> Rule("inf", "coexist", AddOnly, "static", "structural", FALSE),
    RELATED_TO   |-> Rule("inf", "reject", AddRemove, "bi-temporal", "semantic", FALSE) ]

RelNames == DOMAIN RULES

functional(rel) == RULES[rel].arity = "one"
evicts(rel) == RULES[rel].overflow_policy = "evict"
rejects(rel) == RULES[rel].overflow_policy = "reject" /\ functional(rel)
guarded(rel) == RULES[rel].resolution = "graph_invariant"

=============================================================================

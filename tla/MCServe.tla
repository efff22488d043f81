------------------------------ MODULE MCServe -------------------------------
(* Small instances of Serve for TLC.  A scene is the graph it starts from,    *)
(* the queries that are asked of it and what may change under them.           *)
EXTENDS Serve, TLC

CONSTANTS eng, gov, serving

\* Keys: two tickets, a project, a document and a note of finance.
acme == 1
memo == 2
proj == 3
spec == 4
note == 5

MCNear == acme :> 4 @@ memo :> 1 @@ proj :> 2 @@ spec :> 3 @@ note :> 0

\* Acme's prose names the memo, which in some scenes is not engineering's.
MCSays == acme :> {memo} @@ memo :> {} @@ proj :> {} @@ spec :> {} @@ note :> {}

MCScope == eng :> {"engineering", "shared"} @@ gov :> {"engineering", "finance", "shared"}

Of(ns, dirty, vec) == [ns |-> ns, dirty |-> dirty, vec |-> vec]

Fact(s, r, o, n) == [subj |-> s, rel |-> r, obj |-> o, ns |-> n]

Routine == [category |-> "routine", reversible |-> TRUE]
Risky == [category |-> "security", reversible |-> FALSE]

Q(role, asked, pattern, action, deep, rerank) ==
    [role |-> role, text |-> asked # {}, asked |-> asked, pattern |-> pattern,
     action |-> action, deep_serve |-> deep, rerank |-> rerank]

PartOf == [rel |-> "PART_OF", obj |-> proj]

Scene(start, facts, queries, changes) ==
    [node |-> start, edges |-> facts, queries |-> queries, changes |-> changes]

\* What may change: owners, dirty flags and vectors of which keys, which
\* edges come and go, and the lease.
Changes(own, dirty, vec, facts, leases) ==
    [own |-> own, dirty |-> dirty, vec |-> vec, facts |-> facts, leases |-> leases]

\* A graph that stands still, every way to ask.
Still ==
    Scene(acme :> Of("engineering", FALSE, TRUE) @@ memo :> Of("engineering", TRUE, TRUE)
            @@ proj :> Of("shared", FALSE, TRUE) @@ spec :> Of("finance", FALSE, TRUE) @@ note :> Absent,
          {Fact(acme, "PART_OF", proj, "engineering"), Fact(acme, "BLOCKS", memo, "engineering"),
           Fact(memo, "PART_OF", proj, "engineering"), Fact(memo, "BLOCKS", spec, "engineering")},
          {Q(r, a, pat, Routine, FALSE, rr) :
             r \in {eng, gov}, a \in {{}, {acme}, {proj, memo}}, pat \in {NULL, PartOf}, rr \in BOOLEAN},
          Changes({}, {}, {}, {}, FALSE))

\* The index grows under a call; the nearest vectors are out of scope.
Growing ==
    Scene(acme :> Of("engineering", FALSE, TRUE) @@ memo :> Of("finance", FALSE, TRUE)
            @@ proj :> Of("finance", FALSE, FALSE) @@ spec :> Of("finance", FALSE, TRUE)
            @@ note :> Of("finance", FALSE, TRUE),
          {},
          {Q(eng, a, NULL, Routine, FALSE, FALSE) : a \in {{acme}, {spec}}},
          Changes({}, {}, {acme, proj}, {}, FALSE))

\* Nodes change hands under a call that is deepened; one of them is named by a
\* card that is not the primary's.
Moving ==
    Scene(acme :> Of("engineering", FALSE, TRUE) @@ memo :> Of("engineering", FALSE, FALSE)
            @@ proj :> Of("shared", FALSE, FALSE) @@ spec :> Of("shared", FALSE, FALSE) @@ note :> Absent,
          {Fact(acme, "BLOCKS", memo, "engineering")},
          {Q(eng, {acme, memo}, NULL, Routine, TRUE, FALSE), Q(eng, {proj}, NULL, Routine, FALSE, FALSE)},
          Changes({memo, spec}, {spec}, {}, {}, FALSE))

\* Facts come and go, and a role that holds a lease acts on them.
Acting ==
    Scene(acme :> Of("shared", FALSE, TRUE) @@ memo :> Of("engineering", FALSE, FALSE)
            @@ proj :> Of("shared", FALSE, FALSE) @@ spec :> Of("shared", FALSE, FALSE) @@ note :> Absent,
          {Fact(acme, "PART_OF", proj, "shared")},
          {Q(eng, {acme}, NULL, a, FALSE, FALSE) : a \in {Routine, Risky}},
          Changes({}, {acme}, {}, {Fact(acme, "PART_OF", proj, "engineering")}, TRUE))

\* Chains of facts that change while they are followed.
Following ==
    Scene(acme :> Of("shared", FALSE, TRUE) @@ memo :> Of("engineering", FALSE, FALSE)
            @@ proj :> Of("shared", FALSE, FALSE) @@ spec :> Of("shared", TRUE, FALSE)
            @@ note :> Of("finance", FALSE, FALSE),
          {Fact(acme, "BLOCKS", memo, "shared"), Fact(memo, "PART_OF", proj, "engineering")},
          {Q(eng, {acme}, NULL, Routine, TRUE, FALSE)},
          Changes({}, {spec}, {},
                  {Fact(acme, "BLOCKS", memo, "shared"), Fact(acme, "PART_OF", spec, "engineering")}, FALSE))

\* A role that holds a lease acts on a drilled section alone, while the document
\* becomes dirty, goes and comes back as somebody else's.
Drilling ==
    Scene(acme :> Absent @@ memo :> Absent @@ proj :> Of("shared", FALSE, FALSE)
            @@ spec :> Of("shared", FALSE, FALSE) @@ note :> Absent,
          {}, {Q(eng, {proj}, NULL, Routine, TRUE, FALSE)},
          Changes({spec}, {spec}, {}, {}, TRUE))

Scenes == {Still, Growing, Moving, Acting, Following, Drilling}

VARIABLE scene

InScene ==
    /\ \A k \in Keys :
         /\ k \notin scene.changes.own => node'[k].ns = node[k].ns
         /\ k \notin scene.changes.dirty => (node'[k].dirty => node[k].dirty)
         /\ k \notin scene.changes.vec => (node'[k].vec => node[k].vec)
    /\ edges' \ edges \subseteq scene.changes.facts
    /\ edges \ edges' \subseteq scene.changes.facts \/ node' # node
    /\ ~scene.changes.leases => granted' = granted
    /\ granted' \subseteq {eng}
    /\ \A p \in Procs : call'[p].q \in scene.queries \cup {NULL}
    /\ UNCHANGED scene

MCInit ==
    /\ scene \in Scenes
    /\ node = scene.node /\ edges = scene.edges
    /\ Init

MCNext == Next /\ InScene

MCSpec == MCInit /\ [][MCNext]_<<vars, scene>>

MCFairSpec == MCSpec /\ \A p \in Procs : WF_vars(Answer(p))

AllQueries == UNION {s.queries : s \in Scenes}

=============================================================================

------------------------------ MODULE MCMutate ------------------------------
(* Small instances of Mutate for TLC.  One run goes through several scenes: a *)
(* scene names the facts that take part in it and how far its clock goes.     *)
EXTENDS Mutate

CONSTANTS issue, alice, bob, carol,   \* keys
          eng                         \* a namespace

Fact(s, rel, o) == [s |-> s, rel |-> rel, o |-> o, ns |-> eng]

\* One evicting slot with three objects.
EvictScene ==
    [facts |-> {Fact(issue, "ASSIGNED_TO", o) : o \in {alice, bob, carol}}, end |-> 4]

\* One rejecting slot, and a set snapshot.
RejectScene ==
    [facts |-> {Fact(issue, "PART_OF", alice), Fact(issue, "PART_OF", bob),
                Fact(issue, "OWNS", alice)},
     end |-> 3]

\* A dependency graph on three nodes: the ring, a chord against it and a
\* self-loop.
GraphScene ==
    [facts |-> {Fact(alice, "DEPENDS_ON", bob), Fact(bob, "DEPENDS_ON", carol),
                Fact(carol, "DEPENDS_ON", alice), Fact(alice, "DEPENDS_ON", carol),
                Fact(alice, "DEPENDS_ON", alice)},
     end |-> 2]

Scenes == {EvictScene, RejectScene, GraphScene}

MCFacts == UNION {s.facts : s \in Scenes}
MCTimes == 1..4
MCSentinel == 9

VARIABLE scene

Nodes == {f.s : f \in scene.facts} \cup {f.o : f \in scene.facts}

InScene ==
    /\ \A f \in Facts \ scene.facts : edges'[f] = edges[f]
    /\ \A k \in Keys \ Nodes : owner'[k] = owner[k]
    /\ wall' <= scene.end

MCNext == Next /\ InScene /\ UNCHANGED scene

MCInit == Init /\ scene \in Scenes /\ wall <= scene.end

MCSpec == MCInit /\ [][MCNext]_<<vars, scene>>

=============================================================================

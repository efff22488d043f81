----------------------------- MODULE MCStaging ------------------------------
(* Small instances of Staging for TLC.  One run goes through several scenes:  *)
(* a scene says which candidates, ingested facts, nodes, namespaces and       *)
(* commands take part in it, and nothing else moves.                          *)
EXTENDS Staging, TLC

CONSTANTS issue, alice, bob,  \* keys
          eng, fin, shared,   \* namespaces
          c1, c2, c3,         \* candidates
          p1, p2              \* clients

Fact(s, rel, o) == [s |-> s, rel |-> rel, o |-> o, ns |-> eng]

AssignAlice == Fact(issue, "ASSIGNED_TO", alice)
AssignBob == Fact(issue, "ASSIGNED_TO", bob)
PartOfAlice == Fact(issue, "PART_OF", alice)
PartOfBob == Fact(issue, "PART_OF", bob)
Related == Fact(alice, "RELATED_TO", issue)

MCFacts == {AssignAlice, AssignBob, PartOfAlice, PartOfBob, Related}
MCCandFact == c1 :> AssignAlice @@ c2 :> AssignBob @@ c3 :> PartOfAlice
MCTrusted == {PartOfBob, Related}

Scene(cands, trusted, keys, namespaces, clients, upkeep) ==
    [cands |-> cands, trusted |-> trusted, keys |-> keys, namespaces |-> namespaces,
     clients |-> clients, upkeep |-> upkeep]

\* Two candidates propose two assignees of one issue, and two clients review them.
EvictScene == Scene({c1, c2}, {}, {issue, alice, bob}, {eng, shared}, 2, {})

\* A candidate and trusted ingest compete for the slot of a rejecting relation.
RejectScene == Scene({c3}, {PartOfBob}, {issue, alice, bob}, {eng}, 2, {})

\* A promote that locks the issue before alice, and an ingest whose MERGE may
\* lock alice before the issue: both locks can be waited for in a cycle.
CrossScene == Scene({c1}, {Related}, {issue, alice}, {eng}, 2, {})

\* One client beside the commands of an operator, in three namespaces.
UpkeepScene == Scene({c1}, {}, {issue, alice}, {eng, fin, shared}, 1, {"rollback", "sweep"})

\* A promote and an ingest of another fact for the same slot beside a rollback
\* of their namespace.
EraseScene == Scene({c3}, {PartOfBob}, {issue, alice, bob}, {eng}, 2, {"rollback"})

\* Two clients review one candidate whose nodes may change hands.
HandsScene == Scene({c1}, {}, {issue, alice}, {eng, fin}, 2, {"rollback", "sweep"})

\* Two clients and a rollback.
MissedLockScene == Scene({c1}, {}, {issue, alice}, {eng}, 2, {"rollback"})

Scenes == {EvictScene, RejectScene, CrossScene, UpkeepScene, EraseScene, HandsScene}

VARIABLE scene

Stays(var, moving) == \A x \in DOMAIN var \ moving : var'[x] = var[x]

InScene ==
    /\ Stays(status, scene.cands)
    /\ Stays(owner, scene.keys)
    /\ \A k \in scene.keys : owner'[k] \in scene.namespaces \cup {NULL}
    /\ \A p \in Clients : call'[p].op = "ingest" => call'[p].arg \in scene.trusted
    /\ Cardinality({p \in Clients : call'[p] # Idle}) <= scene.clients
    /\ "rollback" \notin scene.upkeep => rollback' = rollback
    /\ "sweep" \notin scene.upkeep => sweep' = sweep

MCNext == Next /\ InScene /\ UNCHANGED scene

MCInit == Init /\ scene \in Scenes

MCSpec == MCInit /\ [][MCNext]_<<vars, scene>>

MCFairSpec ==
    /\ MCSpec
    /\ \A p \in Clients : WF_vars(Run(p))
    /\ <>[][\A p \in Clients : ~Begin(p)]_vars

MissedLockSpec == Init /\ scene = MissedLockScene /\ [][MCNext]_<<vars, scene>>

=============================================================================

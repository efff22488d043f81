------------------------------ MODULE Staging -------------------------------
(* The candidate stage and approval gate (01-context/src/staging.py) at the   *)
(* granularity of statements and locks, together with what runs beside it:    *)
(* apply_edge for trusted ingest (mutate.py, etl.py), rollback_namespace and  *)
(* sweep_candidates (rollback.py), and resolve_entity.                        *)
(*                                                                            *)
(* The database (external) gives read committed: a statement sees what other  *)
(* transactions committed and its own writes.  A statement that writes a node *)
(* or an edge takes its lock and waits while another transaction holds it;    *)
(* locks are kept until the transaction ends.  A transaction that waits in a  *)
(* cycle is aborted and the driver runs it again.                             *)
(*                                                                            *)
(* An edge is abstracted to being current or not (its windows are the subject *)
(* of module Mutate) and the clock is left out.  Cycle-guarded relations are  *)
(* left out here.                                                             *)
EXTENDS Naturals, FiniteSets, Relations

CONSTANTS
    Keys,        \* keys of :Entity nodes
    Namespaces,  \* namespaces, "shared" among them
    Shared,      \* the namespace every other may point into
    Facts,       \* the edges callers speak of
    Cands,       \* candidate identities
    CandFact,    \* CandFact[c]: the fact candidate c proposes
    Trusted,     \* the facts trusted ingest writes
    Clients,     \* processes that call the gate
    MaxTries,    \* how often the driver runs an aborted transaction again
    Maintenance, \* the maintenance commands an operator runs beside the calls
    NULL

ASSUME StagingAssumption ==
    /\ Facts \subseteq [s : Keys, rel : RelNames, o : Keys, ns : Namespaces]
    /\ \A f \in Facts : ~guarded(f.rel)
    /\ CandFact \in [Cands -> Facts]
    /\ Trusted \subseteq Facts
    /\ Shared \in Namespaces
    /\ NULL \notin Namespaces \cup Clients \cup Keys \cup Cands
    /\ MaxTries \in Nat
    /\ Maintenance \subseteq {"rollback", "sweep"}

VARIABLES
    status,    \* status[c]: the review state of candidate c, "none" when it does not exist
    owner,     \* owner[k]: the namespace of the node with key k, or NULL
    current,   \* the facts with a current edge
    lock,      \* lock[x]: the client whose transaction locks candidate or node x, or NULL
    call,      \* call[p]: the call of client p and its transaction
    rollback,  \* the operator's rollback_namespace --apply
    sweep,     \* the operator's sweep_candidates --apply
    missed     \* history: a lock statement has matched nothing, and so locked nothing

vars == <<status, owner, current, lock, call, rollback, sweep, missed>>

-----------------------------------------------------------------------------
(* Calls                                                                      *)

Statuses == {"none", "pending", "approved", "rejected", "promoted"}
Ops == {"approve", "reject", "promote", "ingest"}
Steps == {"idle", "lock", "read", "owner", "subject", "merge", "verify", "cas", "set", "commit"}

Idle ==
    [op |-> "none", arg |-> NULL, pc |-> "idle", tries |-> 0, out |-> {}, made |-> FALSE]

\* The fact an edge-writing call asserts.
FactOf(p) == IF call[p].op = "ingest" THEN call[p].arg ELSE CandFact[call[p].arg]

Owned(f, k) == owner[k] \in {f.ns, Shared}

Slot(f) == {g \in Facts : g.s = f.s /\ g.rel = f.rel /\ g.ns = f.ns}

At(p, pc) == call[p].pc = pc

Goto(p, pc) == call' = [call EXCEPT ![p].pc = pc]

Locked(x, p) == lock[x] = p
Free(x, p) == lock[x] \in {NULL, p}

Released(p) == [x \in DOMAIN lock |-> IF lock[x] = p THEN NULL ELSE lock[x]]

\* Mutant: the call returns and its transaction stays open.
LeaveHolding(p) ==
    /\ call' = [call EXCEPT ![p] = Idle]
    /\ UNCHANGED <<status, owner, current, lock, rollback, sweep, missed>>

\* The call returns or raises without a write: its transaction is rolled back.
Leave(p) ==
    /\ call' = [call EXCEPT ![p] = Idle]
    /\ lock' = Released(p)
    /\ UNCHANGED <<status, owner, current, rollback, sweep, missed>>

\* A step that changes only the transaction of p.
Proceed(p, pc) ==
    /\ Goto(p, pc)
    /\ UNCHANGED <<status, owner, current, lock, rollback, sweep, missed>>

-----------------------------------------------------------------------------
(* Single-statement calls                                                     *)

\* stage: MERGE ... ON CREATE, so an existing candidate is left as it is.
Stage(c) ==
    /\ status[c] = "none"
    /\ status' = [status EXCEPT ![c] = "pending"]
    /\ UNCHANGED <<owner, current, lock, call, rollback, sweep, missed>>

\* resolve_entity: a node another namespace owns raises.
Resolve(k, ns) ==
    /\ owner[k] = NULL
    /\ owner' = [owner EXCEPT ![k] = ns]
    /\ UNCHANGED <<status, current, lock, call, rollback, sweep, missed>>

-----------------------------------------------------------------------------
(* approve, reject, promote, ingest                                           *)

StartOf(op) == IF op = "ingest" THEN "subject" ELSE "lock"

\* A caller has the id of a candidate that exists; etl.ingest reaches an edge
\* after its endpoints were upserted in its namespace.
Begin(p) ==
    /\ At(p, "idle")
    /\ \E op \in Ops, arg \in Cands \cup Trusted :
         /\ arg \in IF op = "ingest" THEN Trusted ELSE Cands
         /\ op # "ingest" => status[arg] # "none"
         /\ op = "ingest" => Owned(arg, arg.s) /\ Owned(arg, arg.o)
         /\ call' = [call EXCEPT ![p] = [Idle EXCEPT !.op = op, !.arg = arg, !.pc = StartOf(op)]]
    /\ UNCHANGED <<status, owner, current, lock, rollback, sweep, missed>>

\* Mutant: the status is read without the candidate's lock.
LockCandNever(p) == At(p, "lock") /\ Proceed(p, "read")

\* SET c._plock: waits for the candidate; a missing candidate locks nothing.
LockCand(p) ==
    /\ At(p, "lock")
    /\ Free(call[p].arg, p)
    /\ Goto(p, "read")
    /\ lock' = IF status[call[p].arg] = "none" THEN lock
               ELSE [lock EXCEPT ![call[p].arg] = p]
    /\ missed' = (missed \/ status[call[p].arg] = "none")
    /\ UNCHANGED <<status, owner, current, rollback, sweep>>

\* The statuses a call is made for; any other is an error or a no-op.
Allowed(op) ==
    CASE op = "approve" -> {"pending"}
      [] op = "reject"  -> {"pending", "approved"}
      [] op = "promote" -> {"approved"}

\* _get and the status guard; a promoted candidate is promote's no-op.
ReadCand(p) ==
    /\ At(p, "read")
    /\ IF status[call[p].arg] \notin Allowed(call[p].op) THEN Leave(p)
       ELSE Proceed(p, IF call[p].op = "promote" THEN "owner" ELSE "cas")

\* Mutant: promote trusts the endpoints it was staged with.
CheckOwnerNever(p) == At(p, "owner") /\ Proceed(p, "subject")

\* promote's ownership check: an unlocked read of both endpoints.
CheckOwner(p) ==
    /\ At(p, "owner")
    /\ LET f == FactOf(p) IN
       IF Owned(f, f.s) /\ Owned(f, f.o) THEN Proceed(p, "subject") ELSE Leave(p)

\* Mutant: no _wlock, so the incumbents are read beside another writer.
SubjectUnlocked(p) ==
    /\ At(p, "subject")
    /\ LET f == FactOf(p)
           others == {g \in Slot(f) \cap current : g.o # f.o}
       IN  IF rejects(f.rel) /\ others # {} THEN Leave(p)
           ELSE /\ call' = [call EXCEPT ![p].pc = "merge",
                                        ![p].out = IF evicts(f.rel) THEN others ELSE {}]
                /\ UNCHANGED <<status, owner, current, lock, rollback, sweep, missed>>

\* apply_edge up to the MERGE: the subject's _wlock for a functional relation,
\* then the eviction, or the collision check, over the edges committed so far.
Subject(p) ==
    /\ At(p, "subject")
    /\ LET f == FactOf(p)
           others == {g \in Slot(f) \cap current : g.o # f.o}
       IN  /\ functional(f.rel) => Free(f.s, p)
           /\ IF rejects(f.rel) /\ others # {} THEN Leave(p)
              ELSE /\ call' = [call EXCEPT ![p].pc = "merge",
                                           ![p].out = IF evicts(f.rel) THEN others ELSE {}]
                   /\ lock' = IF functional(f.rel) /\ owner[f.s] # NULL
                              THEN [lock EXCEPT ![f.s] = p] ELSE lock
                   /\ missed' = (missed \/ (functional(f.rel) /\ owner[f.s] = NULL))
                   /\ UNCHANGED <<status, owner, current, rollback, sweep>>

\* The MERGE takes the locks of its end nodes one after the other ...
LockEnd(p, k) ==
    /\ At(p, "merge")
    /\ k \in {FactOf(p).s, FactOf(p).o}
    /\ owner[FactOf(p).s] # NULL /\ owner[FactOf(p).o] # NULL
    /\ lock[k] = NULL
    /\ lock' = [lock EXCEPT ![k] = p]
    /\ UNCHANGED <<status, owner, current, call, rollback, sweep, missed>>

\* ... and writes the edge when both nodes exist, nothing otherwise.
MergeEdge(p) ==
    /\ At(p, "merge")
    /\ LET f == FactOf(p)
           found == owner[f.s] # NULL /\ owner[f.o] # NULL
       IN  /\ found => Locked(f.s, p) /\ Locked(f.o, p)
           /\ call' = [call EXCEPT ![p].pc = IF call[p].op = "ingest" THEN "commit" ELSE "verify",
                                   ![p].made = found]
    /\ UNCHANGED <<status, owner, current, lock, rollback, sweep, missed>>

\* promote raises when edge_state does not see the edge it wrote.
Verify(p) ==
    /\ At(p, "verify")
    /\ IF call[p].made THEN Proceed(p, "cas") ELSE Leave(p)

\* The guarded status write: MATCH finds the candidate in the status it needs,
\* with no lock of its own ...
CompareStatus(p) ==
    /\ At(p, "cas")
    /\ IF status[call[p].arg] \in Allowed(call[p].op) THEN Proceed(p, "set") ELSE Leave(p)

\* ... and SET waits for the lock; the match is not evaluated again.
SetStatus(p) ==
    /\ At(p, "set")
    /\ Free(call[p].arg, p)
    /\ IF status[call[p].arg] = "none" THEN Leave(p)
       ELSE /\ Goto(p, "commit")
            /\ lock' = [lock EXCEPT ![call[p].arg] = p]
            /\ UNCHANGED <<status, owner, current, rollback, sweep, missed>>

\* Mutant: the verb is written where the status belongs.
OutcomeVerb(op) == op

\* The status a call leaves.
Outcome(op) ==
    CASE op = "approve" -> "approved"
      [] op = "reject"  -> "rejected"
      [] op = "promote" -> "promoted"

Commit(p) ==
    /\ At(p, "commit")
    /\ status' = IF call[p].op = "ingest" THEN status
                 ELSE [status EXCEPT ![call[p].arg] = Outcome(call[p].op)]
    /\ current' = (current \ call[p].out) \cup IF call[p].made THEN {FactOf(p)} ELSE {}
    /\ lock' = Released(p)
    /\ call' = [call EXCEPT ![p] = Idle]
    /\ UNCHANGED <<owner, rollback, sweep, missed>>

\* The client dies or loses its connection: the transaction is rolled back.
Crash(p) == ~At(p, "idle") /\ Leave(p)

-----------------------------------------------------------------------------
(* Waiting and deadlock                                                       *)

\* The locks the next statement of p needs.
Wants(p) ==
    CASE At(p, "lock") \/ At(p, "set") -> {call[p].arg}
      [] At(p, "subject") /\ functional(FactOf(p).rel) -> {FactOf(p).s}
      [] At(p, "merge") -> {FactOf(p).s, FactOf(p).o}
      [] OTHER -> {}

WaitsFor(p) == {lock[x] : x \in Wants(p)} \ {NULL, p}

\* p waits, and so does everyone it waits for, with no end.
Deadlocked(p) ==
    \E S \in SUBSET Clients :
        p \in S /\ \A q \in S : WaitsFor(q) # {} /\ WaitsFor(q) \subseteq S

\* The database aborts p; the driver runs the transaction again, or gives up.
Retry(p) ==
    /\ Deadlocked(p)
    /\ call' = [call EXCEPT ![p] =
           IF call[p].tries = MaxTries THEN Idle
           ELSE [Idle EXCEPT !.op = call[p].op, !.arg = call[p].arg,
                             !.pc = StartOf(call[p].op), !.tries = call[p].tries + 1]]
    /\ lock' = Released(p)
    /\ UNCHANGED <<status, owner, current, rollback, sweep, missed>>

-----------------------------------------------------------------------------
(* rollback_namespace and sweep_candidates                                    *)

Nodes(ns) == {k \in Keys : owner[k] = ns}
CandsOf(ns) == {c \in Cands : CandFact[c].ns = ns /\ status[c] # "none"}
Incident(f, ns) == owner[f.s] = ns \/ owner[f.o] = ns
DelSet(ns) == {f \in current : f.ns = ns \/ Incident(f, ns)}

\* _require_ns, then the transaction that deletes every edge of the delete-set.
RollbackEdges(ns) ==
    /\ rollback.pc = "idle" /\ ns # Shared
    /\ \A f \in DelSet(ns) : lock[f.s] = NULL /\ lock[f.o] = NULL
    /\ current' = current \ DelSet(ns)
    /\ rollback' = [pc |-> "nodes", ns |-> ns]
    /\ UNCHANGED <<status, owner, lock, call, sweep, missed>>

\* _clean: DETACH DELETE of every node of the namespace, candidates included.
\* The recount that follows only reads.
RollbackNodes ==
    /\ rollback.pc = "nodes"
    /\ \A x \in Nodes(rollback.ns) \cup CandsOf(rollback.ns) : lock[x] = NULL
    /\ current' = {f \in current : ~Incident(f, rollback.ns)}
    /\ status' = [c \in Cands |-> IF c \in CandsOf(rollback.ns) THEN "none" ELSE status[c]]
    /\ owner' = [k \in Keys |-> IF k \in Nodes(rollback.ns) THEN NULL ELSE owner[k]]
    /\ rollback' = [rollback EXCEPT !.pc = "done"]
    /\ UNCHANGED <<lock, call, sweep, missed>>

\* The orphans sweep_candidates lists in its read transaction.
SweepRead(ns) ==
    /\ sweep.pc = "idle" /\ ns # Shared
    /\ sweep' = [pc |-> "delete",
                 ids |-> {c \in CandsOf(ns) : LET f == CandFact[c] IN
                                                 ~Owned(f, f.s) \/ ~Owned(f, f.o)}]
    /\ UNCHANGED <<status, owner, current, lock, call, rollback, missed>>

\* The delete of exactly that list, in a second transaction.
SweepDelete ==
    /\ sweep.pc = "delete"
    /\ \A c \in sweep.ids : lock[c] = NULL
    /\ status' = [c \in Cands |-> IF c \in sweep.ids THEN "none" ELSE status[c]]
    /\ sweep' = [pc |-> "done", ids |-> {}]
    /\ UNCHANGED <<owner, current, lock, call, rollback, missed>>

-----------------------------------------------------------------------------

Init ==
    /\ status = [c \in Cands |-> "none"]
    /\ owner = [k \in Keys |-> NULL]
    /\ current = {}
    /\ lock = [x \in Keys \cup Cands |-> NULL]
    /\ call = [p \in Clients |-> Idle]
    /\ rollback = [pc |-> IF "rollback" \in Maintenance THEN "idle" ELSE "done",
                   ns |-> NULL]
    /\ sweep = [pc |-> IF "sweep" \in Maintenance THEN "idle" ELSE "done", ids |-> {}]
    /\ missed = FALSE

\* The statements of the call of p.
Run(p) ==
    \/ LockCand(p) \/ ReadCand(p) \/ CheckOwner(p) \/ Subject(p)
    \/ \E k \in Keys : LockEnd(p, k)
    \/ MergeEdge(p) \/ Verify(p) \/ CompareStatus(p) \/ SetStatus(p)
    \/ Commit(p) \/ Retry(p)

Rollback == (\E ns \in Namespaces : RollbackEdges(ns)) \/ RollbackNodes
Sweep == (\E ns \in Namespaces : SweepRead(ns)) \/ SweepDelete

Next ==
    \/ \E c \in Cands : Stage(c)
    \/ \E k \in Keys, ns \in Namespaces : Resolve(k, ns)
    \/ \E p \in Clients : Begin(p) \/ Run(p) \/ Crash(p)
    \/ Rollback
    \/ Sweep

Spec == Init /\ [][Next]_vars

\* Every started call keeps executing: Neo4j serves its statements, wakes a
\* waiter when the lock is free and breaks deadlocks.  Its lock queue is not
\* known to be fair, so callers are assumed to stop calling one day.
FairSpec ==
    /\ Spec
    /\ \A p \in Clients : WF_vars(Run(p))
    /\ <>[][\A p \in Clients : ~Begin(p)]_vars

-----------------------------------------------------------------------------
(* Properties                                                                 *)

\* The state is well typed (staging.py statuses, locks and transactions).
TypeOK ==
    /\ status \in [Cands -> Statuses]
    /\ owner \in [Keys -> Namespaces \cup {NULL}]
    /\ current \subseteq Facts
    /\ lock \in [Keys \cup Cands -> Clients \cup {NULL}]
    /\ call \in [Clients -> [op : Ops \cup {"none"}, arg : Cands \cup Trusted \cup {NULL},
                             pc : Steps, tries : 0..MaxTries, out : SUBSET Facts,
                             made : BOOLEAN]]
    /\ rollback \in [pc : {"idle", "nodes", "done"}, ns : Namespaces \cup {NULL}]
    /\ sweep \in [pc : {"idle", "delete", "done"}, ids : SUBSET Cands]
    /\ missed \in BOOLEAN

\* Whatever calls interleave, abort or crash, a subject keeps at most one
\* current object of a functional relation (mutate.py FIX-RACE), as long as
\* every lock statement found something to lock.
SingleCurrent ==
    missed \/ \A f, g \in current : functional(f.rel) /\ g \in Slot(f) => f = g

\* A fact that only candidates can bring is never current on a node owned by
\* an unrelated namespace: the ownership check still holds when the edge
\* commits, because the candidate's lock holds off the rollback of its
\* namespace (staging.py promote, rollback.py _clean).
PromotedOnOwnNodes ==
    missed \/ \A f \in current \ Trusted : Owned(f, f.s) /\ Owned(f, f.o)

\* While every lock statement finds something to lock, the gate implements its
\* promise: each candidate moves one way through its review, a fact begins only
\* with the promotion of an approved candidate, and what the statements of a
\* promote did to the edges is at its commit one apply_edge of that fact: its
\* rivals end, or have been refused, and nothing else changes (staging.py
\* "Invariants honored"; mutate.py apply_edge).  Whatever a lock missed, also
\* when an endpoint was erased under the promote, a candidate becomes promoted
\* only with its fact current (promote's edge_state check).
Lifecycle == INSTANCE CandidateLifecycle
LifecyclePromise ==
    /\ Lifecycle!Init /\ [][missed' \/ Lifecycle!Next]_<<status, current>>
    /\ [][\A c \in Cands : status[c] # "promoted" /\ status'[c] = "promoted"
                         => CandFact[c] \in current']_<<status, current>>

\* Every started call returns or raises: no lock is waited for without end.
CallsReturn == \A p \in Clients : ~At(p, "idle") ~> At(p, "idle")

\* A rejected candidate stays rejected for as long as it exists.  staging.py:
\* "reject dominates a concurrent approve (both may legally succeed, ending
\* 'rejected') and is refused after a concurrent promote".
RejectDominates ==
    [][\A c \in Cands : status[c] = "rejected" => status'[c] \in {"rejected", "none"}]_vars

=============================================================================

------------------------ MODULE CandidateLifecycle --------------------------
(* What the staging gate promises (the "Invariants honored" of                *)
(* 01-context/src/staging.py): a candidate is reviewed in one direction only, *)
(* and the fact of a candidate becomes current in the very step that promotes *)
(* an approved candidate for it, never otherwise.  Facts of trusted ingest    *)
(* may come at any time, and facts may end at any time.                       *)
EXTENDS Relations

CONSTANTS
    Cands,      \* candidate identities: (ns, s_key, rel, o_key, origin)
    CandFact,   \* CandFact[c]: the fact candidate c proposes
    Trusted     \* facts that trusted ingest writes without a candidate

VARIABLES
    status,     \* status[c]: the review state of c, "none" when there is no such node
    current     \* the facts with a current edge

Statuses == {"none", "pending", "approved", "rejected", "promoted"}

\* c moves from one of `from` to `to`, and no fact begins or ends.
Review(c, from, to) ==
    /\ status[c] \in from
    /\ status' = [status EXCEPT ![c] = to]
    /\ UNCHANGED current

Stage(c) == Review(c, {"none"}, "pending")
Approve(c) == Review(c, {"pending"}, "approved")
Reject(c) == Review(c, {"pending", "approved"}, "rejected")

\* The other current objects of the subject of f.
Rivals(f) == {g \in current : g.s = f.s /\ g.rel = f.rel /\ g.ns = f.ns /\ g.o # f.o}

\* apply_edge in one step: a rejecting relation has no rival, an evicting one
\* loses exactly its rivals, f is current and nothing else changes.
Asserts(f) ==
    /\ rejects(f.rel) => Rivals(f) = {}
    /\ current' = {f} \cup IF evicts(f.rel) THEN current \ Rivals(f) ELSE current

Promote(c) ==
    /\ status[c] = "approved"
    /\ status' = [status EXCEPT ![c] = "promoted"]
    /\ Asserts(CandFact[c])

Ingest(f) == Asserts(f) /\ UNCHANGED status

\* A sweep or a rollback removes candidates and ends facts, and adds nothing.
Erase ==
    /\ \A c \in Cands : status'[c] \in {status[c], "none"}
    /\ status' = [c \in Cands |-> status'[c]]
    /\ current' \subseteq current

Init ==
    /\ status = [c \in Cands |-> "none"]
    /\ current = {}

Next ==
    \/ \E c \in Cands : Stage(c) \/ Approve(c) \/ Reject(c) \/ Promote(c)
    \/ \E f \in Trusted : Ingest(f)
    \/ Erase

Spec == Init /\ [][Next]_<<status, current>>

=============================================================================

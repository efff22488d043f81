----------------------------- MODULE Freshness ------------------------------
(* Content, revisions and vectors of nodes: the writers of long_context       *)
(* (etl.upsert_entity, etl.ingest_ocr_doc, etl_history._resolve_embeddable,   *)
(* mutate.resolve_entity), the passes that embed (sweep.sweep_once,           *)
(* etl_history._embed_history_nodes, demo_seed.embed_all) and the node        *)
(* deletion of rollback.  A pass reads the content in one transaction and     *)
(* embeds each node in another; a worker is a process that runs passes.       *)
(*                                                                            *)
(* Text is a model value and a vector is the text it was computed from.       *)
(* Owners, edges and clocks are left out.                                     *)
EXTENDS Naturals, FiniteSets

CONSTANTS
    Keys,      \* keys of content-bearing nodes
    Writer,    \* Writer[k]: which path writes the content of k
    Contents,  \* the texts
    Split,     \* Split[c]: the passages the chunker makes of text c
    Workers,   \* processes that run passes
    Batch,     \* sweep_once's LIMIT
    MaxRev,    \* bound on content_rev
    NULL

Writers == {"source", "ocr", "history", "project"}
Kinds == {"none", "row", "sweep", "history", "seed"}

ASSUME FreshnessAssumption ==
    /\ Writer \in [Keys -> Writers]
    /\ Split \in [Contents -> Nat \ {0}]
    /\ Batch \in Nat \ {0}
    /\ MaxRev \in Nat \ {0}
    /\ NULL \notin Contents

VARIABLES
    node,   \* node[k]: the properties of the node with key k
    chunks, \* chunks[k]: its :Chunk nodes, as <<ord, text>>
    job,    \* job[w]: the pass worker w is in
    overtaken  \* history: the keys whose text ever changed under a worker's hand

state == <<node, chunks, job>>
vars == <<node, chunks, job, overtaken>>

-----------------------------------------------------------------------------

Text == Contents \cup {NULL}

Absent == [content |-> NULL, rev |-> 0, dirty |-> FALSE, vec |-> NULL, embedded_rev |-> 0]

Node == [content : Text, rev : Nat, dirty : BOOLEAN, vec : Text, embedded_rev : Nat]

Exists(k) == node[k].content # NULL

\* Mutant: the CASE on `changed` has no ELSE, so an identical text unsets dirty.
BumpedElseNull(n, c) ==
    IF n.content = NULL THEN [Absent EXCEPT !.content = c, !.rev = 1]
    ELSE IF n.content = c THEN [n EXCEPT !.dirty = NULL]
    ELSE [n EXCEPT !.content = c, !.rev = n.rev + 1, !.dirty = TRUE]

\* Mutant: an identical re-ingest clears a pending re-embed.
BumpedClearing(n, c) ==
    IF n.content = NULL THEN [Absent EXCEPT !.content = c, !.rev = 1]
    ELSE IF n.content = c THEN [n EXCEPT !.dirty = FALSE]
    ELSE [n EXCEPT !.content = c, !.rev = n.rev + 1, !.dirty = TRUE]

\* content_rev bumps and dirty is set only when the content changed.
Bumped(n, c) ==
    IF n.content = NULL THEN [Absent EXCEPT !.content = c, !.rev = 1]
    ELSE IF n.content = c THEN n
    ELSE [n EXCEPT !.content = c, !.rev = n.rev + 1, !.dirty = TRUE]

\* resolve_entity writes the text and nothing else of an existing node.
Resolved(n, c) == [n EXCEPT !.content = c]

\* Mutant: a changed row is not marked.
Unmarked(n) == n

Marked(n) == [n EXCEPT !.rev = n.rev + 1, !.dirty = TRUE]

\* Mutant: the SET leaves the dirty flag up.
EmbeddedStillDirty(n, c) ==
    IF n.content = NULL THEN n ELSE [n EXCEPT !.vec = c, !.embedded_rev = n.rev]

\* The SET of embed_node; MATCH finds nothing when the node is gone.
Embedded(n, c) ==
    IF n.content = NULL THEN n
    ELSE [n EXCEPT !.vec = c, !.embedded_rev = n.rev, !.dirty = FALSE]

\* The :Chunk nodes of a text: none when it is a single passage.
Passages(c) == IF Split[c] > 1 THEN {<<i, c>> : i \in 1..Split[c]} ELSE {}

\* Mutant: the chunks of an earlier text are overwritten, not dropped.
RechunkedOver(k, c) ==
    IF Exists(k) THEN {p \in chunks[k] : p[1] > Split[c]} \cup Passages(c) ELSE {}

\* embed_node drops the chunks of the node and materializes those of c.
Rechunked(k, c) == IF Exists(k) THEN Passages(c) ELSE {}

-----------------------------------------------------------------------------
(* Writers                                                                    *)

Bounded(n) == n.rev <= MaxRev

\* etl.upsert_entity
Upsert(k, c) ==
    /\ Writer[k] = "source" /\ Bounded(Bumped(node[k], c))
    /\ node' = [node EXCEPT ![k] = Bumped(node[k], c)]
    /\ UNCHANGED <<chunks, job>>

\* etl.ingest_ocr_doc: upsert and embed in one transaction.
IngestOcr(k, c) ==
    /\ Writer[k] = "ocr" /\ Bounded(Bumped(node[k], c))
    /\ node' = [node EXCEPT ![k] = Embedded(Bumped(node[k], c), c)]
    /\ chunks' = [chunks EXCEPT ![k] = Passages(c)]
    /\ UNCHANGED job

\* A :Project of the history ingest: resolve_entity with the row's spelling.
ResolveProject(k, c) ==
    /\ Writer[k] = "project"
    /\ node' = [node EXCEPT ![k] = Resolved(node[k], c)]
    /\ UNCHANGED <<chunks, job>>

\* rollback's DETACH DELETE takes a node and its chunks.
Delete(k) ==
    /\ Exists(k)
    /\ node' = [node EXCEPT ![k] = Absent]
    /\ chunks' = [chunks EXCEPT ![k] = {}]
    /\ UNCHANGED job

-----------------------------------------------------------------------------
(* Passes                                                                     *)

Nothing == [k \in Keys |-> NULL]
Idle == [kind |-> "none", todo |-> {}, got |-> Nothing, old |-> NULL]

\* A pass has the keys it still has to embed and the texts it has read; a row
\* has its key, the text it writes and the one it has read.
Job == [kind : Kinds, todo : SUBSET Keys, got : [Keys -> Text], old : Text]

Start(w, kind, todo, got, old) ==
    /\ job[w] = Idle
    /\ job' = [job EXCEPT ![w] = [kind |-> kind, todo |-> todo, got |-> got, old |-> old]]
    /\ UNCHANGED <<node, chunks>>

\* What a statement that returns the content of the nodes in S reads.
Read(S) == [k \in Keys |-> IF k \in S THEN node[k].content ELSE NULL]

Dirty == {k \in Keys : node[k].dirty}

\* sweep_once: at most Batch dirty nodes, in no particular order.
StartSweep(w) ==
    \E S \in SUBSET Dirty :
        /\ S # {} /\ (Cardinality(S) = Batch \/ (S = Dirty /\ Cardinality(S) < Batch))
        /\ Start(w, "sweep", S, Read(S), NULL)

\* _embed_history_nodes: what has no vector or is dirty; all of it with reembed_all.
StartHistory(w, reembed_all) ==
    LET S == {k \in Keys : /\ Writer[k] = "history" /\ Exists(k)
                           /\ reembed_all \/ node[k].vec = NULL \/ node[k].dirty}
    IN  S # {} /\ Start(w, "history", S, Read(S), NULL)

\* demo_seed.embed_all: lists the keys, then reads and embeds them one by one.
StartSeed(w) ==
    LET S == {k \in Keys : Exists(k)}
    IN  S # {} /\ Start(w, "seed", S, Nothing, NULL)

\* _resolve_embeddable reads the prior text of a row's node ...
StartRow(w, k, c) ==
    /\ Writer[k] = "history"
    /\ node[k].content # c => Bounded(Marked(node[k]))
    /\ Start(w, "row", {k}, [Nothing EXCEPT ![k] = c], node[k].content)

\* ... resolves it, and marks it dirty when what it read is another text.
WriteRow(w) ==
    /\ job[w].kind = "row"
    /\ \E k \in job[w].todo :
         LET n == Resolved(node[k], job[w].got[k])
             changed == job[w].old \notin {NULL, n.content}
         IN  /\ changed => Bounded(Marked(n))
             /\ node' = [node EXCEPT ![k] = IF changed THEN Marked(n) ELSE n]
    /\ job' = [job EXCEPT ![w] = Idle]
    /\ UNCHANGED chunks

\* embed_all reads the text of its next key; a key that is gone raises.
ReadSeed(w, k) ==
    /\ job[w].kind = "seed" /\ job[w].got = Nothing /\ k \in job[w].todo
    /\ job' = IF Exists(k) THEN [job EXCEPT ![w].got[k] = node[k].content]
              ELSE [job EXCEPT ![w] = Idle]
    /\ UNCHANGED <<node, chunks>>

\* embed_node with the text read earlier.
EmbedNode(w, k) ==
    /\ job[w].kind \in {"sweep", "history", "seed"}
    /\ k \in job[w].todo /\ job[w].got[k] # NULL
    /\ node' = [node EXCEPT ![k] = Embedded(node[k], job[w].got[k])]
    /\ chunks' = [chunks EXCEPT ![k] = Rechunked(k, job[w].got[k])]
    /\ job' = [job EXCEPT ![w] =
           IF job[w].todo = {k} THEN Idle
           ELSE [job[w] EXCEPT !.todo = job[w].todo \ {k}, !.got[k] = NULL]]

\* The process dies: its open transaction is rolled back, the rest is not done.
Abandon(w) ==
    /\ job[w] # Idle
    /\ job' = [job EXCEPT ![w] = Idle]
    /\ UNCHANGED <<node, chunks>>

-----------------------------------------------------------------------------

Init ==
    /\ node = [k \in Keys |-> Absent]
    /\ chunks = [k \in Keys |-> {}]
    /\ job = [w \in Workers |-> Idle]
    /\ overtaken = {}

Edit ==
    \E k \in Keys :
        \/ \E c \in Contents : Upsert(k, c) \/ IngestOcr(k, c) \/ ResolveProject(k, c)
        \/ Delete(k)

BeginRow == \E w \in Workers, k \in Keys, c \in Contents : StartRow(w, k, c)

BeginSweep == \E w \in Workers : StartSweep(w)

BeginPass ==
    \E w \in Workers :
        \/ \E reembed_all \in BOOLEAN : StartHistory(w, reembed_all)
        \/ StartSeed(w)

Continue(w) ==
    \/ WriteRow(w)
    \/ \E k \in Keys : ReadSeed(w, k) \/ EmbedNode(w, k)

Step ==
    \/ Edit
    \/ BeginRow
    \/ BeginSweep
    \/ BeginPass
    \/ \E w \in Workers : Continue(w) \/ Abandon(w)

\* A worker holds a text of k that it is to write or to embed.
Held(k) == \E w \in Workers : job[w].got[k] # NULL

Overtakes(k) == node'[k].content # node[k].content /\ Held(k)'

Next == Step /\ overtaken' = overtaken \cup {k \in Keys : Overtakes(k)}

Spec == Init /\ [][Next]_vars

\* The sweep is run again and again, a pass that runs keeps running, and one
\* day only sweeps run and none of them dies.
FairSpec ==
    /\ Spec
    /\ WF_state(BeginSweep)
    /\ \A w \in Workers : WF_state(Continue(w))
    /\ <>[][BeginSweep \/ \E w \in Workers : Continue(w)]_state

-----------------------------------------------------------------------------
(* Properties                                                                 *)

\* The state is well typed (ONTOLOGY_SCHEMA section 11's properties, the passes).
TypeOK ==
    /\ node \in [Keys -> Node]
    /\ chunks \in [Keys -> SUBSET (Nat \X Contents)]
    /\ job \in [Workers -> Job]
    /\ overtaken \subseteq Keys

\* The two staleness signals never disagree, whatever overlaps: the dirty flag
\* that the action gate reads (stamp.py) is up exactly while the embedded
\* revision is behind the content's (ONTOLOGY_SCHEMA section 11).
SignalsAgree ==
    \A k \in Keys : node[k].vec # NULL =>
        /\ node[k].embedded_rev <= node[k].rev
        /\ node[k].dirty <=> node[k].embedded_rev # node[k].rev

\* Recall of nodes and recall of passages answer from the same text: the chunk
\* nodes are those of the text of the vector, none left over from an earlier
\* one and none without its node (embed.py cf7, demo_seed.main's drift check).
ChunksFollowVector ==
    \A k \in Keys :
        chunks[k] = IF node[k].vec = NULL THEN {} ELSE Passages(node[k].vec)

\* ONTOLOGY_SCHEMA section 11: equal revisions mean "the vector matches current
\* content".  Said of the nodes whose writers keep the revision: the history
\* ingest respells a project without touching it (etl_history.py ingest).
Guarantee ==
    \A k \in Keys :
        Writer[k] # "project" /\ node[k].vec # NULL /\ node[k].embedded_rev = node[k].rev
        => node[k].vec = node[k].content

\* What becomes of the guarantee when writers and passes interleave freely: it
\* holds of every node whose text never changed while a worker held another one,
\* a pass what it has read, a row what it is to write (the CASE of upsert_entity,
\* the read, resolve and mark of _resolve_embeddable, embed_node's SET).
GuaranteeUnlessOvertaken ==
    \A k \in Keys \ overtaken :
        Writer[k] # "project" /\ node[k].vec # NULL /\ node[k].embedded_rev = node[k].rev
        => node[k].vec = node[k].content

\* The backlog drains: whatever was edited, and however the batches are chosen,
\* a sweep that keeps being run leaves no node dirty (sweep.py: "so cold dirty
\* nodes can't silently rot").
SweepDrains == <>[](Dirty = {})

=============================================================================

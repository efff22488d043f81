-------------------------------- MODULE Serve -------------------------------
(* The read path: one call of serve() step by step, each step one auto-commit *)
(* read, while writers change the graph; and the autonomy lease that decides  *)
(* whether an answer may act.  A process serves one call at a time and has    *)
(* its own copy of the lease table.                                           *)
(*                                                                            *)
(* Keys are numbers in the order of the program's keys.  Calls read the       *)
(* current view (as_of = None); of texts only the tickets that they name are  *)
(* kept; the embedding model and the communities block are left out.          *)
EXTENDS Fusion, Gate

CONSTANTS
    Keys,       \* keys of entities
    Tickets,    \* the keys that begin with issue: or agent:
    Hosts,      \* the keys whose node carries a pageindex_ref
    Signed,     \* ... and a non-empty pageindex_doc_sha
    Says,       \* Says[k]: the tickets that the prose of k names
    near,       \* near[k]: place of k among the vectors nearest to the query
    Namespaces,
    Scope,      \* Scope[role]: the namespaces the role may read
    Relations,  \* names of relations
    Functional, \* those of arity 1
    Scores,     \* cosines, as percentages
    Procs,      \* serving and sweeping processes
    Queries,    \* the queries asked
    T,          \* T_CAP
    Fan,        \* the factor of the over-fetch, 5 in the code
    NULL

Roles == DOMAIN Scope

\* What a query is: who asks, about which keys, a pattern or NULL, the action.
Query == [role : Roles, text : BOOLEAN, asked : SUBSET Keys,
          pattern : [rel : Relations, obj : Keys] \cup {NULL},
          action : [category : Categories, reversible : BOOLEAN],
          deep_serve : BOOLEAN, rerank : BOOLEAN]

ASSUME ServeAssumption ==
    /\ Keys \subseteq Nat /\ IsFiniteSet(Keys)
    /\ Tickets \subseteq Keys /\ Signed \subseteq Hosts /\ Hosts \subseteq Keys
    /\ Says \in [Keys -> SUBSET Tickets]
    /\ near \in [Keys -> Nat] /\ IsInjective(near)
    /\ \A r \in Roles : Scope[r] \subseteq Namespaces
    /\ Functional \subseteq Relations
    /\ Scores \subseteq 0..99
    /\ T \in Nat \ {0} /\ Fan \in Nat \ {0, 1}
    /\ NULL \notin Namespaces
    /\ Queries \subseteq Query

VARIABLES
    node,    \* node[k]: owner, freshness and presence of a vector
    edges,   \* the current edges
    granted, \* the roles CALIBRATED marks in the source
    leased,  \* leased[p]: the roles it marks in process p
    call     \* call[p]: the call p serves

store == <<node, edges>>
lease == <<granted, leased>>
vars == <<node, edges, granted, leased, call>>

-----------------------------------------------------------------------------

Edge == [subj : Keys, rel : Relations, obj : Keys, ns : Namespaces]

Absent == [ns |-> NULL, dirty |-> FALSE, vec |-> FALSE]

Node == [ns : Namespaces \cup {NULL}, dirty : BOOLEAN, vec : BOOLEAN]

Exists(k) == node[k].ns # NULL

Embedded == {k \in Keys : node[k].vec}

PCs == {"idle", "keyword", "graph", "count", "query", "chunk", "fuse", "card",
        "compose", "content", "isolation", "join", "host", "decide", "done", "raised"}

\* Two history fields: lost are the keys erased since the call began, gone those
\* that were not there when the self-check ran or were erased since.
NoCall == [pc |-> "idle", q |-> NULL,
           keyword |-> <<>>, graph |-> <<>>, vector |-> <<>>, chunk |-> <<>>,
           total |-> 0, over |-> 0, fused |-> <<>>,
           fresh |-> FALSE, facts |-> {},
           todo |-> <<>>, shown |-> <<>>, expand |-> <<>>, lines |-> {},
           mentioned |-> {}, leaked |-> {}, host |-> "none",
           final |-> "abstain", autonomous |-> FALSE, executed |-> FALSE,
           lost |-> {}, gone |-> {}]

\* What a call is.
Call == [pc : PCs, q : Query \cup {NULL},
         keyword : Seq(Keys), graph : Seq(Keys), vector : Seq(Keys), chunk : Seq(Keys),
         total : Nat, over : Nat, fused : Seq(Keys),
         fresh : BOOLEAN, facts : SUBSET Edge,
         todo : Seq(Keys), shown : Seq(Keys), expand : Seq(Keys), lines : SUBSET (Keys \X Keys),
         mentioned : SUBSET Tickets, leaked : SUBSET Keys, host : {"none", "fresh", "stale"},
         final : Finals, autonomous : BOOLEAN, executed : BOOLEAN,
         lost : SUBSET Keys, gone : SUBSET Keys]

\* The namespace filter of every read.
Sees(q, k) == node[k].ns \in Scope[q.role]

sorted(S) == Orders(S, <)

First(s, n) == SubSeq(s, 1, Min({n, Len(s)}))

\* Process p goes on with its call; reads change nothing else.
Goes(p, c) == call' = [call EXCEPT ![p] = c] /\ UNCHANGED <<store, lease>>

At(p, pc) == call[p].pc = pc

-----------------------------------------------------------------------------
(* Writers, as a read sees them                                               *)

Writes == UNCHANGED <<lease, call>>

\* mutate.resolve_entity: the first write decides the owner.
Resolve(k, n) ==
    /\ ~Exists(k)
    /\ node' = [node EXCEPT ![k] = [Absent EXCEPT !.ns = n]]
    /\ UNCHANGED edges /\ Writes

\* mutate.mark_dirty
Mark(k) ==
    /\ Exists(k) /\ ~node[k].dirty
    /\ node' = [node EXCEPT ![k].dirty = TRUE]
    /\ UNCHANGED edges /\ Writes

\* embed.embed_node
Embed(k) ==
    /\ Exists(k) /\ (node[k].dirty \/ ~node[k].vec)
    /\ node' = [node EXCEPT ![k] = [ns |-> node[k].ns, dirty |-> FALSE, vec |-> TRUE]]
    /\ UNCHANGED edges /\ Writes

SameSlot(d, e) ==
    d.rel \in Functional /\ d.subj = e.subj /\ d.rel = e.rel /\ d.ns = e.ns

\* mutate.apply_edge; a functional relation has one edge per subject and namespace.
Apply(e) ==
    /\ Exists(e.subj) /\ Exists(e.obj) /\ e \notin edges
    /\ edges' = {e} \cup {d \in edges : ~SameSlot(d, e)}
    /\ UNCHANGED node /\ Writes

Retract(e) ==
    /\ e \in edges
    /\ edges' = edges \ {e}
    /\ UNCHANGED node /\ Writes

\* rollback: a node goes with its edges.
Erase(k) ==
    /\ Exists(k)
    /\ node' = [node EXCEPT ![k] = Absent]
    /\ edges' = {e \in edges : k \notin {e.subj, e.obj}}
    /\ call' = [p \in Procs |-> IF At(p, "idle") THEN call[p]
                               ELSE [call[p] EXCEPT !.lost = @ \cup {k}, !.gone = @ \cup {k}]]
    /\ UNCHANGED lease

-----------------------------------------------------------------------------
(* The lease                                                                  *)

\* A human edits CALIBRATED in the source.
Grant(r) ==
    /\ granted' = granted \cup {r}
    /\ UNCHANGED <<store, leased, call>>

Withdraw(r) ==
    /\ granted' = granted \ {r}
    /\ UNCHANGED <<store, leased, call>>

\* Mutant: the bar decides in both directions.
auto_revert_both(p, r, below) ==
    /\ leased' = [leased EXCEPT ![p] = IF below THEN @ \ {r} ELSE @ \cup {r}]
    /\ UNCHANGED <<store, granted, call>>

\* cal4_sweep.sweep_autorevert and abstain.auto_revert, in the process that calls it.
auto_revert(p, r, below) ==
    /\ leased' = [leased EXCEPT ![p] = IF below THEN @ \ {r} ELSE @]
    /\ UNCHANGED <<store, granted, call>>

\* A process starts again and imports the source; its call is lost.
Restart(p) ==
    /\ leased' = [leased EXCEPT ![p] = granted]
    /\ call' = [call EXCEPT ![p] = NoCall]
    /\ UNCHANGED <<store, granted>>

-----------------------------------------------------------------------------
(* Retrieval                                                                  *)

Ask(p, q) ==
    /\ At(p, "idle")
    /\ Goes(p, [NoCall EXCEPT !.pc = "keyword", !.q = q])

\* keyword_rung: the keys in scope that the text names.
Keyword(p) ==
    /\ At(p, "keyword")
    /\ LET c == call[p]
           hits == IF c.q.text THEN {k \in c.q.asked : Sees(c.q, k)} ELSE {}
       IN  \E keyword \in sorted(hits) : Goes(p, [c EXCEPT !.pc = "graph", !.keyword = keyword])

\* graph_rung: one hit per edge, so a subject may be hit twice.
Graph(p) ==
    /\ At(p, "graph")
    /\ LET c == call[p]
           hits == IF c.q.pattern = NULL THEN {}
                   ELSE {e \in edges : /\ e.rel = c.q.pattern.rel /\ e.obj = c.q.pattern.obj
                                       /\ e.ns \in Scope[c.q.role]
                                       /\ Sees(c.q, e.subj) /\ Sees(c.q, e.obj)}
       IN  \E rows \in SetToSeqs(hits) :
               /\ \A i, j \in DOMAIN rows : i < j => rows[i].subj <= rows[j].subj
               /\ Goes(p, [c EXCEPT !.pc = IF c.q.text THEN "count" ELSE "fuse",
                                    !.graph = [i \in DOMAIN rows |-> rows[i].subj]])

\* _vector_query counts the vectors before it scans them.
Count(p) ==
    /\ At(p, "count")
    /\ Goes(p, [call[p] EXCEPT !.pc = "query", !.total = Cardinality(Embedded), !.over = T * Fan])

\* Without the optional embedder neither vector rung finds anything.
NoEmbedder(p) ==
    /\ At(p, "count")
    /\ Goes(p, [call[p] EXCEPT !.pc = "fuse"])

\* The n nearest of S, whatever their namespace.
Nearest(S, n) == {x \in S : Cardinality({y \in S : near[y] < near[x]}) < n}

Ordered(S) == Orders(S, LAMBDA x, y : near[x] < near[y])

\* Mutant: a fixed over-fetch, the recall cliff.
EnoughFixed(c, hits) == TRUE

Enough(c, hits) == Cardinality(hits) >= T \/ c.over >= c.total

\* Mutant: the over-fetch does not grow.
SameOver(c) == c.over

WiderOver(c) == c.over * Fan

\* One round: nearest first, scoped afterwards, wider when there are too few.
VectorRound(p) ==
    /\ At(p, "query")
    /\ LET c == call[p]
           window == Nearest(Embedded, Min({c.over, Max({c.total, 1})}))
           hits == Nearest({k \in window : Sees(c.q, k)}, T)
       IN  IF Enough(c, hits)
           THEN \E vector \in Ordered(hits) : Goes(p, [c EXCEPT !.pc = "chunk", !.vector = vector])
           ELSE Goes(p, [c EXCEPT !.over = WiderOver(c)])

\* chunk_rung, in one step: up to T parents in scope in the order of their
\* best passage, which is not that of the nodes.
Chunk(p) ==
    /\ At(p, "chunk")
    /\ \E hits \in SetToAllKPermutations({k \in Embedded : Sees(call[p].q, k)}) :
           /\ Len(hits) <= T
           /\ Goes(p, [call[p] EXCEPT !.pc = "fuse", !.chunk = hits])

\* Mutant: chunk votes for parents that the node vector already found.
ChunkFusionAll(c) == c.chunk

\* Passages only extend recall: a parent found by its own vector has its vote.
ChunkFusion(c) ==
    LET upto[i \in 0..Len(c.chunk)] ==
            IF i = 0 THEN <<>>
            ELSE IF c.chunk[i] \in ToSet(c.vector) THEN upto[i - 1]
            ELSE Append(upto[i - 1], c.chunk[i])
    IN  upto[Len(c.chunk)]

Rankings(c) == [keyword |-> c.keyword, graph |-> c.graph,
                vector |-> c.vector, chunk |-> ChunkFusion(c)]

\* Fusion; the optional reranker may order the keys in any way.
Fuse(p) ==
    /\ At(p, "fuse")
    /\ LET c == call[p]
           S == Ranked(Rankings(c))
       IN  IF S = {} THEN Goes(p, [c EXCEPT !.pc = "done"])
           ELSE \E fused \in IF c.q.rerank THEN SetToSeqs(S) ELSE rrf(Rankings(c)) :
                    Goes(p, [c EXCEPT !.pc = "card", !.fused = fused,
                                      !.todo = First(fused, T), !.shown = First(fused, T)])

-----------------------------------------------------------------------------
(* Cards                                                                      *)

\* Mutant: the target of a fact may be out of scope.
CardOpen(q, k) == {e \in edges : e.subj = k /\ e.ns \in Scope[q.role]}

\* The current facts of CARD_Q: edge and target in scope.
Card(q, k) == {e \in edges : e.subj = k /\ e.ns \in Scope[q.role] /\ Sees(q, e.obj)}

\* The primary's card.  A primary that is out of scope by now has no record,
\* and stamp_card raises.
ReadPrimary(p) ==
    /\ At(p, "card")
    /\ LET c == call[p]
           primary == c.fused[1]
       IN  Goes(p, IF Sees(c.q, primary)
                   THEN [c EXCEPT !.pc = "compose", !.fresh = ~node[primary].dirty,
                                  !.facts = Card(c.q, primary)]
                   ELSE [c EXCEPT !.pc = "raised"])

\* _add_card reads the card of k; the facts come in no order.
AddCard(p, c, k) ==
    IF Sees(c.q, k)
    THEN \E facts \in SetToSeqs(Card(c.q, k)) :
            Goes(p, [c EXCEPT !.pc = "content", !.todo = <<k>> \o c.todo,
                     !.expand = c.expand \o [i \in DOMAIN facts |-> facts[i].obj],
                     !.lines = c.lines \cup {<<k, facts[i].obj>> : i \in DOMAIN facts}])
    ELSE Goes(p, c)

\* The next card: the first T fused keys, then targets of facts while fewer
\* than 2T are shown.
Compose(p) ==
    /\ At(p, "compose")
    /\ LET c == call[p]
           k == Head(c.expand)
       IN  IF c.todo # <<>> THEN AddCard(p, [c EXCEPT !.todo = Tail(c.todo)], Head(c.todo))
           ELSE IF c.expand = <<>> \/ Len(c.shown) >= 2 * T
           THEN Goes(p, [c EXCEPT !.pc = "isolation"])
           ELSE IF Contains(c.shown, k) THEN Goes(p, [c EXCEPT !.expand = Tail(c.expand)])
           ELSE AddCard(p, [c EXCEPT !.expand = Tail(c.expand), !.shown = Append(c.shown, k)], k)

\* ... and, in a read of its own, the content of its node.  A passage of k was
\* fetched by the chunk rung and is shown whatever this read finds.
Content(p) ==
    /\ At(p, "content")
    /\ LET c == call[p]
           k == Head(c.todo)
           read == Sees(c.q, k) \/ Contains(c.chunk, k)
       IN  Goes(p, [c EXCEPT !.pc = "compose", !.todo = Tail(c.todo),
                    !.lines = IF read THEN c.lines \cup {<<k, k>>} ELSE c.lines,
                    !.mentioned = IF read THEN c.mentioned \cup Says[k] ELSE c.mentioned])

-----------------------------------------------------------------------------
(* Checks and decision                                                        *)

Named(c) == UNION {{l[1], l[2]} : l \in c.lines}

\* Mutant: the composed lines are not looked at.
TouchedFused(c) == ToSet(c.fused) \cup {e.obj : e \in c.facts}

\* The keys the isolation check asks about: of the composed lines it finds
\* those of issues and agents, in their prose too.
Touched(c) ==
    ToSet(c.fused) \cup {e.obj : e \in c.facts} \cup (Named(c) \cap Tickets) \cup c.mentioned

IsolationCheck(p) ==
    /\ At(p, "isolation")
    /\ LET c == call[p]
       IN  Goes(p, [c EXCEPT !.pc = "join",
                             !.leaked = {k \in Touched(c) : Exists(k) /\ ~Sees(c.q, k)},
                             !.gone = {k \in Keys : ~Exists(k)}])

\* Coverage in percent, rounded: asked tickets among the primary's support.
Coverage(c) ==
    LET Q == c.q.asked \cap Tickets
        R == IF c.facts = {} THEN {} ELSE {c.fused[1]} \cup {e.obj : e \in c.facts}
        n == Cardinality(Q)
    IN  IF n = 0 THEN 0 ELSE (200 * Cardinality(Q \cap R) + n) \div (2 * n)

\* serve-join: a drill is warranted when the answer leaked nothing, the text is
\* not covered and the first host in scope is signed; it runs when asked for.
Join(p) ==
    /\ At(p, "join")
    /\ LET c == call[p]
           hosts == {k \in Hosts : Sees(c.q, k)}
           fires == /\ c.q.text /\ Coverage(c) < 50 /\ c.leaked = {}
                    /\ hosts # {} /\ Min(hosts) \in Signed
                    /\ c.q.deep_serve
       IN  Goes(p, [c EXCEPT !.pc = IF fires THEN "host" ELSE "decide"])

\* Mutant: an unconfirmable host has no state at all.
HostFreshNull(q, k) ==
    IF ~Sees(q, k) THEN NULL ELSE IF node[k].dirty THEN "stale" ELSE "fresh"

\* _host_freshness: an unconfirmable host drops the section.
HostFresh(q, k) ==
    IF ~Sees(q, k) THEN "none" ELSE IF node[k].dirty THEN "stale" ELSE "fresh"

\* The drill answers with sections of some document, or is gated.
Drill(p) ==
    /\ At(p, "host")
    /\ \/ Goes(p, [call[p] EXCEPT !.pc = "decide"])
       \/ \E k \in Hosts :
             Goes(p, [call[p] EXCEPT !.pc = "decide", !.host = HostFresh(call[p].q, k)])

\* The facts of the primary and the drilled section; without any, the primary
\* itself is a claim without support.
Claims(c) ==
    LET graph == IF c.facts = {} THEN {} ELSE {~c.fresh}
        section == IF c.host = "none" THEN {} ELSE {c.host = "stale"}
        supported == {[support_status |-> "SUPPORTED", stale |-> s] : s \in graph \cup section}
    IN  IF supported = {} THEN {[support_status |-> "UNSUPPORTED", stale |-> FALSE]}
        ELSE supported

\* A cosine when a vector found the primary, and 95 for an exact match.
Confidence(c) ==
    IF c.fused[1] \in ToSet(c.vector) \cup ToSet(c.chunk) THEN Scores ELSE {95}

Decide(p) ==
    /\ At(p, "decide")
    /\ LET c == call[p]
           autonomous == c.q.role \in leased[p]
       IN  \E confidence \in Confidence(c) :
             LET final == stage_a_decision(Claims(c), c.q.action, Coverage(c), confidence)
             IN  Goes(p, [c EXCEPT !.pc = "done", !.final = final, !.autonomous = autonomous,
                                   !.executed = Executes(autonomous, final)])

\* The answer is returned, or the exception.
Return(p) ==
    /\ call[p].pc \in {"done", "raised"}
    /\ Goes(p, NoCall)

-----------------------------------------------------------------------------

Init ==
    /\ node \in [Keys -> Node]
    /\ \A k \in Keys : ~Exists(k) => node[k] = Absent
    /\ edges \in SUBSET Edge /\ IsFiniteSet(edges)
    /\ \A e \in edges : Exists(e.subj) /\ Exists(e.obj)
    /\ \A d, e \in edges : SameSlot(d, e) => d = e
    /\ granted = {}
    /\ leased = [p \in Procs |-> {}]
    /\ call = [p \in Procs |-> NoCall]

Change ==
    \/ \E k \in Keys : \/ \E n \in Namespaces : Resolve(k, n)
                       \/ Mark(k) \/ Embed(k) \/ Erase(k)
    \/ \E e \in Edge : Apply(e) \/ Retract(e)

Govern ==
    \/ \E r \in Roles : \/ Grant(r) \/ Withdraw(r)
                        \/ \E p \in Procs, below \in BOOLEAN : auto_revert(p, r, below)
    \/ \E p \in Procs : Restart(p)

Answer(p) ==
    \/ Keyword(p) \/ Graph(p) \/ Count(p) \/ NoEmbedder(p) \/ VectorRound(p) \/ Chunk(p) \/ Fuse(p)
    \/ ReadPrimary(p) \/ Compose(p) \/ Content(p)
    \/ IsolationCheck(p) \/ Join(p) \/ Drill(p) \/ Decide(p)

Next ==
    \/ Change
    \/ Govern
    \/ \E p \in Procs : Answer(p) \/ Return(p) \/ \E q \in Queries : Ask(p, q)

Spec == Init /\ [][Next]_vars

\* A call that runs keeps running.
FairSpec == Spec /\ \A p \in Procs : WF_vars(Answer(p))

-----------------------------------------------------------------------------
(* Properties                                                                 *)

\* The state is well typed, and a call that runs has a query.
TypeOK ==
    /\ node \in [Keys -> Node]
    /\ edges \subseteq Edge /\ IsFiniteSet(edges)
    /\ granted \subseteq Roles
    /\ leased \in [Procs -> SUBSET Roles]
    /\ call \in [Procs -> Call]
    /\ \A p \in Procs : At(p, "idle") \/ call[p].q \in Query

\* Fact authority leads: when an exact name or a pattern hit anything, the
\* primary is one of those hits, however often vectors and passages voted for
\* another (serve.py's red-team B1, fuse.py's tie-break), unless the caller
\* asked for the reranker.
FactFirst ==
    \A p \in Procs :
        LET c == call[p]   exact == ToSet(c.keyword) \cup ToSet(c.graph)
        IN  c.fused # <<>> /\ ~c.q.rerank /\ exact # {} => c.fused[1] \in exact

\* No recall cliff: while the index has not grown since it was counted, a
\* vector rung returns the T nearest of the nodes in scope, however many nearer
\* ones are out of scope (ladder._vector_query, 10o).
NoCliff ==
    [][\A p \in Procs :
         LET c == call[p]
         IN  /\ c.pc = "query" /\ call'[p].pc = "chunk"
             /\ Cardinality(Embedded) <= c.total
             => ToSet(call'[p].vector) = Nearest({k \in Embedded : Sees(c.q, k)}, T)]_vars

\* The role's slice: every key that an answer ranks, shows or names is in the
\* slice of the role that asked, or was erased since the call began (each read is
\* a transaction of its own, and the erased key may be somebody else's by now).
Isolation ==
    \A p \in Procs :
        LET c == call[p]
        IN  \A k \in ToSet(c.fused) \cup ToSet(c.shown) \cup Named(c) \cup {e.obj : e \in c.facts} :
                Sees(c.q, k) \/ k \in c.lost

\* A call whose self-check is behind it and has an answer to give.
Checked(c) == c.pc \in {"join", "host", "decide"} \/ (c.pc = "done" /\ c.fused # <<>>)

\* What an answer says of others is known from the self-check to its return
\* (serve.py: "measured, not assumed"; the planner raises on it).  No alarm is
\* missed: of the keys it ranks, cites or names as tickets, one that is foreign
\* was reported, or came back under another owner after the check.  None is
\* false: a key reported was erased under the call, or the prose of a node that
\* the role may read names it.  And prose of a document is added to an answer
\* only when there was none.
LeaksAreKnown ==
    \A p \in Procs :
        LET c == call[p]
            answer == ToSet(c.fused) \cup {e.obj : e \in c.facts}
                      \cup ((Named(c) \cup c.mentioned) \cap Tickets)
        IN  Checked(c) =>
                /\ \A k \in answer : Exists(k) /\ ~Sees(c.q, k) => k \in c.leaked \cup c.gone
                /\ c.leaked \subseteq c.lost \cup c.mentioned
                /\ c.host # "none" => c.leaked = {}

\* An answer acts only for a role leased to its process, on claims that were
\* all current and fresh when read, and at least one: facts of a clean primary
\* or a section of a confirmed clean host (abstain.execute, stamp.action_gate).
ActsOnFreshClaims ==
    \A p \in Procs :
        LET c == call[p]
        IN  c.executed => /\ c.autonomous
                          /\ c.facts # {} \/ c.host # "none"
                          /\ c.facts # {} => c.fresh
                          /\ c.host # "stale"

\* Autonomy is granted by humans only: a role becomes leased to a process in no
\* other way than by starting the process from a source that grants it
\* (abstain.py: "granting a lease is human-only").
OnlyHumansGrant ==
    [][\A p \in Procs : \/ leased'[p] \subseteq leased[p]
                        \/ leased'[p] = granted /\ call'[p] = NoCall]_vars

\* Every call is answered or raises, also while the graph changes under it.
CallsAnswer == \A p \in Procs : call[p].pc # "idle" ~> call[p].pc \in {"idle", "done", "raised"}

\* gate.py: security and irreversible actions have a "mandatory human auditor
\* regardless of confidence".
HardStop ==
    \A p \in Procs :
        call[p].executed => call[p].q.action.category \notin CATEGORICAL_HUMAN

Ambiguous(c) ==
    \E d, e \in c.facts : d # e /\ d.rel = e.rel /\ d.rel \in Functional

\* reconcile.py, rule 7: a card with two current edges of a functional relation
\* is never actionable.
Quarantined == \A p \in Procs : call[p].executed => ~Ambiguous(call[p])

=============================================================================

-------------------------- MODULE FreshnessProofs ---------------------------
(* Theorems of Freshness, for every set of keys, texts, writers and workers   *)
(* and every chunker and batch size.                                          *)
EXTENDS Freshness, TLAPS

\* Facts about the constants that every step uses.
LEMMA Constants ==
    /\ \A c \in Contents : c \in Text /\ c # NULL /\ Split[c] \in Nat
    /\ \A t \in Text : t # NULL => t \in Contents
    /\ NULL \in Text
BY FreshnessAssumption DEF Text

LEMMA AbsentNode == Absent \in Node /\ Absent.content = NULL /\ Absent.vec = NULL
BY Constants DEF Absent, Node

-----------------------------------------------------------------------------
(* The SET clauses, as functions of one node                                  *)

\* A node whose two signals agree, and which has no vector without a text.
Agrees(n) ==
    /\ n.vec # NULL => /\ n.embedded_rev <= n.rev
                       /\ n.dirty <=> n.embedded_rev # n.rev
    /\ n.content = NULL => n.vec = NULL

\* Equal revisions mean that the vector is that of the content.
Matches(n) == n.vec # NULL /\ n.embedded_rev = n.rev => n.vec = n.content

LEMMA AbsentAgrees == Agrees(Absent) /\ Matches(Absent)
BY DEF Agrees, Matches, Absent

\* An upsert keeps the agreement and the guarantee, and the vector of a node
\* that has one.
LEMMA BumpedFacts ==
    ASSUME NEW n \in Node, NEW c \in Contents
    PROVE  /\ Bumped(n, c) \in Node
           /\ Bumped(n, c).content = c
           /\ Agrees(n) => Agrees(Bumped(n, c)) /\ Bumped(n, c).vec = n.vec
           /\ Agrees(n) /\ Matches(n) => Matches(Bumped(n, c))
<1>0. c \in Text /\ c # NULL
  BY Constants
<1>1. CASE n.content = NULL
  <2>1. Bumped(n, c) = [content |-> c, rev |-> 1, dirty |-> FALSE, vec |-> NULL,
                        embedded_rev |-> 0]
    BY <1>1 DEF Bumped, Absent
  <2>2. Bumped(n, c) \in Node
    BY <1>0, <2>1, Constants DEF Node
  <2>3. QED
    BY <1>0, <1>1, <2>1, <2>2 DEF Agrees, Matches
<1>2. CASE n.content # NULL /\ n.content = c
  BY <1>0, <1>2 DEF Bumped
<1>3. CASE n.content # NULL /\ n.content # c
  <2>1. Bumped(n, c) = [content |-> c, rev |-> n.rev + 1, dirty |-> TRUE,
                        vec |-> n.vec, embedded_rev |-> n.embedded_rev]
    BY <1>3 DEF Bumped, Node
  <2>2. n.rev \in Nat /\ n.embedded_rev \in Nat /\ n.vec \in Text
    BY DEF Node
  <2>3. Bumped(n, c) \in Node
    BY <1>0, <2>1, <2>2 DEF Node
  <2>4. QED
    BY <1>0, <2>1, <2>2, <2>3 DEF Agrees, Matches
<1>4. QED
  BY <1>1, <1>2, <1>3

\* Resolving a node writes its text and nothing else.
LEMMA ResolvedFacts ==
    ASSUME NEW n \in Node, NEW c \in Contents
    PROVE  /\ Resolved(n, c) \in Node
           /\ Resolved(n, c).content = c
           /\ Resolved(n, c).vec = n.vec
           /\ Agrees(n) => Agrees(Resolved(n, c))
           /\ Agrees(n) /\ Matches(n) /\ n.content \in {NULL, c} => Matches(Resolved(n, c))
<1>0. c \in Text /\ c # NULL
  BY Constants
<1>1. Resolved(n, c) = [content |-> c, rev |-> n.rev, dirty |-> n.dirty,
                        vec |-> n.vec, embedded_rev |-> n.embedded_rev]
  BY DEF Resolved, Node
<1>2. Resolved(n, c) \in Node
  BY <1>0, <1>1 DEF Node
<1>3. QED
  BY <1>0, <1>1, <1>2 DEF Agrees, Matches

\* Marking a node puts its revision ahead of the embedded one.
LEMMA MarkedFacts ==
    ASSUME NEW n \in Node
    PROVE  /\ Marked(n) \in Node
           /\ Marked(n).vec = n.vec /\ Marked(n).content = n.content
           /\ Agrees(n) => Agrees(Marked(n)) /\ Matches(Marked(n))
<1>0. n.rev \in Nat /\ n.embedded_rev \in Nat
  BY DEF Node
<1>1. Marked(n) \in Node
  <2>1. [n EXCEPT !.dirty = TRUE] \in Node
    BY DEF Node
  <2>2. \A m \in Node : [m EXCEPT !.rev = n.rev + 1] \in Node
    BY <1>0 DEF Node
  <2>3. Marked(n) = [[n EXCEPT !.dirty = TRUE] EXCEPT !.rev = n.rev + 1]
    BY <1>0 DEF Marked, Node
  <2>4. QED
    BY <2>1, <2>2, <2>3
<1>2. /\ Marked(n).content = n.content /\ Marked(n).vec = n.vec
      /\ Marked(n).embedded_rev = n.embedded_rev
      /\ Marked(n).rev = n.rev + 1 /\ Marked(n).dirty = TRUE
  BY <1>0 DEF Marked, Node
<1>3. QED
  BY <1>0, <1>1, <1>2 DEF Agrees, Matches

\* Embedding makes the signals equal, and the guarantee true when the text that
\* is embedded is the node's.
LEMMA EmbeddedFacts ==
    ASSUME NEW n \in Node, NEW c \in Contents
    PROVE  /\ Embedded(n, c) \in Node
           /\ n.content = NULL => Embedded(n, c) = n
           /\ n.content # NULL => Embedded(n, c).vec = c
           /\ Embedded(n, c).content = n.content
           /\ Agrees(n) => Agrees(Embedded(n, c))
           /\ n.content = c => Matches(Embedded(n, c))
<1>0. c \in Text /\ c # NULL
  BY Constants
<1>1. CASE n.content = NULL
  BY <1>0, <1>1 DEF Embedded
<1>2. CASE n.content # NULL
  <2>1. n.rev \in Nat /\ n.content \in Text
    BY DEF Node
  <2>2. Embedded(n, c) = [content |-> n.content, rev |-> n.rev, dirty |-> FALSE,
                          vec |-> c, embedded_rev |-> n.rev]
    BY <1>2 DEF Embedded, Node
  <2>3. Embedded(n, c) \in Node
    BY <1>0, <2>1, <2>2 DEF Node
  <2>4. QED
    BY <1>0, <1>2, <2>1, <2>2, <2>3 DEF Agrees, Matches
<1>3. QED
  BY <1>1, <1>2

\* The chunks of a text are pairs of a position and that text.
LEMMA PassagesTyped ==
    ASSUME NEW c \in Contents
    PROVE  Passages(c) \subseteq Nat \X Contents
<1>1. Split[c] \in Nat
  BY Constants
<1>2. QED
  BY <1>1 DEF Passages

-----------------------------------------------------------------------------
(* The inductive invariant                                                    *)

NodesAgree == \A k \in Keys : Agrees(node[k])

Typed ==
    /\ node \in [Keys -> Node]
    /\ chunks \in [Keys -> SUBSET (Nat \X Contents)]
    /\ job \in [Workers -> Job]

Inv == Typed /\ NodesAgree /\ ChunksFollowVector

LEMMA InvSignals == Inv => SignalsAgree
BY DEF Inv, NodesAgree, Agrees, SignalsAgree

\* The chunks that go with a vector.
ChunksOf(vec) == IF vec = NULL THEN {} ELSE Passages(vec)

LEMMA ChunksOfTyped ==
    ASSUME NEW vec \in Text
    PROVE  ChunksOf(vec) \in SUBSET (Nat \X Contents)
BY PassagesTyped, Constants DEF ChunksOf

\* A step that replaces one node keeps the invariant when the new node agrees
\* and its chunks are those of its vector.
LEMMA NodeStep ==
    ASSUME Inv, NEW k \in Keys, NEW n \in Node, Agrees(n),
           node' = [node EXCEPT ![k] = n],
           chunks' = [chunks EXCEPT ![k] = ChunksOf(n.vec)],
           job' \in [Workers -> Job]
    PROVE  Inv'
<1>1. /\ node' \in [Keys -> Node] /\ node'[k] = n
      /\ \A j \in Keys \ {k} : node'[j] = node[j]
  BY DEF Inv, Typed
<1>2. n.vec \in Text
  BY DEF Node
<1>3. /\ chunks' \in [Keys -> SUBSET (Nat \X Contents)] /\ chunks'[k] = ChunksOf(n.vec)
      /\ \A j \in Keys \ {k} : chunks'[j] = chunks[j]
  BY <1>2, ChunksOfTyped DEF Inv, Typed
<1>4. Typed'
  BY <1>1, <1>3 DEF Typed
<1>5. NodesAgree'
  BY <1>1 DEF Inv, NodesAgree, Agrees
<1>6. ChunksFollowVector'
  BY <1>1, <1>3 DEF Inv, ChunksFollowVector, ChunksOf
<1>7. QED
  BY <1>4, <1>5, <1>6 DEF Inv

\* The same when the vector, and so the chunks, stay as they are.
LEMMA TextStep ==
    ASSUME Inv, NEW k \in Keys, NEW n \in Node, Agrees(n), n.vec = node[k].vec,
           node' = [node EXCEPT ![k] = n],
           UNCHANGED chunks,
           job' \in [Workers -> Job]
    PROVE  Inv'
<1>1. chunks[k] = ChunksOf(n.vec)
  BY DEF Inv, ChunksFollowVector, ChunksOf
<1>2. chunks' = [chunks EXCEPT ![k] = ChunksOf(n.vec)]
  BY <1>1 DEF Inv, Typed
<1>3. QED
  BY <1>2, NodeStep

\* A step of a pass alone keeps the invariant.
LEMMA JobStep ==
    ASSUME Inv, UNCHANGED <<node, chunks>>, job' \in [Workers -> Job]
    PROVE  Inv'
BY DEF Inv, Typed, NodesAgree, ChunksFollowVector

LEMMA IdleJob == Idle \in Job /\ Nothing \in [Keys -> Text]
BY Constants DEF Idle, Nothing, Job, Kinds

\* Starting a pass or a row puts one well-typed job in place.
LEMMA StartStep ==
    ASSUME Inv, NEW w \in Workers, NEW kind \in Kinds, NEW todo \in SUBSET Keys,
           NEW got \in [Keys -> Text], NEW old \in Text,
           Start(w, kind, todo, got, old)
    PROVE  Inv'
<1>1. [kind |-> kind, todo |-> todo, got |-> got, old |-> old] \in Job
  BY DEF Job
<1>2. job' \in [Workers -> Job]
  BY <1>1 DEF Start, Inv, Typed
<1>3. QED
  BY <1>2, JobStep DEF Start

LEMMA ReadTyped ==
    ASSUME Typed, NEW S \in SUBSET Keys
    PROVE  Read(S) \in [Keys -> Text]
<1>1. \A k \in Keys : node[k].content \in Text
  BY DEF Typed, Node
<1>2. QED
  BY <1>1, Constants DEF Read

-----------------------------------------------------------------------------
(* One lemma per action                                                       *)

LEMMA UpsertInv ==
    ASSUME Inv, NEW k \in Keys, NEW c \in Contents, Upsert(k, c)
    PROVE  Inv'
<1>1. node[k] \in Node /\ Agrees(node[k]) /\ job \in [Workers -> Job]
  BY DEF Inv, Typed, NodesAgree
<1>2. QED
  BY <1>1, BumpedFacts, TextStep DEF Upsert

LEMMA IngestOcrInv ==
    ASSUME Inv, NEW k \in Keys, NEW c \in Contents, IngestOcr(k, c)
    PROVE  Inv'
<1> DEFINE n == Bumped(node[k], c)
           e == Embedded(n, c)
<1>1. node[k] \in Node /\ Agrees(node[k]) /\ job \in [Workers -> Job]
  BY DEF Inv, Typed, NodesAgree
<1>2. n \in Node /\ n.content = c /\ Agrees(n)
  BY <1>1, BumpedFacts
<1>3. e \in Node /\ e.vec = c /\ Agrees(e)
  BY <1>2, EmbeddedFacts, Constants
<1>4. ChunksOf(e.vec) = Passages(c)
  BY <1>3, Constants DEF ChunksOf
<1>5. /\ node' = [node EXCEPT ![k] = e]
      /\ chunks' = [chunks EXCEPT ![k] = ChunksOf(e.vec)]
      /\ job' \in [Workers -> Job]
  BY <1>1, <1>4 DEF IngestOcr
<1>6. QED
  BY <1>3, <1>5, NodeStep

LEMMA ResolveProjectInv ==
    ASSUME Inv, NEW k \in Keys, NEW c \in Contents, ResolveProject(k, c)
    PROVE  Inv'
<1>1. node[k] \in Node /\ Agrees(node[k]) /\ job \in [Workers -> Job]
  BY DEF Inv, Typed, NodesAgree
<1>2. QED
  BY <1>1, ResolvedFacts, TextStep DEF ResolveProject

LEMMA DeleteInv ==
    ASSUME Inv, NEW k \in Keys, Delete(k)
    PROVE  Inv'
<1>1. job \in [Workers -> Job]
  BY DEF Inv, Typed
<1>2. ChunksOf(Absent.vec) = {}
  BY AbsentNode DEF ChunksOf
<1>3. QED
  BY <1>1, <1>2, AbsentNode, AbsentAgrees, NodeStep DEF Delete

LEMMA StartSweepInv ==
    ASSUME Inv, NEW w \in Workers, StartSweep(w)
    PROVE  Inv'
<1>1. PICK S \in SUBSET Dirty : Start(w, "sweep", S, Read(S), NULL)
  BY DEF StartSweep
<1>2. S \in SUBSET Keys /\ "sweep" \in Kinds
  BY DEF Dirty, Kinds
<1>3. Read(S) \in [Keys -> Text]
  BY <1>2, ReadTyped DEF Inv
<1>4. QED
  BY <1>1, <1>2, <1>3, StartStep, Constants

LEMMA StartHistoryInv ==
    ASSUME Inv, NEW w \in Workers, NEW all \in BOOLEAN, StartHistory(w, all)
    PROVE  Inv'
<1>1. PICK S \in SUBSET Keys : Start(w, "history", S, Read(S), NULL)
  BY DEF StartHistory
<1>2. "history" \in Kinds /\ Read(S) \in [Keys -> Text]
  BY ReadTyped DEF Inv, Kinds
<1>3. QED
  BY <1>1, <1>2, StartStep, Constants

LEMMA StartSeedInv ==
    ASSUME Inv, NEW w \in Workers, StartSeed(w)
    PROVE  Inv'
<1>1. PICK S \in SUBSET Keys : Start(w, "seed", S, Nothing, NULL)
  BY DEF StartSeed
<1>2. "seed" \in Kinds
  BY DEF Kinds
<1>3. QED
  BY <1>1, <1>2, IdleJob, StartStep, Constants

LEMMA StartRowInv ==
    ASSUME Inv, NEW w \in Workers, NEW k \in Keys, NEW c \in Contents, StartRow(w, k, c)
    PROVE  Inv'
<1> DEFINE got == [Nothing EXCEPT ![k] = c]
<1>1. Start(w, "row", {k}, got, node[k].content)
  BY DEF StartRow
<1>2. "row" \in Kinds /\ {k} \in SUBSET Keys
  BY DEF Kinds
<1>3. got \in [Keys -> Text]
  BY IdleJob, Constants
<1>4. node[k].content \in Text
  BY DEF Inv, Typed, Node
<1>5. QED
  BY <1>1, <1>2, <1>3, <1>4, StartStep

\* What a row makes of its node.
Rewritten(n, c, old) ==
    IF old \notin {NULL, Resolved(n, c).content} THEN Marked(Resolved(n, c))
    ELSE Resolved(n, c)

LEMMA RewrittenFacts ==
    ASSUME NEW n \in Node, NEW c \in Contents, NEW old
    PROVE  /\ Rewritten(n, c, old) \in Node
           /\ Rewritten(n, c, old).content = c
           /\ Rewritten(n, c, old).vec = n.vec
           /\ Agrees(n) => Agrees(Rewritten(n, c, old))
           /\ Agrees(n) /\ Matches(n) /\ n.content = old => Matches(Rewritten(n, c, old))
<1>1. PICK r \in Node : r = Resolved(n, c)
  BY ResolvedFacts
<1>2. /\ r.content = c /\ r.vec = n.vec
      /\ Agrees(n) => Agrees(r)
      /\ Agrees(n) /\ Matches(n) /\ n.content \in {NULL, c} => Matches(r)
  BY <1>1, ResolvedFacts, Zenon
<1>3. CASE old \notin {NULL, r.content}
  <2>1. Rewritten(n, c, old) = Marked(r)
    BY <1>1, <1>3 DEF Rewritten
  <2>2. /\ Marked(r) \in Node /\ Marked(r).content = r.content /\ Marked(r).vec = r.vec
        /\ Agrees(r) => Agrees(Marked(r)) /\ Matches(Marked(r))
    BY MarkedFacts, Zenon
  <2>3. QED
    BY <1>2, <2>1, <2>2, Zenon
<1>4. CASE old \in {NULL, r.content}
  <2>1. Rewritten(n, c, old) = r
    BY <1>1, <1>4 DEF Rewritten
  <2>2. n.content = old => n.content \in {NULL, c}
    BY <1>2, <1>4
  <2>3. QED
    BY <1>2, <2>1, <2>2, Zenon
<1>5. QED
  BY <1>3, <1>4

\* The row of WriteRow has a text of Contents.
RowTexts ==
    \A w \in Workers : job[w].kind = "row" =>
        \A k \in job[w].todo : job[w].got[k] \in Contents

LEMMA WriteRowStep ==
    ASSUME Typed, NEW w \in Workers, WriteRow(w)
    PROVE  \E k \in job[w].todo :
               /\ k \in Keys
               /\ node' = [node EXCEPT ![k] = Rewritten(node[k], job[w].got[k], job[w].old)]
<1>1. job[w].todo \subseteq Keys
  BY DEF Typed, Job
<1>2. QED
  BY <1>1 DEF WriteRow, Rewritten

LEMMA WriteRowInv ==
    ASSUME Inv, RowTexts, NEW w \in Workers, WriteRow(w)
    PROVE  Inv'
<1>1. PICK k \in job[w].todo :
         /\ k \in Keys
         /\ node' = [node EXCEPT ![k] = Rewritten(node[k], job[w].got[k], job[w].old)]
  BY WriteRowStep DEF Inv
<1>2. job[w].got[k] \in Contents
  BY <1>1 DEF RowTexts, WriteRow
<1>3. node[k] \in Node /\ Agrees(node[k])
  BY <1>1 DEF Inv, Typed, NodesAgree
<1>4. job' \in [Workers -> Job] /\ UNCHANGED chunks
  BY IdleJob DEF WriteRow, Inv, Typed
<1> DEFINE n == Rewritten(node[k], job[w].got[k], job[w].old)
<1>5. n \in Node /\ n.vec = node[k].vec /\ Agrees(n)
  BY <1>2, <1>3, RewrittenFacts
<1>6. node' = [node EXCEPT ![k] = n]
  BY <1>1
<1> HIDE DEF n
<1>7. QED
  BY <1>1, <1>4, <1>5, <1>6, TextStep

LEMMA ReadSeedInv ==
    ASSUME Inv, NEW w \in Workers, NEW k \in Keys, ReadSeed(w, k)
    PROVE  Inv'
<1>0. node[k].content \in Text /\ job \in [Workers -> Job]
  BY DEF Inv, Typed, Node
<1>1. CASE Exists(k)
  <2> DEFINE got == [job[w].got EXCEPT ![k] = node[k].content]
  <2>1. got \in [Keys -> Text]
    BY <1>0 DEF Job
  <2>2. \A g \in [Keys -> Text] : [job[w] EXCEPT !.got = g] \in Job
    BY <1>0 DEF Job
  <2>3. [job[w] EXCEPT !.got = got] \in Job
    BY <2>1, <2>2
  <2>4. job' = [job EXCEPT ![w] = [job[w] EXCEPT !.got = got]]
    BY <1>0, <1>1 DEF ReadSeed
  <2> HIDE DEF got
  <2>5. job' \in [Workers -> Job]
    BY <1>0, <2>3, <2>4
  <2>6. QED
    BY <2>5, JobStep DEF ReadSeed
<1>2. CASE ~Exists(k)
  <2>1. job' = [job EXCEPT ![w] = Idle]
    BY <1>2 DEF ReadSeed
  <2>2. job' \in [Workers -> Job]
    BY <1>0, <2>1, IdleJob
  <2>3. QED
    BY <2>2, JobStep DEF ReadSeed
<1>3. QED
  BY <1>1, <1>2

\* What is left of a pass that has embedded k.
LeftAfter(j, k) ==
    IF j.todo = {k} THEN Idle ELSE [j EXCEPT !.todo = j.todo \ {k}, !.got[k] = NULL]

LEMMA LeftAfterFacts ==
    ASSUME NEW j \in Job, NEW k \in Keys
    PROVE  /\ LeftAfter(j, k) \in Job
           /\ LeftAfter(j, k) # Idle =>
                /\ LeftAfter(j, k).kind = j.kind
                /\ LeftAfter(j, k).todo \subseteq j.todo
                /\ \A i \in Keys : LeftAfter(j, k).got[i] \in {NULL, j.got[i]}
<1>1. CASE j.todo = {k}
  BY <1>1, IdleJob DEF LeftAfter
<1>2. CASE j.todo # {k}
  <2> DEFINE got == [j.got EXCEPT ![k] = NULL]
  <2>1. got \in [Keys -> Text] /\ \A i \in Keys : got[i] \in {NULL, j.got[i]}
    BY Constants DEF Job
  <2>2. j.todo \ {k} \in SUBSET Keys /\ j.todo \ {k} \subseteq j.todo
    BY DEF Job
  <2>3. LeftAfter(j, k) = [j EXCEPT !.todo = j.todo \ {k}, !.got = got]
    BY <1>2 DEF LeftAfter
  <2>4. \A t \in SUBSET Keys : /\ [j EXCEPT !.todo = t] \in Job
                                 /\ [j EXCEPT !.todo = t].kind = j.kind
                                 /\ [j EXCEPT !.todo = t].todo = t
    BY DEF Job
  <2>5. \A m \in Job, g \in [Keys -> Text] : /\ [m EXCEPT !.got = g] \in Job
                                             /\ [m EXCEPT !.got = g].kind = m.kind
                                             /\ [m EXCEPT !.got = g].todo = m.todo
                                             /\ [m EXCEPT !.got = g].got = g
    BY DEF Job
  <2> HIDE DEF got
  <2>6. LeftAfter(j, k) = [[j EXCEPT !.todo = j.todo \ {k}] EXCEPT !.got = got]
    BY <2>3
  <2>7. PICK m \in Job : /\ m = [j EXCEPT !.todo = j.todo \ {k}]
                         /\ m.kind = j.kind /\ m.todo = j.todo \ {k}
    BY <2>2, <2>4
  <2>8. LeftAfter(j, k) = [m EXCEPT !.got = got]
    BY <2>6, <2>7
  <2>9. LeftAfter(j, k) \in Job
    BY <2>1, <2>5, <2>7, <2>8
  <2>10. LeftAfter(j, k).kind = j.kind
    BY <2>1, <2>5, <2>7, <2>8
  <2>11. LeftAfter(j, k).todo = j.todo \ {k}
    BY <2>1, <2>5, <2>7, <2>8
  <2>12. LeftAfter(j, k).got = got
    BY <2>1, <2>5, <2>7, <2>8
  <2>13. QED
    BY <2>1, <2>9, <2>10, <2>11, <2>12
<1>3. QED
  BY <1>1, <1>2

LEMMA EmbedNodeInv ==
    ASSUME Inv, NEW w \in Workers, NEW k \in Keys, EmbedNode(w, k)
    PROVE  Inv'
<1> DEFINE c == job[w].got[k]
           n == Embedded(node[k], c)
<1>0. /\ node[k] \in Node /\ Agrees(node[k]) /\ job[w] \in Job
      /\ job \in [Workers -> Job]
  BY DEF Inv, Typed, NodesAgree
<1>1. c \in Contents
  <2>1. c \in Text /\ c # NULL
    BY <1>0 DEF Job, EmbedNode
  <2>2. QED
    BY <2>1, Constants
<1>2. n \in Node /\ Agrees(n)
  BY <1>0, <1>1, EmbeddedFacts
<1>3. Rechunked(k, c) = ChunksOf(n.vec)
  <2>1. CASE node[k].content = NULL
    <3>1. n = node[k] /\ n.vec = NULL
      BY <1>0, <1>1, <2>1, EmbeddedFacts DEF Agrees
    <3>2. QED
      BY <2>1, <3>1 DEF Rechunked, ChunksOf, Exists
  <2>2. CASE node[k].content # NULL
    <3>1. n.vec = c
      BY <1>0, <1>1, <2>2, EmbeddedFacts
    <3>2. QED
      BY <1>1, <2>2, <3>1, Constants DEF Rechunked, ChunksOf, Exists
  <2>3. QED
    BY <2>1, <2>2
<1>4. job' = [job EXCEPT ![w] = LeftAfter(job[w], k)]
  BY DEF EmbedNode, LeftAfter
<1>5. job' \in [Workers -> Job]
  BY <1>0, <1>4, LeftAfterFacts
<1>6. node' = [node EXCEPT ![k] = n] /\ chunks' = [chunks EXCEPT ![k] = ChunksOf(n.vec)]
  BY <1>3 DEF EmbedNode
<1> HIDE DEF n
<1>7. QED
  BY <1>2, <1>5, <1>6, NodeStep

LEMMA AbandonInv ==
    ASSUME Inv, NEW w \in Workers, Abandon(w)
    PROVE  Inv'
<1>1. job' \in [Workers -> Job]
  BY IdleJob DEF Abandon, Inv, Typed
<1>2. QED
  BY <1>1, JobStep DEF Abandon

\* A job that is replaced by one whose texts are texts keeps RowTexts.
RowText(j) == j.kind = "row" => \A k \in j.todo : j.got[k] \in Contents

LEMMA RowTextsStep ==
    ASSUME Inv, RowTexts, NEW w \in Workers, NEW j,
           job' = [job EXCEPT ![w] = j], RowText(j)
    PROVE  RowTexts'
BY DEF Inv, Typed, RowTexts, RowText

LEMMA IdleIsNoRow == RowText(Idle) /\ Idle.kind = "none"
BY DEF RowText, Idle

LEMMA StartIsNoRow ==
    ASSUME Inv, RowTexts, NEW w \in Workers, NEW kind \in Kinds \ {"row"},
           NEW todo, NEW got, NEW old, Start(w, kind, todo, got, old)
    PROVE  RowTexts'
<1> DEFINE j == [kind |-> kind, todo |-> todo, got |-> got, old |-> old]
<1>1. RowText(j)
  BY DEF RowText
<1>2. job' = [job EXCEPT ![w] = j]
  BY DEF Start
<1> HIDE DEF j
<1>3. QED
  BY <1>1, <1>2, RowTextsStep

LEMMA NextRowTexts ==
    ASSUME Inv, RowTexts, [Next]_vars
    PROVE  RowTexts'
<1>1. CASE UNCHANGED vars \/ Edit
  <2>1. UNCHANGED job
    BY <1>1 DEF vars, Edit, Upsert, IngestOcr, ResolveProject, Delete
  <2>2. QED
    BY <2>1 DEF RowTexts
<1>2. ASSUME NEW w \in Workers, NEW k \in Keys, NEW c \in Contents, StartRow(w, k, c)
      PROVE  RowTexts'
  <2> DEFINE j == [kind |-> "row", todo |-> {k}, got |-> [Nothing EXCEPT ![k] = c],
                   old |-> node[k].content]
  <2>1. RowText(j)
    BY IdleJob DEF RowText
  <2>2. job' = [job EXCEPT ![w] = j]
    BY <1>2 DEF StartRow, Start
  <2> HIDE DEF j
  <2>3. QED
    BY <2>1, <2>2, RowTextsStep
<1>3. ASSUME NEW w \in Workers,
             StartSweep(w) \/ StartSeed(w) \/ \E all \in BOOLEAN : StartHistory(w, all)
      PROVE  RowTexts'
  <2>1. \E kind \in Kinds \ {"row"}, todo \in SUBSET Keys, got \in [Keys -> Text] :
            Start(w, kind, todo, got, NULL)
    <3>1. {"sweep", "history", "seed"} \subseteq Kinds \ {"row"}
      BY DEF Kinds
    <3>2. \A S \in SUBSET Keys : Read(S) \in [Keys -> Text]
      BY ReadTyped DEF Inv
    <3>3. CASE StartSweep(w)
      BY <3>1, <3>2, <3>3 DEF StartSweep, Dirty
    <3>4. CASE StartSeed(w)
      BY <3>1, <3>4, IdleJob DEF StartSeed
    <3>5. CASE \E all \in BOOLEAN : StartHistory(w, all)
      BY <3>1, <3>2, <3>5 DEF StartHistory
    <3>6. QED
      BY <1>3, <3>3, <3>4, <3>5
  <2>2. QED
    BY <2>1, StartIsNoRow
<1>4. ASSUME NEW w \in Workers, WriteRow(w) \/ Abandon(w)
      PROVE  RowTexts'
  <2>1. job' = [job EXCEPT ![w] = Idle]
    BY <1>4 DEF WriteRow, Abandon
  <2>2. QED
    BY <2>1, IdleIsNoRow, RowTextsStep
<1>5. ASSUME NEW w \in Workers, NEW k \in Keys, ReadSeed(w, k)
      PROVE  RowTexts'
  <2>0. job \in [Workers -> Job]
    BY DEF Inv, Typed
  <2>1. job' \in [Workers -> Job] /\ job'[w].kind # "row"
    BY <1>5, <2>0, ReadSeedInv, IdleIsNoRow DEF ReadSeed, Job, Inv, Typed
  <2>2. \A v \in Workers \ {w} : job'[v] = job[v]
    BY <1>5, <2>0 DEF ReadSeed
  <2>3. QED
    BY <2>1, <2>2 DEF RowTexts
<1>6. ASSUME NEW w \in Workers, NEW k \in Keys, EmbedNode(w, k)
      PROVE  RowTexts'
  <2>1. job' = [job EXCEPT ![w] = LeftAfter(job[w], k)]
    BY <1>6 DEF EmbedNode, LeftAfter
  <2>2. job[w] \in Job /\ job[w].kind # "row"
    BY <1>6 DEF EmbedNode, Inv, Typed
  <2>3. RowText(LeftAfter(job[w], k))
    BY <2>2, LeftAfterFacts, IdleIsNoRow DEF RowText
  <2>4. QED
    BY <2>1, <2>3, RowTextsStep
<1>7. QED
  BY <1>1, <1>2, <1>3, <1>4, <1>5, <1>6 DEF Next, Step, BeginRow, BeginSweep, BeginPass, Continue

LEMMA NextInv ==
    ASSUME Inv, RowTexts, [Next]_vars
    PROVE  Inv'
<1>1. CASE UNCHANGED vars
  BY <1>1, JobStep DEF vars, Inv, Typed
<1>2. CASE Edit
  BY <1>2, UpsertInv, IngestOcrInv, ResolveProjectInv, DeleteInv DEF Edit
<1>3. CASE BeginRow
  BY <1>3, StartRowInv DEF BeginRow
<1>4. CASE BeginSweep
  BY <1>4, StartSweepInv DEF BeginSweep
<1>5. CASE BeginPass
  BY <1>5, StartHistoryInv, StartSeedInv DEF BeginPass
<1>6. ASSUME NEW w \in Workers, Continue(w) \/ Abandon(w)
      PROVE  Inv'
  BY <1>6, WriteRowInv, ReadSeedInv, EmbedNodeInv, AbandonInv DEF Continue
<1>7. QED
  BY <1>1, <1>2, <1>3, <1>4, <1>5, <1>6 DEF Next, Step

LEMMA InitInv == Init => Inv /\ RowTexts
<1> SUFFICES ASSUME Init PROVE Inv /\ RowTexts
  OBVIOUS
<1>1. Typed
  BY AbsentNode, IdleJob DEF Init, Typed
<1>2. NodesAgree
  BY AbsentAgrees DEF Init, NodesAgree
<1>3. ChunksFollowVector
  BY AbsentNode DEF Init, ChunksFollowVector
<1>4. RowTexts
  BY IdleIsNoRow DEF Init, RowTexts
<1>5. QED
  BY <1>1, <1>2, <1>3, <1>4 DEF Inv

\* The inductive invariant: type, agreement of the two staleness signals,
\* chunks that follow the vector, and a text in hand for every row
\* (etl_history._resolve_embeddable).
THEOREM Invariance == Spec => [](Inv /\ RowTexts)
<1>1. Inv /\ RowTexts /\ [Next]_vars => (Inv /\ RowTexts)'
  BY NextInv, NextRowTexts
<1>2. QED
  BY InitInv, <1>1, PTL DEF Spec

\* The state is well typed at all times (ONTOLOGY_SCHEMA section 11's properties).
THEOREM TypeCorrect == Spec => []TypeOK
<1>1. Init => overtaken \subseteq Keys
  BY DEF Init
<1>2. overtaken \subseteq Keys /\ [Next]_vars => (overtaken \subseteq Keys)'
  BY DEF Next, vars
<1>3. Inv /\ overtaken \subseteq Keys => TypeOK
  BY DEF Inv, Typed, TypeOK
<1>4. QED
  BY Invariance, <1>1, <1>2, <1>3, PTL DEF Spec

\* The dirty flag is up exactly while the embedded revision is behind, whatever
\* writers, passes, deletions and deaths of processes overlap (ONTOLOGY_SCHEMA
\* section 11's two signals, written by etl.upsert_entity, mutate.mark_dirty and
\* embed.embed_node).
THEOREM SignalsTheorem == Spec => []SignalsAgree
BY Invariance, InvSignals, PTL

\* The :Chunk nodes of a node are those of the text of its vector, whatever
\* overlaps (embed.embed_node drops and materializes them in one transaction).
THEOREM ChunksTheorem == Spec => []ChunksFollowVector
<1>1. Inv => ChunksFollowVector
  BY DEF Inv
<1>2. QED
  BY Invariance, <1>1, PTL

-----------------------------------------------------------------------------
(* While no text changes under a worker's hand                                *)

\* What a worker holds goes with its node: a pass holds the node's text, and a
\* row has read it.
Fits(j, k) == j.got[k] # NULL => node[k].content = IF j.kind = "row" THEN j.old ELSE j.got[k]

Tells(k) == Writer[k] # "project" => Matches(node[k])

KeyInv(k) == Tells(k) /\ \A w \in Workers : Fits(job[w], k)

OvertakenInv == \A k \in Keys \ overtaken : KeyInv(k)

\* A worker keeps what it holds of k, drops it or takes it from the node.
Takes(w, k) ==
    \/ job'[w].got[k] = NULL
    \/ /\ job'[w].got[k] = job[w].got[k]
       /\ job'[w].kind = job[w].kind /\ job'[w].old = job[w].old
    \/ job'[w].kind # "row" /\ job'[w].got[k] = node[k].content
    \/ job'[w].kind = "row" /\ job'[w].old = node[k].content

\* So it fits as long as the text of k stays, and when the text changes nobody
\* may hold one.
LEMMA FitsStep ==
    ASSUME NEW k \in Keys, \A w \in Workers : Fits(job[w], k), ~Overtakes(k),
           NEW w \in Workers, Takes(w, k)
    PROVE  Fits(job[w], k)'
<1>1. CASE job'[w].got[k] = NULL
  BY <1>1 DEF Fits
<1>2. CASE job'[w].got[k] # NULL
  <2>1. node'[k].content = node[k].content
    BY <1>2 DEF Overtakes, Held
  <2>2. Fits(job[w], k)
    OBVIOUS
  <2>3. QED
    BY <1>2, <2>1, <2>2 DEF Fits, Takes
<1>3. QED
  BY <1>1, <1>2

LEMMA IdleHolds == \A k \in Keys : Idle.got[k] = NULL
BY DEF Idle, Nothing

\* When only worker w's job is replaced, the others keep what they hold.
LEMMA TakesStep ==
    ASSUME Inv, NEW k \in Keys, NEW w \in Workers, NEW j,
           job' = [job EXCEPT ![w] = j],
           \/ j.got[k] = NULL
           \/ j.got[k] = job[w].got[k] /\ j.kind = job[w].kind /\ j.old = job[w].old
           \/ j.kind # "row" /\ j.got[k] = node[k].content
           \/ j.kind = "row" /\ j.old = node[k].content
    PROVE  \A v \in Workers : Takes(v, k)
<1>1. \A v \in Workers : job'[v] = IF v = w THEN j ELSE job[v]
  BY DEF Inv, Typed
<1>2. QED
  BY <1>1 DEF Takes

LEMMA NodeIs ==
    ASSUME Inv, NEW k \in Keys, NEW n \in Node, node' = [node EXCEPT ![k] = n]
    PROVE  \A i \in Keys : node'[i] = IF i = k THEN n ELSE node[i]
BY DEF Inv, Typed

LEMMA EditTakes ==
    ASSUME Inv, NEW k \in Keys, Tells(k), Edit
    PROVE  Tells(k)' /\ \A w \in Workers : Takes(w, k)
<1>0. \A i \in Keys : node[i] \in Node /\ Agrees(node[i])
  BY DEF Inv, Typed, NodesAgree
<1>1. UNCHANGED job
  BY DEF Edit, Upsert, IngestOcr, ResolveProject, Delete
<1>2. \A w \in Workers : Takes(w, k)
  BY <1>1 DEF Takes
<1>3. ASSUME NEW i \in Keys, NEW c \in Contents, Upsert(i, c)
      PROVE  Tells(k)'
  <2>1. Bumped(node[i], c) \in Node /\ (Matches(node[i]) => Matches(Bumped(node[i], c)))
    BY <1>0, BumpedFacts
  <2>2. node'[k] = IF k = i THEN Bumped(node[i], c) ELSE node[k]
    BY <1>3, <2>1, NodeIs DEF Upsert
  <2>3. QED
    BY <2>1, <2>2 DEF Tells, Matches
<1>4. ASSUME NEW i \in Keys, NEW c \in Contents, IngestOcr(i, c)
      PROVE  Tells(k)'
  <2>1. Bumped(node[i], c) \in Node /\ Bumped(node[i], c).content = c
    BY <1>0, BumpedFacts
  <2>2. PICK n \in Node : n = Embedded(Bumped(node[i], c), c) /\ Matches(n)
    BY <2>1, EmbeddedFacts
  <2>3. node'[k] = IF k = i THEN n ELSE node[k]
    BY <1>4, <2>2, NodeIs DEF IngestOcr
  <2>4. QED
    BY <2>2, <2>3 DEF Tells, Matches
<1>5. ASSUME NEW i \in Keys, NEW c \in Contents, ResolveProject(i, c)
      PROVE  Tells(k)'
  <2>1. Writer[i] = "project" /\ Resolved(node[i], c) \in Node
    BY <1>0, <1>5, ResolvedFacts DEF ResolveProject
  <2>2. node'[k] = IF k = i THEN Resolved(node[i], c) ELSE node[k]
    BY <1>5, <2>1, NodeIs DEF ResolveProject
  <2>3. QED
    BY <2>1, <2>2 DEF Tells, Matches
<1>6. ASSUME NEW i \in Keys, Delete(i)
      PROVE  Tells(k)'
  <2>1. node'[k] = IF k = i THEN Absent ELSE node[k]
    BY <1>6, AbsentNode, NodeIs DEF Delete
  <2>2. QED
    BY <2>1, AbsentAgrees DEF Tells, Matches
<1>7. QED
  BY <1>2, <1>3, <1>4, <1>5, <1>6 DEF Edit

\* A pass that starts reads the text of its nodes, or nothing yet.
LEMMA BeginTakes ==
    ASSUME Inv, NEW k \in Keys, Tells(k), BeginSweep \/ BeginPass
    PROVE  Tells(k)' /\ \A w \in Workers : Takes(w, k)
<1>0. PICK w \in Workers, kind \in Kinds \ {"row"}, S \in SUBSET Keys :
           \E got \in {Read(S), Nothing} : Start(w, kind, S, got, NULL)
  <2>1. {"sweep", "history", "seed"} \subseteq Kinds \ {"row"}
    BY DEF Kinds
  <2>2. CASE BeginSweep
    BY <2>1, <2>2 DEF BeginSweep, StartSweep, Dirty
  <2>3. CASE BeginPass
    BY <2>1, <2>3 DEF BeginPass, StartHistory, StartSeed
  <2>4. QED
    BY <2>2, <2>3
<1>1. PICK got \in {Read(S), Nothing} : Start(w, kind, S, got, NULL)
  BY <1>0
<1> DEFINE j == [kind |-> kind, todo |-> S, got |-> got, old |-> NULL]
<1>2. j.kind # "row" /\ j.got[k] \in {NULL, node[k].content}
  BY DEF Read, Nothing
<1>3. job' = [job EXCEPT ![w] = j] /\ UNCHANGED node
  BY <1>1 DEF Start
<1> HIDE DEF j
<1>4. QED
  BY <1>2, <1>3, TakesStep DEF Tells, Matches

LEMMA RowTakes ==
    ASSUME Inv, NEW k \in Keys, Tells(k), BeginRow
    PROVE  Tells(k)' /\ \A w \in Workers : Takes(w, k)
<1>1. PICK w \in Workers, i \in Keys, c \in Contents : StartRow(w, i, c)
  BY DEF BeginRow
<1> DEFINE j == [kind |-> "row", todo |-> {i}, got |-> [Nothing EXCEPT ![i] = c],
                 old |-> node[i].content]
<1>2. j.kind = "row" /\ j.old = node[i].content /\ (k # i => j.got[k] = NULL)
  BY DEF Nothing
<1>3. job' = [job EXCEPT ![w] = j] /\ UNCHANGED node
  BY <1>1 DEF StartRow, Start
<1> HIDE DEF j
<1>4. QED
  BY <1>2, <1>3, TakesStep DEF Tells, Matches

\* A worker that stops holds nothing.
LEMMA StopTakes ==
    ASSUME Inv, NEW k \in Keys, NEW w \in Workers, job' = [job EXCEPT ![w] = Idle]
    PROVE  \A v \in Workers : Takes(v, k)
BY IdleHolds, TakesStep

LEMMA WriteRowTakes ==
    ASSUME Inv, RowTexts, NEW k \in Keys, KeyInv(k), NEW w \in Workers, WriteRow(w)
    PROVE  Tells(k)' /\ \A v \in Workers : Takes(v, k)
<1>1. PICK i \in job[w].todo :
         /\ i \in Keys
         /\ node' = [node EXCEPT ![i] = Rewritten(node[i], job[w].got[i], job[w].old)]
  BY WriteRowStep DEF Inv
<1>2. job[w].kind = "row" /\ job' = [job EXCEPT ![w] = Idle]
  BY DEF WriteRow
<1>3. job[w].got[i] \in Contents /\ job[w].got[i] # NULL
  BY <1>1, <1>2, Constants DEF RowTexts
<1>4. node[i] \in Node /\ Agrees(node[i])
  BY <1>1 DEF Inv, Typed, NodesAgree
<1>5. PICK n \in Node : /\ n = Rewritten(node[i], job[w].got[i], job[w].old)
                        /\ Matches(node[i]) /\ node[i].content = job[w].old => Matches(n)
  BY <1>3, <1>4, RewrittenFacts
<1>6. node'[k] = IF k = i THEN n ELSE node[k]
  BY <1>1, <1>5, NodeIs
<1>7. k = i => node[i].content = job[w].old
  BY <1>2, <1>3 DEF KeyInv, Fits
<1>8. Tells(k)'
  BY <1>5, <1>6, <1>7 DEF Tells, KeyInv, Matches
<1>9. QED
  BY <1>2, <1>8, StopTakes

LEMMA EmbedNodeTakes ==
    ASSUME Inv, NEW k \in Keys, KeyInv(k), NEW w \in Workers, NEW i \in Keys, EmbedNode(w, i)
    PROVE  Tells(k)' /\ \A v \in Workers : Takes(v, k)
<1>0. node[i] \in Node /\ job[w] \in Job /\ job[w].kind # "row"
  BY DEF Inv, Typed, EmbedNode
<1>1. job[w].got[i] \in Contents /\ job[w].got[i] # NULL
  BY <1>0, Constants DEF Job, EmbedNode
<1>2. PICK n \in Node : /\ n = Embedded(node[i], job[w].got[i])
                        /\ node[i].content = job[w].got[i] => Matches(n)
  BY <1>0, <1>1, EmbeddedFacts
<1>3. node'[k] = IF k = i THEN n ELSE node[k]
  BY <1>2, NodeIs DEF EmbedNode
<1>4. k = i => node[i].content = job[w].got[i]
  BY <1>0, <1>1 DEF KeyInv, Fits
<1>5. Tells(k)'
  BY <1>2, <1>3, <1>4 DEF Tells, KeyInv, Matches
<1>6. PICK j : j = LeftAfter(job[w], i)
  OBVIOUS
<1>7. job' = [job EXCEPT ![w] = j]
  BY <1>6 DEF EmbedNode, LeftAfter
<1>8. CASE j = Idle
  BY <1>5, <1>7, <1>8, StopTakes
<1>9. CASE j # Idle
  <2>1. j.kind # "row" /\ j.got[k] \in {NULL, job[w].got[k]}
    BY <1>0, <1>6, <1>9, LeftAfterFacts
  <2>2. job[w].got[k] # NULL => job[w].got[k] = node[k].content
    BY <1>0 DEF KeyInv, Fits
  <2>3. j.got[k] = NULL \/ j.got[k] = node[k].content
    BY <2>1, <2>2
  <2>4. QED
    BY <1>5, <1>7, <2>1, <2>3, TakesStep
<1>10. QED
  BY <1>8, <1>9

LEMMA ReadSeedTakes ==
    ASSUME Inv, NEW k \in Keys, KeyInv(k), NEW w \in Workers, NEW i \in Keys, ReadSeed(w, i)
    PROVE  Tells(k)' /\ \A v \in Workers : Takes(v, k)
<1>0. job[w] \in Job /\ job \in [Workers -> Job] /\ UNCHANGED node
  BY DEF Inv, Typed, ReadSeed
<1>1. Tells(k)'
  BY <1>0 DEF KeyInv, Tells, Matches
<1>2. CASE ~Exists(i)
  BY <1>1, <1>2, StopTakes DEF ReadSeed
<1>3. CASE Exists(i)
  <2>1. PICK j : j = [job[w] EXCEPT !.got[i] = node[i].content]
    OBVIOUS
  <2>2. job' = [job EXCEPT ![w] = j]
    BY <1>0, <1>3, <2>1 DEF ReadSeed
  <2>3. j.kind # "row" /\ j.got[k] = IF k = i THEN node[k].content ELSE NULL
    BY <1>0, <2>1 DEF Job, ReadSeed, Nothing
  <2>4. QED
    BY <1>1, <2>2, <2>3, TakesStep
<1>4. QED
  BY <1>2, <1>3

LEMMA OvertakenStep ==
    ASSUME Inv, RowTexts, OvertakenInv, [Next]_vars
    PROVE  OvertakenInv'
<1> SUFFICES ASSUME NEW k \in Keys, k \notin overtaken' PROVE KeyInv(k)'
  BY DEF OvertakenInv
<1>1. CASE UNCHANGED vars
  BY <1>1 DEF vars, OvertakenInv, KeyInv, Tells, Matches, Fits
<1>2. CASE Next
  <2>1. k \notin overtaken /\ ~Overtakes(k)
    BY <1>2 DEF Next
  <2>2. KeyInv(k)
    BY <2>1 DEF OvertakenInv
  <2>3. Tells(k)' /\ \A w \in Workers : Takes(w, k)
    <3>1. CASE Edit \/ BeginRow \/ BeginSweep \/ BeginPass
      BY <2>2, <3>1, EditTakes, RowTakes, BeginTakes DEF KeyInv
    <3>2. ASSUME NEW w \in Workers, Continue(w)
          PROVE  Tells(k)' /\ \A v \in Workers : Takes(v, k)
      BY <2>2, <3>2, WriteRowTakes, ReadSeedTakes, EmbedNodeTakes DEF Continue
    <3>3. ASSUME NEW w \in Workers, Abandon(w)
          PROVE  Tells(k)' /\ \A v \in Workers : Takes(v, k)
      BY <2>2, <3>3, StopTakes DEF Abandon, KeyInv, Tells, Matches
    <3>4. QED
      BY <1>2, <3>1, <3>2, <3>3 DEF Next, Step
  <2>4. QED
    BY <2>1, <2>2, <2>3, FitsStep DEF KeyInv
<1>3. QED
  BY <1>1, <1>2

LEMMA InitOvertaken == Init => OvertakenInv
BY AbsentAgrees, IdleHolds DEF Init, OvertakenInv, KeyInv, Tells, Fits

\* Equal revisions mean that the vector is that of the content (ONTOLOGY_SCHEMA
\* section 11) for every node whose text never changed under a worker's hand,
\* however writers, rows, passes and deaths interleave elsewhere: neither the
\* upsert's CASE, nor the row's read-resolve-mark, nor passes that overlap break it.
THEOREM OvertakenTheorem == Spec => []GuaranteeUnlessOvertaken
<1> DEFINE All == Inv /\ RowTexts /\ OvertakenInv
<1>1. Init => All
  BY InitInv, InitOvertaken
<1>2. All /\ [Next]_vars => All'
  BY NextInv, NextRowTexts, OvertakenStep
<1>3. All => GuaranteeUnlessOvertaken
  BY DEF OvertakenInv, KeyInv, Tells, Matches, GuaranteeUnlessOvertaken
<1>4. QED
  BY <1>1, <1>2, <1>3, PTL DEF Spec

=============================================================================

-------------------------------- MODULE Ingest --------------------------------
(* The two batch ingests (01-context/src/etl.py and etl_history.py).  A batch *)
(* writes all its entities in one transaction and then every edge in one of   *)
(* its own, so that an edge the rules refuse is put aside (dead-lettered) and *)
(* a halt leaves the edges before it behind.  Beside them reviewed candidates *)
(* are promoted, which is how an edge of a relation with a cycle guard comes  *)
(* in: the guard's read and the write are two statements, and no lock is held *)
(* between them.  Edges are current or not (their windows are the subject of  *)
(* Mutate) and belong to one namespace; revisions and the passes that embed   *)
(* are the subject of Freshness.                                              *)
EXTENDS Naturals, Sequences, FiniteSets, SequencesExt, Relations

CONSTANTS
    Keys,        \* keys of entities
    LedgerKeys,  \* for each prefix the keys ledger:0, ledger:1, ... as a sequence
    Procs,
    Batches      \* the batches a process may be given

None == "none"

\* All edges that could be asked for.
Edges == [s : Keys, rel : RelNames, o : Keys]

ASSUME ProcsAssumption == None \notin Procs

VARIABLES
    node,        \* of each key its owner, text, vector (the text it is of) and dirty flag
    facts,       \* the current edges
    job,         \* what each process is doing
    overlapped   \* a guarded edge was written after its guard's read was out of date

ivars == <<node, facts, job, overlapped>>

\* A node without a vector.
Unembedded(ns, text) == [ns |-> ns, text |-> text, vec |-> None, dirty |-> FALSE]

Absent == Unembedded(None, None)
Plain == Unembedded("ours", "plain")

\* The vector of a node is computed, and the mark taken away.
Embedded(v) == [ns |-> v.ns, text |-> v.text, vec |-> v.text, dirty |-> FALSE]

Spec(s, rel, o) == [s |-> s, rel |-> rel, o |-> o]

Entity(key, ns, text, marks) == [key |-> key, ns |-> ns, text |-> text, marks |-> marks]

\* f of every member of s, in order.
Map(f(_), s) == [i \in DOMAIN s |-> f(s[i])]
FlatMap(f(_), s) == FlattenSeq(Map(f, s))

-----------------------------------------------------------------------------
(* What a batch asks for                                                      *)

\* upsert_entities; the values of status are shared.
StructuredEntities(data) ==
    LET Ours(k) == Entity(k, "ours", "plain", TRUE)
        Repo(r) == Ours(r.id)
        Status(i) == Entity(i.status, "shared", "plain", TRUE)
        Issue(i) == Entity(i.id, "ours", i.title, TRUE)
    IN  Map(Ours, data.agents \o data.projects) \o Map(Repo, data.repos)
        \o Map(Status, data.issues) \o Map(Issue, data.issues)

\* edge_specs.
edge_specs(data) ==
    LET OfRepo(r) == Spec(r.id, "PART_OF", r.project)
        OfIssue(i) ==
            <<Spec(i.id, "PART_OF", i.project),
              Spec(i.id, "ASSIGNED_TO", i.assignee),
              Spec(i.id, "HAS_STATUS", i.status)>>
            \o [b \in DOMAIN i.blocks |-> Spec(i.id, "BLOCKS", i.blocks[b])]
    IN  Map(OfRepo, data.repos) \o FlatMap(OfIssue, data.issues)

\* The records of a ledger that can be parsed and have a run_id and a label.
filtered(lines) == SelectSeq(lines, LAMBDA l : l.good)

\* Rows and filtered ledger records in one shape; a record is keyed by its
\* position among the filtered ones.
Rows(data) ==
    LET good == filtered(data.lines)
    IN  data.rows \o [i \in DOMAIN good |-> [good[i] EXCEPT !.key = LedgerKeys[data.prefix][i]]]

\* A changed row is marked, the project it names is not, however it is spelled.
HistoryEntities(data) ==
    LET OfRow(r) == <<Entity(r.key, "ours", r.text, TRUE),
                      Entity(r.project, "ours", r.spelling, FALSE)>>
    IN  FlatMap(OfRow, Rows(data))

\* Mutant: the positions are those of the file.
HistorySpecsUnfiltered(data) ==
    [i \in DOMAIN data.rows |-> Spec(data.rows[i].key, "PART_OF", data.rows[i].project)]
    \o [i \in DOMAIN data.lines |-> Spec(LedgerKeys[data.prefix][i], "PART_OF", data.lines[i].project)]

HistorySpecs(data) ==
    LET OfRow(r) == Spec(r.key, "PART_OF", r.project)
    IN  Map(OfRow, Rows(data))

EntitiesOf(batch) ==
    CASE batch.kind = "structured" -> StructuredEntities(batch)
      [] batch.kind = "history" -> HistoryEntities(batch)
      [] OTHER -> <<>>

SpecsOf(batch) ==
    CASE batch.kind = "structured" -> edge_specs(batch)
      [] batch.kind = "history" -> HistorySpecs(batch)
      [] OTHER -> <<batch.fact>>

\* _real reads four sources, and gives them to ingest in three calls.  (A database
\* that is locked twice ends it before anything is written.)
Parts(real) ==
    LET Call(rows, lines, prefix) ==
            [kind |-> "history", rows |-> rows, lines |-> lines, prefix |-> prefix]
    IN  <<Call(real.engram, real.ledger, "ledger"), Call(real.claude_mem, <<>>, "ledger"),
          Call(<<>>, real.runs, "runledger")>>

\* The row that the proof for a source looks for is the first with a title.
Sample(rows) ==
    {rows[i] : i \in {j \in DOMAIN rows : rows[j].titled /\ \A h \in 1..(j - 1) : ~rows[h].titled}}

\* A record's key is its position among the filtered ones.
Targets(real) ==
    Sample(real.engram) \cup Sample(real.claude_mem) \cup Sample(Rows(Parts(real)[3]))

\* A source has rows, and none can be looked for.
Untitled(real) ==
    \/ real.engram # <<>> /\ Sample(real.engram) = {}
    \/ real.claude_mem # <<>> /\ Sample(real.claude_mem) = {}
    \/ real.runs # <<>> /\ Sample(Rows(Parts(real)[3])) = {}

\* What is in a source, for the rows and records of a history...
HistoryData(data) ==
    LET good == filtered(data.lines)
    IN  /\ data.rows \in Seq(ToSet(data.rows))
        /\ good \in Seq(ToSet(data.lines))
        /\ \A r \in ToSet(data.rows) : {r.key, r.project} \subseteq Keys
        /\ \A l \in ToSet(data.lines) : {"key", "text", "project"} \subseteq DOMAIN l /\ l.project \in Keys
        /\ \A i \in DOMAIN good : LedgerKeys[data.prefix][i] \in Keys

\* ... and for the lists of the structured source.
StructuredData(data) ==
    /\ {data.agents, data.projects} \subseteq Seq(Keys)
    /\ data.repos \in Seq([id : Keys, project : Keys])
    /\ data.issues \in Seq(ToSet(data.issues))
    /\ \A i \in ToSet(data.issues) :
          {i.id, i.project, i.assignee, i.status} \subseteq Keys /\ i.blocks \in Seq(Keys)

ASSUME BatchesAssumption ==
    \A b \in Batches :
        \/ b.kind = "structured" /\ StructuredData(b)
        \/ b.kind = "history" /\ HistoryData(b)
        \/ b.kind = "real" /\ \A i \in DOMAIN Parts(b) : HistoryData(Parts(b)[i])
        \/ b.kind = "fact" /\ b.fact \in Edges

\* The batches of rows and records.
Histories ==
    {b \in Batches : b.kind = "history"}
    \cup UNION {ToSet(Parts(b)) : b \in {x \in Batches : x.kind = "real"}}

\* The keys of a ledger's records, which others do not use.
RecordKeys == UNION {ToSet(LedgerKeys[prefix]) : prefix \in DOMAIN LedgerKeys}

KeysApart ==
    /\ \A x, y \in DOMAIN LedgerKeys : \A i \in DOMAIN LedgerKeys[x], j \in DOMAIN LedgerKeys[y] :
          LedgerKeys[x][i] = LedgerKeys[y][j] => x = y /\ i = j
    /\ \A b \in Histories :
          /\ b.prefix \in DOMAIN LedgerKeys
          /\ \A i \in DOMAIN filtered(b.lines) : i \in DOMAIN LedgerKeys[b.prefix]
          /\ \A r \in ToSet(b.rows) : {r.key, r.project} \cap RecordKeys = {}
          /\ \A l \in ToSet(b.lines) : l.project \notin RecordKeys
    /\ \A b \in Batches : b.kind \in {"structured", "fact"} =>
          /\ \A e \in ToSet(EntitiesOf(b)) : e.key \notin RecordKeys
          /\ \A e \in ToSet(SpecsOf(b)) : e.rel = "PART_OF" => e.s \notin RecordKeys

\* A row is found under its id: one run over the sources does not read two of one
\* key, as ids are unique and each source has a prefix of its own.
RowsApart ==
    \A b \in Batches : b.kind = "real" =>
        \A i, j \in DOMAIN Parts(b) : \A q \in ToSet(Rows(Parts(b)[i])), r \in ToSet(Rows(Parts(b)[j])) :
            q.key # r.project /\ (q.key = r.key => q.text = r.text)

\* Lines are appended to a ledger and never changed, so that the n-th good one is
\* the same whenever the file is read; and the text of a record tells its project,
\* as it has the run_id in it.
OnlyGrows ==
    \A b, c \in Histories :
        /\ b.prefix = c.prefix => \A i \in DOMAIN filtered(b.lines) \cap DOMAIN filtered(c.lines) :
              filtered(b.lines)[i].text = filtered(c.lines)[i].text
        /\ \A l \in ToSet(b.lines), m \in ToSet(c.lines) : l.text = m.text => l.project = m.project
        /\ \A l \in ToSet(b.lines) : l.text \notin {None, "plain", "other"}

ASSUME LogsAssumption == KeysApart /\ RowsApart /\ OnlyGrows

-----------------------------------------------------------------------------
(* What the write engine does                                                 *)

\* Mutant: a changed text is not marked.
UpsertedQuietly(n, e) ==
    [n EXCEPT ![e.key] = [@ EXCEPT !.ns = e.ns, !.text = e.text]]

\* upsert_entity and resolve_entity with mark_dirty; a new node has no mark.
Upserted(n, e) ==
    [n EXCEPT ![e.key] =
        [ns |-> e.ns, text |-> e.text, vec |-> @.vec,
         dirty |-> @.dirty \/ (e.marks /\ @.ns # None /\ @.text # e.text)]]

\* All the entities of a batch, in order.
UpsertedAll(n, es) ==
    LET upto[i \in 0..Len(es)] == IF i = 0 THEN n ELSE Upserted(upto[i - 1], es[i])
    IN  upto[Len(es)]

\* Mutant: the guard looks for the edge back, not for a path.
CloserOnly(rel, F, a, b) == \E f \in F : f.rel = rel /\ f.s = a /\ f.o = b

\* The edges of rel in F lead from a to b.
Leads(rel, F, a, b) ==
    LET G == {g \in F : g.rel = rel}
        From(k) == {g.o : g \in {h \in G : h.s = k}}
    IN  \A S \in SUBSET {g.o : g \in G} :
            (From(a) \subseteq S /\ \A k \in S : From(k) \subseteq S) => b \in S

\* The entities that exist.
Live == {k \in Keys : node[k].ns # None}

\* apply_edge raises: a cycle in what the guard saw, or a different incumbent.
Refused(spec, F, seen) ==
    \/ guarded(spec.rel) /\ Leads(spec.rel, seen, spec.o, spec.s)
    \/ rejects(spec.rel) /\ \E f \in F : f.s = spec.s /\ f.rel = spec.rel /\ f.o # spec.o

\* Mutant: the eviction does not spare the edge itself, and the MERGE finds it
\* ended and leaves it so.
AddedUnrevived(live, F, spec) ==
    {f \in F : ~(evicts(spec.rel) /\ f.s = spec.s /\ f.rel = spec.rel)}
    \cup {f \in {spec} : f \notin F /\ {f.s, f.o} \subseteq live}

\* Otherwise the incumbents of an evicting relation go, and the edge is merged
\* when both its ends exist.
Added(live, F, spec) ==
    {f \in F : ~(evicts(spec.rel) /\ f.s = spec.s /\ f.rel = spec.rel /\ f.o # spec.o)}
    \cup {f \in {spec} : {f.s, f.o} \subseteq live}

\* What becomes of the edges, when the guard saw seen.
Tried(live, F, seen, spec) == IF Refused(spec, F, seen) THEN F ELSE Added(live, F, spec)

-----------------------------------------------------------------------------
(* Processes                                                                  *)

\* base is what the edges were when this batch was begun for the first time;
\* disturbed, that somebody else wrote since then.  A run of _real has three
\* batches, of which some are still to come, and says in the end whether it
\* found what it had read.
Resting == [at |-> "rest", batch |-> [kind |-> None], todo |-> <<>>, dead |-> {},
            seen |-> {}, base |-> {}, disturbed |-> FALSE,
            real |-> [kind |-> None], more |-> <<>>, said |-> None]

IngestInit ==
    /\ node \in [Keys -> {Absent, Plain}]   \* another ingest may have been there
    /\ facts = {}
    /\ job = [p \in Procs |-> Resting]
    /\ overlapped = FALSE

Disturbing(p) == [q \in Procs |-> IF q = p THEN job[q] ELSE [job[q] EXCEPT !.disturbed = TRUE]]

Goes(p, step) == job' = [job EXCEPT ![p] = step]

\* A batch is begun, or begun again after a halt.
Begin(p, b) ==
    /\ job[p].at \in {"rest", "done", "halted"}
    /\ LET again == job[p].batch = b /\ job[p].at = "halted"
       IN  Goes(p, [Resting EXCEPT !.at = "entities", !.batch = b,
                                   !.base = IF again THEN job[p].base ELSE facts,
                                   !.disturbed = again /\ job[p].disturbed])
    /\ UNCHANGED <<node, facts, overlapped>>

\* _real has read its four sources: the rows of the two databases, without a lock,
\* and the lines of the two ledgers that can be parsed, none if there is no file.
BeginReal(p, b) ==
    /\ job[p].at \in {"rest", "done", "halted"}
    /\ Goes(p, [Resting EXCEPT !.at = "entities", !.batch = Head(Parts(b)), !.base = facts,
                               !.real = b, !.more = Tail(Parts(b))])
    /\ UNCHANGED <<node, facts, overlapped>>

\* One transaction; an entity of another owner raises, and nothing is written.
Entities(p) ==
    /\ job[p].at = "entities"
    /\ LET es == EntitiesOf(job[p].batch)
           foreign == \E i \in DOMAIN es : node[es[i].key].ns \notin {None, es[i].ns}
           step == [job[p] EXCEPT !.at = "edges", !.todo = SpecsOf(job[p].batch)]
       IN  IF foreign
           THEN Goes(p, [job[p] EXCEPT !.at = "halted"]) /\ UNCHANGED node
           ELSE /\ node' = UpsertedAll(node, es)
                /\ job' = [Disturbing(p) EXCEPT ![p] = step]
    /\ UNCHANGED <<facts, overlapped>>

\* The guard of the next edge reads.
GuardRead(p) ==
    /\ job[p].at = "edges" /\ job[p].todo # <<>>
    /\ guarded(Head(job[p].todo).rel)
    /\ Goes(p, [job[p] EXCEPT !.at = "guarded", !.seen = facts])
    /\ UNCHANGED <<node, facts, overlapped>>

\* Mutant: what is refused is dropped.
NothingDead(spec, seen) == {}

\* The dead letter of a refused edge.
Dead(spec, seen) == {f \in {spec} : Refused(f, facts, seen)}

\* The rest of apply_edge for the next edge.
Apply(p) ==
    /\ \/ job[p].at = "guarded"
       \/ job[p].at = "edges" /\ job[p].todo # <<>> /\ ~guarded(Head(job[p].todo).rel)
    /\ LET spec == Head(job[p].todo)
           seen == job[p].seen
       IN  /\ facts' = Tried(Live, facts, seen, spec)
           /\ overlapped' = (overlapped \/ (facts' # facts /\ guarded(spec.rel) /\ seen # facts))
           /\ job' = [Disturbing(p) EXCEPT ![p] =
                  [job[p] EXCEPT !.at = "edges", !.todo = Tail(@), !.seen = {},
                                 !.dead = @ \cup Dead(spec, seen)]]
    /\ UNCHANGED node

\* The dead letters are returned; a run of _real goes on with its next batch.
Return(p) ==
    /\ job[p].at = "edges" /\ job[p].todo = <<>>
    /\ Goes(p, IF job[p].more # <<>>
               THEN [job[p] EXCEPT !.at = "entities", !.batch = Head(job[p].more), !.more = Tail(@),
                                   !.base = facts, !.dead = {}]
               ELSE [job[p] EXCEPT !.at = IF job[p].real.kind = None THEN "done" ELSE "embed"])
    /\ UNCHANGED <<node, facts, overlapped>>

\* _embed_history_nodes, of the observations and records without a vector or with
\* a mark, or of all; what happens between its reads and its writes is the subject of Freshness.
EmbedPass(p) ==
    /\ job[p].at = "embed"
    /\ LET Sourced(k) == node[k].ns = "ours" /\ \E b \in Histories :
                            \E i \in DOMAIN Rows(b) : Rows(b)[i].key = k
           Behind(k) == node[k].vec = None \/ node[k].dirty
       IN  \E all \in BOOLEAN :
               node' = [k \in Keys |-> IF Sourced(k) /\ (all \/ Behind(k))
                                       THEN Embedded(node[k]) ELSE node[k]]
    /\ Goes(p, [job[p] EXCEPT !.at = "prove"])
    /\ UNCHANGED <<facts, overlapped>>

\* The proofs: a source whose rows have no title fails, a card must be what was
\* read, and serve may or may not find it by its title.
Prove(p) ==
    /\ job[p].at = "prove"
    /\ LET real == job[p].real
           failed == \/ Untitled(real)
                     \/ \E r \in Targets(real) : node[r.key].ns # "ours"
                     \/ \E r \in Targets(real) \cap ToSet(real.engram) : node[r.key].text # r.text
       IN  \E said \in IF failed THEN {"FAIL"} ELSE {"OK", "FAIL"} :
               Goes(p, [job[p] EXCEPT !.at = "done", !.said = said])
    /\ UNCHANGED <<node, facts, overlapped>>

\* The database fails or the process dies; the open transaction is rolled back.
Halt(p) ==
    /\ job[p].at \notin {"rest", "done", "halted"}
    /\ Goes(p, [job[p] EXCEPT !.at = "halted", !.todo = <<>>, !.dead = {}, !.seen = {}, !.more = <<>>])
    /\ UNCHANGED <<node, facts, overlapped>>

\* Others erase an entity with its edges, or another namespace creates it.
Erase(k) ==
    /\ node[k].ns # None
    /\ node' = [node EXCEPT ![k] = Absent]
    /\ facts' = {f \in facts : k \notin {f.s, f.o}}
    /\ job' = Disturbing(None)
    /\ UNCHANGED overlapped

Claim(k) ==
    /\ node[k].ns = None
    /\ node' = [node EXCEPT ![k] = Unembedded("other", "other")]
    /\ job' = Disturbing(None)
    /\ UNCHANGED <<facts, overlapped>>

\* A node is embedded.
Embed(k) ==
    /\ node[k].ns # None
    /\ node' = [node EXCEPT ![k] = Embedded(@)]
    /\ UNCHANGED <<facts, job, overlapped>>

Starts(p, b) == IF b.kind = "real" THEN BeginReal(p, b) ELSE Begin(p, b)

Proceeds(p) ==
    Entities(p) \/ GuardRead(p) \/ Apply(p) \/ Return(p) \/ EmbedPass(p) \/ Prove(p)

Others == \E k \in Keys : Erase(k) \/ Claim(k) \/ Embed(k)

IngestNext ==
    \/ \E p \in Procs : (\E b \in Batches : Starts(p, b)) \/ Proceeds(p) \/ Halt(p)
    \/ Others

IngestSpec == IngestInit /\ [][IngestNext]_ivars

-----------------------------------------------------------------------------
(* Properties                                                                 *)

\* What one run of a batch from its first to its last edge makes of F.
Applied(live, specs, F) ==
    LET upto[i \in 0..Len(specs)] ==
            IF i = 0 THEN F ELSE Tried(live, upto[i - 1], upto[i - 1], specs[i])
    IN  upto[Len(specs)]

\* However often a batch halted, at whatever edge, running it again until it
\* returns leaves the edges that one run without a halt would have left: the
\* evictions and rejections of the prefix that was written change nothing
\* (etl.py, "re-running converges").
RerunConverges ==
    \A p \in Procs : job[p].at = "done" /\ ~job[p].disturbed =>
        facts = Applied(Live, SpecsOf(job[p].batch), job[p].base)

\* A batch that returns accounts for every edge it was given: it is current, or
\* among the dead letters, or an end of it does not exist, or a later edge of
\* the batch replaced it.  ("empty = all applied" in etl.py forgets the third.)
NothingLost ==
    \A p \in Procs : job[p].at = "done" /\ ~job[p].disturbed =>
        LET specs == SpecsOf(job[p].batch)
        IN  \A i \in DOMAIN specs :
                \/ specs[i] \in facts \cup job[p].dead
                \/ ~({specs[i].s, specs[i].o} \subseteq Live)
                \/ \E j \in DOMAIN specs : /\ j > i /\ evicts(specs[i].rel)
                                           /\ specs[j].s = specs[i].s /\ specs[j].rel = specs[i].rel

\* The edges of rel in F between different nodes.
Joins(rel, F) == {f \in F : f.rel = rel /\ f.s # f.o}

\* Every set of subjects has one with no edge into the rest of the set.
Grounded(E) ==
    \A S \in (SUBSET {f.s : f \in E}) \ {{}} : \E k \in S : \A f \in E : f.s = k => f.o \notin S

\* Only writers that overlap can close a cycle of guarded edges (a node that
\* depends on itself apart): when no guard read too early, every set of subjects
\* has one with no edge into the rest of the set (mutate.py cycle guard).
CyclesNeedOverlap ==
    \A rel \in RelNames : guarded(rel) /\ ~overlapped => Grounded(Joins(rel, facts))

\* A ledger's node and its edge come from one record, although its key is a
\* position among the good lines, the file grows, its last line may be torn and
\* the edge is refused when another one is there; and a run of _real that nobody
\* disturbs finds under the key of each target what it read (_filter_ledger_records,
\* "can never desync").
LedgerStaysPut ==
    /\ \A f \in facts : \A b \in Histories : \A i \in DOMAIN b.lines :
          (f.s \in ToSet(LedgerKeys[b.prefix]) /\ f.rel = "PART_OF" /\ node[f.s].text = b.lines[i].text)
              => f.o = b.lines[i].project
    /\ \A p \in Procs : (job[p].at = "done" /\ job[p].said # None /\ ~job[p].disturbed) =>
          \A r \in Targets(job[p].real) : node[r.key].text = r.text

\* A vector that is not that of its node's text any more is marked for the next
\* sweep, but for the projects that a history names in several spellings: the
\* last one becomes their text without a mark.
OnlyProjectsDrift ==
    \A k \in Keys : node[k].vec \notin {None, node[k].text} /\ ~node[k].dirty =>
        \E b \in Histories : \E i \in DOMAIN Rows(b) : Rows(b)[i].project = k

=============================================================================

# A TLA+ verification of the context brain

This directory holds TLA+ models of the Python system in `src/`, the TLC runs that
check them on small instances, and TLAPS proofs of the most important results. It
is written to be read beside the code: every definition that models code names the
lines it models in `PROJECT.json` ("map"). Paths below are relative to
`src/01-context/src/` unless they start with a directory.

    tlc -workers 4 -config Mutate.cfg MCMutate.tla        # check an instance
    tlapm MutateProofs.tla                                # check the proofs


## 1. The system

A knowledge graph in Neo4j (nodes `:Entity`, edges `RELATES_TO` with a validity
window, `:Candidate` nodes that wait for review, `:Chunk` nodes with passages) is
written by several ingest paths and read by `serve()`, on whose answer an agent may
or may not act. State is in the database, in one table in process memory (the
autonomy lease) and in a few files (checkpoints, dead letters). But for the thread
pool of one calibration script, concurrency is that of several processes whose
transactions interleave, and the hard part is what a process read in one transaction
and uses in a later one.

| component | state it keeps | operations | talks to |
|---|---|---|---|
| Rule contract `01-context/schema/relations.yaml` | a constant table: arity, verbs, collision action, snapshot, guard | - | read by the write engine |
| Write engine `mutate.py`, prune `retention_sweep.py` | edges with `valid_at`, `invalid_at`, `expired_at`; owners of nodes | `resolve_entity`, `apply_edge` add/remove, `apply_set_snapshot`, `mark_dirty`, `prune` | called by every writer inside the caller's transaction |
| Staging gate `staging.py` | `:Candidate.status` | `stage`, `approve`, `reject`, `promote`, batches of them | promote calls the write engine; locks candidate and node |
| Rollback and candidate sweep `rollback.py` | - | `rollback_namespace`, `sweep_candidates` | deletes edges, candidates and nodes in two transactions each |
| Structured ETL `etl.py` | content, `content_rev`, `dirty` | `upsert_entity`, `ingest_ocr_doc`, `ingest` | write engine, embedder |
| History ETL `etl_history.py` | same | `ingest`, `_embed_history_nodes` | write engine, embedder |
| Embedding `embed.py`, `sweep.py`, `demo_seed.py` | vector, `embedded_content_rev`, `:Chunk` nodes | `embed_node`, `sweep_once`, `embed_all` | reads text in one transaction, writes in another |
| Serve `serve.py`, `ladder.py`, `fuse.py`, `stamp.py`, `reconcile.py`, `evidence.py`, `scope.py`, `epist.py` | none (a call's local variables) | `serve` | ten to twenty reads, each its own auto-commit transaction |
| Trust gate `abstain.py`, `gate.py` | `CALIBRATED`, a dict in each process | `stage_a_decision`, `execute`, `auto_revert` | called by serve and by `03-evals/src/cal4_sweep.py` |
| Corrective retrieval `corrective.py`, `web_fallback_adapter.py` | loop counters | bounded re-query, web fallback with re-grade | calls serve, with the caller's action each time |
| Planner `02-agents/src/planner.py` | budget, tried probes, last reply | sub-query loop | calls serve |
| Communities `communities.py`, `summarize_adapter.py` | derived `:Community` nodes, a checkpoint file of summaries | rebuild of a namespace, summaries | read by serve when asked for |
| Extraction `extract.py`, `02-agents/src/mcp_stage_server.py` | dead-letter files | `mine`, `stage_llm`, `propose_edge` | the staging gate |
| Calibration `03-evals/src/cal3_fit.py`, `cal4_sweep.py`, `judge_adapter.py` | checkpoint files, results | resumable judging, one at a time or in a pool | serve, `auto_revert` |
| Demos, self-tests and evaluations that plant nodes | nodes under fixed keys | plant, ask, remove | the same graph |
| Monitors `invariant_check.py`, `cycle_check.py` | - | read-only queries | - |
| Adapters (OCR, page index), read-only MCP server, repository tools | none | text handling, wrappers, grep gates | - |

### What is hard here

`PROJECT.json` ("hazards") lists each at its line, with the properties about it.
In short:

* *Clocks.* A caller reads `now` before its transaction, so evictions, removals and
  resurrections commit with clocks out of order (`mutate.py:120`).
* *Locks.* Two writers of one functional slot must not both see no incumbent
  (`mutate.py:117`); approve, reject and promote race on one candidate, whose lock is
  a `MATCH` that locks nothing when it finds nothing (`staging.py:97`); locks are taken
  in opposite orders (`mutate.py:138`).
* *Two transactions.* rollback and the sweeps list in one transaction and delete or
  embed in the next (`rollback.py:126`, `rollback.py:160`, `sweep.py:39`).
* *Reads that are not a snapshot.* serve's reads see different graphs (`serve.py:370`,
  `serve.py:439`, `ladder.py:53`), and its answer may be acted on.
* *The action.* A stale fact, an unconfirmable document, a revoked lease or a
  reserved category must stop it (`abstain.py:80-124`, `serve.py:205`, `serve.py:592`).
  A loop that asks again carries the action again (`corrective.py:267`).
* *Batches.* Entities in one transaction, edges in one each: a halt leaves a prefix
  (`etl.py:114`), two guards may read before either writes (`mutate.py:108`), and the
  records of a log are known by their position in a file that grows (`etl_history.py:270`).
* *Scripts whose statements commit one by one* and die, overlap or resume: rebuilds of
  communities (`communities.py:229`, `summarize_adapter.py:125`), calibration runs
  (`cal4_sweep.py:177`, `judge_adapter.py:98`), miners (`extract.py:124`), demos and
  evaluations that plant nodes everybody sees (`eval_planner.py:464`).
* *Loops over a graph that moves.* Their bound, their "already tried" set and the
  generator of probes must end them together, and the label must say how it went
  (`corrective.py:258`, `planner.py:237`).


## 2. The modules

| module | models | shape |
|---|---|---|
| `Relations` | `relations.yaml` | the rule table and the predicates the engine derives from it |
| `CurrentEdges` | what `mutate.py` promises to a reader of the present | the abstract specification of the engine: a set of current edges, no clock |
| `Mutate` | `mutate.py`, `retention_sweep.py` | one action per transaction; windows and clocks in full |
| `MutateProofs` | - | theorems about `Mutate` |
| `CandidateLifecycle` | what `staging.py` promises | the abstract specification of the gate |
| `Staging` | `staging.py`, `rollback.py`, the locks of `mutate.py` | one action per statement, with Neo4j's locks, aborts, retries and crashes |
| `StagingProofs` | - | theorems about `Staging` |
| `Freshness` | `etl.py`, `etl_history.py`, `embed.py`, `sweep.py`, `demo_seed.py` | one action per transaction of writers and passes |
| `FreshnessProofs` | - | theorems about `Freshness` |
| `Fusion` | `fuse.py` | reciprocal rank fusion, a pure function |
| `Gate` | `gate.py`, `abstain.py` | the decision, a pure function |
| `Serve` | `serve.py`, `ladder.py`, `stamp.py`, `scope.py`, `abstain.py` | one action per read of a call; extends `Fusion` and `Gate` |
| `ServeProofs` | - | theorems about `Serve` |
| `Ingest` | `etl.py`, `etl_history.py`, the guard of `mutate.py` | one action per transaction of a batch, with halts and re-runs |
| `IngestProofs` | - | theorems about `Ingest` |
| `Search` | what the two probing loops promise | abstract specification |
| `Probes` | what `planner.py` and `corrective.py` have in common, and `serve()` as they see it | rewrites and replies, pure |
| `Planner`, `LoopsProofs` | `planner.py` | one action per serve call and per choice; implements `Search` |
| `Corrective`, `LoopsProofs` | `corrective.py`, `web_fallback_adapter.py` | the generator and the loop; implements `Search` |
| `Communities`, `CommunitiesProofs` | `communities.py`, `summarize_adapter.py` | one action per statement of a rebuild |
| `Judging`, `ScriptsProofs` | `cal3_fit.py`, `cal4_sweep.py`, `judge_adapter.py` | scripts, threads, checkpoint file |
| `Mining`, `ScriptsProofs` | `extract.py`, `mcp_stage_server.py` | one action per call, candidate and file operation |
| `Fixtures`, `ScriptsProofs` | the scripts that plant nodes | a table of scripts and an interpreter of their statements |
| `MCMutate`, `MCStaging`, `MCFreshness`, `MCServe`, `MCIngest`, `MCCallers` | - | instances for TLC, as scenes (section 3) |

### Mutate

`owner[k]` is the namespace of node `k`; `edges[e]` is the one edge a fact may have,
with its window; `wall` is the database clock. `AddEdge(e, now)` is `apply_edge` from
the cycle guard over the collision check and the eviction to the `MERGE`, which keeps
the start of a current edge and resurrects a historical one. `now` is any clock
reading up to `wall`, because it is the caller's argument. A call that raises is
rolled back and so is no step. `SetSnapshot` is one transaction although the code loops,
because the loop is inside the transaction. Note that eviction happens even if the
`MERGE` then matches no object: the code does this, and the model does it too.

`CurrentEdges` is the same store for who asks only what is true now: a set of edges and the owners of
nodes, without windows or clocks, where an add refuses or ends rivals and no path leads back, and
neither time nor `prune` is a step. `Mutate` implements it (`CurrentPromise`, where `current` is mapped to the
edges that are current on the database's clock, `CurrentFacts`). This is what lets `Staging`, `Ingest`
and `Serve` treat an edge as current or not. One thing is left open in it, and so in the code: which of the
desired objects a snapshot adds (section 5).

### Staging

The gate is modelled statement by statement because its hazards are between
statements. The database is external: read committed, a write takes the lock of its
node and holds it to the end of the transaction, a wait cycle is broken by aborting
one transaction, which the driver runs again. `call[p]` holds the program counter and
the transaction of client `p`; `Begin` starts a call, `LockCand`, `ReadCand`,
`CheckOwner`, `Subject`, `LockEnd`, `MergeEdge`, `Verify`, `CompareStatus`, `SetStatus`
and `Commit` are its statements, `Retry` is the driver, `Crash` is a client that dies.
An edge is abstracted to being current or not, since its windows are the subject of
`Mutate`. `RollbackEdges`/`RollbackNodes` and `SweepRead`/`SweepDelete` are the two
transactions of each operator command.

`CandidateLifecycle` is what the docstring of `staging.py` promises ("Invariants
honored"): a candidate is reviewed one way and its fact begins in the very step that
promotes it. That step is one `apply_edge` done at once (`Asserts`): a rejecting relation has no rival, an evicting
one loses exactly its rivals, and no other edge changes, although a promote reads and ends incumbents
statements before it commits. `Staging` implements it (`LifecyclePromise`, an identity mapping of
`status` and `current`). The property also says, whatever the locks missed, that a candidate becomes promoted only with its
fact current: a promote whose `MERGE` found an endpoint gone must notice (`Verify`) and leave everything as it was.

Both lock statements are a `MATCH` that finds nothing, and so locks nothing, when its
candidate or subject has been deleted; the call goes on. The history variable `missed`
records that this happened. `SingleCurrent`, `PromotedOnOwnNodes` and the refinement in
`LifecyclePromise` say what the locks give as long as it did not; what may happen when
it did is in section 5.

### Freshness

A text is a model value and a vector is the text it was computed from. `node[k]` has
content, `content_rev`, dirty, vector and `embedded_content_rev`; `chunks[k]` the passages.
A worker's `job` is a pass that has read some texts (`got`) and has not written them
yet. Which writer a node has (`Writer[k]`) decides which transactions can change its
content, as key prefixes do in the code. The ghost `overtaken` collects the keys whose text
changed while a worker held another text of it; it is what `GuaranteeUnlessOvertaken` excepts.

### Serve

`call[p]` holds the local variables of a call. Its program counter runs through the
reads in the order of the code: keyword, graph, count and rounds of the vector rung,
chunk rung, fusion, primary card, cards and their content, isolation check, serve-join,
host check, decision. Between any two of them writers may resolve, mark, embed, erase
nodes and add or retract edges (`Change`), and lease steps may happen (`Govern`):
`granted` is the table as the source has it, which only humans edit, and `leased[p]` is
the copy process `p` imported and `auto_revert` changes.

Keys are numbers in the alphabetical order of the program's keys, because fusion and the
choice of a long document break ties by it. Sufficiency and confidence are percentages;
the logistic with weights 2, 2, bias -1.5 and threshold 0.5 is the linear test it is
equivalent to (`selective`). Fusion scores are exact: `Unit` is the product of the
denominators. `Orders` is the set of the orderings that a comparison allows (one, when it is total);
`rrf` and the other sorts pick from it. Of the prose that a card shows only the tickets it names are kept:
`Says[k]` are those that the text of `k` names, `mentioned` those that a call has shown so far, which the
isolation check finds beside the keys of the facts. Two history fields of a call say what time did to it:
`lost` are the keys that were erased since it began, which `Isolation` excepts, and `gone` those that
did not exist when the self-check ran or were erased since: one of them that comes back
to another owner is the only thing about an answer that its check could not know (`LeaksAreKnown`).
Without the optional embedder both vector rungs find nothing (`NoEmbedder`).

Deliberate simplifications of `Serve`:
* calls read the current view (`as_of=None`), one embedding model exists, the
  communities block is not asked for;
* the writers are `Mutate`'s and `Freshness`' transactions reduced to what a read of the
  current view can tell apart;
* the chunk rung, which has the same escalation as the vector rung, is one step with any
  answer of at most `T` parents in scope; and the two host reads of serve-join are one step;
* what the prose of a node names does not change while the node exists;
* epist only orders claims, and the decision does not depend on their order;
* `T` (3 in the code) and the over-fetch factor (5) are constants, and are 2 and 2 in the runs.


### Ingest

A batch is data: entities and edge specs in the order in which `upsert_entities`, `edge_specs`
and the loops of `etl_history.ingest` produce them (`EntitiesOf`, `SpecsOf`; shared values of status,
spellings of projects and the filter of bad ledger records included). `Entities`
is the one transaction of phase 1, which raises as a whole when a node belongs to another
namespace; `Apply` is one edge, a refused one goes to the dead letters; `Halt` is an outage or a
dead process between transactions, after which the same batch may be begun again. The cycle guard
is a read of its own (`GuardRead`), because nothing locks what it saw. A reviewed candidate that is
promoted is a batch of one fact. `BeginReal`, `Return`, `EmbedPass` and `Prove` are a whole run
of `etl_history.py` over its four sources with its own verdict. `base` and `disturbed` are ghosts:
what the edges were when the batch was begun first, and whether somebody else wrote since.
What a whole batch does to the nodes and edges (`UpsertedAll`, `Applied`) is a recursive
function of the position in it, so that it can be reasoned about step by step.

### Probes, Search, Planner, Corrective

A text is what the regular expressions see of it: the entities that are named, whether there is a
verb that stands for a relation, and the parts it splits into. `Probes` holds the rewrites that both
files contain (ids alone, structural, neighbours, decomposition) and `Replies`, the set of what
`serve` may answer to a probe with the graph as it is: the early return, or a card whose
claims and coverage go through `Gate`. What is in scope (`inScope`) is changed by writers between
any two steps. `Planner` has an action for a call with its tests and one for the choice of the next
probe; `Corrective` treats the generator as the list it has still to yield, with a place that
reads the graph when the loop reaches it. `Search` says what both promise: different probes,
at most `Budget`, a further one only after an abstention, and an ending that tells the truth.
`PlannerSearch` and `CorrectiveSearch` are the refinement mappings, `PlannerPromise` and `CorrectivePromise`
the implementation.

### Communities

A rebuild reads facts, reads nodes, wipes and writes community by community and member by member,
each statement a transaction; the summary is made of texts read by key, kept in a checkpoint file
under namespace and number, and written last. A partition of Leiden's is any partition, in any
order, so numbers mean something else after each rebuild. A summary is the set of texts it was
made of. Rebuilds overlap and die; entities are erased, created and change hands. `Suspect` is the
monitor of `communities.py`, `Shown` the query of serve's communities block.

### Judging

`file` is the checkpoint: of each job the answers whose verdict is in it; `torn`, that it ends in
half a line. cal3 is sequential and ends at the first error; cal4 hands jobs to threads, which
count errors and go on. The judge's program works, breaks, wants money or is absent, and changes
while a script runs; so do the answers of serve. Which verdict a judge gives is not told apart,
only which ones a run has.

### Mining

A miner gives each prose node to a program outside and goes through the triples it gets: a good one is
put by (`Accept`), a bad one is written as a dead letter (looking at the size of the file, replacing it,
appending: three file operations, `Stat`, `Roll`, `Write`). Then it stages the good ones. Two
miners and an agent that proposes run beside each other.

### Fixtures

Twelve scripts (demos, self-tests, evaluations) as lists of statements - clean, merge, create, edge,
read, count - with the place of their `try`, and an interpreter that runs them one statement at a
time, beside each other and beside writers, and lets them fail or die anywhere.


## 3. The runs

A run goes through *scenes*: each MC module has a variable `scene` that never changes
and names the facts, nodes, workers and queries that may take part, so that one run
has several small state spaces and no uninteresting product of them. `InScene`
only forbids steps, it adds none.

| run | shows | bounds |
|---|---|---|
| `mutate` | `AsOfUnique`, `SentinelContract`, `AcyclicButSelfLoops`, `PastKept`, `CurrentPromise` | an evicting slot with 3 objects and 4 clock readings (evict, re-add, late clock need 3); a rejecting slot and a snapshot; a dependency graph of 3 nodes with ring, chord and loop |
| `staging` | `SingleCurrent`, `PromotedOnOwnNodes`, `LifecyclePromise`, `CallsReturn` | 2 clients, as every race of the gate is between two; 1 retry; 1 rollback and 1 sweep, beside one client in 3 namespaces and beside two in 2; 6 scenes |
| `freshness` | `SignalsAgree`, `ChunksFollowVector`, `GuaranteeUnlessOvertaken`, `SweepDrains` | 2 texts (one split, one not), 2 workers, revisions up to `MaxRev` = 2, batches of 1 out of 2 dirty nodes |
| `serve` | `FactFirst`, `NoCliff`, `Isolation`, `LeaksAreKnown`, `ActsOnFreshClaims`, `OnlyHumansGrant`, `CallsAnswer` | 5 keys, 3 namespaces, 2 roles, 1 process; 6 scenes (below) |
| `ingest` | `RerunConverges`, `NothingLost`, `CyclesNeedOverlap`, `LedgerStaysPut`, `OnlyProjectsDrift` | 2 processes, 13 keys, 4 or 5 events (starts, halts, writes of others) per behaviour; 5 scenes |
| `callers` | `PlannerPromise`, `StructureWasTried`, `CorrectivePromise`, `ActsOnce`, `LoopsEnd`, `QuietRebuildCovers`, `SummaryStaysHome`, `OkMeansJudged`, `NothingUnmined`, `FixturesAreTransient` | 2 real keys and 2 forged ones, 5 planner steps, 5 rewrites; 2 namespaces and 2 rebuilds; 2 threads; 2 miners; pairs of scripts; 3 or 4 events; 6 scenes |
| `mutate_self_loop` | violates `Acyclic` | section 5 |
| `mutate_history` | violates `HistoryReplayable` | section 5 |
| `staging_missed_lock` | violates `RejectDominates` | section 5 |
| `freshness_race` | violates `Guarantee` | section 5 |
| `serve_hard_stop` | violates `HardStop` | section 5 |
| `serve_quarantine` | violates `Quarantined` | section 5 |

The scenes of `staging`: two candidates for one evicting slot; a candidate and trusted ingest for one
rejecting slot; a promote and an ingest that lock the same two nodes in opposite orders; one client beside
rollback and sweep in three namespaces; a promote and an ingest of one slot beside a rollback of their
namespace; and two reviewers of one candidate whose nodes are erased and created again by another
namespace. In the last two a lock statement can find nothing, so that `missed` matters.

The scenes of `serve`: *Still* asks a graph at rest in every way (roles, patterns,
reranking), with more nearer vectors than the role may see and facts whose target is
out of its slice; *Growing* embeds nodes between the count and the scan; *Moving* lets
a named issue and the long document be erased and created again by another namespace;
*Acting* grants, revokes and restarts while a dirty flag and a functional fact come and
go; *Following* changes a chain of facts while the cards follow it; *Drilling* lets a leased role
act on a drilled section alone, while its document becomes dirty, goes and comes back as somebody
else's. The prose of the first issue names the second, so that in *Moving* a report may be due to an
erasure or to prose, and what was gone at the check may come back after it. The over-fetch is
2·2 = 4 vectors at first, so that 5 embedded nodes of which 4 are out of scope
need a second round: the cliff is reachable, and the mutant `EnoughFixed` falls off it.

The scenes of `freshness`: two workers and writers that overlap freely on a structured and a history node; one worker,
beside the OCR writer; and two scenes where writers do not overlap passes (one worker with
all four writers, two workers with passes that may overlap each other), in which nothing is overtaken and
`GuaranteeUnlessOvertaken` is the unconditional guarantee.

The scenes of `ingest`: a structured batch whose issue blocks itself and an entity that is missing,
beside one that moves it to another project and status; a batch that names the issue twice, with an
assignee that does not exist; logs and an observation that are ingested again after they grew, were torn or
respelled; whole runs over all the sources; and the four dependencies that form a ring and a loop,
promoted by two processes. An event costs one of `left`; the steps of a batch cost nothing, so
that every batch that is begun can run to its end. Four events are a first run, a halt, a re-run
and a foreign write, or two runs of each of two processes.

The scenes of `callers` share no state. *planner* and *corrective* have no bound on the writers:
entities come and go for ever, and the loops still end. Five steps are one more than the planner's
default: the question, its ids and its two structural probes use four, so that the planner gives up with a step left
in some runs (the premise of `StructureWasTried`) and spends all of them in others. With
five rewrites (the default is two) every tactic is reached after every other, and the generator
runs dry in some runs and is cut off in others. In *communities* three events suffice for
two rebuilds and a death, or a rebuild between an erasure and a creation. In *judging* one prose and
one exact question, a trial each, run through two threads with four events (start, die, start again,
the judge turns). In *mining* the file is full after two letters, so that three letters of two nodes roll it
twice. In *fixtures* pairs are chosen that share keys or count what the other plants.

`CHECK_DEADLOCK FALSE` is said only where the system may stop: clients need not call
(`staging`), texts and revisions are bounded (`freshness`), a batch or a loop is through and no
event is left (`ingest`, `callers`).

Each property has a mutant in `PROJECT.json`: a definition changed the way a plausible
bug would, which TLC then finds. The mutated operator stands before the definition it
replaces, with "Mutant:" in its comment, and is used nowhere else.

### Fairness

* `staging`, `CallsReturn`: weak fairness of the statements of a started call (the
  database serves them, wakes a waiter and breaks deadlocks), and callers stop calling one
  day. The second assumption is there because Neo4j's lock queue is not known to be fair.
* `freshness`, `SweepDrains`: the sweep is run again and again (it is a command of a
  schedule), a started pass goes on, and one day only sweeps run and none dies. Nothing is
  assumed about which nodes a batch picks: it is `LIMIT` without an order.
* `callers`, `LoopsEnd`: weak fairness of the steps of the planner and of the corrective loop, which
  are plain code; nothing about the writers and nothing about what serve replies.
* `serve`, `CallsAnswer`: weak fairness of the reads of a call; nothing about the
  writers, which may change the graph for ever.


## 4. What is proved

Checked by TLAPS for every value of the constants that meets the named assumptions.

**Mutate** (`FactsAssumption`, `ClockAssumption`, `NamespaceAssumption`): `TypeCorrect`,
`AsOfUniqueTheorem`, `SentinelTheorem`, `SingleCurrentTheorem`, `PastTheorem`.
`AsOfUnique` is not inductive: that an add cannot overlap a closed window needs to know
that no window starts in the future and that closed windows end by now. The invariant is
`WindowInv`: type correctness, `AsOfUnique`, `SentinelContract` and `StartsPast` (no
present edge starts after `wall`). The key lemma is `AddSeparates`: after an add with any
clock up to `wall`, no instant lies both in the window of the edge added and in that of
another edge of the slot; it is the place where an out-of-order clock could have done
harm. `SingleCurrent` follows, being `AsOfUnique` at the instant `wall`.
`PastTheorem` is an action property from the same invariant: only a fact that had ended and is asserted again
(`Reasserts`) loses what it said of its past, which is exactly the disagreement that `mutate_history` shows (section 5). `AcyclicTheorem` is `Spec =>
[]AcyclicButSelfLoops`. To avoid induction over paths, "a does not lead to b" is said with a set
(`Apart`: a set closed under the edges that holds the objects of a and not b). `OneMoreLeg` shows that an edge
whose object is apart from its subject leaves everything apart that was: of the closed sets of the two edges
either the intersection or the union, with the new object, is one again. The guard reads with the
caller's clock, not with `wall`; `CurrentEarlier` shows that what is current at `wall` is so at every
reading before it (no current edge has an end before SENTINEL), so that a late clock makes the guard see
more edges, never fewer.

`CurrentTheorem` is `Spec => CurrentPromise`, the refinement of `CurrentEdges`. `SentinelContract` carries it: an edge
is current on the database's clock exactly when it has SENTINEL, so what a transaction with an old clock ends
was current or had ended already, what it finds current may not be, and a step of the clock or a prune changes no
current edge (`OpenNow`, `OpenAreCurrent`, `OpenIsCurrent`). For an add this makes both tests of the engine stronger
than those of the store (`GuardSuffices`), and its result the same (`AddIsAdd`); for a snapshot it is why
the store must leave open what is added.

**Staging** (`StagingAssumption`), for any number of clients, candidates, keys, namespaces and retries:
`TypeCorrect`, `SingleCurrentTheorem`, `OwnNodesTheorem` and `LifecycleTheorem`, the refinement of
`CandidateLifecycle`. None of the properties is inductive, because what makes them true is what the
transactions in flight hold. `Inv` adds: `Placement`, the program text (which call can be at which statement
with what it carries); `Holding`, per client, as long as nothing was `missed`: a review past its lock
holds its candidate, and past its read the status is still one it may act on (`CandHeld`); a
writer past its lock holds the subject and knows every edge its own would stand beside (`SlotHeld`); a promote
past its ownership check has its endpoints still (`EndsOwned`); and `Spared`, that rollback never takes the
shared namespace. `EndsOwned` holds although endpoints are read without a lock: erasing a node needs every
candidate of its namespace free, and the promote holds one. The argument is the usual one for locks:
`OthersHold` says what a step must leave alone for a client to keep what it holds; `OneCaller` applies it to
the others while one client steps, `Beside` to everybody while no client does (stage, resolve, rollback, sweep); and one
lemma per statement establishes it for the client that steps. The commit is the only step that changes `current` for the better,
and there the three parts together give the abstract step: what the transaction is to end is within the rivals of its fact
(`Placement`, with `RivalsKnown`), and as long as it holds its subject these are all the rivals there are (`SlotHeld`).

**Freshness** (`FreshnessAssumption`): `TypeCorrect`, `SignalsTheorem`, `ChunksTheorem` from
one invariant `Inv` (types, what each node satisfies by itself, chunks follow the vector)
that every transaction preserves whatever passes are in flight. A row of the history
ingest is a read followed by a write, so the invariant also says which text an
interrupted row can hold (`RowTexts`). `OvertakenTheorem` is `Spec => []GuaranteeUnlessOvertaken`:
with any overlap of writers and passes, equal revisions mean that the vector is that of the content, for each
node whose text never changed while a worker held another one. The invariant says, of each such key
by itself, that what every worker holds of it goes with its node (`Fits`: a pass holds the text the node has, a
row has read the text the node has) and that its revisions tell the truth (`KeyInv`). A step either keeps what a
worker holds, drops it, or takes it from the node as it is (`Takes`); a change of the text while somebody
holds one is by definition what overtakes. This is exactly what the race of section 5 breaks.

**Ingest** (`ProcsAssumption`; from the third theorem on `BatchesAssumption`: the batches have the shapes that the
parsers of the sources produce). `OverlapTheorem` is `IngestSpec => []CyclesNeedOverlap`, for any batches,
processes, halts and foreign writes. Acyclicity is said without paths: every set of nodes has one with no
edge into the set (`AllGrounded`). `OneMoreJoin`: an edge whose object does not lead to its subject keeps
this, as the set of what its object leads to shows. A guard whose read is not out of date vouches for that; the other
steps only end edges.

`ConvergeTheorem` (`RerunConverges`), `AccountTheorem` (`NothingLost`) and `DriftTheorem` (`OnlyProjectsDrift`) share one
invariant, `KInv`, which follows a batch through its first run, its halts and its re-runs. The hard part is that a
re-run meets what the prefix of an earlier run left, and that it evicts and restores incumbents
again on its way. `Stands(live, S, F, G, i, m)` says what the edges G are when this run has tried the first i of
the specs S and some run has got to m >= i, from the edges F of the first begin: the edges of relations that do not evict
(`Lasting`) are those that a run without a halt has after m specs, because they only grow and a graph that holds them
absorbs a spec that was tried before (`Absorbs`: refused again, there already, or without an end); and the slot
of an evicting relation holds what the last of the first i specs about it says, or what it held in F when no spec of the batch is
about it. At i = m = Len(S) the two parts determine G (`StandsOnce`). `Accounted` says of each spec that was tried
where it went; and `Drifts`, entity by entity, that a text changes without a mark only under a key that a history names
as a project.

`LedgerTheorem` (`LedgerStaysPut`) adds `LInv` to it and rests on `LogsAssumption`, which says of the data what
etl_history.py says of it: a ledger is append-only "by contract" (lines 22-26), so that the n-th good record is the same in every
reading (`OnlyGrows`; the text of a record is its JSON, which holds the run_id that names its project); the key of a record has
a prefix that no other entity has (`KeysApart`); and one run of `_real` does not read two rows of one id (`RowsApart`).
TLC evaluates it on the batches of `ingest`. `Files` is the first half: what lies under the key of a record is the text of a
record of that position, or of nobody's, and the edge that was asked for there, by whichever reading of whichever
process, is the project of one; a position has one record (`RecordsFiled`). The second half follows a run of `_real` through its three
batches (`Underway`): each is still to come, or the current one, or in place, and a batch that comes later writes
under the key of an earlier row only the same text again (`PartsStay`).

**Serve** (`ServeAssumption`: finitely many keys, no two vectors equally near, queries of the shape `Query`), for any
graph, number of processes, changes between the reads, and scores: `ActsTheorem` is `Spec =>
[]ActsOnFreshClaims`. Its invariant adds `Shaped`: a call executes in `Decide` only, after which it can only return,
so the facts and the freshness the gate saw are still those of the call. The gate's part is a case analysis:
a pass needs no stale and no unsupported claim, and the claims of an answer without facts
and sections are unsupported. `LeaseTheorem` is `Spec => OnlyHumansGrant`. 

`TypeTheorem` (`TypeOK`), `FirstTheorem` (`FactFirst`) and `IsolationTheorem` (`Isolation`) are three parts of one
invariant, `CInv`: the store is well typed, and each call is `Sound` (what it has at each place of the program) and
`Within` its slice: every key it has found, shows or may still follow (`Held`) is in the slice, or was erased
since it began. The reads only add keys that they see; of the writers only an erasure takes a key
out of a slice, and it is noted. `FactFirst` is the arithmetic of `fuse.py`: the best exact hit stands first in
its ranking and so has 1/(60 + 1) at least, a key that vectors and passages alone voted for has at most one vote, of
at most that, because a passage only votes for a parent that no vector found (`ChunkFused`), and a tie
goes to the source with authority (`ExactLeads`). That the sums are those of the code, in whole units, is induction over the
rankings. `LeaksTheorem` is `Spec => []LeaksAreKnown`, from `CInv` and `Told`, which is inductive: at the check the answer is
within the slice but for erased keys and for what prose names, so nothing is reported for nothing, and all of it is asked about;
afterwards only a key that did not exist can become somebody's, and `Told` knows that all of those are `gone` (`CheckTold`,
`StillTold`, `WritersTold`, `EraseTold`). `CliffTheorem` is `Spec => NoCliff`: T nodes in scope among the n nearest of all are the T nearest of those in scope
(`WindowSuffices`), and a scan as wide as the index sees every one (`AllNearest`).

**Planner** (`StepsAssumption`; `StructureTheorem` also `ObjectsAssumption`): `PlannerImplementsSearch` is `PlannerSpec => PlannerPromise`, for any question,
any texts and any replies. The invariant counts the probes (`StepsCounted`: as many as steps) and
says what is known of the last reply in each phase (`Phased`: a probe that is about to be made is
new, and the last reply was an abstention). From the same invariant come `PlannerTypeCorrect`,
`AskedOnceTheorem` and `OnlyStaleTheorem` (with tau at the gate's threshold, "confident_abstain"
can only be said of a card with a stale fact). `StructureTheorem` is `PlannerSpec => []StructureWasTried`:
the probes of the structure are among the candidates after every reply without facts, because verb and ids are
looked for in the question and not in the query of the step, and a planner that stops early has tried them all.

**Corrective** (`RewritesAssumption`): `CorrectiveImplementsSearch` is `CorrectiveSpec =>
CorrectivePromise`, `ActsOnceTheorem` is `CorrectiveSpec => []ActsOnce`. Here the invariant says that until an
answer ends the loop nothing was carried out (`Acted`), that a loop that goes on has an abstention as its
first and its last decision (`StillAsks`), and that each rewrite was a new probe (`RewritesCounted`); what the
generator still holds is irrelevant to all three, so the proof needs nothing about the rewrites.

**Communities** (`HomesAssumption`: finitely many entities, finitely many homes each). `SummaryTheorem` is
`CommunitiesSpec => []SummaryStaysHome`. The argument follows the texts: an entity gets into a rebuild only
while it is in the namespace (`Local`), its text is one that a home of it wrote (`LocalTexts`), and
a resumed summary was made under the same namespace because the checkpoint's key holds it. That
the number of a community stays in range (`CurrentIs`) needs that a partition has at most as many
parts as there are entities. The mutant `ResumedByNumber` is the key without the namespace.

`QuietTheorem` is `CommunitiesSpec => []QuietRebuildCovers`, whatever other rebuilds and writers do in other
namespaces and whatever was left by scripts that died in this one. `Progress` says of a rebuild that nobody disturbed, at each
of its places, that the namespace is divided into what is still to be written and what has an entry, one each
(`Cover`); that the communities to come are disjoint and not empty (`Pieces`); and that exactly the numbers it has
passed have a node and a member. A step of somebody else either makes the rebuild disturbed or leaves
its namespace as it is (`LeavesAlone`, `Beside`); the wipe is what makes the claim independent of what was there before, and its
mutant `WipedGhosts` breaks it. `CommunitiesTypeTheorem` is the type invariant, that memberships are of entities and
communities that exist.

**Judging** (`ProseAssumption`: finitely many questions of prose). `OkTheorem` is `JudgingSpec => []OkMeansJudged`, for any
questions, numbers of trials, threads and answers, whatever the judge, the graph and the process do between two steps. That the
end of cal4 looks at the right tallies is its last step only; the invariant, `JudgingInv`, says why
they are still right afterwards: a script that is not at work has no thread at work, a script at work has said
nothing yet, and cal3 asks one question after the other and for labels alone (`OneByOne`), so that an error of it leaves no
thread behind that would still write into the results of the next one. `JudgingTypeTheorem` is the type invariant.

**Mining** (`CapAssumption`, `NodesAssumption`, `OutputsAssumption`: there are nodes and replies are lists). `UnminedTheorem` is
`MiningSpec => []NothingUnmined`, for any nodes, replies, capacity and number of miners. The first half follows each triple of a
reply (`Dealt`: it has still to be read or staged, or it is a candidate or a letter); what was staged
or written stays so (`Grows`), whichever miner or agent was first. The second half is about order: the last letters are not only among
those in the files, `Follows` says that their end is the end of the file, position by position, and that what
exceeds it is in the one replaced last. A file is replaced only when it holds at least CAP letters, and so
all of the last CAP; that it does still hold them when it is replaced is what a second miner may break, and `raced` excepts.
`MiningTypeTheorem` is the type invariant: no file holds a letter that was not written (`Filed`).

**Fixtures** (`TogetherAssumption`: the scripts are those of the table). `TransientTheorem` is `FixturesSpec =>
[]FixturesAreTransient`, for any of the scripts beside any others, and with no bound on starts, deaths and writers. The first
half, that a planted node has somebody who will remove it or did not, is inductive nearly as it stands (`Owned`): a script
that cleans takes away the nodes and the blame of those alone whose keys it has. The second half, that a script passes when it is
let alone, follows the script (`Promising`, `SoFar`): what the statements behind it planted and joined is there. It
needs three things. `WellWritten` is what a script must be for that: it plants before it asks, joins what it planted,
and cleans at the ends only; one lemma per script checks it, and the table of scripts is used nowhere else. `Mild`: an edge is lost
with one of its ends only, so that a script that still has its nodes has its edges (`StaysPromising`). And the count that two
self-tests compare is one of a set of copies (`Copies`), to which a create adds one (`OneCopyMore`) and from which the
`finally` takes it (`CopiesGone`). `FixturesTypeTheorem` is the type invariant, that every planted edge has both its
ends (`Anchored`): who removes a node removes its edges (DETACH DELETE), and a merge needs both.

**All callers** (the assumptions above together). `CallersTypeTheorem` is `MCSpec => []TypeOK`, the type invariant of the
composition that the run `callers` checks. The planner and the corrective loop share the search variables, so that
their invariants are carried through the steps of both (`LoopsHold`); of the other scenes the
composition adds no behaviour that their own specifications do not have (`ScenesAreTheirs`), so that every theorem about one of
them is one about the composition too. `ScriptsProofs` extends `MCCallers` and the modules of their proofs for this.

**Only model-checked.** Liveness (`CallsReturn`, `SweepDrains`, `CallsAnswer`, `LoopsEnd`) and anything with
`ENABLED` are out of the prover's reach. No module declares a RECURSIVE operator. The library's
induction theorems take an operator as a parameter and cannot be instantiated, so that the proofs about
recursive functions (`Ingest`, `Serve`) use a lemma of their own, `Induct`, on sets of numbers: a set that holds 0 and with
each number the next holds all.


## 5. Where the code and its documentation disagree

Six disagreements are runs whose expected result is a violation:

* **A finished fact that is asserted again loses its former window** (`mutate_history`):
  `mutate.py:144` overwrites `valid_at` of the one edge, while docs/ARCHITECTURE.md:44 says
  history is replayable.
* **A node may depend on itself** (`mutate_self_loop`): the guard's pattern (`mutate.py:108`)
  needs an existing path, which a node without edges does not have; relations.yaml:73 says the
  graph must stay acyclic.
* **An approval may overwrite a rejection** (`staging_missed_lock`): the lock of `staging.py:97`
  locks nothing when the candidate is missing, and a rollback and a new stage may bring it back
  between the statements; staging.py:116 says reject dominates. The same cause has two more consequences, which
TLC finds in the last two scenes of `staging` when `missed` is dropped from the properties: a promote and an
ingest whose subject was erased before either locked it, and resolved again before they merged, leave two current
objects of a functional relation (mutate.py:71-73 says exactly one), and a promote that
locked nothing may commit its edge on nodes that another namespace has created since its ownership check.
* **An edit may be marked as embedded** (`freshness_race`): `sweep.py:39` embeds a text read
  earlier and stamps the revision found later; ONTOLOGY_SCHEMA.md:246 says equal revisions mean
  that the vector matches.
* **The categorical hard stop is not consulted for clean claims** (`serve_hard_stop`):
  `abstain.py:87` never calls `gate`; gate.py:18 and 02-agents/AGENT_ARCHITECTURE.md:67 reserve
  security and irreversible actions to humans. No role is leased in the shipped source, so this
  needs a human to grant a lease.
* **An ambiguous card may be acted on** (`serve_quarantine`): `reconcile`'s `actionable` is put in
  the trace (`serve.py:375`) and is not an input of the decision (`serve.py:592`); reconcile.py:17 says
  such a card is never actionable. It is reachable without a breach of the engine: cardinality is per
  namespace, and a reader of two namespaces sees one current edge in each.

Others were met while modelling and have no run of their own:

* `rollback_namespace --apply` may leave edges: they are deleted in one transaction
  (rollback.py:126) and nodes in the next, while rollback.py:103-104 says all three counts are 0 after.
* The history ingest respells a project by row order without bumping its revision
  (etl_history.py:264-273), contrary to ONTOLOGY_SCHEMA.md:246; hence `Guarantee` excludes projects.
* `sweep_candidates` deletes ids listed earlier, which may no longer be orphans, or are promoted by now.
* serve raises `TypeError` when the primary leaves the slice between two reads (serve.py:370-371): `raised`
  in the model.
* serve.py:418 says "one hop only", but `_add_card` extends the list the loop iterates (serve.py:414,
  421), so that chains are followed until 2k cards are shown. The model follows them.
* serve.py:429 says that the self-check looks at every node the answer touches; of the composed lines it
  looks at keys that begin with issue: or agent: (serve.py:438). `LeaksAreKnown` is about those.
* The same line finds such keys in prose: a node of the role's own slice that mentions another role's ticket is
  reported as a leak, in a graph where nothing moves, and the planner stops with an exception. `LeaksAreKnown` admits it.
* A foreign ticket that did not exist at the self-check, or was erased after it, and came back to another owner before
  the return is not reported (serve.py:439 checks once). `LeaksAreKnown` excepts it.
* A vector embedded after `total` was read may push a node in scope out of the last round although fewer than
  k hits were found (ladder.py:53-61). `NoCliff` excepts an index that has grown.
* An answer without any fact of the graph can act on a fresh section of a document, although reconcile
  calls its card not actionable. `ActsOnFreshClaims` says so.
* `apply_set_snapshot` (mutate.py:154-159) takes an edge that ended after its caller's clock for a current one and so
  does not add it: with an old clock a desired object may be missing afterwards, contrary to "add missing"
  (mutate.py:150-151). In the repository only the self-test calls it,
  with one clock after the other.
* etl.py:114 says that a clean run's dead-letter list is "empty = all applied". An edge whose subject
  or object does not exist is neither applied nor put aside, and its incumbent is evicted; `NothingLost`
  excepts it.
* `LedgerStaysPut` rests on logs that only grow, as etl_history.py:22-26 demands: when a past line is edited, as the
  self-test does (line 455), the node has the new text and the edge still the old project.
* etl_history.py:144-151 says that a fixture's key can never collide with a real one, but the fixture rows are
  numbered like real ones (`obs:1`); when one exists the self-test raises before its own cleanup.
* communities.py:221 leaves an emptied namespace as it is: its communities are not wiped.
  `QuietRebuildCovers` says so.
* summarize_adapter.py says that the adapter never sees another namespace; texts are read by key after
  the members were chosen, so one that changed hands in between is read. `SummaryStaysHome`
  excepts entities with two homes. A resumed summary may also tell of members the community had before.
* `_call` of summarize_adapter.py and of web_fallback_adapter.py do not look at the return code of the
  program: what a program that failed printed is taken for its answer.
* corrective.py:291 updates the prior result "for neighbor_expand", but the generator was given the first
  one; `Corrective` models what happens.
* judge_adapter.py says that a caller must stop when the judge wants a login or money; cal4's threads count it as
  an error and ask for the next job. The run still ends with FAIL (`OkMeansJudged`).
* A verdict is resumed by its question, not by the answer it was given for: after serve answers
  otherwise, a resumed run reports old verdicts. A line that was half written makes every later start of
  cal4 raise, and every later cal3 that gets to its first judged answer.
* Two miners that look at the full dead-letter file together replace it twice, and the kept generation is
  lost (extract.py:124). `NothingUnmined` excepts this race; and a node that is mined again writes its letters
  again.
* The self-tests of `cycle_check` and `invariant_check` compare two counts of all nodes, so that other writers make
  them report a leak; the demo of the planner fails without `agent:cto`, because an edge to it is silently not
  merged; the OCR demo swallows a failure of its cleanup; several scripts plant before their `try`. These are the
  exceptions in `FixturesAreTransient`.
* `graph_rung` returns a subject once per edge (ladder.py:37), so that it counts twice in the fusion when
  two namespaces assert the same fact.


## 6. What is not modelled

* Text and its handling (tokenising, splitting, escaping, embedding vectors, the parsing of an
  extractor's or a judge's output) is data: model values, with any result the properties tell apart.
* `ocr_adapter.py` and `pageindex_adapter.py`: calls of external tools and tree building over
  a text; what a drilled section does to an answer is in `Serve`.
* `mcp_server.py` wraps `serve` and `plan`; `fix_decision.py` prints a comparison; the tools of
  `tools/` are greps and scripts of the build.
* The statistics of the evaluations (`cal2_erag.py`, `h2b1_calib.py`, `h3_instr.py`, the fit of
  `cal3_fit.py`, the metrics of `cal4_sweep.py`), the texts of the golden set and the assertions of
  `eval_*.py` on single functions: computations over fixed data. What they do to the graph is in `Fixtures`, what
  they do to the lease in `Judging` and `Serve`. A cal4 run without a prose question is not modelled.
* Of `serve`: reads with `as_of`, the filter by embedding model and `ladder.retrieve`.
* The queries of `cycle_check` and `invariant_check` are the definitions `Acyclic` and `SingleCurrent` of `Mutate`;
  the latter is proved (`SingleCurrentTheorem`) and has no run of its own, because `AsOfUnique` implies it.
* Where the model is coarser than the code, beyond what section 2 says of each module. `Staging`: the two transactions of
  `rollback_namespace` take all their locks at once; an ingest begins when its endpoints are owned. `Freshness`: a change
  of `short_context` alone also raises the revision (etl.py:50), which is left out; a rollback deletes one node per step.
  `Planner`: the filter that drops a part equal to the current query (planner.py:206), which its `tried` set drops as
  well. `Communities`: `Gather` leaves out the facts inside a community (communities.py:138-150), edges of its own
  namespace between its members; `Summarize` always has a checkpoint, and takes a checkpointed summary of no texts
  for none. `Fixtures`: the demo of serve deletes its community without `DETACH` (serve.py:1030-1034), modelled as
  with it, and its second malformed edge (serve.py:988-1004) is left out; the history self-test cleans by
  namespace and is modelled by its keys, and a read of it that misses always raises.
* The database and the programs outside are modelled from how the code uses them (external entries of the
  map).


## 7. Plan

Done: the write engine, the gate, freshness, the read path, batch ingests, both probing loops and
their refinement, communities, calibration, mining, fixtures; and theorems for every safety property of the
modules of the model that a run checks. What is left:

1. Of the model: `as_of` reads and the filter by embedding model in `Serve`.

------------------------------- MODULE MCIngest -------------------------------
(* Small instances of Ingest for TLC.  A scene names the batches that may be  *)
(* given to the processes and the keys that others erase, create or embed;    *)
(* what may happen without end happens at most `left` times.                  *)
EXTENDS Ingest

\* Issues, a repository, projects, an agent, two values of status, records of
\* the two ledgers and an observation of each memory.
MCKeys == {"issue", "repo", "acme", "beta", "cto", "open", "shut",
           "l0", "l1", "l2", "r0", "obs", "cm"}
MCLedgerKeys == [ledger |-> <<"l0", "l1", "l2">>, runledger |-> <<"r0">>]

Issue(title, project, assignee, status, blocks) ==
    [id |-> "issue", title |-> title, project |-> project, assignee |-> assignee,
     status |-> status, blocks |-> blocks]

Structured(projects, repos, issues) ==
    [kind |-> "structured", agents |-> <<"cto">>, projects |-> projects,
     repos |-> repos, issues |-> issues]

\* An issue that blocks itself and one that is not there, moves to another
\* project, changes its status, or comes twice with an assignee that is no agent.
First == Structured(<<"acme">>, <<>>, <<Issue("t", "acme", "cto", "open", <<"issue", "repo">>)>>)
Moved == Structured(<<"acme", "beta">>, <<[id |-> "repo", project |-> "acme"]>>,
                    <<Issue("u", "beta", "cto", "shut", <<>>)>>)
Twice == Structured(<<"acme">>, <<>>,
                    <<Issue("t", "acme", "cto", "open", <<>>), Issue("t", "beta", "obs", "shut", <<>>)>>)

Line(good, project, text) ==
    [key |-> None, good |-> good, project |-> project, spelling |-> text, text |-> text,
     titled |-> TRUE]

Memory(key, text, project, spelling, titled) ==
    [key |-> key, project |-> project, spelling |-> spelling, text |-> text, titled |-> titled]

Observation(text, project, spelling) == Memory("obs", text, project, spelling, TRUE)

History(rows, lines) ==
    [kind |-> "history", rows |-> rows, lines |-> lines, prefix |-> "ledger"]

\* A ledger that grows: a line without a run_id, a first record, a second one
\* that is torn and then whole; and an observation that is reworded and
\* changes its project.
TornSecond == <<Line(FALSE, "beta", "z"), Line(TRUE, "acme", "x"), Line(FALSE, "beta", "y")>>
Whole == <<Line(FALSE, "beta", "z"), Line(TRUE, "acme", "x"), Line(TRUE, "beta", "y")>>

Logs == {History(<<>>, TornSecond), History(<<>>, Whole),
         History(<<Observation("o", "acme", "Acme")>>, <<>>),
         History(<<Observation("p", "beta", "acme")>>, <<>>)}

\* Runs over all the sources: the second finds the ledger grown, the observation
\* reworded, and a memory that has lost its title.
Real(engram, claude_mem, ledger) ==
    [kind |-> "real", engram |-> engram, claude_mem |-> claude_mem, ledger |-> ledger,
     runs |-> <<Line(TRUE, "beta", "w")>>]

Reals == {Real(<<Observation("o", "acme", "Acme")>>, <<Memory("cm", "m", "acme", "Acme", TRUE)>>,
               TornSecond),
          Real(<<Observation("p", "acme", "Acme")>>, <<Memory("cm", "m", "acme", "acme", FALSE)>>,
               Whole)}

Fact(s, o) == [kind |-> "fact", fact |-> Spec(s, "DEPENDS_ON", o)]

Dependencies == {Fact("issue", "repo"), Fact("repo", "acme"), Fact("acme", "issue"),
                 Fact("issue", "issue")}

Scene(batches, moves, start, events) ==
    [batches |-> batches, moves |-> moves, start |-> start, events |-> events]

\* What is ingested, the keys that others may touch, the keys that are there
\* at the start, and how many events there may be.
Scenes == {Scene({First, Moved}, {"cto", "beta"}, {}, 4),
           Scene({Twice, Moved}, {}, {}, 5),
           Scene(Logs, {"obs", "acme", "l0"}, {}, 4),
           Scene(Reals, {"obs"}, {}, 4),
           Scene(Dependencies, {"issue"}, {"issue", "repo", "acme"}, 4)}

MCBatches == UNION {s.batches : s \in Scenes}

\* The processes are alike.
Symmetry == Permutations(Procs)

VARIABLES scene, left

MCInit ==
    /\ scene \in Scenes
    /\ left = scene.events
    /\ node = [k \in Keys |-> IF k \in scene.start THEN Plain ELSE Absent]
    /\ IngestInit

Events ==
    \/ \E p \in Procs, b \in scene.batches : Starts(p, b)
    \/ \E p \in Procs : Halt(p)
    \/ \E k \in scene.moves : Erase(k) \/ Claim(k) \/ Embed(k)

MCNext ==
    /\ \/ left > 0 /\ left' = left - 1 /\ Events
       \/ UNCHANGED left /\ \E p \in Procs : Proceeds(p)
    /\ UNCHANGED scene

MCSpec == MCInit /\ [][MCNext]_<<ivars, scene, left>>

=============================================================================

-------------------------------- MODULE Mining --------------------------------
(* Mining candidates from prose (01-context/src/extract.py, and the tool that *)
(* lets an agent propose one, 02-agents/src/mcp_stage_server.py).  A miner    *)
(* reads the prose nodes once and gives them to a program outside, one after  *)
(* the other.  It goes through the triples of a node, appends each bad one to *)
(* a file of dead letters and stages the good ones together afterwards.  The  *)
(* file is replaced when it is full; only one former file is kept.  What      *)
(* becomes of a candidate is the subject of Staging.                          *)
EXTENDS Naturals, Sequences, SequencesExt

CONSTANTS
    Nodes,     \* the prose nodes, in the order of their keys
    Good,      \* the triples with a relation of the contract, a subject and an object
    Outputs,   \* the lists of triples the program may reply with
    CAP,       \* how many letters make the file full
    Miners

ASSUME CapAssumption == CAP \in Nat
ASSUME NodesAssumption == Nodes \in Seq(ToSet(Nodes)) /\ Nodes # <<>> /\ "none" \notin ToSet(Nodes)
ASSUME OutputsAssumption == \A o \in Outputs : o \in Seq(ToSet(o))

Nowhere == "none"

VARIABLES
    miner,       \* what each miner is doing
    source,      \* the node each candidate was staged from, or Nowhere before it was
    deadletter,  \* the dead letters
    older,       \* those in the file that was replaced last
    written,     \* the letters ever written
    recent,      \* the last CAP of them, in order
    through,     \* the triples, with their nodes, that a miner is through with
    raced        \* a miner looked at the file while another one was writing to it

mvars == <<miner, source, deadletter, older, written, recent, through, raced>>

Triples == Good \cup UNION {ToSet(o) : o \in Outputs}

Letter(node, what) == [node |-> node, what |-> what]

Unbusy == [at |-> "rest", todo |-> <<>>, output |-> <<>>, unread |-> <<>>, edges |-> <<>>]

MiningInit ==
    /\ miner = [m \in Miners |-> Unbusy]
    /\ source = [t \in Good |-> Nowhere]
    /\ deadletter = <<>> /\ older = <<>>
    /\ written = {} /\ recent = <<>>
    /\ through = {}
    /\ raced = FALSE

MinerAt(m, at) == miner[m].at = at
MinerGoes(m, step) == miner' = [miner EXCEPT ![m] = step]
Node(m) == Head(miner[m].todo)

\* mine is called.  A command that cannot be found raises, and an environment
\* without one changes nothing; otherwise the prose is read.
Mine(m) ==
    /\ MinerAt(m, "rest")
    /\ MinerGoes(m, [Unbusy EXCEPT !.at = "call", !.todo = Nodes])
    /\ UNCHANGED <<source, deadletter, older, written, recent, through, raced>>

\* The program is asked about the next node.  It wants a login or money, or is
\* broken, and the miner ends; or its output is no array, which is one letter; or
\* it is a list of triples.
Extract(m) ==
    /\ MinerAt(m, "call")
    /\ \/ MinerGoes(m, Unbusy)
       \/ \E o \in Outputs \cup {<<"output">>} :
            MinerGoes(m, [miner[m] EXCEPT !.at = "read", !.output = o, !.unread = o])
    /\ UNCHANGED <<source, deadletter, older, written, recent, through, raced>>

Reads(m) == MinerAt(m, "read") /\ miner[m].unread # <<>>
Triple(m) == Head(miner[m].unread)

\* A good triple is put by,
Accept(m) ==
    /\ Reads(m) /\ Triple(m) \in Good
    /\ MinerGoes(m, [miner[m] EXCEPT !.unread = Tail(@), !.edges = Append(@, Triple(m))])
    /\ UNCHANGED <<source, deadletter, older, written, recent, through, raced>>

\* and a bad one is a letter.  _deadletter looks at the size of the file,
Stat(m) ==
    /\ Reads(m) /\ Triple(m) \notin Good
    /\ MinerGoes(m, [miner[m] EXCEPT !.at = IF Len(deadletter) >= CAP THEN "roll" ELSE "append"])
    /\ raced' = (raced \/ \E n \in Miners \ {m} : miner[n].at \in {"roll", "append"})
    /\ UNCHANGED <<source, deadletter, older, written, recent, through>>

\* Mutant: the full file is not kept.
Forgotten(now) == older

\* What is kept once the file is replaced; one that is gone leaves what was kept.
Kept(now) == IF now = <<>> THEN older ELSE now

\* replaces it when it was full,
Roll(m) ==
    /\ MinerAt(m, "roll")
    /\ older' = Kept(deadletter)
    /\ deadletter' = <<>>
    /\ MinerGoes(m, [miner[m] EXCEPT !.at = "append"])
    /\ UNCHANGED <<source, written, recent, through, raced>>

\* and appends the letter.
Write(m) ==
    /\ MinerAt(m, "append")
    /\ LET l == Letter(Node(m), Triple(m))
           last == Append(recent, l)
       IN  /\ deadletter' = Append(deadletter, l)
           /\ written' = written \cup {l}
           /\ recent' = IF Len(last) > CAP THEN Tail(last) ELSE last
    /\ MinerGoes(m, [miner[m] EXCEPT !.at = "read", !.unread = Tail(@)])
    /\ UNCHANGED <<source, older, through, raced>>

\* stage: a candidate that is there keeps what it was staged with.
Staged(t, from) == source' = [source EXCEPT ![t] = IF @ = Nowhere THEN from ELSE @]

ReadAll(m) == MinerAt(m, "read") /\ miner[m].unread = <<>>

\* stage_llm, an edge at a time.
Stage(m) ==
    /\ ReadAll(m) /\ miner[m].edges # <<>>
    /\ Staged(Head(miner[m].edges), Node(m))
    /\ MinerGoes(m, [miner[m] EXCEPT !.edges = Tail(@)])
    /\ UNCHANGED <<deadletter, older, written, recent, through, raced>>

\* The miner is through with a node, and returns after the last one.
NextNode(m) ==
    /\ ReadAll(m) /\ miner[m].edges = <<>>
    /\ through' = through \cup {Letter(Node(m), t) : t \in ToSet(miner[m].output)}
    /\ LET rest == Tail(miner[m].todo)
       IN  MinerGoes(m, IF rest = <<>> THEN Unbusy ELSE [Unbusy EXCEPT !.at = "call", !.todo = rest])
    /\ UNCHANGED <<source, deadletter, older, written, recent, raced>>

\* The process dies.
MinerDies(m) ==
    /\ ~MinerAt(m, "rest")
    /\ MinerGoes(m, Unbusy)
    /\ UNCHANGED <<source, deadletter, older, written, recent, through, raced>>

\* propose_edge: an agent proposes one.
Propose(t) ==
    /\ Staged(t, "agent")
    /\ UNCHANGED <<miner, deadletter, older, written, recent, through, raced>>

MinesOn(m) == Extract(m) \/ Accept(m) \/ Stat(m) \/ Roll(m) \/ Write(m) \/ Stage(m) \/ NextNode(m)

MiningNext ==
    \/ \E m \in Miners : Mine(m) \/ MinesOn(m) \/ MinerDies(m)
    \/ \E t \in Good : Propose(t)

MiningSpec == MiningInit /\ [][MiningNext]_mvars

-----------------------------------------------------------------------------
(* Properties                                                                 *)

\* Every variable holds what the code lets it hold.
MiningTypeOK ==
    /\ source \in [Good -> ToSet(Nodes) \cup {Nowhere, "agent"}]
    /\ ToSet(deadletter) \cup ToSet(older) \cup ToSet(recent) \subseteq written
    /\ written \cup through \subseteq
           {Letter(n, w) : n \in ToSet(Nodes), w \in Triples \cup {"output"}}

\* Whatever calls fail and miners die, everything the program said of a node
\* that a miner is through with is a candidate or was written as a letter; and
\* unless miners write at the same time, the last CAP letters are still in one
\* of the two files (extract.py, "malformed output -> dead-letter").
NothingUnmined ==
    /\ \A l \in through :
          IF l.what \in Good THEN source[l.what] # Nowhere ELSE l \in written
    /\ raced \/ ToSet(recent) \subseteq ToSet(deadletter \o older)

=============================================================================

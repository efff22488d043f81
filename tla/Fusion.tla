------------------------------- MODULE Fusion -------------------------------
(* Reciprocal rank fusion of fuse.py.  Keys are numbers in the alphabetical   *)
(* order of the program's keys; a ranking is a sequence of keys, best first;  *)
(* rankings maps each source to its ranking, <<>> when the source is silent.  *)
EXTENDS Integers, FiniteSetsExt, SequencesExt

K == 60

\* SOURCE_PRIORITY: a smaller position is a higher authority.
Sources == <<"keyword", "graph", "vector", "chunk">>

Ranked(rankings) == UNION {ToSet(rankings[Sources[i]]) : i \in DOMAIN Sources}

\* The places of d in the rankings, as <<source, rank>>.
Places(rankings, d) ==
    {p \in UNION {{i} \X DOMAIN rankings[Sources[i]] : i \in DOMAIN Sources} :
        rankings[Sources[p[1]]][p[2]] = d}

\* 1 / (K + rank) as a whole number of units; the product of K + 1, ..., K + n,
\* where n is the length of the longest ranking, is the unit, so that no sum is
\* rounded.
Unit(rankings) ==
    LET n == Max({Len(rankings[Sources[i]]) : i \in DOMAIN Sources})
        product[i \in 0..n] == IF i = 0 THEN 1 ELSE (K + i) * product[i - 1]
    IN  product[n]

\* What the places of d in one ranking add to its score.
Votes(ranking, d, unit) ==
    LET upto[i \in 0..Len(ranking)] ==
            IF i = 0 THEN 0
            ELSE upto[i - 1] + (IF ranking[i] = d THEN unit \div (K + i) ELSE 0)
    IN  upto[Len(ranking)]

Score(rankings, d) ==
    LET Of(source) == Votes(rankings[source], d, Unit(rankings))
    IN  Of("keyword") + Of("graph") + Of("vector") + Of("chunk")

Priority(rankings, d) == Min({p[1] : p \in Places(rankings, d)})

Before(rankings, a, b) ==
    LET sa == Score(rankings, a)   sb == Score(rankings, b)
        pa == Priority(rankings, a)   pb == Priority(rankings, b)
    IN  \/ sa > sb
        \/ sa = sb /\ pa < pb
        \/ sa = sb /\ pa = pb /\ a < b

\* The ways to put S in order: one when the order is total.
Orders(S, before(_, _)) ==
    {s \in SetToSeqs(S) : \A i, j \in DOMAIN s : i < j => before(s[i], s[j])}

rrf(rankings) == Orders(Ranked(rankings), LAMBDA a, b : Before(rankings, a, b))

=============================================================================

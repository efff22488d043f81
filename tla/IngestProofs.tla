----------------------------- MODULE IngestProofs -----------------------------
(* Proofs for Ingest, for any batches, processes, halts and writers.  First   *)
(* the cycle guard without a lock (CyclesNeedOverlap); then what a batch does *)
(* that is halted and run again: where it stands is said by the specs tried   *)
(* in this run and those tried in some run (Stands), from which it follows    *)
(* that running it again to its end changes nothing (RerunConverges).         *)
EXTENDS Ingest, SequenceTheorems, WellFoundedInduction, TLAPS

\* As Grounded, of every set of nodes: one that is no subject has no edge.
AllGrounded(E) == \A S : S # {} => \E k \in S : \A f \in E : f.s = k => f.o \notin S

LEMMA GroundedSubjects ==
    ASSUME NEW E, AllGrounded(E)
    PROVE  Grounded(E)
<1> DEFINE X == {f.s : f \in E}
           Sink(S) == \E k \in S : \A f \in E : f.s = k => f.o \notin S
<1>1. ASSUME NEW S \in (SUBSET X) \ {{}} PROVE Sink(S)
  <2>1. S # {}
    OBVIOUS
  <2> QED
    BY <2>1 DEF AllGrounded
<1>2. \A S \in (SUBSET X) \ {{}} : Sink(S)
  <2> HIDE DEF X, Sink
  <2> QED
    BY <1>1
<1> QED
  BY <1>2 DEF Grounded

LEMMA FewerJoins ==
    ASSUME NEW E, NEW D \in SUBSET E, AllGrounded(E)
    PROVE  AllGrounded(D)
BY DEF AllGrounded

\* An edge whose object does not lead to its subject leaves no set without a
\* ground: among what the object leads to there is one already.
LEMMA OneMoreJoin ==
    ASSUME NEW F, NEW e, e.s # e.o,
           ~Leads(e.rel, F, e.o, e.s),
           AllGrounded(Joins(e.rel, F))
    PROVE  AllGrounded(Joins(e.rel, F) \cup {e})
<1> DEFINE E == Joins(e.rel, F)
<1>1. PICK R : /\ \A f \in F : f.rel = e.rel /\ f.s = e.o => f.o \in R
               /\ \A f \in F : f.rel = e.rel /\ f.s \in R => f.o \in R
               /\ e.s \notin R
  BY DEF Leads
<1>2. \A f \in E : f.s \in R \cup {e.o} => f.o \in R
  BY <1>1 DEF Joins
<1> HIDE DEF E
<1> SUFFICES ASSUME NEW S, S # {}
             PROVE  \E k \in S : \A f \in E \cup {e} : f.s = k => f.o \notin S
  BY DEF AllGrounded, E
<1>3. CASE e.o \notin S
  <2>1. PICK k \in S : \A f \in E : f.s = k => f.o \notin S
    BY DEF AllGrounded, E
  <2> QED
    BY <1>3, <2>1
<1>4. CASE e.o \in S
  <2> DEFINE T == S \cap (R \cup {e.o})
  <2>1. T # {}
    BY <1>4
  <2>2. PICK k \in T : \A f \in E : f.s = k => f.o \notin T
    <3> HIDE DEF T
    <3> QED
      BY <2>1 DEF AllGrounded, E
  <2>3. \A f \in E : f.s = k => f.o \notin S
    BY <1>2, <2>2
  <2>4. k # e.s
    BY <1>1, <2>2
  <2> QED
    BY <2>2, <2>3, <2>4
<1> QED
  BY <1>3, <1>4

-----------------------------------------------------------------------------

\* What the guards keep while none of them is overtaken.
Inv == overlapped \in BOOLEAN
       /\ (~overlapped => \A rel \in RelNames : guarded(rel) => AllGrounded(Joins(rel, facts)))

LEMMA TriedOne == \A live, seen, spec : Tried(live, facts, seen, spec) \subseteq facts \cup {spec}
BY DEF Tried, Added

LEMMA ApplyInv ==
    ASSUME Inv, NEW p \in Procs, Apply(p)
    PROVE  Inv'
<1> DEFINE spec == Head(job[p].todo)
           seen == job[p].seen
<1>1. /\ facts' = Tried(Live, facts, seen, spec)
      /\ overlapped' = (overlapped \/ (facts' # facts /\ guarded(spec.rel) /\ seen # facts))
  BY DEF Apply
<1> HIDE DEF spec, seen
<1>2. overlapped' \in BOOLEAN
  BY <1>1
<1> SUFFICES ASSUME ~overlapped', NEW rel \in RelNames, guarded(rel)
             PROVE  AllGrounded(Joins(rel, facts'))
  BY <1>2 DEF Inv
<1>3. AllGrounded(Joins(rel, facts))
  BY <1>1 DEF Inv
<1>4. facts' \subseteq facts \cup {spec}
  BY <1>1, TriedOne
<1>5. CASE Joins(rel, facts') \subseteq Joins(rel, facts)
  BY <1>3, <1>5, FewerJoins
<1>6. CASE ~(Joins(rel, facts') \subseteq Joins(rel, facts))
  <2>1. spec.rel = rel /\ spec.s # spec.o /\ facts' # facts
    BY <1>4, <1>6 DEF Joins
  <2>2. seen = facts /\ ~Refused(spec, facts, seen)
    BY <1>1, <2>1 DEF Tried
  <2>3. ~Leads(spec.rel, facts, spec.o, spec.s)
    BY <2>1, <2>2 DEF Refused
  <2>4. AllGrounded(Joins(rel, facts) \cup {spec})
    BY <1>3, <2>1, <2>3, OneMoreJoin
  <2>5. Joins(rel, facts') \subseteq Joins(rel, facts) \cup {spec}
    BY <1>4 DEF Joins
  <2> QED
    BY <2>4, <2>5, FewerJoins
<1> QED
  BY <1>5, <1>6

\* Every other step leaves the edges, or ends some.
LEMMA EndsOnly ==
    ASSUME Inv, facts' \subseteq facts, UNCHANGED overlapped
    PROVE  Inv'
<1> SUFFICES ASSUME ~overlapped, NEW rel \in RelNames, guarded(rel)
             PROVE  AllGrounded(Joins(rel, facts'))
  BY DEF Inv
<1>1. Joins(rel, facts') \subseteq Joins(rel, facts)
  BY DEF Joins
<1> QED
  BY <1>1, FewerJoins DEF Inv

LEMMA NextInv == Inv /\ [IngestNext]_ivars => Inv'
<1> SUFFICES ASSUME Inv, [IngestNext]_ivars PROVE Inv'
  OBVIOUS
<1>1. ASSUME NEW p \in Procs, Apply(p) PROVE Inv'
  BY <1>1, ApplyInv
<1>2. ASSUME NEW p \in Procs, Proceeds(p), ~Apply(p) PROVE Inv'
  <2>1. UNCHANGED <<facts, overlapped>>
    BY <1>2 DEF Proceeds, Entities, GuardRead, Return, EmbedPass, Prove
  <2> QED
    BY <2>1, EndsOnly
<1>3. ASSUME NEW p \in Procs, (\E b \in Batches : Starts(p, b)) \/ Halt(p) PROVE Inv'
  <2>1. UNCHANGED <<facts, overlapped>>
    BY <1>3 DEF Starts, Begin, BeginReal, Halt
  <2> QED
    BY <2>1, EndsOnly
<1>4. ASSUME Others PROVE Inv'
  <2>1. facts' \subseteq facts /\ UNCHANGED overlapped
    BY <1>4 DEF Others, Erase, Claim, Embed
  <2> QED
    BY <2>1, EndsOnly
<1>5. ASSUME UNCHANGED ivars PROVE Inv'
  BY <1>5, EndsOnly DEF ivars
<1> QED
  BY <1>1, <1>2, <1>3, <1>4, <1>5 DEF IngestNext

\* While no guard's read was out of date as its edge was written, no cycle of
\* two or more nodes closes, whatever is ingested, halted, run again or erased
\* (mutate.py cycle guard; cycle_check.py looks for the rest).
THEOREM OverlapTheorem == IngestSpec => []CyclesNeedOverlap
<1>1. IngestInit => Inv
  BY DEF IngestInit, Inv, AllGrounded, Joins
<1>2. Inv => CyclesNeedOverlap
  BY GroundedSubjects DEF Inv, CyclesNeedOverlap
<1> QED
  BY <1>1, <1>2, NextInv, PTL DEF IngestSpec

-----------------------------------------------------------------------------
(* Induction and recursion over a sequence                                    *)

\* Induction over the naturals, of a set instead of a predicate.
LEMMA Induct ==
    ASSUME NEW T, 0 \in T, \A n \in Nat : n \in T => n + 1 \in T
    PROVE  Nat \subseteq T
<1> SUFFICES ASSUME Nat \ T # {} PROVE FALSE
  OBVIOUS
<1>1. PICK n \in Nat \ T : \A m \in Nat \ T : ~(<<m, n>> \in OpToRel(<, Nat))
  <2> DEFINE M == Nat \ T
             R == OpToRel(<, Nat)
  <2>1. IsWellFoundedOn(R, Nat) /\ M \subseteq Nat /\ M # {}
    BY NatLessThanWellFounded
  <2> HIDE DEF M, R
  <2>2. \E x \in M : \A y \in M : ~(<<y, x>> \in R)
    BY <2>1, WFMin
  <2> QED
    BY <2>2 DEF M, R
<1>2. n # 0 /\ n - 1 \in Nat /\ n - 1 < n
  OBVIOUS
<1>3. <<n - 1, n>> \in OpToRel(<, Nat)
  BY <1>2 DEF OpToRel
<1>4. n - 1 \in T
  BY <1>1, <1>2, <1>3
<1>5. (n - 1) + 1 = n
  BY <1>2
<1>6. (n - 1) + 1 \in T
  BY <1>2, <1>4
<1> QED
  BY <1>1, <1>5, <1>6


Defined(X, a, n, step) == \E f \in [0..n -> X] : f[0] = a /\ \A i \in 1..n : f[i] = step[i][f[i - 1]]

\* What a recursion over 1 .. n defines, when each step is a function.
LEMMA Recursion ==
    ASSUME NEW X, NEW a \in X, NEW n \in Nat, NEW step \in [1..n -> [X -> X]]
    PROVE  Defined(X, a, n, step)
<1> DEFINE Upto(m) == \E f \in [0..m -> X] : f[0] = a /\ \A i \in 1..m : f[i] = step[i][f[i - 1]]
           T == {m \in Nat : m <= n => Upto(m)}
<1>1. 0 \in T
  <2> DEFINE f == [i \in 0..0 |-> a]
  <2>1. f \in [0..0 -> X] /\ f[0] = a /\ \A i \in 1..0 : f[i] = step[i][f[i - 1]]
    OBVIOUS
  <2>2. Upto(0)
    BY <2>1
  <2> QED
    BY <2>2
<1>2. ASSUME NEW m \in Nat, m \in T PROVE m + 1 \in T
  <2> SUFFICES ASSUME m + 1 <= n PROVE Upto(m + 1)
    OBVIOUS
  <2>1. Upto(m)
    <3> HIDE DEF Upto
    <3> QED
      BY <1>2
  <2>2. PICK f \in [0..m -> X] : f[0] = a /\ \A i \in 1..m : f[i] = step[i][f[i - 1]]
    BY <2>1
  <2> DEFINE g == [i \in 0..(m + 1) |-> IF i <= m THEN f[i] ELSE step[m + 1][f[m]]]
  <2>3. m + 1 \in 1..n /\ step[m + 1] \in [X -> X] /\ step[m + 1][f[m]] \in X
    BY <2>2
  <2>4. g \in [0..(m + 1) -> X]
    BY <2>2, <2>3
  <2>5. g[0] = a
    BY <2>2
  <2>6. ASSUME NEW i \in 1..(m + 1) PROVE g[i] = step[i][g[i - 1]]
    <3>1. CASE i <= m
      BY <2>2, <3>1
    <3>2. CASE ~(i <= m)
      <4>1. i = m + 1 /\ i - 1 = m
        BY <3>2
      <4> QED
        BY <3>2, <4>1
    <3> QED
      BY <3>1, <3>2
  <2> HIDE DEF g
  <2> QED
    BY <2>4, <2>5, <2>6
<1>3. n \in T
  <2> HIDE DEF T
  <2> QED
    BY <1>1, <1>2, Induct
<1> QED
  BY <1>3 DEF Defined

-----------------------------------------------------------------------------
(* What one spec does to a set of edges                                       *)

SameSlot(f, e) == f.s = e.s /\ f.rel = e.rel

\* The edges that nothing replaces.
Lasting(G) == {f \in G : ~evicts(f.rel)}

Ended(live, G) == \A f \in G : {f.s, f.o} \subseteq live

Absorbs(live, G, e) == Refused(e, G, G) \/ e \in G \/ ~({e.s, e.o} \subseteq live)

LEMMA Axes ==
    ASSUME NEW rel \in RelNames, evicts(rel)
    PROVE  ~guarded(rel) /\ ~rejects(rel)
BY DEF RelNames, RULES, Rule, evicts, guarded, rejects

LEMMA EvictingIsAdded ==
    ASSUME NEW live, NEW G, NEW e \in Edges, evicts(e.rel)
    PROVE  Tried(live, G, G, e) = Added(live, G, e)
<1>1. ~guarded(e.rel) /\ ~rejects(e.rel)
  BY Axes DEF Edges
<1> QED
  BY <1>1 DEF Tried, Refused

LEMMA LeadsMore ==
    ASSUME NEW rel, NEW F, NEW H, NEW a, NEW b, Leads(rel, F, a, b),
           {f \in F : f.rel = rel} \subseteq {f \in H : f.rel = rel}
    PROVE  Leads(rel, H, a, b)
<1> DEFINE G == {g \in F : g.rel = rel}
           GH == {g \in H : g.rel = rel}
           From(k) == {g.o : g \in {h \in G : h.s = k}}
           FromH(k) == {g.o : g \in {h \in GH : h.s = k}}
<1>1. \A k : From(k) \subseteq FromH(k)
  OBVIOUS
<1> SUFFICES ASSUME NEW S \in SUBSET {g.o : g \in GH}, FromH(a) \subseteq S, \A k \in S : FromH(k) \subseteq S
             PROVE  b \in S
  BY DEF Leads
<1> DEFINE R == S \cap {g.o : g \in G}
<1>2. From(a) \subseteq R /\ \A k \in R : From(k) \subseteq R
  BY <1>1
<1>3. R \in SUBSET {g.o : g \in G}
  OBVIOUS
<1>4. b \in R
  <2> HIDE DEF R
  <2> QED
    BY <1>2, <1>3 DEF Leads
<1> QED
  BY <1>4

LEMMA RefusedMore ==
    ASSUME NEW G, NEW H, Lasting(G) \subseteq Lasting(H), NEW e \in Edges, ~evicts(e.rel),
           Refused(e, G, G)
    PROVE  Refused(e, H, H)
<1>1. {f \in G : f.rel = e.rel} \subseteq {f \in H : f.rel = e.rel}
  BY DEF Lasting
<1>2. CASE guarded(e.rel) /\ Leads(e.rel, G, e.o, e.s)
  BY <1>1, <1>2, LeadsMore DEF Refused
<1>3. CASE rejects(e.rel) /\ \E f \in G : f.s = e.s /\ f.rel = e.rel /\ f.o # e.o
  BY <1>1, <1>3 DEF Refused
<1> QED
  BY <1>2, <1>3 DEF Refused

LEMMA AbsorbsMore ==
    ASSUME NEW live, NEW G, NEW H, Lasting(G) \subseteq Lasting(H), NEW e \in Edges, ~evicts(e.rel),
           Absorbs(live, G, e)
    PROVE  Absorbs(live, H, e)
<1>1. e \in G => e \in H
  BY DEF Lasting
<1> QED
  BY <1>1, RefusedMore DEF Absorbs

LEMMA AbsorbedStays ==
    ASSUME NEW live, NEW G, NEW e \in Edges, ~evicts(e.rel), Absorbs(live, G, e)
    PROVE  Tried(live, G, G, e) = G
BY DEF Absorbs, Tried, Added

LEMMA LastingAdded ==
    ASSUME NEW live, NEW G, NEW e \in Edges
    PROVE  Lasting(Added(live, G, e)) =
             IF ~evicts(e.rel) /\ {e.s, e.o} \subseteq live THEN Lasting(G) \cup {e} ELSE Lasting(G)
BY DEF Lasting, Added

LEMMA Grows ==
    ASSUME NEW live, NEW G, NEW e \in Edges
    PROVE  Lasting(G) \subseteq Lasting(Tried(live, G, G, e))
BY LastingAdded DEF Tried

LEMMA TriedIsAbsorbed ==
    ASSUME NEW live, NEW G, NEW e \in Edges, ~evicts(e.rel)
    PROVE  Absorbs(live, Tried(live, G, G, e), e)
BY DEF Absorbs, Tried, Added

LEMMA SameLasting ==
    ASSUME NEW live, NEW G, NEW H, Lasting(G) = Lasting(H), NEW e \in Edges
    PROVE  Lasting(Tried(live, G, G, e)) = Lasting(Tried(live, H, H, e))
<1>1. CASE evicts(e.rel)
  BY <1>1, EvictingIsAdded, LastingAdded
<1>2. CASE ~evicts(e.rel)
  <2>1. Refused(e, G, G) <=> Refused(e, H, H)
    BY <1>2, RefusedMore
  <2>2. Lasting(Added(live, G, e)) = Lasting(Added(live, H, e))
    <3>1. Lasting(Added(live, G, e)) =
            IF ~evicts(e.rel) /\ {e.s, e.o} \subseteq live THEN Lasting(G) \cup {e} ELSE Lasting(G)
      BY LastingAdded
    <3>2. Lasting(Added(live, H, e)) =
            IF ~evicts(e.rel) /\ {e.s, e.o} \subseteq live THEN Lasting(H) \cup {e} ELSE Lasting(H)
      BY LastingAdded
    <3> QED
      BY <3>1, <3>2
  <2>3. CASE Refused(e, G, G)
    BY <2>1, <2>3 DEF Tried
  <2>4. CASE ~Refused(e, G, G)
    BY <2>1, <2>2, <2>4 DEF Tried
  <2> QED
    BY <2>3, <2>4
<1> QED
  BY <1>1, <1>2

LEMMA TriedTyped ==
    ASSUME NEW live, NEW G \in SUBSET Edges, NEW seen, NEW e \in Edges, Ended(live, G)
    PROVE  Tried(live, G, seen, e) \in SUBSET Edges /\ Ended(live, Tried(live, G, seen, e))
BY DEF Tried, Added, Ended

\* An edge of an evicting relation.
LEMMA EvictingEdge ==
    ASSUME NEW live, NEW G \in SUBSET Edges, NEW e \in Edges, Ended(live, G),
           NEW f \in Edges, evicts(f.rel)
    PROVE  IF SameSlot(f, e) THEN f \in Tried(live, G, G, e) <=> f = e /\ {e.s, e.o} \subseteq live
                             ELSE f \in Tried(live, G, G, e) <=> f \in G
<1>1. CASE SameSlot(f, e)
  <2>1. Tried(live, G, G, e) = Added(live, G, e)
    BY <1>1, EvictingIsAdded DEF SameSlot
  <2>2. f.o = e.o => f = e
    BY <1>1 DEF SameSlot, Edges
  <2> QED
    BY <1>1, <2>1, <2>2 DEF Added, SameSlot, Ended
<1>2. CASE ~SameSlot(f, e)
  BY <1>2 DEF SameSlot, Tried, Added
<1> QED
  BY <1>1, <1>2

-----------------------------------------------------------------------------
(* What a batch does                                                          *)

IsUpto(live, S, F, A) ==
    A = [i \in 0..Len(S) |-> IF i = 0 THEN F ELSE Tried(live, A[i - 1], A[i - 1], S[i])]

\* The edges after each prefix of the batch.
Upto(live, S, F) == CHOOSE A : IsUpto(live, S, F, A)

LEMMA AppliedIsUpto ==
    ASSUME NEW live, NEW S, NEW F
    PROVE  Applied(live, S, F) = Upto(live, S, F)[Len(S)]
BY DEF Applied, Upto, IsUpto

LEMMA UptoSteps ==
    ASSUME NEW live, NEW S \in Seq(Edges), NEW F \in SUBSET Edges, Ended(live, F)
    PROVE  LET A == Upto(live, S, F)
           IN  A[0] = F /\ \A i \in 1..Len(S) : A[i] = Tried(live, A[i - 1], A[i - 1], S[i])
<1> DEFINE n == Len(S)
           X == {G \in SUBSET Edges : Ended(live, G)}
           step == [i \in 1..n |-> [G \in X |-> Tried(live, G, G, S[i])]]
<1>1. n \in Nat /\ \A i \in 1..n : S[i] \in Edges
  BY LenProperties, ElementOfSeq
<1>2. step \in [1..n -> [X -> X]]
  BY <1>1, TriedTyped
<1>3. Defined(X, F, n, step)
  <2>1. F \in X
    OBVIOUS
  <2> HIDE DEF n, X, step
  <2> QED
    BY <1>1, <1>2, <2>1, Recursion
<1>4. PICK A \in [0..n -> X] : A[0] = F /\ \A i \in 1..n : A[i] = step[i][A[i - 1]]
  BY <1>3 DEF Defined
<1>5. \A i \in 1..n : A[i] = Tried(live, A[i - 1], A[i - 1], S[i])
  <2> TAKE i \in 1..n
  <2>1. i - 1 \in 0..n
    BY <1>1
  <2>2. A[i - 1] \in X
    BY <1>4, <2>1
  <2> QED
    BY <1>4, <2>2
<1>6. IsUpto(live, S, F, A)
  <2>1. A = [i \in 0..n |-> A[i]]
    BY <1>4
  <2>2. \A i \in 0..n : A[i] = IF i = 0 THEN F ELSE Tried(live, A[i - 1], A[i - 1], S[i])
    BY <1>1, <1>4, <1>5
  <2> QED
    BY <2>1, <2>2 DEF IsUpto
<1>7. IsUpto(live, S, F, Upto(live, S, F))
  BY <1>6 DEF Upto
<1> DEFINE B == Upto(live, S, F)
<1> HIDE DEF B
<1>8. B = [i \in 0..n |-> IF i = 0 THEN F ELSE Tried(live, B[i - 1], B[i - 1], S[i])]
  BY <1>7 DEF B, IsUpto
<1>9. B[0] = F
  BY <1>1, <1>8
<1>10. \A i \in 1..n : B[i] = Tried(live, B[i - 1], B[i - 1], S[i])
  BY <1>1, <1>8
<1> QED
  BY <1>9, <1>10 DEF B

\* A lasting spec that was tried is absorbed by all that comes after it.
LEMMA UptoAbsorbs ==
    ASSUME NEW live, NEW S \in Seq(Edges), NEW F \in SUBSET Edges, Ended(live, F),
           NEW j \in 1..Len(S), ~evicts(S[j].rel), NEW m \in j..Len(S)
    PROVE  Absorbs(live, Upto(live, S, F)[m], S[j])
<1> DEFINE n == Len(S)
           A == Upto(live, S, F)
           T == {d \in Nat : j + d <= n => Absorbs(live, A[j + d], S[j])}
<1>1. n \in Nat /\ \A i \in 1..n : S[i] \in Edges
  BY LenProperties, ElementOfSeq
<1>2. \A i \in 1..n : A[i] = Tried(live, A[i - 1], A[i - 1], S[i])
  BY UptoSteps
<1> HIDE DEF n, A
<1>3. j \in Nat /\ j \in 1..n /\ m \in j..n
  BY DEF n
<1>4. 0 \in T
  <2>1. Absorbs(live, A[j], S[j])
    BY <1>1, <1>2, <1>3, TriedIsAbsorbed
  <2> QED
    BY <1>3, <2>1
<1>5. ASSUME NEW d \in Nat, d \in T PROVE d + 1 \in T
  <2> SUFFICES ASSUME j + (d + 1) <= n PROVE Absorbs(live, A[j + (d + 1)], S[j])
    OBVIOUS
  <2>1. Absorbs(live, A[j + d], S[j])
    BY <1>1, <1>3, <1>5
  <2>2. j + (d + 1) \in 1..n /\ (j + (d + 1)) - 1 = j + d
    BY <1>1, <1>3
  <2> DEFINE e == S[j + (d + 1)]
  <2>3. A[j + (d + 1)] = Tried(live, A[j + d], A[j + d], e) /\ e \in Edges
    BY <1>1, <1>2, <2>2
  <2>4. Lasting(A[j + d]) \subseteq Lasting(A[j + (d + 1)])
    BY <2>3, Grows
  <2> QED
    BY <1>1, <1>3, <2>1, <2>4, AbsorbsMore
<1>6. m - j \in T
  <2>1. m - j \in Nat
    BY <1>1, <1>3
  <2> HIDE DEF T
  <2> QED
    BY <1>4, <1>5, <2>1, Induct
<1>7. j + (m - j) = m
  BY <1>1, <1>3
<1> QED
  BY <1>1, <1>3, <1>6, <1>7 DEF A

\* Where the batch S stands that was begun on F: the specs up to i were tried
\* in this run, those up to m in some run, and what they left is G.
Stands(live, S, F, G, i, m) ==
    /\ Lasting(G) = Lasting(Upto(live, S, F)[m])
    /\ \A f \in Edges, j \in 1..i :
          (evicts(f.rel) /\ SameSlot(f, S[j]) /\ \A k \in (j + 1)..i : ~SameSlot(f, S[k]))
              => (f \in G <=> f = S[j] /\ {f.s, f.o} \subseteq live)
    /\ \A f \in Edges :
          (evicts(f.rel) /\ \A k \in 1..Len(S) : ~SameSlot(f, S[k])) => (f \in G <=> f \in F)

LEMMA StandsAtFirst ==
    ASSUME NEW live, NEW S \in Seq(Edges), NEW F \in SUBSET Edges, Ended(live, F)
    PROVE  Stands(live, S, F, F, 0, 0)
BY UptoSteps DEF Stands

\* A run is begun again.
LEMMA StandsAgain ==
    ASSUME NEW live, NEW S, NEW F, NEW G, NEW i, NEW m, Stands(live, S, F, G, i, m)
    PROVE  Stands(live, S, F, G, 0, m)
BY DEF Stands

\* The next spec is tried.
LEMMA StandsNext ==
    ASSUME NEW live, NEW S \in Seq(Edges), NEW F \in SUBSET Edges, Ended(live, F),
           NEW G \in SUBSET Edges, Ended(live, G),
           NEW i \in Nat, i < Len(S), NEW m \in i..Len(S), Stands(live, S, F, G, i, m)
    PROVE  \E l \in (i + 1)..Len(S) : Stands(live, S, F, Tried(live, G, G, S[i + 1]), i + 1, l)
<1> DEFINE n == Len(S)
           A == Upto(live, S, F)
           e == S[i + 1]
           H == Tried(live, G, G, e)
           l == IF m = i THEN i + 1 ELSE m
<1>1. n \in Nat /\ i + 1 \in 1..n /\ e \in Edges /\ m \in Nat /\ m <= n
  BY LenProperties, ElementOfSeq
<1>2. l \in (i + 1)..n
  BY <1>1
<1>3. Lasting(G) = Lasting(A[m])
  BY DEF Stands
<1>4. Lasting(H) = Lasting(A[l])
  <2>1. Lasting(H) = Lasting(Tried(live, A[m], A[m], e))
    BY <1>1, <1>3, SameLasting
  <2>2. CASE m = i
    <3>1. A[i + 1] = Tried(live, A[i], A[i], e)
      <4>1. \A k \in 1..n : A[k] = Tried(live, A[k - 1], A[k - 1], S[k])
        BY UptoSteps
      <4>2. (i + 1) - 1 = i
        OBVIOUS
      <4> QED
        BY <1>1, <4>1, <4>2
    <3> QED
      BY <2>1, <2>2, <3>1
  <2>3. CASE m # i /\ evicts(e.rel)
    <3>1. Lasting(Tried(live, A[m], A[m], e)) = Lasting(A[m])
      BY <1>1, <2>3, EvictingIsAdded, LastingAdded
    <3> QED
      BY <2>1, <2>3, <3>1
  <2>4. CASE m # i /\ ~evicts(e.rel)
    <3>1. m \in (i + 1)..n
      BY <1>1, <2>4
    <3>2. Absorbs(live, A[m], e)
      BY <1>1, <2>4, <3>1, UptoAbsorbs
    <3>3. Tried(live, A[m], A[m], e) = A[m]
      BY <1>1, <2>4, <3>2, AbsorbedStays
    <3> QED
      BY <2>1, <2>4, <3>3
  <2> QED
    BY <2>2, <2>3, <2>4
<1>5. ASSUME NEW f \in Edges, evicts(f.rel)
      PROVE  IF SameSlot(f, e) THEN f \in H <=> f = e /\ {e.s, e.o} \subseteq live
                               ELSE f \in H <=> f \in G
  BY <1>1, <1>5, EvictingEdge
<1> HIDE DEF n, A, e, H, l
<1>6. ASSUME NEW f \in Edges, NEW j \in 1..(i + 1), evicts(f.rel), SameSlot(f, S[j]),
             \A k \in (j + 1)..(i + 1) : ~SameSlot(f, S[k])
      PROVE  f \in H <=> f = S[j] /\ {f.s, f.o} \subseteq live
  <2>1. CASE j = i + 1
    BY <1>5, <1>6, <2>1 DEF e
  <2>2. CASE j # i + 1
    <3>1. j \in 1..i /\ i + 1 \in (j + 1)..(i + 1)
      BY <1>6, <2>2
    <3>2. ~SameSlot(f, e)
      BY <1>6, <3>1 DEF e
    <3>3. \A k \in (j + 1)..i : ~SameSlot(f, S[k])
      BY <1>6
    <3> QED
      BY <1>5, <1>6, <3>1, <3>2, <3>3 DEF Stands
  <2> QED
    BY <2>1, <2>2
<1>7. ASSUME NEW f \in Edges, evicts(f.rel), \A k \in 1..n : ~SameSlot(f, S[k])
      PROVE  f \in H <=> f \in F
  <2>1. ~SameSlot(f, e)
    BY <1>1, <1>7 DEF e
  <2> QED
    BY <1>5, <1>7, <2>1 DEF Stands, n
<1>8. Stands(live, S, F, H, i + 1, l)
  BY <1>4, <1>6, <1>7 DEF Stands, A, n
<1> QED
  BY <1>2, <1>8 DEF n, H, e

LEMMA LastOne ==
    ASSUME NEW n \in Nat, NEW T \in SUBSET (1..n), T # {}
    PROVE  \E j \in T : \A k \in T : k <= j
<1> DEFINE U == {m \in Nat : \A k \in T : k <= n - m}
           M == {m \in Nat : m <= n => m \in U}
<1> SUFFICES ASSUME \A j \in T : \E k \in T : ~(k <= j) PROVE FALSE
  OBVIOUS
<1>1. 0 \in M
  OBVIOUS
<1>2. ASSUME NEW m \in Nat, m \in M PROVE m + 1 \in M
  <2> SUFFICES ASSUME m + 1 <= n, NEW k \in T PROVE k <= n - (m + 1)
    OBVIOUS
  <2>1. \A h \in T : h <= n - m
    BY <1>2
  <2>2. PICK h \in T : ~(h <= k)
    OBVIOUS
  <2> QED
    BY <2>1, <2>2
<1>3. n \in M
  <2> HIDE DEF M
  <2> QED
    BY <1>1, <1>2, Induct
<1>4. \A k \in T : k <= n - n
  BY <1>3
<1>5. PICK k \in T : k \in 1..n
  OBVIOUS
<1> QED
  BY <1>4, <1>5

LEMMA StandsOnce ==
    ASSUME NEW live, NEW S \in Seq(Edges), NEW F, NEW G \in SUBSET Edges, NEW H \in SUBSET Edges,
           Stands(live, S, F, G, Len(S), Len(S)), Stands(live, S, F, H, Len(S), Len(S))
    PROVE  G = H
<1> DEFINE n == Len(S)
<1>1. n \in Nat /\ \A i \in 1..n : S[i] \in Edges
  BY LenProperties, ElementOfSeq
<1>2. ASSUME NEW f \in Edges PROVE f \in G <=> f \in H
  <2>1. CASE ~evicts(f.rel)
    <3>1. Lasting(G) = Lasting(H)
      BY DEF Stands
    <3> QED
      BY <2>1, <3>1 DEF Lasting
  <2>2. CASE evicts(f.rel)
    <3> DEFINE T == {k \in 1..n : SameSlot(f, S[k])}
    <3>1. CASE T = {}
      BY <2>2, <3>1 DEF Stands
    <3>2. CASE T # {}
      <4>1. PICK j \in T : \A k \in T : k <= j
        <5> HIDE DEF n
        <5>1. T \in SUBSET (1..n)
          OBVIOUS
        <5> HIDE DEF T
        <5> QED
          BY <1>1, <3>2, <5>1, LastOne
      <4>2. j \in 1..n /\ SameSlot(f, S[j]) /\ \A k \in (j + 1)..n : ~SameSlot(f, S[k])
        BY <1>1, <4>1
      <4> QED
        BY <2>2, <4>2 DEF Stands
    <3> QED
      BY <3>1, <3>2
  <2> QED
    BY <2>1, <2>2
<1> QED
  BY <1>2

\* The edges that a batch leaves which stands at its end are those that one run leaves.
LEMMA StandsAtLast ==
    ASSUME NEW live, NEW S \in Seq(Edges), NEW F \in SUBSET Edges, Ended(live, F),
           NEW G \in SUBSET Edges, Stands(live, S, F, G, Len(S), Len(S))
    PROVE  G = Applied(live, S, F)
<1> DEFINE n == Len(S)
           A == Upto(live, S, F)
           T == {i \in Nat : i <= n => /\ A[i] \in SUBSET Edges /\ Ended(live, A[i])
                                       /\ Stands(live, S, F, A[i], i, i)}
<1>1. n \in Nat /\ \A i \in 1..n : S[i] \in Edges
  BY LenProperties, ElementOfSeq
<1>2. A[0] = F /\ \A i \in 1..n : A[i] = Tried(live, A[i - 1], A[i - 1], S[i])
  BY UptoSteps
<1>3. 0 \in T
  BY <1>2, StandsAtFirst
<1>4. ASSUME NEW i \in Nat, i \in T PROVE i + 1 \in T
  <2> SUFFICES ASSUME i + 1 <= n
               PROVE  /\ A[i + 1] \in SUBSET Edges /\ Ended(live, A[i + 1])
                      /\ Stands(live, S, F, A[i + 1], i + 1, i + 1)
    OBVIOUS
  <2>1. A[i] \in SUBSET Edges /\ Ended(live, A[i]) /\ Stands(live, S, F, A[i], i, i)
    BY <1>1, <1>4
  <2>2. i + 1 \in 1..n /\ (i + 1) - 1 = i
    BY <1>1
  <2>3. A[i + 1] = Tried(live, A[i], A[i], S[i + 1]) /\ S[i + 1] \in Edges
    BY <1>1, <1>2, <2>2
  <2>4. A[i + 1] \in SUBSET Edges /\ Ended(live, A[i + 1])
    BY <2>1, <2>3, TriedTyped
  <2>5. \E l \in (i + 1)..n : Stands(live, S, F, A[i + 1], i + 1, l)
    <3>1. i < n /\ i \in i..n
      BY <1>1
    <3> HIDE DEF A
    <3> QED
      BY <2>1, <2>3, <3>1, StandsNext
  <2>6. Stands(live, S, F, A[i + 1], i + 1, i + 1)
    <3>1. Lasting(A[i + 1]) = Lasting(Upto(live, S, F)[i + 1])
      OBVIOUS
    <3> HIDE DEF A
    <3> QED
      BY <2>5, <3>1 DEF Stands
  <2> QED
    BY <2>4, <2>6
<1>5. n \in T
  <2> HIDE DEF T
  <2> QED
    BY <1>1, <1>3, <1>4, Induct
<1>6. G = A[n]
  <2> HIDE DEF A
  <2> QED
    BY <1>1, <1>5, StandsOnce
<1> QED
  BY <1>6, AppliedIsUpto

-----------------------------------------------------------------------------
(* What a batch asks for is made of entities and edges                        *)

\* How a concatenation of sequences grows.
LEMMA FlattenSteps ==
    ASSUME NEW X, NEW s \in Seq(Seq(X)), Len(s) # 0
    PROVE  \E g : /\ g[1] = s[1]
                  /\ \A i \in 2..Len(s) : g[i] = g[i - 1] \o s[i]
                  /\ FlattenSeq(s) = g[Len(s)]
<1> DEFINE n == Len(s)
           Eq(f) == f = [i \in 1..n |-> IF i = 1 THEN s[i] ELSE f[i - 1] \o s[i]]
<1>1. n \in Nat /\ DOMAIN s = 1..n /\ \A i \in 1..n : s[i] \in Seq(X)
  BY LenProperties, ElementOfSeq
<1> HIDE DEF n
<1>2. \E f : Eq(f)
  <2> DEFINE step == [i \in 1..n |-> [x \in Seq(X) |-> x \o s[i]]]
  <2>1. step \in [1..n -> [Seq(X) -> Seq(X)]]
    BY <1>1, ConcatProperties
  <2>2. <<>> \in Seq(X)
    BY EmptySeq
  <2>3. PICK f \in [0..n -> Seq(X)] : f[0] = <<>> /\ \A i \in 1..n : f[i] = step[i][f[i - 1]]
    <3> DEFINE Y == Seq(X)
    <3>1. n \in Nat /\ <<>> \in Y /\ step \in [1..n -> [Y -> Y]]
      BY <1>1, <2>1, <2>2
    <3> DEFINE a == <<>>
    <3>2. a \in Y
      BY <3>1
    <3> HIDE DEF step, Y, a
    <3>3. Defined(Y, a, n, step)
      BY <3>1, <3>2, Recursion
    <3> QED
      BY <3>3 DEF Y, a, Defined
  <2> DEFINE g == [i \in 1..n |-> f[i]]
  <2>4. ASSUME NEW i \in 1..n
        PROVE  f[i] = IF i = 1 THEN s[i] ELSE g[i - 1] \o s[i]
    <3>1. i - 1 \in 0..n
      BY <1>1
    <3>2. f[i - 1] \in Seq(X) /\ f[i] = f[i - 1] \o s[i]
      BY <2>3, <3>1
    <3>3. CASE i = 1
      <4>1. f[i - 1] = <<>>
        BY <2>3, <3>3
      <4>2. f[i] = s[i]
        BY <1>1, <3>2, <4>1, ConcatEmptySeq
      <4> QED
        BY <3>3, <4>2
    <3>4. CASE i # 1
      <4>1. i - 1 \in 1..n
        BY <1>1, <3>4
      <4> QED
        BY <3>2, <3>4, <4>1
    <3> QED
      BY <3>3, <3>4
  <2>5. Eq(g)
    BY <2>4
  <2> QED
    <3> HIDE DEF Eq, g
    <3> QED
      BY <2>5
<1> DEFINE g == CHOOSE h : Eq(h)
<1>3. Eq(g)
  <2> HIDE DEF Eq
  <2> QED
    BY <1>2
<1>4. FlattenSeq(s) = g[n]
  BY DEF FlattenSeq, n
<1> HIDE DEF g
<1>5. g[1] = s[1] /\ \A i \in 2..n : g[i] = g[i - 1] \o s[i]
  <2>1. n # 0
    BY DEF n
  <2>2. 1 \in 1..n /\ \A i \in 2..n : i \in 1..n /\ i # 1
    BY <1>1, <2>1
  <2> QED
    BY <1>3, <2>2
<1> QED
  BY <1>4, <1>5 DEF n

\* What a concatenation contains.
LEMMA FlattenTyped ==
    ASSUME NEW X, NEW s \in Seq(Seq(X))
    PROVE  /\ FlattenSeq(s) \in Seq(X)
           /\ \A i \in 1..Len(s) : ToSet(s[i]) \subseteq ToSet(FlattenSeq(s))
<1> DEFINE n == Len(s)
<1>1. n \in Nat /\ DOMAIN s = 1..n /\ \A i \in 1..n : s[i] \in Seq(X)
  BY LenProperties, ElementOfSeq
<1>2. CASE n = 0
  <2>1. s = <<>>
    BY <1>2, EmptySeq
  <2> QED
    BY <1>2, <2>1 DEF FlattenSeq
<1>3. CASE n # 0
  <2>1. PICK g : /\ g[1] = s[1]
                 /\ \A i \in 2..n : g[i] = g[i - 1] \o s[i]
                 /\ FlattenSeq(s) = g[n]
    BY <1>3, FlattenSteps
  <2> HIDE DEF n
  <2> DEFINE Holds(m) == g[m] \in Seq(X) /\ \A i \in 1..m : ToSet(s[i]) \subseteq ToSet(g[m])
             U == {m \in Nat : m + 1 <= n => Holds(m + 1)}
  <2>2. 0 \in U
    BY <1>1, <1>3, <2>1
  <2>3. ASSUME NEW m \in Nat, m \in U PROVE m + 1 \in U
    <3> SUFFICES ASSUME m + 2 <= n PROVE Holds(m + 2)
      BY <1>1
    <3>1. Holds(m + 1)
      BY <1>1, <2>3
    <3>2. m + 2 \in 2..n /\ m + 2 \in 1..n /\ (m + 2) - 1 = m + 1
      BY <1>1
    <3>3. g[m + 2] = g[m + 1] \o s[m + 2]
      BY <2>1, <3>2
    <3>4. s[m + 2] \in Seq(X)
      BY <1>1, <3>2
    <3>5. g[m + 2] \in Seq(X) /\ ToSet(g[m + 1]) \subseteq ToSet(g[m + 2])
          /\ ToSet(s[m + 2]) \subseteq ToSet(g[m + 2])
      <4> DEFINE a == g[m + 1]
                 b == s[m + 2]
      <4>1. a \in Seq(X) /\ b \in Seq(X)
        BY <3>1, <3>4
      <4> HIDE DEF a, b
      <4>2. /\ a \o b \in Seq(X) /\ Len(a \o b) = Len(a) + Len(b) /\ Len(a) \in Nat /\ Len(b) \in Nat
            /\ DOMAIN a = 1..Len(a) /\ DOMAIN b = 1..Len(b) /\ DOMAIN (a \o b) = 1..Len(a \o b)
            /\ \A i \in 1..(Len(a) + Len(b)) : (a \o b)[i] = IF i <= Len(a) THEN a[i] ELSE b[i - Len(a)]
        BY <4>1, ConcatProperties, LenProperties
      <4>3. ASSUME NEW i \in 1..Len(a) PROVE a[i] \in ToSet(a \o b)
        <5>1. i \in 1..(Len(a) + Len(b)) /\ i <= Len(a)
          BY <4>2
        <5> QED
          BY <4>2, <5>1 DEF ToSet
      <4>4. ASSUME NEW i \in 1..Len(b) PROVE b[i] \in ToSet(a \o b)
        <5>1. Len(a) + i \in 1..(Len(a) + Len(b)) /\ ~(Len(a) + i <= Len(a)) /\ (Len(a) + i) - Len(a) = i
          BY <4>2
        <5>2. (a \o b)[Len(a) + i] = b[i]
          BY <4>2, <5>1
        <5> QED
          BY <4>2, <5>1, <5>2 DEF ToSet
      <4>5. ToSet(a) \subseteq ToSet(a \o b) /\ ToSet(b) \subseteq ToSet(a \o b)
        BY <4>2, <4>3, <4>4 DEF ToSet
      <4> QED
        BY <3>3, <4>2, <4>5 DEF a, b
    <3>6. ASSUME NEW i \in 1..(m + 2) PROVE ToSet(s[i]) \subseteq ToSet(g[m + 2])
      <4>1. CASE i = m + 2
        BY <3>5, <4>1
      <4>2. CASE i # m + 2
        <5>1. i \in 1..(m + 1)
          BY <4>2
        <5> QED
          BY <3>1, <3>5, <5>1
      <4> QED
        BY <4>1, <4>2
    <3> QED
      BY <3>5, <3>6
  <2>4. n - 1 \in U
    <3>1. n - 1 \in Nat
      BY <1>1, <1>3
    <3> HIDE DEF U
    <3> QED
      BY <2>2, <2>3, <3>1, Induct
  <2>5. Holds(n)
    <3>1. (n - 1) + 1 = n
      BY <1>1
    <3> HIDE DEF Holds
    <3> QED
      BY <1>1, <2>4, <3>1
  <2> QED
    BY <2>1, <2>5 DEF n
<1> QED
  BY <1>2, <1>3

\* The runs' batches, which come from Batches or are parts of a real run.
Given == {b \in Batches : b.kind # "real"}
         \cup UNION {ToSet(Parts(b)) : b \in {x \in Batches : x.kind = "real"}}

Projects == {k \in Keys : \E b \in Histories : \E i \in DOMAIN Rows(b) : Rows(b)[i].project = k}

\* What changes without a mark is a project.
Marked(e) == e.marks \/ e.key \in Projects

LEMMA TwoTyped ==
    ASSUME NEW X, NEW a \in X, NEW b \in X
    PROVE  <<a, b>> \in Seq(X)
OBVIOUS

LEMMA OneTyped ==
    ASSUME NEW X, NEW a \in X
    PROVE  <<a>> \in Seq(X)
OBVIOUS

LEMMA MappedTyped ==
    ASSUME NEW X, NEW n \in Nat, NEW f, f = [i \in 1..n |-> f[i]], \A i \in 1..n : f[i] \in X
    PROVE  f \in Seq(X)
<1>1. f \in [1..n -> X]
  OBVIOUS
<1> QED
  BY <1>1, SeqDef

LEMMA PartsAre ==
    ASSUME NEW b
    PROVE  /\ DOMAIN Parts(b) = 1..3
           /\ \A i \in 1..3 : Parts(b)[i].kind = "history"
           /\ \A X : (\A i \in 1..3 : Parts(b)[i] \in X) => Parts(b) \in Seq(X)
BY DEF Parts

\* What the assumption says of a batch that a run may have.
LEMMA GivenKinds ==
    ASSUME BatchesAssumption, NEW b \in Given
    PROVE  \/ b.kind = "structured" /\ StructuredData(b)
           \/ b.kind = "history" /\ HistoryData(b) /\ b \in Histories
           \/ b.kind = "fact" /\ b.fact \in Edges
<1>1. CASE b \in Batches /\ b.kind # "real"
  BY <1>1 DEF BatchesAssumption, Histories
<1>2. CASE \E r \in Batches : r.kind = "real" /\ b \in ToSet(Parts(r))
  <2>1. PICK r \in Batches : r.kind = "real" /\ b \in ToSet(Parts(r))
    BY <1>2
  <2>2. PICK i \in DOMAIN Parts(r) : b = Parts(r)[i]
    BY <2>1 DEF ToSet
  <2>3. HistoryData(b)
    BY <2>1, <2>2 DEF BatchesAssumption
  <2>4. b.kind = "history"
    BY <2>2, PartsAre
  <2> QED
    BY <2>1, <2>3, <2>4 DEF Histories
<1> QED
  BY <1>1, <1>2 DEF Given

LEMMA RowsTyped ==
    ASSUME NEW d, HistoryData(d)
    PROVE  Rows(d) \in Seq(ToSet(Rows(d))) /\ \A r \in ToSet(Rows(d)) : {r.key, r.project} \subseteq Keys
<1> DEFINE good == filtered(d.lines)
           n == Len(good)
           recs == [i \in DOMAIN good |-> [good[i] EXCEPT !.key = LedgerKeys[d.prefix][i]]]
           X == {r \in ToSet(d.rows) \cup {recs[i] : i \in 1..n} : {r.key, r.project} \subseteq Keys}
<1>1. n \in Nat /\ DOMAIN good = 1..n /\ \A i \in 1..n : good[i] \in ToSet(d.lines)
  BY LenProperties, ElementOfSeq DEF HistoryData
<1>2. \A i \in 1..n : recs[i] \in X
  BY <1>1 DEF HistoryData
<1>3. recs \in Seq(X)
  <2>1. recs = [i \in 1..n |-> recs[i]]
    BY <1>1
  <2> HIDE DEF recs, X, n
  <2> QED
    BY <1>1, <1>2, <2>1, MappedTyped
<1>4. d.rows \in Seq(X)
  <2>1. ToSet(d.rows) \subseteq X
    BY DEF HistoryData
  <2> HIDE DEF X
  <2> QED
    BY <2>1, SeqMonotonic DEF HistoryData
<1>5. Rows(d) \in Seq(X)
  <2>1. Rows(d) = d.rows \o recs
    BY DEF Rows
  <2> HIDE DEF X, recs
  <2> QED
    BY <1>3, <1>4, <2>1, ConcatProperties
<1>6. ToSet(Rows(d)) \subseteq X
  <2> HIDE DEF X
  <2> QED
    BY <1>5, LenProperties, ElementOfSeq DEF ToSet
<1>7. Rows(d) \in Seq(ToSet(Rows(d)))
  <2> HIDE DEF X
  <2>1. Len(Rows(d)) \in Nat /\ Rows(d) = [i \in 1..Len(Rows(d)) |-> Rows(d)[i]] /\ DOMAIN Rows(d) = 1..Len(Rows(d))
    BY <1>5, LenProperties
  <2> QED
    BY <2>1, MappedTyped DEF ToSet
<1> QED
  BY <1>6, <1>7

LEMMA KindsOf ==
    ASSUME NEW b
    PROVE  /\ b.kind = "structured" => /\ EntitiesOf(b) = StructuredEntities(b)
                                       /\ SpecsOf(b) = edge_specs(b)
           /\ b.kind = "history" => EntitiesOf(b) = HistoryEntities(b) /\ SpecsOf(b) = HistorySpecs(b)
           /\ b.kind = "fact" => EntitiesOf(b) = <<>> /\ SpecsOf(b) = <<b.fact>>
BY Zenon DEF EntitiesOf, SpecsOf

LEMMA HistoryEntitiesTyped ==
    ASSUME NEW d \in Histories, HistoryData(d)
    PROVE  \E X : HistoryEntities(d) \in Seq(X) /\ \A e \in X : Marked(e) /\ e.ns # None
<1> DEFINE R == Rows(d)
           Of(r) == <<Entity(r.key, "ours", r.text, TRUE), Entity(r.project, "ours", r.spelling, FALSE)>>
           X == {Entity(r.key, "ours", r.text, TRUE) : r \in ToSet(R)}
                \cup {Entity(r.project, "ours", r.spelling, FALSE) : r \in ToSet(R)}
           M == [i \in DOMAIN R |-> Of(R[i])]
<1>1. Len(R) \in Nat /\ DOMAIN R = 1..Len(R) /\ \A i \in 1..Len(R) : R[i] \in ToSet(R)
  BY RowsTyped, LenProperties, ElementOfSeq
<1>2. \A r \in ToSet(R) : r.project \in Projects
  BY RowsTyped DEF Projects, ToSet
<1>3. \A e \in X : Marked(e) /\ e.ns # None
  BY <1>2 DEF Marked, Entity, None
<1>4. ASSUME NEW r \in ToSet(R) PROVE Of(r) \in Seq(X)
  <2> DEFINE a == Entity(r.key, "ours", r.text, TRUE)
             b == Entity(r.project, "ours", r.spelling, FALSE)
  <2>1. a \in X /\ b \in X
    OBVIOUS
  <2> HIDE DEF X, a, b
  <2>2. <<a, b>> \in Seq(X)
    BY <2>1, TwoTyped
  <2> QED
    BY <2>2 DEF a, b
<1>5. M \in Seq(Seq(X))
  <2>1. M = [i \in 1..Len(R) |-> M[i]]
    BY <1>1
  <2>2. \A i \in 1..Len(R) : M[i] \in Seq(X)
    BY <1>1, <1>4
  <2> HIDE DEF M, X, R
  <2> QED
    BY <1>1, <2>1, <2>2, MappedTyped
<1>6. HistoryEntities(d) = FlattenSeq(M)
  BY DEF HistoryEntities, FlatMap, Map
<1>7. HistoryEntities(d) \in Seq(X)
  <2> HIDE DEF M, X
  <2> QED
    BY <1>5, <1>6, FlattenTyped
<1> QED
  <2> HIDE DEF X
  <2> QED
    BY <1>3, <1>7

LEMMA MapTyped ==
    ASSUME NEW X, NEW Y, NEW s \in Seq(Y), NEW f, \A y \in Y : f[y] \in X
    PROVE  [i \in DOMAIN s |-> f[s[i]]] \in Seq(X)
<1> DEFINE g == [i \in DOMAIN s |-> f[s[i]]]
<1>1. Len(s) \in Nat /\ DOMAIN s = 1..Len(s) /\ \A i \in 1..Len(s) : s[i] \in Y
  BY LenProperties, ElementOfSeq
<1>2. g = [i \in 1..Len(s) |-> g[i]] /\ \A i \in 1..Len(s) : g[i] \in X
  BY <1>1
<1> HIDE DEF g
<1> QED
  BY <1>1, <1>2, MappedTyped DEF g

LEMMA StructuredEntitiesTyped ==
    ASSUME NEW d, StructuredData(d)
    PROVE  \E X : StructuredEntities(d) \in Seq(X) /\ \A e \in X : Marked(e) /\ e.ns # None
<1> DEFINE I == ToSet(d.issues)
           R == [id : Keys, project : Keys]
           X == {Entity(k, "ours", "plain", TRUE) : k \in Keys} \cup {Entity(k, "shared", "plain", TRUE) : k \in Keys}
                \cup {Entity(i.id, "ours", i.title, TRUE) : i \in I}
           agents == [j \in DOMAIN (d.agents \o d.projects) |-> Entity((d.agents \o d.projects)[j], "ours", "plain", TRUE)]
           repos == [j \in DOMAIN d.repos |-> Entity(d.repos[j].id, "ours", "plain", TRUE)]
           statuses == [j \in DOMAIN d.issues |-> Entity(d.issues[j].status, "shared", "plain", TRUE)]
           issues == [j \in DOMAIN d.issues |-> Entity(d.issues[j].id, "ours", d.issues[j].title, TRUE)]
<1>1. agents \in Seq(X)
  <2>1. d.agents \o d.projects \in Seq(Keys)
    BY ConcatProperties DEF StructuredData
  <2> DEFINE f == [k \in Keys |-> Entity(k, "ours", "plain", TRUE)]
             s == d.agents \o d.projects
  <2>2. \A k \in Keys : f[k] \in X
    OBVIOUS
  <2>3. agents = [j \in DOMAIN s |-> f[s[j]]]
    <3> HIDE DEF s
    <3>1. s \in Seq(Keys)
      BY <2>1 DEF s
    <3>2. \A j \in DOMAIN s : s[j] \in Keys
      BY <3>1, LenProperties, ElementOfSeq
    <3> QED
      BY <3>2 DEF s
  <2> HIDE DEF f, s, X, agents
  <2> QED
    BY <2>1, <2>2, <2>3, MapTyped DEF s
<1>2. repos \in Seq(X)
  <2> DEFINE f == [r \in R |-> Entity(r.id, "ours", "plain", TRUE)]
             s == d.repos
  <2>1. s \in Seq(R) /\ \A j \in DOMAIN s : s[j] \in R
    BY LenProperties, ElementOfSeq DEF StructuredData
  <2>2. \A r \in R : f[r] \in X
    OBVIOUS
  <2>3. repos = [j \in DOMAIN s |-> f[s[j]]]
    BY <2>1
  <2> HIDE DEF f, s, X, repos, R
  <2> QED
    BY <2>1, <2>2, <2>3, MapTyped
<1>3. statuses \in Seq(X) /\ issues \in Seq(X)
  <2> DEFINE f == [i \in I |-> Entity(i.status, "shared", "plain", TRUE)]
             g == [i \in I |-> Entity(i.id, "ours", i.title, TRUE)]
             s == d.issues
  <2>1. s \in Seq(I) /\ \A j \in DOMAIN s : s[j] \in I
    BY LenProperties, ElementOfSeq DEF StructuredData
  <2>2. \A i \in I : f[i] \in X /\ g[i] \in X
    BY DEF StructuredData
  <2>3. statuses = [j \in DOMAIN s |-> f[s[j]]] /\ issues = [j \in DOMAIN s |-> g[s[j]]]
    BY <2>1
  <2> HIDE DEF f, g, s, X, statuses, issues, I
  <2> QED
    BY <2>1, <2>2, <2>3, MapTyped
<1>4. StructuredEntities(d) = ((agents \o repos) \o statuses) \o issues
  BY DEF StructuredEntities, Map
<1>5. \A e \in X : Marked(e) /\ e.ns # None
  BY DEF Marked, Entity, None
<1> HIDE DEF X, agents, repos, statuses, issues
<1>6. StructuredEntities(d) \in Seq(X)
  <2>1. agents \o repos \in Seq(X)
    BY <1>1, <1>2, ConcatProperties
  <2>2. (agents \o repos) \o statuses \in Seq(X)
    BY <1>3, <2>1, ConcatProperties
  <2> QED
    BY <1>3, <1>4, <2>2, ConcatProperties
<1> QED
  BY <1>5, <1>6

LEMMA EntitiesGiven ==
    ASSUME BatchesAssumption, NEW b \in Given
    PROVE  \E X : EntitiesOf(b) \in Seq(X) /\ \A e \in X : Marked(e) /\ e.ns # None
<1>1. CASE b.kind = "structured" /\ StructuredData(b)
  BY <1>1, KindsOf, StructuredEntitiesTyped
<1>2. CASE b.kind = "history" /\ HistoryData(b) /\ b \in Histories
  BY <1>2, KindsOf, HistoryEntitiesTyped
<1>3. CASE b.kind = "fact"
  <2>1. EntitiesOf(b) \in Seq({})
    BY <1>3, KindsOf, EmptySeq
  <2> QED
    BY <2>1
<1> QED
  BY <1>1, <1>2, <1>3, GivenKinds

LEMMA SpecsGiven ==
    ASSUME BatchesAssumption, NEW b \in Given
    PROVE  SpecsOf(b) \in Seq(Edges)
<1>0. {"PART_OF", "ASSIGNED_TO", "HAS_STATUS", "BLOCKS"} \subseteq RelNames
  BY DEF RelNames, RULES
<1>1. CASE b.kind = "structured" /\ StructuredData(b)
  <2> DEFINE I == ToSet(b.issues)
             R == [id : Keys, project : Keys]
             Blocks(i) == [j \in DOMAIN i.blocks |-> Spec(i.id, "BLOCKS", i.blocks[j])]
             OfIssue(i) == <<Spec(i.id, "PART_OF", i.project), Spec(i.id, "ASSIGNED_TO", i.assignee),
                             Spec(i.id, "HAS_STATUS", i.status)>> \o Blocks(i)
             repos == [j \in DOMAIN b.repos |-> Spec(b.repos[j].id, "PART_OF", b.repos[j].project)]
             issues == [j \in DOMAIN b.issues |-> OfIssue(b.issues[j])]
  <2>1. repos \in Seq(Edges)
    <3> DEFINE f == [r \in R |-> Spec(r.id, "PART_OF", r.project)]
               s == b.repos
    <3>1. s \in Seq(R) /\ \A j \in DOMAIN s : s[j] \in R
      BY <1>1, LenProperties, ElementOfSeq DEF StructuredData
    <3>2. \A r \in R : f[r] \in Edges
      BY <1>0 DEF Edges, Spec
    <3>3. repos = [j \in DOMAIN s |-> f[s[j]]]
      BY <3>1
    <3> HIDE DEF f, s, repos, R
    <3> QED
      BY <3>1, <3>2, <3>3, MapTyped
  <2>2. ASSUME NEW i \in I PROVE OfIssue(i) \in Seq(Edges)
    <3>1. Spec(i.id, "PART_OF", i.project) \in Edges /\ Spec(i.id, "ASSIGNED_TO", i.assignee) \in Edges
          /\ Spec(i.id, "HAS_STATUS", i.status) \in Edges
      BY <1>0, <1>1 DEF StructuredData, Edges, Spec
    <3>2. Blocks(i) \in Seq(Edges)
      <4> DEFINE f == [k \in Keys |-> Spec(i.id, "BLOCKS", k)]
                 s == i.blocks
      <4>1. s \in Seq(Keys) /\ \A j \in DOMAIN s : s[j] \in Keys
        BY <1>1, LenProperties, ElementOfSeq DEF StructuredData
      <4>2. \A k \in Keys : f[k] \in Edges
        BY <1>0, <1>1 DEF Edges, Spec, StructuredData
      <4>3. Blocks(i) = [j \in DOMAIN s |-> f[s[j]]]
        BY <4>1
      <4> HIDE DEF f, s, Blocks
      <4> QED
        BY <4>1, <4>2, <4>3, MapTyped
    <3> DEFINE three == <<Spec(i.id, "PART_OF", i.project), Spec(i.id, "ASSIGNED_TO", i.assignee),
                          Spec(i.id, "HAS_STATUS", i.status)>>
    <3>3. three \in Seq(Edges)
      <4> HIDE DEF Blocks, OfIssue, repos, issues
      <4> QED
        BY <3>1
    <3>4. OfIssue(i) = three \o Blocks(i)
      OBVIOUS
    <3> HIDE DEF three, Blocks, OfIssue
    <3> QED
      BY <3>2, <3>3, <3>4, ConcatProperties
  <2>3. issues \in Seq(Seq(Edges))
    <3> DEFINE f == [i \in I |-> OfIssue(i)]
               s == b.issues
    <3>1. s \in Seq(I) /\ \A j \in DOMAIN s : s[j] \in I
      BY <1>1, LenProperties, ElementOfSeq DEF StructuredData
    <3>2. \A i \in I : f[i] \in Seq(Edges)
      BY <2>2
    <3>3. issues = [j \in DOMAIN s |-> f[s[j]]]
      BY <3>1
    <3> HIDE DEF f, s, issues, OfIssue, I
    <3> QED
      BY <3>1, <3>2, <3>3, MapTyped
  <2>4. SpecsOf(b) = repos \o FlattenSeq(issues)
    BY <1>1, KindsOf DEF edge_specs, Map, FlatMap
  <2> HIDE DEF repos, issues
  <2> QED
    BY <2>1, <2>3, <2>4, FlattenTyped, ConcatProperties
<1>2. CASE b.kind = "history" /\ HistoryData(b)
  <2> DEFINE s == Rows(b)
             X == ToSet(s)
             f == [r \in X |-> Spec(r.key, "PART_OF", r.project)]
  <2>1. s \in Seq(X) /\ \A j \in DOMAIN s : s[j] \in X
    BY <1>2, RowsTyped DEF ToSet
  <2>2. \A r \in X : f[r] \in Edges
    BY <1>0, <1>2, RowsTyped DEF Edges, Spec
  <2>3. SpecsOf(b) = [j \in DOMAIN s |-> f[s[j]]]
    BY <1>2, <2>1, KindsOf DEF HistorySpecs, Map
  <2> HIDE DEF f, s, X
  <2> QED
    BY <2>1, <2>2, <2>3, MapTyped
<1>3. CASE b.kind = "fact" /\ b.fact \in Edges
  BY <1>3, KindsOf, OneTyped
<1> QED
  BY <1>1, <1>2, <1>3, GivenKinds

-----------------------------------------------------------------------------
(* Upserting a batch                                                          *)

\* What the entities of a batch do, one after the other.
LEMMA UpsertingSteps ==
    ASSUME NEW nodes, NEW es, Len(es) \in Nat
    PROVE  \E u : /\ u[0] = nodes
                  /\ \A i \in 1..Len(es) : u[i] = Upserted(u[i - 1], es[i])
                  /\ UpsertedAll(nodes, es) = u[Len(es)]
<1> DEFINE n == Len(es)
           Eq(u, m) == u = [i \in 0..m |-> IF i = 0 THEN nodes ELSE Upserted(u[i - 1], es[i])]
           T == {m \in Nat : \E u : Eq(u, m)}
<1>1. 0 \in T
  <2> DEFINE u == [i \in 0..0 |-> nodes]
  <2>1. Eq(u, 0)
    OBVIOUS
  <2> QED
    BY <2>1
<1>2. ASSUME NEW m \in Nat, m \in T PROVE m + 1 \in T
  <2>1. PICK u : Eq(u, m)
    BY <1>2
  <2> DEFINE v == [i \in 0..(m + 1) |-> IF i <= m THEN u[i] ELSE Upserted(u[m], es[m + 1])]
  <2>2. ASSUME NEW i \in 0..(m + 1)
        PROVE  v[i] = IF i = 0 THEN nodes ELSE Upserted(v[i - 1], es[i])
    <3>1. CASE i <= m
      <4>1. u[i] = IF i = 0 THEN nodes ELSE Upserted(u[i - 1], es[i])
        BY <2>1, <3>1
      <4>2. v[i] = u[i] /\ (i # 0 => v[i - 1] = u[i - 1])
        BY <3>1
      <4> QED
        BY <4>1, <4>2
    <3>2. CASE ~(i <= m)
      <4>1. i = m + 1 /\ i - 1 = m /\ i # 0
        BY <3>2
      <4>2. v[i] = Upserted(u[m], es[i]) /\ v[m] = u[m]
        BY <4>1
      <4> QED
        BY <4>1, <4>2
    <3> QED
      BY <3>1, <3>2
  <2>3. Eq(v, m + 1)
    <3>1. v = [i \in 0..(m + 1) |-> v[i]]
      OBVIOUS
    <3> HIDE DEF v
    <3> QED
      BY <2>2, <3>1
  <2> HIDE DEF v, Eq
  <2> QED
    BY <2>3
<1>3. n \in T
  <2> HIDE DEF T
  <2> QED
    BY <1>1, <1>2, Induct
<1> DEFINE u == CHOOSE u : Eq(u, n)
<1>4. Eq(u, n)
  <2> HIDE DEF Eq, n
  <2> QED
    BY <1>3
<1>5. UpsertedAll(nodes, es) = u[n]
  BY DEF UpsertedAll
<1> HIDE DEF u
<1>6. u[0] = nodes
  BY <1>4
<1>7. \A i \in 1..n : u[i] = Upserted(u[i - 1], es[i])
  BY <1>4
<1> QED
  BY <1>5, <1>6, <1>7

\* What holds of every node by itself.
IsNode(v) ==
    v = [ns |-> v.ns, text |-> v.text, vec |-> v.vec, dirty |-> v.dirty] /\ v.dirty \in BOOLEAN

Nodes(n) == n = [k \in Keys |-> n[k]] /\ \A k \in Keys : IsNode(n[k])

\* Where the vector is not of the text there is a mark, or the node is a project.
Drifts(n) ==
    \A k \in Keys : /\ n[k].ns = None => n[k].vec = None
                    /\ n[k].vec \notin {None, n[k].text} /\ ~n[k].dirty => k \in Projects

Exist(n) == {k \in Keys : n[k].ns # None}

\* A node that has a vector, and one that has none.
LEMMA EmbeddedIs ==
    ASSUME NEW v
    PROVE  /\ IsNode(Embedded(v)) /\ Embedded(v).ns = v.ns /\ Embedded(v).text = v.text
           /\ Embedded(v).vec = v.text
BY DEF IsNode, Embedded

LEMMA UnembeddedIs ==
    ASSUME NEW ns, NEW text
    PROVE  /\ IsNode(Unembedded(ns, text)) /\ Unembedded(ns, text).ns = ns
           /\ Unembedded(ns, text).vec = None
BY DEF IsNode, Unembedded

LEMMA OneUpserted ==
    ASSUME NEW n, Nodes(n), Drifts(n), NEW e, Marked(e), e.ns # None
    PROVE  /\ Nodes(Upserted(n, e)) /\ Drifts(Upserted(n, e))
           /\ Exist(Upserted(n, e)) = Exist(n) \cup {k \in Keys : k = e.key}
<1> DEFINE m == Upserted(n, e)
           v == n[e.key]
           w == [ns |-> e.ns, text |-> e.text, vec |-> v.vec,
                 dirty |-> v.dirty \/ (e.marks /\ v.ns # None /\ v.text # e.text)]
<1>1. m = [n EXCEPT ![e.key] = w]
  BY DEF Upserted
<1>2. CASE e.key \in Keys
  <2>1. v.dirty \in BOOLEAN
    BY <1>2 DEF Nodes, IsNode
  <2>2. m = [k \in Keys |-> IF k = e.key THEN w ELSE n[k]]
    BY <1>1, <1>2 DEF Nodes
  <2> HIDE DEF m, w
  <2>3. IsNode(w) /\ w.ns = e.ns /\ w.text = e.text /\ w.vec = v.vec
        /\ (w.dirty <=> (v.dirty \/ (e.marks /\ v.ns # None /\ v.text # e.text)))
    BY <2>1 DEF IsNode, w
  <2>4. Nodes(m)
    BY <2>2, <2>3 DEF Nodes
  <2>5. Drifts(m)
    <3> SUFFICES ASSUME NEW k \in Keys
                 PROVE  /\ m[k].ns = None => m[k].vec = None
                        /\ m[k].vec \notin {None, m[k].text} /\ ~m[k].dirty => k \in Projects
      BY DEF Drifts
    <3>1. CASE k # e.key
      BY <2>2, <3>1 DEF Drifts
    <3>2. CASE k = e.key
      <4>1. m[k] = w
        BY <2>2, <3>2
      <4>2. /\ v.ns = None => v.vec = None
            /\ v.vec \notin {None, v.text} /\ ~v.dirty => k \in Projects
        BY <3>2 DEF Drifts
      <4> QED
        BY <2>3, <3>2, <4>1, <4>2 DEF Marked
    <3> QED
      BY <3>1, <3>2
  <2>6. Exist(m) = Exist(n) \cup {k \in Keys : k = e.key}
    BY <1>2, <2>2, <2>3 DEF Exist
  <2> QED
    BY <2>4, <2>5, <2>6 DEF m
<1>3. CASE e.key \notin Keys
  <2>1. m = n
    BY <1>1, <1>3 DEF Nodes
  <2> QED
    BY <1>3, <2>1
<1> QED
  BY <1>2, <1>3

LEMMA AllUpserted ==
    ASSUME NEW n, Nodes(n), Drifts(n), NEW X, NEW es \in Seq(X),
           \A e \in X : Marked(e) /\ e.ns # None
    PROVE  /\ Nodes(UpsertedAll(n, es)) /\ Drifts(UpsertedAll(n, es))
           /\ Exist(UpsertedAll(n, es)) = Exist(n) \cup {k \in Keys : \E e \in ToSet(es) : k = e.key}
<1>1. Len(es) \in Nat /\ DOMAIN es = 1..Len(es) /\ \A i \in 1..Len(es) : es[i] \in X
  BY LenProperties, ElementOfSeq
<1>2. PICK u : /\ u[0] = n
               /\ \A i \in 1..Len(es) : u[i] = Upserted(u[i - 1], es[i])
               /\ UpsertedAll(n, es) = u[Len(es)]
  BY <1>1, UpsertingSteps
<1> DEFINE Named(i) == {k \in Keys : \E j \in 1..i : k = es[j].key}
           Good(i) == Nodes(u[i]) /\ Drifts(u[i]) /\ Exist(u[i]) = Exist(n) \cup Named(i)
           T == {i \in Nat : i <= Len(es) => Good(i)}
<1>3. 0 \in T
  <2>1. Named(0) = {}
    OBVIOUS
  <2> QED
    BY <1>2, <2>1
<1>4. ASSUME NEW i \in Nat, i \in T PROVE i + 1 \in T
  <2> SUFFICES ASSUME i + 1 <= Len(es) PROVE Good(i + 1)
    OBVIOUS
  <2>1. Good(i)
    BY <1>1, <1>4
  <2>2. i + 1 \in 1..Len(es) /\ (i + 1) - 1 = i
    BY <1>1
  <2>3. u[i + 1] = Upserted(u[i], es[i + 1]) /\ Marked(es[i + 1]) /\ es[i + 1].ns # None
    BY <1>1, <1>2, <2>2
  <2>4. Named(i + 1) = Named(i) \cup {k \in Keys : k = es[i + 1].key}
    OBVIOUS
  <2>5. Nodes(u[i + 1]) /\ Drifts(u[i + 1])
        /\ Exist(u[i + 1]) = Exist(u[i]) \cup {k \in Keys : k = es[i + 1].key}
    BY <2>1, <2>3, OneUpserted
  <2> HIDE DEF Named
  <2> QED
    BY <2>1, <2>4, <2>5
<1>5. Len(es) \in T
  <2> HIDE DEF T
  <2> QED
    BY <1>1, <1>3, <1>4, Induct
<1>6. Named(Len(es)) = {k \in Keys : \E e \in ToSet(es) : k = e.key}
  BY <1>1 DEF ToSet
<1> QED
  BY <1>1, <1>2, <1>5, <1>6

-----------------------------------------------------------------------------
(* Batches that nobody else disturbs                                          *)

Phases == {"rest", "entities", "edges", "guarded", "embed", "prove", "done", "halted"}

Job ==
    [at : Phases, batch : Given \cup {[kind |-> None]}, todo : Seq(Edges), dead : SUBSET Edges,
     seen : SUBSET Edges, base : SUBSET Edges, disturbed : BOOLEAN,
     real : Batches \cup {[kind |-> None]}, more : Seq(Given), said : {None, "OK", "FAIL"}]

Typed ==
    /\ job \in [Procs -> Job]
    /\ Nodes(node) /\ Drifts(node)
    /\ facts \in SUBSET Edges /\ Ended(Live, facts)

\* How many specs of its batch a run has tried.
Position(j) ==
    LET n == Len(SpecsOf(j.batch))
    IN  IF j.at \in {"edges", "guarded"} THEN n - Len(j.todo)
        ELSE IF j.at \in {"embed", "prove", "done"} THEN n ELSE 0

\* The entities of the batch are there.
Written(b, live) == {k \in Keys : \E e \in ToSet(EntitiesOf(b)) : k = e.key} \subseteq live

\* Each of the first i specs is in G, or it cannot be, or a later one replaced it.
Accounted(S, i, G, live) ==
    \A j \in 1..i : \/ S[j] \in G
                    \/ ~({S[j].s, S[j].o} \subseteq live)
                    \/ \E k \in (j + 1)..i : evicts(S[j].rel) /\ S[k].s = S[j].s /\ S[k].rel = S[j].rel

\* Some run of the batch got to m, so far.
Got(j, F, live, m) ==
    /\ Stands(live, SpecsOf(j.batch), j.base, F, Position(j), m)
    /\ (m # 0 \/ j.at \notin {"entities", "halted"}) => Written(j.batch, live)

\* What is known of a run that nobody disturbed.
Kept(j, F, live) ==
    LET S == SpecsOf(j.batch)
        i == Position(j)
    IN  /\ j.at # "rest" => j.batch \in Given
        /\ j.at = "guarded" => j.todo # <<>>
        /\ j.at # "rest" /\ ~j.disturbed =>
             /\ Ended(live, j.base)
             /\ i \in 0..Len(S)
             /\ \E m \in i..Len(S) : Got(j, F, live, m)
             /\ j.at \in {"edges", "guarded"} => j.todo = SubSeq(S, i + 1, Len(S))
             /\ j.at = "guarded" => j.seen = F
             /\ Accounted(S, i, F \cup j.dead, live)

KInv == Typed /\ \A p \in Procs : Kept(job[p], facts, Live)

LEMMA StandsStill ==
    ASSUME NEW live, NEW more, NEW S \in Seq(Edges), NEW F \in SUBSET Edges, NEW G,
           Ended(live, F), Ended(more, F), Stands(live, S, F, G, 0, 0)
    PROVE  Stands(more, S, F, G, 0, 0)
<1>1. Upto(live, S, F)[0] = F /\ Upto(more, S, F)[0] = F
  BY UptoSteps
<1> QED
  BY <1>1 DEF Stands

LEMMA LiveExist == Live = Exist(node) /\ Live' = Exist(node')
BY DEF Live, Exist

\* A process goes on and nothing else changes.
LEMMA OneGoes ==
    ASSUME KInv, NEW p \in Procs, NEW c \in Job, Goes(p, c), UNCHANGED facts, Live' = Live,
           Kept(c, facts, Live)
    PROVE  job' \in [Procs -> Job] /\ \A q \in Procs : Kept(job'[q], facts', Live')
<1>1. \A q \in Procs : job'[q] = IF q = p THEN c ELSE job[q]
  BY DEF Goes, KInv, Typed
<1>2. job' \in [Procs -> Job]
  BY DEF Goes, KInv, Typed
<1>3. \A q \in Procs : Kept(job'[q], facts, Live)
  BY <1>1 DEF KInv
<1> QED
  BY <1>2, <1>3

\* A process writes, which disturbs the others.
LEMMA OneWrites ==
    ASSUME KInv, NEW p \in Procs, NEW c \in Job, job' = [Disturbing(p) EXCEPT ![p] = c],
           Kept(c, facts', Live')
    PROVE  job' \in [Procs -> Job] /\ \A q \in Procs : Kept(job'[q], facts', Live')
<1>1. \A q \in Procs : job[q] \in Job
  BY DEF KInv, Typed
<1>2. \A q \in Procs : [job[q] EXCEPT !.disturbed = TRUE] \in Job
                       /\ [job[q] EXCEPT !.disturbed = TRUE].disturbed = TRUE
                       /\ [job[q] EXCEPT !.disturbed = TRUE].at = job[q].at
                       /\ [job[q] EXCEPT !.disturbed = TRUE].batch = job[q].batch
                       /\ [job[q] EXCEPT !.disturbed = TRUE].todo = job[q].todo
  BY <1>1 DEF Job
<1>3. \A q \in Procs : job'[q] = IF q = p THEN c ELSE [job[q] EXCEPT !.disturbed = TRUE]
  BY DEF Disturbing
<1>4. job' \in [Procs -> Job]
  <2>1. job' = [q \in Procs |-> job'[q]]
    BY DEF Disturbing
  <2> QED
    BY <1>2, <1>3, <2>1
<1>5. ASSUME NEW q \in Procs PROVE Kept(job'[q], facts', Live')
  <2>1. CASE q = p
    BY <1>3, <2>1
  <2>2. CASE q # p
    <3>1. job'[q].disturbed = TRUE /\ job'[q].at = job[q].at /\ job'[q].batch = job[q].batch
          /\ job'[q].todo = job[q].todo
      BY <1>2, <1>3, <2>2
    <3> QED
      BY <3>1 DEF Kept, KInv
  <2> QED
    BY <2>1, <2>2
<1> QED
  BY <1>4, <1>5

\* Somebody else writes.
LEMMA OthersWrite ==
    ASSUME ProcsAssumption, KInv, job' = Disturbing(None)
    PROVE  job' \in [Procs -> Job] /\ \A q \in Procs : Kept(job'[q], facts', Live')
<1>1. \A q \in Procs : job[q] \in Job
  BY DEF KInv, Typed
<1>2. \A q \in Procs : [job[q] EXCEPT !.disturbed = TRUE] \in Job
                       /\ [job[q] EXCEPT !.disturbed = TRUE].disturbed = TRUE
                       /\ [job[q] EXCEPT !.disturbed = TRUE].at = job[q].at
                       /\ [job[q] EXCEPT !.disturbed = TRUE].batch = job[q].batch
                       /\ [job[q] EXCEPT !.disturbed = TRUE].todo = job[q].todo
  BY <1>1 DEF Job
<1>3. \A q \in Procs : job'[q] = [job[q] EXCEPT !.disturbed = TRUE]
  BY DEF Disturbing, ProcsAssumption
<1>4. job' \in [Procs -> Job]
  <2>1. job' = [q \in Procs |-> job'[q]]
    BY DEF Disturbing
  <2> QED
    BY <1>2, <1>3, <2>1
<1>5. ASSUME NEW q \in Procs PROVE Kept(job'[q], facts', Live')
  <2>1. job'[q].disturbed = TRUE /\ job'[q].at = job[q].at /\ job'[q].batch = job[q].batch
          /\ job'[q].todo = job[q].todo
    BY <1>2, <1>3
  <2> QED
    BY <2>1 DEF Kept, KInv
<1> QED
  BY <1>4, <1>5

-----------------------------------------------------------------------------
(* The steps                                                                  *)

\* A batch that was never begun.
LEMMA NewRun ==
    ASSUME BatchesAssumption, KInv, NEW c, c.at = "entities", c.batch \in Given, c.base = facts
    PROVE  Kept(c, facts, Live)
<1> DEFINE S == SpecsOf(c.batch)
<1>1. S \in Seq(Edges) /\ Len(S) \in Nat
  BY SpecsGiven, LenProperties
<1>2. Position(c) = 0
  BY DEF Position
<1>3. Stands(Live, S, facts, facts, 0, 0)
  BY <1>1, StandsAtFirst DEF KInv, Typed
<1>4. Got(c, facts, Live, 0)
  BY <1>2, <1>3 DEF Got
<1> QED
  BY <1>1, <1>2, <1>4 DEF Kept, Accounted, KInv, Typed

LEMMA BeginKInv ==
    ASSUME BatchesAssumption, KInv, NEW p \in Procs, NEW b \in Batches, Starts(p, b)
    PROVE  KInv'
<1>0. job[p] \in Job /\ facts \in SUBSET Edges
  BY DEF KInv, Typed
<1>1. UNCHANGED <<node, facts>> /\ Live' = Live
  BY DEF Starts, Begin, BeginReal, Live
<1>2. \E c \in Job : Goes(p, c) /\ Kept(c, facts, Live)
  <2>1. CASE b.kind # "real"
    <3> DEFINE again == job[p].batch = b /\ job[p].at = "halted"
               c == [Resting EXCEPT !.at = "entities", !.batch = b,
                                    !.base = IF again THEN job[p].base ELSE facts,
                                    !.disturbed = again /\ job[p].disturbed]
    <3>1. Goes(p, c)
      BY <2>1 DEF Starts, Begin
    <3>2. b \in Given
      BY <2>1 DEF Given
    <3>3. c \in Job
      BY <1>0, <3>2, EmptySeq DEF Job, Phases, Resting
    <3>4. /\ c.at = "entities" /\ c.batch = b
          /\ c.base = (IF again THEN job[p].base ELSE facts)
          /\ again => (c.disturbed <=> job[p].disturbed)
      BY <1>0 DEF Job, Resting
    <3> HIDE DEF c
    <3>5. Kept(c, facts, Live)
      <4>1. CASE ~again
        BY <3>2, <3>4, <4>1, NewRun
      <4>2. CASE again
        <5>1. Kept(job[p], facts, Live)
          BY DEF KInv
        <5>2. Position(c) = 0 /\ Position(job[p]) = 0 /\ c.batch = job[p].batch /\ c.base = job[p].base
          BY <3>4, <4>2 DEF Position
        <5>3. \A m : Got(job[p], facts, Live, m) => Got(c, facts, Live, m)
          BY <3>4, <4>2, <5>2 DEF Got
        <5> QED
          BY <3>4, <4>2, <5>1, <5>2, <5>3 DEF Kept, Accounted
      <4> QED
        BY <4>1, <4>2
    <3> QED
      BY <3>1, <3>3, <3>5
  <2>2. CASE b.kind = "real"
    <3> DEFINE c == [Resting EXCEPT !.at = "entities", !.batch = Head(Parts(b)), !.base = facts,
                                    !.real = b, !.more = Tail(Parts(b))]
    <3>1. Goes(p, c)
      BY <2>2 DEF Starts, BeginReal
    <3>2. Parts(b) \in Seq(Given) /\ Parts(b) # <<>>
      <4>1. \A i \in 1..3 : Parts(b)[i] \in Given
        BY <2>2, PartsAre DEF Given, ToSet
      <4> QED
        BY <4>1, PartsAre
    <3>3. Head(Parts(b)) \in Given /\ Tail(Parts(b)) \in Seq(Given)
      BY <3>2, HeadTailProperties
    <3>4. c \in Job
      BY <1>0, <3>3, EmptySeq DEF Job, Phases, Resting
    <3>5. c.at = "entities" /\ c.batch = Head(Parts(b)) /\ c.base = facts
      BY DEF Resting
    <3> HIDE DEF c
    <3> QED
      BY <3>1, <3>3, <3>4, <3>5, NewRun
  <2> QED
    BY <2>1, <2>2
<1> QED
  BY <1>1, <1>2, OneGoes DEF KInv, Typed

LEMMA EntitiesKInv ==
    ASSUME BatchesAssumption, KInv, NEW p \in Procs, Entities(p)
    PROVE  KInv'
<1> DEFINE b == job[p].batch
           es == EntitiesOf(b)
           S == SpecsOf(b)
           foreign == \E i \in DOMAIN es : node[es[i].key].ns \notin {None, es[i].ns}
<1>0. job[p] \in Job /\ job[p].at = "entities" /\ facts \in SUBSET Edges /\ UNCHANGED facts
      /\ Kept(job[p], facts, Live)
  BY DEF KInv, Typed, Entities
<1>1. CASE foreign
  <2> DEFINE c == [job[p] EXCEPT !.at = "halted"]
  <2>1. Goes(p, c) /\ UNCHANGED node /\ Live' = Live
    BY <1>1 DEF Entities, Live
  <2>2. c \in Job /\ c.at = "halted" /\ c.batch = b /\ c.base = job[p].base
        /\ c.disturbed = job[p].disturbed /\ c.dead = job[p].dead
    BY <1>0 DEF Job, Phases
  <2> HIDE DEF c
  <2>3. Position(c) = 0 /\ Position(job[p]) = 0
    BY <1>0, <2>2 DEF Position
  <2>4. \A m : Got(job[p], facts, Live, m) => Got(c, facts, Live, m)
    BY <1>0, <2>2, <2>3 DEF Got
  <2>5. Kept(c, facts, Live)
    BY <1>0, <2>2, <2>3, <2>4 DEF Kept, Accounted
  <2> QED
    BY <1>0, <2>1, <2>2, <2>5, OneGoes DEF KInv, Typed
<1>2. CASE ~foreign
  <2> DEFINE c == [job[p] EXCEPT !.at = "edges", !.todo = SpecsOf(job[p].batch)]
  <2>1. node' = UpsertedAll(node, es) /\ job' = [Disturbing(p) EXCEPT ![p] = c]
    BY <1>2 DEF Entities
  <2>2. CASE b \in Given
    <3>1. PICK X : es \in Seq(X) /\ \A e \in X : Marked(e) /\ e.ns # None
      BY <2>2, EntitiesGiven
    <3>2. S \in Seq(Edges) /\ Len(S) \in Nat
      BY <2>2, SpecsGiven, LenProperties
    <3>3. /\ Nodes(node') /\ Drifts(node')
          /\ Live' = Live \cup {k \in Keys : \E e \in ToSet(es) : k = e.key}
      <4>1. Nodes(node) /\ Drifts(node)
        BY DEF KInv, Typed
      <4> HIDE DEF es
      <4> QED
        BY <2>1, <3>1, <4>1, AllUpserted, LiveExist
    <3>4. /\ c \in Job /\ c.at = "edges" /\ c.batch = b /\ c.base = job[p].base /\ c.todo = S
          /\ c.disturbed = job[p].disturbed /\ c.dead = job[p].dead
      BY <1>0, <3>2 DEF Job, Phases
    <3> HIDE DEF c
    <3>5. Position(c) = 0 /\ Position(job[p]) = 0
      BY <1>0, <3>2, <3>4 DEF Position
    <3>6. Written(b, Live')
      BY <3>3 DEF Written
    <3>7. Ended(Live', facts') /\ (Ended(Live, job[p].base) => Ended(Live', job[p].base))
      BY <1>0, <3>3 DEF Ended, KInv, Typed
    <3>8. ASSUME NEW m \in 0..Len(S), Got(job[p], facts, Live, m), Ended(Live, job[p].base)
          PROVE  Got(c, facts', Live', m)
      <4>1. Stands(Live, S, job[p].base, facts, 0, m)
        BY <3>5, <3>8 DEF Got
      <4>2. CASE m = 0
        <5>1. job[p].base \in SUBSET Edges
          BY <1>0 DEF Job
        <5>2. Ended(Live', job[p].base)
          BY <3>7, <3>8
        <5>3. Stands(Live', S, job[p].base, facts, 0, 0)
          <6> HIDE DEF S
          <6> QED
            BY <3>2, <3>8, <4>1, <4>2, <5>1, <5>2, StandsStill
        <5> QED
          BY <1>0, <3>4, <3>5, <3>6, <4>2, <5>3 DEF Got
      <4>3. CASE m # 0
        <5>1. Live' = Live
          BY <3>3, <3>8, <4>3 DEF Got, Written
        <5> QED
          BY <1>0, <3>4, <3>5, <3>6, <4>1, <5>1 DEF Got
      <4> QED
        BY <4>2, <4>3
    <3>9. c.todo = SubSeq(S, 0 + 1, Len(S))
      <4> HIDE DEF S
      <4> QED
        BY <3>2, <3>4, SubSeqFull
    <3>10. Kept(c, facts', Live')
      <4> SUFFICES ASSUME ~c.disturbed
                   PROVE  /\ Ended(Live', c.base)
                          /\ \E m \in 0..Len(S) : Got(c, facts', Live', m)
        BY <2>2, <3>2, <3>4, <3>5, <3>9 DEF Kept, Accounted
      <4>1. Ended(Live, job[p].base) /\ \E m \in 0..Len(S) : Got(job[p], facts, Live, m)
        BY <1>0, <3>4, <3>5 DEF Kept
      <4> QED
        BY <3>4, <3>7, <3>8, <4>1
    <3> QED
      BY <1>0, <2>1, <3>3, <3>4, <3>7, <3>10, OneWrites DEF KInv, Typed
  <2>3. b \in Given
    BY <1>0 DEF Kept
  <2> QED
    BY <2>2, <2>3
<1> QED
  BY <1>1, <1>2

LEMMA GuardReadKInv ==
    ASSUME BatchesAssumption, KInv, NEW p \in Procs, GuardRead(p)
    PROVE  KInv'
<1> DEFINE c == [job[p] EXCEPT !.at = "guarded", !.seen = facts]
<1>0. /\ job[p] \in Job /\ job[p].at = "edges" /\ job[p].todo # <<>> /\ facts \in SUBSET Edges
      /\ UNCHANGED <<node, facts>> /\ Live' = Live /\ Kept(job[p], facts, Live) /\ Goes(p, c)
  BY DEF KInv, Typed, GuardRead, Live
<1>1. /\ c \in Job /\ c.at = "guarded" /\ c.batch = job[p].batch /\ c.base = job[p].base
      /\ c.disturbed = job[p].disturbed /\ c.dead = job[p].dead /\ c.todo = job[p].todo
      /\ c.seen = facts
  BY <1>0 DEF Job, Phases
<1> HIDE DEF c
<1>2. Position(c) = Position(job[p])
  BY <1>0, <1>1 DEF Position
<1>3. \A m : Got(job[p], facts, Live, m) => Got(c, facts, Live, m)
  BY <1>0, <1>1, <1>2 DEF Got
<1>4. Kept(c, facts, Live)
  BY <1>0, <1>1, <1>2, <1>3 DEF Kept
<1> QED
  BY <1>0, <1>1, <1>4, OneGoes DEF KInv, Typed

\* What is left of a batch after its first i specs.
LEMMA Left ==
    ASSUME NEW S \in Seq(Edges), NEW i \in 0..Len(S), NEW t, t = SubSeq(S, i + 1, Len(S))
    PROVE  /\ Len(t) = Len(S) - i
           /\ t # <<>> => i < Len(S) /\ Head(t) = S[i + 1] /\ Tail(t) = SubSeq(S, i + 2, Len(S))
           /\ t = <<>> => i = Len(S)
<1>1. Len(S) \in Nat /\ \A j \in 1..Len(S) : S[j] \in Edges
  BY LenProperties, ElementOfSeq
<1>2. Len(t) = Len(S) - i
  <2>1. Len(t) = IF i + 1 <= Len(S) THEN Len(S) - (i + 1) + 1 ELSE 0
    BY <1>1, SubSeqProperties
  <2> QED
    BY <1>1, <2>1
<1>3. t = <<>> => i = Len(S)
  <2>1. ASSUME t = <<>> PROVE Len(t) = 0
    BY <2>1, EmptySeq
  <2> QED
    BY <1>1, <1>2, <2>1
<1>4. ASSUME t # <<>> PROVE i < Len(S)
  BY <1>1, <1>4, SubSeqEmpty
<1>5. ASSUME i < Len(S) PROVE Head(t) = S[i + 1] /\ Tail(t) = SubSeq(S, (i + 1) + 1, Len(S))
  <2>1. i + 1 \in 1..Len(S) /\ Len(S) \in (i + 1)..Len(S)
    BY <1>1, <1>5
  <2> QED
    BY <2>1, HeadTailOfSubSeq
<1>6. (i + 1) + 1 = i + 2
  BY <1>1
<1> QED
  BY <1>2, <1>3, <1>4, <1>5, <1>6

\* A spec that was tried is accounted for.
LEMMA AccountedNext ==
    ASSUME NEW live, NEW S \in Seq(Edges), NEW i \in Nat, i < Len(S), NEW F \in SUBSET Edges, NEW dead,
           Accounted(S, i, F \cup dead, live)
    PROVE  Accounted(S, i + 1,
                     Tried(live, F, F, S[i + 1]) \cup (dead \cup {f \in {S[i + 1]} : Refused(f, F, F)}), live)
<1> DEFINE e == S[i + 1]
           G == Tried(live, F, F, e)
           D == dead \cup {f \in {e} : Refused(f, F, F)}
<1>1. Len(S) \in Nat /\ e \in Edges
  BY LenProperties, ElementOfSeq
<1>2. ASSUME NEW j \in 1..(i + 1)
      PROVE  \/ S[j] \in G \cup D
             \/ ~({S[j].s, S[j].o} \subseteq live)
             \/ \E k \in (j + 1)..(i + 1) : evicts(S[j].rel) /\ S[k].s = S[j].s /\ S[k].rel = S[j].rel
  <2>1. CASE j = i + 1
    BY <2>1 DEF Tried, Added
  <2>2. CASE j # i + 1
    <3>1. j \in 1..i /\ i + 1 \in (j + 1)..(i + 1)
      BY <2>2
    <3>2. CASE S[j] \in F
      <4>1. CASE S[j] \in G
        BY <4>1
      <4>2. CASE S[j] \notin G
        <5>1. evicts(e.rel) /\ S[j].s = e.s /\ S[j].rel = e.rel
          BY <3>2, <4>2 DEF Tried, Added
        <5> QED
          BY <3>1, <5>1
      <4> QED
        BY <4>1, <4>2
    <3>3. CASE S[j] \notin F
      <4>1. \/ S[j] \in dead
            \/ ~({S[j].s, S[j].o} \subseteq live)
            \/ \E k \in (j + 1)..i : evicts(S[j].rel) /\ S[k].s = S[j].s /\ S[k].rel = S[j].rel
        BY <3>1, <3>3 DEF Accounted
      <4> HIDE DEF G, e
      <4> QED
        BY <4>1
    <3> QED
      BY <3>2, <3>3
  <2> QED
    BY <2>1, <2>2
<1> HIDE DEF G, D, e
<1>3. Accounted(S, i + 1, G \cup D, live)
  BY <1>2 DEF Accounted
<1> QED
  BY <1>3 DEF G, D, e

LEMMA ApplyKInv ==
    ASSUME BatchesAssumption, KInv, NEW p \in Procs, Apply(p)
    PROVE  KInv'
<1> DEFINE j == job[p]
           b == j.batch
           S == SpecsOf(b)
           e == Head(j.todo)
           c == [j EXCEPT !.at = "edges", !.todo = Tail(@), !.seen = {}, !.dead = @ \cup Dead(e, j.seen)]
           i == Position(j)
<1>0. /\ j \in Job /\ j.at \in {"edges", "guarded"} /\ (j.at = "edges" => j.todo # <<>> /\ ~guarded(e.rel))
      /\ facts \in SUBSET Edges /\ Ended(Live, facts)
      /\ UNCHANGED node /\ Live' = Live /\ Kept(j, facts, Live)
      /\ facts' = Tried(Live, facts, j.seen, e)
      /\ job' = [Disturbing(p) EXCEPT ![p] = c]
  BY DEF KInv, Typed, Apply, Live
<1>1. b \in Given /\ S \in Seq(Edges) /\ Len(S) \in Nat
  <2>1. b \in Given
    BY <1>0 DEF Kept
  <2> QED
    BY <2>1, SpecsGiven, LenProperties
<1>2. e \in Edges /\ Tail(j.todo) \in Seq(Edges)
  <2>1. j.todo \in Seq(Edges) /\ j.todo # <<>>
    BY <1>0 DEF Job, Kept
  <2> HIDE DEF j
  <2> QED
    BY <2>1, HeadTailProperties
<1>3. facts' \in SUBSET Edges /\ Ended(Live, facts')
  BY <1>0, <1>2, TriedTyped
<1>4. /\ c \in Job /\ c.at = "edges" /\ c.batch = b /\ c.base = j.base
      /\ c.disturbed = j.disturbed /\ c.dead = j.dead \cup Dead(e, j.seen) /\ c.todo = Tail(j.todo)
  <2>1. Dead(e, j.seen) \in SUBSET Edges
    BY <1>2 DEF Dead
  <2> HIDE DEF e
  <2> QED
    BY <1>0, <1>2, <2>1 DEF Job, Phases
<1> HIDE DEF c
<1>5. Kept(c, facts', Live)
  <2> SUFFICES ASSUME ~j.disturbed
               PROVE  /\ Ended(Live, c.base)
                      /\ Position(c) \in 0..Len(S)
                      /\ \E m \in Position(c)..Len(S) : Got(c, facts', Live, m)
                      /\ c.todo = SubSeq(S, Position(c) + 1, Len(S))
                      /\ Accounted(S, Position(c), facts' \cup c.dead, Live)
    BY <1>1, <1>4 DEF Kept
  <2>1. /\ Ended(Live, j.base) /\ i \in 0..Len(S) /\ j.todo = SubSeq(S, i + 1, Len(S)) /\ j.todo # <<>>
        /\ j.base \in SUBSET Edges
        /\ \E m \in i..Len(S) : Got(j, facts, Live, m)
        /\ Accounted(S, i, facts \cup j.dead, Live)
        /\ (j.at = "guarded" => j.seen = facts)
    BY <1>0 DEF Kept, Job
  <2>2. i < Len(S) /\ e = S[i + 1] /\ c.todo = SubSeq(S, i + 2, Len(S)) /\ (i + 1) + 1 = i + 2
        /\ i \in Nat /\ i + 1 \in 0..Len(S)
    <3> DEFINE t == j.todo
    <3>1. t = SubSeq(S, i + 1, Len(S)) /\ t # <<>> /\ e = Head(t) /\ c.todo = Tail(t)
      BY <1>4, <2>1
    <3>2. S \in Seq(Edges) /\ i \in 0..Len(S) /\ Len(S) \in Nat
      BY <1>1, <2>1
    <3> HIDE DEF i, S, j, t, e
    <3>3. i < Len(S) /\ Head(t) = S[i + 1] /\ Tail(t) = SubSeq(S, i + 2, Len(S))
      BY <3>1, <3>2, Left
    <3>4. (i + 1) + 1 = i + 2 /\ i \in Nat /\ i + 1 \in 0..Len(S)
      BY <3>2, <3>3
    <3>5. e = S[i + 1] /\ c.todo = SubSeq(S, i + 2, Len(S))
      BY <3>1, <3>3
    <3> QED
      BY <3>3, <3>4, <3>5
  <2>3. Position(c) = i + 1
    <3>1. Len(c.todo) = Len(S) - (i + 1)
      <4> HIDE DEF i, S, j
      <4> QED
        BY <1>1, <2>2, Left
    <3>2. Position(c) = Len(S) - Len(c.todo)
      BY <1>4 DEF Position
    <3> HIDE DEF i, S, j
    <3> QED
      BY <1>1, <2>2, <3>1, <3>2
  <2>4. Refused(e, facts, j.seen) <=> Refused(e, facts, facts)
    BY <1>0, <2>1 DEF Refused
  <2>5. facts' = Tried(Live, facts, facts, e) /\ Dead(e, j.seen) = {f \in {e} : Refused(f, facts, facts)}
    BY <1>0, <2>4 DEF Tried, Dead
  <2>6. \E m \in (i + 1)..Len(S) : Got(c, facts', Live, m)
    <3>1. PICK m \in i..Len(S) : Got(j, facts, Live, m)
      BY <2>1
    <3>2. Stands(Live, S, j.base, facts, i, m) /\ Written(b, Live)
      BY <1>0, <3>1 DEF Got
    <3>3. PICK l \in (i + 1)..Len(S) : Stands(Live, S, j.base, facts', i + 1, l)
      <4> DEFINE base == j.base
      <4>1. Ended(Live, base) /\ base \in SUBSET Edges /\ Stands(Live, S, base, facts, i, m)
        BY <2>1, <3>2
      <4> HIDE DEF i, S, j, e, base
      <4>2. \E l \in (i + 1)..Len(S) : Stands(Live, S, base, Tried(Live, facts, facts, S[i + 1]), i + 1, l)
        BY <1>0, <1>1, <2>2, <4>1, StandsNext
      <4> QED
        BY <2>2, <2>5, <4>2 DEF base
    <3>4. Got(c, facts', Live, l)
      BY <1>4, <2>3, <3>2, <3>3 DEF Got
    <3> QED
      BY <3>3, <3>4
  <2>7. Accounted(S, i + 1, facts' \cup c.dead, Live)
    <3> HIDE DEF i, S, j, e
    <3> QED
      BY <1>0, <1>1, <1>4, <2>1, <2>2, <2>5, AccountedNext
  <2> QED
    <3> HIDE DEF i, S, j, e
    <3> QED
      BY <1>4, <2>1, <2>2, <2>3, <2>6, <2>7
<1> QED
  BY <1>0, <1>3, <1>4, <1>5, OneWrites DEF KInv, Typed

\* A process ends its batch, for another one or not.
LEMMA ReturnKInv ==
    ASSUME BatchesAssumption, KInv, NEW p \in Procs, Return(p)
    PROVE  KInv'
<1> DEFINE j == job[p]
           S == SpecsOf(j.batch)
<1>0. /\ j \in Job /\ j.at = "edges" /\ j.todo = <<>> /\ facts \in SUBSET Edges
      /\ UNCHANGED <<node, facts>> /\ Live' = Live /\ Kept(j, facts, Live)
  BY DEF KInv, Typed, Return, Live
<1>1. CASE j.more # <<>>
  <2> DEFINE c == [j EXCEPT !.at = "entities", !.batch = Head(j.more), !.more = Tail(@),
                            !.base = facts, !.dead = {}]
  <2>1. Goes(p, c)
    BY <1>1 DEF Return
  <2>2. Head(j.more) \in Given /\ Tail(j.more) \in Seq(Given)
    <3>1. j.more \in Seq(Given)
      BY <1>0 DEF Job
    <3> HIDE DEF j
    <3> QED
      BY <1>1, <3>1, HeadTailProperties
  <2>3. c \in Job /\ c.at = "entities" /\ c.batch = Head(j.more) /\ c.base = facts
    BY <1>0, <2>2 DEF Job, Phases
  <2> HIDE DEF c
  <2> QED
    BY <1>0, <2>1, <2>2, <2>3, NewRun, OneGoes DEF KInv, Typed
<1>2. CASE j.more = <<>>
  <2> DEFINE c == [j EXCEPT !.at = IF j.real.kind = None THEN "done" ELSE "embed"]
  <2>1. Goes(p, c)
    BY <1>2 DEF Return
  <2>2. /\ c \in Job /\ c.at \in {"done", "embed"} /\ c.batch = j.batch /\ c.base = j.base
        /\ c.disturbed = j.disturbed /\ c.dead = j.dead
    BY <1>0 DEF Job, Phases
  <2> HIDE DEF c
  <2>3. S \in Seq(Edges) /\ Len(S) \in Nat
    BY <1>0, SpecsGiven, LenProperties DEF Kept
  <2>4. Position(c) = Len(S)
    BY <2>2 DEF Position
  <2>5. Position(j) = Len(S)
    <3>1. Position(j) = Len(S) - Len(j.todo) /\ Len(j.todo) = 0
      BY <1>0 DEF Position
    <3> HIDE DEF S, j
    <3> QED
      BY <2>3, <3>1
  <2>6. \A m : Got(j, facts, Live, m) => Got(c, facts, Live, m)
    BY <1>0, <2>2, <2>4, <2>5 DEF Got
  <2>7. Kept(c, facts, Live)
    BY <1>0, <2>2, <2>3, <2>4, <2>5, <2>6 DEF Kept
  <2> QED
    BY <1>0, <2>1, <2>2, <2>7, OneGoes DEF KInv, Typed
<1> QED
  BY <1>1, <1>2

\* A process past its last spec goes on, or a process halts.
LEMMA StaysKept ==
    ASSUME BatchesAssumption, NEW j \in Job, NEW c, NEW F, NEW live, Kept(j, F, live),
           \/ j.at \in {"embed", "prove", "done"} /\ c.at \in {"embed", "prove", "done"} /\ c.dead = j.dead
           \/ j.at # "rest" /\ c.at = "halted",
           c.batch = j.batch, c.base = j.base, c.disturbed = j.disturbed
    PROVE  Kept(c, F, live)
<1> DEFINE S == SpecsOf(j.batch)
<1>1. j.batch \in Given /\ S \in Seq(Edges) /\ Len(S) \in Nat
  <2>1. j.batch \in Given
    BY DEF Kept
  <2> QED
    BY <2>1, SpecsGiven, LenProperties
<1>2. CASE j.at \in {"embed", "prove", "done"} /\ c.at \in {"embed", "prove", "done"} /\ c.dead = j.dead
  <2>1. Position(c) = Len(S) /\ Position(j) = Len(S)
    BY <1>2 DEF Position
  <2>2. \A m : Got(j, F, live, m) => Got(c, F, live, m)
    BY <1>2, <2>1 DEF Got
  <2> QED
    BY <1>1, <1>2, <2>1, <2>2 DEF Kept
<1>3. CASE j.at # "rest" /\ c.at = "halted"
  <2>1. Position(c) = 0
    BY <1>3 DEF Position
  <2> SUFFICES ASSUME ~j.disturbed
               PROVE  Ended(live, j.base) /\ \E m \in 0..Len(S) : Got(c, F, live, m)
    BY <1>1, <1>3, <2>1 DEF Kept, Accounted
  <2>2. Ended(live, j.base) /\ Position(j) \in 0..Len(S)
    BY <1>3 DEF Kept
  <2>3. PICK m \in Position(j)..Len(S) : Got(j, F, live, m)
    BY <1>3 DEF Kept
  <2>4. m \in 0..Len(S)
    BY <1>1, <2>2, <2>3
  <2>5. Stands(live, S, j.base, F, 0, m) /\ (m # 0 => Written(j.batch, live))
    BY <2>3, StandsAgain DEF Got
  <2>6. Got(c, F, live, m)
    BY <1>3, <2>1, <2>5 DEF Got
  <2> QED
    BY <2>2, <2>4, <2>6
<1> QED
  BY <1>2, <1>3

LEMMA HaltKInv ==
    ASSUME BatchesAssumption, KInv, NEW p \in Procs, Halt(p)
    PROVE  KInv'
<1> DEFINE c == [job[p] EXCEPT !.at = "halted", !.todo = <<>>, !.dead = {}, !.seen = {}, !.more = <<>>]
<1>0. /\ job[p] \in Job /\ job[p].at # "rest" /\ UNCHANGED <<node, facts>> /\ Live' = Live
      /\ Kept(job[p], facts, Live) /\ Goes(p, c)
  BY DEF KInv, Typed, Halt, Live
<1>1. /\ c \in Job /\ c.at = "halted" /\ c.batch = job[p].batch /\ c.base = job[p].base
      /\ c.disturbed = job[p].disturbed
  BY <1>0, EmptySeq DEF Job, Phases
<1> HIDE DEF c
<1>2. Kept(c, facts, Live)
  BY <1>0, <1>1, StaysKept
<1> QED
  BY <1>0, <1>1, <1>2, OneGoes DEF KInv, Typed

LEMMA ProveKInv ==
    ASSUME BatchesAssumption, KInv, NEW p \in Procs, Prove(p)
    PROVE  KInv'
<1>0. /\ job[p] \in Job /\ job[p].at = "prove" /\ UNCHANGED <<node, facts>> /\ Live' = Live
      /\ Kept(job[p], facts, Live)
  BY DEF KInv, Typed, Prove, Live
<1>1. PICK said \in {"OK", "FAIL"} : Goes(p, [job[p] EXCEPT !.at = "done", !.said = said])
  BY DEF Prove
<1> DEFINE c == [job[p] EXCEPT !.at = "done", !.said = said]
<1>2. /\ c \in Job /\ c.at = "done" /\ c.batch = job[p].batch /\ c.base = job[p].base
      /\ c.disturbed = job[p].disturbed /\ c.dead = job[p].dead
  BY <1>0 DEF Job, Phases
<1> HIDE DEF c
<1>3. Kept(c, facts, Live)
  BY <1>0, <1>2, StaysKept
<1>4. Goes(p, c)
  BY <1>1 DEF c
<1> QED
  BY <1>0, <1>2, <1>3, <1>4, OneGoes DEF KInv, Typed

LEMMA EmbedPassKInv ==
    ASSUME BatchesAssumption, KInv, NEW p \in Procs, EmbedPass(p)
    PROVE  KInv'
<1> DEFINE c == [job[p] EXCEPT !.at = "prove"]
<1>0. /\ job[p] \in Job /\ job[p].at = "embed" /\ UNCHANGED facts
      /\ Kept(job[p], facts, Live) /\ Goes(p, c) /\ Nodes(node) /\ Drifts(node)
  BY DEF KInv, Typed, EmbedPass
<1>1. PICK P \in [Keys -> BOOLEAN] :
         /\ \A k \in Keys : P[k] => node[k].ns = "ours"
         /\ node' = [k \in Keys |-> IF P[k] THEN Embedded(node[k])
                                            ELSE node[k]]
  <2> DEFINE Sourced(k) == node[k].ns = "ours" /\ \E b \in Histories :
                              \E i \in DOMAIN Rows(b) : Rows(b)[i].key = k
             Behind(k) == node[k].vec = None \/ node[k].dirty
  <2>1. PICK all \in BOOLEAN :
          node' = [k \in Keys |-> IF Sourced(k) /\ (all \/ Behind(k))
                                  THEN Embedded(node[k])
                                  ELSE node[k]]
    BY DEF EmbedPass
  <2> DEFINE P == [k \in Keys |-> Sourced(k) /\ (all \/ Behind(k))]
  <2>2. \A k \in Keys : P[k] \in BOOLEAN /\ (P[k] => node[k].ns = "ours")
    OBVIOUS
  <2>3. node' = [k \in Keys |-> IF P[k] THEN Embedded(node[k])
                                        ELSE node[k]]
    BY <2>1
  <2>4. P \in [Keys -> BOOLEAN]
    BY <2>2
  <2> HIDE DEF P
  <2> QED
    BY <2>2, <2>3, <2>4
<1>2. ASSUME NEW k \in Keys
      PROVE  /\ IsNode(node'[k]) /\ node'[k].ns = node[k].ns
             /\ node'[k].ns = None => node'[k].vec = None
             /\ node'[k].vec \notin {None, node'[k].text} /\ ~node'[k].dirty => k \in Projects
  <2>1. IsNode(node[k])
    BY <1>0 DEF Nodes
  <2>2. CASE P[k]
    <3>1. node'[k] = Embedded(node[k]) /\ node[k].ns = "ours"
      BY <1>1, <2>2
    <3> QED
      BY <2>1, <3>1, EmbeddedIs DEF None
  <2>3. CASE ~P[k]
    <3>1. node'[k] = node[k]
      BY <1>1, <2>3
    <3> QED
      BY <1>0, <2>1, <3>1 DEF Drifts
  <2> QED
    BY <2>2, <2>3
<1>3. Nodes(node') /\ Drifts(node')
  <2>1. node' = [k \in Keys |-> node'[k]]
    BY <1>1
  <2> QED
    BY <1>2, <2>1 DEF Nodes, Drifts
<1>4. Live' = Live
  BY <1>2, LiveExist DEF Exist
<1>5. /\ c \in Job /\ c.at = "prove" /\ c.batch = job[p].batch /\ c.base = job[p].base
      /\ c.disturbed = job[p].disturbed /\ c.dead = job[p].dead
  BY <1>0 DEF Job, Phases
<1> HIDE DEF c
<1>6. Kept(c, facts, Live)
  BY <1>0, <1>5, StaysKept
<1> QED
  BY <1>0, <1>3, <1>4, <1>5, <1>6, OneGoes DEF KInv, Typed

LEMMA OthersKInv ==
    ASSUME ProcsAssumption, KInv, Others
    PROVE  KInv'
<1>0. Nodes(node) /\ Drifts(node) /\ facts \in SUBSET Edges /\ Ended(Live, facts) /\ job \in [Procs -> Job]
  BY DEF KInv, Typed
<1>1. ASSUME NEW k \in Keys, Erase(k) PROVE KInv'
  <2>1. /\ node' = [node EXCEPT ![k] = Absent] /\ facts' = {f \in facts : k \notin {f.s, f.o}}
        /\ job' = Disturbing(None)
    BY <1>1 DEF Erase
  <2>2. Nodes(node') /\ Drifts(node')
    BY <1>0, <2>1 DEF Nodes, Drifts, Absent, Unembedded, IsNode, None
  <2>3. Live' = Live \ {k}
    BY <1>0, <2>1 DEF Live, Absent, Unembedded, Nodes
  <2>4. facts' \in SUBSET Edges /\ Ended(Live', facts')
    BY <1>0, <2>1, <2>3 DEF Ended
  <2> QED
    BY <2>1, <2>2, <2>4, OthersWrite DEF KInv, Typed
<1>2. ASSUME NEW k \in Keys, Claim(k) PROVE KInv'
  <2>1. /\ node' = [node EXCEPT ![k] = Unembedded("other", "other")] /\ UNCHANGED facts
        /\ job' = Disturbing(None)
    BY <1>2 DEF Claim
  <2>2. node' = [h \in Keys |-> IF h = k THEN Unembedded("other", "other") ELSE node[h]]
    BY <1>0, <2>1 DEF Nodes
  <2>3. Nodes(node') /\ Drifts(node')
    BY <1>0, <2>2, UnembeddedIs DEF Nodes, Drifts, None
  <2>4. Live' = Live \cup {k}
    BY <2>2, UnembeddedIs DEF Live, None
  <2>5. facts' \in SUBSET Edges /\ Ended(Live', facts')
    BY <1>0, <2>1, <2>4 DEF Ended
  <2> QED
    BY <2>1, <2>3, <2>5, OthersWrite DEF KInv, Typed
<1>3. ASSUME NEW k \in Keys, Embed(k) PROVE KInv'
  <2>1. /\ node' = [node EXCEPT ![k] = Embedded(node[k])]
        /\ UNCHANGED <<facts, job>> /\ node[k].ns # None
    BY <1>3 DEF Embed
  <2>2. IsNode(node[k])
    BY <1>0 DEF Nodes
  <2>3. node' = [h \in Keys |-> IF h = k THEN Embedded(node[k]) ELSE node[h]]
    BY <1>0, <2>1 DEF Nodes
  <2>4. Nodes(node') /\ Drifts(node')
    <3>1. ASSUME NEW h \in Keys
          PROVE  /\ IsNode(node'[h])
                 /\ node'[h].ns = None => node'[h].vec = None
                 /\ node'[h].vec \notin {None, node'[h].text} /\ ~node'[h].dirty => h \in Projects
      <4>1. CASE h = k
        BY <2>1, <2>3, <4>1, EmbeddedIs
      <4>2. CASE h # k
        <5>1. node'[h] = node[h]
          BY <2>3, <4>2
        <5> QED
          BY <1>0, <5>1 DEF Nodes, Drifts
      <4> QED
        BY <4>1, <4>2
    <3>2. node' = [h \in Keys |-> node'[h]]
      BY <2>3
    <3>3. Nodes(node')
      BY <3>1, <3>2 DEF Nodes
    <3>4. Drifts(node')
      BY <3>1 DEF Drifts
    <3> QED
      BY <3>3, <3>4
  <2>5. Live' = Live
    BY <2>2, <2>3, EmbeddedIs DEF Live
  <2> QED
    BY <2>1, <2>4, <2>5 DEF KInv, Typed
<1> QED
  BY <1>1, <1>2, <1>3 DEF Others

LEMMA InitKInv == IngestInit => KInv
<1> SUFFICES ASSUME IngestInit PROVE KInv
  OBVIOUS
<1>1. Resting \in Job /\ Resting.at = "rest"
  BY EmptySeq DEF Resting, Job, Phases
<1>2. job \in [Procs -> Job] /\ \A p \in Procs : Kept(job[p], facts, Live)
  BY <1>1 DEF IngestInit, Kept
<1>3. facts \in SUBSET Edges /\ Ended(Live, facts)
  BY DEF IngestInit, Ended
<1>4. \A k \in Keys : node[k] \in {Absent, Plain}
  BY DEF IngestInit
<1>5. \A k \in Keys : IsNode(node[k]) /\ node[k].vec = None
  BY <1>4, UnembeddedIs DEF Absent, Plain
<1>6. Nodes(node) /\ Drifts(node)
  BY <1>5 DEF IngestInit, Nodes, Drifts
<1> QED
  BY <1>2, <1>3, <1>6 DEF KInv, Typed

LEMMA NextKInv ==
    ASSUME BatchesAssumption, ProcsAssumption, KInv, [IngestNext]_ivars
    PROVE  KInv'
<1>1. ASSUME NEW p \in Procs, Proceeds(p) PROVE KInv'
  BY <1>1, EntitiesKInv, GuardReadKInv, ApplyKInv, ReturnKInv, EmbedPassKInv, ProveKInv DEF Proceeds
<1>2. CASE UNCHANGED ivars
  BY <1>2 DEF ivars, KInv, Typed, Live
<1> QED
  BY <1>1, <1>2, BeginKInv, HaltKInv, OthersKInv DEF IngestNext

LEMMA Converged == BatchesAssumption /\ KInv => RerunConverges
<1> SUFFICES ASSUME BatchesAssumption, KInv, NEW p \in Procs, job[p].at = "done", ~job[p].disturbed
             PROVE  facts = Applied(Live, SpecsOf(job[p].batch), job[p].base)
  BY DEF RerunConverges
<1> DEFINE j == job[p]
           S == SpecsOf(j.batch)
<1>1. j \in Job /\ Kept(j, facts, Live)
  BY DEF KInv, Typed
<1>2. S \in Seq(Edges) /\ Len(S) \in Nat
  BY <1>1, SpecsGiven, LenProperties DEF Kept
<1>3. Position(j) = Len(S)
  BY DEF Position
<1>4. PICK m \in Len(S)..Len(S) : Got(j, facts, Live, m)
  BY <1>1, <1>3 DEF Kept
<1>5. m = Len(S)
  BY <1>2, <1>4
<1>6. Stands(Live, S, j.base, facts, Len(S), Len(S))
  BY <1>3, <1>4, <1>5 DEF Got
<1>7. Ended(Live, j.base) /\ j.base \in SUBSET Edges /\ facts \in SUBSET Edges
  BY <1>1 DEF Kept, Job, KInv, Typed
<1> HIDE DEF S, j
<1>8. facts = Applied(Live, S, j.base)
  BY <1>2, <1>6, <1>7, StandsAtLast
<1> QED
  BY <1>8 DEF S, j

LEMMA AllAccounted == BatchesAssumption /\ KInv => NothingLost
<1> SUFFICES ASSUME BatchesAssumption, KInv, NEW p \in Procs, job[p].at = "done", ~job[p].disturbed,
                    NEW i \in DOMAIN SpecsOf(job[p].batch)
             PROVE  LET specs == SpecsOf(job[p].batch)
                    IN  \/ specs[i] \in facts \cup job[p].dead
                        \/ ~({specs[i].s, specs[i].o} \subseteq Live)
                        \/ \E k \in DOMAIN specs : /\ k > i /\ evicts(specs[i].rel)
                                                   /\ specs[k].s = specs[i].s /\ specs[k].rel = specs[i].rel
  BY DEF NothingLost
<1> DEFINE j == job[p]
           S == SpecsOf(j.batch)
<1>1. j \in Job /\ Kept(j, facts, Live)
  BY DEF KInv, Typed
<1>2. Len(S) \in Nat /\ DOMAIN S = 1..Len(S)
  BY <1>1, SpecsGiven, LenProperties DEF Kept
<1>3. Position(j) = Len(S)
  BY DEF Position
<1>4. Accounted(S, Len(S), facts \cup j.dead, Live)
  BY <1>1, <1>3 DEF Kept
<1> HIDE DEF S
<1>5. \/ S[i] \in facts \cup j.dead
      \/ ~({S[i].s, S[i].o} \subseteq Live)
      \/ \E k \in (i + 1)..Len(S) : evicts(S[i].rel) /\ S[k].s = S[i].s /\ S[k].rel = S[i].rel
  BY <1>2, <1>4 DEF Accounted, S
<1>6. \A k \in (i + 1)..Len(S) : k \in DOMAIN S /\ k > i
  BY <1>2 DEF S
<1> QED
  BY <1>5, <1>6 DEF S

LEMMA DriftsSaid == KInv => OnlyProjectsDrift
BY DEF KInv, Typed, Drifts, OnlyProjectsDrift, Projects

\* However often a batch halts, at whatever edge, and is run again: when it
\* returns undisturbed, its edges are those of one run without a halt, for any
\* batches (etl.py, "re-running converges").
THEOREM ConvergeTheorem == IngestSpec => []RerunConverges
<1>1. KInv /\ [IngestNext]_ivars => KInv'
  BY NextKInv, BatchesAssumption, ProcsAssumption
<1>2. KInv => RerunConverges
  BY Converged, BatchesAssumption
<1> QED
  BY <1>1, <1>2, InitKInv, PTL DEF IngestSpec

\* A batch that returns has an account of every edge it was given, over all
\* halts and runs (etl.py dead letters).
THEOREM AccountTheorem == IngestSpec => []NothingLost
<1>1. KInv /\ [IngestNext]_ivars => KInv'
  BY NextKInv, BatchesAssumption, ProcsAssumption
<1>2. KInv => NothingLost
  BY AllAccounted, BatchesAssumption
<1> QED
  BY <1>1, <1>2, InitKInv, PTL DEF IngestSpec

\* A vector that is out of date has its mark, whoever upserts, erases or embeds,
\* but for the projects of histories (etl_history.py upserts them without one).
THEOREM DriftTheorem == IngestSpec => []OnlyProjectsDrift
<1>1. KInv /\ [IngestNext]_ivars => KInv'
  BY NextKInv, BatchesAssumption, ProcsAssumption
<1> QED
  BY <1>1, DriftsSaid, InitKInv, PTL DEF IngestSpec

-----------------------------------------------------------------------------
(* What a ledger's record leaves behind                                     *)

LEMMA HistoriesHold ==
    ASSUME BatchesAssumption, NEW d \in Histories
    PROVE  d \in Given /\ d.kind = "history" /\ HistoryData(d)
<1>1. d \in Given
  BY DEF Histories, Given
<1>2. d.kind = "history"
  <2>1. CASE d \in Batches /\ d.kind = "history"
    BY <2>1
  <2>2. CASE \E r \in Batches : r.kind = "real" /\ d \in ToSet(Parts(r))
    BY <2>2, PartsAre DEF ToSet
  <2> QED
    BY <2>1, <2>2 DEF Histories
<1> QED
  BY <1>1, <1>2, GivenKinds

\* A row is one of the database, or a record under its key.
LEMMA RowsAre ==
    ASSUME NEW d, HistoryData(d)
    PROVE  /\ ToSet(d.rows) \subseteq ToSet(Rows(d))
           /\ \A r \in ToSet(Rows(d)) :
                \/ r \in ToSet(d.rows)
                \/ \E i \in DOMAIN filtered(d.lines) :
                      /\ filtered(d.lines)[i] \in ToSet(d.lines)
                      /\ r.key = LedgerKeys[d.prefix][i]
                      /\ r.text = filtered(d.lines)[i].text
                      /\ r.project = filtered(d.lines)[i].project
<1> DEFINE good == filtered(d.lines)
           recs == [i \in DOMAIN good |-> [good[i] EXCEPT !.key = LedgerKeys[d.prefix][i]]]
           rows == d.rows
           X == ToSet(rows)
           Y == {recs[i] : i \in DOMAIN good}
<1>1. Len(good) \in Nat /\ DOMAIN good = 1..Len(good) /\ \A i \in 1..Len(good) : good[i] \in ToSet(d.lines)
  BY LenProperties, ElementOfSeq DEF HistoryData
<1>2. rows \in Seq(X)
  BY DEF HistoryData
<1>3. recs \in Seq(Y)
  <2>1. recs = [i \in 1..Len(good) |-> recs[i]] /\ \A i \in 1..Len(good) : recs[i] \in Y
    BY <1>1
  <2> HIDE DEF recs, Y, good
  <2> QED
    BY <1>1, <2>1, MappedTyped
<1>4. Rows(d) = rows \o recs
  BY DEF Rows
<1>5. /\ ToSet(rows) \subseteq ToSet(rows \o recs)
      /\ \A r \in ToSet(rows \o recs) : r \in X \/ r \in Y
  <2> HIDE DEF rows, recs, X, Y
  <2>1. rows \in Seq(X \cup Y) /\ recs \in Seq(X \cup Y)
    BY <1>2, <1>3, SeqMonotonic
  <2>2. /\ Len(rows \o recs) = Len(rows) + Len(recs) /\ Len(rows) \in Nat /\ Len(recs) \in Nat
        /\ DOMAIN rows = 1..Len(rows) /\ DOMAIN recs = 1..Len(recs)
        /\ DOMAIN (rows \o recs) = 1..(Len(rows) + Len(recs))
        /\ \A i \in 1..(Len(rows) + Len(recs)) :
             (rows \o recs)[i] = IF i <= Len(rows) THEN rows[i] ELSE recs[i - Len(rows)]
    BY <2>1, ConcatProperties, LenProperties
  <2>3. ASSUME NEW i \in DOMAIN rows PROVE rows[i] \in ToSet(rows \o recs)
    <3>1. i \in 1..(Len(rows) + Len(recs)) /\ i <= Len(rows)
      BY <2>2
    <3> QED
      BY <2>2, <3>1 DEF ToSet
  <2>4. ASSUME NEW i \in 1..(Len(rows) + Len(recs)) PROVE (rows \o recs)[i] \in X \cup Y
    <3>1. CASE i <= Len(rows)
      BY <1>2, <2>2, <3>1, ElementOfSeq
    <3>2. CASE ~(i <= Len(rows))
      <4>1. i - Len(rows) \in 1..Len(recs)
        BY <2>2, <3>2
      <4> QED
        BY <1>3, <2>2, <3>2, <4>1, ElementOfSeq
    <3> QED
      BY <3>1, <3>2
  <2> QED
    BY <2>2, <2>3, <2>4 DEF ToSet
<1>6. ASSUME NEW i \in DOMAIN good
      PROVE  /\ good[i] \in ToSet(d.lines)
             /\ recs[i].key = LedgerKeys[d.prefix][i] /\ recs[i].text = good[i].text
             /\ recs[i].project = good[i].project
  <2>1. good[i] \in ToSet(d.lines) /\ {"key", "text", "project"} \subseteq DOMAIN good[i]
    BY <1>1 DEF HistoryData
  <2> QED
    BY <2>1
<1>7. ASSUME NEW r \in Y
      PROVE  \E i \in DOMAIN good :
                /\ good[i] \in ToSet(d.lines)
                /\ r.key = LedgerKeys[d.prefix][i] /\ r.text = good[i].text /\ r.project = good[i].project
  BY <1>6
<1> HIDE DEF recs, Y
<1> QED
  BY <1>4, <1>5, <1>7

\* The entities of a history are its rows and their projects.
LEMMA RowEntities ==
    ASSUME NEW d, HistoryData(d)
    PROVE  /\ \A e \in ToSet(HistoryEntities(d)) : \E r \in ToSet(Rows(d)) :
                \/ e = Entity(r.key, "ours", r.text, TRUE)
                \/ e = Entity(r.project, "ours", r.spelling, FALSE)
           /\ \A r \in ToSet(Rows(d)) : Entity(r.key, "ours", r.text, TRUE) \in ToSet(HistoryEntities(d))
<1> DEFINE R == Rows(d)
           Row(r) == Entity(r.key, "ours", r.text, TRUE)
           Project(r) == Entity(r.project, "ours", r.spelling, FALSE)
           X == {Row(r) : r \in ToSet(R)} \cup {Project(r) : r \in ToSet(R)}
           M == [i \in DOMAIN R |-> <<Row(R[i]), Project(R[i])>>]
           H == HistoryEntities(d)
<1>1. Len(R) \in Nat /\ DOMAIN R = 1..Len(R) /\ \A i \in 1..Len(R) : R[i] \in ToSet(R)
  BY RowsTyped, LenProperties, ElementOfSeq
<1>2. ASSUME NEW i \in 1..Len(R) PROVE M[i] \in Seq(X) /\ Row(R[i]) \in ToSet(M[i])
  <2> DEFINE a == Row(R[i])
             b == Project(R[i])
  <2>1. a \in X /\ b \in X /\ M[i] = <<a, b>>
    BY <1>1
  <2> HIDE DEF X, a, b, M
  <2>2. <<a, b>> \in Seq(X)
    BY <2>1, TwoTyped
  <2>3. a \in ToSet(<<a, b>>)
    BY DEF ToSet
  <2> QED
    BY <2>1, <2>2, <2>3 DEF a
<1>3. M \in Seq(Seq(X)) /\ Len(M) = Len(R)
  <2>1. M = [i \in 1..Len(R) |-> M[i]]
    BY <1>1
  <2>2. M \in Seq(Seq(X))
    <3> HIDE DEF M, X, R
    <3> QED
      BY <1>1, <1>2, <2>1, MappedTyped
  <2>3. DOMAIN M = 1..Len(R)
    BY <1>1
  <2> HIDE DEF M, X, R
  <2> QED
    BY <1>1, <2>2, <2>3, LenProperties
<1>4. H = FlattenSeq(M)
  BY DEF HistoryEntities, FlatMap, Map
<1>5. H \in Seq(X) /\ \A i \in 1..Len(R) : ToSet(M[i]) \subseteq ToSet(H)
  <2> HIDE DEF M, X, R, H
  <2> QED
    BY <1>3, <1>4, FlattenTyped
<1>6. ToSet(H) \subseteq X
  <2> HIDE DEF X, H
  <2> QED
    BY <1>5, LenProperties, ElementOfSeq DEF ToSet
<1>7. \A r \in ToSet(R) : Row(r) \in ToSet(H)
  <2> HIDE DEF M, H
  <2> QED
    BY <1>1, <1>2, <1>5 DEF ToSet
<1>8. \A e \in X : \E r \in ToSet(R) : e = Row(r) \/ e = Project(r)
  OBVIOUS
<1> HIDE DEF X
<1> QED
  BY <1>6, <1>7, <1>8

\* What upserting leaves of the text of a node.
LEMMA UpsertedTexts ==
    ASSUME NEW n, Nodes(n), NEW X, NEW es \in Seq(X), NEW k \in Keys
    PROVE  \/ /\ UpsertedAll(n, es)[k].text = n[k].text
              /\ \A e \in ToSet(es) : e.key # k
           \/ \E e \in ToSet(es) : e.key = k /\ UpsertedAll(n, es)[k].text = e.text
<1>1. Len(es) \in Nat /\ DOMAIN es = 1..Len(es)
  BY LenProperties
<1>2. PICK u : /\ u[0] = n
               /\ \A i \in 1..Len(es) : u[i] = Upserted(u[i - 1], es[i])
               /\ UpsertedAll(n, es) = u[Len(es)]
  BY <1>1, UpsertingSteps
<1> DEFINE Full(m) == m = [h \in Keys |-> m[h]]
           Good(i) == /\ Full(u[i])
                      /\ \/ u[i][k].text = n[k].text /\ \A j \in 1..i : es[j].key # k
                         \/ \E j \in 1..i : es[j].key = k /\ u[i][k].text = es[j].text
           T == {i \in Nat : i <= Len(es) => Good(i)}
<1>3. 0 \in T
  BY <1>2 DEF Nodes
<1>4. ASSUME NEW i \in Nat, i \in T PROVE i + 1 \in T
  <2> SUFFICES ASSUME i + 1 <= Len(es) PROVE Good(i + 1)
    OBVIOUS
  <2> DEFINE m == u[i]
             e == es[i + 1]
             w == [ns |-> e.ns, text |-> e.text, vec |-> m[e.key].vec,
                   dirty |-> m[e.key].dirty \/ (e.marks /\ m[e.key].ns # None /\ m[e.key].text # e.text)]
  <2>1. Good(i)
    BY <1>1, <1>4
  <2>2. i + 1 \in 1..Len(es) /\ (i + 1) - 1 = i /\ \A j \in 1..(i + 1) : j = i + 1 \/ j \in 1..i
    BY <1>1
  <2>3. u[i + 1] = [m EXCEPT ![e.key] = w] /\ w.text = e.text
    BY <1>2, <2>2 DEF Upserted
  <2> HIDE DEF w
  <2>4. Full(u[i + 1]) /\ u[i + 1][k].text = IF e.key = k THEN e.text ELSE m[k].text
    BY <2>1, <2>3
  <2>5. CASE e.key = k
    BY <2>2, <2>4, <2>5
  <2>6. CASE e.key # k
    <3>1. CASE u[i][k].text = n[k].text /\ \A j \in 1..i : es[j].key # k
      BY <2>2, <2>4, <2>6, <3>1
    <3>2. CASE \E j \in 1..i : es[j].key = k /\ u[i][k].text = es[j].text
      <4>1. PICK j \in 1..i : es[j].key = k /\ u[i][k].text = es[j].text
        BY <3>2
      <4>2. j \in 1..(i + 1)
        BY <4>1
      <4> QED
        BY <2>4, <2>6, <4>1, <4>2
    <3> QED
      BY <2>1, <3>1, <3>2
  <2> QED
    BY <2>5, <2>6
<1>5. Good(Len(es))
  <2>1. Len(es) \in T
    <3> HIDE DEF T
    <3> QED
      BY <1>1, <1>3, <1>4, Induct
  <2> HIDE DEF Good
  <2> QED
    BY <1>1, <2>1
<1> QED
  BY <1>1, <1>2, <1>5 DEF ToSet

\* Some reading of a ledger has a record of that text and project under k.
Recorded(k, text, o) ==
    \E h \in Histories : \E i \in DOMAIN filtered(h.lines) :
        /\ k = LedgerKeys[h.prefix][i]
        /\ text = filtered(h.lines)[i].text /\ o = filtered(h.lines)[i].project

\* What a record leaves: its text...
Texted(n) ==
    \A k \in Keys \cap RecordKeys :
        n[k].text \in {None, "plain", "other"} \/ \E o : Recorded(k, n[k].text, o)

\* ... and its edge.
Filed(f) == f.s \in RecordKeys /\ f.rel = "PART_OF" => \E text : Recorded(f.s, text, f.o)

\* The nodes of a history are as it says.
InPlace(n, b) == \A r \in ToSet(Rows(b)) : n[r.key].text = r.text

\* Where a run of _real is: what it has written is in place, as long as nobody
\* disturbs it.
Underway(j, n) ==
    LET parts == ToSet(Parts(j.real))
    IN  /\ ToSet(j.more) \subseteq parts /\ j.batch \in parts
        /\ j.at \in {"embed", "prove", "done"} => j.more = <<>>
        /\ ~j.disturbed => \A b \in parts :
             b \in ToSet(j.more) \/ (j.at = "entities" /\ b = j.batch) \/ InPlace(n, b)

Tracked(j, n) ==
    /\ \A e \in ToSet(j.todo) : Filed(e)
    /\ j.real.kind \in {None, "real"}
    /\ j.at \in {"embed", "prove"} \/ j.said # None => j.real.kind = "real"
    /\ j.real.kind = "real" /\ j.at \notin {"rest", "halted"} => Underway(j, n)

Files == Texted(node) /\ \A f \in facts : Filed(f)

LInv == Files /\ \A p \in Procs : Tracked(job[p], node)

\* What the entities and the edges of a batch are to a ledger.
LEMMA LedgerEntities ==
    ASSUME BatchesAssumption, LogsAssumption, NEW b \in Given, NEW e \in ToSet(EntitiesOf(b)),
           e.key \in RecordKeys
    PROVE  \E o : Recorded(e.key, e.text, o)
<1>1. CASE b.kind \in {"structured", "fact"}
  <2>1. b \in Batches
    BY <1>1, PartsAre DEF Given, ToSet
  <2> QED
    BY <1>1, <2>1 DEF LogsAssumption, KeysApart
<1>2. CASE b.kind = "history" /\ HistoryData(b) /\ b \in Histories
  <2>1. e \in ToSet(HistoryEntities(b))
    BY <1>2, KindsOf
  <2>2. PICK r \in ToSet(Rows(b)) : \/ e = Entity(r.key, "ours", r.text, TRUE)
                                    \/ e = Entity(r.project, "ours", r.spelling, FALSE)
    BY <1>2, <2>1, RowEntities
  <2>3. \/ e.key = r.key /\ e.text = r.text
        \/ e.key = r.project
    BY <2>2 DEF Entity
  <2>4. CASE r \in ToSet(b.rows)
    BY <1>2, <2>3, <2>4 DEF LogsAssumption, KeysApart
  <2>5. CASE r \notin ToSet(b.rows)
    <3>1. PICK i \in DOMAIN filtered(b.lines) :
             /\ filtered(b.lines)[i] \in ToSet(b.lines)
             /\ r.key = LedgerKeys[b.prefix][i]
             /\ r.text = filtered(b.lines)[i].text
             /\ r.project = filtered(b.lines)[i].project
      BY <1>2, <2>5, RowsAre
    <3>2. r.project \notin RecordKeys
      BY <1>2, <3>1 DEF LogsAssumption, KeysApart
    <3>3. Recorded(e.key, e.text, r.project)
      BY <1>2, <2>3, <3>1, <3>2 DEF Recorded
    <3> QED
      BY <3>3
  <2> QED
    BY <2>4, <2>5
<1> QED
  BY <1>1, <1>2, GivenKinds

LEMMA LedgerSpecs ==
    ASSUME BatchesAssumption, LogsAssumption, NEW b \in Given, NEW e \in ToSet(SpecsOf(b))
    PROVE  Filed(e)
<1> SUFFICES ASSUME e.s \in RecordKeys, e.rel = "PART_OF"
             PROVE  \E text : Recorded(e.s, text, e.o)
  BY DEF Filed
<1>1. CASE b.kind \in {"structured", "fact"}
  <2>1. b \in Batches
    BY <1>1, PartsAre DEF Given, ToSet
  <2> QED
    BY <1>1, <2>1 DEF LogsAssumption, KeysApart
<1>2. CASE b.kind = "history" /\ HistoryData(b) /\ b \in Histories
  <2>1. SpecsOf(b) = [i \in DOMAIN Rows(b) |-> Spec(Rows(b)[i].key, "PART_OF", Rows(b)[i].project)]
    BY <1>2, KindsOf DEF HistorySpecs, Map
  <2>2. PICK i \in DOMAIN Rows(b) : e = Spec(Rows(b)[i].key, "PART_OF", Rows(b)[i].project)
    BY <2>1 DEF ToSet
  <2> DEFINE r == Rows(b)[i]
  <2>3. e.s = r.key /\ e.o = r.project /\ r \in ToSet(Rows(b))
    BY <2>2 DEF Spec, ToSet
  <2>4. CASE r \in ToSet(b.rows)
    BY <1>2, <2>3, <2>4 DEF LogsAssumption, KeysApart
  <2>5. CASE r \notin ToSet(b.rows)
    <3>1. PICK m \in DOMAIN filtered(b.lines) :
             /\ r.key = LedgerKeys[b.prefix][m]
             /\ r.text = filtered(b.lines)[m].text
             /\ r.project = filtered(b.lines)[m].project
      <4> HIDE DEF r
      <4> QED
        BY <1>2, <2>3, <2>5, RowsAre
    <3>2. Recorded(e.s, r.text, e.o)
      BY <1>2, <2>3, <3>1 DEF Recorded
    <3> QED
      BY <3>2
  <2> QED
    BY <2>4, <2>5
<1> QED
  BY <1>1, <1>2, GivenKinds

\* One part after the other: the next does not undo the one before.
LEMMA PartsStay ==
    ASSUME BatchesAssumption, LogsAssumption, NEW n, Nodes(n), NEW real \in Batches, real.kind = "real",
           NEW b \in ToSet(Parts(real)), NEW c \in ToSet(Parts(real)), InPlace(n, b) \/ b = c
    PROVE  InPlace(UpsertedAll(n, EntitiesOf(c)), b)
<1> SUFFICES ASSUME NEW r \in ToSet(Rows(b))
             PROVE  UpsertedAll(n, EntitiesOf(c))[r.key].text = r.text
  BY DEF InPlace
<1>1. b \in Histories /\ c \in Histories
  BY DEF Histories
<1>2. HistoryData(b) /\ HistoryData(c) /\ c.kind = "history" /\ c \in Given
  BY <1>1, HistoriesHold
<1>3. r.key \in Keys
  BY <1>2, RowsTyped
<1> DEFINE es == EntitiesOf(c)
<1>4. PICK X : es \in Seq(X)
  BY <1>2, EntitiesGiven
<1>5. ASSUME NEW e \in ToSet(es), e.key = r.key PROVE e.text = r.text
  <2>1. e \in ToSet(HistoryEntities(c))
    BY <1>2, KindsOf
  <2>2. PICK q \in ToSet(Rows(c)) : \/ e = Entity(q.key, "ours", q.text, TRUE)
                                    \/ e = Entity(q.project, "ours", q.spelling, FALSE)
    BY <1>2, <2>1, RowEntities
  <2>3. \/ e.key = q.key /\ e.text = q.text
        \/ e.key = q.project
    BY <2>2 DEF Entity
  <2>4. r.key # q.project /\ (r.key = q.key => r.text = q.text)
    BY DEF LogsAssumption, RowsApart, ToSet
  <2> QED
    BY <1>5, <2>3, <2>4
<1>6. CASE \E e \in ToSet(es) : e.key = r.key /\ UpsertedAll(n, es)[r.key].text = e.text
  BY <1>5, <1>6
<1>7. CASE /\ UpsertedAll(n, es)[r.key].text = n[r.key].text
           /\ \A e \in ToSet(es) : e.key # r.key
  <2>1. b # c
    <3>1. ASSUME b = c PROVE FALSE
      <4>1. Entity(r.key, "ours", r.text, TRUE) \in ToSet(es)
        BY <1>2, <3>1, RowEntities, KindsOf
      <4>2. Entity(r.key, "ours", r.text, TRUE).key = r.key
        BY DEF Entity
      <4> QED
        BY <1>7, <4>1, <4>2
    <3> QED
      BY <3>1
  <2> QED
    BY <1>7, <2>1 DEF InPlace
<1> HIDE DEF es
<1> QED
  BY <1>3, <1>4, <1>6, <1>7, UpsertedTexts

\* What does not change a text changes nothing.
SameTexts(n, m) == \A k \in Keys : m[k].text = n[k].text

LEMMA TextsStay ==
    ASSUME BatchesAssumption, NEW n, NEW m, SameTexts(n, m)
    PROVE  /\ Texted(n) => Texted(m)
           /\ \A j \in Job : Tracked(j, n) => Tracked(j, m)
<1>1. Texted(n) => Texted(m)
  BY DEF Texted, SameTexts
<1>2. ASSUME NEW j \in Job, Tracked(j, n) PROVE Tracked(j, m)
  <2> SUFFICES ASSUME j.real.kind = "real", Underway(j, n) PROVE Underway(j, m)
    BY <1>2 DEF Tracked
  <2>1. j.real \in Batches
    BY DEF Job, None
  <2>2. ASSUME NEW b \in ToSet(Parts(j.real)), InPlace(n, b) PROVE InPlace(m, b)
    <3>1. HistoryData(b)
      BY <2>1, HistoriesHold DEF Histories
    <3> QED
      BY <2>2, <3>1, RowsTyped DEF InPlace, SameTexts
  <2> QED
    BY <2>2 DEF Underway
<1> QED
  BY <1>1, <1>2

\* Who is disturbed has nothing to keep.
LEMMA DisturbedTracked ==
    ASSUME NEW j \in Job, NEW n, NEW m, Tracked(j, n)
    PROVE  Tracked([j EXCEPT !.disturbed = TRUE], m)
<1> DEFINE c == [j EXCEPT !.disturbed = TRUE]
<1>1. /\ c.disturbed = TRUE /\ c.at = j.at /\ c.batch = j.batch /\ c.todo = j.todo
      /\ c.real = j.real /\ c.more = j.more /\ c.said = j.said
  BY DEF Job
<1> HIDE DEF c
<1>2. Tracked(c, m)
  BY <1>1 DEF Tracked, Underway
<1> QED
  BY <1>2 DEF c

LEMMA HeadIn ==
    ASSUME NEW X, NEW s \in Seq(X), s # <<>>
    PROVE  ToSet(s) = {Head(s)} \cup ToSet(Tail(s))
<1>1. Len(s) \in Nat \ {0} /\ DOMAIN s = 1..Len(s)
  BY LenProperties, EmptySeq
<1>2. /\ Head(s) = s[1] /\ Len(Tail(s)) = Len(s) - 1 /\ DOMAIN Tail(s) = 1..Len(Tail(s))
      /\ \A i \in 1..Len(Tail(s)) : Tail(s)[i] = s[i + 1]
  BY HeadTailProperties, LenProperties
<1>3. \A i \in 1..Len(s) : i = 1 \/ (i - 1 \in 1..Len(Tail(s)) /\ Tail(s)[i - 1] = s[i])
  <2> SUFFICES ASSUME NEW i \in 1..Len(s), i # 1 PROVE i - 1 \in 1..Len(Tail(s)) /\ Tail(s)[i - 1] = s[i]
    OBVIOUS
  <2>1. i - 1 \in 1..Len(Tail(s)) /\ (i - 1) + 1 = i
    BY <1>1, <1>2
  <2> QED
    BY <1>2, <2>1
<1>4. \A i \in 1..Len(Tail(s)) : i + 1 \in 1..Len(s)
  BY <1>1, <1>2
<1>5. 1 \in DOMAIN s
  BY <1>1
<1> DEFINE t == Tail(s)
<1>6. /\ DOMAIN t = 1..Len(t) /\ \A i \in 1..Len(t) : t[i] = s[i + 1]
      /\ \A i \in 1..Len(s) : i = 1 \/ (i - 1 \in 1..Len(t) /\ t[i - 1] = s[i])
      /\ \A i \in 1..Len(t) : i + 1 \in DOMAIN s
  BY <1>1, <1>2, <1>3, <1>4
<1> HIDE DEF t
<1>7. ToSet(s) \subseteq {s[1]} \cup ToSet(t)
  BY <1>1, <1>6 DEF ToSet
<1>8. {s[1]} \cup ToSet(t) \subseteq ToSet(s)
  BY <1>5, <1>6 DEF ToSet
<1> QED
  BY <1>2, <1>7, <1>8 DEF t

LEMMA GoesTracked ==
    ASSUME BatchesAssumption, KInv, LInv, NEW p \in Procs, NEW c, Goes(p, c),
           SameTexts(node, node'), UNCHANGED facts, Tracked(c, node')
    PROVE  LInv'
<1>1. \A q \in Procs : job'[q] = IF q = p THEN c ELSE job[q]
  BY DEF Goes, KInv, Typed
<1>2. Texted(node') /\ \A q \in Procs : job[q] \in Job /\ Tracked(job[q], node')
  BY TextsStay DEF KInv, Typed, LInv, Files
<1>3. \A q \in Procs : Tracked(job'[q], node')
  BY <1>1, <1>2
<1>4. \A f \in facts' : Filed(f)
  BY DEF LInv, Files
<1> QED
  BY <1>2, <1>3, <1>4 DEF LInv, Files

LEMMA WritesTracked ==
    ASSUME KInv, LInv, NEW p \in Procs, NEW c, job' = [Disturbing(p) EXCEPT ![p] = c],
           Files', Tracked(c, node')
    PROVE  LInv'
<1>1. \A q \in Procs : job'[q] = IF q = p THEN c ELSE [job[q] EXCEPT !.disturbed = TRUE]
  BY DEF Disturbing
<1>2. \A q \in Procs : job[q] \in Job /\ Tracked(job[q], node)
  BY DEF KInv, Typed, LInv
<1>3. ASSUME NEW q \in Procs PROVE Tracked(job'[q], node')
  <2>1. CASE q = p
    BY <1>1, <2>1
  <2>2. CASE q # p
    <3>1. Tracked([job[q] EXCEPT !.disturbed = TRUE], node')
      BY <1>2, DisturbedTracked
    <3> QED
      BY <1>1, <2>2, <3>1
  <2> QED
    BY <2>1, <2>2
<1> QED
  BY <1>3 DEF LInv

LEMMA BeginLInv ==
    ASSUME BatchesAssumption, KInv, LInv, NEW p \in Procs, NEW b \in Batches, Starts(p, b)
    PROVE  LInv'
<1>1. SameTexts(node, node') /\ UNCHANGED facts
  BY DEF Starts, Begin, BeginReal, SameTexts
<1>2. CASE b.kind # "real"
  <2> DEFINE again == job[p].batch = b /\ job[p].at = "halted"
             c == [Resting EXCEPT !.at = "entities", !.batch = b,
                                  !.base = IF again THEN job[p].base ELSE facts,
                                  !.disturbed = again /\ job[p].disturbed]
  <2>1. Goes(p, c)
    BY <1>2 DEF Starts, Begin
  <2>2. c.at = "entities" /\ c.todo = <<>> /\ c.real.kind = None /\ c.said = None
    BY DEF Resting
  <2> HIDE DEF c
  <2>3. Tracked(c, node')
    BY <2>2 DEF Tracked, ToSet, None
  <2> QED
    BY <1>1, <2>1, <2>3, GoesTracked
<1>3. CASE b.kind = "real"
  <2> DEFINE parts == Parts(b)
             c == [Resting EXCEPT !.at = "entities", !.batch = Head(parts), !.base = facts,
                                  !.real = b, !.more = Tail(parts)]
  <2>1. Goes(p, c)
    BY <1>3 DEF Starts, BeginReal
  <2>2. /\ c.at = "entities" /\ c.todo = <<>> /\ c.real = b /\ c.said = None
        /\ c.batch = Head(parts) /\ c.more = Tail(parts)
    BY DEF Resting
  <2>3. Head(parts) \in ToSet(parts) /\ ToSet(parts) = {Head(parts)} \cup ToSet(Tail(parts))
    <3> DEFINE x == parts[1]
               y == parts[2]
               z == parts[3]
    <3>1. parts = <<x, y, z>>
      BY DEF Parts
    <3> HIDE DEF x, y, z, parts
    <3>2. Head(parts) = x /\ Tail(parts) = <<y, z>>
      BY <3>1
    <3>3. ToSet(parts) = {x, y, z}
      BY <3>1 DEF ToSet
    <3>4. ToSet(<<y, z>>) = {y, z}
      BY DEF ToSet
    <3> QED
      BY <3>2, <3>3, <3>4
  <2> HIDE DEF c, parts
  <2>4. Underway(c, node')
    BY <2>2, <2>3 DEF Underway, parts
  <2>5. Tracked(c, node')
    BY <1>3, <2>2, <2>4 DEF Tracked, ToSet
  <2> QED
    BY <1>1, <2>1, <2>5, GoesTracked
<1> QED
  BY <1>2, <1>3

LEMMA EntitiesLInv ==
    ASSUME BatchesAssumption, LogsAssumption, KInv, LInv, NEW p \in Procs, Entities(p)
    PROVE  LInv'
<1> DEFINE j == job[p]
           b == j.batch
           es == EntitiesOf(b)
           foreign == \E i \in DOMAIN es : node[es[i].key].ns \notin {None, es[i].ns}
<1>0. j \in Job /\ j.at = "entities" /\ UNCHANGED facts /\ Tracked(j, node) /\ b \in Given /\ Nodes(node)
  BY DEF KInv, Typed, LInv, Kept, Entities
<1>1. CASE foreign
  <2> DEFINE c == [j EXCEPT !.at = "halted"]
  <2>1. Goes(p, c) /\ SameTexts(node, node')
    BY <1>1 DEF Entities, SameTexts
  <2>2. c.at = "halted" /\ c.todo = j.todo /\ c.real = j.real /\ c.said = j.said
    BY <1>0 DEF Job
  <2> HIDE DEF c
  <2>3. Tracked(c, node')
    BY <1>0, <2>2 DEF Tracked
  <2> QED
    BY <1>0, <2>1, <2>3, GoesTracked
<1>2. CASE ~foreign
  <2> DEFINE c == [j EXCEPT !.at = "edges", !.todo = SpecsOf(b)]
  <2>1. node' = UpsertedAll(node, es) /\ job' = [Disturbing(p) EXCEPT ![p] = c]
    BY <1>2 DEF Entities
  <2>2. /\ c.at = "edges" /\ c.todo = SpecsOf(b) /\ c.real = j.real /\ c.said = j.said
        /\ c.batch = b /\ c.more = j.more /\ c.disturbed = j.disturbed
    BY <1>0 DEF Job
  <2> HIDE DEF c
  <2>3. Texted(node')
    <3>1. PICK X : es \in Seq(X)
      BY <1>0, EntitiesGiven
    <3> SUFFICES ASSUME NEW k \in Keys \cap RecordKeys
                 PROVE  node'[k].text \in {None, "plain", "other"} \/ \E o : Recorded(k, node'[k].text, o)
      BY DEF Texted
    <3>2. CASE node'[k].text = node[k].text
      BY <3>2 DEF LInv, Files, Texted
    <3>3. CASE \E e \in ToSet(es) : e.key = k /\ node'[k].text = e.text
      BY <1>0, <3>3, LedgerEntities
    <3> HIDE DEF es
    <3> QED
      BY <1>0, <2>1, <3>1, <3>2, <3>3, UpsertedTexts
  <2>4. Files'
    BY <1>0, <2>3 DEF LInv, Files
  <2>5. \A e \in ToSet(c.todo) : Filed(e)
    BY <1>0, <2>2, LedgerSpecs
  <2>6. ASSUME j.real.kind = "real" PROVE Underway(c, node')
    <3>1. j.real \in Batches /\ Underway(j, node)
      BY <1>0, <2>6 DEF Job, None, Tracked
    <3>2. ASSUME NEW d \in ToSet(Parts(j.real)), InPlace(node, d) \/ d = b PROVE InPlace(node', d)
      <4>1. b \in ToSet(Parts(j.real))
        BY <3>1 DEF Underway
      <4> QED
        BY <1>0, <2>1, <2>6, <3>1, <3>2, <4>1, PartsStay
    <3> QED
      BY <1>0, <2>2, <3>1, <3>2 DEF Underway
  <2>7. Tracked(c, node')
    BY <1>0, <2>2, <2>5, <2>6 DEF Tracked
  <2> QED
    BY <2>1, <2>4, <2>7, WritesTracked
<1> QED
  BY <1>1, <1>2

LEMMA GuardReadLInv ==
    ASSUME BatchesAssumption, KInv, LInv, NEW p \in Procs, GuardRead(p)
    PROVE  LInv'
<1> DEFINE j == job[p]
           c == [j EXCEPT !.at = "guarded", !.seen = facts]
<1>0. j \in Job /\ j.at = "edges" /\ UNCHANGED facts /\ SameTexts(node, node') /\ Tracked(j, node') /\ Goes(p, c)
  BY DEF KInv, Typed, LInv, GuardRead, SameTexts
<1>1. /\ c.at = "guarded" /\ c.todo = j.todo /\ c.real = j.real /\ c.said = j.said
      /\ c.batch = j.batch /\ c.more = j.more /\ c.disturbed = j.disturbed
  BY <1>0 DEF Job
<1> HIDE DEF c
<1>2. Tracked(c, node')
  BY <1>0, <1>1 DEF Tracked, Underway
<1> QED
  BY <1>0, <1>2, GoesTracked

LEMMA ApplyLInv ==
    ASSUME BatchesAssumption, KInv, LInv, NEW p \in Procs, Apply(p)
    PROVE  LInv'
<1> DEFINE j == job[p]
           todo == j.todo
           e == Head(todo)
           c == [j EXCEPT !.at = "edges", !.todo = Tail(@), !.seen = {}, !.dead = @ \cup Dead(e, j.seen)]
<1>0. /\ j \in Job /\ j.at \in {"edges", "guarded"} /\ todo # <<>> /\ node' = node /\ Tracked(j, node')
      /\ facts' = Tried(Live, facts, j.seen, e)
      /\ job' = [Disturbing(p) EXCEPT ![p] = c]
  BY DEF KInv, Typed, LInv, Kept, Apply
<1>1. e \in ToSet(todo) /\ ToSet(Tail(todo)) \subseteq ToSet(todo)
  <2>1. todo \in Seq(Edges) /\ todo # <<>>
    BY <1>0 DEF Job
  <2> HIDE DEF todo
  <2> QED
    BY <2>1, HeadIn
<1>2. /\ c.at = "edges" /\ c.todo = Tail(todo) /\ c.real = j.real /\ c.said = j.said
      /\ c.batch = j.batch /\ c.more = j.more /\ c.disturbed = j.disturbed
  BY <1>0 DEF Job
<1> HIDE DEF c
<1>3. \A d \in ToSet(todo) : Filed(d)
  BY <1>0 DEF Tracked
<1>4. Files'
  <2>1. \A f \in facts' : f \in facts \/ f = e
    BY <1>0, TriedOne
  <2> QED
    BY <1>0, <1>1, <1>3, <2>1 DEF LInv, Files
<1>5. Tracked(c, node')
  <2> HIDE DEF todo, e
  <2> QED
    BY <1>0, <1>1, <1>2, <1>3 DEF Tracked, Underway
<1> QED
  BY <1>0, <1>4, <1>5, WritesTracked

LEMMA ReturnLInv ==
    ASSUME BatchesAssumption, KInv, LInv, NEW p \in Procs, Return(p)
    PROVE  LInv'
<1> DEFINE j == job[p]
           more == j.more
<1>0. /\ j \in Job /\ j.at = "edges" /\ j.todo = <<>> /\ UNCHANGED facts
      /\ SameTexts(node, node') /\ Tracked(j, node')
  BY DEF KInv, Typed, LInv, Return, SameTexts
<1>1. CASE more # <<>>
  <2> DEFINE c == [j EXCEPT !.at = "entities", !.batch = Head(more), !.more = Tail(@),
                            !.base = facts, !.dead = {}]
  <2>1. Goes(p, c)
    BY <1>1 DEF Return
  <2>2. ToSet(more) = {Head(more)} \cup ToSet(Tail(more))
    <3>1. more \in Seq(Given)
      BY <1>0 DEF Job
    <3> HIDE DEF more
    <3> QED
      BY <1>1, <3>1, HeadIn
  <2>3. /\ c.at = "entities" /\ c.todo = j.todo /\ c.real = j.real /\ c.said = j.said
        /\ c.batch = Head(more) /\ c.more = Tail(more) /\ c.disturbed = j.disturbed
    BY <1>0 DEF Job
  <2> HIDE DEF c
  <2>4. ASSUME j.real.kind = "real" PROVE Underway(c, node')
    <3>1. Underway(j, node')
      BY <1>0, <2>4 DEF Tracked
    <3> QED
      BY <1>0, <2>2, <2>3, <3>1 DEF Underway
  <2>5. Tracked(c, node')
    BY <1>0, <2>3, <2>4 DEF Tracked
  <2> QED
    BY <1>0, <2>1, <2>5, GoesTracked
<1>2. CASE more = <<>>
  <2> DEFINE c == [j EXCEPT !.at = IF j.real.kind = None THEN "done" ELSE "embed"]
  <2>1. Goes(p, c)
    BY <1>2 DEF Return
  <2>2. /\ c.at = IF j.real.kind = None THEN "done" ELSE "embed"
        /\ c.todo = j.todo /\ c.real = j.real /\ c.said = j.said
        /\ c.batch = j.batch /\ c.more = j.more /\ c.disturbed = j.disturbed
    BY <1>0 DEF Job
  <2> HIDE DEF c
  <2>3. ASSUME j.real.kind = "real" PROVE Underway(c, node')
    <3>1. Underway(j, node')
      BY <1>0, <2>3 DEF Tracked
    <3> QED
      BY <1>0, <1>2, <2>2, <3>1 DEF Underway
  <2>4. Tracked(c, node')
    BY <1>0, <2>2, <2>3 DEF Tracked, None
  <2> QED
    BY <1>0, <2>1, <2>4, GoesTracked
<1> QED
  BY <1>1, <1>2

LEMMA HaltLInv ==
    ASSUME BatchesAssumption, KInv, LInv, NEW p \in Procs, Halt(p)
    PROVE  LInv'
<1> DEFINE j == job[p]
           c == [j EXCEPT !.at = "halted", !.todo = <<>>, !.dead = {}, !.seen = {}, !.more = <<>>]
<1>0. j \in Job /\ UNCHANGED facts /\ SameTexts(node, node') /\ Tracked(j, node') /\ Goes(p, c)
  BY DEF KInv, Typed, LInv, Halt, SameTexts
<1>1. c.at = "halted" /\ c.todo = <<>> /\ c.real = j.real /\ c.said = j.said
  BY <1>0 DEF Job
<1> HIDE DEF c
<1>2. Tracked(c, node')
  BY <1>0, <1>1 DEF Tracked, ToSet
<1> QED
  BY <1>0, <1>2, GoesTracked

LEMMA ProveLInv ==
    ASSUME BatchesAssumption, KInv, LInv, NEW p \in Procs, Prove(p)
    PROVE  LInv'
<1> DEFINE j == job[p]
<1>0. j \in Job /\ j.at = "prove" /\ UNCHANGED facts /\ SameTexts(node, node') /\ Tracked(j, node')
  BY DEF KInv, Typed, LInv, Prove, SameTexts
<1>1. PICK said \in {"OK", "FAIL"} : Goes(p, [j EXCEPT !.at = "done", !.said = said])
  BY DEF Prove
<1> DEFINE c == [j EXCEPT !.at = "done", !.said = said]
<1>2. /\ c.at = "done" /\ c.todo = j.todo /\ c.real = j.real
      /\ c.batch = j.batch /\ c.more = j.more /\ c.disturbed = j.disturbed
  BY <1>0 DEF Job
<1>3. Goes(p, c)
  BY <1>1
<1> HIDE DEF c
<1>4. Tracked(c, node')
  BY <1>0, <1>2 DEF Tracked, Underway
<1> QED
  BY <1>0, <1>3, <1>4, GoesTracked

LEMMA EmbedPassLInv ==
    ASSUME BatchesAssumption, KInv, LInv, NEW p \in Procs, EmbedPass(p)
    PROVE  LInv'
<1> DEFINE j == job[p]
           c == [j EXCEPT !.at = "prove"]
<1>0. j \in Job /\ j.at = "embed" /\ UNCHANGED facts /\ Tracked(j, node) /\ Goes(p, c)
  BY DEF KInv, Typed, LInv, EmbedPass
<1>1. SameTexts(node, node')
  <2>1. \A k \in Keys : node'[k] \in {Embedded(node[k]), node[k]}
    BY DEF EmbedPass
  <2> QED
    BY <2>1, EmbeddedIs DEF SameTexts
<1>2. /\ c.at = "prove" /\ c.todo = j.todo /\ c.real = j.real /\ c.said = j.said
      /\ c.batch = j.batch /\ c.more = j.more /\ c.disturbed = j.disturbed
  BY <1>0 DEF Job
<1> HIDE DEF c
<1>3. Tracked(j, node')
  BY <1>0, <1>1, TextsStay
<1>4. Tracked(c, node')
  BY <1>0, <1>2, <1>3 DEF Tracked, Underway
<1> QED
  BY <1>0, <1>1, <1>4, GoesTracked

LEMMA OthersLInv ==
    ASSUME BatchesAssumption, ProcsAssumption, KInv, LInv, Others
    PROVE  LInv'
<1>0. Nodes(node) /\ job \in [Procs -> Job] /\ \A q \in Procs : Tracked(job[q], node)
  BY DEF KInv, Typed, LInv
<1>1. ASSUME NEW k \in Keys, Embed(k) PROVE LInv'
  <2>1. node' = [node EXCEPT ![k] = Embedded(node[k])] /\ UNCHANGED <<facts, job>>
    BY <1>1 DEF Embed
  <2>2. SameTexts(node, node')
    <3>1. \A h \in Keys : node'[h] = IF h = k THEN Embedded(node[k]) ELSE node[h]
      BY <1>0, <2>1 DEF Nodes
    <3> QED
      BY <3>1, EmbeddedIs DEF SameTexts
  <2>3. Texted(node') /\ \A q \in Procs : Tracked(job[q], node')
    BY <1>0, <2>2, TextsStay DEF LInv, Files
  <2> QED
    BY <2>1, <2>3 DEF LInv, Files
<1>2. ASSUME NEW k \in Keys, Erase(k) \/ Claim(k) PROVE LInv'
  <2>1. /\ \A h \in Keys : node'[h].text \in {None, "other", node[h].text}
        /\ facts' \subseteq facts /\ job' = Disturbing(None)
    <3>1. Absent.text = None /\ Unembedded("other", "other").text = "other"
      BY DEF Absent, Unembedded
    <3>2. CASE Erase(k)
      <4>1. node' = [node EXCEPT ![k] = Absent] /\ facts' \subseteq facts /\ job' = Disturbing(None)
        BY <3>2 DEF Erase
      <4>2. \A h \in Keys : node'[h] = IF h = k THEN Absent ELSE node[h]
        BY <1>0, <4>1 DEF Nodes
      <4> QED
        BY <3>1, <4>1, <4>2
    <3>3. CASE Claim(k)
      <4>1. /\ node' = [node EXCEPT ![k] = Unembedded("other", "other")]
            /\ facts' = facts /\ job' = Disturbing(None)
        BY <3>3 DEF Claim
      <4>2. \A h \in Keys : node'[h] = IF h = k THEN Unembedded("other", "other") ELSE node[h]
        BY <1>0, <4>1 DEF Nodes
      <4> QED
        BY <3>1, <4>1, <4>2
    <3> QED
      BY <1>2, <3>2, <3>3
  <2>2. Files'
    <3>1. Texted(node')
      BY <2>1 DEF LInv, Files, Texted
    <3> QED
      BY <2>1, <3>1 DEF LInv, Files
  <2>3. ASSUME NEW q \in Procs PROVE Tracked(job'[q], node')
    <3>1. job'[q] = [job[q] EXCEPT !.disturbed = TRUE]
      BY <2>1 DEF Disturbing, ProcsAssumption
    <3>2. job[q] \in Job /\ Tracked(job[q], node)
      BY <1>0
    <3>3. Tracked([job[q] EXCEPT !.disturbed = TRUE], node')
      BY <3>2, DisturbedTracked
    <3> QED
      BY <3>1, <3>3
  <2> QED
    BY <2>2, <2>3 DEF LInv
<1> QED
  BY <1>1, <1>2 DEF Others

LEMMA InitLInv == IngestInit => LInv
<1> SUFFICES ASSUME IngestInit PROVE LInv
  OBVIOUS
<1>1. /\ Resting.at = "rest" /\ Resting.todo = <<>> /\ Resting.real.kind = None /\ Resting.said = None
  BY DEF Resting
<1>2. \A p \in Procs : Tracked(job[p], node)
  <2>1. Tracked(Resting, node)
    BY <1>1 DEF Tracked, ToSet, None
  <2> QED
    BY <2>1 DEF IngestInit
<1>3. Absent.text = None /\ Plain.text = "plain"
  BY DEF Absent, Plain, Unembedded
<1>4. \A k \in Keys : node[k] \in {Absent, Plain}
  BY DEF IngestInit
<1> QED
  BY <1>2, <1>3, <1>4 DEF LInv, Files, Texted, IngestInit

LEMMA NextLInv ==
    ASSUME BatchesAssumption, ProcsAssumption, LogsAssumption, KInv, LInv, [IngestNext]_ivars
    PROVE  LInv'
<1>1. ASSUME NEW p \in Procs, Proceeds(p) PROVE LInv'
  BY <1>1, EntitiesLInv, GuardReadLInv, ApplyLInv, ReturnLInv, EmbedPassLInv, ProveLInv DEF Proceeds
<1>2. CASE UNCHANGED ivars
  BY <1>2 DEF ivars, LInv, Files
<1> QED
  BY <1>1, <1>2, BeginLInv, HaltLInv, OthersLInv DEF IngestNext

LEMMA RecordsFiled ==
    ASSUME BatchesAssumption, LogsAssumption, KInv, LInv, NEW f \in facts, NEW b \in Histories,
           NEW i \in DOMAIN b.lines, f.s \in ToSet(LedgerKeys[b.prefix]), f.rel = "PART_OF",
           node[f.s].text = b.lines[i].text
    PROVE  f.o = b.lines[i].project
<1> DEFINE l == b.lines[i]
           text == node[f.s].text
<1>1. l \in ToSet(b.lines)
  BY DEF ToSet
<1>2. f.s \in Keys /\ f.s \in RecordKeys
  BY DEF KInv, Typed, Edges, RecordKeys, LogsAssumption, KeysApart
<1>3. PICK g \in Histories : \E x \in DOMAIN filtered(g.lines) :
        f.s = LedgerKeys[g.prefix][x] /\ f.o = filtered(g.lines)[x].project
  <2>1. \E t : Recorded(f.s, t, f.o)
    BY <1>2 DEF LInv, Files, Filed
  <2> QED
    BY <2>1 DEF Recorded
<1>4. PICK m \in DOMAIN filtered(g.lines) :
        f.s = LedgerKeys[g.prefix][m] /\ f.o = filtered(g.lines)[m].project
  BY <1>3
<1>5. text \notin {None, "plain", "other"}
  BY <1>1 DEF LogsAssumption, OnlyGrows
<1>6. PICK h \in Histories : \E x \in DOMAIN filtered(h.lines) :
        f.s = LedgerKeys[h.prefix][x] /\ text = filtered(h.lines)[x].text
  <2>1. \E o : Recorded(f.s, text, o)
    BY <1>2, <1>5 DEF LInv, Files, Texted
  <2> HIDE DEF text
  <2> QED
    BY <2>1 DEF Recorded
<1>7. PICK n \in DOMAIN filtered(h.lines) :
        f.s = LedgerKeys[h.prefix][n] /\ text = filtered(h.lines)[n].text
  BY <1>6
<1>8. g.prefix = h.prefix /\ m = n
  <2> DEFINE x == g.prefix
             y == h.prefix
  <2>1. {x, y} \subseteq DOMAIN LedgerKeys /\ m \in DOMAIN LedgerKeys[x] /\ n \in DOMAIN LedgerKeys[y]
    BY DEF LogsAssumption, KeysApart
  <2>2. LedgerKeys[x][m] = LedgerKeys[y][n]
    BY <1>4, <1>7
  <2> HIDE DEF x, y
  <2>3. x = y /\ m = n
    BY <2>1, <2>2 DEF LogsAssumption, KeysApart
  <2> QED
    BY <2>3 DEF x, y
<1>9. filtered(g.lines)[m].text = text
  BY <1>4, <1>7, <1>8 DEF LogsAssumption, OnlyGrows
<1>10. filtered(g.lines)[m] \in ToSet(g.lines)
  <2> DEFINE good == filtered(g.lines)
  <2>1. good \in Seq(ToSet(g.lines))
    BY HistoriesHold DEF HistoryData
  <2> HIDE DEF good
  <2>2. \A x \in DOMAIN good : good[x] \in ToSet(g.lines)
    BY <2>1, LenProperties, ElementOfSeq
  <2> QED
    BY <2>2 DEF good
<1> QED
  BY <1>1, <1>4, <1>9, <1>10 DEF LogsAssumption, OnlyGrows

\* A target of a run is a row of one of its parts.
LEMMA TargetsAreRows ==
    ASSUME BatchesAssumption, NEW real \in Batches, real.kind = "real", NEW r \in Targets(real)
    PROVE  \E b \in ToSet(Parts(real)) : r \in ToSet(Rows(b))
<1> DEFINE P == Parts(real)
<1>1. P[1].rows = real.engram /\ P[2].rows = real.claude_mem
  BY DEF Parts
<1>2. {P[1], P[2], P[3]} \subseteq ToSet(P)
  BY PartsAre DEF ToSet
<1>3. \A b \in ToSet(P) : ToSet(b.rows) \subseteq ToSet(Rows(b))
  <2> SUFFICES ASSUME NEW b \in ToSet(P) PROVE ToSet(b.rows) \subseteq ToSet(Rows(b))
    OBVIOUS
  <2>1. HistoryData(b)
    BY HistoriesHold DEF Histories
  <2> QED
    BY <2>1, RowsAre
<1>4. \A rows : Sample(rows) \subseteq ToSet(rows)
  BY DEF Sample, ToSet
<1>5. r \in ToSet(P[1].rows) \/ r \in ToSet(P[2].rows) \/ r \in ToSet(Rows(P[3]))
  <2>1. r \in Sample(real.engram) \/ r \in Sample(real.claude_mem) \/ r \in Sample(Rows(P[3]))
    BY DEF Targets
  <2> QED
    BY <1>1, <1>4, <2>1
<1> QED
  BY <1>2, <1>3, <1>5

LEMMA FoundAgain ==
    ASSUME BatchesAssumption, KInv, LInv, NEW p \in Procs, job[p].at = "done", job[p].said # None,
           ~job[p].disturbed, NEW r \in Targets(job[p].real)
    PROVE  node[r.key].text = r.text
<1> DEFINE j == job[p]
<1>1. j \in Job /\ Tracked(j, node)
  BY DEF KInv, Typed, LInv
<1>2. j.real.kind = "real" /\ Underway(j, node)
  BY <1>1 DEF Tracked
<1>3. j.real \in Batches
  BY <1>1, <1>2 DEF Job, None
<1>4. ToSet(j.more) = {}
  BY <1>2 DEF Underway, ToSet
<1>5. PICK b \in ToSet(Parts(j.real)) : r \in ToSet(Rows(b))
  BY <1>2, <1>3, TargetsAreRows
<1>6. InPlace(node, b)
  BY <1>2, <1>4, <1>5 DEF Underway
<1> QED
  BY <1>5, <1>6 DEF InPlace

LEMMA LedgerStays ==
    BatchesAssumption /\ LogsAssumption /\ KInv /\ LInv => LedgerStaysPut
BY RecordsFiled, FoundAgain DEF LedgerStaysPut

\* A ledger's node and its edge come from one record, and a run of _real that
\* nobody disturbs finds under the key of each target what it read, over all
\* halts, runs and growing files (_filter_ledger_records, "can never desync").
THEOREM LedgerTheorem == IngestSpec => []LedgerStaysPut
<1>1. KInv /\ LInv /\ [IngestNext]_ivars => (KInv /\ LInv)'
  BY NextKInv, NextLInv, BatchesAssumption, ProcsAssumption, LogsAssumption
<1>2. KInv /\ LInv => LedgerStaysPut
  BY LedgerStays, BatchesAssumption, LogsAssumption
<1> QED
  BY <1>1, <1>2, InitKInv, InitLInv, PTL DEF IngestSpec

=============================================================================

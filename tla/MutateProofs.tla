---------------------------- MODULE MutateProofs ----------------------------
(* Theorems of Mutate, for every set of keys, namespaces, facts and clock     *)
(* readings.                                                                  *)
EXTENDS Mutate, TLAPS

-----------------------------------------------------------------------------
(* The rule table                                                             *)

\* A functional relation of relations.yaml either evicts or rejects, and a
\* set-snapshot relation is not functional.
LEMMA RulesCover ==
    \A rel \in RelNames :
        /\ functional(rel) => evicts(rel) \/ rejects(rel)
        /\ RULES[rel].set_snapshot => ~functional(rel)
BY DEF RelNames, functional, evicts, rejects, RULES, Rule

-----------------------------------------------------------------------------
(* Closing and merging one edge                                               *)

\* Times are naturals below SENTINEL.
LEMMA TimesNat == \A t \in Times : t \in Nat /\ t < SENTINEL
BY ClockAssumption

\* The window of an edge is made of numbers; the absent edge ends at 0.
LEMMA EdgeTimes ==
    ASSUME NEW edge \in Edge \cup {NoEdge}
    PROVE  /\ edge.valid_at \in Nat
           /\ edge.invalid_at \in Nat
           /\ edge = NoEdge => edge.invalid_at = 0 /\ edge.present = FALSE
           /\ edge # NoEdge => edge \in Edge /\ edge.valid_at \in Times /\ edge.present
<1>1. CASE edge \in Edge
  <2>1. edge.present = TRUE
    BY <1>1 DEF Edge
  <2>2. NoEdge.present = FALSE
    BY DEF NoEdge
  <2>3. QED
    BY <1>1, <2>1, <2>2, TimesNat, ClockAssumption DEF Edge
<1>2. CASE edge = NoEdge
  BY <1>2 DEF NoEdge
<1>3. QED
  BY <1>1, <1>2

\* A closed edge is an edge that ended by `now` and was valid whenever the
\* result is.
LEMMA CloseFacts ==
    ASSUME NEW edge \in Edge \cup {NoEdge}, NEW now \in Times
    PROVE  /\ Close(edge, now) \in Edge \cup {NoEdge}
           /\ Close(edge, now).invalid_at <= now
           /\ \A t \in Times : ValidAt(Close(edge, now), t) => ValidAt(edge, t)
<1>0. /\ edge.valid_at \in Nat /\ edge.invalid_at \in Nat /\ now \in Nat
      /\ edge = NoEdge => edge.invalid_at = 0
  BY EdgeTimes, TimesNat
<1>1. CASE Current(edge, now)
  <2>1. edge \in Edge
    BY <1>0, <1>1 DEF Current
  <2>2. Close(edge, now) = [present |-> TRUE, valid_at |-> edge.valid_at,
                            invalid_at |-> now, expired_at |-> now]
    BY <1>1, <2>1 DEF Close, Edge
  <2>3. Close(edge, now) \in Edge
    BY <2>1, <2>2 DEF Edge
  <2>4. /\ Close(edge, now).valid_at = edge.valid_at
        /\ Close(edge, now).invalid_at = now
    BY <2>2
  <2>5. QED
    BY <1>0, <1>1, <2>3, <2>4, TimesNat DEF ValidAt, Current
<1>2. CASE ~Current(edge, now)
  <2>1. Close(edge, now) = edge
    BY <1>2 DEF Close
  <2>2. edge.invalid_at <= now
    BY <1>0, <1>2 DEF Current
  <2>3. QED
    BY <2>1, <2>2
<1>3. QED
  BY <1>1, <1>2

\* A merged edge is current, and its window starts where the old current one
\* started or at `now`.
LEMMA MergeFacts ==
    ASSUME NEW edge \in Edge \cup {NoEdge}, NEW now \in Times
    PROVE  /\ Merge(edge, now) \in Edge
           /\ Merge(edge, now).invalid_at = SENTINEL
           /\ Merge(edge, now).expired_at = NULL
           /\ \/ Merge(edge, now).valid_at = now
              \/ Merge(edge, now).valid_at = edge.valid_at /\ Current(edge, now)
<1>0. /\ now \in Nat
      /\ edge = NoEdge => edge.invalid_at = 0
      /\ edge # NoEdge => edge.valid_at \in Times
  BY EdgeTimes, TimesNat
<1>1. Current(edge, now) => edge.valid_at \in Times
  BY <1>0 DEF Current
<1>2. Merge(edge, now) \in Edge
  BY <1>1 DEF Merge, Edge
<1>3. QED
  BY <1>2 DEF Merge

-----------------------------------------------------------------------------
(* Type correctness                                                           *)

LEMMA TypeInit == Init => TypeOK
BY DEF Init, TypeOK

LEMMA AddedType ==
    ASSUME TypeOK, NEW e \in Facts, NEW now \in Times
    PROVE  Added(e, now) \in [Facts -> Edge \cup {NoEdge}]
<1>1. ASSUME NEW f \in Facts
      PROVE  /\ edges[f] \in Edge \cup {NoEdge}
             /\ Merge(edges[f], now) \in Edge \cup {NoEdge}
             /\ Close(edges[f], now) \in Edge \cup {NoEdge}
  <2>1. edges[f] \in Edge \cup {NoEdge}
    BY <1>1 DEF TypeOK
  <2>2. QED
    BY <2>1, CloseFacts, MergeFacts
<1>2. QED
  BY <1>1 DEF Added

LEMMA TypeNext == TypeOK /\ [Next]_vars => TypeOK'
<1> SUFFICES ASSUME TypeOK, [Next]_vars PROVE TypeOK'
  OBVIOUS
<1>0. ASSUME NEW f \in Facts, NEW now \in Times
      PROVE  /\ edges[f] \in Edge \cup {NoEdge}
             /\ Merge(edges[f], now) \in Edge \cup {NoEdge}
             /\ Close(edges[f], now) \in Edge \cup {NoEdge}
  <2>1. edges[f] \in Edge \cup {NoEdge}
    BY <1>0 DEF TypeOK
  <2>2. QED
    BY <2>1, <1>0, CloseFacts, MergeFacts
<1>1. ASSUME NEW k \in Keys, NEW ns \in Namespaces, Resolve(k, ns)
      PROVE  TypeOK'
  BY <1>1 DEF Resolve, TypeOK
<1>2. ASSUME NEW e \in Facts, NEW now \in Readings, AddEdge(e, now)
      PROVE  TypeOK'
  <2>1. now \in Times
    BY DEF Readings
  <2>2. QED
    BY <1>2, <2>1, AddedType DEF AddEdge, TypeOK
<1>3. ASSUME NEW e \in Facts, NEW now \in Readings, RemoveEdge(e, now)
      PROVE  TypeOK'
  <2>1. now \in Times
    BY DEF Readings
  <2>2. QED
    BY <1>3, <1>0, <2>1 DEF RemoveEdge, TypeOK
<1>4. ASSUME NEW e \in Facts, NEW desired \in SUBSET Keys, NEW now \in Readings,
             SetSnapshot(e, desired, now)
      PROVE  TypeOK'
  <2>1. now \in Times
    BY DEF Readings
  <2>2. edges' \in [Facts -> Edge \cup {NoEdge}]
    BY <1>4, <1>0, <2>1 DEF SetSnapshot
  <2>3. QED
    BY <1>4, <2>2 DEF SetSnapshot, TypeOK
<1>5. ASSUME NEW before \in Times, NEW ns \in Namespaces \cup {NULL}, Prune(before, ns)
      PROVE  TypeOK'
  BY <1>5 DEF Prune, TypeOK
<1>6. CASE Tick
  BY <1>6 DEF Tick, TypeOK
<1>7. CASE UNCHANGED vars
  BY <1>7 DEF vars, TypeOK
<1>8. QED
  BY <1>1, <1>2, <1>3, <1>4, <1>5, <1>6, <1>7 DEF Next

\* Every reachable state is well typed, whatever the keys, facts and clocks
\* (mutate.py, retention_sweep.py).
THEOREM TypeCorrect == Spec => []TypeOK
BY TypeInit, TypeNext, PTL DEF Spec

-----------------------------------------------------------------------------
(* At most one object per functional slot at every instant                    *)

\* No window starts in the future of the wall clock.
StartsPast == \A e \in Facts : edges[e].valid_at <= wall

\* The inductive invariant: the windows of a slot stay apart because each
\* write clips every other window at its own clock, and the wall clock sees one
\* current edge because ended windows ended in its past.
WindowInv == TypeOK /\ SentinelContract /\ StartsPast /\ AsOfUnique

LEMMA WallNat == TypeOK => wall \in Nat
BY TimesNat DEF TypeOK

\* Two facts of one slot lie in the same slots.
LEMMA SlotShared ==
    ASSUME NEW e \in Facts, NEW f \in Facts, NEW g \in Slot(f)
    PROVE  /\ g \in Facts /\ g.rel = f.rel
           /\ f \in Slot(e) <=> g \in Slot(e)
           /\ f \in Slot(g)
BY DEF Slot

\* After an add to a functional slot, the edge of the added object and the
\* edge of any other object are valid at no common instant.
LEMMA AddSeparates ==
    ASSUME WindowInv, NEW e \in Facts, NEW now \in Times, AddEdge(e, now),
           functional(e.rel), NEW f \in Slot(e), f.o = e.o,
           NEW g \in Slot(e), g.o # e.o, NEW t \in Times,
           ValidAt(edges'[f], t), ValidAt(edges'[g], t)
    PROVE  FALSE
<1>1. f \in Facts /\ g \in Facts /\ e.rel \in RelNames /\ f \in Slot(g) /\ g \in Slot(f)
      /\ functional(f.rel)
  BY FactsAssumption DEF Slot
<1>2. /\ edges[f] \in Edge \cup {NoEdge} /\ edges[g] \in Edge \cup {NoEdge}
      /\ t \in Nat /\ now \in Nat /\ SENTINEL \in Nat
  BY <1>1, TimesNat, ClockAssumption DEF WindowInv, TypeOK
<1>3. ~(ValidAt(edges[f], t) /\ ValidAt(edges[g], t))
  BY <1>1 DEF WindowInv, AsOfUnique
<1>4. edges'[g].invalid_at <= now /\ (ValidAt(edges'[g], t) => ValidAt(edges[g], t))
  <2>1. CASE evicts(e.rel)
    <3>1. edges'[g] = Close(edges[g], now)
      BY <1>1, <2>1 DEF AddEdge, Added
    <3>2. QED
      BY <1>2, <3>1, CloseFacts
  <2>2. CASE ~evicts(e.rel) /\ rejects(e.rel)
    <3>1. edges'[g] = edges[g] /\ ~Current(edges[g], now)
      BY <1>1, <2>2 DEF AddEdge, Added
    <3>2. edges[g].invalid_at \in Nat
      BY <1>2, EdgeTimes
    <3>3. QED
      BY <1>2, <3>1, <3>2 DEF Current
  <2>3. QED
    BY <1>1, <2>1, <2>2, RulesCover
<1>5. t < now
  <2>1. edges'[g].invalid_at \in Nat
    <3>1. edges'[g] \in Edge \cup {NoEdge}
      BY <1>1, AddedType DEF AddEdge, WindowInv
    <3>2. QED
      BY <3>1, EdgeTimes
  <2>2. QED
    BY <1>2, <1>4, <2>1 DEF ValidAt
<1>6. CASE edges'[f] = edges[f]
  BY <1>3, <1>4, <1>6
<1>7. CASE edges'[f] = Merge(edges[f], now)
  <2>1. edges[f].valid_at \in Nat /\ edges[f].invalid_at \in Nat
    BY <1>2, EdgeTimes
  <2>2. \/ edges'[f].valid_at = now
        \/ edges'[f].valid_at = edges[f].valid_at /\ Current(edges[f], now)
    BY <1>2, <1>7, MergeFacts
  <2>3. ValidAt(edges[f], t)
    BY <1>2, <1>5, <2>1, <2>2 DEF ValidAt, Current
  <2>4. QED
    BY <1>3, <1>4, <2>3
<1>8. QED
  BY <1>1, <1>6, <1>7 DEF AddEdge, Added

LEMMA WindowInit == Init => WindowInv
<1> SUFFICES ASSUME Init PROVE WindowInv
  OBVIOUS
<1>1. \A e \in Facts : edges[e] = NoEdge
  BY DEF Init
<1>2. wall \in Nat
  BY TimesNat DEF Init
<1>3. TypeOK
  BY TypeInit
<1>4. SentinelContract
  BY <1>1 DEF SentinelContract, NoEdge
<1>5. StartsPast
  BY <1>1, <1>2 DEF StartsPast, NoEdge
<1>6. AsOfUnique
  BY <1>1, TimesNat DEF AsOfUnique, NoEdge, ValidAt, Slot
<1>7. QED
  BY <1>3, <1>4, <1>5, <1>6 DEF WindowInv

LEMMA AsOfNext == WindowInv /\ [Next]_vars => AsOfUnique'
<1> SUFFICES ASSUME WindowInv, [Next]_vars,
                    NEW e1 \in Facts, functional(e1.rel), NEW e2 \in Slot(e1),
                    NEW t \in Times, ValidAt(edges'[e1], t), ValidAt(edges'[e2], t)
             PROVE  e1.o = e2.o
  BY DEF AsOfUnique, Slot
<1>0. /\ e2 \in Facts /\ e2.rel = e1.rel /\ e1.rel \in RelNames
      /\ t \in Nat
      /\ edges[e1] \in Edge \cup {NoEdge} /\ edges[e2] \in Edge \cup {NoEdge}
  BY FactsAssumption, TimesNat DEF Slot, WindowInv, TypeOK
<1>a. SUFFICES ASSUME ~(ValidAt(edges[e1], t) /\ ValidAt(edges[e2], t)) PROVE e1.o = e2.o
  BY DEF WindowInv, AsOfUnique
<1>1. ASSUME NEW e \in Facts, NEW now \in Readings, AddEdge(e, now)
      PROVE  e1.o = e2.o
  <2>0. now \in Times
    BY DEF Readings
  <2>1. CASE e1 \notin Slot(e)
    <3>1. e2 \notin Slot(e)
      BY <2>1, SlotShared
    <3>2. edges'[e1] = edges[e1] /\ edges'[e2] = edges[e2]
      BY <1>1, <1>0, <2>1, <3>1 DEF AddEdge, Added
    <3>3. QED
      BY <1>a, <3>2
  <2>2. CASE e1 \in Slot(e)
    <3>1. e2 \in Slot(e) /\ functional(e.rel)
      BY <2>2, SlotShared DEF Slot
    <3>2. CASE e1.o = e.o /\ e2.o # e.o
      BY <1>1, <2>0, <2>2, <3>1, <3>2, AddSeparates
    <3>3. CASE e1.o # e.o /\ e2.o = e.o
      BY <1>1, <2>0, <2>2, <3>1, <3>3, AddSeparates
    <3>4. CASE e1.o # e.o /\ e2.o # e.o
      <4>1. /\ edges'[e1] = edges[e1] \/ edges'[e1] = Close(edges[e1], now)
            /\ edges'[e2] = edges[e2] \/ edges'[e2] = Close(edges[e2], now)
        BY <1>1, <1>0, <2>2, <3>1, <3>4 DEF AddEdge, Added
      <4>2. ValidAt(edges'[e1], t) => ValidAt(edges[e1], t)
        BY <1>0, <2>0, <4>1, CloseFacts
      <4>3. ValidAt(edges'[e2], t) => ValidAt(edges[e2], t)
        BY <1>0, <2>0, <4>1, CloseFacts
      <4>4. QED
        BY <1>a, <4>2, <4>3
    <3>5. QED
      BY <3>2, <3>3, <3>4
  <2>3. QED
    BY <2>1, <2>2
<1>2. ASSUME NEW e \in Facts, NEW now \in Readings, RemoveEdge(e, now)
      PROVE  e1.o = e2.o
  <2>0. now \in Times
    BY DEF Readings
  <2>1. /\ edges'[e1] = edges[e1] \/ edges'[e1] = Close(edges[e1], now)
        /\ edges'[e2] = edges[e2] \/ edges'[e2] = Close(edges[e2], now)
    BY <1>2, <1>0 DEF RemoveEdge, WindowInv, TypeOK
  <2>2. QED
    BY <1>a, <1>0, <2>0, <2>1, CloseFacts
<1>3. ASSUME NEW e \in Facts, NEW desired \in SUBSET Keys, NEW now \in Readings,
             SetSnapshot(e, desired, now)
      PROVE  e1.o = e2.o
  <2>1. e.rel \in RelNames /\ ~functional(e.rel)
    BY <1>3, RulesCover, FactsAssumption DEF SetSnapshot
  <2>2. e1 \notin Slot(e) /\ e2 \notin Slot(e)
    BY <1>0, <2>1 DEF Slot
  <2>3. edges'[e1] = edges[e1] /\ edges'[e2] = edges[e2]
    BY <1>3, <1>0, <2>2 DEF SetSnapshot
  <2>4. QED
    BY <1>a, <2>3
<1>4. ASSUME NEW before \in Times, NEW ns \in Namespaces \cup {NULL}, Prune(before, ns)
      PROVE  e1.o = e2.o
  <2>1. /\ edges'[e1] = edges[e1] \/ edges'[e1] = NoEdge
        /\ edges'[e2] = edges[e2] \/ edges'[e2] = NoEdge
    BY <1>4, <1>0 DEF Prune
  <2>2. ~ValidAt(NoEdge, t)
    BY <1>0 DEF ValidAt, NoEdge
  <2>3. QED
    BY <1>a, <2>1, <2>2
<1>5. CASE (\E k \in Keys, ns \in Namespaces : Resolve(k, ns)) \/ Tick \/ UNCHANGED vars
  <2>1. edges' = edges
    BY <1>5 DEF Resolve, Tick, vars
  <2>2. QED
    BY <1>a, <2>1
<1>6. QED
  BY <1>1, <1>2, <1>3, <1>4, <1>5 DEF Next

\* What a step makes of one edge: nothing, an end at the step's clock, a merge
\* at it, or (prune) the absent edge.
LEMMA EdgeStep ==
    ASSUME TypeOK, [Next]_vars, NEW f \in Facts
    PROVE  \/ edges'[f] = edges[f]
           \/ edges'[f] = NoEdge
           \/ wall' = wall /\ \E now \in Readings : edges'[f] = Close(edges[f], now)
           \/ wall' = wall /\ \E now \in Readings : edges'[f] = Merge(edges[f], now)
<1>1. ASSUME NEW e \in Facts, NEW now \in Readings, AddEdge(e, now)
      PROVE  /\ wall' = wall
             /\ \/ edges'[f] = edges[f]
                \/ edges'[f] = Close(edges[f], now) \/ edges'[f] = Merge(edges[f], now)
  BY <1>1 DEF AddEdge, Added
<1>2. ASSUME NEW e \in Facts, NEW now \in Readings, RemoveEdge(e, now)
      PROVE  wall' = wall /\ edges'[f] \in {edges[f], Close(edges[f], now)}
  BY <1>2 DEF RemoveEdge, TypeOK
<1>3. ASSUME NEW e \in Facts, NEW desired \in SUBSET Keys, NEW now \in Readings,
             SetSnapshot(e, desired, now)
      PROVE  /\ wall' = wall
             /\ edges'[f] \in {edges[f], Close(edges[f], now), Merge(edges[f], now)}
  BY <1>3 DEF SetSnapshot
<1>4. ASSUME NEW before \in Times, NEW ns \in Namespaces \cup {NULL}, Prune(before, ns)
      PROVE  edges'[f] \in {edges[f], NoEdge}
  BY <1>4 DEF Prune
<1>5. CASE (\E k \in Keys, ns \in Namespaces : Resolve(k, ns)) \/ Tick \/ UNCHANGED vars
  BY <1>5 DEF Resolve, Tick, vars
<1>6. QED
  BY <1>1, <1>2, <1>3, <1>4, <1>5 DEF Next

\* The wall clock never goes back.
LEMMA WallAdvances == TypeOK /\ [Next]_vars => wall' \in Nat /\ wall <= wall'
<1> SUFFICES ASSUME TypeOK, [Next]_vars PROVE wall' \in Nat /\ wall <= wall'
  OBVIOUS
<1>1. wall \in Nat
  BY WallNat
<1>2. wall' = wall \/ Tick
  BY DEF Next, vars, Resolve, AddEdge, RemoveEdge, SetSnapshot, Prune
<1>3. CASE Tick
  BY <1>1, <1>3, TimesNat DEF Tick
<1>4. QED
  BY <1>1, <1>2, <1>3

\* A present edge ended in the past with expired_at set, or carries SENTINEL
\* with expired_at absent.
Ended(edge) == edge.invalid_at # SENTINEL /\ edge.expired_at # NULL
Open(edge) == edge.invalid_at = SENTINEL /\ edge.expired_at = NULL

LEMMA SentinelEdge ==
    ASSUME WindowInv, NEW f \in Facts, edges[f].present
    PROVE  \/ Open(edges[f])
           \/ Ended(edges[f]) /\ edges[f].invalid_at <= wall
<1>1. wall \in Nat /\ edges[f].invalid_at \in Nat
  BY WallNat, EdgeTimes DEF WindowInv, TypeOK
<1>2. QED
  BY <1>1 DEF WindowInv, SentinelContract, Open, Ended, Current

\* The contract of one edge, in the shape the step below restores it.
Contract(edge, now) ==
    /\ edge.present => Open(edge) \/ (Ended(edge) /\ edge.invalid_at <= now)
    /\ edge.valid_at <= now

LEMMA ContractSuffices ==
    ASSUME TypeOK, \A f \in Facts : Contract(edges[f], wall)
    PROVE  SentinelContract /\ StartsPast
<1>1. wall \in Nat /\ wall < SENTINEL
  BY TimesNat DEF TypeOK
<1>2. ASSUME NEW g \in Facts, edges[g].present
      PROVE  /\ Current(edges[g], wall) <=> edges[g].invalid_at = SENTINEL
             /\ edges[g].expired_at = NULL <=> edges[g].invalid_at = SENTINEL
  <2>1. edges[g].invalid_at \in Nat
    BY EdgeTimes DEF TypeOK
  <2>2. CASE Open(edges[g])
    BY <1>1, <2>2, ClockAssumption DEF Open, Current
  <2>3. CASE Ended(edges[g]) /\ edges[g].invalid_at <= wall
    BY <1>1, <2>1, <2>3 DEF Ended, Current
  <2>4. QED
    BY <1>2, <2>2, <2>3 DEF Contract
<1>3. StartsPast
  BY DEF StartsPast, Contract
<1>4. QED
  BY <1>2, <1>3 DEF SentinelContract

LEMMA ContractNext ==
    ASSUME WindowInv, [Next]_vars, NEW f \in Facts
    PROVE  Contract(edges'[f], wall')
<1>1. /\ edges[f] \in Edge \cup {NoEdge} /\ wall \in Nat /\ wall' \in Nat /\ wall <= wall'
      /\ edges[f].valid_at \in Nat /\ edges[f].invalid_at \in Nat /\ edges[f].valid_at <= wall
      /\ edges[f] = NoEdge => edges[f].invalid_at = 0
      /\ edges[f] # NoEdge => edges[f] \in Edge
  BY WallNat, WallAdvances, EdgeTimes DEF WindowInv, TypeOK, StartsPast
<1>2. CASE edges'[f] = edges[f]
  BY <1>1, <1>2, SentinelEdge DEF Contract
<1>3. CASE edges'[f] = NoEdge
  BY <1>1, <1>3 DEF NoEdge, Contract
<1>4. ASSUME NEW now \in Readings, wall' = wall, edges'[f] = Close(edges[f], now)
      PROVE  Contract(edges'[f], wall')
  <2>1. now \in Times /\ now \in Nat /\ now <= wall /\ now < SENTINEL
    BY TimesNat DEF Readings
  <2>2. CASE ~Current(edges[f], now)
    BY <1>1, <1>4, <2>2, SentinelEdge DEF Close, Contract
  <2>3. CASE Current(edges[f], now)
    <3>1. edges[f] # NoEdge
      BY <2>1, <2>3, <1>1 DEF Current
    <3>2. edges[f] \in Edge
      BY <1>1, <3>1
    <3>3. edges'[f] = [present |-> TRUE, valid_at |-> edges[f].valid_at,
                       invalid_at |-> now, expired_at |-> now]
      BY <1>4, <2>3, <3>2 DEF Close, Edge
    <3>4. /\ edges'[f].valid_at = edges[f].valid_at
          /\ edges'[f].invalid_at = now /\ edges'[f].expired_at = now
      BY <3>3
    <3>5. now # NULL /\ now # SENTINEL
      BY <2>1, ClockAssumption
    <3>6. QED
      BY <1>1, <1>4, <2>1, <3>4, <3>5 DEF Ended, Contract
  <2>4. QED
    BY <2>2, <2>3
<1>5. ASSUME NEW now \in Readings, wall' = wall, edges'[f] = Merge(edges[f], now)
      PROVE  Contract(edges'[f], wall')
  <2>1. now \in Times /\ now <= wall
    BY DEF Readings
  <2>2. QED
    BY <1>1, <1>5, <2>1, MergeFacts DEF Contract, Open
<1>6. QED
  BY <1>2, <1>3, <1>4, <1>5, EdgeStep DEF WindowInv

LEMMA SentinelNext == WindowInv /\ [Next]_vars => SentinelContract' /\ StartsPast'
<1> SUFFICES ASSUME WindowInv, [Next]_vars PROVE (SentinelContract /\ StartsPast)'
  OBVIOUS
<1>1. TypeOK'
  BY TypeNext DEF WindowInv
<1>2. (\A f \in Facts : Contract(edges[f], wall))'
  BY ContractNext
<1>3. QED
  BY <1>1, <1>2, ContractSuffices, PTL

LEMMA WindowNext == WindowInv /\ [Next]_vars => WindowInv'
BY TypeNext, AsOfNext, SentinelNext DEF WindowInv

\* The inductive invariant of the windows: the type, the as-of uniqueness and
\* the SENTINEL contract of mutate.py, and that no edge starts in the future.
THEOREM WindowInvariant == Spec => []WindowInv
BY WindowInit, WindowNext, PTL DEF Spec

\* Whatever the order in which the callers' clocks commit, a functional slot
\* answers every as-of question with at most one object (mutate.py apply_edge,
\* stamp.CARD_Q).
THEOREM AsOfUniqueTheorem == Spec => []AsOfUnique
BY WindowInvariant, PTL DEF WindowInv

\* SENTINEL, current on the wall clock and absent expired_at are one and the
\* same on every edge (mutate.py header, "SENTINEL contract").
THEOREM SentinelTheorem == Spec => []SentinelContract
BY WindowInvariant, PTL DEF WindowInv

LEMMA CurrentIsValid == WindowInv => SingleCurrent
<1> SUFFICES ASSUME WindowInv, NEW e \in Facts, functional(e.rel), NEW f \in Slot(e),
                    Current(edges[e], wall), Current(edges[f], wall)
             PROVE  e.o = f.o
  BY DEF SingleCurrent
<1>1. f \in Facts /\ wall \in Times /\ wall \in Nat
  BY WallNat DEF Slot, WindowInv, TypeOK
<1>2. /\ edges[e].valid_at \in Nat /\ edges[e].invalid_at \in Nat
      /\ edges[f].valid_at \in Nat /\ edges[f].invalid_at \in Nat
  BY <1>1, EdgeTimes DEF WindowInv, TypeOK
<1>3. ValidAt(edges[e], wall) /\ ValidAt(edges[f], wall)
  BY <1>1, <1>2 DEF WindowInv, StartsPast, ValidAt, Current
<1>4. QED
  BY <1>1, <1>3 DEF WindowInv, AsOfUnique

\* invariant_check's sweep finds no functional slot with two current edges
\* (invariant_check.VIOLATION_Q).
THEOREM SingleCurrentTheorem == Spec => []SingleCurrent
BY WindowInvariant, CurrentIsValid, PTL

\* What one step may do to the past of an edge it leaves there.
KeepsThePast(e) ==
    edges'[e].present /\ ~Reasserts(e) =>
        \A t \in Times :
            /\ t < edges'[e].invalid_at
            /\ ~edges[e].present => t < edges'[e].valid_at
            => (ValidAt(edges'[e], t) <=> ValidAt(edges[e], t))

LEMMA StepKeepsThePast ==
    ASSUME TypeOK, [Next]_vars, NEW e \in Facts
    PROVE  KeepsThePast(e)
<1>1. CASE edges'[e] = edges[e]
  BY <1>1 DEF KeepsThePast
<1>2. CASE edges'[e] = NoEdge
  BY <1>2 DEF KeepsThePast, NoEdge
<1>3. ASSUME NEW now \in Readings, edges'[e] = Close(edges[e], now)
      PROVE  KeepsThePast(e)
  <2>1. CASE ~Current(edges[e], now)
    BY <1>1, <1>3, <2>1 DEF Close
  <2>2. CASE Current(edges[e], now)
    <3>1. /\ edges[e].valid_at \in Nat /\ edges[e].invalid_at \in Nat /\ now \in Nat
          /\ edges[e] \in Edge \cup {NoEdge}
          /\ edges[e] = NoEdge => edges[e].invalid_at = 0
      BY EdgeTimes, TimesNat DEF TypeOK, Readings
    <3>2. edges[e].invalid_at > now
      BY <2>2 DEF Current
    <3>3. edges[e] \in Edge
      BY <3>1, <3>2
    <3>4. edges'[e] = [present |-> TRUE, valid_at |-> edges[e].valid_at,
                       invalid_at |-> now, expired_at |-> now]
      BY <1>3, <2>2, <3>3 DEF Close, Edge
    <3>5. edges'[e].valid_at = edges[e].valid_at /\ edges'[e].invalid_at = now
      BY <3>4
    <3>6. ASSUME NEW t \in Times, t < now
          PROVE  ValidAt(edges'[e], t) <=> ValidAt(edges[e], t)
      BY <3>1, <3>2, <3>5, <3>6, TimesNat DEF ValidAt
    <3>7. QED
      BY <3>5, <3>6 DEF KeepsThePast
  <2>3. QED
    BY <2>1, <2>2
<1>4. ASSUME NEW now \in Readings, edges'[e] = Merge(edges[e], now)
      PROVE  KeepsThePast(e)
  <2>1. /\ edges[e].valid_at \in Nat /\ edges[e].invalid_at \in Nat
        /\ now \in Nat /\ now < SENTINEL
        /\ edges[e] = NoEdge => edges[e].invalid_at = 0 /\ edges[e].present = FALSE
        /\ edges[e] # NoEdge => edges[e].present
    BY EdgeTimes, TimesNat DEF TypeOK, Readings
  <2>2. /\ edges'[e].invalid_at = SENTINEL
        /\ edges'[e].valid_at = IF Current(edges[e], now) THEN edges[e].valid_at ELSE now
    BY <1>4 DEF Merge
  <2>3. CASE edges[e] = NoEdge
    <3>1. ~Current(edges[e], now)
      BY <2>1, <2>3 DEF Current
    <3>2. ASSUME NEW t \in Times, t < now
          PROVE  ~ValidAt(edges'[e], t) /\ ~ValidAt(edges[e], t)
      BY <2>1, <2>2, <2>3, <3>1, <3>2, TimesNat DEF ValidAt
    <3> QED
      BY <2>1, <2>2, <2>3, <3>1, <3>2 DEF KeepsThePast
  <2>4. CASE edges[e] # NoEdge /\ edges[e].invalid_at = SENTINEL
    <3>1. edges'[e].valid_at = edges[e].valid_at
      BY <2>1, <2>2, <2>4 DEF Current
    <3> QED
      BY <2>2, <2>4, <3>1 DEF KeepsThePast, ValidAt
  <2>5. CASE edges[e] # NoEdge /\ edges[e].invalid_at # SENTINEL
    BY <2>1, <2>2, <2>5 DEF KeepsThePast, Reasserts
  <2> QED
    BY <2>3, <2>4, <2>5
<1>5. QED
  BY <1>1, <1>2, <1>3, <1>4, EdgeStep

\* Only a fact that had ended and is asserted again loses what it said of the
\* past; every other edge that a step leaves keeps it (mutate.py apply_edge's
\* eviction, MERGE and remove, apply_set_snapshot).
THEOREM PastTheorem == Spec => PastKept
<1>1. TypeOK /\ [Next]_vars => [\A e \in Facts : KeepsThePast(e)]_vars
  BY StepKeepsThePast
<1>2. Spec => [][\A e \in Facts : KeepsThePast(e)]_vars
  BY WindowInvariant, <1>1, PTL DEF Spec, WindowInv
<1>3. QED
  BY <1>2 DEF PastKept, KeepsThePast

-----------------------------------------------------------------------------
(* No cycle but a self-loop                                                   *)

\* S is closed under the facts of G and holds every object of a.
Holds(G, a, S) ==
    /\ \A g \in G : g.s = a => g.o \in S
    /\ \A g \in G : g.s \in S => g.o \in S

\* The facts of G do not lead from a to b.
Apart(G, a, b) == \E S \in SUBSET Keys : Holds(G, a, S) /\ b \notin S

\* The facts of a relation and namespace that are current at t.
Legs(rel, ns, t) == {f \in Facts : f.rel = rel /\ f.ns = ns /\ Current(edges[f], t)}

LEMMA PathIsLegs ==
    ASSUME NEW rel, NEW ns, NEW t, NEW a, NEW b
    PROVE  ~Path(rel, ns, t, a, b) <=> Apart(Legs(rel, ns, t), a, b)
BY DEF Path, Apart, Holds, Legs

\* Fewer facts lead nowhere new.
LEMMA FewerLegs ==
    ASSUME NEW G, NEW H \in SUBSET G, NEW a, NEW b, Apart(G, a, b)
    PROVE  Apart(H, a, b)
BY DEF Apart, Holds

\* One more fact, whose object does not lead to its subject, closes no cycle.
LEMMA OneMoreLeg ==
    ASSUME NEW G \in SUBSET Facts, NEW e \in Facts, Apart(G, e.o, e.s),
           \A g \in G : g.s # g.o => Apart(G, g.o, g.s),
           NEW f \in G \cup {e}, f.s # f.o
    PROVE  Apart(G \cup {e}, f.o, f.s)
<1>0. /\ \A g \in G \cup {e} : g.s \in Keys /\ g.o \in Keys
      /\ e.o \in Keys
  BY FactsAssumption
<1>1. PICK S \in SUBSET Keys : Holds(G, e.o, S) /\ e.s \notin S
  BY DEF Apart
<1>2. CASE f = e
  <2>1. Holds(G \cup {e}, e.o, S)
    BY <1>1, <1>2 DEF Holds
  <2> QED
    BY <1>1, <1>2, <2>1 DEF Apart
<1>3. CASE f \in G
  <2>1. PICK T \in SUBSET Keys : Holds(G, f.o, T) /\ f.s \notin T
    BY <1>3 DEF Apart
  <2>2. CASE f.s \in S \cup {e.o}
    <3>1. f.o \in S
      BY <1>1, <1>3, <2>2 DEF Holds
    <3>2. Holds(G \cup {e}, f.o, S \cap T)
      BY <1>1, <2>1, <3>1 DEF Holds
    <3> QED
      BY <2>1, <3>2 DEF Apart
  <2>3. CASE f.s \notin S \cup {e.o}
    <3> DEFINE U == S \cup T \cup {e.o}
    <3>1. Holds(G \cup {e}, f.o, U)
      BY <1>1, <2>1 DEF Holds
    <3>2. U \in SUBSET Keys /\ f.s \notin U
      BY <1>0, <2>1, <2>3
    <3> HIDE DEF U
    <3> QED
      BY <3>1, <3>2 DEF Apart
  <2> QED
    BY <2>2, <2>3
<1> QED
  BY <1>2, <1>3

LEMMA GuardedRules ==
    ASSUME NEW rel \in RelNames, guarded(rel)
    PROVE  ~RULES[rel].set_snapshot /\ ~evicts(rel)
BY DEF RelNames, guarded, evicts, RULES, Rule

\* The legs of a step: none but the one an add merges is new.
LEMMA LegsStep ==
    ASSUME WindowInv, [Next]_vars, NEW f \in Facts, guarded(f.rel),
           Current(edges'[f], wall'), ~Current(edges[f], wall)
    PROVE  \E now \in Readings :
               /\ ~Path(f.rel, f.ns, now, f.o, f.s)
               /\ \A g \in Facts \ {f} : edges'[g] = edges[g]
               /\ wall' = wall
<1>1. /\ TypeOK /\ wall \in Nat /\ wall' \in Nat /\ wall <= wall'
      /\ edges[f].invalid_at \in Nat /\ f.rel \in RelNames
  BY WallNat, WallAdvances, EdgeTimes, FactsAssumption DEF WindowInv, TypeOK
<1>2. edges'[f] # edges[f] /\ edges'[f] # NoEdge
  <2>1. edges'[f] # edges[f]
    BY <1>1 DEF Current
  <2>2. ~Current(NoEdge, wall')
    BY <1>1 DEF Current, NoEdge
  <2> QED
    BY <2>1, <2>2
<1>3. ASSUME NEW now \in Readings, wall' = wall PROVE edges'[f] # Close(edges[f], now)
  <2>1. now \in Nat /\ now <= wall
    BY TimesNat DEF Readings
  <2>2. Close(edges[f], now).invalid_at <= now /\ Close(edges[f], now).invalid_at \in Nat
    <3>1. Close(edges[f], now) \in Edge \cup {NoEdge} /\ Close(edges[f], now).invalid_at <= now
      BY <1>1, CloseFacts DEF TypeOK, Readings
    <3> QED
      BY <3>1, EdgeTimes
  <2> QED
    BY <1>1, <1>3, <2>1, <2>2 DEF Current
<1>4. ASSUME NEW e \in Facts, NEW now \in Readings, AddEdge(e, now)
      PROVE  /\ f.o = e.o /\ f \in Slot(e)
             /\ wall' = wall
  BY <1>2, <1>3, <1>4 DEF AddEdge, Added
<1>5. PICK e \in Facts, now \in Readings : AddEdge(e, now)
  <2>1. ASSUME NEW e \in Facts, NEW now \in Readings, RemoveEdge(e, now) PROVE FALSE
    BY <1>2, <1>3, <2>1 DEF RemoveEdge, TypeOK, WindowInv
  <2>2. ASSUME NEW e \in Facts, NEW desired \in SUBSET Keys, NEW now \in Readings,
               SetSnapshot(e, desired, now)
        PROVE  FALSE
    BY <1>1, <1>2, <2>2, GuardedRules DEF SetSnapshot, Slot
  <2>3. ASSUME NEW before \in Times, NEW ns \in Namespaces \cup {NULL}, Prune(before, ns)
        PROVE  FALSE
    BY <1>2, <2>3 DEF Prune
  <2>4. ASSUME (\E k \in Keys, ns \in Namespaces : Resolve(k, ns)) \/ Tick \/ UNCHANGED vars
        PROVE  FALSE
    BY <1>2, <2>4 DEF Resolve, Tick, vars
  <2> QED
    BY <2>1, <2>2, <2>3, <2>4 DEF Next
<1>6. f = e
  BY <1>4, <1>5, FactsAssumption DEF Slot
<1>7. \A g \in Facts \ {f} : edges'[g] = edges[g]
  BY <1>1, <1>5, <1>6, GuardedRules, FactsAssumption DEF AddEdge, Added, Slot
<1> QED
  BY <1>4, <1>5, <1>6, <1>7 DEF AddEdge

\* An edge that is current on the wall clock is so at every reading of it.
LEMMA CurrentEarlier ==
    ASSUME WindowInv, NEW f \in Facts, NEW now \in Readings, Current(edges[f], wall)
    PROVE  Current(edges[f], now)
<1>1. wall \in Nat /\ now \in Nat /\ now <= wall /\ edges[f].invalid_at \in Nat
  BY WallNat, TimesNat, EdgeTimes DEF WindowInv, TypeOK, Readings
<1> QED
  BY <1>1 DEF Current

\* AcyclicButSelfLoops, said with sets of nodes.
NoLoop ==
    \A f \in Facts :
        /\ guarded(f.rel) /\ Current(edges[f], wall) /\ f.s # f.o
        => Apart(Legs(f.rel, f.ns, wall), f.o, f.s)

LEMMA NoLoopIsAcyclic == NoLoop <=> AcyclicButSelfLoops
BY PathIsLegs DEF NoLoop, AcyclicButSelfLoops

LEMMA NoLoopNext == WindowInv /\ NoLoop /\ [Next]_vars => NoLoop'
<1> SUFFICES ASSUME WindowInv, NoLoop, [Next]_vars,
                    NEW f \in Facts, guarded(f.rel), Current(edges'[f], wall'), f.s # f.o
             PROVE  Apart(Legs(f.rel, f.ns, wall)', f.o, f.s)
  BY DEF NoLoop, Apart, Holds
<1> DEFINE G == Legs(f.rel, f.ns, wall)
           H == Legs(f.rel, f.ns, wall)'
<1>1. \A g \in G : g \in Facts /\ (g.s # g.o => Apart(G, g.o, g.s))
  BY DEF NoLoop, Legs
<1>2. CASE H \subseteq G
  <2>1. f \in G
    BY <1>2 DEF Legs
  <2> HIDE DEF G, H
  <2> QED
    BY <1>1, <1>2, <2>1, FewerLegs DEF H
<1>3. CASE ~(H \subseteq G)
  <2>1. PICK e \in H : e \notin G
    BY <1>3
  <2>2. e \in Facts /\ e.rel = f.rel /\ e.ns = f.ns
        /\ Current(edges'[e], wall') /\ ~Current(edges[e], wall)
    BY <2>1 DEF Legs
  <2>3. PICK now \in Readings : /\ ~Path(e.rel, e.ns, now, e.o, e.s)
                                /\ \A g \in Facts \ {e} : edges'[g] = edges[g]
                                /\ wall' = wall
    BY <2>2, LegsStep
  <2>4. Apart(Legs(f.rel, f.ns, now), e.o, e.s)
    BY <2>2, <2>3, PathIsLegs
  <2>5. G \subseteq Legs(f.rel, f.ns, now)
    BY CurrentEarlier DEF Legs
  <2>6. H \subseteq G \cup {e} /\ f \in H
    BY <2>3 DEF Legs
  <2> HIDE DEF G, H
  <2>7. Apart(G, e.o, e.s)
    BY <2>4, <2>5, FewerLegs
  <2>8. Apart(G \cup {e}, f.o, f.s)
    BY <1>1, <2>2, <2>6, <2>7, OneMoreLeg
  <2>9. Apart(H, f.o, f.s)
    BY <2>6, <2>8, FewerLegs
  <2> QED
    BY <2>9 DEF H
<1> QED
  BY <1>2, <1>3

\* No add closes a cycle through two or more nodes, whatever clocks the guards
\* read (mutate.py cycle guard); the self-loop it lets through is the run
\* mutate_self_loop.
THEOREM AcyclicTheorem == Spec => []AcyclicButSelfLoops
<1>1. Init => NoLoop
  <2> SUFFICES ASSUME Init, NEW e \in Facts PROVE ~Current(edges[e], wall)
    BY DEF NoLoop
  <2> QED
    BY TimesNat DEF Init, NoEdge, Current
<1> QED
  BY <1>1, NoLoopNext, NoLoopIsAcyclic, WindowInvariant, PTL DEF Spec

-----------------------------------------------------------------------------
(* The current edges are one set                                              *)

\* An edge is in the set exactly when it carries SENTINEL.
LEMMA OpenNow ==
    ASSUME WindowInv, NEW f \in Facts
    PROVE  f \in CurrentFacts <=> edges[f].invalid_at = SENTINEL
<1>1. /\ wall \in Nat /\ wall < SENTINEL /\ edges[f].invalid_at \in Nat
      /\ edges[f] = NoEdge => edges[f].invalid_at = 0
      /\ edges[f] # NoEdge => edges[f].present
  BY WallNat, EdgeTimes, TimesNat DEF WindowInv, TypeOK
<1>2. CASE edges[f].present
  BY <1>2 DEF CurrentFacts, WindowInv, SentinelContract
<1>3. CASE ~edges[f].present
  BY <1>1, <1>3, ClockAssumption DEF CurrentFacts, Current
<1> QED
  BY <1>2, <1>3

OpenAreCurrent == \A f \in Facts : (f \in CurrentFacts <=> edges[f].invalid_at = SENTINEL)

LEMMA OpenIsCurrent == WindowInv => OpenAreCurrent
BY OpenNow DEF OpenAreCurrent

\* The same of the set and the edges after a step.
LEMMA OpenThen ==
    ASSUME WindowInv, [Next]_vars, NEW f \in Facts
    PROVE  f \in CurrentFacts' <=> edges'[f].invalid_at = SENTINEL
<1>1. WindowInv'
  BY WindowNext
<1>2. OpenAreCurrent'
  BY <1>1, OpenIsCurrent, PTL
<1> QED
  BY <1>2 DEF OpenAreCurrent

\* A closed edge leaves the set, a merged one is in it, the absent one is not.
LEMMA OpenAfter ==
    ASSUME WindowInv, NEW f \in Facts, NEW now \in Readings
    PROVE  /\ Close(edges[f], now).invalid_at # SENTINEL
           /\ Merge(edges[f], now).invalid_at = SENTINEL
           /\ NoEdge.invalid_at # SENTINEL
<1>1. /\ edges[f] \in Edge \cup {NoEdge} /\ now \in Times /\ now \in Nat /\ now < SENTINEL
      /\ SENTINEL \in Nat
  BY TimesNat, ClockAssumption DEF WindowInv, TypeOK, Readings
<1>2. Close(edges[f], now) \in Edge \cup {NoEdge} /\ Close(edges[f], now).invalid_at <= now
  BY <1>1, CloseFacts
<1>3. Close(edges[f], now).invalid_at \in Nat
  BY <1>2, EdgeTimes
<1>4. Merge(edges[f], now).invalid_at = SENTINEL
  BY <1>1, MergeFacts
<1> QED
  BY <1>1, <1>2, <1>3, <1>4 DEF NoEdge

LEMMA SameContract ==
    /\ Store!RULES = RULES
    /\ \A rel : /\ (Store!evicts(rel) <=> evicts(rel))
                /\ (Store!rejects(rel) <=> rejects(rel))
                /\ (Store!guarded(rel) <=> guarded(rel))
    /\ \A e : Store!Slot(e) = Slot(e)
<1>1. Store!RULES = RULES
  BY DEF Store!RULES, Store!Rule, Store!AddOnly, Store!AddRemove, RULES, Rule, AddOnly, AddRemove
<1> QED
  BY <1>1 DEF Store!functional, Store!evicts, Store!rejects, Store!guarded, Store!Slot,
              functional, evicts, rejects, guarded, Slot

\* A path of the current edges is one of the edges that a caller's clock shows.
LEMMA GuardSuffices ==
    ASSUME WindowInv, NEW now \in Readings, NEW rel, NEW ns, NEW a, NEW b,
           ~Path(rel, ns, now, a, b)
    PROVE  ~Store!Leads(rel, ns, a, b)
<1> DEFINE G == {f \in CurrentFacts : f.rel = rel /\ f.ns = ns}
<1>1. G \subseteq Legs(rel, ns, now)
  BY CurrentEarlier DEF CurrentFacts, Legs
<1>2. Apart(Legs(rel, ns, now), a, b)
  BY PathIsLegs
<1> HIDE DEF G
<1>3. Apart(G, a, b)
  BY <1>1, <1>2, FewerLegs
<1> QED
  BY <1>3 DEF Apart, Holds, G, Store!Leads

LEMMA AddIsAdd ==
    ASSUME WindowInv, NEW e \in Facts, NEW now \in Readings, AddEdge(e, now)
    PROVE  Store!Add(e)
<1> DEFINE R == Store!Rivals(e)
           whole == owner[e.s] # NULL /\ owner[e.o] # NULL
           Post == (IF evicts(e.rel) THEN CurrentFacts \ R ELSE CurrentFacts)
                   \cup IF whole THEN {e} ELSE {}
<1>1. R = {f \in Slot(e) : f \in CurrentFacts /\ f.o # e.o}
  BY SameContract DEF Store!Rivals
<1>2. \A f \in Slot(e) : f \in Facts /\ (f.o = e.o <=> f = e)
  BY FactsAssumption DEF Slot
<1>3. guarded(e.rel) => ~Store!Leads(e.rel, e.ns, e.o, e.s)
  BY GuardSuffices DEF AddEdge
<1>4. rejects(e.rel) => R = {}
  BY <1>1, <1>2, CurrentEarlier DEF AddEdge, CurrentFacts
<1>5. e \in Slot(e)
  BY DEF Slot
<1>6. [Next]_vars
  BY DEF Next
<1>7. ASSUME NEW f \in Facts PROVE f \in CurrentFacts' <=> f \in Post
  <2>1. /\ f \in CurrentFacts' <=> edges'[f].invalid_at = SENTINEL
        /\ f \in CurrentFacts <=> edges[f].invalid_at = SENTINEL
        /\ Close(edges[f], now).invalid_at # SENTINEL
        /\ Merge(edges[f], now).invalid_at = SENTINEL
    BY <1>6, OpenNow, OpenThen, OpenAfter
  <2>2. edges' = Added(e, now)
    BY DEF AddEdge
  <2>3. CASE f \notin Slot(e)
    BY <1>1, <1>5, <2>1, <2>2, <2>3 DEF Added
  <2>4. CASE f = e
    BY <1>1, <1>5, <2>1, <2>2, <2>4 DEF Added
  <2>5. CASE f \in Slot(e) /\ f # e
    BY <1>1, <1>2, <2>1, <2>2, <2>5 DEF Added
  <2> QED
    BY <2>3, <2>4, <2>5
<1>8. CurrentFacts' \subseteq Facts /\ Post \subseteq Facts
  BY DEF CurrentFacts
<1> HIDE DEF R, Post
<1>9. CurrentFacts' = Post
  BY <1>7, <1>8
<1> QED
  BY <1>3, <1>4, <1>9, SameContract DEF R, Post, Store!Add, AddEdge

LEMMA RemoveIsRemove ==
    ASSUME WindowInv, NEW e \in Facts, NEW now \in Readings, RemoveEdge(e, now)
    PROVE  Store!Remove(e)
<1>1. [Next]_vars
  BY DEF Next
<1>2. ASSUME NEW f \in Facts PROVE f \in CurrentFacts' <=> f \in CurrentFacts \ {e}
  <2>1. edges'[f] = IF f = e THEN Close(edges[f], now) ELSE edges[f]
    BY DEF RemoveEdge, WindowInv, TypeOK
  <2> QED
    BY <1>1, <2>1, OpenNow, OpenThen, OpenAfter
<1>3. CurrentFacts \subseteq Facts /\ CurrentFacts' \subseteq Facts
  BY DEF CurrentFacts
<1>4. CurrentFacts' = CurrentFacts \ {e}
  BY <1>2, <1>3
<1> QED
  BY <1>4, SameContract DEF Store!Remove, RemoveEdge

LEMMA SnapshotIsSnapshot ==
    ASSUME WindowInv, NEW e \in Facts, NEW desired \in SUBSET Keys, NEW now \in Readings,
           SetSnapshot(e, desired, now)
    PROVE  Store!SetSnapshot(e, desired)
<1> DEFINE kept == {f \in CurrentFacts : f \in Slot(e) => f.o \in desired}
           missing == {f \in Slot(e) : f.o \in desired /\ owner[f.o] # NULL}
<1>1. [Next]_vars
  BY DEF Next
<1>2. ASSUME NEW f \in Facts
      PROVE  /\ f \in kept => f \in CurrentFacts'
             /\ f \in CurrentFacts' => f \in kept \cup missing
  <2>1. /\ f \in CurrentFacts' <=> edges'[f].invalid_at = SENTINEL
        /\ f \in CurrentFacts <=> edges[f].invalid_at = SENTINEL
        /\ Close(edges[f], now).invalid_at # SENTINEL
        /\ Merge(edges[f], now).invalid_at = SENTINEL
    BY <1>1, OpenNow, OpenThen, OpenAfter
  <2>2. edges'[f] = IF f \notin Slot(e) THEN edges[f]
                    ELSE IF f.o \notin desired THEN Close(edges[f], now)
                    ELSE IF Current(edges[f], now) \/ owner[f.o] = NULL THEN edges[f]
                    ELSE Merge(edges[f], now)
    BY DEF SetSnapshot
  <2> QED
    BY <2>1, <2>2
<1>3. CurrentFacts \subseteq Facts /\ CurrentFacts' \subseteq Facts
  BY DEF CurrentFacts
<1>4. kept \subseteq CurrentFacts' /\ CurrentFacts' \subseteq kept \cup missing
  BY <1>2, <1>3
<1> QED
  BY <1>4, SameContract DEF Store!SetSnapshot, SetSnapshot

\* Time, the prune and new nodes leave the set as it is.
LEMMA SetStays ==
    ASSUME WindowInv, [Next]_vars,
           \A f \in Facts : \/ edges'[f] = edges[f]
                            \/ edges'[f] = NoEdge /\ edges[f].invalid_at # SENTINEL
    PROVE  CurrentFacts' = CurrentFacts
<1>1. NoEdge.invalid_at # SENTINEL
  BY WallNat, TimesNat, ClockAssumption DEF WindowInv, TypeOK, NoEdge
<1>2. \A f \in Facts : f \in CurrentFacts' <=> f \in CurrentFacts
  BY <1>1, OpenNow, OpenThen
<1>3. CurrentFacts \subseteq Facts /\ CurrentFacts' \subseteq Facts
  BY DEF CurrentFacts
<1> QED
  BY <1>2, <1>3

LEMMA StoreNext == WindowInv /\ [Next]_vars => [Store!Next]_<<owner, CurrentFacts>>
<1> SUFFICES ASSUME WindowInv, [Next]_vars
             PROVE  Store!Next \/ (owner' = owner /\ CurrentFacts' = CurrentFacts)
  OBVIOUS
<1>1. ASSUME NEW k \in Keys, NEW ns \in Namespaces, Resolve(k, ns) PROVE Store!Next
  <2>1. CurrentFacts' = CurrentFacts
    BY <1>1, SetStays DEF Resolve
  <2> QED
    BY <1>1, <2>1 DEF Resolve, Store!Resolve, Store!Next
<1>2. ASSUME NEW e \in Facts, NEW now \in Readings, AddEdge(e, now) PROVE Store!Next
  BY <1>2, AddIsAdd DEF Store!Next
<1>3. ASSUME NEW e \in Facts, NEW now \in Readings, RemoveEdge(e, now) PROVE Store!Next
  BY <1>3, RemoveIsRemove DEF Store!Next
<1>4. ASSUME NEW e \in Facts, NEW desired \in SUBSET Keys, NEW now \in Readings,
             SetSnapshot(e, desired, now)
      PROVE  Store!Next
  BY <1>4, SnapshotIsSnapshot DEF Store!Next
<1>5. ASSUME NEW before \in Times, NEW ns \in Namespaces \cup {NULL}, Prune(before, ns)
      PROVE  owner' = owner /\ CurrentFacts' = CurrentFacts
  <2>1. wall \in Nat /\ wall < SENTINEL /\ SENTINEL \in Nat
    BY WallNat, TimesNat, ClockAssumption DEF WindowInv, TypeOK
  <2>2. ASSUME NEW f \in Facts
        PROVE  \/ edges'[f] = edges[f]
               \/ edges'[f] = NoEdge /\ edges[f].invalid_at # SENTINEL
    BY <1>5, <2>1, <2>2 DEF Prune
  <2>3. CurrentFacts' = CurrentFacts
    BY <2>2, SetStays
  <2> QED
    BY <1>5, <2>3 DEF Prune
<1>6. ASSUME Tick \/ UNCHANGED vars PROVE owner' = owner /\ CurrentFacts' = CurrentFacts
  BY <1>6, SetStays DEF Tick, vars
<1> QED
  BY <1>1, <1>2, <1>3, <1>4, <1>5, <1>6 DEF Next

\* The engine of windows and clocks implements a plain set of current edges,
\* changed at once by each transaction by the rules of the relation: however
\* old the clocks the callers bring, however time passes and whatever the
\* retention prune deletes (mutate.py, retention_sweep.py).
THEOREM CurrentTheorem == Spec => CurrentPromise
<1>1. ASSUME Init PROVE Store!Init
  <2>1. \A f \in Facts : f \notin CurrentFacts
    BY <1>1, TimesNat DEF Init, CurrentFacts, Current, NoEdge
  <2>2. CurrentFacts = {}
    BY <2>1 DEF CurrentFacts
  <2> QED
    BY <1>1, <2>2 DEF Init, Store!Init
<1> QED
  BY <1>1, StoreNext, WindowInvariant, PTL DEF Spec, CurrentPromise, Store!Spec

=============================================================================

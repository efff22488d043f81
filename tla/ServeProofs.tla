---------------------------- MODULE ServeProofs -----------------------------
(* What a call of serve() promises, whatever happens to the graph under it:   *)
(* proofs of ActsOnFreshClaims and OnlyHumansGrant (the gate and the lease),  *)
(* then of TypeOK, FactFirst, Isolation, LeaksAreKnown (the self-check) and   *)
(* NoCliff, with the facts about fusion, sequences and windows they rest on.  *)
EXTENDS Serve, SequenceTheorems, FiniteSetTheorems, WellFoundedInduction, TLAPS

Fields == DOMAIN NoCall

\* A call is a record with the fields of NoCall, and executes only in Decide,
\* after which nothing but its return is left.
Shaped ==
    /\ call = [p \in Procs |-> call[p]]
    /\ \A p \in Procs : DOMAIN call[p] = Fields
    /\ \A p \in Procs : call[p].pc # "done" => call[p].executed = FALSE

Inv == Shaped /\ ActsOnFreshClaims

LEMMA FieldNames ==
    Fields = {"pc", "q", "keyword", "graph", "vector", "chunk", "total", "over", "fused",
              "fresh", "facts", "todo", "shown", "expand", "lines", "mentioned",
              "leaked", "host", "final", "autonomous", "executed", "lost", "gone"}
BY DEF Fields, NoCall

\* A step of p that keeps p's record shaped and its claims fresh keeps Inv.
LEMMA OneCall ==
    ASSUME Inv, NEW p \in Procs, NEW c, Goes(p, c),
           DOMAIN c = Fields,
           c.pc # "done" => c.executed = FALSE,
           c.executed => /\ c.autonomous
                         /\ c.facts # {} \/ c.host # "none"
                         /\ c.facts # {} => c.fresh
                         /\ c.host # "stale"
    PROVE  Inv'
<1>1. call' = [call EXCEPT ![p] = c]
  BY DEF Goes
<1>2. \A r \in Procs : call'[r] = IF r = p THEN c ELSE call[r]
  BY <1>1 DEF Inv, Shaped
<1>3. call' = [r \in Procs |-> call'[r]]
  BY <1>1 DEF Inv, Shaped
<1>4. Shaped'
  BY <1>2, <1>3 DEF Inv, Shaped
<1>5. ActsOnFreshClaims'
  BY <1>2 DEF Inv, ActsOnFreshClaims
<1> QED
  BY <1>4, <1>5 DEF Inv

\* A step of the call that is neither Decide nor already done.
LEMMA Working ==
    ASSUME Inv, NEW p \in Procs, NEW c, Goes(p, c),
           DOMAIN c = Fields, c.executed = FALSE
    PROVE  Inv'
BY OneCall

LEMMA StoreSteps ==
    ASSUME Inv, UNCHANGED call
    PROVE  Inv'
BY DEF Inv, Shaped, ActsOnFreshClaims

\* An erased key is noted in the calls that run, and nothing else of them changes.
LEMMA EraseSteps ==
    ASSUME Inv, NEW k \in Keys, Erase(k)
    PROVE  Inv'
<1>1. \A p \in Procs : call'[p] = call[p] \/ call'[p] = [call[p] EXCEPT !.lost = @ \cup {k}, !.gone = @ \cup {k}]
  BY DEF Erase
<1>2. call' = [p \in Procs |-> call'[p]]
  BY DEF Erase
<1>3. ASSUME NEW p \in Procs
      PROVE  /\ DOMAIN call'[p] = Fields
             /\ \A x \in Fields : x # "lost" /\ x # "gone" => call'[p][x] = call[p][x]
  BY <1>1 DEF Inv, Shaped
<1>4. ASSUME NEW p \in Procs
      PROVE  /\ DOMAIN call'[p] = Fields
             /\ call'[p].pc = call[p].pc /\ call'[p].executed = call[p].executed
             /\ call'[p].autonomous = call[p].autonomous /\ call'[p].facts = call[p].facts
             /\ call'[p].host = call[p].host /\ call'[p].fresh = call[p].fresh
  BY <1>3, FieldNames
<1> QED
  BY <1>2, <1>4 DEF Inv, Shaped, ActsOnFreshClaims

LEMMA RestartSteps ==
    ASSUME Inv, NEW p \in Procs, Restart(p)
    PROVE  Inv'
<1>1. \A r \in Procs : call'[r] = IF r = p THEN NoCall ELSE call[r]
  BY DEF Inv, Shaped, Restart
<1>2. NoCall.executed = FALSE
  BY DEF NoCall
<1>3. call' = [r \in Procs |-> call'[r]]
  BY DEF Inv, Shaped, Restart
<1>4. DOMAIN NoCall = Fields
  BY DEF Fields
<1> QED
  BY <1>1, <1>2, <1>3, <1>4 DEF Inv, Shaped, ActsOnFreshClaims

LEMMA ReturnSteps ==
    ASSUME Inv, NEW p \in Procs, Return(p)
    PROVE  Inv'
<1>1. NoCall.executed = FALSE /\ DOMAIN NoCall = Fields
  BY DEF NoCall, Fields
<1> QED
  BY <1>1, Working DEF Return

LEMMA AskSteps ==
    ASSUME Inv, NEW p \in Procs, NEW q, Ask(p, q)
    PROVE  Inv'
<1> DEFINE c == [NoCall EXCEPT !.pc = "keyword", !.q = q]
<1>1. DOMAIN c = Fields /\ c.executed = FALSE
  BY DEF NoCall, Fields
<1>2. Goes(p, c)
  BY DEF Ask
<1> QED
  BY <1>1, <1>2, Working

LEMMA RetrievalSteps ==
    ASSUME Inv, NEW p \in Procs,
           Keyword(p) \/ Graph(p) \/ Count(p) \/ NoEmbedder(p) \/ VectorRound(p)
             \/ Chunk(p) \/ Fuse(p)
    PROVE  Inv'
<1>1. DOMAIN call[p] = Fields
  BY DEF Inv, Shaped
<1>2. call[p].pc # "done" => call[p].executed = FALSE
  BY DEF Inv, Shaped
<1>3. CASE Keyword(p)
  BY <1>1, <1>2, <1>3, FieldNames, Working DEF Keyword, At
<1>4. CASE Graph(p)
  BY <1>1, <1>2, <1>4, FieldNames, Working DEF Graph, At
<1>5. CASE Count(p)
  BY <1>1, <1>2, <1>5, FieldNames, Working DEF Count, At
<1>6. CASE VectorRound(p)
  BY <1>1, <1>2, <1>6, FieldNames, Working DEF VectorRound, At
<1>7. CASE Chunk(p)
  BY <1>1, <1>2, <1>7, FieldNames, Working DEF Chunk, At
<1>8. CASE Fuse(p)
  BY <1>1, <1>2, <1>8, FieldNames, Working DEF Fuse, At
<1>9. CASE NoEmbedder(p)
  BY <1>1, <1>2, <1>9, FieldNames, Working DEF NoEmbedder, At
<1> QED
  BY <1>3, <1>4, <1>5, <1>6, <1>7, <1>8, <1>9

LEMMA CardSteps ==
    ASSUME Inv, NEW p \in Procs,
           ReadPrimary(p) \/ Compose(p) \/ Content(p)
             \/ IsolationCheck(p) \/ Join(p) \/ Drill(p)
    PROVE  Inv'
<1>1. DOMAIN call[p] = Fields
  BY DEF Inv, Shaped
<1>2. call[p].pc # "done" => call[p].executed = FALSE
  BY DEF Inv, Shaped
<1>3. CASE ReadPrimary(p)
  BY <1>1, <1>2, <1>3, FieldNames, Working DEF ReadPrimary, At
<1>4. CASE Compose(p)
  <2>1. \A c, k : DOMAIN c = Fields /\ c.executed = FALSE /\ AddCard(p, c, k) => Inv'
    BY FieldNames, Working DEF AddCard
  <2> DEFINE c == call[p]   k == Head(c.expand)
             ofTodo == [c EXCEPT !.todo = Tail(c.todo)]
             ended == [c EXCEPT !.pc = "isolation"]
             popped == [c EXCEPT !.expand = Tail(c.expand)]
             shown == [c EXCEPT !.expand = Tail(c.expand), !.shown = Append(c.shown, k)]
  <2>2. c.executed = FALSE
    BY <1>2, <1>4 DEF Compose, At
  <2>3. /\ DOMAIN ofTodo = Fields /\ ofTodo.executed = FALSE
        /\ DOMAIN ended = Fields /\ ended.executed = FALSE
        /\ DOMAIN popped = Fields /\ popped.executed = FALSE
        /\ DOMAIN shown = Fields /\ shown.executed = FALSE
    BY <1>1, <2>2, FieldNames
  <2>4. AddCard(p, ofTodo, Head(c.todo)) \/ Goes(p, ended) \/ Goes(p, popped) \/ AddCard(p, shown, k)
    BY <1>4 DEF Compose
  <2> HIDE DEF ofTodo, ended, popped, shown
  <2> QED
    BY <2>1, <2>3, <2>4, Working
<1>5. CASE Content(p)
  BY <1>1, <1>2, <1>5, FieldNames, Working DEF Content, At
<1>6. CASE IsolationCheck(p)
  BY <1>1, <1>2, <1>6, FieldNames, Working DEF IsolationCheck, At
<1>7. CASE Join(p)
  BY <1>1, <1>2, <1>7, FieldNames, Working DEF Join, At
<1>8. CASE Drill(p)
  BY <1>1, <1>2, <1>8, FieldNames, Working DEF Drill, At
<1> QED
  BY <1>3, <1>4, <1>5, <1>6, <1>7, <1>8

\* A decision to execute is a pass of claims none of which is hard.
LEMMA PassIsClean ==
    ASSUME NEW claims, NEW action, NEW sufficiency, NEW confidence,
           stage_a_decision(claims, action, sufficiency, confidence) = "pass"
    PROVE  ~Hard(claims)
BY DEF stage_a_decision, gate

LEMMA CleanClaims ==
    ASSUME NEW c, ~Hard(Claims(c))
    PROVE  /\ c.facts # {} \/ c.host # "none"
           /\ c.facts # {} => c.fresh
           /\ c.host # "stale"
<1> DEFINE graph == IF c.facts = {} THEN {} ELSE {~c.fresh}
           section == IF c.host = "none" THEN {} ELSE {c.host = "stale"}
           supported == {[support_status |-> "SUPPORTED", stale |-> s] : s \in graph \cup section}
<1>1. CASE supported = {}
  <2>1. [support_status |-> "UNSUPPORTED", stale |-> FALSE] \in Claims(c)
    BY <1>1 DEF Claims
  <2> QED
    BY <2>1 DEF Hard
<1>2. CASE supported # {}
  <2>1. Claims(c) = supported
    BY <1>2 DEF Claims
  <2>2. \A s \in graph \cup section : ~s
    <3> SUFFICES ASSUME NEW s \in graph \cup section, s
                 PROVE  FALSE
      OBVIOUS
    <3>1. [support_status |-> "SUPPORTED", stale |-> s] \in Claims(c)
      BY <2>1
    <3> QED
      BY <3>1 DEF Hard
  <2>3. c.facts # {} => c.fresh
    <3>1. c.facts # {} => (~c.fresh) \in graph
      OBVIOUS
    <3> QED
      BY <2>2, <3>1
  <2>4. c.host # "stale"
    <3>1. c.host # "none" => (c.host = "stale") \in section
      OBVIOUS
    <3> QED
      BY <2>2, <3>1
  <2>5. c.facts # {} \/ c.host # "none"
    BY <1>2
  <2> QED
    BY <2>3, <2>4, <2>5
<1> QED
  BY <1>1, <1>2

LEMMA DecideSteps ==
    ASSUME Inv, NEW p \in Procs, Decide(p)
    PROVE  Inv'
<1> DEFINE c == call[p]
<1>1. DOMAIN c = Fields
  BY DEF Inv, Shaped
<1>2. PICK confidence \in Confidence(c) :
         LET final == stage_a_decision(Claims(c), c.q.action, Coverage(c), confidence)
         IN  Goes(p, [c EXCEPT !.pc = "done", !.final = final,
                               !.autonomous = c.q.role \in leased[p],
                               !.executed = Executes(c.q.role \in leased[p], final)])
  BY DEF Decide
<1> DEFINE final == stage_a_decision(Claims(c), c.q.action, Coverage(c), confidence)
           d == [c EXCEPT !.pc = "done", !.final = final,
                          !.autonomous = c.q.role \in leased[p],
                          !.executed = Executes(c.q.role \in leased[p], final)]
<1>3. /\ DOMAIN d = Fields /\ d.pc = "done"
      /\ d.facts = c.facts /\ d.fresh = c.fresh /\ d.host = c.host
      /\ d.autonomous = (c.q.role \in leased[p])
      /\ d.executed = Executes(c.q.role \in leased[p], final)
  BY <1>1, FieldNames
<1>4. d.executed => final = "pass" /\ d.autonomous
  BY <1>3 DEF Executes
<1>5. final = "pass" => ~Hard(Claims(c))
  BY PassIsClean
<1>6. d.executed => /\ c.facts # {} \/ c.host # "none"
                    /\ c.facts # {} => c.fresh
                    /\ c.host # "stale"
  BY <1>4, <1>5, CleanClaims
<1>7. Goes(p, d)
  BY <1>2
<1> HIDE DEF d, c, final
<1> QED
  BY <1>3, <1>4, <1>6, <1>7, OneCall

\* The inductive invariant: types, and a call that executes only in its decision
\* on what it read (serve.py's last statements, abstain.execute).
THEOREM Invariance == Spec => []Inv
<1>1. Init => Inv
  <2> SUFFICES ASSUME Init PROVE Inv
    OBVIOUS
  <2>1. \A p \in Procs : call[p] = NoCall
    BY DEF Init
  <2>2. call = [p \in Procs |-> call[p]]
    BY DEF Init
  <2>3. NoCall.executed = FALSE /\ DOMAIN NoCall = Fields
    BY DEF NoCall, Fields
  <2> QED
    BY <2>1, <2>2, <2>3 DEF Inv, Shaped, ActsOnFreshClaims
<1>2. Inv /\ [Next]_vars => Inv'
  <2> SUFFICES ASSUME Inv, [Next]_vars PROVE Inv'
    OBVIOUS
  <2>1. CASE UNCHANGED vars
    BY <2>1, StoreSteps DEF vars
  <2>2. CASE Change
    <3>1. UNCHANGED call \/ \E k \in Keys : Erase(k)
      BY <2>2 DEF Change, Resolve, Mark, Embed, Apply, Retract, Writes
    <3> QED
      BY <3>1, StoreSteps, EraseSteps
  <2>3. CASE Govern
    <3>1. CASE \E p \in Procs : Restart(p)
      BY <3>1, RestartSteps
    <3>2. CASE \E r \in Roles : \/ Grant(r) \/ Withdraw(r)
                                 \/ \E p \in Procs, below \in BOOLEAN : auto_revert(p, r, below)
      <4>1. UNCHANGED call
        BY <3>2 DEF Grant, Withdraw, auto_revert
      <4> QED
        BY <4>1, StoreSteps
    <3> QED
      BY <2>3, <3>1, <3>2 DEF Govern
  <2>4. CASE \E p \in Procs : Answer(p)
    BY <2>4, RetrievalSteps, CardSteps, DecideSteps DEF Answer
  <2>5. CASE \E p \in Procs : Return(p) \/ \E q \in Queries : Ask(p, q)
    BY <2>5, ReturnSteps, AskSteps
  <2> QED
    BY <2>1, <2>2, <2>3, <2>4, <2>5 DEF Next
<1> QED
  BY <1>1, <1>2, PTL DEF Spec

\* An answer acts only for a leased role and only on claims that were current
\* and fresh as they were read: abstain.execute behind stage_a_decision, for
\* any graph, any query and any interleaving with writers and restarts.
THEOREM ActsTheorem == Spec => []ActsOnFreshClaims
<1>1. Inv => ActsOnFreshClaims
  BY DEF Inv
<1> QED
  BY <1>1, Invariance, PTL

\* The tables of leases: roles only.
Tables == granted \subseteq Roles /\ leased \in [Procs -> SUBSET Roles]

LEMMA LeaseStep ==
    ASSUME Tables, call = [p \in Procs |-> call[p]], [Next]_vars
    PROVE  /\ Tables'
           /\ \A p \in Procs : \/ leased'[p] \subseteq leased[p]
                               \/ leased'[p] = granted /\ call'[p] = NoCall
<1>1. CASE UNCHANGED leased /\ granted' \subseteq Roles
  BY <1>1 DEF Tables
<1>2. CASE \E p \in Procs, r \in Roles, below \in BOOLEAN : auto_revert(p, r, below)
  <2>1. PICK p \in Procs, r \in Roles, below \in BOOLEAN : auto_revert(p, r, below)
    BY <1>2
  <2>2. leased' = [leased EXCEPT ![p] = IF below THEN leased[p] \ {r} ELSE leased[p]]
    BY <2>1 DEF auto_revert
  <2>3. granted' = granted
    BY <2>1 DEF auto_revert
  <2> QED
    BY <2>2, <2>3 DEF Tables
<1>3. CASE \E p \in Procs : Restart(p)
  <2>1. PICK p \in Procs : Restart(p)
    BY <1>3
  <2>2. leased' = [leased EXCEPT ![p] = granted] /\ granted' = granted
    BY <2>1 DEF Restart
  <2>3. call'[p] = NoCall
    BY <2>1 DEF Restart
  <2> QED
    BY <2>2, <2>3 DEF Tables
<1>4. CASE \E p \in Procs : Answer(p) \/ Return(p) \/ \E q \in Queries : Ask(p, q)
  <2>1. PICK p \in Procs : Answer(p) \/ Return(p) \/ \E q \in Queries : Ask(p, q)
    BY <1>4
  <2>2. \A c : Goes(p, c) => UNCHANGED leased /\ granted' \subseteq Roles
    BY DEF Goes, lease, Tables
  <2>3. CASE \/ Keyword(p) \/ Graph(p) \/ Count(p) \/ NoEmbedder(p)
             \/ VectorRound(p) \/ Chunk(p) \/ Fuse(p)
    BY <1>1, <2>2, <2>3 DEF Keyword, Graph, Count, NoEmbedder, VectorRound, Chunk, Fuse
  <2>4. CASE ReadPrimary(p) \/ Content(p) \/ IsolationCheck(p) \/ Join(p) \/ Drill(p) \/ Decide(p)
    BY <1>1, <2>2, <2>4 DEF ReadPrimary, Content, IsolationCheck, Join, Drill, Decide
  <2>5. CASE Compose(p)
    BY <1>1, <2>2, <2>5 DEF Compose, AddCard
  <2>6. CASE Return(p) \/ \E q \in Queries : Ask(p, q)
    BY <1>1, <2>2, <2>6 DEF Return, Ask
  <2> QED
    BY <2>1, <2>3, <2>4, <2>5, <2>6 DEF Answer
<1>5. CASE Change \/ (\E r \in Roles : Grant(r) \/ Withdraw(r)) \/ UNCHANGED vars
  <2>1. UNCHANGED leased
    BY <1>5 DEF Change, Resolve, Mark, Embed, Erase, Apply, Retract, Writes,
                Grant, Withdraw, lease, vars
  <2>2. granted' \subseteq Roles
    BY <1>5 DEF Tables, Change, Resolve, Mark, Embed, Erase, Apply, Retract, Writes,
                Grant, Withdraw, lease, vars
  <2> QED
    BY <1>1, <2>1, <2>2
<1> QED
  BY <1>2, <1>3, <1>4, <1>5 DEF Next, Govern

\* No step of the program gives a process a role that the source does not
\* grant as it starts (abstain.py: revoke-only).
THEOREM LeaseTheorem == Spec => OnlyHumansGrant
<1> DEFINE Kept == \A p \in Procs : \/ leased'[p] \subseteq leased[p]
                                    \/ leased'[p] = granted /\ call'[p] = NoCall
<1>1. Init => Tables
  BY DEF Init, Tables
<1>2. Inv => call = [p \in Procs |-> call[p]]
  BY DEF Inv, Shaped
<1>3. Inv /\ Tables /\ [Next]_vars => Tables' /\ [Kept]_vars
  BY <1>2, LeaseStep
<1> QED
  BY <1>1, <1>3, Invariance, PTL DEF Spec, OnlyHumansGrant

\* Whose step it is: what a call does on its way is its own step.
LEMMA OwnStep ==
    ASSUME call = [r \in Procs |-> call[r]], \A r \in Procs : DOMAIN call[r] = DOMAIN NoCall,
           [Next]_vars, NEW p \in Procs,
           call[p].pc # "idle", call'[p].pc # "idle", call'[p].pc # call[p].pc
    PROVE  Answer(p)
<1>1. ~(UNCHANGED call)
  OBVIOUS
<1>2. ~Change
  <2>1. ASSUME NEW k \in Keys, Erase(k) PROVE FALSE
    <3>1. call'[p] = [call[p] EXCEPT !.lost = @ \cup {k}, !.gone = @ \cup {k}]
      BY <2>1 DEF Erase, At
    <3>2. call'[p].pc = call[p].pc
      BY <3>1 DEF NoCall
    <3> QED
      BY <3>2
  <2> QED
    BY <1>1, <2>1 DEF Change, Resolve, Mark, Embed, Apply, Retract, Writes
<1>3. /\ ~(\E r \in Roles : Grant(r) \/ Withdraw(r))
      /\ ~(\E r \in Roles, q \in Procs, below \in BOOLEAN : auto_revert(q, r, below))
      /\ ~UNCHANGED vars
  BY <1>1 DEF Grant, Withdraw, auto_revert, vars
<1>4. NoCall.pc = "idle"
  BY DEF NoCall
<1>5. ~(\E r \in Procs : Restart(r))
  <2> SUFFICES ASSUME NEW r \in Procs, Restart(r) PROVE FALSE
    OBVIOUS
  <2>1. call'[p] = IF r = p THEN NoCall ELSE call[p]
    BY DEF Restart
  <2> QED
    BY <1>4, <2>1
<1>6. PICK r \in Procs : Answer(r) \/ Return(r) \/ \E q \in Queries : Ask(r, q)
  BY <1>2, <1>3, <1>5 DEF Next, Govern
<1>7. \A c : Goes(r, c) => r = p /\ call'[p] = c
  BY DEF Goes
<1>8. ~Return(r)
  BY <1>4, <1>7 DEF Return
<1>9. ~(\E q \in Queries : Ask(r, q))
  BY <1>7 DEF Ask, At
<1>10. r = p
  <2>1. CASE \/ Keyword(r) \/ Graph(r) \/ Count(r) \/ NoEmbedder(r)
             \/ VectorRound(r) \/ Chunk(r) \/ Fuse(r)
    BY <1>7, <2>1 DEF Keyword, Graph, Count, NoEmbedder, VectorRound, Chunk, Fuse
  <2>2. CASE ReadPrimary(r) \/ Content(r) \/ IsolationCheck(r) \/ Join(r) \/ Drill(r) \/ Decide(r)
    BY <1>7, <2>2 DEF ReadPrimary, Content, IsolationCheck, Join, Drill, Decide
  <2>3. CASE Compose(r)
    BY <1>7, <2>3 DEF Compose, AddCard
  <2> QED
    BY <1>6, <1>8, <1>9, <2>1, <2>2, <2>3 DEF Answer
<1> QED
  BY <1>6, <1>8, <1>9, <1>10

-----------------------------------------------------------------------------
(* Induction and recursion over 1 .. n                                        *)

LEMMA Induct ==
    ASSUME NEW U, 0 \in U, \A n \in Nat : n \in U => n + 1 \in U
    PROVE  Nat \subseteq U
<1> SUFFICES ASSUME Nat \ U # {} PROVE FALSE
  OBVIOUS
<1>1. PICK n \in Nat \ U : \A m \in Nat \ U : ~(<<m, n>> \in OpToRel(<, Nat))
  <2> DEFINE M == Nat \ U
             R == OpToRel(<, Nat)
  <2>1. IsWellFoundedOn(R, Nat) /\ M \subseteq Nat /\ M # {}
    BY NatLessThanWellFounded
  <2> HIDE DEF M, R
  <2>2. \E x \in M : \A y \in M : ~(<<y, x>> \in R)
    BY <2>1, WFMin
  <2> QED
    BY <2>2 DEF M, R
<1>2. n # 0 /\ n - 1 \in Nat /\ n - 1 < n
  OBVIOUS
<1>3. <<n - 1, n>> \in OpToRel(<, Nat)
  BY <1>2 DEF OpToRel
<1>4. n - 1 \in U
  BY <1>1, <1>2, <1>3
<1>5. (n - 1) + 1 = n
  BY <1>2
<1>6. (n - 1) + 1 \in U
  BY <1>2, <1>4
<1> QED
  BY <1>1, <1>5, <1>6

Defined(X, a, n, step) == \E f \in [0..n -> X] : f[0] = a /\ \A i \in 1..n : f[i] = step[i][f[i - 1]]

\* What a recursion over 1 .. n defines, when each step is a function.
LEMMA Recursion ==
    ASSUME NEW X, NEW a \in X, NEW n \in Nat, NEW step \in [1..n -> [X -> X]]
    PROVE  Defined(X, a, n, step)
<1> DEFINE Upto(m) == \E f \in [0..m -> X] : f[0] = a /\ \A i \in 1..m : f[i] = step[i][f[i - 1]]
           U == {m \in Nat : m <= n => Upto(m)}
<1>1. 0 \in U
  <2> DEFINE f == [i \in 0..0 |-> a]
  <2>1. f \in [0..0 -> X] /\ f[0] = a /\ \A i \in 1..0 : f[i] = step[i][f[i - 1]]
    OBVIOUS
  <2>2. Upto(0)
    BY <2>1
  <2> QED
    BY <2>2
<1>2. ASSUME NEW m \in Nat, m \in U PROVE m + 1 \in U
  <2> SUFFICES ASSUME m + 1 <= n PROVE Upto(m + 1)
    OBVIOUS
  <2>1. Upto(m)
    <3> HIDE DEF Upto
    <3> QED
      BY <1>2
  <2>2. PICK f \in [0..m -> X] : f[0] = a /\ \A i \in 1..m : f[i] = step[i][f[i - 1]]
    BY <2>1
  <2> DEFINE g == [i \in 0..(m + 1) |-> IF i <= m THEN f[i] ELSE step[m + 1][f[m]]]
  <2>3. m + 1 \in 1..n /\ step[m + 1] \in [X -> X] /\ step[m + 1][f[m]] \in X
    BY <2>2
  <2>4. g \in [0..(m + 1) -> X]
    BY <2>2, <2>3
  <2>5. g[0] = a
    BY <2>2
  <2>6. ASSUME NEW i \in 1..(m + 1) PROVE g[i] = step[i][g[i - 1]]
    <3>1. CASE i <= m
      BY <2>2, <3>1
    <3>2. CASE ~(i <= m)
      <4>1. i = m + 1 /\ i - 1 = m
        BY <3>2
      <4> QED
        BY <3>2, <4>1
    <3> QED
      BY <3>1, <3>2
  <2> HIDE DEF g
  <2> QED
    BY <2>4, <2>5, <2>6
<1>3. n \in U
  <2> HIDE DEF U
  <2> QED
    BY <1>1, <1>2, Induct
<1> QED
  BY <1>3 DEF Defined

-----------------------------------------------------------------------------
(* Fusion                                                                     *)

LEMMA Least ==
    ASSUME NEW S, S \subseteq 1..4, S # {}
    PROVE  Min(S) \in S /\ \A y \in S : Min(S) <= y
<1>1. \E x \in S : \A y \in S : x <= y
  <2>1. CASE 1 \in S
    BY <2>1
  <2>2. CASE 1 \notin S /\ 2 \in S
    BY <2>2
  <2>3. CASE 1 \notin S /\ 2 \notin S /\ 3 \in S
    BY <2>3
  <2>4. CASE 1 \notin S /\ 2 \notin S /\ 3 \notin S
    <3>1. \A x \in S : x = 4
      BY <2>4
    <3>2. PICK x \in S : TRUE
      OBVIOUS
    <3> QED
      BY <3>1, <3>2
  <2> QED
    BY <2>1, <2>2, <2>3, <2>4
<1> QED
  BY <1>1 DEF Min

LEMMA Greatest ==
    ASSUME NEW w \in [1..4 -> Nat]
    PROVE  Max({w[i] : i \in 1..4}) \in Nat
<1> DEFINE S == {w[i] : i \in 1..4}
<1>1. \E i \in 1..4 : \A j \in 1..4 : w[i] >= w[j]
  OBVIOUS
<1>2. \E x \in S : \A y \in S : x >= y
  BY <1>1
<1>3. Max(S) \in S
  BY <1>2 DEF Max
<1> QED
  BY <1>3

\* The four rankings.
Four(r) == \A i \in 1..4 : r[Sources[i]] \in Seq(Keys)

LEMMA FourSources ==
    /\ DOMAIN Sources = 1..4
    /\ Sources[1] = "keyword" /\ Sources[2] = "graph" /\ Sources[3] = "vector" /\ Sources[4] = "chunk"
BY DEF Sources

\* The parts of a sum and of a product.
Adds(f, n, w) == f \in [0..n -> Nat] /\ f[0] = 0 /\ \A i \in 1..n : f[i] = f[i - 1] + w[i]

LEMMA SumExists ==
    ASSUME NEW n \in Nat, NEW w \in [1..n -> Nat]
    PROVE  \E f : Adds(f, n, w)
<1> DEFINE step == [i \in 1..n |-> [x \in Nat |-> x + w[i]]]
<1>1. step \in [1..n -> [Nat -> Nat]]
  OBVIOUS
<1>2. \A i \in 1..n, x \in Nat : step[i][x] = x + w[i]
  OBVIOUS
<1> HIDE DEF step
<1>3. Defined(Nat, 0, n, step)
  BY <1>1, Recursion
<1>4. PICK f \in [0..n -> Nat] : f[0] = 0 /\ \A i \in 1..n : f[i] = step[i][f[i - 1]]
  BY <1>3 DEF Defined
<1>5. ASSUME NEW i \in 1..n PROVE f[i] = f[i - 1] + w[i]
  <2>1. f[i - 1] \in Nat
    BY <1>4
  <2> QED
    BY <1>2, <1>4, <2>1
<1> QED
  BY <1>4, <1>5 DEF Adds

LEMMA UnitNat ==
    ASSUME NEW r, Four(r)
    PROVE  Unit(r) \in Nat
<1> DEFINE n == Max({Len(r[Sources[i]]) : i \in DOMAIN Sources})
           step == [i \in 1..n |-> [x \in Nat |-> (K + i) * x]]
           Is(g) == g = [i \in 0..n |-> IF i = 0 THEN 1 ELSE (K + i) * g[i - 1]]
<1>1. n \in Nat
  <2> DEFINE w == [i \in 1..4 |-> Len(r[Sources[i]])]
  <2>1. w \in [1..4 -> Nat]
    BY LenProperties DEF Four
  <2>2. n = Max({w[i] : i \in 1..4})
    <3>1. {Len(r[Sources[i]]) : i \in DOMAIN Sources} = {w[i] : i \in 1..4}
      BY FourSources
    <3> QED
      BY <3>1
  <2> HIDE DEF w, n
  <2> QED
    BY <2>1, <2>2, Greatest
<1> HIDE DEF n
<1>2. \A i \in 1..n : K + i \in Nat
  BY <1>1 DEF K
<1>3. \A i \in 1..n, x \in Nat : (K + i) * x \in Nat
  BY <1>2
<1>4. step \in [1..n -> [Nat -> Nat]]
  BY <1>3
<1>5. \A i \in 1..n, x \in Nat : step[i][x] = (K + i) * x
  OBVIOUS
<1> HIDE DEF step
<1>6. Defined(Nat, 1, n, step)
  BY <1>1, <1>4, Recursion
<1>7. PICK f \in [0..n -> Nat] : f[0] = 1 /\ \A i \in 1..n : f[i] = step[i][f[i - 1]]
  BY <1>6 DEF Defined
<1>8. ASSUME NEW i \in 1..n PROVE f[i] = (K + i) * f[i - 1]
  <2>1. f[i - 1] \in Nat
    BY <1>1, <1>7
  <2> QED
    BY <1>5, <1>7, <2>1
<1>9. Is(f)
  BY <1>1, <1>7, <1>8
<1> DEFINE u == CHOOSE g : Is(g)
<1>10. Is(u)
  BY <1>9
<1>11. Unit(r) = u[n]
  BY DEF Unit, n
<1> HIDE DEF u
<1> DEFINE U == {i \in Nat : i <= n => u[i] \in Nat}
<1>12. 0 \in U
  BY <1>1, <1>10
<1>13. ASSUME NEW i \in Nat, i \in U PROVE i + 1 \in U
  <2>1. CASE i + 1 <= n
    <3>1. u[i + 1] = (K + (i + 1)) * u[i]
      BY <1>1, <1>10, <2>1
    <3>2. i + 1 \in 1..n /\ u[i] \in Nat
      BY <1>1, <1>13, <2>1
    <3>3. (K + (i + 1)) * u[i] \in Nat
      BY <1>3, <3>2
    <3> QED
      BY <3>1, <3>3
  <2> QED
    BY <2>1
<1>14. n \in U
  <2> HIDE DEF U
  <2> QED
    BY <1>1, <1>12, <1>13, Induct
<1> QED
  BY <1>1, <1>11, <1>14

Vote(r, d, u, i) == IF r[i] = d THEN u \div (K + i) ELSE 0

LEMMA DivNat ==
    ASSUME NEW u \in Nat, NEW i \in Nat \ {0}
    PROVE  u \div (K + i) \in Nat /\ u \div (K + i) <= u \div (K + 1)
<1>1. u \div (K + i) \in Nat /\ u \div 61 \in Nat
  BY DEF K
<1> DEFINE b == K + i   q == u \div b   t == u \div 61
<1>2. b \in Nat /\ b >= 61
  BY DEF K
<1>3. u >= b * q
  BY <1>2
<1>4. u < 61 * (t + 1)
  OBVIOUS
<1>5. b * q >= 61 * q
  BY <1>1, <1>2
<1>6. 61 * q < 61 * (t + 1)
  BY <1>1, <1>2, <1>3, <1>4, <1>5
<1>7. q <= t
  BY <1>1, <1>6
<1> QED
  BY <1>1, <1>7 DEF K

LEMMA Weighed ==
    ASSUME NEW u \in Nat, NEW n \in Nat, NEW i \in 1..n
    PROVE  u \div (K + i) \in Nat
<1>1. i \in Nat \ {0}
  OBVIOUS
<1> QED
  BY <1>1, DivNat

LEMMA VotesAdd ==
    ASSUME NEW r \in Seq(Keys), NEW d, NEW u \in Nat
    PROVE  \E f : /\ Adds(f, Len(r), [i \in 1..Len(r) |-> Vote(r, d, u, i)])
                  /\ Votes(r, d, u) = f[Len(r)]
<1> DEFINE n == Len(r)
           w == [i \in 1..n |-> Vote(r, d, u, i)]
           Is(g) == g = [i \in 0..n |->
                        IF i = 0 THEN 0
                        ELSE g[i - 1] + (IF r[i] = d THEN u \div (K + i) ELSE 0)]
<1>1. n \in Nat
  BY LenProperties
<1>2. w \in [1..n -> Nat]
  <2>1. ASSUME NEW i \in 1..n PROVE Vote(r, d, u, i) \in Nat
    <3>1. i \in Nat \ {0}
      BY <1>1
    <3>2. u \div (K + i) \in Nat
      BY <3>1, DivNat
    <3> QED
      BY <3>2 DEF Vote
  <2> QED
    BY <2>1
<1>3. \A i \in 1..n : w[i] = IF r[i] = d THEN u \div (K + i) ELSE 0
  BY DEF Vote
<1>4. Votes(r, d, u) = (CHOOSE g : Is(g))[n]
  BY DEF Votes
<1> HIDE DEF w, n
<1>5. PICK f : Adds(f, n, w)
  BY <1>1, <1>2, SumExists
<1>6. Is(f)
  BY <1>1, <1>3, <1>5 DEF Adds
<1> DEFINE g == CHOOSE h : Is(h)
<1>7. Is(g)
  BY <1>6
<1> DEFINE U == {i \in Nat : i <= n => g[i] = f[i]}
<1> HIDE DEF g
<1>8. 0 \in U
  BY <1>1, <1>5, <1>7 DEF Adds
<1>9. ASSUME NEW i \in Nat, i \in U PROVE i + 1 \in U
  <2>1. CASE i + 1 <= n
    <3>1. g[i + 1] = g[i] + (IF r[i + 1] = d THEN u \div (K + (i + 1)) ELSE 0)
      BY <1>1, <1>7, <2>1
    <3>2. f[i + 1] = f[i] + w[i + 1]
      BY <1>1, <1>5, <2>1 DEF Adds
    <3>3. w[i + 1] = IF r[i + 1] = d THEN u \div (K + (i + 1)) ELSE 0
      BY <1>1, <1>3, <2>1
    <3>4. g[i] = f[i]
      BY <1>1, <1>9, <2>1
    <3> QED
      BY <3>1, <3>2, <3>3, <3>4
  <2> QED
    BY <2>1
<1>10. n \in U
  <2> HIDE DEF U
  <2> QED
    BY <1>1, <1>8, <1>9, Induct
<1>11. Votes(r, d, u) = f[n]
  BY <1>1, <1>4, <1>10 DEF g
<1> QED
  BY <1>5, <1>11 DEF w, n

LEMMA VotesNat ==
    ASSUME NEW r \in Seq(Keys), NEW d, NEW u \in Nat
    PROVE  Votes(r, d, u) \in Nat
<1>1. Len(r) \in Nat
  BY LenProperties
<1> QED
  BY <1>1, VotesAdd DEF Adds

\* Every place of d counts...
LEMMA VotesOfPlace ==
    ASSUME NEW r \in Seq(Keys), NEW d, NEW u \in Nat, NEW j \in 1..Len(r), r[j] = d
    PROVE  Votes(r, d, u) >= u \div (K + j)
<1> DEFINE n == Len(r)
           w == [i \in 1..n |-> Vote(r, d, u, i)]
<1>1. n \in Nat /\ j \in 1..n
  BY LenProperties
<1>2. PICK f : Adds(f, n, w) /\ Votes(r, d, u) = f[n]
  BY VotesAdd
<1>3. w[j] = u \div (K + j)
  BY DEF Vote
<1> HIDE DEF n
<1>4. u \div (K + j) \in Nat
  BY <1>1, Weighed
<1>5. \A i \in 1..n : w[i] \in Nat
  <2>1. ASSUME NEW i \in 1..n PROVE w[i] \in Nat
    <3>1. u \div (K + i) \in Nat
      BY <1>1, Weighed
    <3> QED
      BY <3>1 DEF Vote
  <2> QED
    BY <2>1
<1> HIDE DEF w
<1> DEFINE U == {i \in Nat : j <= i /\ i <= n => f[i] >= u \div (K + j)}
<1>6. 0 \in U
  BY <1>1
<1>7. ASSUME NEW i \in Nat, i \in U PROVE i + 1 \in U
  <2>1. CASE j <= i + 1 /\ i + 1 <= n
    <3>1. f[i + 1] = f[i] + w[i + 1] /\ f[i] \in Nat /\ w[i + 1] \in Nat
      BY <1>1, <1>2, <1>5, <2>1 DEF Adds
    <3>2. CASE j = i + 1
      BY <1>3, <1>4, <3>1, <3>2
    <3>3. CASE j # i + 1
      <4>1. f[i] >= u \div (K + j)
        BY <1>1, <1>7, <2>1, <3>3
      <4> QED
        BY <1>4, <3>1, <4>1
    <3> QED
      BY <3>2, <3>3
  <2> QED
    BY <2>1
<1>8. n \in U
  <2> HIDE DEF U
  <2> QED
    BY <1>1, <1>6, <1>7, Induct
<1> QED
  BY <1>1, <1>2, <1>8

\* ... and nothing else does.
LEMMA VotesOfOne ==
    ASSUME NEW r \in Seq(Keys), NEW d, NEW u \in Nat, NEW j \in 1..(Len(r) + 1),
           \A i \in 1..Len(r) : r[i] = d => i = j
    PROVE  Votes(r, d, u) <= IF j = Len(r) + 1 THEN 0 ELSE u \div (K + j)
<1> DEFINE n == Len(r)
           w == [i \in 1..n |-> Vote(r, d, u, i)]
           most(i) == IF j <= i THEN u \div (K + j) ELSE 0
<1>1. n \in Nat /\ j \in 1..(n + 1)
  BY LenProperties
<1>2. PICK f : Adds(f, n, w) /\ Votes(r, d, u) = f[n]
  BY VotesAdd
<1>3. \A i \in 1..n : w[i] <= IF i = j THEN u \div (K + j) ELSE 0
  <2>1. ASSUME NEW i \in 1..n PROVE w[i] <= IF i = j THEN u \div (K + j) ELSE 0
    <3>1. u \div (K + j) \in Nat
      <4>1. j \in 1..(n + 1) /\ n + 1 \in Nat
        BY <1>1
      <4> QED
        BY <4>1, Weighed
    <3>2. r[i] = d => i = j
      OBVIOUS
    <3>3. w[i] = IF r[i] = d THEN u \div (K + i) ELSE 0
      BY DEF Vote
    <3> QED
      BY <3>1, <3>2, <3>3
  <2> QED
    BY <2>1
<1> HIDE DEF n
<1>4. u \div (K + j) \in Nat
  <2>1. n + 1 \in Nat
    BY <1>1
  <2> QED
    BY <1>1, <2>1, Weighed
<1>5. \A i \in 1..n : w[i] \in Nat
  <2>1. ASSUME NEW i \in 1..n PROVE w[i] \in Nat
    <3>1. u \div (K + i) \in Nat
      BY <1>1, Weighed
    <3> QED
      BY <3>1 DEF Vote
  <2> QED
    BY <2>1
<1> HIDE DEF w
<1> DEFINE U == {i \in Nat : i <= n => f[i] <= most(i)}
<1>6. 0 \in U
  BY <1>1, <1>2 DEF Adds
<1>7. ASSUME NEW i \in Nat, i \in U PROVE i + 1 \in U
  <2>1. CASE i + 1 <= n
    <3>1. f[i + 1] = f[i] + w[i + 1] /\ f[i] \in Nat /\ w[i + 1] \in Nat
      BY <1>1, <1>2, <1>5, <2>1 DEF Adds
    <3>2. f[i] <= most(i)
      BY <1>1, <1>7, <2>1
    <3>3. w[i + 1] <= IF i + 1 = j THEN u \div (K + j) ELSE 0
      BY <1>1, <1>3, <2>1
    <3> QED
      BY <1>1, <1>4, <2>1, <3>1, <3>2, <3>3
  <2> QED
    BY <2>1
<1>8. n \in U
  <2> HIDE DEF U
  <2> QED
    BY <1>1, <1>6, <1>7, Induct
<1>9. f[n] <= most(n)
  BY <1>1, <1>8
<1> QED
  BY <1>1, <1>2, <1>9 DEF n

LEMMA ScoreParts ==
    ASSUME NEW r, Four(r), NEW d
    PROVE  /\ \A i \in 1..4 : Votes(r[Sources[i]], d, Unit(r)) \in Nat
           /\ Score(r, d) = Votes(r[Sources[1]], d, Unit(r)) + Votes(r[Sources[2]], d, Unit(r))
                            + Votes(r[Sources[3]], d, Unit(r)) + Votes(r[Sources[4]], d, Unit(r))
<1>1. \A i \in 1..4 : Votes(r[Sources[i]], d, Unit(r)) \in Nat
  <2>1. ASSUME NEW i \in 1..4 PROVE Votes(r[Sources[i]], d, Unit(r)) \in Nat
    <3>1. r[Sources[i]] \in Seq(Keys)
      BY DEF Four
    <3> QED
      BY <3>1, UnitNat, VotesNat
  <2> QED
    BY <2>1
<1> QED
  BY <1>1, FourSources DEF Score

LEMMA RankedIs ==
    ASSUME NEW r, Four(r), NEW d
    PROVE  d \in Ranked(r) <=> \E i \in 1..4 : d \in ToSet(r[Sources[i]])
BY FourSources DEF Ranked

LEMMA PriorityIs ==
    ASSUME NEW r, Four(r), NEW d \in Ranked(r)
    PROVE  /\ Priority(r, d) \in 1..4
           /\ d \in ToSet(r[Sources[Priority(r, d)]])
           /\ \A i \in 1..4 : d \in ToSet(r[Sources[i]]) => Priority(r, d) <= i
<1> DEFINE S == {p[1] : p \in Places(r, d)}
<1>1. \A i \in 1..4 : i \in S <=> d \in ToSet(r[Sources[i]])
  <2>1. ASSUME NEW i \in 1..4, d \in ToSet(r[Sources[i]]) PROVE i \in S
    <3>1. PICK j \in DOMAIN r[Sources[i]] : r[Sources[i]][j] = d
      BY <2>1 DEF ToSet
    <3>2. <<i, j>> \in Places(r, d)
      BY <3>1, FourSources DEF Places
    <3> QED
      BY <3>2
  <2>2. ASSUME NEW i \in 1..4, i \in S PROVE d \in ToSet(r[Sources[i]])
    <3>1. PICK p \in Places(r, d) : p[1] = i
      BY <2>2
    <3> QED
      BY <3>1, FourSources DEF Places, ToSet
  <2> QED
    BY <2>1, <2>2
<1>2. S \subseteq 1..4
  BY FourSources DEF Places
<1>3. S # {}
  BY <1>1, RankedIs
<1>4. Priority(r, d) = Min(S)
  BY DEF Priority
<1> HIDE DEF S
<1>5. Min(S) \in S /\ \A y \in S : Min(S) <= y
  BY <1>2, <1>3, Least
<1> QED
  BY <1>1, <1>2, <1>4, <1>5

\* A sequence of all the elements of a finite set.
LEMMA Enumerates ==
    ASSUME NEW S, IsFiniteSet(S), NEW s \in SetToSeqs(S)
    PROVE  s \in Seq(S) /\ ToSet(s) = S /\ Len(s) = Cardinality(S) /\ IsInjective(s) /\ DOMAIN s = 1..Len(s)
<1> DEFINE n == Cardinality(S)
<1>1. n \in Nat
  BY FS_CardinalityType
<1>2. s \in [1..n -> S] /\ IsInjective(s)
  BY DEF SetToSeqs, IsInjective
<1>3. s \in Injection(1..n, S)
  BY <1>2 DEF Injection, IsInjective
<1>4. Cardinality(1..n) = n
  BY <1>1, FS_Interval
<1> HIDE DEF n
<1>5. s \in Surjection(1..n, S)
  BY <1>3, <1>4, FS_Injection DEF n
<1>6. ToSet(s) = S
  BY <1>2, <1>5 DEF Surjection, ToSet
<1> QED
  BY <1>1, <1>2, <1>6 DEF n

LEMMA Ordering ==
    ASSUME NEW r, Four(r), ServeAssumption, NEW s \in rrf(r)
    PROVE  /\ s \in Seq(Keys) /\ ToSet(s) = Ranked(r) /\ DOMAIN s = 1..Len(s)
           /\ \A i, j \in 1..Len(s) : i < j => Before(r, s[i], s[j])
<1> DEFINE S == Ranked(r)
<1>1. S \subseteq Keys
  BY FourSources DEF Ranked, Four, ToSet
<1>2. IsFiniteSet(S)
  BY <1>1, FS_Subset DEF ServeAssumption
<1>3. s \in SetToSeqs(S) /\ \A i, j \in DOMAIN s : i < j => Before(r, s[i], s[j])
  BY DEF rrf, Orders
<1> HIDE DEF S
<1>4. s \in Seq(S) /\ ToSet(s) = S /\ DOMAIN s = 1..Len(s)
  BY <1>2, <1>3, Enumerates
<1> QED
  BY <1>1, <1>3, <1>4 DEF S

\* The best of an exact ranking is before all that only vectors and passages found.
LEMMA ExactLeads ==
    ASSUME NEW r, Four(r), ServeAssumption, NEW d \in Ranked(r),
           NEW i \in 1..2, r[Sources[i]] # <<>>,
           d \notin ToSet(r[Sources[1]]), d \notin ToSet(r[Sources[2]]),
           IsInjective(r[Sources[3]]), IsInjective(r[Sources[4]]),
           ToSet(r[Sources[3]]) \cap ToSet(r[Sources[4]]) = {}
    PROVE  /\ Before(r, r[Sources[i]][1], d)
           /\ r[Sources[i]][1] \in Ranked(r)
<1> DEFINE e == r[Sources[i]][1]
           u == Unit(r)
           V(j, k) == Votes(r[Sources[j]], k, u)
<1>1. u \in Nat
  BY UnitNat
<1> HIDE DEF u
<1>2. \A j \in 1..4 : r[Sources[j]] \in Seq(Keys)
  BY DEF Four
<1>3. r[Sources[i]] \in Seq(Keys) /\ 1 \in 1..Len(r[Sources[i]]) /\ e \in ToSet(r[Sources[i]])
  <2>1. r[Sources[i]] \in Seq(Keys)
    BY <1>2
  <2>2. Len(r[Sources[i]]) \in Nat /\ Len(r[Sources[i]]) # 0 /\ DOMAIN r[Sources[i]] = 1..Len(r[Sources[i]])
    BY <2>1, LenProperties, EmptySeq
  <2> QED
    BY <2>1, <2>2 DEF ToSet
<1>4. e \in Ranked(r)
  BY <1>3, RankedIs
<1>5. V(i, e) >= u \div (K + 1)
  BY <1>1, <1>3, VotesOfPlace
<1>6. Score(r, e) >= u \div (K + 1) /\ Score(r, e) \in Nat
  <2>1. \A j \in 1..4 : V(j, e) \in Nat
    BY ScoreParts DEF u
  <2>2. Score(r, e) = V(1, e) + V(2, e) + V(3, e) + V(4, e)
    BY ScoreParts DEF u
  <2>3. u \div (K + 1) \in Nat
    BY <1>1 DEF K
  <2> HIDE DEF V
  <2> QED
    BY <1>5, <2>1, <2>2, <2>3
\* d has at most one place in a ranking, and none in three of them
<1>7. \A j \in 1..4 : d \notin ToSet(r[Sources[j]]) => V(j, d) = 0
  <2>1. ASSUME NEW j \in 1..4, d \notin ToSet(r[Sources[j]]) PROVE V(j, d) = 0
    <3> DEFINE q == r[Sources[j]]
    <3>1. q \in Seq(Keys) /\ Len(q) \in Nat /\ DOMAIN q = 1..Len(q)
      BY <1>2, LenProperties
    <3>2. \A k \in 1..Len(q) : q[k] # d
      BY <2>1, <3>1 DEF ToSet
    <3>3. Len(q) + 1 \in 1..(Len(q) + 1)
      BY <3>1
    <3> HIDE DEF q
    <3>4. Votes(q, d, u) <= IF Len(q) + 1 = Len(q) + 1 THEN 0 ELSE u \div (K + (Len(q) + 1))
      BY <1>1, <3>1, <3>2, <3>3, VotesOfOne
    <3>5. Votes(q, d, u) \in Nat
      BY <1>1, <3>1, VotesNat
    <3> QED
      BY <3>4, <3>5 DEF q
  <2> QED
    BY <2>1
<1>8. ASSUME NEW j \in 3..4, d \in ToSet(r[Sources[j]]) PROVE V(j, d) <= u \div (K + 1)
  <2> DEFINE q == r[Sources[j]]
  <2>1. q \in Seq(Keys) /\ Len(q) \in Nat /\ DOMAIN q = 1..Len(q)
    BY <1>2, LenProperties
  <2>2. PICK k \in 1..Len(q) : q[k] = d
    BY <1>8, <2>1 DEF ToSet
  <2>3. \A m \in 1..Len(q) : q[m] = d => m = k
    <3>1. IsInjective(q)
      BY <1>8
    <3> QED
      BY <2>1, <2>2, <3>1 DEF IsInjective
  <2>4. k \in 1..(Len(q) + 1) /\ k # Len(q) + 1 /\ k \in Nat \ {0}
    BY <2>1
  <2> HIDE DEF q
  <2>5. Votes(q, d, u) <= IF k = Len(q) + 1 THEN 0 ELSE u \div (K + k)
    BY <1>1, <2>1, <2>3, <2>4, VotesOfOne
  <2>6. Votes(q, d, u) <= u \div (K + k)
    BY <2>4, <2>5
  <2>7. u \div (K + k) \in Nat /\ u \div (K + k) <= u \div (K + 1)
    BY <1>1, <2>4, DivNat
  <2>8. u \div (K + 1) \in Nat
    BY <1>1 DEF K
  <2>9. Votes(q, d, u) \in Nat
    BY <1>1, <2>1, VotesNat
  <2>10. Votes(q, d, u) <= u \div (K + 1)
    BY <2>6, <2>7, <2>8, <2>9
  <2> QED
    BY <2>10 DEF q
<1>9. Score(r, d) <= u \div (K + 1) /\ Score(r, d) \in Nat
  <2>1. \A j \in 1..4 : V(j, d) \in Nat
    BY ScoreParts DEF u
  <2>2. Score(r, d) = V(1, d) + V(2, d) + V(3, d) + V(4, d)
    BY ScoreParts DEF u
  <2>3. u \div (K + 1) \in Nat
    BY <1>1 DEF K
  <2>4. V(1, d) = 0 /\ V(2, d) = 0
    BY <1>7
  <2>5. V(3, d) = 0 \/ V(4, d) = 0
    BY <1>7
  <2>6. V(3, d) <= u \div (K + 1) /\ V(4, d) <= u \div (K + 1)
    <3>1. ASSUME NEW j \in 3..4 PROVE V(j, d) <= u \div (K + 1)
      <4>1. CASE d \in ToSet(r[Sources[j]])
        BY <1>8, <4>1
      <4>2. CASE d \notin ToSet(r[Sources[j]])
        <5>1. V(j, d) = 0
          BY <1>7, <4>2
        <5> HIDE DEF V
        <5> QED
          BY <2>3, <5>1
      <4> QED
        BY <4>1, <4>2
    <3> HIDE DEF V
    <3> QED
      BY <3>1
  <2>7. V(1, d) \in Nat /\ V(2, d) \in Nat /\ V(3, d) \in Nat /\ V(4, d) \in Nat
    BY <2>1
  <2> HIDE DEF V
  <2>8. CASE V(3, d) = 0
    BY <2>2, <2>3, <2>4, <2>6, <2>7, <2>8
  <2>9. CASE V(4, d) = 0
    BY <2>2, <2>3, <2>4, <2>6, <2>7, <2>9
  <2> QED
    BY <2>5, <2>8, <2>9
<1>10. Priority(r, e) \in 1..2
  <2>1. Priority(r, e) \in 1..4 /\ Priority(r, e) <= i
    BY <1>3, <1>4, PriorityIs
  <2> QED
    BY <2>1
<1>11. Priority(r, d) \in 3..4
  <2>1. Priority(r, d) \in 1..4 /\ d \in ToSet(r[Sources[Priority(r, d)]])
    BY PriorityIs
  <2>2. Priority(r, d) # 1 /\ Priority(r, d) # 2
    BY <2>1
  <2> QED
    BY <2>1, <2>2
<1>12. Score(r, e) > Score(r, d) \/ Score(r, e) = Score(r, d)
  <2>1. u \div (K + 1) \in Nat
    BY <1>1 DEF K
  <2> QED
    BY <1>6, <1>9, <2>1
<1>13. Priority(r, e) < Priority(r, d)
  BY <1>10, <1>11
<1>14. Before(r, e, d)
  BY <1>12, <1>13 DEF Before
<1> QED
  BY <1>4, <1>14

\* So what is first in the fusion is exact.
LEMMA ExactFirst ==
    ASSUME NEW r, Four(r), ServeAssumption, NEW s \in rrf(r),
           NEW i \in 1..2, r[Sources[i]] # <<>>,
           IsInjective(r[Sources[3]]), IsInjective(r[Sources[4]]),
           ToSet(r[Sources[3]]) \cap ToSet(r[Sources[4]]) = {},
           s # <<>>
    PROVE  s[1] \in ToSet(r[Sources[1]]) \cup ToSet(r[Sources[2]])
<1> SUFFICES ASSUME s[1] \notin ToSet(r[Sources[1]]), s[1] \notin ToSet(r[Sources[2]])
             PROVE  FALSE
  OBVIOUS
<1> DEFINE d == s[1]   e == r[Sources[i]][1]
<1>1. /\ s \in Seq(Keys) /\ ToSet(s) = Ranked(r) /\ DOMAIN s = 1..Len(s)
      /\ \A j, k \in 1..Len(s) : j < k => Before(r, s[j], s[k])
  BY Ordering
<1>2. Len(s) \in Nat /\ Len(s) # 0
  BY <1>1, LenProperties, EmptySeq
<1>3. d \in Ranked(r)
  BY <1>1, <1>2 DEF ToSet
<1>4. Before(r, e, d) /\ e \in Ranked(r)
  BY <1>3, ExactLeads
<1>5. PICK k \in 1..Len(s) : s[k] = e
  BY <1>1, <1>4 DEF ToSet
<1>6. {d, e} \subseteq Keys /\ Keys \subseteq Nat
  BY <1>1, <1>2, <1>5 DEF ServeAssumption
<1>7. Score(r, d) \in Nat /\ Score(r, e) \in Nat
  <2>1. ASSUME NEW k1 PROVE Score(r, k1) \in Nat
    <3>1. \A j \in 1..4 : Votes(r[Sources[j]], k1, Unit(r)) \in Nat
      BY ScoreParts
    <3>2. Score(r, k1) = Votes(r[Sources[1]], k1, Unit(r)) + Votes(r[Sources[2]], k1, Unit(r))
                        + Votes(r[Sources[3]], k1, Unit(r)) + Votes(r[Sources[4]], k1, Unit(r))
      BY ScoreParts
    <3> QED
      BY <3>1, <3>2
  <2> QED
    BY <2>1
<1>8. Priority(r, d) \in 1..4 /\ Priority(r, e) \in 1..4
  BY <1>3, <1>4, PriorityIs
<1>9. Before(r, d, e) \/ d = e
  BY <1>1, <1>2, <1>5
<1> HIDE DEF d, e
<1>10. d \in Nat /\ e \in Nat
  BY <1>6
<1>11. \A a, b : Before(r, a, b) <=>
          \/ Score(r, a) > Score(r, b)
          \/ Score(r, a) = Score(r, b) /\ Priority(r, a) < Priority(r, b)
          \/ Score(r, a) = Score(r, b) /\ Priority(r, a) = Priority(r, b) /\ a < b
  BY DEF Before
<1>12. ~Before(r, e, d) \/ ~Before(r, d, e)
  BY <1>7, <1>8, <1>10, <1>11
<1>13. d # e
  BY <1>4, <1>7, <1>8, <1>10, <1>11
<1> QED
  BY <1>4, <1>9, <1>12, <1>13

-----------------------------------------------------------------------------
(* Sequences and what is in them                                              *)

LEMMA InSeq ==
    ASSUME NEW S, NEW s \in Seq(S)
    PROVE  /\ Len(s) \in Nat /\ DOMAIN s = 1..Len(s) /\ ToSet(s) \subseteq S
           /\ s # <<>> => Len(s) # 0
           /\ s # <<>> => s[1] \in ToSet(s) /\ s[1] \in S
<1>1. Len(s) \in Nat /\ DOMAIN s = 1..Len(s) /\ \A i \in 1..Len(s) : s[i] \in S
  BY LenProperties, ElementOfSeq
<1>2. s # <<>> => Len(s) # 0
  BY <1>1, EmptySeq
<1> QED
  BY <1>1, <1>2 DEF ToSet

LEMMA HeadTailIn ==
    ASSUME NEW S, NEW s \in Seq(S), s # <<>>
    PROVE  /\ Head(s) \in S /\ Tail(s) \in Seq(S)
           /\ Head(s) \in ToSet(s) /\ ToSet(Tail(s)) \subseteq ToSet(s)
<1>1. /\ Head(s) \in S /\ Tail(s) \in Seq(S) /\ Len(Tail(s)) = Len(s) - 1
      /\ \A i \in 1..Len(Tail(s)) : Tail(s)[i] = s[i + 1]
  BY HeadTailProperties
<1>2. Len(s) \in Nat /\ DOMAIN s = 1..Len(s) /\ Len(s) # 0
  BY InSeq
<1>3. Head(s) = s[1]
  BY <1>2
<1>4. DOMAIN Tail(s) = 1..Len(Tail(s))
  BY <1>1, InSeq
<1>5. ToSet(Tail(s)) \subseteq ToSet(s)
  <2> SUFFICES ASSUME NEW i \in 1..Len(Tail(s)) PROVE Tail(s)[i] \in ToSet(s)
    BY <1>4 DEF ToSet
  <2>1. i + 1 \in DOMAIN s /\ Tail(s)[i] = s[i + 1]
    BY <1>1, <1>2
  <2> QED
    BY <2>1 DEF ToSet
<1> QED
  BY <1>1, <1>2, <1>3, <1>5 DEF ToSet

LEMMA AppendIn ==
    ASSUME NEW S, NEW s \in Seq(S), NEW e \in S
    PROVE  /\ Append(s, e) \in Seq(S) /\ ToSet(Append(s, e)) = ToSet(s) \cup {e}
           /\ IsInjective(s) /\ e \notin ToSet(s) => IsInjective(Append(s, e))
<1> DEFINE a == Append(s, e)
<1>1. /\ a \in Seq(S) /\ Len(a) = Len(s) + 1 /\ \A i \in 1..Len(s) : a[i] = s[i]
      /\ a[Len(s) + 1] = e
  BY AppendProperties
<1> HIDE DEF a
<1>2. Len(s) \in Nat /\ DOMAIN s = 1..Len(s) /\ DOMAIN a = 1..(Len(s) + 1)
  <2>1. DOMAIN a = 1..Len(a)
    BY <1>1, InSeq
  <2> QED
    BY <1>1, <2>1, InSeq
<1>3. \A i \in DOMAIN a : i \in DOMAIN s \/ i = Len(s) + 1
  BY <1>2
<1>4. ToSet(a) = ToSet(s) \cup {e}
  <2>1. ToSet(a) \subseteq ToSet(s) \cup {e}
    BY <1>1, <1>2, <1>3 DEF ToSet
  <2>2. ToSet(s) \subseteq ToSet(a)
    <3>1. \A i \in DOMAIN s : i \in DOMAIN a /\ a[i] = s[i]
      BY <1>1, <1>2
    <3> QED
      BY <3>1 DEF ToSet
  <2>3. e \in ToSet(a)
    <3>1. Len(s) + 1 \in DOMAIN a
      BY <1>2
    <3> QED
      BY <1>1, <3>1 DEF ToSet
  <2> QED
    BY <2>1, <2>2, <2>3
<1>5. ASSUME IsInjective(s), e \notin ToSet(s) PROVE IsInjective(a)
  <2>1. \A i \in DOMAIN s : s[i] # e
    BY <1>5 DEF ToSet
  <2> QED
    BY <1>1, <1>2, <1>3, <1>5, <2>1 DEF IsInjective
<1> QED
  BY <1>1, <1>4, <1>5 DEF a

LEMMA ConcatIn ==
    ASSUME NEW S, NEW s \in Seq(S), NEW t \in Seq(S)
    PROVE  s \o t \in Seq(S) /\ ToSet(s \o t) \subseteq ToSet(s) \cup ToSet(t)
<1> DEFINE a == s \o t
<1>1. /\ a \in Seq(S) /\ Len(a) = Len(s) + Len(t)
      /\ \A i \in 1..Len(s) + Len(t) : a[i] = IF i <= Len(s) THEN s[i] ELSE t[i - Len(s)]
  BY ConcatProperties
<1> HIDE DEF a
<1>2. DOMAIN a = 1..Len(a) /\ DOMAIN s = 1..Len(s) /\ DOMAIN t = 1..Len(t)
      /\ Len(s) \in Nat /\ Len(t) \in Nat
  BY <1>1, InSeq
<1>3. ASSUME NEW i \in DOMAIN a PROVE a[i] \in ToSet(s) \cup ToSet(t)
  <2>1. CASE i <= Len(s)
    <3>1. a[i] = s[i] /\ i \in DOMAIN s
      BY <1>1, <1>2, <2>1
    <3> QED
      BY <3>1 DEF ToSet
  <2>2. CASE ~(i <= Len(s))
    <3>1. a[i] = t[i - Len(s)] /\ i - Len(s) \in DOMAIN t
      BY <1>1, <1>2, <2>2
    <3> QED
      BY <3>1 DEF ToSet
  <2> QED
    BY <2>1, <2>2
<1>4. ToSet(a) \subseteq ToSet(s) \cup ToSet(t)
  BY <1>3 DEF ToSet
<1> QED
  BY <1>1, <1>4 DEF a

LEMMA LessOf ==
    ASSUME NEW a \in Int, NEW b \in Int
    PROVE  Min({a, b}) = (IF a <= b THEN a ELSE b) /\ Max({a, b}) = (IF a <= b THEN b ELSE a)
<1>1. \E x \in {a, b} : \A y \in {a, b} : x <= y
  OBVIOUS
<1>2. \E x \in {a, b} : \A y \in {a, b} : x >= y
  OBVIOUS
<1>3. Min({a, b}) \in {a, b} /\ \A y \in {a, b} : Min({a, b}) <= y
  BY <1>1 DEF Min
<1>4. Max({a, b}) \in {a, b} /\ \A y \in {a, b} : Max({a, b}) >= y
  BY <1>2 DEF Max
<1> QED
  BY <1>3, <1>4

LEMMA FirstIn ==
    ASSUME NEW S, NEW s \in Seq(S), NEW n \in Nat
    PROVE  First(s, n) \in Seq(S) /\ ToSet(First(s, n)) \subseteq ToSet(s)
<1> DEFINE m == Min({n, Len(s)})
           f == First(s, n)
<1>1. Len(s) \in Nat /\ DOMAIN s = 1..Len(s)
  BY InSeq
<1>2. m \in Nat /\ m <= Len(s)
  BY <1>1, LessOf
<1>3. f = SubSeq(s, 1, m)
  BY DEF First
<1> HIDE DEF f, m
<1>4. \A i \in 1..m : s[i] \in S
  BY <1>1, <1>2, ElementOfSeq
<1>5. /\ f \in Seq(S) /\ Len(f) = IF 1 <= m THEN m - 1 + 1 ELSE 0
      /\ \A i \in 1..m - 1 + 1 : f[i] = s[1 + i - 1]
  BY <1>2, <1>3, <1>4, SubSeqProperties
<1>6. DOMAIN f = 1..Len(f)
  BY <1>5, InSeq
<1>7. ASSUME NEW i \in DOMAIN f PROVE f[i] \in ToSet(s)
  <2>1. f[i] = s[i] /\ i \in DOMAIN s
    BY <1>1, <1>2, <1>5, <1>6
  <2> QED
    BY <2>1 DEF ToSet
<1> QED
  BY <1>5, <1>7 DEF ToSet, f

\* What the chunk ranking adds to the vector's.
LEMMA ChunkFused ==
    ASSUME NEW c, c.chunk \in Seq(Keys), IsInjective(c.chunk)
    PROVE  /\ ChunkFusion(c) \in Seq(Keys) /\ IsInjective(ChunkFusion(c))
           /\ ToSet(ChunkFusion(c)) \subseteq ToSet(c.chunk) \ ToSet(c.vector)
<1> DEFINE h == c.chunk
           V == ToSet(c.vector)
           n == Len(h)
           X == Seq(Keys)
           step == [i \in 1..n |-> [x \in X |-> IF h[i] \in V THEN x ELSE Append(x, h[i])]]
           Is(g) == g = [i \in 0..n |-> IF i = 0 THEN <<>>
                                        ELSE IF h[i] \in V THEN g[i - 1]
                                        ELSE Append(g[i - 1], h[i])]
           u == CHOOSE g : Is(g)
<1>1. n \in Nat /\ DOMAIN h = 1..n /\ \A i \in 1..n : h[i] \in Keys
  BY InSeq, ElementOfSeq
<1>2. ChunkFusion(c) = u[n]
  BY DEF ChunkFusion
<1> HIDE DEF n, h, V
<1>3. \A i \in 1..n, x \in X : (IF h[i] \in V THEN x ELSE Append(x, h[i])) \in X
  BY <1>1, AppendIn
<1>4. <<>> \in X
  OBVIOUS
<1> HIDE DEF X
<1>5. step \in [1..n -> [X -> X]]
  BY <1>3
<1>6. \A i \in 1..n, x \in X : step[i][x] = IF h[i] \in V THEN x ELSE Append(x, h[i])
  OBVIOUS
<1> HIDE DEF step
<1>7. Defined(X, <<>>, n, step)
  BY <1>1, <1>4, <1>5, Recursion
<1>8. PICK f \in [0..n -> X] : f[0] = <<>> /\ \A i \in 1..n : f[i] = step[i][f[i - 1]]
  BY <1>7 DEF Defined
<1>9. Is(f)
  <2>1. ASSUME NEW i \in 1..n
        PROVE  f[i] = IF h[i] \in V THEN f[i - 1] ELSE Append(f[i - 1], h[i])
    <3>1. f[i - 1] \in X
      BY <1>1, <1>8
    <3> QED
      BY <1>6, <1>8, <3>1
  <2>2. ASSUME NEW i \in 0..n
        PROVE  f[i] = IF i = 0 THEN <<>>
                      ELSE IF h[i] \in V THEN f[i - 1] ELSE Append(f[i - 1], h[i])
    <3>1. CASE i = 0
      BY <1>8, <3>1
    <3>2. CASE i # 0
      <4>1. i \in 1..n
        BY <1>1, <3>2
      <4> QED
        BY <2>1, <3>2, <4>1
    <3> QED
      BY <3>1, <3>2
  <2> QED
    BY <1>8, <2>2
<1>10. Is(u)
  BY <1>9
<1> HIDE DEF u
<1> DEFINE Part(x, i) == /\ x \in X /\ IsInjective(x)
                         /\ \A k \in ToSet(x) : k \notin V /\ \E j \in 1..i : h[j] = k
           U == {i \in Nat : i <= n => Part(u[i], i)}
<1>11. 0 \in U
  <2>1. u[0] = <<>>
    BY <1>1, <1>10
  <2>2. IsInjective(<<>>) /\ ToSet(<<>>) = {}
    BY DEF IsInjective, ToSet
  <2> QED
    BY <1>4, <2>1, <2>2
<1>12. ASSUME NEW i \in Nat, i \in U PROVE i + 1 \in U
  <2> SUFFICES ASSUME i + 1 <= n PROVE Part(u[i + 1], i + 1)
    OBVIOUS
  <2>1. Part(u[i], i) /\ i + 1 \in 1..n /\ i <= n
    BY <1>1, <1>12
  <2>2. u[i + 1] = IF h[i + 1] \in V THEN u[i] ELSE Append(u[i], h[i + 1])
    <3>1. i + 1 \in 0..n /\ i + 1 # 0 /\ (i + 1) - 1 = i
      BY <1>1, <2>1
    <3>2. u[i + 1] = IF i + 1 = 0 THEN <<>>
                     ELSE IF h[i + 1] \in V THEN u[(i + 1) - 1] ELSE Append(u[(i + 1) - 1], h[i + 1])
      BY <1>10, <3>1
    <3> QED
      BY <3>1, <3>2
  <2>3. CASE h[i + 1] \in V
    BY <2>1, <2>2, <2>3
  <2>4. CASE h[i + 1] \notin V
    <3>1. u[i] \in Seq(Keys) /\ h[i + 1] \in Keys
      BY <1>1, <2>1 DEF X
    <3>2. h[i + 1] \notin ToSet(u[i])
      <4>1. ASSUME NEW j \in 1..i PROVE h[j] # h[i + 1]
        <5>1. j \in DOMAIN h /\ i + 1 \in DOMAIN h /\ j # i + 1
          BY <1>1, <2>1
        <5> QED
          BY <5>1 DEF IsInjective, h
      <4> QED
        BY <2>1, <4>1
    <3>3. /\ Append(u[i], h[i + 1]) \in Seq(Keys)
          /\ ToSet(Append(u[i], h[i + 1])) = ToSet(u[i]) \cup {h[i + 1]}
          /\ IsInjective(Append(u[i], h[i + 1]))
      BY <2>1, <3>1, <3>2, AppendIn
    <3>4. u[i + 1] = Append(u[i], h[i + 1])
      BY <2>2, <2>4
    <3>5. ASSUME NEW k \in ToSet(u[i + 1]) PROVE k \notin V /\ \E j \in 1..(i + 1) : h[j] = k
      BY <2>1, <2>4, <3>3, <3>4, <3>5
    <3> QED
      BY <3>3, <3>4, <3>5 DEF X
  <2> QED
    BY <2>3, <2>4
<1>13. n \in U
  <2> HIDE DEF U
  <2> QED
    BY <1>1, <1>11, <1>12, Induct
<1>14. Part(u[n], n)
  BY <1>1, <1>13
<1>15. ToSet(u[n]) \subseteq ToSet(h) \ V
  BY <1>1, <1>14 DEF ToSet
<1> QED
  BY <1>2, <1>14, <1>15 DEF h, V, X

-----------------------------------------------------------------------------
(* What is true of a call                                                    *)

Early == {"idle", "keyword", "graph", "count", "query", "chunk", "fuse"}

\* What an exact ranking hit.
Exact(c) == ToSet(c.keyword) \cup ToSet(c.graph)

\* What is true of a call whatever happens to the graph.
Sound(c) ==
    /\ c \in Call
    /\ c.pc = "idle" => c = NoCall
    /\ c.pc # "idle" => c.q \in Query
    /\ c.pc = "content" => c.todo # <<>>
    /\ c.pc = "card" => c.fused # <<>>
    /\ IsInjective(c.vector) /\ IsInjective(c.chunk)
    /\ c.pc \in Early => c.fused = <<>>
    /\ c.fused # <<>> /\ ~c.q.rerank /\ Exact(c) # {} => c.fused[1] \in Exact(c)

\* The keys that an answer has and may still show or follow.
Held(c) ==
    ToSet(c.keyword) \cup ToSet(c.graph) \cup ToSet(c.vector) \cup ToSet(c.chunk)
    \cup ToSet(c.fused) \cup ToSet(c.todo) \cup ToSet(c.shown) \cup ToSet(c.expand)
    \cup Named(c) \cup {e.obj : e \in c.facts}

Within(c) == \A k \in Held(c) : Sees(c.q, k) \/ k \in c.lost

Stored ==
    /\ node \in [Keys -> Node]
    /\ edges \subseteq Edge /\ IsFiniteSet(edges)

Calls ==
    /\ call \in [Procs -> Call]
    /\ \A p \in Procs : Sound(call[p]) /\ Within(call[p])

CInv == Stored /\ Calls

\* A call keeps what it has.
SameAnswer(c, d) ==
    /\ d.q = c.q /\ d.lost = c.lost
    /\ d.keyword = c.keyword /\ d.graph = c.graph /\ d.vector = c.vector /\ d.chunk = c.chunk
    /\ d.fused = c.fused /\ d.todo = c.todo /\ d.shown = c.shown /\ d.expand = c.expand
    /\ d.lines = c.lines /\ d.facts = c.facts

LEMMA KeepsAnswer ==
    ASSUME NEW c, NEW d, Sound(c), Within(c), d \in Call, SameAnswer(c, d), c.pc # "idle",
           d.pc \in Early => c.pc \in Early,
           d.pc \notin {"idle", "content", "card"}
    PROVE  Sound(d) /\ Within(d)
<1>1. Sound(d)
  BY DEF Sound, SameAnswer, Exact
<1>2. Held(d) = Held(c)
  BY DEF Held, SameAnswer, Named
<1>3. Within(d)
  BY <1>2 DEF Within, SameAnswer, Sees
<1> QED
  BY <1>1, <1>3

LEMMA OneCallKeeps ==
    ASSUME CInv, NEW p \in Procs, NEW c, Goes(p, c), Sound(c), Within(c)
    PROVE  CInv'
<1>1. call' = [call EXCEPT ![p] = c] /\ node' = node /\ edges' = edges
  BY DEF Goes, store
<1>2. c \in Call
  BY DEF Sound
<1>3. call' \in [Procs -> Call] /\ \A r \in Procs : call'[r] = IF r = p THEN c ELSE call[r]
  BY <1>1, <1>2 DEF CInv, Calls
<1>4. Stored'
  BY <1>1 DEF CInv, Stored
<1>5. \A d : Within(d)' <=> Within(d)
  BY <1>1 DEF Within, Sees
<1>6. \A r \in Procs : Sound(call[r])' /\ Within(call[r])'
  BY <1>1, <1>3, <1>5 DEF CInv, Calls, Within, Sees
<1> QED
  BY <1>3, <1>4, <1>6 DEF CInv, Calls

LEMMA NoCallIs ==
    Sound(NoCall) /\ Within(NoCall)
<1>1. NoCall \in Call
  <2>1. <<>> \in Seq(Keys) /\ {} \in SUBSET Keys /\ {} \in SUBSET Edge
        /\ {} \in SUBSET (Keys \X Keys) /\ {} \in SUBSET Tickets
    OBVIOUS
  <2> QED
    BY <2>1 DEF NoCall, Call, PCs, Finals
<1>2. IsInjective(<<>>) /\ ToSet(<<>>) = {}
  BY DEF IsInjective, ToSet
<1>3. Sound(NoCall)
  BY <1>1, <1>2 DEF Sound, NoCall, Early
<1>4. Held(NoCall) = {}
  BY <1>2 DEF Held, NoCall, Named
<1> QED
  BY <1>1, <1>3, <1>4 DEF Within

-----------------------------------------------------------------------------
(* Retrieval keeps it                                                         *)

LEMMA KeysOfSet ==
    ASSUME ServeAssumption, NEW S, S \subseteq Keys, NEW s \in SetToSeqs(S)
    PROVE  s \in Seq(Keys) /\ ToSet(s) = S /\ IsInjective(s) /\ Len(s) = Cardinality(S)
<1>1. IsFiniteSet(S)
  BY FS_Subset DEF ServeAssumption
<1>2. s \in Seq(S) /\ ToSet(s) = S /\ IsInjective(s) /\ Len(s) = Cardinality(S)
  BY <1>1, Enumerates
<1>3. s \in Seq(Keys)
  BY <1>2, SeqMonotonic
<1> QED
  BY <1>2, <1>3

LEMMA SoundCall ==
    ASSUME CInv, NEW p \in Procs
    PROVE  Sound(call[p]) /\ Within(call[p]) /\ call[p] \in Call
BY DEF CInv, Calls

LEMMA CountKeeps ==
    ASSUME CInv, ServeAssumption, NEW p \in Procs, Count(p)
    PROVE  CInv'
<1> DEFINE c == call[p]
           d == [c EXCEPT !.pc = "query", !.total = Cardinality(Embedded), !.over = T * Fan]
<1>1. c.pc = "count" /\ Goes(p, d)
  BY DEF Count, At
<1>2. Sound(c) /\ Within(c) /\ c \in Call
  BY SoundCall
<1>3. Cardinality(Embedded) \in Nat /\ T * Fan \in Nat
  <2>1. Embedded \in SUBSET Keys /\ IsFiniteSet(Keys)
    BY DEF Embedded, ServeAssumption
  <2>2. IsFiniteSet(Embedded)
    BY <2>1, FS_Subset
  <2>3. T * Fan \in Nat
    BY DEF ServeAssumption
  <2> QED
    BY <2>2, <2>3, FS_CardinalityType
<1>4. d \in Call /\ SameAnswer(c, d) /\ d.pc = "query"
  <2> HIDE DEF c
  <2> QED
    BY <1>2, <1>3 DEF Call, SameAnswer, PCs
<1> HIDE DEF c, d
<1>5. Sound(d) /\ Within(d)
  BY <1>1, <1>2, <1>4, KeepsAnswer DEF Early
<1> QED
  BY <1>1, <1>5, OneCallKeeps

LEMMA NoEmbedderKeeps ==
    ASSUME CInv, NEW p \in Procs, NoEmbedder(p)
    PROVE  CInv'
<1> DEFINE c == call[p]
           d == [c EXCEPT !.pc = "fuse"]
<1>1. c.pc = "count" /\ Goes(p, d)
  BY DEF NoEmbedder, At
<1>2. Sound(c) /\ Within(c) /\ c \in Call
  BY SoundCall
<1> HIDE DEF c
<1>3. d \in Call /\ SameAnswer(c, d) /\ d.pc = "fuse"
  BY <1>2, ZenonT(90) DEF Call, SameAnswer, PCs
<1> HIDE DEF d
<1>4. Sound(d) /\ Within(d)
  BY <1>1, <1>2, <1>3, KeepsAnswer DEF Early
<1> QED
  BY <1>1, <1>4, OneCallKeeps

LEMMA KeywordKeeps ==
    ASSUME CInv, ServeAssumption, NEW p \in Procs, Keyword(p)
    PROVE  CInv'
<1> DEFINE c == call[p]
           hits == IF c.q.text THEN {k \in c.q.asked : Sees(c.q, k)} ELSE {}
<1>1. c.pc = "keyword"
  BY DEF Keyword, At
<1>2. PICK keyword \in sorted(hits) : Goes(p, [c EXCEPT !.pc = "graph", !.keyword = keyword])
  BY DEF Keyword
<1> DEFINE d == [c EXCEPT !.pc = "graph", !.keyword = keyword]
<1>3. Sound(c) /\ Within(c) /\ c \in Call
  BY SoundCall
<1>4. c.q \in Query
  BY <1>1, <1>3 DEF Sound
<1>5. hits \subseteq Keys /\ \A k \in hits : Sees(c.q, k)
  BY <1>4 DEF Query
<1>6. keyword \in SetToSeqs(hits)
  BY DEF sorted, Orders
<1> HIDE DEF hits
<1>7. keyword \in Seq(Keys) /\ ToSet(keyword) = hits
  BY <1>5, <1>6, KeysOfSet
<1> HIDE DEF c
<1>8. /\ d \in Call /\ d.pc = "graph" /\ d.q = c.q /\ d.lost = c.lost
      /\ d.keyword = keyword /\ d.graph = c.graph /\ d.vector = c.vector /\ d.chunk = c.chunk
      /\ d.fused = c.fused /\ d.todo = c.todo /\ d.shown = c.shown /\ d.expand = c.expand
      /\ d.lines = c.lines /\ d.facts = c.facts
  BY <1>3, <1>7, ZenonT(90) DEF Call, PCs
<1>9. Goes(p, d)
  BY <1>2 DEF c
<1> HIDE DEF d
<1>10. Sound(d)
  BY <1>1, <1>3, <1>8 DEF Sound, Early
<1>11. Held(d) \subseteq Held(c) \cup hits
  BY <1>7, <1>8 DEF Held, Named
<1>12. Within(d)
  BY <1>3, <1>5, <1>8, <1>11 DEF Within, Sees, c
<1> QED
  BY <1>9, <1>10, <1>12, OneCallKeeps

LEMMA GraphKeeps ==
    ASSUME CInv, ServeAssumption, NEW p \in Procs, Graph(p)
    PROVE  CInv'
<1> DEFINE c == call[p]
           hits == IF c.q.pattern = NULL THEN {}
                   ELSE {e \in edges : /\ e.rel = c.q.pattern.rel /\ e.obj = c.q.pattern.obj
                                       /\ e.ns \in Scope[c.q.role]
                                       /\ Sees(c.q, e.subj) /\ Sees(c.q, e.obj)}
<1>1. c.pc = "graph"
  BY DEF Graph, At
<1>2. PICK rows \in SetToSeqs(hits) :
         Goes(p, [c EXCEPT !.pc = IF c.q.text THEN "count" ELSE "fuse",
                           !.graph = [i \in DOMAIN rows |-> rows[i].subj]])
  BY DEF Graph
<1> DEFINE graph == [i \in DOMAIN rows |-> rows[i].subj]
           d == [c EXCEPT !.pc = IF c.q.text THEN "count" ELSE "fuse", !.graph = graph]
<1>3. Sound(c) /\ Within(c) /\ c \in Call
  BY SoundCall
<1>4. IsFiniteSet(hits) /\ \A e \in hits : e.subj \in Keys /\ Sees(c.q, e.subj)
  <2>1. hits \subseteq edges /\ IsFiniteSet(edges) /\ edges \subseteq Edge
    BY DEF CInv, Stored
  <2>2. \A e \in hits : e.subj \in Keys /\ Sees(c.q, e.subj)
    BY <2>1 DEF Edge
  <2> QED
    BY <2>1, <2>2, FS_Subset
<1> HIDE DEF hits
<1>5. rows \in Seq(hits) /\ ToSet(rows) = hits
  BY <1>4, Enumerates
<1>6. graph \in Seq(Keys) /\ \A k \in ToSet(graph) : Sees(c.q, k)
  <2>1. Len(rows) \in Nat /\ DOMAIN rows = 1..Len(rows) /\ \A i \in 1..Len(rows) : rows[i] \in hits
    BY <1>5, InSeq, ElementOfSeq
  <2>2. graph \in [1..Len(rows) -> Keys]
    BY <1>4, <2>1
  <2>3. \A i \in DOMAIN graph : Sees(c.q, graph[i])
    BY <1>4, <2>1
  <2> QED
    BY <2>1, <2>2, <2>3, IsASeq DEF ToSet
<1>7. Goes(p, d)
  BY <1>2
<1> HIDE DEF c, graph
<1>8. /\ d \in Call /\ d.pc \in {"count", "fuse"} /\ d.q = c.q /\ d.lost = c.lost
      /\ d.keyword = c.keyword /\ d.graph = graph /\ d.vector = c.vector /\ d.chunk = c.chunk
      /\ d.fused = c.fused /\ d.todo = c.todo /\ d.shown = c.shown /\ d.expand = c.expand
      /\ d.lines = c.lines /\ d.facts = c.facts
  BY <1>3, <1>6, ZenonT(90) DEF Call, PCs
<1> HIDE DEF d
<1>9. Sound(d)
  BY <1>1, <1>3, <1>8 DEF Sound, Early
<1>10. Held(d) \subseteq Held(c) \cup ToSet(graph)
  BY <1>8 DEF Held, Named
<1>11. Within(d)
  BY <1>3, <1>6, <1>8, <1>10 DEF Within, Sees
<1> QED
  BY <1>7, <1>9, <1>11, OneCallKeeps

LEMMA VectorKeeps ==
    ASSUME CInv, ServeAssumption, NEW p \in Procs, VectorRound(p)
    PROVE  CInv'
<1> DEFINE c == call[p]
           window == Nearest(Embedded, Min({c.over, Max({c.total, 1})}))
           hits == Nearest({k \in window : Sees(c.q, k)}, T)
<1>1. c.pc = "query"
  BY DEF VectorRound, At
<1>3. Sound(c) /\ Within(c) /\ c \in Call
  BY SoundCall
<1>4. hits \subseteq Keys /\ \A k \in hits : Sees(c.q, k)
  BY DEF Nearest, Embedded
<1>5. ASSUME NEW vector \in Ordered(hits),
             Goes(p, [c EXCEPT !.pc = "chunk", !.vector = vector])
      PROVE  CInv'
  <2> DEFINE d == [c EXCEPT !.pc = "chunk", !.vector = vector]
  <2>1. vector \in SetToSeqs(hits)
    BY <1>5 DEF Ordered, Orders
  <2>2. Goes(p, d)
    BY <1>5
  <2> HIDE DEF hits
  <2>3. vector \in Seq(Keys) /\ ToSet(vector) = hits /\ IsInjective(vector)
    BY <1>4, <2>1, KeysOfSet
  <2> HIDE DEF c
  <2>4. /\ d \in Call /\ d.pc = "chunk" /\ d.q = c.q /\ d.lost = c.lost
        /\ d.keyword = c.keyword /\ d.graph = c.graph /\ d.vector = vector /\ d.chunk = c.chunk
        /\ d.fused = c.fused /\ d.todo = c.todo /\ d.shown = c.shown /\ d.expand = c.expand
        /\ d.lines = c.lines /\ d.facts = c.facts
    BY <1>3, <2>3, ZenonT(90) DEF Call, PCs
  <2> HIDE DEF d
  <2>5. Sound(d)
    BY <1>1, <1>3, <2>3, <2>4 DEF Sound, Early
  <2>6. Held(d) \subseteq Held(c) \cup hits
    BY <2>3, <2>4 DEF Held, Named
  <2>7. Within(d)
    BY <1>3, <1>4, <2>4, <2>6 DEF Within, Sees
  <2> QED
    BY <2>2, <2>5, <2>7, OneCallKeeps
<1>6. ASSUME Goes(p, [c EXCEPT !.over = WiderOver(c)])
      PROVE  CInv'
  <2> DEFINE d == [c EXCEPT !.over = WiderOver(c)]
  <2>1. Goes(p, d)
    BY <1>6
  <2> HIDE DEF c
  <2>2. WiderOver(c) \in Nat
    <3>1. c.over \in Nat /\ Fan \in Nat
      BY <1>3 DEF Call, ServeAssumption
    <3> QED
      BY <3>1 DEF WiderOver
  <2>3. d \in Call /\ SameAnswer(c, d) /\ d.pc = "query"
    BY <1>1, <1>3, <2>2, ZenonT(90) DEF Call, SameAnswer
  <2> HIDE DEF d
  <2>4. Sound(d) /\ Within(d)
    BY <1>1, <1>3, <2>3, KeepsAnswer DEF Early
  <2> QED
    BY <2>1, <2>4, OneCallKeeps
<1> QED
  BY <1>5, <1>6 DEF VectorRound

LEMMA ChunkKeeps ==
    ASSUME CInv, ServeAssumption, NEW p \in Procs, Chunk(p)
    PROVE  CInv'
<1> DEFINE c == call[p]
           near_by == {k \in Embedded : Sees(c.q, k)}
<1>1. c.pc = "chunk"
  BY DEF Chunk, At
<1>2. PICK hits \in SetToAllKPermutations(near_by) : Goes(p, [c EXCEPT !.pc = "fuse", !.chunk = hits])
  BY DEF Chunk
<1> DEFINE d == [c EXCEPT !.pc = "fuse", !.chunk = hits]
<1>3. Sound(c) /\ Within(c) /\ c \in Call
  BY SoundCall
<1>4. PICK S \in SUBSET near_by : hits \in SetToSeqs(S)
  BY DEF SetToAllKPermutations
<1>5. S \subseteq Keys /\ \A k \in S : Sees(c.q, k)
  BY DEF Embedded
<1>6. hits \in Seq(Keys) /\ ToSet(hits) = S /\ IsInjective(hits)
  BY <1>4, <1>5, KeysOfSet
<1>7. Goes(p, d)
  BY <1>2
<1> HIDE DEF c
<1>8. /\ d \in Call /\ d.pc = "fuse" /\ d.q = c.q /\ d.lost = c.lost
      /\ d.keyword = c.keyword /\ d.graph = c.graph /\ d.vector = c.vector /\ d.chunk = hits
      /\ d.fused = c.fused /\ d.todo = c.todo /\ d.shown = c.shown /\ d.expand = c.expand
      /\ d.lines = c.lines /\ d.facts = c.facts
  BY <1>3, <1>6, ZenonT(90) DEF Call, PCs
<1> HIDE DEF d
<1>9. Sound(d)
  BY <1>1, <1>3, <1>6, <1>8 DEF Sound, Early
<1>10. Held(d) \subseteq Held(c) \cup S
  BY <1>6, <1>8 DEF Held, Named
<1>11. Within(d)
  BY <1>3, <1>5, <1>8, <1>10 DEF Within, Sees
<1> QED
  BY <1>7, <1>9, <1>11, OneCallKeeps

-----------------------------------------------------------------------------
(* Fusion and the cards keep it                                               *)

LEMMA RankingsOf ==
    ASSUME NEW c, Sound(c)
    PROVE  /\ Four(Rankings(c))
           /\ Rankings(c)[Sources[1]] = c.keyword /\ Rankings(c)[Sources[2]] = c.graph
           /\ Rankings(c)[Sources[3]] = c.vector /\ Rankings(c)[Sources[4]] = ChunkFusion(c)
           /\ IsInjective(c.vector) /\ IsInjective(ChunkFusion(c))
           /\ ToSet(c.vector) \cap ToSet(ChunkFusion(c)) = {}
           /\ Ranked(Rankings(c)) \subseteq Held(c) \cap Keys
<1>1. /\ c.keyword \in Seq(Keys) /\ c.graph \in Seq(Keys) /\ c.vector \in Seq(Keys)
      /\ c.chunk \in Seq(Keys) /\ IsInjective(c.vector) /\ IsInjective(c.chunk)
  BY DEF Sound, Call
<1>2. /\ ChunkFusion(c) \in Seq(Keys) /\ IsInjective(ChunkFusion(c))
      /\ ToSet(ChunkFusion(c)) \subseteq ToSet(c.chunk) \ ToSet(c.vector)
  BY <1>1, ChunkFused
<1> DEFINE r == Rankings(c)
<1>3. /\ r[Sources[1]] = c.keyword /\ r[Sources[2]] = c.graph
      /\ r[Sources[3]] = c.vector /\ r[Sources[4]] = ChunkFusion(c)
  BY FourSources DEF Rankings
<1> HIDE DEF r
<1>4. Four(r)
  <2>1. \A i \in 1..4 : i = 1 \/ i = 2 \/ i = 3 \/ i = 4
    OBVIOUS
  <2> QED
    BY <1>1, <1>2, <1>3, <2>1 DEF Four
<1>5. Ranked(r) \subseteq Held(c) \cap Keys
  <2> SUFFICES ASSUME NEW k \in Ranked(r) PROVE k \in Held(c) \cap Keys
    OBVIOUS
  <2>1. PICK i \in 1..4 : k \in ToSet(r[Sources[i]])
    BY <1>4, RankedIs
  <2>2. k \in Keys
    <3>1. r[Sources[i]] \in Seq(Keys)
      BY <1>4 DEF Four
    <3> QED
      BY <2>1, <3>1, InSeq
  <2>3. k \in ToSet(c.keyword) \/ k \in ToSet(c.graph) \/ k \in ToSet(c.vector) \/ k \in ToSet(c.chunk)
    <3>1. i = 1 \/ i = 2 \/ i = 3 \/ i = 4
      OBVIOUS
    <3> QED
      BY <1>2, <1>3, <2>1, <3>1
  <2> QED
    BY <2>2, <2>3 DEF Held
<1> QED
  BY <1>1, <1>2, <1>3, <1>4, <1>5 DEF r

LEMMA FuseKeeps ==
    ASSUME CInv, ServeAssumption, NEW p \in Procs, Fuse(p)
    PROVE  CInv'
<1> DEFINE c == call[p]
           r == Rankings(c)
           S == Ranked(r)
<1>1. c.pc = "fuse"
  BY DEF Fuse, At
<1>2. Sound(c) /\ Within(c) /\ c \in Call
  BY SoundCall
<1>3. /\ Four(r) /\ S \subseteq Held(c) \cap Keys
      /\ r[Sources[1]] = c.keyword /\ r[Sources[2]] = c.graph
      /\ IsInjective(r[Sources[3]]) /\ IsInjective(r[Sources[4]])
      /\ ToSet(r[Sources[3]]) \cap ToSet(r[Sources[4]]) = {}
  BY <1>2, RankingsOf
<1>4. CASE S = {}
  <2> DEFINE d == [c EXCEPT !.pc = "done"]
  <2>1. Goes(p, d)
    BY <1>4 DEF Fuse
  <2> HIDE DEF c
  <2>2. d \in Call /\ SameAnswer(c, d) /\ d.pc = "done"
    BY <1>2, ZenonT(90) DEF Call, SameAnswer, PCs
  <2> HIDE DEF d
  <2>3. Sound(d) /\ Within(d)
    BY <1>1, <1>2, <2>2, KeepsAnswer DEF Early
  <2> QED
    BY <2>1, <2>3, OneCallKeeps
<1>5. CASE S # {}
  <2>1. PICK fused \in IF c.q.rerank THEN SetToSeqs(S) ELSE rrf(r) :
           Goes(p, [c EXCEPT !.pc = "card", !.fused = fused,
                             !.todo = First(fused, T), !.shown = First(fused, T)])
    BY <1>5 DEF Fuse
  <2> DEFINE d == [c EXCEPT !.pc = "card", !.fused = fused,
                            !.todo = First(fused, T), !.shown = First(fused, T)]
  <2>2. Goes(p, d)
    BY <2>1
  <2>3. fused \in SetToSeqs(S)
    BY <2>1 DEF rrf, Orders
  <2> HIDE DEF S, r
  <2>4. fused \in Seq(Keys) /\ ToSet(fused) = S
    BY <1>3, <2>3, KeysOfSet
  <2>5. fused # <<>>
    <3>1. ToSet(<<>>) = {}
      BY DEF ToSet
    <3> QED
      BY <1>5, <2>4, <3>1
  <2>6. First(fused, T) \in Seq(Keys) /\ ToSet(First(fused, T)) \subseteq S
    <3>1. T \in Nat
      BY DEF ServeAssumption
    <3> QED
      BY <2>4, <3>1, FirstIn
  <2>7. ~c.q.rerank /\ Exact(c) # {} => fused[1] \in Exact(c)
    <3> SUFFICES ASSUME ~c.q.rerank, Exact(c) # {} PROVE fused[1] \in Exact(c)
      OBVIOUS
    <3>1. fused \in rrf(r)
      BY <2>1
    <3>2. ToSet(<<>>) = {}
      BY DEF ToSet
    <3>3. PICK i \in 1..2 : r[Sources[i]] # <<>>
      <4>1. c.keyword # <<>> \/ c.graph # <<>>
        BY <3>2 DEF Exact
      <4>2. 1 \in 1..2 /\ 2 \in 1..2
        OBVIOUS
      <4> QED
        BY <1>3, <4>1, <4>2
    <3>4. fused[1] \in ToSet(r[Sources[1]]) \cup ToSet(r[Sources[2]])
      BY <1>3, <2>5, <3>1, <3>3, ExactFirst
    <3> QED
      BY <1>3, <3>4 DEF Exact
  <2> HIDE DEF c
  <2>8. /\ d \in Call /\ d.pc = "card" /\ d.q = c.q /\ d.lost = c.lost
        /\ d.keyword = c.keyword /\ d.graph = c.graph /\ d.vector = c.vector /\ d.chunk = c.chunk
        /\ d.fused = fused /\ d.todo = First(fused, T) /\ d.shown = First(fused, T)
        /\ d.expand = c.expand /\ d.lines = c.lines /\ d.facts = c.facts
    BY <1>2, <2>4, <2>6, ZenonT(90) DEF Call, PCs
  <2> HIDE DEF d
  <2>9. Sound(d)
    BY <1>1, <1>2, <2>5, <2>7, <2>8 DEF Sound, Early, Exact
  <2>10. Held(d) \subseteq Held(c)
    <3>1. Held(d) \subseteq Held(c) \cup S
      BY <2>4, <2>6, <2>8 DEF Held, Named
    <3> QED
      BY <1>3, <3>1
  <2>11. Within(d)
    BY <1>2, <2>8, <2>10 DEF Within, Sees
  <2> QED
    BY <2>2, <2>9, <2>11, OneCallKeeps
<1> QED
  BY <1>4, <1>5

LEMMA CardOf ==
    ASSUME CInv, NEW q, NEW k
    PROVE  /\ Card(q, k) \subseteq Edge /\ IsFiniteSet(Card(q, k))
           /\ \A e \in Card(q, k) : e.obj \in Keys /\ Sees(q, e.obj)
<1>1. Card(q, k) \subseteq edges /\ IsFiniteSet(edges) /\ edges \subseteq Edge
  BY DEF CInv, Stored, Card
<1>2. \A e \in Card(q, k) : e.obj \in Keys /\ Sees(q, e.obj)
  BY <1>1 DEF Card, Edge
<1> QED
  BY <1>1, <1>2, FS_Subset

LEMMA ReadPrimaryKeeps ==
    ASSUME CInv, ServeAssumption, NEW p \in Procs, ReadPrimary(p)
    PROVE  CInv'
<1> DEFINE c == call[p]
           primary == c.fused[1]
<1>1. c.pc = "card"
  BY DEF ReadPrimary, At
<1>2. Sound(c) /\ Within(c) /\ c \in Call
  BY SoundCall
<1>3. primary \in Keys
  <2>1. c.fused \in Seq(Keys) /\ c.fused # <<>>
    BY <1>1, <1>2 DEF Sound, Call
  <2> QED
    BY <2>1, InSeq
<1>4. CASE Sees(c.q, primary)
  <2> DEFINE d == [c EXCEPT !.pc = "compose", !.fresh = ~node[primary].dirty,
                            !.facts = Card(c.q, primary)]
             facts == Card(c.q, primary)
             fresh == ~node[primary].dirty
  <2>1. Goes(p, d)
    BY <1>4 DEF ReadPrimary
  <2>2. fresh \in BOOLEAN
    OBVIOUS
  <2>3. facts \subseteq Edge /\ \A e \in facts : Sees(c.q, e.obj)
    BY CardOf
  <2> HIDE DEF c, primary, facts, fresh
  <2>4. /\ d \in Call /\ d.pc = "compose" /\ d.q = c.q /\ d.lost = c.lost
        /\ d.keyword = c.keyword /\ d.graph = c.graph /\ d.vector = c.vector /\ d.chunk = c.chunk
        /\ d.fused = c.fused /\ d.todo = c.todo /\ d.shown = c.shown /\ d.expand = c.expand
        /\ d.lines = c.lines /\ d.facts = facts
    BY <1>2, <2>2, <2>3, ZenonT(90) DEF Call, PCs, facts, fresh
  <2> HIDE DEF d
  <2>5. Sound(d)
    BY <1>1, <1>2, <2>4 DEF Sound, Early, Exact
  <2>6. Held(d) \subseteq Held(c) \cup {e.obj : e \in facts}
    BY <2>4 DEF Held, Named
  <2>7. Within(d)
    BY <1>2, <2>3, <2>4, <2>6 DEF Within, Sees
  <2> QED
    BY <2>1, <2>5, <2>7, OneCallKeeps
<1>5. CASE ~Sees(c.q, primary)
  <2> DEFINE d == [c EXCEPT !.pc = "raised"]
  <2>1. Goes(p, d)
    BY <1>5 DEF ReadPrimary
  <2> HIDE DEF c
  <2>2. d \in Call /\ SameAnswer(c, d) /\ d.pc = "raised"
    BY <1>2, ZenonT(90) DEF Call, SameAnswer, PCs
  <2> HIDE DEF d
  <2>3. Sound(d) /\ Within(d)
    BY <1>1, <1>2, <2>2, KeepsAnswer DEF Early
  <2> QED
    BY <2>1, <2>3, OneCallKeeps
<1> QED
  BY <1>4, <1>5

\* The call b has taken k from its lists and adds its card.
LEMMA AddCardKeeps ==
    ASSUME CInv, ServeAssumption, NEW p \in Procs, NEW b, Sound(b), Within(b), b.pc = "compose",
           NEW k \in Keys, AddCard(p, b, k)
    PROVE  CInv'
<1>1. CASE ~Sees(b.q, k)
  <2>1. Goes(p, b)
    BY <1>1 DEF AddCard
  <2> QED
    BY <2>1, OneCallKeeps
<1>2. CASE Sees(b.q, k)
  <2> DEFINE C == Card(b.q, k)
  <2>1. PICK facts \in SetToSeqs(C) :
           Goes(p, [b EXCEPT !.pc = "content", !.todo = <<k>> \o b.todo,
                    !.expand = b.expand \o [i \in DOMAIN facts |-> facts[i].obj],
                    !.lines = b.lines \cup {<<k, facts[i].obj>> : i \in DOMAIN facts}])
    BY <1>2 DEF AddCard
  <2> DEFINE objs == [i \in DOMAIN facts |-> facts[i].obj]
             todo == <<k>> \o b.todo
             expand == b.expand \o objs
             lines == b.lines \cup {<<k, facts[i].obj>> : i \in DOMAIN facts}
             d == [b EXCEPT !.pc = "content", !.todo = todo, !.expand = expand, !.lines = lines]
  <2>2. C \subseteq Edge /\ IsFiniteSet(C) /\ \A e \in C : e.obj \in Keys /\ Sees(b.q, e.obj)
    BY CardOf
  <2>3. Goes(p, d)
    BY <2>1
  <2> HIDE DEF C
  <2>4. facts \in Seq(C) /\ ToSet(facts) = C
    BY <2>2, Enumerates
  <2>5. Len(facts) \in Nat /\ DOMAIN facts = 1..Len(facts) /\ \A i \in 1..Len(facts) : facts[i] \in C
    BY <2>4, InSeq, ElementOfSeq
  <2>6. objs \in Seq(Keys) /\ \A j \in ToSet(objs) : Sees(b.q, j)
    <3>1. objs \in [1..Len(facts) -> Keys]
      BY <2>2, <2>5
    <3>2. \A i \in DOMAIN objs : Sees(b.q, objs[i])
      BY <2>2, <2>5
    <3> QED
      BY <2>5, <3>1, <3>2, IsASeq DEF ToSet
  <2>7. /\ b \in Call /\ b.todo \in Seq(Keys) /\ b.expand \in Seq(Keys) /\ b.lines \subseteq Keys \X Keys
    BY ZenonT(90) DEF Sound, Call
  <2>8. <<k>> \in Seq(Keys) /\ ToSet(<<k>>) = {k}
    <3>1. DOMAIN <<k>> = 1..1 /\ <<k>>[1] = k
      OBVIOUS
    <3> QED
      BY <3>1 DEF ToSet
  <2>9. todo \in Seq(Keys) /\ ToSet(todo) \subseteq {k} \cup ToSet(b.todo)
    BY <2>7, <2>8, ConcatIn
  <2>10. todo # <<>>
    <3>1. Len(todo) = Len(<<k>>) + Len(b.todo)
      BY <2>7, <2>8, ConcatProperties
    <3>2. Len(<<k>>) = 1 /\ Len(b.todo) \in Nat /\ Len(<<>>) = 0
      BY <2>7, InSeq
    <3> QED
      BY <3>1, <3>2
  <2>11. expand \in Seq(Keys) /\ ToSet(expand) \subseteq ToSet(b.expand) \cup ToSet(objs)
    <3> HIDE DEF objs
    <3> QED
      BY <2>6, <2>7, ConcatIn
  <2>12. lines \subseteq Keys \X Keys
    BY <2>2, <2>5, <2>7
  <2>13. UNION {{l[1], l[2]} : l \in lines} \subseteq Named(b) \cup {k} \cup ToSet(objs)
    <3> SUFFICES ASSUME NEW l \in lines, NEW x \in {l[1], l[2]}
                 PROVE  x \in Named(b) \cup {k} \cup ToSet(objs)
      OBVIOUS
    <3>1. CASE l \in b.lines
      BY <3>1 DEF Named
    <3>2. CASE l \notin b.lines
      <4>1. PICK i \in DOMAIN facts : l = <<k, facts[i].obj>>
        BY <3>2
      <4>2. objs[i] \in ToSet(objs)
        BY DEF ToSet
      <4> QED
        BY <4>1, <4>2
    <3> QED
      BY <3>1, <3>2
  <2> HIDE DEF todo, expand, lines, objs
  <2>14. /\ d \in Call /\ d.pc = "content" /\ d.q = b.q /\ d.lost = b.lost
         /\ d.keyword = b.keyword /\ d.graph = b.graph /\ d.vector = b.vector /\ d.chunk = b.chunk
         /\ d.fused = b.fused /\ d.todo = todo /\ d.shown = b.shown /\ d.expand = expand
         /\ d.lines = lines /\ d.facts = b.facts
    BY <2>7, <2>9, <2>11, <2>12, ZenonT(90) DEF Call, PCs
  <2> HIDE DEF d
  <2>15. Sound(d)
    BY <2>10, <2>14 DEF Sound, Early, Exact
  <2>16. Named(d) \subseteq Named(b) \cup {k} \cup ToSet(objs)
    BY <2>13, <2>14 DEF Named
  <2>17. Held(d) \subseteq Held(b) \cup {k} \cup ToSet(objs)
    BY <2>9, <2>11, <2>14, <2>16 DEF Held
  <2>18. Within(d)
    BY <1>2, <2>6, <2>14, <2>17 DEF Within, Sees
  <2> QED
    BY <2>3, <2>15, <2>18, OneCallKeeps
<1> QED
  BY <1>1, <1>2

\* Lists that only lose or reorder what an answer has.
LEMMA Shifts ==
    ASSUME NEW c, Sound(c), Within(c), c.pc = "compose",
           NEW d, d \in Call, d.pc = "compose", d.q = c.q, d.lost = c.lost,
           d.keyword = c.keyword, d.graph = c.graph, d.vector = c.vector, d.chunk = c.chunk,
           d.fused = c.fused, d.facts = c.facts, d.lines = c.lines,
           ToSet(d.todo) \cup ToSet(d.shown) \cup ToSet(d.expand) \subseteq Held(c)
    PROVE  Sound(d) /\ Within(d)
<1>1. Sound(d)
  BY DEF Sound, Early, Exact
<1>2. Held(d) \subseteq Held(c)
  BY DEF Held, Named
<1> QED
  BY <1>1, <1>2 DEF Within, Sees

LEMMA ComposeKeeps ==
    ASSUME CInv, ServeAssumption, NEW p \in Procs, Compose(p)
    PROVE  CInv'
<1> DEFINE c == call[p]
           k == Head(c.expand)
<1>1. c.pc = "compose"
  BY DEF Compose, At
<1>2. Sound(c) /\ Within(c) /\ c \in Call
  BY SoundCall
<1>3. c.todo \in Seq(Keys) /\ c.shown \in Seq(Keys) /\ c.expand \in Seq(Keys)
  BY <1>2 DEF Call
<1>4. CASE c.todo # <<>>
  <2> DEFINE b == [c EXCEPT !.todo = Tail(c.todo)]
  <2>1. AddCard(p, b, Head(c.todo))
    BY <1>4 DEF Compose
  <2>2. /\ Head(c.todo) \in Keys /\ Tail(c.todo) \in Seq(Keys) /\ ToSet(Tail(c.todo)) \subseteq ToSet(c.todo)
    BY <1>3, <1>4, HeadTailIn
  <2> HIDE DEF c
  <2>3. /\ b \in Call /\ b.pc = c.pc /\ b.q = c.q /\ b.lost = c.lost
        /\ b.keyword = c.keyword /\ b.graph = c.graph /\ b.vector = c.vector /\ b.chunk = c.chunk
        /\ b.fused = c.fused /\ b.todo = Tail(c.todo) /\ b.shown = c.shown /\ b.expand = c.expand
        /\ b.lines = c.lines /\ b.facts = c.facts
    BY <1>2, <2>2, ZenonT(90) DEF Call
  <2> HIDE DEF b
  <2>4. ToSet(b.todo) \cup ToSet(b.shown) \cup ToSet(b.expand) \subseteq Held(c)
    BY <2>2, <2>3 DEF Held
  <2>5. Sound(b) /\ Within(b) /\ b.pc = "compose"
    BY <1>1, <1>2, <2>3, <2>4, Shifts
  <2> QED
    BY <2>1, <2>2, <2>5, AddCardKeeps
<1>5. CASE c.todo = <<>> /\ (c.expand = <<>> \/ Len(c.shown) >= 2 * T)
  <2> DEFINE d == [c EXCEPT !.pc = "isolation"]
  <2>1. Goes(p, d)
    BY <1>5 DEF Compose
  <2> HIDE DEF c
  <2>2. d \in Call /\ SameAnswer(c, d) /\ d.pc = "isolation"
    BY <1>2, ZenonT(90) DEF Call, SameAnswer, PCs
  <2> HIDE DEF d
  <2>3. Sound(d) /\ Within(d)
    BY <1>1, <1>2, <2>2, KeepsAnswer DEF Early
  <2> QED
    BY <2>1, <2>3, OneCallKeeps
<1>6. CASE c.todo = <<>> /\ ~(c.expand = <<>> \/ Len(c.shown) >= 2 * T)
  <2>1. k \in Keys /\ Tail(c.expand) \in Seq(Keys) /\ k \in ToSet(c.expand)
        /\ ToSet(Tail(c.expand)) \subseteq ToSet(c.expand)
    BY <1>3, <1>6, HeadTailIn
  <2>2. CASE Contains(c.shown, k)
    <3> DEFINE d == [c EXCEPT !.expand = Tail(c.expand)]
    <3>1. Goes(p, d)
      BY <1>6, <2>2 DEF Compose
    <3> HIDE DEF c
    <3>2. /\ d \in Call /\ d.pc = c.pc /\ d.q = c.q /\ d.lost = c.lost
          /\ d.keyword = c.keyword /\ d.graph = c.graph /\ d.vector = c.vector /\ d.chunk = c.chunk
          /\ d.fused = c.fused /\ d.todo = c.todo /\ d.shown = c.shown /\ d.expand = Tail(c.expand)
          /\ d.lines = c.lines /\ d.facts = c.facts
      BY <1>2, <2>1, ZenonT(90) DEF Call
    <3> HIDE DEF d
    <3>3. ToSet(d.todo) \cup ToSet(d.shown) \cup ToSet(d.expand) \subseteq Held(c)
      BY <2>1, <3>2 DEF Held
    <3>4. Sound(d) /\ Within(d)
      BY <1>1, <1>2, <3>2, <3>3, Shifts
    <3> QED
      BY <3>1, <3>4, OneCallKeeps
  <2>3. CASE ~Contains(c.shown, k)
    <3> DEFINE b == [c EXCEPT !.expand = Tail(c.expand), !.shown = Append(c.shown, k)]
    <3>1. AddCard(p, b, k)
      BY <1>6, <2>3 DEF Compose
    <3>2. Append(c.shown, k) \in Seq(Keys) /\ ToSet(Append(c.shown, k)) = ToSet(c.shown) \cup {k}
      BY <1>3, <2>1, AppendIn
    <3> HIDE DEF c, k
    <3>3. /\ b \in Call /\ b.pc = c.pc /\ b.q = c.q /\ b.lost = c.lost
          /\ b.keyword = c.keyword /\ b.graph = c.graph /\ b.vector = c.vector /\ b.chunk = c.chunk
          /\ b.fused = c.fused /\ b.todo = c.todo /\ b.shown = Append(c.shown, k)
          /\ b.expand = Tail(c.expand) /\ b.lines = c.lines /\ b.facts = c.facts
      BY <1>2, <2>1, <3>2, ZenonT(90) DEF Call
    <3> HIDE DEF b
    <3>4. ToSet(b.todo) \cup ToSet(b.shown) \cup ToSet(b.expand) \subseteq Held(c)
      BY <2>1, <3>2, <3>3 DEF Held
    <3>5. Sound(b) /\ Within(b) /\ b.pc = "compose"
      BY <1>1, <1>2, <3>3, <3>4, Shifts
    <3> QED
      BY <2>1, <3>1, <3>5, AddCardKeeps
  <2> QED
    BY <2>2, <2>3
<1> QED
  BY <1>4, <1>5, <1>6

LEMMA ContentKeeps ==
    ASSUME CInv, ServeAssumption, NEW p \in Procs, Content(p)
    PROVE  CInv'
<1> DEFINE c == call[p]
           k == Head(c.todo)
           read == Sees(c.q, k) \/ Contains(c.chunk, k)
           lines == IF read THEN c.lines \cup {<<k, k>>} ELSE c.lines
           mentioned == IF read THEN c.mentioned \cup Says[k] ELSE c.mentioned
           d == [c EXCEPT !.pc = "compose", !.todo = Tail(c.todo),
                          !.lines = lines, !.mentioned = mentioned]
<1>1. c.pc = "content" /\ Goes(p, d)
  BY DEF Content, At
<1>2. Sound(c) /\ Within(c) /\ c \in Call
  BY SoundCall
<1>3. c.todo \in Seq(Keys) /\ c.todo # <<>> /\ c.lines \subseteq Keys \X Keys
  BY <1>1, <1>2 DEF Call, Sound
<1>4. /\ k \in Keys /\ Tail(c.todo) \in Seq(Keys) /\ k \in ToSet(c.todo)
      /\ ToSet(Tail(c.todo)) \subseteq ToSet(c.todo)
  BY <1>3, HeadTailIn
<1>5. lines \subseteq Keys \X Keys /\ lines \subseteq c.lines \cup {<<k, k>>}
  BY <1>3, <1>4
<1>11. mentioned \subseteq Tickets
  <2>1. c.mentioned \subseteq Tickets
    BY <1>2 DEF Call
  <2>2. Says[k] \subseteq Tickets
    BY <1>4 DEF ServeAssumption
  <2> QED
    BY <2>1, <2>2
<1> HIDE DEF c, k, lines, mentioned
<1>6. /\ d \in Call /\ d.pc = "compose" /\ d.q = c.q /\ d.lost = c.lost
      /\ d.keyword = c.keyword /\ d.graph = c.graph /\ d.vector = c.vector /\ d.chunk = c.chunk
      /\ d.fused = c.fused /\ d.todo = Tail(c.todo) /\ d.shown = c.shown /\ d.expand = c.expand
      /\ d.lines = lines /\ d.facts = c.facts
  BY <1>2, <1>4, <1>5, <1>11, ZenonT(90) DEF Call, PCs
<1> HIDE DEF d
<1>7. Sound(d)
  BY <1>1, <1>2, <1>6 DEF Sound, Early, Exact
<1>8. Named(d) \subseteq Named(c) \cup {k}
  <2> SUFFICES ASSUME NEW l \in lines, NEW x \in {l[1], l[2]} PROVE x \in Named(c) \cup {k}
    BY <1>6 DEF Named
  <2>1. l \in c.lines \/ l = <<k, k>>
    BY <1>5
  <2> QED
    BY <2>1 DEF Named
<1>9. Held(d) \subseteq Held(c)
  BY <1>4, <1>6, <1>8 DEF Held
<1>10. Within(d)
  BY <1>2, <1>6, <1>9 DEF Within, Sees
<1> QED
  BY <1>1, <1>7, <1>10, OneCallKeeps

-----------------------------------------------------------------------------
(* The checks, the decision and everybody else keep it                        *)

LEMMA Decided ==
    ASSUME NEW c \in Call, NEW f \in Finals, NEW a \in BOOLEAN, NEW e \in BOOLEAN
    PROVE  LET d == [c EXCEPT !.pc = "done", !.final = f, !.autonomous = a, !.executed = e]
           IN  d \in Call /\ SameAnswer(c, d) /\ d.pc = "done"
<1> DEFINE d == [c EXCEPT !.pc = "done", !.final = f, !.autonomous = a, !.executed = e]
<1> DEFINE b == [c EXCEPT !.pc = "done", !.final = f]
<1>1. b \in Call
  BY ZenonT(90) DEF Call, PCs
<1>2. [b EXCEPT !.autonomous = a, !.executed = e] \in Call
  <2> HIDE DEF b
  <2> QED
    BY <1>1 DEF Call
<1>3. d = [b EXCEPT !.autonomous = a, !.executed = e]
  BY DEF Call
<1>4. SameAnswer(c, d) /\ d.pc = "done"
  BY DEF Call, SameAnswer
<1> HIDE DEF b, d
<1> QED
  BY <1>2, <1>3, <1>4 DEF d

\* The checks and the decision keep the answer.
LEMMA LastStepsKeep ==
    ASSUME CInv, ServeAssumption, NEW p \in Procs,
           IsolationCheck(p) \/ Join(p) \/ Drill(p) \/ Decide(p)
    PROVE  CInv'
<1> DEFINE c == call[p]
<1>1. Sound(c) /\ Within(c) /\ c \in Call
  BY SoundCall
<1>2. CASE IsolationCheck(p)
  <2> DEFINE leaked == {k \in Touched(c) : Exists(k) /\ ~Sees(c.q, k)}
             gone == {k \in Keys : ~Exists(k)}
             d == [c EXCEPT !.pc = "join", !.leaked = leaked, !.gone = gone]
  <2>1. c.pc = "isolation" /\ Goes(p, d)
    BY <1>2 DEF IsolationCheck, At
  <2>2. leaked \subseteq Keys
    <3>1. ToSet(c.fused) \subseteq Keys /\ c.facts \subseteq Edge /\ c.lines \subseteq Keys \X Keys
      <4>1. c.fused \in Seq(Keys)
        BY <1>1 DEF Call
      <4> QED
        BY <1>1, <4>1, InSeq DEF Call
    <3>2. {e.obj : e \in c.facts} \subseteq Keys /\ Named(c) \subseteq Keys
      BY <3>1 DEF Edge, Named
    <3>3. c.mentioned \subseteq Keys
      BY <1>1 DEF Call, ServeAssumption
    <3> QED
      BY <3>1, <3>2, <3>3 DEF Touched
  <2>5. gone \subseteq Keys
    OBVIOUS
  <2> HIDE DEF c, leaked, gone
  <2>3. d \in Call /\ SameAnswer(c, d) /\ d.pc = "join"
    BY <1>1, <2>2, <2>5, ZenonT(90) DEF Call, SameAnswer, PCs
  <2> HIDE DEF d
  <2>4. Sound(d) /\ Within(d)
    BY <1>1, <2>1, <2>3, KeepsAnswer DEF Early
  <2> QED
    BY <2>1, <2>4, OneCallKeeps
<1>3. CASE Join(p)
  <2>1. PICK pc \in {"host", "decide"} : Goes(p, [c EXCEPT !.pc = pc])
    BY <1>3 DEF Join
  <2> DEFINE d == [c EXCEPT !.pc = pc]
  <2>2. c.pc = "join" /\ Goes(p, d)
    BY <1>3, <2>1 DEF Join, At
  <2> HIDE DEF c
  <2>3. d \in Call /\ SameAnswer(c, d) /\ d.pc \in {"host", "decide"}
    BY <1>1, ZenonT(90) DEF Call, SameAnswer, PCs
  <2> HIDE DEF d
  <2>4. Sound(d) /\ Within(d)
    BY <1>1, <2>2, <2>3, KeepsAnswer DEF Early
  <2> QED
    BY <2>2, <2>4, OneCallKeeps
<1>4. CASE Drill(p)
  <2>1. c.pc = "host"
    BY <1>4 DEF Drill, At
  <2>2. CASE Goes(p, [c EXCEPT !.pc = "decide"])
    <3> DEFINE d == [c EXCEPT !.pc = "decide"]
    <3>1. Goes(p, d)
      BY <2>2
    <3> HIDE DEF c
    <3>2. d \in Call /\ SameAnswer(c, d) /\ d.pc = "decide"
      BY <1>1, ZenonT(90) DEF Call, SameAnswer, PCs
    <3> HIDE DEF d
    <3>3. Sound(d) /\ Within(d)
      BY <1>1, <2>1, <3>2, KeepsAnswer DEF Early
    <3> QED
      BY <3>1, <3>3, OneCallKeeps
  <2>3. ASSUME NEW k \in Hosts, Goes(p, [c EXCEPT !.pc = "decide", !.host = HostFresh(c.q, k)])
        PROVE  CInv'
    <3> DEFINE host == HostFresh(c.q, k)
               d == [c EXCEPT !.pc = "decide", !.host = host]
    <3>1. Goes(p, d)
      BY <2>3
    <3>2. host \in {"none", "fresh", "stale"}
      BY DEF HostFresh
    <3> HIDE DEF c, host
    <3>3. d \in Call /\ SameAnswer(c, d) /\ d.pc = "decide"
      BY <1>1, <3>2, ZenonT(90) DEF Call, SameAnswer, PCs
    <3> HIDE DEF d
    <3>4. Sound(d) /\ Within(d)
      BY <1>1, <2>1, <3>3, KeepsAnswer DEF Early
    <3> QED
      BY <3>1, <3>4, OneCallKeeps
  <2> QED
    BY <1>4, <2>2, <2>3 DEF Drill
<1>5. CASE Decide(p)
  <2>1. PICK confidence \in Confidence(c) :
           LET final == stage_a_decision(Claims(c), c.q.action, Coverage(c), confidence)
           IN  Goes(p, [c EXCEPT !.pc = "done", !.final = final,
                                 !.autonomous = c.q.role \in leased[p],
                                 !.executed = Executes(c.q.role \in leased[p], final)])
    BY <1>5 DEF Decide
  <2> DEFINE final == stage_a_decision(Claims(c), c.q.action, Coverage(c), confidence)
             autonomous == c.q.role \in leased[p]
             executed == Executes(autonomous, final)
             d == [c EXCEPT !.pc = "done", !.final = final, !.autonomous = autonomous,
                            !.executed = executed]
  <2>2. c.pc = "decide" /\ Goes(p, d)
    BY <1>5, <2>1 DEF Decide, At
  <2>3. final \in Finals
    BY DEF stage_a_decision, gate, Finals
  <2>4. autonomous \in BOOLEAN /\ executed \in BOOLEAN
    BY DEF Executes
  <2> HIDE DEF c, final, autonomous, executed
  <2>5. d \in Call /\ SameAnswer(c, d) /\ d.pc = "done"
    BY <1>1, <2>3, <2>4, Decided
  <2> HIDE DEF d
  <2>6. Sound(d) /\ Within(d)
    BY <1>1, <2>2, <2>5, KeepsAnswer DEF Early
  <2> QED
    BY <2>2, <2>6, OneCallKeeps
<1> QED
  BY <1>2, <1>3, <1>4, <1>5

LEMMA AskKeeps ==
    ASSUME CInv, ServeAssumption, NEW p \in Procs, NEW q \in Queries, Ask(p, q)
    PROVE  CInv'
<1> DEFINE d == [NoCall EXCEPT !.pc = "keyword", !.q = q]
<1>1. Goes(p, d)
  BY DEF Ask
<1>2. Sound(NoCall) /\ Within(NoCall) /\ NoCall \in Call
  BY NoCallIs DEF Sound
<1>3. q \in Query
  BY DEF ServeAssumption
<1>4. /\ d \in Call /\ d.pc = "keyword" /\ d.q = q
      /\ d.keyword = <<>> /\ d.graph = <<>> /\ d.vector = <<>> /\ d.chunk = <<>>
      /\ d.fused = <<>> /\ d.todo = <<>> /\ d.shown = <<>> /\ d.expand = <<>>
      /\ d.lines = {} /\ d.facts = {}
  <2>1. d \in Call /\ d.pc = "keyword" /\ d.q = q
    BY <1>2, <1>3, ZenonT(90) DEF Call, PCs
  <2> QED
    BY <2>1 DEF NoCall
<1> HIDE DEF d
<1>5. IsInjective(<<>>) /\ ToSet(<<>>) = {}
  BY DEF IsInjective, ToSet
<1>6. Sound(d)
  BY <1>3, <1>4, <1>5 DEF Sound, Early
<1>7. Held(d) = {}
  BY <1>4, <1>5 DEF Held, Named
<1> QED
  BY <1>1, <1>6, <1>7, OneCallKeeps DEF Within

LEMMA RestartKeeps ==
    ASSUME CInv, NEW p \in Procs, Restart(p)
    PROVE  CInv'
<1>1. call' = [call EXCEPT ![p] = NoCall] /\ node' = node /\ edges' = edges
  BY DEF Restart, store
<1>2. Sound(NoCall) /\ Within(NoCall) /\ NoCall \in Call
  BY NoCallIs DEF Sound
<1>3. call' \in [Procs -> Call] /\ \A r \in Procs : call'[r] = IF r = p THEN NoCall ELSE call[r]
  BY <1>1, <1>2 DEF CInv, Calls
<1>4. Stored'
  BY <1>1 DEF CInv, Stored
<1>5. \A r \in Procs : Sound(call[r])' /\ Within(call[r])'
  BY <1>1, <1>2, <1>3 DEF CInv, Calls, Within, Sees
<1> QED
  BY <1>3, <1>4, <1>5 DEF CInv, Calls

LEMMA QuietSteps ==
    ASSUME CInv, UNCHANGED <<node, edges, call>>
    PROVE  CInv'
BY DEF CInv, Stored, Calls, Within, Sees

LEMMA ReturnKeeps ==
    ASSUME CInv, NEW p \in Procs, Return(p)
    PROVE  CInv'
<1>1. Sound(NoCall) /\ Within(NoCall)
  BY NoCallIs
<1> QED
  BY <1>1, OneCallKeeps DEF Return

LEMMA HeldIs ==
    ASSUME NEW c, Sound(c)
    PROVE  Held(c) \subseteq Keys
<1>1. /\ c.keyword \in Seq(Keys) /\ c.graph \in Seq(Keys) /\ c.vector \in Seq(Keys)
      /\ c.chunk \in Seq(Keys) /\ c.fused \in Seq(Keys) /\ c.todo \in Seq(Keys)
      /\ c.shown \in Seq(Keys) /\ c.expand \in Seq(Keys)
      /\ c.lines \subseteq Keys \X Keys /\ c.facts \subseteq Edge
  BY DEF Sound, Call
<1>2. \A s \in Seq(Keys) : ToSet(s) \subseteq Keys
  BY InSeq
<1>3. Named(c) \subseteq Keys
  BY <1>1 DEF Named
<1>4. {e.obj : e \in c.facts} \subseteq Keys
  BY <1>1 DEF Edge
<1> QED
  BY <1>1, <1>2, <1>3, <1>4 DEF Held

\* What is in a slice exists.
LEMMA SeenExists ==
    ASSUME ServeAssumption, NEW c, Sound(c), Within(c), NEW k \in Held(c), k \notin c.lost
    PROVE  Sees(c.q, k) /\ Exists(k) /\ k \in Keys
<1>1. k \in Keys
  BY HeldIs
<1>2. Sees(c.q, k)
  BY DEF Within
<1>3. c.pc # "idle"
  <2> SUFFICES ASSUME c.pc = "idle" PROVE FALSE
    OBVIOUS
  <2>1. c = NoCall
    BY DEF Sound
  <2>2. ToSet(<<>>) = {}
    BY DEF ToSet
  <2>3. Held(c) = {}
    BY <2>1, <2>2 DEF Held, NoCall, Named
  <2> QED
    BY <2>3
<1>4. c.q.role \in Roles
  BY <1>3 DEF Sound, Query
<1>5. Exists(k)
  BY <1>2, <1>4 DEF Sees, ServeAssumption, Exists
<1> QED
  BY <1>1, <1>2, <1>5

\* Writers that leave the owners of nodes that exist.
LEMMA WritesKeep ==
    ASSUME CInv, ServeAssumption, Stored', UNCHANGED call,
           \A k \in Keys : Exists(k) => node'[k].ns = node[k].ns
    PROVE  CInv'
<1>1. ASSUME NEW p \in Procs PROVE Within(call[p])'
  <2> SUFFICES ASSUME NEW k \in Held(call[p]), k \notin call[p].lost
               PROVE  (Sees(call[p].q, k))'
    BY DEF Within, Held, Named
  <2>1. Sees(call[p].q, k) /\ Exists(k) /\ k \in Keys
    BY SoundCall, SeenExists
  <2> QED
    BY <2>1 DEF Sees
<1> QED
  BY <1>1 DEF CInv, Calls, Sound

LEMMA EraseKeeps ==
    ASSUME CInv, ServeAssumption, NEW k \in Keys, Erase(k)
    PROVE  CInv'
<1>1. /\ node' = [node EXCEPT ![k] = Absent]
      /\ edges' = {e \in edges : k \notin {e.subj, e.obj}}
      /\ call' = [p \in Procs |-> IF At(p, "idle") THEN call[p]
                                ELSE [call[p] EXCEPT !.lost = @ \cup {k}, !.gone = @ \cup {k}]]
  BY DEF Erase
<1>2. Stored'
  <2>1. Absent \in Node
    BY DEF Absent, Node
  <2>2. edges' \subseteq edges /\ IsFiniteSet(edges) /\ edges \subseteq Edge
    BY <1>1 DEF CInv, Stored
  <2>3. IsFiniteSet(edges')
    BY <2>2, FS_Subset
  <2> QED
    BY <1>1, <2>1, <2>2, <2>3 DEF CInv, Stored
<1>3. ASSUME NEW p \in Procs PROVE Sound(call[p])' /\ Within(call[p])'
  <2> DEFINE c == call[p]
             d == [c EXCEPT !.lost = @ \cup {k}, !.gone = @ \cup {k}]
  <2>1. Sound(c) /\ Within(c) /\ c \in Call
    BY SoundCall
  <2>2. CASE c.pc = "idle"
    <3>1. call'[p] = NoCall
      BY <1>1, <2>1, <2>2 DEF At, Sound
    <3>2. ToSet(<<>>) = {}
      BY DEF ToSet
    <3>3. Held(NoCall) = {}
      BY <3>2 DEF Held, NoCall, Named
    <3>4. Sound(NoCall)
      BY NoCallIs
    <3>5. Sound(call'[p]) /\ Held(call'[p]) = {}
      BY <3>1, <3>3, <3>4
    <3> QED
      BY <3>5 DEF Within, Sound, Held, Named, Exact
  <2>3. CASE c.pc # "idle"
    <3>1. call'[p] = d
      BY <1>1, <2>3 DEF At
    <3>2. /\ d \in Call /\ d.pc = c.pc /\ d.q = c.q /\ d.lost = c.lost \cup {k}
          /\ d.keyword = c.keyword /\ d.graph = c.graph /\ d.vector = c.vector /\ d.chunk = c.chunk
          /\ d.fused = c.fused /\ d.todo = c.todo /\ d.shown = c.shown /\ d.expand = c.expand
          /\ d.lines = c.lines /\ d.facts = c.facts
      <4> HIDE DEF c
      <4> QED
        BY <2>1 DEF Call
    <3>3. Sound(d)
      <4> HIDE DEF c, d
      <4> QED
        BY <2>1, <2>3, <3>2 DEF Sound, Exact
    <3>4. Held(d) = Held(c)
      <4> HIDE DEF c, d
      <4> QED
        BY <3>2 DEF Held, Named
    <3>5. ASSUME NEW j \in Held(d), j \notin d.lost PROVE node'[j].ns \in Scope[d.q.role]
      <4>1. j \in Held(c) /\ j \notin c.lost /\ j # k
        BY <3>2, <3>4, <3>5
      <4>2. Sees(c.q, j) /\ j \in Keys
        BY <2>1, <4>1, SeenExists
      <4>3. node'[j] = node[j]
        BY <1>1, <4>1, <4>2 DEF CInv, Stored
      <4> HIDE DEF c, d
      <4> QED
        BY <3>2, <4>2, <4>3 DEF Sees
    <3>6. \A j \in Held(d) : node'[j].ns \in Scope[d.q.role] \/ j \in d.lost
      BY <3>5
    <3> HIDE DEF d, c
    <3>7. Sound(call'[p])
      BY <3>1, <3>3
    <3>8. \A j \in Held(call'[p]) : node'[j].ns \in Scope[(call'[p]).q.role] \/ j \in (call'[p]).lost
      BY <3>1, <3>6
    <3> QED
      BY <3>7, <3>8 DEF Within, Sees
  <2> QED
    BY <2>2, <2>3
<1>4. call' \in [Procs -> Call]
  BY <1>1, <1>3 DEF Sound
<1> QED
  BY <1>2, <1>3, <1>4 DEF CInv, Calls

LEMMA ChangeKeeps ==
    ASSUME CInv, ServeAssumption, Change
    PROVE  CInv'
<1>1. ASSUME NEW k \in Keys, NEW n \in Namespaces, Resolve(k, n) PROVE CInv'
  <2>1. ~Exists(k) /\ node' = [node EXCEPT ![k] = [Absent EXCEPT !.ns = n]]
        /\ edges' = edges /\ call' = call
    BY <1>1 DEF Resolve, Writes
  <2>2. [Absent EXCEPT !.ns = n] \in Node
    BY DEF Absent, Node
  <2>3. Stored'
    BY <2>1, <2>2 DEF CInv, Stored
  <2>4. \A j \in Keys : Exists(j) => node'[j].ns = node[j].ns
    BY <2>1 DEF CInv, Stored
  <2> QED
    BY <2>1, <2>3, <2>4, WritesKeep
<1>2. ASSUME NEW k \in Keys, Mark(k) PROVE CInv'
  <2>1. node' = [node EXCEPT ![k].dirty = TRUE] /\ edges' = edges /\ call' = call
    BY <1>2 DEF Mark, Writes
  <2>2. Stored' /\ \A j \in Keys : node'[j].ns = node[j].ns
    BY <2>1 DEF CInv, Stored, Node
  <2> QED
    BY <2>1, <2>2, WritesKeep
<1>3. ASSUME NEW k \in Keys, Embed(k) PROVE CInv'
  <2>1. node' = [node EXCEPT ![k] = [ns |-> node[k].ns, dirty |-> FALSE, vec |-> TRUE]]
        /\ edges' = edges /\ call' = call
    BY <1>3 DEF Embed, Writes
  <2>2. Stored' /\ \A j \in Keys : node'[j].ns = node[j].ns
    BY <2>1 DEF CInv, Stored, Node
  <2> QED
    BY <2>1, <2>2, WritesKeep
<1>4. ASSUME NEW k \in Keys, Erase(k) PROVE CInv'
  BY <1>4, EraseKeeps
<1>5. ASSUME NEW e \in Edge, Apply(e) PROVE CInv'
  <2>1. edges' = {e} \cup {d \in edges : ~SameSlot(d, e)} /\ node' = node /\ call' = call
    BY <1>5 DEF Apply, Writes
  <2>2. IsFiniteSet(edges')
    <3>1. IsFiniteSet({d \in edges : ~SameSlot(d, e)})
      BY FS_Subset DEF CInv, Stored
    <3>2. IsFiniteSet({d \in edges : ~SameSlot(d, e)} \cup {e})
      BY <3>1, FS_AddElement
    <3> QED
      BY <2>1, <3>2
  <2>3. Stored'
    BY <2>1, <2>2 DEF CInv, Stored
  <2> QED
    BY <2>1, <2>3, WritesKeep
<1>6. ASSUME NEW e \in Edge, Retract(e) PROVE CInv'
  <2>1. edges' = edges \ {e} /\ node' = node /\ call' = call
    BY <1>6 DEF Retract, Writes
  <2>2. Stored'
    <3>1. IsFiniteSet(edges \ {e})
      BY FS_RemoveElement DEF CInv, Stored
    <3> QED
      BY <2>1, <3>1 DEF CInv, Stored
  <2> QED
    BY <2>1, <2>2, WritesKeep
<1> QED
  BY <1>1, <1>2, <1>3, <1>4, <1>5, <1>6 DEF Change

LEMMA NextKeeps ==
    ASSUME CInv, ServeAssumption, [Next]_vars
    PROVE  CInv'
<1>1. CASE UNCHANGED vars
  BY <1>1, QuietSteps DEF vars
<1>2. CASE Change
  BY <1>2, ChangeKeeps
<1>3. CASE Govern
  <2>1. CASE \E p \in Procs : Restart(p)
    BY <2>1, RestartKeeps
  <2>2. CASE ~(\E p \in Procs : Restart(p))
    <3>1. UNCHANGED <<node, edges, call>>
      BY <1>3, <2>2 DEF Govern, Grant, Withdraw, auto_revert, store
    <3> QED
      BY <3>1, QuietSteps
  <2> QED
    BY <2>1, <2>2
<1>4. CASE \E p \in Procs : Answer(p)
  BY <1>4, KeywordKeeps, GraphKeeps, CountKeeps, NoEmbedderKeeps, VectorKeeps, ChunkKeeps, FuseKeeps,
     ReadPrimaryKeeps, ComposeKeeps, ContentKeeps, LastStepsKeep DEF Answer
<1>5. CASE \E p \in Procs : Return(p) \/ \E q \in Queries : Ask(p, q)
  BY <1>5, ReturnKeeps, AskKeeps
<1> QED
  BY <1>1, <1>2, <1>3, <1>4, <1>5 DEF Next

LEMMA InitKeeps ==
    ASSUME Init, ServeAssumption
    PROVE  CInv
<1>1. \A p \in Procs : call[p] = NoCall
  BY DEF Init
<1>2. call \in [Procs -> Call]
  BY NoCallIs DEF Init, Sound
<1>3. Calls
  BY <1>1, <1>2, NoCallIs DEF Calls
<1> QED
  BY <1>3 DEF CInv, Stored, Init

LEMMA CallsInvariant == Spec => []CInv
<1>1. Init => CInv
  BY InitKeeps, ServeAssumption
<1>2. CInv /\ [Next]_vars => CInv'
  BY NextKeeps, ServeAssumption
<1> QED
  BY <1>1, <1>2, PTL DEF Spec

\* The state is well typed in every state of every call, whatever the constants:
\* sequences stay finite sequences of keys, and a call that runs has its query.
THEOREM TypeTheorem == Spec => []TypeOK
<1>1. Init => Tables
  BY DEF Init, Tables
<1>2. CInv => call = [p \in Procs |-> call[p]]
  BY DEF CInv, Calls
<1>3. CInv /\ Tables /\ [Next]_vars => Tables'
  BY <1>2, LeaseStep
<1>4. CInv /\ Tables => TypeOK
  BY DEF CInv, Stored, Calls, Sound, Tables, TypeOK, At
<1> QED
  BY <1>1, <1>3, <1>4, CallsInvariant, PTL DEF Spec

\* A fact leads: for any rankings of any length, any graph and any interleaving
\* with writers, what an exact name or a pattern hit comes first in the fusion
\* (fuse.rrf with SOURCE_PRIORITY and the reinforcing chunk vote of serve.py).
THEOREM FirstTheorem == Spec => []FactFirst
<1>1. CInv => FactFirst
  BY DEF CInv, Calls, Sound, FactFirst, Exact
<1> QED
  BY <1>1, CallsInvariant, PTL

\* The role's slice holds across the reads of a call: every key it ranks, shows,
\* names or cites is the role's to see, or was erased under the call (the
\* namespace filter of every read in ladder.py and serve.py).
THEOREM IsolationTheorem == Spec => []Isolation
<1>1. CInv => Isolation
  BY DEF CInv, Calls, Within, Isolation, Held
<1> QED
  BY <1>1, CallsInvariant, PTL

-----------------------------------------------------------------------------
(* The self-check                                                             *)

\* What an answer says of others: the keys it ranks and cites, the tickets that
\* its lines and their prose name.
Answered(c) ==
    ToSet(c.fused) \cup {e.obj : e \in c.facts} \cup ((Named(c) \cup c.mentioned) \cap Tickets)

\* Until its decision a call has no section of a document, and it drills only
\* after a clean check.  From the check to the return no foreign key is missed
\* and none is reported for nothing; and what does not exist is known to be
\* gone, so that nobody's key comes back unnoticed.
Told(c) ==
    /\ c.pc \notin {"decide", "done"} => c.host = "none"
    /\ c.pc = "host" => c.leaked = {}
    /\ Checked(c) =>
         /\ \A k \in Answered(c) : Exists(k) /\ ~Sees(c.q, k) => k \in c.leaked \cup c.gone
         /\ c.leaked \subseteq c.lost \cup c.mentioned
         /\ c.host # "none" => c.leaked = {}
         /\ \A k \in Keys : ~Exists(k) => k \in c.gone

AllTold == \A p \in Procs : Told(call[p])

\* What the self-check and the steps after it leave alone.
SameReport(c, d) ==
    /\ d.q = c.q /\ d.fused = c.fused /\ d.facts = c.facts /\ d.lines = c.lines
    /\ d.mentioned = c.mentioned /\ d.leaked = c.leaked /\ d.lost = c.lost /\ d.gone = c.gone

LEMMA OneTold ==
    ASSUME CInv, AllTold, NEW p \in Procs, NEW d, Goes(p, d), Told(d)
    PROVE  AllTold'
<1>1. call' = [call EXCEPT ![p] = d] /\ node' = node
  BY DEF Goes, store
<1>2. \A r \in Procs : call'[r] = IF r = p THEN d ELSE call[r]
  BY <1>1 DEF CInv, Calls
<1>3. \A r \in Procs : Told(call'[r])
  BY <1>2 DEF AllTold
<1> QED
  BY <1>1, <1>3 DEF AllTold, Told, Checked, Answered, Named, Exists, Sees

\* A call that is not at its check yet and goes nowhere near its decision.
LEMMA NotYetTold ==
    ASSUME CInv, AllTold, NEW p \in Procs, NEW d, Goes(p, d), d.host = "none",
           d.pc \notin {"join", "host", "decide"}, d.pc = "done" => d.fused = <<>>
    PROVE  AllTold'
<1>1. Told(d)
  BY DEF Told, Checked
<1> QED
  BY <1>1, OneTold

\* Retrieval and the cards come before the check.
LEMMA RetrievalTold ==
    ASSUME CInv, AllTold, NEW p \in Procs,
           \/ Keyword(p) \/ Graph(p) \/ Count(p) \/ NoEmbedder(p)
           \/ VectorRound(p) \/ Chunk(p) \/ Fuse(p)
    PROVE  AllTold'
<1> DEFINE c == call[p]
<1>1. Sound(c) /\ c \in Call
  BY SoundCall
<1>2. Told(c)
  BY DEF AllTold
<1>3. c.pc \in Early /\ c.host = "none" /\ c.fused = <<>>
  <2>1. c.pc \in Early \ {"idle"}
    BY DEF Keyword, Graph, Count, NoEmbedder, VectorRound, Chunk, Fuse, At, Early
  <2> QED
    BY <1>1, <1>2, <2>1 DEF Told, Sound, Early
<1>4. DOMAIN c = Fields
  BY <1>1, FieldNames DEF Call
<1>5. CASE Keyword(p)
  BY <1>3, <1>4, <1>5, FieldNames, NotYetTold DEF Keyword
<1>6. CASE Graph(p)
  BY <1>3, <1>4, <1>6, FieldNames, NotYetTold DEF Graph
<1>7. CASE Count(p)
  BY <1>3, <1>4, <1>7, FieldNames, NotYetTold DEF Count
<1>8. CASE NoEmbedder(p)
  BY <1>3, <1>4, <1>8, FieldNames, NotYetTold DEF NoEmbedder
<1>9. CASE VectorRound(p)
  BY <1>3, <1>4, <1>9, FieldNames, NotYetTold DEF VectorRound, Early
<1>10. CASE Chunk(p)
  BY <1>3, <1>4, <1>10, FieldNames, NotYetTold DEF Chunk
<1>11. CASE Fuse(p)
  BY <1>3, <1>4, <1>11, FieldNames, NotYetTold DEF Fuse
<1> QED
  BY <1>5, <1>6, <1>7, <1>8, <1>9, <1>10, <1>11

LEMMA CardsTold ==
    ASSUME CInv, AllTold, NEW p \in Procs, ReadPrimary(p) \/ Compose(p) \/ Content(p)
    PROVE  AllTold'
<1> DEFINE c == call[p]
<1>1. c \in Call /\ Told(c)
  BY SoundCall DEF AllTold
<1>2. c.pc \in {"card", "compose", "content"} /\ c.host = "none"
  <2>1. c.pc \in {"card", "compose", "content"}
    BY DEF ReadPrimary, Compose, Content, At
  <2> QED
    BY <1>1, <2>1 DEF Told
<1>3. DOMAIN c = Fields
  BY <1>1, FieldNames DEF Call
<1>4. CASE ReadPrimary(p)
  BY <1>2, <1>3, <1>4, FieldNames, NotYetTold DEF ReadPrimary
<1>5. CASE Content(p)
  BY <1>2, <1>3, <1>5, FieldNames, NotYetTold DEF Content
<1>6. CASE Compose(p)
  <2>1. ASSUME NEW b, NEW k, AddCard(p, b, k), DOMAIN b = Fields, b.host = "none", b.pc = "compose"
        PROVE  AllTold'
    BY <2>1, FieldNames, NotYetTold DEF AddCard
  <2> DEFINE k == Head(c.expand)
             ofTodo == [c EXCEPT !.todo = Tail(c.todo)]
             ended == [c EXCEPT !.pc = "isolation"]
             popped == [c EXCEPT !.expand = Tail(c.expand)]
             shown == [c EXCEPT !.expand = Tail(c.expand), !.shown = Append(c.shown, k)]
  <2>2. c.pc = "compose"
    BY <1>6 DEF Compose, At
  <2>3. /\ DOMAIN ofTodo = Fields /\ ofTodo.host = "none" /\ ofTodo.pc = "compose"
        /\ ended.host = "none" /\ ended.pc = "isolation"
        /\ popped.host = "none" /\ popped.pc = "compose"
        /\ DOMAIN shown = Fields /\ shown.host = "none" /\ shown.pc = "compose"
    BY <1>2, <1>3, <2>2, FieldNames
  <2>4. AddCard(p, ofTodo, Head(c.todo)) \/ Goes(p, ended) \/ Goes(p, popped) \/ AddCard(p, shown, k)
    BY <1>6 DEF Compose
  <2> HIDE DEF ofTodo, ended, popped, shown
  <2> QED
    BY <2>1, <2>3, <2>4, NotYetTold
<1> QED
  BY <1>4, <1>5, <1>6

\* The check itself: it asks about all that the answer says of others, and of
\* what the call had itself only an erased key can be foreign.
LEMMA CheckTold ==
    ASSUME CInv, AllTold, NEW p \in Procs, IsolationCheck(p)
    PROVE  AllTold'
<1> DEFINE c == call[p]
           leaked == {k \in Touched(c) : Exists(k) /\ ~Sees(c.q, k)}
           gone == {k \in Keys : ~Exists(k)}
           d == [c EXCEPT !.pc = "join", !.leaked = leaked, !.gone = gone]
<1>1. c.pc = "isolation" /\ Goes(p, d)
  BY DEF IsolationCheck, At
<1>2. Within(c) /\ c \in Call /\ Told(c)
  BY SoundCall DEF AllTold
<1>3. Answered(c) \subseteq Touched(c)
  <2>1. c.mentioned \subseteq Tickets
    BY <1>2 DEF Call
  <2> QED
    BY <2>1 DEF Answered, Touched
<1>4. leaked \subseteq c.lost \cup c.mentioned
  <2>1. Touched(c) \subseteq Held(c) \cup c.mentioned
    BY DEF Touched, Held
  <2> QED
    BY <1>2, <2>1 DEF Within
<1>5. \A k \in Answered(c) : Exists(k) /\ ~Sees(c.q, k) => k \in leaked
  BY <1>3
<1>6. c.host = "none"
  BY <1>1, <1>2 DEF Told
<1>7. \A k \in Keys : ~Exists(k) => k \in gone
  OBVIOUS
<1> HIDE DEF c, leaked, gone
<1>8. /\ d.pc = "join" /\ d.leaked = leaked /\ d.gone = gone /\ d.host = c.host
      /\ d.q = c.q /\ d.fused = c.fused /\ d.facts = c.facts /\ d.lines = c.lines
      /\ d.mentioned = c.mentioned /\ d.lost = c.lost
  BY <1>2 DEF Call
<1> HIDE DEF d
<1>9. Answered(d) = Answered(c)
  BY <1>8 DEF Answered, Named
<1>10. Told(d)
  BY <1>4, <1>5, <1>6, <1>7, <1>8, <1>9 DEF Told
<1> QED
  BY <1>1, <1>10, OneTold

\* After it the answer and the report are what they are.
LEMMA StillTold ==
    ASSUME NEW c, NEW d, Told(c), Checked(c), Checked(d), SameReport(c, d),
           d.pc = "host" => d.leaked = {},
           d.pc \notin {"decide", "done"} => d.host = "none",
           d.host # "none" => d.leaked = {}
    PROVE  Told(d)
<1>1. Answered(d) = Answered(c)
  BY DEF Answered, SameReport, Named
<1> QED
  BY <1>1 DEF Told, SameReport

LEMMA LastStepsTold ==
    ASSUME CInv, AllTold, NEW p \in Procs, Join(p) \/ Drill(p) \/ Decide(p)
    PROVE  AllTold'
<1> DEFINE c == call[p]
<1>1. Sound(c) /\ c \in Call /\ Told(c)
  BY SoundCall DEF AllTold
<1>2. CASE Join(p)
  <2>1. PICK pc \in {"host", "decide"} : Goes(p, [c EXCEPT !.pc = pc]) /\ (pc = "host" => c.leaked = {})
    BY <1>2 DEF Join
  <2> DEFINE d == [c EXCEPT !.pc = pc]
  <2>2. c.pc = "join" /\ Goes(p, d)
    BY <1>2, <2>1 DEF Join, At
  <2> HIDE DEF c
  <2>3. d.pc = pc /\ d.host = c.host /\ SameReport(c, d)
    BY <1>1 DEF Call, SameReport
  <2> HIDE DEF d
  <2>4. c.host = "none" /\ Checked(c) /\ Checked(d)
    BY <1>1, <2>2, <2>3 DEF Told, Checked
  <2>5. Told(d)
    BY <1>1, <2>1, <2>3, <2>4, StillTold DEF SameReport
  <2> QED
    BY <2>2, <2>5, OneTold
<1>3. CASE Drill(p)
  <2>1. PICK host \in {"none", "fresh", "stale"} : Goes(p, [c EXCEPT !.pc = "decide", !.host = host])
    <3>1. CASE Goes(p, [c EXCEPT !.pc = "decide"])
      <4>1. c.pc = "host"
        BY <1>3 DEF Drill, At
      <4> HIDE DEF c
      <4>2. c.host = "none"
        BY <1>1, <4>1 DEF Told
      <4>3. [c EXCEPT !.pc = "decide"] = [c EXCEPT !.pc = "decide", !.host = "none"]
        BY <1>1, <4>2 DEF Call
      <4> QED
        BY <3>1, <4>3
    <3>2. \A k : HostFresh(c.q, k) \in {"none", "fresh", "stale"}
      BY DEF HostFresh
    <3> QED
      BY <1>3, <3>1, <3>2 DEF Drill
  <2> DEFINE d == [c EXCEPT !.pc = "decide", !.host = host]
  <2>2. c.pc = "host" /\ Goes(p, d)
    BY <1>3, <2>1 DEF Drill, At
  <2> HIDE DEF c
  <2>3. d.pc = "decide" /\ d.leaked = c.leaked /\ SameReport(c, d)
    BY <1>1 DEF Call, SameReport
  <2> HIDE DEF d
  <2>4. c.leaked = {} /\ Checked(c) /\ Checked(d)
    BY <1>1, <2>2, <2>3 DEF Told, Checked
  <2>5. Told(d)
    BY <1>1, <2>3, <2>4, StillTold
  <2> QED
    BY <2>2, <2>5, OneTold
<1>4. CASE Decide(p)
  <2>1. PICK confidence \in Confidence(c) :
           LET final == stage_a_decision(Claims(c), c.q.action, Coverage(c), confidence)
           IN  Goes(p, [c EXCEPT !.pc = "done", !.final = final,
                                 !.autonomous = c.q.role \in leased[p],
                                 !.executed = Executes(c.q.role \in leased[p], final)])
    BY <1>4 DEF Decide
  <2> DEFINE final == stage_a_decision(Claims(c), c.q.action, Coverage(c), confidence)
             autonomous == c.q.role \in leased[p]
             executed == Executes(autonomous, final)
             d == [c EXCEPT !.pc = "done", !.final = final, !.autonomous = autonomous,
                            !.executed = executed]
  <2>2. c.pc = "decide" /\ Goes(p, d)
    BY <1>4, <2>1 DEF Decide, At
  <2> HIDE DEF c, final, autonomous, executed
  <2>3. d.pc = "done" /\ d.host = c.host /\ d.leaked = c.leaked /\ SameReport(c, d)
    BY <1>1 DEF Call, SameReport
  <2> HIDE DEF d
  <2>4. Checked(c) /\ (d.fused # <<>> => Checked(d))
    BY <2>2, <2>3 DEF Checked
  <2>5. d.fused = <<>> => Told(d)
    BY <2>3 DEF Told, Checked
  <2>6. d.fused # <<>> => Told(d)
    BY <1>1, <2>3, <2>4, StillTold DEF Told, SameReport
  <2> QED
    BY <2>2, <2>5, <2>6, OneTold
<1> QED
  BY <1>2, <1>3, <1>4

\* Whoever changes the graph and lets its owners be: a key that comes into
\* being was gone at the check or since.
LEMMA WritersTold ==
    ASSUME CInv, AllTold, UNCHANGED call,
           \A k \in Keys : Exists(k) => node'[k].ns = node[k].ns
    PROVE  AllTold'
<1> SUFFICES ASSUME NEW p \in Procs PROVE Told(call[p])'
  BY DEF AllTold
<1> DEFINE c == call[p]
<1>1. Told(c) /\ Sound(c) /\ c \in Call
  BY SoundCall DEF AllTold
<1>2. call'[p] = c
  OBVIOUS
<1>3. \A k \in Keys : node'[k].ns # NULL /\ node[k].ns # NULL =>
           (node'[k].ns \in Scope[c.q.role] <=> node[k].ns \in Scope[c.q.role])
  BY DEF Exists
<1>4. \A k \in Keys : node'[k].ns = NULL => node[k].ns = NULL
  BY DEF Exists
<1>5. Answered(c) \subseteq Keys
  <2>1. c.mentioned \subseteq Tickets /\ Tickets \subseteq Keys
    BY <1>1, ServeAssumption DEF Call, ServeAssumption
  <2>2. ToSet(c.fused) \cup {e.obj : e \in c.facts} \cup Named(c) \subseteq Held(c)
    BY DEF Held
  <2>3. Held(c) \subseteq Keys
    BY <1>1, HeldIs
  <2> QED
    BY <2>1, <2>2, <2>3 DEF Answered
<1> HIDE DEF c
<1>6. ASSUME Checked(c), NEW k \in Answered(c), node'[k].ns # NULL, node'[k].ns \notin Scope[c.q.role]
      PROVE  k \in c.leaked \cup c.gone
  BY <1>1, <1>3, <1>5, <1>6 DEF Told, Exists, Sees
<1>7. ASSUME Checked(c), NEW k \in Keys, node'[k].ns = NULL PROVE k \in c.gone
  BY <1>1, <1>4, <1>7 DEF Told, Exists
<1> QED
  BY <1>1, <1>2, <1>6, <1>7 DEF Told, Checked, Answered, Named, Exists, Sees

LEMMA EraseTold ==
    ASSUME CInv, AllTold, NEW k \in Keys, Erase(k)
    PROVE  AllTold'
<1> SUFFICES ASSUME NEW p \in Procs PROVE Told(call[p])'
  BY DEF AllTold
<1> DEFINE c == call[p]
           d == [c EXCEPT !.lost = @ \cup {k}, !.gone = @ \cup {k}]
<1>1. Told(c) /\ Sound(c) /\ c \in Call
  BY SoundCall DEF AllTold
<1>2. node' = [node EXCEPT ![k] = Absent] /\ Absent.ns = NULL
  BY DEF Erase, Absent
<1>3. \A j \in Keys : node'[j].ns = IF j = k THEN NULL ELSE node[j].ns
  BY <1>2 DEF CInv, Stored
<1>4. CASE c.pc = "idle"
  <2>1. call'[p] = c
    BY <1>4 DEF Erase, At
  <2>2. ~Checked(c) /\ c.host = "none"
    BY <1>1, <1>4 DEF Told, Checked
  <2> HIDE DEF c
  <2> QED
    BY <1>4, <2>1, <2>2 DEF Told, Checked
<1>5. CASE c.pc # "idle"
  <2>1. call'[p] = d
    BY <1>5 DEF Erase, At
  <2>2. Answered(c) \subseteq Keys
    <3>1. c.mentioned \subseteq Tickets /\ Tickets \subseteq Keys
      BY <1>1, ServeAssumption DEF Call, ServeAssumption
    <3>2. ToSet(c.fused) \cup {e.obj : e \in c.facts} \cup Named(c) \subseteq Held(c)
      BY DEF Held
    <3>3. Held(c) \subseteq Keys
      BY <1>1, HeldIs
    <3> QED
      BY <3>1, <3>2, <3>3 DEF Answered
  <2> HIDE DEF c
  <2>3. /\ d.pc = c.pc /\ d.q = c.q /\ d.host = c.host /\ d.leaked = c.leaked
        /\ d.fused = c.fused /\ d.facts = c.facts /\ d.lines = c.lines /\ d.mentioned = c.mentioned
        /\ d.lost = c.lost \cup {k} /\ d.gone = c.gone \cup {k}
    BY <1>1 DEF Call
  <2> HIDE DEF d
  <2>4. Answered(d) = Answered(c) /\ (Checked(d) <=> Checked(c))
    BY <2>3 DEF Answered, Named, Checked
  <2>5. ASSUME Checked(d), NEW j \in Answered(d), node'[j].ns # NULL, node'[j].ns \notin Scope[d.q.role]
        PROVE  j \in d.leaked \cup d.gone
    BY <1>1, <1>3, <2>2, <2>3, <2>4, <2>5 DEF Told, Exists, Sees
  <2>6. ASSUME Checked(d), NEW j \in Keys, node'[j].ns = NULL PROVE j \in d.gone
    BY <1>1, <1>3, <2>3, <2>4, <2>6 DEF Told, Exists
  <2>7. /\ d.pc \notin {"decide", "done"} => d.host = "none"
        /\ d.pc = "host" => d.leaked = {}
        /\ Checked(d) => /\ d.leaked \subseteq d.lost \cup d.mentioned
                         /\ d.host # "none" => d.leaked = {}
    BY <1>1, <2>3, <2>4 DEF Told
  <2> QED
    BY <2>1, <2>5, <2>6, <2>7 DEF Told, Checked, Answered, Named, Exists, Sees
<1> QED
  BY <1>4, <1>5

LEMMA ChangeTold ==
    ASSUME CInv, AllTold, Change
    PROVE  AllTold'
<1>1. CASE \E k \in Keys : Erase(k)
  BY <1>1, EraseTold
<1>2. CASE ~(\E k \in Keys : Erase(k))
  <2>1. UNCHANGED call
    BY <1>2 DEF Change, Resolve, Mark, Embed, Apply, Retract, Writes
  <2>2. \A k \in Keys : Exists(k) => node'[k].ns = node[k].ns
    BY <1>2 DEF CInv, Stored, Node, Change, Resolve, Mark, Embed, Apply, Retract
  <2> QED
    BY <2>1, <2>2, WritersTold
<1> QED
  BY <1>1, <1>2

LEMMA NextTold ==
    ASSUME CInv, AllTold, [Next]_vars
    PROVE  AllTold'
<1>1. NoCall.host = "none" /\ NoCall.pc = "idle" /\ ~Checked(NoCall)
  BY DEF NoCall, Checked
<1>2. CASE UNCHANGED <<node, call>>
  BY <1>2, WritersTold
<1>3. CASE Change
  BY <1>3, ChangeTold
<1>4. CASE Govern
  <2>1. ASSUME NEW p \in Procs, Restart(p) PROVE AllTold'
    <3>1. call' = [call EXCEPT ![p] = NoCall] /\ node' = node
      BY <2>1 DEF Restart, store
    <3>2. \A r \in Procs : call'[r] = IF r = p THEN NoCall ELSE call[r]
      BY <3>1 DEF CInv, Calls
    <3>3. Told(NoCall)
      BY <1>1 DEF Told
    <3>4. \A r \in Procs : Told(call'[r])
      BY <3>2, <3>3 DEF AllTold
    <3> QED
      BY <3>1, <3>4 DEF AllTold, Told, Checked, Answered, Named, Exists, Sees
  <2>2. CASE ~(\E p \in Procs : Restart(p))
    <3>1. UNCHANGED <<node, call>>
      BY <1>4, <2>2 DEF Govern, Grant, Withdraw, auto_revert, store
    <3> QED
      BY <1>2, <3>1
  <2> QED
    BY <2>1, <2>2
<1>5. CASE \E p \in Procs : Answer(p)
  BY <1>5, RetrievalTold, CardsTold, CheckTold, LastStepsTold DEF Answer
<1>6. CASE \E p \in Procs : Return(p) \/ \E q \in Queries : Ask(p, q)
  <2>1. \A p \in Procs : Return(p) => AllTold'
    BY <1>1, NotYetTold DEF Return
  <2>2. ASSUME NEW p \in Procs, NEW q \in Queries, Ask(p, q) PROVE AllTold'
    <3> DEFINE d == [NoCall EXCEPT !.pc = "keyword", !.q = q]
    <3>1. d.pc = "keyword" /\ d.host = "none"
      BY DEF NoCall
    <3>2. Goes(p, d)
      BY <2>2 DEF Ask
    <3> HIDE DEF d
    <3> QED
      BY <3>1, <3>2, NotYetTold
  <2> QED
    BY <1>6, <2>1, <2>2
<1> QED
  BY <1>2, <1>3, <1>4, <1>5, <1>6 DEF Next, vars

\* What an answer says of others is known, for any graph, any prose and any
\* interleaving with writers: from the self-check to the return no foreign key
\* goes unreported unless it came back to another owner meanwhile, none is
\* reported but an erased one or one that readable prose names, and prose of a
\* document joins only an answer without any (serve.py's isolation self-check
\* and the drill gated on it).
THEOREM LeaksTheorem == Spec => []LeaksAreKnown
<1>1. Init => AllTold
  <2>1. NoCall.host = "none" /\ NoCall.pc = "idle"
    BY DEF NoCall
  <2>2. Told(NoCall)
    BY <2>1 DEF Told, Checked
  <2> QED
    BY <2>2 DEF Init, AllTold
<1>2. CInv /\ AllTold /\ [Next]_vars => AllTold'
  BY NextTold
<1>3. AllTold => LeaksAreKnown
  BY DEF AllTold, Told, LeaksAreKnown, Answered
<1> QED
  BY <1>1, <1>2, <1>3, CallsInvariant, PTL DEF Spec

-----------------------------------------------------------------------------
(* The vector rung                                                            *)

LEMMA FewerThan ==
    ASSUME NEW S, IsFiniteSet(S), NEW R \in SUBSET S
    PROVE  /\ IsFiniteSet(R) /\ Cardinality(R) \in Nat /\ Cardinality(S) \in Nat
           /\ Cardinality(R) <= Cardinality(S)
           /\ R # S => Cardinality(R) < Cardinality(S)
<1>1. IsFiniteSet(R) /\ Cardinality(R) <= Cardinality(S) /\ (Cardinality(S) = Cardinality(R) => S = R)
  BY FS_Subset
<1>2. Cardinality(R) \in Nat /\ Cardinality(S) \in Nat
  BY <1>1, FS_CardinalityType
<1> QED
  BY <1>1, <1>2

Closer(S, x) == {y \in S : near[y] < near[x]}

LEMMA NearestIs ==
    ASSUME NEW S, NEW n, NEW x \in S
    PROVE  x \in Nearest(S, n) <=> Cardinality(Closer(S, x)) < n
BY DEF Nearest, Closer

\* A set has all its members among the nearest when it is small.
LEMMA AllNearest ==
    ASSUME NEW S, IsFiniteSet(S), S \subseteq Keys, ServeAssumption,
           NEW n \in Nat, Cardinality(S) <= n
    PROVE  Nearest(S, n) = S
<1>1. ASSUME NEW x \in S PROVE x \in Nearest(S, n)
  <2>1. Closer(S, x) \in SUBSET S /\ x \notin Closer(S, x)
    BY DEF Closer, ServeAssumption
  <2>2. Cardinality(Closer(S, x)) < Cardinality(S) /\ Cardinality(S) \in Nat /\ Cardinality(Closer(S, x)) \in Nat
    BY <2>1, FewerThan
  <2>3. Cardinality(Closer(S, x)) < n
    BY <2>2
  <2> QED
    BY <2>3, NearestIs
<1> QED
  BY <1>1 DEF Nearest

\* The T nearest in a window, when there are T, are the T nearest.
InWindow(E, I, m, n) == Nearest(Nearest(E, m) \cap I, n)

LEMMA WindowSuffices ==
    ASSUME ServeAssumption, NEW E, E \subseteq Keys, NEW I, I \subseteq E,
           NEW m \in Nat, NEW n \in Nat,
           Cardinality(InWindow(E, I, m, n)) >= n
    PROVE  InWindow(E, I, m, n) = Nearest(I, n)
<1> DEFINE W == Nearest(E, m)
           J == W \cap I
<1>1. IsFiniteSet(E) /\ IsFiniteSet(I) /\ J \subseteq I
  BY FS_Subset DEF ServeAssumption
<1>2. near \in [Keys -> Nat] /\ \A x, y \in Keys : near[x] = near[y] => x = y
  BY DEF ServeAssumption, IsInjective
\* the window is closed: what is nearer than a member is a member
<1>3. ASSUME NEW w \in W, NEW x \in E, near[x] < near[w] PROVE x \in W
  <2>0. w \in E /\ near[x] \in Nat /\ near[w] \in Nat /\ \A y \in E : near[y] \in Nat
    BY <1>2 DEF Nearest
  <2>10. ASSUME NEW y \in E, near[y] < near[x] PROVE near[y] < near[w]
    <3>1. near[y] \in Nat
      BY <2>0
    <3> QED
      BY <1>3, <2>0, <2>10, <3>1
  <2>11. Closer(E, x) \subseteq Closer(E, w) /\ Closer(E, w) \subseteq E
    BY <2>10 DEF Closer
  <2>1. w \in E /\ Closer(E, x) \in SUBSET Closer(E, w) /\ Closer(E, w) \in SUBSET E
    BY <2>0, <2>11
  <2>2. IsFiniteSet(Closer(E, w))
    BY <1>1, <2>1, FS_Subset
  <2>3. Cardinality(Closer(E, x)) <= Cardinality(Closer(E, w)) /\ Cardinality(Closer(E, x)) \in Nat
        /\ Cardinality(Closer(E, w)) \in Nat
    BY <2>1, <2>2, FewerThan
  <2>4. Cardinality(Closer(E, w)) < m
    BY <2>1, NearestIs
  <2>5. Cardinality(Closer(E, x)) < m
    BY <2>3, <2>4
  <2> QED
    BY <2>5, NearestIs
<1>4. W \subseteq E
  BY DEF Nearest
<1> HIDE DEF W
<1>5. ASSUME NEW x \in J PROVE x \in Nearest(J, n) <=> x \in Nearest(I, n)
  <2>1. x \in W /\ x \in I /\ x \in E
    BY <1>4
  <2>2. Closer(I, x) = Closer(J, x)
    BY <1>3, <2>1 DEF Closer
  <2> QED
    BY <2>1, <2>2, NearestIs
<1>6. ASSUME NEW x \in I, x \notin W PROVE x \notin Nearest(I, n)
  <2>1. J \in SUBSET Closer(I, x)
    <3> SUFFICES ASSUME NEW w \in J PROVE near[w] < near[x]
      BY <1>1 DEF Closer
    <3>1. w \in W /\ w # x /\ w \in Keys /\ x \in Keys /\ x \in E
      BY <1>4, <1>6
    <3>2. ~(near[x] < near[w])
      BY <1>3, <1>6, <3>1
    <3>3. near[x] # near[w] /\ near[x] \in Nat /\ near[w] \in Nat
      BY <1>2, <3>1
    <3> QED
      BY <3>2, <3>3
  <2>2. IsFiniteSet(Closer(I, x)) /\ IsFiniteSet(J)
    BY <1>1, FS_Subset DEF Closer
  <2>3. Cardinality(J) <= Cardinality(Closer(I, x)) /\ Cardinality(J) \in Nat
        /\ Cardinality(Closer(I, x)) \in Nat
    BY <2>1, <2>2, FewerThan
  <2>4. Nearest(J, n) \in SUBSET J
    BY DEF Nearest
  <2>5. Cardinality(Nearest(J, n)) <= Cardinality(J) /\ Cardinality(Nearest(J, n)) \in Nat
    BY <2>2, <2>4, FewerThan
  <2>6. Cardinality(Nearest(J, n)) >= n
    BY DEF W, InWindow
  <2>7. ~(Cardinality(Closer(I, x)) < n)
    BY <2>3, <2>5, <2>6
  <2> QED
    BY <2>7, NearestIs
<1>7. Nearest(J, n) \subseteq J /\ Nearest(I, n) \subseteq I
  BY DEF Nearest
<1>8. Nearest(J, n) = Nearest(I, n)
  BY <1>1, <1>5, <1>6, <1>7
<1> QED
  BY <1>8 DEF W, InWindow

LEMMA RoundFinds ==
    ASSUME CInv, ServeAssumption, NEW p \in Procs, VectorRound(p), call'[p].pc = "chunk",
           Cardinality(Embedded) <= call[p].total
    PROVE  ToSet(call'[p].vector) = Nearest({k \in Embedded : Sees(call[p].q, k)}, T)
<1> DEFINE c == call[p]
           m == Min({c.over, Max({c.total, 1})})
           window == Nearest(Embedded, m)
           I == {k \in Embedded : Sees(c.q, k)}
           hits == Nearest({k \in window : Sees(c.q, k)}, T)
<1>1. c.pc = "query"
  BY DEF VectorRound, At
<1>2. c \in Call /\ c.total \in Nat /\ c.over \in Nat /\ T \in Nat
  BY SoundCall DEF Call, ServeAssumption
<1>3. call' = [call EXCEPT ![p] = call'[p]] /\ \A d : Goes(p, d) => call'[p] = d
  BY DEF CInv, Calls, Goes, VectorRound
<1>4. Enough(c, hits) /\ \E vector \in Ordered(hits) : call'[p] = [c EXCEPT !.pc = "chunk", !.vector = vector]
  <2>1. CASE Enough(c, hits)
    BY <1>3, <2>1 DEF VectorRound
  <2>2. CASE ~Enough(c, hits)
    <3>1. call'[p] = [c EXCEPT !.over = WiderOver(c)]
      BY <1>3, <2>2 DEF VectorRound
    <3>2. call'[p].pc = c.pc
      <4> HIDE DEF c
      <4> QED
        BY <1>2, <3>1 DEF Call
    <3> QED
      BY <1>1, <3>2
  <2> QED
    BY <2>1, <2>2
<1>5. PICK vector \in Ordered(hits) : call'[p] = [c EXCEPT !.pc = "chunk", !.vector = vector]
  BY <1>4
<1>6. call'[p].vector = vector
  <2> HIDE DEF c
  <2> QED
    BY <1>2, <1>5 DEF Call
<1>7. Embedded \subseteq Keys /\ IsFiniteSet(Embedded) /\ I \subseteq Embedded
  BY FS_Subset DEF Embedded, ServeAssumption
<1>8. {k \in window : Sees(c.q, k)} = window \cap I
  BY DEF Nearest
<1>9. ToSet(vector) = hits
  <2>1. vector \in SetToSeqs(hits)
    BY DEF Ordered, Orders
  <2>2. hits \subseteq Keys
    BY <1>7 DEF Nearest
  <2> HIDE DEF hits
  <2> QED
    BY <2>1, <2>2, KeysOfSet
<1>10. m \in Nat /\ (c.over >= c.total => c.total <= m)
  <2>1. c.total \in Int /\ c.over \in Int
    BY <1>2
  <2> HIDE DEF c
  <2>2. PICK t : t = Max({c.total, 1})
    OBVIOUS
  <2>3. t = IF c.total <= 1 THEN 1 ELSE c.total
    BY <2>1, <2>2, LessOf
  <2>4. t \in Int
    BY <2>1, <2>3
  <2>5. Min({c.over, t}) = IF c.over <= t THEN c.over ELSE t
    BY <2>1, <2>4, LessOf
  <2>6. m = Min({c.over, t})
    BY <2>2
  <2> QED
    BY <1>2, <2>3, <2>5, <2>6
<1> HIDE DEF m
<1>11. hits = Nearest(I, T)
  <2>1. CASE Cardinality(hits) >= T
    <3>1. hits = Nearest(window \cap I, T)
      BY <1>8
    <3>9. I \subseteq Embedded /\ Embedded \subseteq Keys
      BY <1>7
    <3> HIDE DEF I, hits
    <3>2. hits = InWindow(Embedded, I, m, T)
      BY <3>1 DEF InWindow
    <3>3. m \in Nat /\ T \in Nat
      BY <1>2, <1>10
    <3>4. Cardinality(InWindow(Embedded, I, m, T)) >= T
      BY <2>1, <3>2
    <3> HIDE DEF c, window
    <3>5. InWindow(Embedded, I, m, T) = Nearest(I, T)
      BY <3>3, <3>4, <3>9, ServeAssumption, WindowSuffices
    <3> QED
      BY <3>2, <3>5
  <2>2. CASE c.over >= c.total
    <3>1. Cardinality(Embedded) <= m
      <4>1. Cardinality(Embedded) \in Nat
        BY <1>7, FS_CardinalityType
      <4> QED
        BY <1>2, <1>10, <2>2, <4>1
    <3>2. window = Embedded
      BY <1>7, <1>10, <3>1, AllNearest
    <3> HIDE DEF window
    <3> QED
      BY <3>2
  <2> QED
    BY <1>4, <2>1, <2>2 DEF Enough
<1> QED
  BY <1>6, <1>9, <1>11

\* No recall cliff: a vector rung that ends has the T nearest of all the vectors
\* in scope, when the index is no larger than it was counted
\* (ladder._vector_query's widening over-fetch).
THEOREM CliffTheorem == Spec => NoCliff
<1> DEFINE Full(p) == /\ call[p].pc = "query" /\ call'[p].pc = "chunk"
                      /\ Cardinality(Embedded) <= call[p].total
                      => ToSet(call'[p].vector) = Nearest({k \in Embedded : Sees(call[p].q, k)}, T)
<1>1. ASSUME CInv, ServeAssumption, [Next]_vars, NEW p \in Procs PROVE Full(p)
  <2> SUFFICES ASSUME call[p].pc = "query", call'[p].pc = "chunk",
                      Cardinality(Embedded) <= call[p].total
               PROVE  ToSet(call'[p].vector) = Nearest({k \in Embedded : Sees(call[p].q, k)}, T)
    OBVIOUS
  <2>1. call = [r \in Procs |-> call[r]] /\ \A r \in Procs : DOMAIN call[r] = DOMAIN NoCall
    BY <1>1 DEF CInv, Calls, Call, NoCall
  <2>2. Answer(p)
    BY <1>1, <2>1, OwnStep
  <2>3. VectorRound(p)
    BY <2>2 DEF Answer, Keyword, Graph, Count, NoEmbedder, Chunk, Fuse, ReadPrimary, Compose,
         Content, IsolationCheck, Join, Drill, Decide, At
  <2> QED
    BY <1>1, <2>3, RoundFinds
<1>2. CInv /\ [Next]_vars => [\A p \in Procs : Full(p)]_vars
  BY <1>1, ServeAssumption
<1> QED
  BY <1>2, CallsInvariant, PTL DEF Spec, NoCliff

=============================================================================

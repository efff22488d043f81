---------------------------- MODULE StagingProofs ----------------------------
(* What the locks of the gate give, whatever calls interleave, abort, crash   *)
(* or run beside a rollback and a sweep: proofs of TypeOK, SingleCurrent,     *)
(* PromotedOnOwnNodes and LifecyclePromise for Staging.                       *)
EXTENDS Staging, TLAPS

Reviews == {"approve", "reject", "promote"}
Writers == {"promote", "ingest"}

\* The facts that end when f begins: every other object of an evicting relation.
Displaced(f) == {g \in Slot(f) : evicts(g.rel) /\ g.o # f.o}

\* The program text: which call can be at which statement, and what it carries.
Placed(p) ==
    LET c == call[p] IN
    /\ c.op = "none" <=> c.pc = "idle"
    /\ c.pc \in {"lock", "read", "cas", "set"} => c.op \in Reviews
    /\ c.pc \in {"owner", "verify"} => c.op = "promote"
    /\ c.pc \in {"subject", "merge"} => c.op \in Writers
    /\ c.op \in Reviews => c.arg \in Cands
    /\ c.op = "ingest" => c.arg \in Trusted
    /\ c.made => c.op \in Writers
    /\ c.op = "promote" /\ c.pc \in {"cas", "set", "commit"} => c.made
    /\ c.op \in Writers => c.out \subseteq Displaced(FactOf(p))
    /\ c.op \notin Writers => c.out = {}

Placement == \A p \in Clients : Placed(p)

\* A review that is past its lock holds its candidate, and past its read the
\* candidate is still as it was read.
CandHeld(p) ==
    LET c == call[p] IN
    c.op \in Reviews =>
        /\ c.pc # "lock" => lock[c.arg] = p /\ status[c.arg] # "none"
        /\ c.pc \notin {"lock", "read"} => status[c.arg] \in Allowed(c.op)

\* A writer of a functional relation that is past its lock holds the subject,
\* and knows every edge its own would stand beside.
SlotHeld(p) ==
    LET c == call[p] IN
    (c.op \in Writers /\ c.pc \in {"merge", "verify", "cas", "set", "commit"}
       /\ functional(FactOf(p).rel)) =>
        /\ lock[FactOf(p).s] = p
        /\ \A g \in Slot(FactOf(p)) \cap current : g = FactOf(p) \/ g \in c.out

\* A promote that is past its ownership check has its endpoints still.
EndsOwned(p) ==
    call[p].op = "promote" /\ call[p].pc \notin {"lock", "read", "owner"} =>
        Owned(FactOf(p), FactOf(p).s) /\ Owned(FactOf(p), FactOf(p).o)

Holding == missed \/ \A p \in Clients : CandHeld(p) /\ SlotHeld(p) /\ EndsOwned(p)

\* rollback_namespace refuses the shared namespace.
Spared == rollback.pc = "nodes" => rollback.ns \in Namespaces \ {Shared}

Inv == TypeOK /\ Placement /\ Spared /\ Holding /\ SingleCurrent /\ PromotedOnOwnNodes

CallRec == [op : Ops \cup {"none"}, arg : Cands \cup Trusted \cup {NULL},
            pc : Steps, tries : 0..MaxTries, out : SUBSET Facts, made : BOOLEAN]

Places == Keys \cup Cands

-----------------------------------------------------------------------------
(* Lemmas                                                                     *)

LEMMA CallsTyped == TypeOK => call \in [Clients -> CallRec] /\ \A p \in Clients : call[p] \in CallRec
BY DEF TypeOK, CallRec

LEMMA IdleTyped == Idle \in CallRec
BY StagingAssumption DEF Idle, CallRec, Steps

\* A functional relation evicts what is in its slot or rejects its successor.
LEMMA EvictsOrRejects ==
    ASSUME NEW rel \in RelNames, functional(rel)
    PROVE  evicts(rel) \/ rejects(rel)
BY DEF RelNames, functional, evicts, rejects, RULES, Rule

LEMMA OnlyFunctional ==
    ASSUME NEW rel \in RelNames, evicts(rel)
    PROVE  functional(rel)
BY DEF RelNames, functional, evicts, RULES, Rule

\* The fact of a call that writes one.
LEMMA FactTyped ==
    ASSUME TypeOK, Placement, NEW p \in Clients, call[p].op \in Writers
    PROVE  FactOf(p) \in Facts
BY StagingAssumption DEF Placement, Placed, FactOf, Writers, Reviews

\* Two facts of a slot with the same object are one.
LEMMA SameObject ==
    ASSUME NEW f \in Facts, NEW g \in Slot(f), f.o = g.o
    PROVE  f = g
BY StagingAssumption DEF Slot

\* What a call holds stays so while nothing it locks is touched.
LEMMA OthersHold ==
    ASSUME Inv, ~missed, NEW q \in Clients, call'[q] = call[q],
           \A x \in Places : lock[x] = q => lock'[x] = q,
           \A c \in Cands : lock[c] = q /\ status[c] # "none" => status'[c] = status[c],
           \A g \in current' \ current : functional(g.rel) => lock[g.s] # q,
           \A c \in Cands, k \in Keys :
               lock[c] = q /\ status[c] # "none" /\ Owned(CandFact[c], k)
                   => Owned(CandFact[c], k)'
    PROVE  CandHeld(q)' /\ SlotHeld(q)' /\ EndsOwned(q)'
<1>1. CandHeld(q) /\ SlotHeld(q) /\ EndsOwned(q) /\ Placed(q) /\ TypeOK
  BY DEF Inv, Holding, Placement
<1>2. FactOf(q)' = FactOf(q)
  BY DEF FactOf
<1>3. CandHeld(q)'
  BY <1>1 DEF CandHeld, Placed, Reviews, Places
<1>4. SlotHeld(q)'
  <2> SUFFICES ASSUME call[q].op \in Writers,
                      call[q].pc \in {"merge", "verify", "cas", "set", "commit"},
                      functional(FactOf(q).rel)
               PROVE  /\ lock'[FactOf(q).s] = q
                      /\ \A g \in Slot(FactOf(q)) \cap current' :
                             g = FactOf(q) \/ g \in call[q].out
    BY <1>2 DEF SlotHeld, Slot
  <2>1. FactOf(q) \in Facts /\ FactOf(q).s \in Keys
    BY <1>1, FactTyped, StagingAssumption DEF Inv
  <2>2. lock[FactOf(q).s] = q
    BY <1>1 DEF SlotHeld
  <2>3. ASSUME NEW g \in Slot(FactOf(q)) \cap current' PROVE g \in current
    <3>1. g.s = FactOf(q).s /\ g.rel = FactOf(q).rel
      BY DEF Slot
    <3> QED
      BY <3>1, <2>2
  <2> QED
    BY <1>1, <2>1, <2>2, <2>3 DEF SlotHeld, Places
<1>5. EndsOwned(q)'
  <2> SUFFICES ASSUME call[q].op = "promote", call[q].pc \notin {"lock", "read", "owner"}
               PROVE  Owned(FactOf(q), FactOf(q).s)' /\ Owned(FactOf(q), FactOf(q).o)'
    BY <1>2 DEF EndsOwned
  <2>1. call[q].arg \in Cands /\ FactOf(q) = CandFact[call[q].arg]
    BY <1>1 DEF Placed, FactOf, Reviews
  <2>2. lock[call[q].arg] = q /\ status[call[q].arg] # "none"
    BY <1>1 DEF CandHeld, Reviews
  <2>3. FactOf(q) \in Facts /\ FactOf(q).s \in Keys /\ FactOf(q).o \in Keys
    BY <2>1, StagingAssumption
  <2> QED
    BY <1>1, <1>2, <2>1, <2>2, <2>3 DEF EndsOwned
<1> QED
  BY <1>3, <1>4, <1>5

\* A statement of p that changes nothing but its call and its locks.
LEMMA OneCaller ==
    ASSUME Inv, NEW p \in Clients,
           call' \in [Clients -> CallRec],
           \A q \in Clients \ {p} : call'[q] = call[q],
           UNCHANGED <<status, owner, current, rollback, sweep>>,
           lock' \in [Places -> Clients \cup {NULL}],
           \A q \in Clients \ {p}, x \in Places : lock[x] = q => lock'[x] = q,
           missed' \in BOOLEAN, missed => missed',
           Placed(p)',
           ~missed' => CandHeld(p)' /\ SlotHeld(p)' /\ EndsOwned(p)'
    PROVE  Inv'
<1>1. TypeOK'
  BY DEF Inv, TypeOK, CallRec, Places
<1>2. Placement'
  <2> SUFFICES ASSUME NEW q \in Clients \ {p} PROVE Placed(q)'
    BY DEF Placement
  <2>1. Placed(q) /\ call'[q] = call[q] /\ FactOf(q)' = FactOf(q)
    BY DEF Inv, Placement, FactOf
  <2> QED
    BY <2>1 DEF Placed, Slot
<1>3. Holding'
  <2> SUFFICES ASSUME ~missed', NEW q \in Clients \ {p}
               PROVE  CandHeld(q)' /\ SlotHeld(q)' /\ EndsOwned(q)'
    BY DEF Holding
  <2>1. \A c \in Cands, k \in Keys : Owned(CandFact[c], k) => Owned(CandFact[c], k)'
    BY DEF Owned
  <2> QED
    BY <2>1, OthersHold
<1>4. Spared' /\ SingleCurrent' /\ PromotedOnOwnNodes'
  BY DEF Inv, Spared, SingleCurrent, PromotedOnOwnNodes, Owned
<1> QED
  BY <1>1, <1>2, <1>3, <1>4 DEF Inv

-----------------------------------------------------------------------------
(* The statements of a call                                                   *)

LEMMA ReleasedTyped ==
    ASSUME Inv, NEW p \in Clients
    PROVE  /\ Released(p) \in [Places -> Clients \cup {NULL}]
           /\ \A q \in Clients \ {p}, x \in Places : lock[x] = q => Released(p)[x] = q
BY StagingAssumption DEF Inv, TypeOK, Released, Places

\* c is the call of p out of its transaction: idle, or at the start of a try.
Afresh(p, c) ==
    \/ c = Idle
    \/ /\ c.op = call[p].op /\ c.arg = call[p].arg /\ c.op # "none"
       /\ c.pc = StartOf(c.op) /\ c.out = {} /\ ~c.made

LEMMA Restarts ==
    ASSUME Inv, NEW p \in Clients, NEW c \in CallRec,
           call' = [call EXCEPT ![p] = c],
           lock' = Released(p),
           UNCHANGED <<status, owner, current, rollback, sweep, missed>>,
           Afresh(p, c)
    PROVE  Inv'
<1>1. call \in [Clients -> CallRec] /\ Placed(p) /\ missed \in BOOLEAN
  BY CallsTyped DEF Inv, Placement, TypeOK
<1>2. /\ call' \in [Clients -> CallRec]
      /\ call'[p] = c
      /\ \A q \in Clients \ {p} : call'[q] = call[q]
  BY <1>1
<1>3. Placed(p)' /\ CandHeld(p)' /\ SlotHeld(p)' /\ EndsOwned(p)'
  <2>1. CASE c = Idle
    BY <1>2, <2>1 DEF Placed, CandHeld, SlotHeld, EndsOwned, Idle, Reviews, Writers
  <2>2. CASE c # Idle
    <3>1. /\ c.op = call[p].op /\ c.arg = call[p].arg /\ c.op # "none"
          /\ c.pc = StartOf(c.op) /\ c.out = {} /\ ~c.made
      BY <2>2 DEF Afresh
    <3>2. c.op \in Ops
      BY <3>1 DEF CallRec
    <3> QED
      BY <1>1, <1>2, <3>1, <3>2 DEF Placed, CandHeld, SlotHeld, EndsOwned, StartOf, Ops,
                                    Reviews, Writers
  <2> QED
    BY <2>1, <2>2
<1> QED
  BY <1>1, <1>2, <1>3, ReleasedTyped, OneCaller

LEMMA LeaveInv ==
    ASSUME Inv, NEW p \in Clients, Leave(p)
    PROVE  Inv'
<1>1. Afresh(p, Idle)
  BY DEF Afresh
<1> QED
  BY <1>1, IdleTyped, Restarts DEF Leave

LEMMA RetryInv ==
    ASSUME Inv, NEW p \in Clients, Retry(p)
    PROVE  Inv'
<1> DEFINE again == [Idle EXCEPT !.op = call[p].op, !.arg = call[p].arg,
                                 !.pc = StartOf(call[p].op), !.tries = call[p].tries + 1]
<1>1. call[p] \in CallRec /\ Placed(p)
  BY CallsTyped DEF Inv, Placement
<1>2. CASE call[p].tries = MaxTries
  BY <1>2, LeaveInv DEF Retry, Leave
<1>3. CASE call[p].tries # MaxTries
  <2>1. call[p].op # "none"
    <3>1. WaitsFor(p) # {}
      BY DEF Retry, Deadlocked
    <3>2. call[p].pc # "idle"
      BY <3>1 DEF WaitsFor, Wants, At
    <3> QED
      BY <3>2, <1>1 DEF Placed
  <2>2. call[p].tries + 1 \in 0..MaxTries
    BY <1>1, <1>3, StagingAssumption DEF CallRec
  <2>3. again \in CallRec
    BY <1>1, <2>2 DEF CallRec, Idle, StartOf, Steps
  <2>4. Afresh(p, again)
    BY <2>1 DEF Idle, Afresh
  <2>5. call' = [call EXCEPT ![p] = again] /\ lock' = Released(p)
        /\ UNCHANGED <<status, owner, current, rollback, sweep, missed>>
    BY <1>3 DEF Retry
  <2> HIDE DEF again
  <2> QED
    BY <2>3, <2>4, <2>5, Restarts
<1> QED
  BY <1>2, <1>3

\* p goes on to its next statement with the locks it has and perhaps another.
LEMMA Moves ==
    ASSUME Inv, NEW p \in Clients, NEW c \in CallRec,
           call' = [call EXCEPT ![p] = c],
           UNCHANGED <<status, owner, current, rollback, sweep>>,
           lock' = lock \/ \E x \in Places : lock[x] \in {NULL, p} /\ lock' = [lock EXCEPT ![x] = p],
           missed' \in BOOLEAN, missed => missed',
           Placed(p)',
           ~missed' => CandHeld(p)' /\ SlotHeld(p)' /\ EndsOwned(p)'
    PROVE  Inv'
<1>1. call \in [Clients -> CallRec] /\ lock \in [Places -> Clients \cup {NULL}]
  BY CallsTyped DEF Inv, TypeOK, Places
<1>2. call' \in [Clients -> CallRec] /\ \A q \in Clients \ {p} : call'[q] = call[q]
  BY <1>1
<1>3. /\ lock' \in [Places -> Clients \cup {NULL}]
      /\ \A q \in Clients \ {p}, x \in Places : lock[x] = q => lock'[x] = q
  BY <1>1, StagingAssumption
<1> QED
  BY <1>2, <1>3, OneCaller

\* A new place in the program, and nothing else.
LEMMA Gone ==
    ASSUME Inv, NEW p \in Clients, NEW pc \in Steps, Goto(p, pc)
    PROVE  /\ call'[p] \in CallRec
           /\ call' = [call EXCEPT ![p] = call'[p]]
           /\ call'[p].op = call[p].op /\ call'[p].arg = call[p].arg /\ call'[p].pc = pc
           /\ call'[p].out = call[p].out /\ call'[p].made = call[p].made
<1>1. call \in [Clients -> CallRec] /\ call[p] \in CallRec
  BY CallsTyped DEF Inv
<1>2. call'[p] = [call[p] EXCEPT !.pc = pc]
  BY <1>1 DEF Goto
<1>3. call'[p] \in CallRec
  BY <1>1, <1>2 DEF CallRec
<1>4. call' = [call EXCEPT ![p] = call'[p]]
  BY <1>1, <1>2 DEF Goto
<1> QED
  BY <1>1, <1>2, <1>3, <1>4 DEF CallRec

LEMMA BeginInv ==
    ASSUME Inv, NEW p \in Clients, Begin(p)
    PROVE  Inv'
<1>1. PICK op \in Ops, arg \in Cands \cup Trusted :
         /\ arg \in IF op = "ingest" THEN Trusted ELSE Cands
         /\ call' = [call EXCEPT ![p] = [Idle EXCEPT !.op = op, !.arg = arg, !.pc = StartOf(op)]]
         /\ UNCHANGED <<status, owner, current, lock, rollback, sweep, missed>>
  BY DEF Begin
<1> DEFINE c == [Idle EXCEPT !.op = op, !.arg = arg, !.pc = StartOf(op)]
<1>2. c \in CallRec
  <2>1. StartOf(op) \in Steps
    BY DEF StartOf, Steps
  <2>2. Idle \in CallRec
    BY IdleTyped
  <2> QED
    BY <2>1, <2>2 DEF CallRec
<1>3. c.op = op /\ c.arg = arg /\ c.pc = StartOf(op) /\ c.out = {} /\ ~c.made
  BY DEF Idle
<1>4. call' = [call EXCEPT ![p] = c]
  BY <1>1
<1> HIDE DEF c
<1>5. call'[p] = c
  BY <1>4, CallsTyped DEF Inv
<1>6. Placed(p)' /\ CandHeld(p)' /\ SlotHeld(p)' /\ EndsOwned(p)'
  BY <1>1, <1>3, <1>5 DEF Placed, CandHeld, SlotHeld, EndsOwned, StartOf, Ops, Reviews, Writers
<1>7. missed \in BOOLEAN
  BY DEF Inv, TypeOK
<1> QED
  BY <1>1, <1>2, <1>4, <1>6, <1>7, Moves

\* Only the place of p changes.
LEMMA Proceeds ==
    ASSUME Inv, NEW p \in Clients, NEW pc \in Steps, Proceed(p, pc),
           Placed(p)',
           ~missed => CandHeld(p)' /\ SlotHeld(p)' /\ EndsOwned(p)'
    PROVE  Inv'
<1>1. PICK c \in CallRec : call' = [call EXCEPT ![p] = c]
  BY Gone DEF Proceed
<1>2. UNCHANGED <<status, owner, current, lock, rollback, sweep, missed>> /\ missed \in BOOLEAN
  BY DEF Proceed, Inv, TypeOK
<1> QED
  BY <1>1, <1>2, Moves

\* What is known of p before its step, and of its record after it.
LEMMA Known ==
    ASSUME Inv, NEW p \in Clients
    PROVE  /\ Placed(p)
           /\ ~missed => CandHeld(p) /\ SlotHeld(p) /\ EndsOwned(p)
           /\ call[p].op \in Ops \cup {"none"} /\ call[p].pc \in Steps
           /\ missed \in BOOLEAN
BY CallsTyped DEF Inv, Placement, Holding, CallRec, TypeOK

LEMMA ReadCandInv ==
    ASSUME Inv, NEW p \in Clients, ReadCand(p)
    PROVE  Inv'
<1>1. CASE status[call[p].arg] \notin Allowed(call[p].op)
  BY <1>1, LeaveInv DEF ReadCand
<1>2. CASE status[call[p].arg] \in Allowed(call[p].op)
  <2> DEFINE pc == IF call[p].op = "promote" THEN "owner" ELSE "cas"
  <2>1. Proceed(p, pc) /\ pc \in Steps /\ call[p].pc = "read"
    BY <1>2 DEF ReadCand, Steps, At
  <2>2. /\ call'[p].op = call[p].op /\ call'[p].arg = call[p].arg /\ call'[p].pc = pc
        /\ call'[p].out = call[p].out /\ call'[p].made = call[p].made
    BY <2>1, Gone DEF Proceed
  <2>3. /\ UNCHANGED <<status, owner, current, lock>>
        /\ call[p].op \in Reviews
    BY <2>1, Known DEF Proceed, Placed
  <2>4. Placed(p)'
    BY <2>1, <2>2, <2>3, Known DEF Placed, FactOf, Slot, Reviews, Writers
  <2>5. ASSUME ~missed PROVE CandHeld(p)' /\ SlotHeld(p)' /\ EndsOwned(p)'
    <3>1. CandHeld(p)
      BY <2>5, Known
    <3>2. CandHeld(p)'
      BY <1>2, <2>1, <2>2, <2>3, <3>1 DEF CandHeld, Allowed
    <3>3. SlotHeld(p)' /\ EndsOwned(p)'
      BY <2>2, <2>3 DEF SlotHeld, EndsOwned, Reviews, Writers
    <3> QED
      BY <3>2, <3>3
  <2> HIDE DEF pc
  <2> QED
    BY <2>1, <2>4, <2>5, Proceeds
<1> QED
  BY <1>1, <1>2

LEMMA CheckOwnerInv ==
    ASSUME Inv, NEW p \in Clients, CheckOwner(p)
    PROVE  Inv'
<1>1. CASE ~(Owned(FactOf(p), FactOf(p).s) /\ Owned(FactOf(p), FactOf(p).o))
  BY <1>1, LeaveInv DEF CheckOwner
<1>2. CASE Owned(FactOf(p), FactOf(p).s) /\ Owned(FactOf(p), FactOf(p).o)
  <2>1. Proceed(p, "subject") /\ "subject" \in Steps /\ call[p].pc = "owner"
    BY <1>2 DEF CheckOwner, Steps, At
  <2>2. /\ call'[p].op = call[p].op /\ call'[p].arg = call[p].arg /\ call'[p].pc = "subject"
        /\ call'[p].out = call[p].out /\ call'[p].made = call[p].made
    BY <2>1, Gone DEF Proceed
  <2>3. /\ UNCHANGED <<status, owner, current, lock>>
        /\ call[p].op = "promote"
    BY <2>1, Known DEF Proceed, Placed
  <2>4. Placed(p)'
    BY <2>1, <2>2, <2>3, Known DEF Placed, FactOf, Slot, Reviews, Writers
  <2>5. ASSUME ~missed PROVE CandHeld(p)' /\ SlotHeld(p)' /\ EndsOwned(p)'
    <3>1. CandHeld(p)
      BY <2>5, Known
    <3>2. CandHeld(p)'
      BY <2>1, <2>2, <2>3, <3>1 DEF CandHeld, Allowed
    <3>3. SlotHeld(p)'
      BY <2>2 DEF SlotHeld
    <3>4. EndsOwned(p)'
      BY <1>2, <2>2, <2>3 DEF EndsOwned, FactOf, Owned
    <3> QED
      BY <3>2, <3>3, <3>4
  <2> QED
    BY <2>1, <2>4, <2>5, Proceeds
<1> QED
  BY <1>1, <1>2

\* The two statements between the merge and the status write: what p holds is
\* what it held.
LEMMA Onward ==
    ASSUME Inv, NEW p \in Clients, NEW pc \in {"cas", "set"}, Proceed(p, pc),
           call[p].pc \in {"verify", "cas"}, call[p].op \in Reviews,
           call[p].op = "promote" => call[p].made
    PROVE  Inv'
<1>1. pc \in Steps
  BY DEF Steps
<1>2. /\ call'[p].op = call[p].op /\ call'[p].arg = call[p].arg /\ call'[p].pc = pc
      /\ call'[p].out = call[p].out /\ call'[p].made = call[p].made
  BY <1>1, Gone DEF Proceed
<1>3. UNCHANGED <<status, owner, current, lock>>
  BY DEF Proceed
<1>4. Placed(p)'
  BY <1>2, <1>3, Known DEF Placed, FactOf, Slot, Reviews, Writers
<1>5. ASSUME ~missed PROVE CandHeld(p)' /\ SlotHeld(p)' /\ EndsOwned(p)'
  <2>1. CandHeld(p) /\ SlotHeld(p) /\ EndsOwned(p)
    BY <1>5, Known
  <2>2. FactOf(p)' = FactOf(p)
    BY <1>2 DEF FactOf
  <2>3. CandHeld(p)'
    BY <1>2, <1>3, <2>1 DEF CandHeld, Allowed
  <2>4. SlotHeld(p)'
    BY <1>2, <1>3, <2>1, <2>2 DEF SlotHeld, Slot
  <2>5. EndsOwned(p)'
    BY <1>2, <1>3, <2>1, <2>2 DEF EndsOwned, Owned
  <2> QED
    BY <2>3, <2>4, <2>5
<1> QED
  BY <1>1, <1>4, <1>5, Proceeds

LEMMA VerifyInv ==
    ASSUME Inv, NEW p \in Clients, Verify(p)
    PROVE  Inv'
BY LeaveInv, Onward, Known DEF Verify, At, Placed, Reviews

LEMMA CompareStatusInv ==
    ASSUME Inv, NEW p \in Clients, CompareStatus(p)
    PROVE  Inv'
BY LeaveInv, Onward, Known DEF CompareStatus, At, Placed, Reviews

LEMMA LockCandInv ==
    ASSUME Inv, NEW p \in Clients, LockCand(p)
    PROVE  Inv'
<1>1. /\ Goto(p, "read") /\ "read" \in Steps
      /\ UNCHANGED <<status, owner, current, rollback, sweep>>
      /\ call[p].pc = "lock" /\ lock[call[p].arg] \in {NULL, p}
    BY DEF LockCand, At, Free, Steps
<1>2. /\ call'[p].op = call[p].op /\ call'[p].arg = call[p].arg /\ call'[p].pc = "read"
      /\ call'[p].out = call[p].out /\ call'[p].made = call[p].made
      /\ call'[p] \in CallRec /\ call' = [call EXCEPT ![p] = call'[p]]
  BY <1>1, Gone
<1>3. call[p].op \in Reviews /\ call[p].arg \in Cands /\ missed \in BOOLEAN
  BY <1>1, Known DEF Placed
<1>4. lock' = lock \/ \E x \in Places : lock[x] \in {NULL, p} /\ lock' = [lock EXCEPT ![x] = p]
  BY <1>1, <1>3 DEF LockCand, Places
<1>5. missed' = (missed \/ status[call[p].arg] = "none")
  BY DEF LockCand
<1>6. Placed(p)'
  BY <1>1, <1>2, <1>3, Known DEF Placed, FactOf, Slot, Reviews, Writers
<1>7. ASSUME ~missed' PROVE CandHeld(p)' /\ SlotHeld(p)' /\ EndsOwned(p)'
  <2>1. status[call[p].arg] # "none"
    BY <1>5, <1>7
  <2>2. lock'[call[p].arg] = p
    BY <2>1, <1>3 DEF LockCand, Inv, TypeOK
  <2> QED
    BY <1>1, <1>2, <2>1, <2>2 DEF CandHeld, SlotHeld, EndsOwned
<1>8. PICK c \in CallRec : call' = [call EXCEPT ![p] = c]
  BY <1>2
<1>9. missed' \in BOOLEAN /\ (missed => missed')
  BY <1>3, <1>5
<1> QED
  BY <1>1, <1>4, <1>6, <1>7, <1>8, <1>9, Moves

LEMMA SubjectInv ==
    ASSUME Inv, NEW p \in Clients, Subject(p)
    PROVE  Inv'
<1> DEFINE f == FactOf(p)
           others == {g \in Slot(f) \cap current : g.o # f.o}
           out == IF evicts(f.rel) THEN others ELSE {}
<1>1. CASE rejects(f.rel) /\ others # {}
  BY <1>1, LeaveInv DEF Subject
<1>2. CASE ~(rejects(f.rel) /\ others # {})
  <2>1. /\ call[p].pc = "subject"
        /\ call' = [call EXCEPT ![p].pc = "merge", ![p].out = out]
        /\ lock' = IF functional(f.rel) /\ owner[f.s] # NULL
                   THEN [lock EXCEPT ![f.s] = p] ELSE lock
        /\ missed' = (missed \/ (functional(f.rel) /\ owner[f.s] = NULL))
        /\ UNCHANGED <<status, owner, current, rollback, sweep>>
    BY <1>2 DEF Subject, At
  <2>2. functional(f.rel) => lock[f.s] \in {NULL, p}
    BY DEF Subject, Free
  <2>3. /\ call[p].op \in Writers /\ missed \in BOOLEAN
        /\ call \in [Clients -> CallRec] /\ call[p] \in CallRec
        /\ lock \in [Places -> Clients \cup {NULL}]
    BY <2>1, Known, CallsTyped DEF Inv, Placed, TypeOK, Places
  <2>4. f \in Facts /\ f.s \in Keys /\ f.rel \in RelNames
    BY <2>3, FactTyped, StagingAssumption DEF Inv
  <2>5. out \in SUBSET Facts
    BY DEF Slot
  <2> DEFINE c == [call[p] EXCEPT !.pc = "merge", !.out = out]
  <2>6. c \in CallRec
    <3> HIDE DEF out
    <3>1. "merge" \in Steps
      BY DEF Steps
    <3> QED
      BY <2>3, <2>5, <3>1 DEF CallRec
  <2>7. /\ c.op = call[p].op /\ c.arg = call[p].arg /\ c.pc = "merge"
        /\ c.out = out /\ c.made = call[p].made
    BY <2>3 DEF CallRec
  <2>8. call' = [call EXCEPT ![p] = c] /\ call'[p] = c
    BY <2>1, <2>3
  <2> HIDE DEF c
  <2>9. FactOf(p)' = f
    BY <2>7, <2>8 DEF FactOf
  <2>10. lock' = lock \/ \E x \in Places : lock[x] \in {NULL, p} /\ lock' = [lock EXCEPT ![x] = p]
    BY <2>1, <2>2, <2>4 DEF Places
  <2>11. Placed(p)'
    <3>1. out \subseteq Displaced(f)
      BY DEF Displaced, Slot
    <3> HIDE DEF out, f
    <3>2. Placed(p)
      BY Known
    <3>3. call'[p].out \subseteq Displaced(FactOf(p))'
      BY <3>1, <2>7, <2>8, <2>9 DEF Displaced, Slot
    <3> QED
      BY <2>1, <2>3, <2>7, <2>8, <3>2, <3>3 DEF Placed, Reviews, Writers
  <2>12. ASSUME ~missed' PROVE CandHeld(p)' /\ SlotHeld(p)' /\ EndsOwned(p)'
    <3>1. CandHeld(p) /\ EndsOwned(p)
      BY <2>1, <2>12, Known
    <3>2. CandHeld(p)'
      <4> SUFFICES ASSUME call[p].op \in Reviews
                   PROVE  /\ lock'[call[p].arg] = p /\ status[call[p].arg] # "none"
                          /\ status[call[p].arg] \in Allowed(call[p].op)
        BY <2>1, <2>7, <2>8 DEF CandHeld, Allowed
      <4>1. call[p].arg \in Cands
        BY Known DEF Placed
      <4> QED
        BY <2>1, <2>3, <3>1, <4>1 DEF CandHeld, Places
    <3>3. SlotHeld(p)'
      <4> SUFFICES ASSUME functional(f.rel)
                   PROVE  lock'[f.s] = p /\ \A g \in Slot(f) \cap current : g = f \/ g \in out
        BY <2>1, <2>7, <2>8, <2>9 DEF SlotHeld, Slot
      <4>1. lock'[f.s] = p
        BY <2>1, <2>3, <2>4, <2>12 DEF Places
      <4>2. ASSUME NEW g \in Slot(f) \cap current PROVE g = f \/ g \in out
        BY <1>2, <2>4, SameObject, EvictsOrRejects
      <4> QED
        BY <4>1, <4>2
    <3>4. EndsOwned(p)'
      BY <2>1, <2>7, <2>8, <2>9, <3>1 DEF EndsOwned, Owned
    <3> QED
      BY <3>2, <3>3, <3>4
  <2>13. missed' \in BOOLEAN /\ (missed => missed')
    BY <2>1, <2>3
  <2> HIDE DEF f, out
  <2> QED
    BY <2>1, <2>6, <2>8, <2>10, <2>11, <2>12, <2>13, Moves
<1> QED
  BY <1>1, <1>2

LEMMA LockEndInv ==
    ASSUME Inv, NEW p \in Clients, NEW k \in Keys, LockEnd(p, k)
    PROVE  Inv'
<1>1. /\ UNCHANGED <<status, owner, current, call, rollback, sweep, missed>>
      /\ lock[k] = NULL /\ lock' = [lock EXCEPT ![k] = p]
  BY DEF LockEnd
<1>2. /\ call \in [Clients -> CallRec] /\ missed \in BOOLEAN
      /\ lock \in [Places -> Clients \cup {NULL}]
  BY CallsTyped DEF Inv, TypeOK, Places
<1>3. lock' \in [Places -> Clients \cup {NULL}] /\ k \in Places
  BY <1>1, <1>2 DEF Places
<1>4. \A q \in Clients, x \in Places : lock[x] = q => lock'[x] = q
  BY <1>1, <1>2, <1>3, StagingAssumption
<1>5. Placed(p)'
  BY <1>1, Known DEF Placed, FactOf, Slot
<1>6. ASSUME ~missed PROVE CandHeld(p)' /\ SlotHeld(p)' /\ EndsOwned(p)'
  BY <1>1, <1>4, <1>6, OthersHold DEF Owned
<1> QED
  BY <1>1, <1>2, <1>3, <1>4, <1>5, <1>6, OneCaller

LEMMA MergeEdgeInv ==
    ASSUME Inv, NEW p \in Clients, MergeEdge(p)
    PROVE  Inv'
<1> DEFINE f == FactOf(p)
           found == owner[f.s] # NULL /\ owner[f.o] # NULL
           pc == IF call[p].op = "ingest" THEN "commit" ELSE "verify"
           c == [call[p] EXCEPT !.pc = pc, !.made = found]
<1>1. /\ call[p].pc = "merge"
      /\ call' = [call EXCEPT ![p].pc = pc, ![p].made = found]
      /\ UNCHANGED <<status, owner, current, lock, rollback, sweep, missed>>
  BY DEF MergeEdge, At
<1>2. /\ call \in [Clients -> CallRec] /\ call[p] \in CallRec /\ missed \in BOOLEAN
      /\ call[p].op \in Writers
  BY <1>1, Known, CallsTyped DEF Inv, Placed
<1>3. c \in CallRec
  <2>1. pc \in Steps /\ found \in BOOLEAN
    BY DEF Steps
  <2> HIDE DEF pc, found
  <2> QED
    BY <1>2, <2>1 DEF CallRec
<1>4. /\ c.op = call[p].op /\ c.arg = call[p].arg /\ c.pc = pc
      /\ c.out = call[p].out /\ c.made = found
  BY <1>2 DEF CallRec
<1>5. call' = [call EXCEPT ![p] = c] /\ call'[p] = c
  BY <1>1, <1>2
<1> HIDE DEF c
<1>6. FactOf(p)' = f
  BY <1>4, <1>5 DEF FactOf
<1> HIDE DEF f, found
<1>7. Placed(p)'
  <2>1. Placed(p)
    BY Known
  <2>2. call'[p].out \subseteq Displaced(FactOf(p))'
    BY <1>2, <1>4, <1>5, <1>6, <2>1 DEF Placed, Displaced, Slot, f
  <2> QED
    BY <1>1, <1>2, <1>4, <1>5, <2>1, <2>2 DEF Placed, Reviews, Writers
<1>8. ASSUME ~missed PROVE CandHeld(p)' /\ SlotHeld(p)' /\ EndsOwned(p)'
  <2>1. CandHeld(p) /\ SlotHeld(p) /\ EndsOwned(p)
    BY <1>8, Known
  <2>2. CandHeld(p)'
    BY <1>1, <1>2, <1>4, <1>5, <2>1 DEF CandHeld, Allowed, Reviews, Writers
  <2>3. SlotHeld(p)'
    BY <1>1, <1>2, <1>4, <1>5, <1>6, <2>1 DEF SlotHeld, Slot, f
  <2>4. EndsOwned(p)'
    BY <1>1, <1>2, <1>4, <1>5, <1>6, <2>1 DEF EndsOwned, Owned, f
  <2> QED
    BY <2>2, <2>3, <2>4
<1> QED
  BY <1>1, <1>2, <1>3, <1>5, <1>7, <1>8, Moves

LEMMA SetStatusInv ==
    ASSUME Inv, NEW p \in Clients, SetStatus(p)
    PROVE  Inv'
<1>1. CASE status[call[p].arg] = "none"
  BY <1>1, LeaveInv DEF SetStatus
<1>2. CASE status[call[p].arg] # "none"
  <2>1. /\ Goto(p, "commit") /\ "commit" \in Steps
        /\ UNCHANGED <<status, owner, current, rollback, sweep, missed>>
        /\ call[p].pc = "set" /\ lock[call[p].arg] \in {NULL, p}
        /\ lock' = [lock EXCEPT ![call[p].arg] = p]
    BY <1>2 DEF SetStatus, At, Free, Steps
  <2>2. /\ call'[p].op = call[p].op /\ call'[p].arg = call[p].arg /\ call'[p].pc = "commit"
        /\ call'[p].out = call[p].out /\ call'[p].made = call[p].made
        /\ call'[p] \in CallRec /\ call' = [call EXCEPT ![p] = call'[p]]
    BY <2>1, Gone
  <2>3. /\ call[p].op \in Reviews /\ call[p].arg \in Cands /\ missed \in BOOLEAN
        /\ lock \in [Places -> Clients \cup {NULL}]
    BY <2>1, Known DEF Placed, Inv, TypeOK, Places
  <2>4. lock' = lock \/ \E x \in Places : lock[x] \in {NULL, p} /\ lock' = [lock EXCEPT ![x] = p]
    BY <2>1, <2>3 DEF Places
  <2>5. FactOf(p)' = FactOf(p)
    BY <2>2 DEF FactOf
  <2>6. Placed(p)'
    <3>1. Placed(p)
      BY Known
    <3>2. call[p].op \in Writers => call'[p].out \subseteq Displaced(FactOf(p))'
      BY <2>2, <2>5, <3>1 DEF Placed, Displaced, Slot
    <3> QED
      BY <2>1, <2>2, <2>3, <3>1, <3>2 DEF Placed, Reviews, Writers
  <2>7. ASSUME ~missed PROVE CandHeld(p)' /\ SlotHeld(p)' /\ EndsOwned(p)'
    <3>1. CandHeld(p) /\ SlotHeld(p) /\ EndsOwned(p)
      BY <2>7, Known
    <3>2. \A x \in Places : lock[x] = p => lock'[x] = p
      BY <2>1, <2>3 DEF Places
    <3>3. CandHeld(p)'
      BY <2>1, <2>2, <2>3, <3>1, <3>2 DEF CandHeld, Allowed, Places
    <3>4. SlotHeld(p)'
      <4> SUFFICES ASSUME call[p].op \in Writers, functional(FactOf(p).rel)
                   PROVE  /\ lock'[FactOf(p).s] = p
                          /\ \A g \in Slot(FactOf(p)) \cap current :
                                 g = FactOf(p) \/ g \in call[p].out
        BY <2>1, <2>2, <2>5 DEF SlotHeld, Slot
      <4>1. FactOf(p).s \in Places
        BY FactTyped, StagingAssumption DEF Inv, Places
      <4> QED
        BY <2>1, <3>1, <3>2, <4>1 DEF SlotHeld
    <3>5. EndsOwned(p)'
      BY <2>1, <2>2, <2>5, <3>1 DEF EndsOwned, Owned
    <3> QED
      BY <3>3, <3>4, <3>5
  <2>8. PICK c \in CallRec : call' = [call EXCEPT ![p] = c]
    BY <2>2
  <2> QED
    BY <2>1, <2>3, <2>4, <2>6, <2>7, <2>8, Moves
<1> QED
  BY <1>1, <1>2

LEMMA CrashInv ==
    ASSUME Inv, NEW p \in Clients, Crash(p)
    PROVE  Inv'
BY LeaveInv DEF Crash

LEMMA CommitInv ==
    ASSUME Inv, NEW p \in Clients, Commit(p)
    PROVE  Inv'
<1> DEFINE f == FactOf(p)
           a == call[p].arg
<1>1. /\ call[p].pc = "commit"
      /\ status' = IF call[p].op = "ingest" THEN status
                   ELSE [status EXCEPT ![a] = Outcome(call[p].op)]
      /\ current' = (current \ call[p].out) \cup IF call[p].made THEN {f} ELSE {}
      /\ lock' = Released(p)
      /\ call' = [call EXCEPT ![p] = Idle]
      /\ UNCHANGED <<owner, rollback, sweep, missed>>
  BY DEF Commit, At
<1>2. TypeOK /\ Placed(p) /\ call[p].op \in Ops
  <2>1. TypeOK /\ Placed(p) /\ call[p].op \in Ops \cup {"none"}
    BY Known DEF Inv
  <2> QED
    BY <1>1, <2>1 DEF Placed
<1>3. call[p].op # "ingest" => call[p].op \in Reviews /\ a \in Cands
  BY <1>2 DEF Placed, Ops, Reviews
<1>4. call[p].made => call[p].op \in Writers /\ f \in Facts
  BY <1>2, FactTyped DEF Inv, Placed
<1>5. /\ call' \in [Clients -> CallRec]
      /\ call'[p] = Idle
      /\ \A q \in Clients \ {p} : call'[q] = call[q]
  BY <1>1, CallsTyped, IdleTyped DEF Inv
<1>6. TypeOK'
  <2>1. status' \in [Cands -> Statuses]
    BY <1>1, <1>2 DEF TypeOK, Statuses, Outcome, Ops
  <2>2. lock' \in [Keys \cup Cands -> Clients \cup {NULL}]
    BY <1>1, ReleasedTyped DEF Places
  <2>3. current' \subseteq Facts
    BY <1>1, <1>2, <1>4 DEF TypeOK
  <2> QED
    BY <1>1, <1>2, <1>5, <2>1, <2>2, <2>3 DEF TypeOK, CallRec
<1>7. Placement'
  <2>1. Placed(p)'
    BY <1>5 DEF Placed, Idle, Reviews, Writers
  <2>2. ASSUME NEW q \in Clients \ {p} PROVE Placed(q)'
    <3>1. Placed(q) /\ call'[q] = call[q] /\ FactOf(q)' = FactOf(q)
      BY <1>5 DEF Inv, Placement, FactOf
    <3> QED
      BY <3>1 DEF Placed, Slot
  <2> QED
    BY <2>1, <2>2 DEF Placement
<1>8. Spared'
  BY <1>1 DEF Inv, Spared
<1>9. CASE missed
  BY <1>1, <1>6, <1>7, <1>8, <1>9 DEF Inv, Holding, SingleCurrent, PromotedOnOwnNodes
<1>10. CASE ~missed
  <2>1. CandHeld(p) /\ SlotHeld(p) /\ EndsOwned(p)
    BY <1>10, Known
  <2>2. call[p].made /\ functional(f.rel) =>
            lock[f.s] = p /\ \A g \in Slot(f) \cap current : g = f \/ g \in call[p].out
    BY <1>1, <1>4, <2>1 DEF SlotHeld
  <2>3. call[p].op # "ingest" => lock[a] = p
    BY <1>1, <1>3, <2>1 DEF CandHeld
  <2>4. Holding'
    <3>1. CandHeld(p)' /\ SlotHeld(p)' /\ EndsOwned(p)'
      BY <1>5 DEF CandHeld, SlotHeld, EndsOwned, Idle, Reviews, Writers
    <3>2. ASSUME NEW q \in Clients \ {p} PROVE CandHeld(q)' /\ SlotHeld(q)' /\ EndsOwned(q)'
      <4>1. \A x \in Places : lock[x] = q => lock'[x] = q
        BY <1>1, ReleasedTyped
      <4>2. \A c \in Cands : lock[c] = q => status'[c] = status[c]
        BY <1>1, <1>2, <2>3 DEF TypeOK
      <4>3. \A g \in current' \ current : functional(g.rel) => lock[g.s] # q
        BY <1>1, <2>2
      <4>4. \A c \in Cands, k \in Keys : Owned(CandFact[c], k) => Owned(CandFact[c], k)'
        BY <1>1 DEF Owned
      <4>5. call'[q] = call[q]
        BY <1>5
      <4> QED
        BY <1>10, <4>1, <4>2, <4>3, <4>4, <4>5, OthersHold
    <3> QED
      BY <3>1, <3>2 DEF Holding
  <2>5. SingleCurrent'
    <3> SUFFICES ASSUME NEW g \in current', NEW h \in current', functional(g.rel), h \in Slot(g)
                 PROVE  g = h
      BY DEF SingleCurrent, Slot
    <3>1. h \in Facts /\ g \in Facts /\ h.rel = g.rel /\ g \in Slot(h)
      BY <1>6 DEF Slot, TypeOK
    <3>2. CASE g \in current \ call[p].out /\ h \in current \ call[p].out
      BY <1>10, <3>2 DEF Inv, SingleCurrent
    <3>3. CASE call[p].made /\ g = f
      BY <1>1, <2>2, <3>3
    <3>4. CASE call[p].made /\ h = f
      BY <1>1, <2>2, <3>1, <3>4
    <3> QED
      BY <1>1, <3>2, <3>3, <3>4
  <2>6. PromotedOnOwnNodes'
    <3> SUFFICES ASSUME NEW g \in current' \ Trusted
                 PROVE  Owned(g, g.s) /\ Owned(g, g.o)
      BY <1>1 DEF PromotedOnOwnNodes, Owned
    <3>1. CASE g \in current
      BY <1>10, <3>1 DEF Inv, PromotedOnOwnNodes
    <3>2. CASE call[p].made /\ g = f
      <4>1. call[p].op = "promote"
        BY <1>2, <1>4, <3>2 DEF Placed, FactOf, Writers
      <4> QED
        BY <1>1, <2>1, <3>2, <4>1 DEF EndsOwned
    <3> QED
      BY <1>1, <3>1, <3>2
  <2> QED
    BY <1>6, <1>7, <1>8, <2>4, <2>5, <2>6 DEF Inv
<1> QED
  BY <1>9, <1>10

-----------------------------------------------------------------------------
(* What runs beside the calls                                                 *)

\* A step that touches no call, no lock and nothing that is locked.
LEMMA Beside ==
    ASSUME Inv, TypeOK', Spared',
           UNCHANGED <<call, lock, missed>>,
           current' \subseteq current,
           \A c \in Cands : lock[c] # NULL /\ status[c] # "none" => status'[c] = status[c],
           \A c \in Cands, k \in Keys :
               lock[c] # NULL /\ status[c] # "none" /\ Owned(CandFact[c], k)
                   => Owned(CandFact[c], k)',
           \A g \in current' : \A k \in {g.s, g.o} : Owned(g, k) => Owned(g, k)'
    PROVE  Inv'
<1>1. Placement'
  <2> SUFFICES ASSUME NEW q \in Clients PROVE Placed(q)'
    BY DEF Placement
  <2>1. Placed(q) /\ call'[q] = call[q] /\ FactOf(q)' = FactOf(q)
    BY DEF Inv, Placement, FactOf
  <2> QED
    BY <2>1 DEF Placed, Slot
<1>2. Holding'
  <2> SUFFICES ASSUME ~missed, NEW q \in Clients
               PROVE  CandHeld(q)' /\ SlotHeld(q)' /\ EndsOwned(q)'
    BY DEF Holding
  <2>1. q # NULL
    BY StagingAssumption
  <2> QED
    BY <2>1, OthersHold
<1>3. SingleCurrent'
  BY DEF Inv, SingleCurrent, Slot
<1>4. PromotedOnOwnNodes'
  <2> SUFFICES ASSUME ~missed, NEW g \in current' \ Trusted
               PROVE  Owned(g, g.s)' /\ Owned(g, g.o)'
    BY DEF PromotedOnOwnNodes, Owned
  <2>1. Owned(g, g.s) /\ Owned(g, g.o)
    BY DEF Inv, PromotedOnOwnNodes
  <2> QED
    BY <2>1
<1> QED
  BY <1>1, <1>2, <1>3, <1>4 DEF Inv

LEMMA StageInv ==
    ASSUME Inv, NEW c \in Cands, Stage(c)
    PROVE  Inv'
<1>1. TypeOK'
  BY DEF Inv, TypeOK, Stage, Statuses
<1>2. Spared'
  BY DEF Inv, Spared, Stage
<1>3. \A d \in Cands : status[d] # "none" => status'[d] = status[d]
  BY DEF Stage, Inv, TypeOK
<1> QED
  BY <1>1, <1>2, <1>3, Beside DEF Stage, Owned

LEMMA ResolveInv ==
    ASSUME Inv, NEW k \in Keys, NEW ns \in Namespaces, Resolve(k, ns)
    PROVE  Inv'
<1>1. TypeOK'
  BY DEF Inv, TypeOK, Resolve
<1>2. Spared'
  BY DEF Inv, Spared, Resolve
<1>3. \A f \in Facts, j \in Keys : Owned(f, j) => Owned(f, j)'
  BY StagingAssumption DEF Owned, Resolve, Inv, TypeOK
<1>4. \A g \in current : g \in Facts /\ g.s \in Keys /\ g.o \in Keys
  BY StagingAssumption DEF Inv, TypeOK
<1>5. \A c \in Cands : CandFact[c] \in Facts
  BY StagingAssumption
<1> QED
  BY <1>1, <1>2, <1>3, <1>4, <1>5, Beside DEF Resolve

LEMMA RollbackEdgesInv ==
    ASSUME Inv, NEW ns \in Namespaces, RollbackEdges(ns)
    PROVE  Inv'
<1>1. TypeOK'
  BY DEF Inv, TypeOK, RollbackEdges
<1>2. Spared'
  BY DEF Spared, RollbackEdges
<1> QED
  BY <1>1, <1>2, Beside DEF RollbackEdges, Owned

LEMMA RollbackNodesInv ==
    ASSUME Inv, RollbackNodes
    PROVE  Inv'
<1> DEFINE ns == rollback.ns
<1>1. ns \in Namespaces /\ ns # Shared
  BY DEF Inv, Spared, RollbackNodes
<1>2. TypeOK'
  <2>1. status' \in [Cands -> Statuses]
    BY DEF Inv, TypeOK, RollbackNodes, Statuses
  <2>2. owner' \in [Keys -> Namespaces \cup {NULL}]
    BY DEF Inv, TypeOK, RollbackNodes
  <2>3. current' \subseteq Facts
    BY DEF Inv, TypeOK, RollbackNodes
  <2>4. rollback' \in [pc : {"idle", "nodes", "done"}, ns : Namespaces \cup {NULL}]
    BY DEF Inv, TypeOK, RollbackNodes
  <2> QED
    BY <2>1, <2>2, <2>3, <2>4 DEF Inv, TypeOK, RollbackNodes
<1>3. Spared'
  BY <1>2 DEF Spared, RollbackNodes, Inv, TypeOK
<1>4. \A c \in Cands : lock[c] # NULL => status'[c] = status[c] /\ c \notin CandsOf(ns)
  BY DEF RollbackNodes
<1>5. \A k \in Keys : owner'[k] = IF owner[k] = ns THEN NULL ELSE owner[k]
  BY DEF RollbackNodes, Nodes
<1>6. ASSUME NEW c \in Cands, NEW k \in Keys,
             lock[c] # NULL, status[c] # "none", Owned(CandFact[c], k)
      PROVE  Owned(CandFact[c], k)'
  BY <1>1, <1>4, <1>5, <1>6 DEF Owned, CandsOf
<1>7. ASSUME NEW g \in current', NEW k \in {g.s, g.o}, Owned(g, k)
      PROVE  Owned(g, k)'
  <2>1. g \in current /\ k \in Keys /\ owner[k] # ns
    BY StagingAssumption DEF RollbackNodes, Incident, Inv, TypeOK
  <2> QED
    BY <1>5, <1>7, <2>1 DEF Owned
<1>8. current' \subseteq current /\ UNCHANGED <<call, lock, missed>>
  BY DEF RollbackNodes
<1> QED
  BY <1>2, <1>3, <1>4, <1>6, <1>7, <1>8, Beside

LEMMA SweepReadInv ==
    ASSUME Inv, NEW ns \in Namespaces, SweepRead(ns)
    PROVE  Inv'
<1>1. TypeOK'
  BY DEF Inv, TypeOK, SweepRead, CandsOf
<1>2. Spared'
  BY DEF Inv, Spared, SweepRead
<1> QED
  BY <1>1, <1>2, Beside DEF SweepRead, Owned

LEMMA SweepDeleteInv ==
    ASSUME Inv, SweepDelete
    PROVE  Inv'
<1>1. TypeOK'
  BY DEF Inv, TypeOK, SweepDelete, Statuses
<1>2. Spared'
  BY DEF Inv, Spared, SweepDelete
<1>3. \A c \in Cands : lock[c] # NULL => status'[c] = status[c]
  BY DEF SweepDelete
<1> QED
  BY <1>1, <1>2, <1>3, Beside DEF SweepDelete, Owned

-----------------------------------------------------------------------------
(* The invariant                                                              *)

LEMMA InitInv == Init => Inv
<1> SUFFICES ASSUME Init PROVE Inv
  OBVIOUS
<1>1. TypeOK
  BY IdleTyped DEF Init, TypeOK, Statuses, CallRec
<1>2. Placement /\ Holding
  BY DEF Init, Placement, Placed, Holding, CandHeld, SlotHeld, EndsOwned, Idle, Reviews, Writers
<1>3. Spared /\ SingleCurrent /\ PromotedOnOwnNodes
  BY DEF Init, Spared, SingleCurrent, PromotedOnOwnNodes
<1> QED
  BY <1>1, <1>2, <1>3 DEF Inv

LEMMA StutterInv ==
    ASSUME Inv, UNCHANGED vars
    PROVE  Inv'
<1>1. TypeOK' /\ Spared'
  BY DEF Inv, TypeOK, Spared, vars
<1> QED
  BY <1>1, Beside DEF vars, Owned

LEMMA RunInv ==
    ASSUME Inv, NEW p \in Clients, Run(p)
    PROVE  Inv'
BY LockCandInv, ReadCandInv, CheckOwnerInv, SubjectInv, LockEndInv, MergeEdgeInv, VerifyInv,
   CompareStatusInv, SetStatusInv, CommitInv, RetryInv DEF Run

LEMMA NextInv == Inv /\ [Next]_vars => Inv'
<1> SUFFICES ASSUME Inv, [Next]_vars PROVE Inv'
  OBVIOUS
<1>1. ASSUME NEW p \in Clients, Begin(p) \/ Run(p) \/ Crash(p) PROVE Inv'
  BY <1>1, BeginInv, RunInv, CrashInv
<1>2. ASSUME Rollback PROVE Inv'
  BY <1>2, RollbackEdgesInv, RollbackNodesInv DEF Rollback
<1>3. ASSUME Sweep PROVE Inv'
  BY <1>3, SweepReadInv, SweepDeleteInv DEF Sweep
<1> QED
  BY <1>1, <1>2, <1>3, StageInv, ResolveInv, StutterInv DEF Next

LEMMA Invariance == Spec => []Inv
BY InitInv, NextInv, PTL DEF Spec

\* The state of the gate, of its calls and of the maintenance beside them stays
\* well typed.
THEOREM TypeCorrect == Spec => []TypeOK
<1>1. Inv => TypeOK
  BY DEF Inv
<1> QED
  BY <1>1, Invariance, PTL

\* However approvals, promotions and trusted writes interleave, wait, abort and
\* crash, a subject has at most one current object of a functional relation
\* (mutate.py _wlock, evict or refuse, MERGE), as long as every lock statement
\* found something to lock.
THEOREM SingleCurrentTheorem == Spec => []SingleCurrent
<1>1. Inv => SingleCurrent
  BY DEF Inv
<1> QED
  BY <1>1, Invariance, PTL

\* The ownership check of a promotion still holds when its edge commits, and for
\* as long as the edge is current (staging.py promote, rollback.py _clean).
THEOREM OwnNodesTheorem == Spec => []PromotedOnOwnNodes
<1>1. Inv => PromotedOnOwnNodes
  BY DEF Inv
<1> QED
  BY <1>1, Invariance, PTL

-----------------------------------------------------------------------------
(* Staging implements CandidateLifecycle                                      *)

LEMMA SameRules ==
    \A rel : /\ (Lifecycle!functional(rel) <=> functional(rel))
            /\ (Lifecycle!evicts(rel) <=> evicts(rel))
            /\ (Lifecycle!rejects(rel) <=> rejects(rel))
<1>1. Lifecycle!RULES = RULES
  BY DEF Lifecycle!RULES, Lifecycle!Rule, Lifecycle!AddOnly, Lifecycle!AddRemove,
         RULES, Rule, AddOnly, AddRemove
<1> QED
  BY <1>1 DEF Lifecycle!functional, Lifecycle!evicts, Lifecycle!rejects,
              functional, evicts, rejects

\* A step that removes candidates and ends facts, and adds nothing.
LEMMA Erases ==
    ASSUME TypeOK', current' \subseteq current,
           \A c \in Cands : status'[c] \in {status[c], "none"}
    PROVE  Lifecycle!Erase
BY DEF TypeOK, Lifecycle!Erase

\* What a call at its commit ends is exactly what stands beside its fact, and
\* nothing stands beside the fact of a rejecting relation.
LEMMA RivalsKnown ==
    ASSUME Inv, ~missed, NEW p \in Clients, call[p].pc = "commit", call[p].op \in Writers,
           NEW R, R = {g \in Slot(FactOf(p)) \cap current : g.o # FactOf(p).o}
    PROVE  /\ rejects(FactOf(p).rel) => R = {}
           /\ current \ call[p].out =
                  IF evicts(FactOf(p).rel) THEN current \ R ELSE current
<1> DEFINE f == FactOf(p)
<1>1. Placed(p) /\ SlotHeld(p)
  BY Known
<1>2. f \in Facts /\ f.rel \in RelNames
  BY FactTyped, StagingAssumption DEF Inv
<1>3. \A g \in call[p].out : g \in Slot(f) /\ g.rel = f.rel /\ evicts(g.rel) /\ g.o # f.o
  BY <1>1 DEF Placed, Displaced, Slot
<1>4. functional(f.rel) => R \subseteq call[p].out
  BY <1>1 DEF SlotHeld
<1>5. rejects(f.rel) => functional(f.rel) /\ ~evicts(f.rel)
  BY <1>2 DEF rejects, evicts
<1>6. evicts(f.rel) => functional(f.rel)
  BY <1>2, OnlyFunctional
<1> HIDE DEF f
<1>7. ~evicts(f.rel) => call[p].out = {}
  BY <1>3
<1>8. rejects(f.rel) => R = {}
  BY <1>4, <1>5, <1>7
<1>9. evicts(f.rel) => current \ call[p].out = current \ R
  <2>1. \A g \in call[p].out : g \in current => g \in R
    BY <1>3 DEF f
  <2> QED
    BY <1>4, <1>6, <2>1
<1> QED
  BY <1>7, <1>8, <1>9 DEF f

LEMMA CommitPromise ==
    ASSUME Inv, ~missed, TypeOK', NEW p \in Clients, Commit(p)
    PROVE  Lifecycle!Next
<1> DEFINE f == FactOf(p)
           a == call[p].arg
<1>1. /\ call[p].pc = "commit"
      /\ status' = IF call[p].op = "ingest" THEN status
                   ELSE [status EXCEPT ![a] = Outcome(call[p].op)]
      /\ current' = (current \ call[p].out) \cup IF call[p].made THEN {f} ELSE {}
  BY DEF Commit, At
<1>2. Placed(p) /\ CandHeld(p) /\ call[p].op \in Ops
  <2>1. Placed(p) /\ CandHeld(p) /\ call[p].op \in Ops \cup {"none"}
    BY Known
  <2> QED
    BY <1>1, <2>1 DEF Placed
<1>3. call[p].op \in Reviews => a \in Cands /\ status[a] \in Allowed(call[p].op)
  BY <1>1, <1>2 DEF Placed, CandHeld
<1>4. CASE call[p].op \in {"approve", "reject"}
  <2>1. a \in Cands /\ status[a] \in Allowed(call[p].op)
    BY <1>3, <1>4 DEF Reviews
  <2>2. current' = current
    BY <1>1, <1>2, <1>4 DEF Placed, Writers
  <2>3. Lifecycle!Approve(a) \/ Lifecycle!Reject(a)
    BY <1>1, <1>4, <2>1, <2>2
       DEF Allowed, Outcome, Lifecycle!Approve, Lifecycle!Reject, Lifecycle!Review
  <2> QED
    BY <2>1, <2>3 DEF Lifecycle!Next
<1>5. CASE call[p].op \in Writers /\ call[p].made
  <2>1. f \in Facts /\ current \subseteq Facts /\ SlotHeld(p)
    BY <1>5, Known, FactTyped DEF Inv, TypeOK
  <2>2. Lifecycle!Rivals(f) = {g \in Slot(f) \cap current : g.o # f.o}
    BY <2>1 DEF Lifecycle!Rivals, Slot
  <2>3. Lifecycle!Asserts(f)
    BY <1>1, <1>2, <1>5, <2>1, <2>2, RivalsKnown, SameRules DEF Lifecycle!Asserts
  <2>4. CASE call[p].op = "ingest"
    <3>1. f \in Trusted
      BY <1>2, <2>4 DEF Placed, FactOf
    <3>2. Lifecycle!Ingest(f)
      BY <1>1, <2>3, <2>4 DEF Lifecycle!Ingest
    <3> QED
      BY <3>1, <3>2 DEF Lifecycle!Next
  <2>5. CASE call[p].op = "promote"
    <3>1. a \in Cands /\ status[a] = "approved"
      BY <1>3, <2>5 DEF Reviews, Allowed
    <3>2. f = CandFact[a] /\ status' = [status EXCEPT ![a] = "promoted"]
      BY <1>1, <2>5 DEF FactOf, Outcome
    <3>3. Lifecycle!Promote(a)
      BY <2>3, <3>1, <3>2 DEF Lifecycle!Promote
    <3> QED
      BY <3>1, <3>3 DEF Lifecycle!Next
  <2> QED
    BY <1>5, <2>4, <2>5 DEF Writers
<1>6. CASE call[p].op = "ingest" /\ ~call[p].made
  <2>1. Lifecycle!Erase
    BY <1>1, <1>6, Erases
  <2> QED
    BY <2>1 DEF Lifecycle!Next
<1>7. call[p].op = "promote" => call[p].made
  BY <1>1, <1>2 DEF Placed
<1> QED
  BY <1>2, <1>4, <1>5, <1>6, <1>7 DEF Ops, Writers

LEMMA RunPromise ==
    ASSUME Inv, ~missed', TypeOK', NEW p \in Clients, Begin(p) \/ Run(p) \/ Crash(p)
    PROVE  Lifecycle!Next \/ UNCHANGED <<status, current>>
<1>1. CASE Commit(p)
  <2>1. ~missed
    BY <1>1 DEF Commit
  <2> QED
    BY <1>1, <2>1, CommitPromise
<1>2. CASE ~Commit(p)
  BY <1>2 DEF Begin, Run, Crash, Leave, Proceed, LockCand, ReadCand, CheckOwner, Subject,
              LockEnd, MergeEdge, Verify, CompareStatus, SetStatus, Retry
<1> QED
  BY <1>1, <1>2

LEMMA NextPromise ==
    Inv /\ TypeOK' /\ [Next]_vars => [missed' \/ Lifecycle!Next]_<<status, current>>
<1> SUFFICES ASSUME Inv, TypeOK', [Next]_vars, ~missed'
             PROVE  Lifecycle!Next \/ UNCHANGED <<status, current>>
  OBVIOUS
<1>1. ASSUME NEW c \in Cands, Stage(c) PROVE Lifecycle!Next
  BY <1>1 DEF Stage, Lifecycle!Stage, Lifecycle!Review, Lifecycle!Next
<1>2. ASSUME NEW p \in Clients, Begin(p) \/ Run(p) \/ Crash(p)
      PROVE  Lifecycle!Next \/ UNCHANGED <<status, current>>
  BY <1>2, RunPromise
<1>3. ASSUME Rollback PROVE Lifecycle!Next
  <2>1. current' \subseteq current /\ \A c \in Cands : status'[c] \in {status[c], "none"}
    BY <1>3 DEF Rollback, RollbackEdges, RollbackNodes
  <2> QED
    BY <2>1, Erases DEF Lifecycle!Next
<1>4. ASSUME Sweep PROVE Lifecycle!Next
  <2>1. current' \subseteq current /\ \A c \in Cands : status'[c] \in {status[c], "none"}
    BY <1>4 DEF Sweep, SweepRead, SweepDelete
  <2> QED
    BY <2>1, Erases DEF Lifecycle!Next
<1>5. ASSUME NEW k \in Keys, NEW ns \in Namespaces, Resolve(k, ns)
      PROVE  UNCHANGED <<status, current>>
  BY <1>5 DEF Resolve
<1>6. ASSUME UNCHANGED vars PROVE UNCHANGED <<status, current>>
  BY <1>6 DEF vars
<1> QED
  BY <1>1, <1>2, <1>3, <1>4, <1>5, <1>6 DEF Next

\* A candidate becomes promoted where a promote commits, and by then the promote
\* has seen the edge that it wrote, whatever its locks missed.
LEMMA PromotedWithFact ==
    Inv /\ [Next]_vars =>
        [\A c \in Cands : status[c] # "promoted" /\ status'[c] = "promoted"
                         => CandFact[c] \in current']_<<status, current>>
<1> SUFFICES ASSUME Inv, [Next]_vars, NEW c \in Cands,
                    status[c] # "promoted", status'[c] = "promoted"
             PROVE  CandFact[c] \in current'
  OBVIOUS
<1>1. status \in [Cands -> Statuses] /\ status' # status
  BY DEF Inv, TypeOK
<1>2. ASSUME NEW p \in Clients, Commit(p) PROVE CandFact[c] \in current'
  <2>1. /\ call[p].pc = "commit"
        /\ status' = IF call[p].op = "ingest" THEN status
                     ELSE [status EXCEPT ![call[p].arg] = Outcome(call[p].op)]
        /\ current' = (current \ call[p].out) \cup IF call[p].made THEN {FactOf(p)} ELSE {}
    BY <1>2 DEF Commit, At
  <2>2. Placed(p) /\ call[p].op \in Ops \cup {"none"}
    BY Known
  <2>3. call[p].op # "ingest" /\ c = call[p].arg /\ Outcome(call[p].op) = "promoted"
    BY <1>1, <2>1
  <2>4. call[p].op = "promote"
    BY <2>1, <2>2, <2>3 DEF Outcome, Placed, Ops
  <2>5. call[p].made /\ FactOf(p) = CandFact[c]
    BY <2>1, <2>2, <2>3, <2>4 DEF Placed, FactOf
  <2> QED
    BY <2>1, <2>5
<1>3. ASSUME NEW p \in Clients, Begin(p) \/ Run(p) \/ Crash(p), ~Commit(p)
      PROVE  UNCHANGED status
  BY <1>3 DEF Begin, Run, Crash, Leave, Proceed, LockCand, ReadCand, CheckOwner, Subject,
              LockEnd, MergeEdge, Verify, CompareStatus, SetStatus, Retry
<1>4. ASSUME NEW d \in Cands, Stage(d) PROVE FALSE
  BY <1>1, <1>4 DEF Stage
<1>5. ASSUME Rollback \/ Sweep PROVE status'[c] \in {status[c], "none"}
  BY <1>5 DEF Rollback, RollbackEdges, RollbackNodes, Sweep, SweepRead, SweepDelete
<1>6. ASSUME UNCHANGED vars \/ \E k \in Keys, ns \in Namespaces : Resolve(k, ns)
      PROVE  UNCHANGED status
  BY <1>6 DEF Resolve, vars
<1> QED
  BY <1>1, <1>2, <1>3, <1>4, <1>5, <1>6 DEF Next

\* The gate implements its promise while every lock statement finds something to
\* lock: a candidate is reviewed in one direction, and a fact begins in the very
\* step that promotes its approved candidate, or by trusted ingest.  That step is
\* exactly one apply_edge on the current edges as they are at the commit, though
\* the incumbents were read and ended statements earlier.  And always, also when
\* a lock missed, a candidate is promoted only with its fact current.
THEOREM LifecycleTheorem == Spec => LifecyclePromise
<1>1. Init => Lifecycle!Init
  BY DEF Init, Lifecycle!Init
<1>2. Inv => TypeOK
  BY DEF Inv
<1> QED
  BY <1>1, <1>2, NextPromise, PromotedWithFact, Invariance, PTL DEF Spec, LifecyclePromise

=============================================================================

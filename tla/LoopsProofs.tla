----------------------------- MODULE LoopsProofs -----------------------------
(* The two loops around serve(), for every question, every request, every     *)
(* reply and every graph that moves meanwhile: each implements Search and asks*)
(* nothing twice, and the corrective loop acts at most once.                  *)
EXTENDS Planner, Corrective, FiniteSetTheorems, TLAPS

-----------------------------------------------------------------------------
(* The planner.                                                               *)

\* What the code knows of the last reply in each phase.
Phased ==
    /\ phase \in {"ask", "choose", "done"}
    /\ phase = "ask" => /\ reply.decision \in {"none", "abstain"}
                        /\ probe \notin tried
    /\ phase = "choose" => reply.decision = "abstain"
    /\ phase # "done" => steps_used < MAX_STEPS
    /\ terminated_on \in Endings \cup {"open"}
    /\ (terminated_on = "open") <=> (phase # "done")

StepsCounted ==
    /\ IsFiniteSet(tried)
    /\ steps_used \in 0 .. MAX_STEPS
    /\ Cardinality(tried) = steps_used

PlannerInv ==
    /\ Phased
    /\ StepsCounted
    /\ inScope \subseteq Real
    /\ OnlyStaleIsConfident

\* The gate says one of its four words.
LEMMA GateType ==
    ASSUME NEW claims, NEW action, NEW s, NEW c
    PROVE  stage_a_decision(claims, action, s, c) \in Finals
BY DEF stage_a_decision, gate, Finals

\* With a fact that is fresh a score that is enough passes.
LEMMA FreshPasses ==
    ASSUME NEW action, NEW s, NEW c, NEW stale \in BOOLEAN, selective(s, c),
           stage_a_decision({[support_status |-> "SUPPORTED", stale |-> stale]}, action, s, c) # "pass"
    PROVE  stale
BY DEF stage_a_decision, Hard

\* What every reply of serve is like.
LEMMA ReplyShape ==
    ASSUME NEW pr, NEW action, NEW scope, NEW r \in Replies(pr, action, scope)
    PROVE  /\ r.decision \in Finals
           /\ (r.facts # <<>> /\ selective(r.sufficiency, r.confidence) /\ r.decision # "pass")
                  => r.stale
<1>1. CASE r = Miss
  BY <1>1 DEF Miss, Finals
<1>2. ASSUME NEW coverage, NEW f, NEW p, NEW stale \in BOOLEAN, NEW conf, NEW ok,
             r = Reply(action, coverage, f, p, stale, conf, ok)
      PROVE  /\ r.decision \in Finals
             /\ (r.facts # <<>> /\ selective(r.sufficiency, r.confidence) /\ r.decision # "pass")
                    => r.stale
  <2> DEFINE claims == IF f = <<>> THEN {[support_status |-> "UNSUPPORTED", stale |-> FALSE]}
                       ELSE {[support_status |-> "SUPPORTED", stale |-> stale]}
  <2>1. /\ r.facts = f /\ r.sufficiency = coverage /\ r.confidence = conf /\ r.stale = stale
        /\ r.decision = stage_a_decision(claims, action, coverage, conf)
    BY <1>2 DEF Reply
  <2>2. r.decision \in Finals
    BY <2>1, GateType
  <2>3. ASSUME r.facts # <<>>, selective(r.sufficiency, r.confidence), r.decision # "pass"
        PROVE  r.stale
    <3>1. claims = {[support_status |-> "SUPPORTED", stale |-> stale]}
      BY <2>1, <2>3
    <3> QED
      BY <3>1, <2>1, <2>3, FreshPasses
  <2> QED
    BY <2>2, <2>3
<1>3. r = Miss \/ \E c, p, s, conf, ok :
          s \in BOOLEAN /\ r = Reply(action, c[2], c[1], p, s, conf, ok)
  BY DEF Replies
<1> QED
  BY <1>1, <1>2, <1>3

LEMMA PlannerInitInv == ASSUME PlannerInit PROVE PlannerInv
<1>1. IsFiniteSet({}) /\ Cardinality({}) = 0
  BY FS_EmptySet
<1>2. StepsCounted
  BY <1>1, StepsAssumption DEF PlannerInit, StepsCounted
<1>3. Phased
  BY StepsAssumption DEF PlannerInit, Phased, NoReply, Miss, None
<1> QED
  BY <1>2, <1>3 DEF PlannerInit, PlannerInv, OnlyStaleIsConfident

\* A probe that was not made is counted.
LEMMA OneMoreStep ==
    ASSUME PlannerInv, phase = "ask"
    PROVE  LET T == tried \cup {probe}
           IN  /\ IsFiniteSet(T)
               /\ Cardinality(T) = steps_used + 1
               /\ steps_used + 1 \in 1 .. MAX_STEPS
               /\ Cardinality(T \ tried) = 1
<1>1. IsFiniteSet(tried \cup {probe}) /\ Cardinality(tried \cup {probe}) = Cardinality(tried) + 1
  BY FS_AddElement DEF PlannerInv, Phased, StepsCounted
<1>2. (tried \cup {probe}) \ tried = {probe}
  BY DEF PlannerInv, Phased
<1>3. Cardinality({probe}) = 1
  BY FS_Singleton
<1> QED
  BY <1>1, <1>2, <1>3, StepsAssumption DEF PlannerInv, Phased, StepsCounted

\* How a reply ends the loop, by its decision.
LEMMA EndingOf ==
    ASSUME NEW r, NEW step, r.decision \in Finals
    PROVE  /\ Ending(r, step) \in Endings \cup {"open"}
           /\ Ending(r, step) = "open" => r.decision = "abstain" /\ step # MAX_STEPS
           /\ Ending(r, step) = "confidence" => r.decision \in {"pass", "partial"}
           /\ Ending(r, step) = "escalate" => r.decision = "escalate"
           /\ Ending(r, step) \in {"abstain", "confident_abstain"} => r.decision = "abstain"
           /\ Ending(r, step) = "confident_abstain" =>
                  r.facts # <<>> /\ selective(r.sufficiency, r.confidence)
<1>1. CASE ~r.clean
  BY <1>1 DEF Ending, Endings
<1>2. CASE r.clean /\ r.decision \in {"pass", "partial"}
  BY <1>2 DEF Ending, Endings
<1>3. CASE r.clean /\ r.decision = "escalate"
  BY <1>3 DEF Ending, Endings
<1>4. CASE r.clean /\ r.decision = "abstain"
  <2>1. Ending(r, step) = IF r.facts # <<>> /\ selective(r.sufficiency, r.confidence)
                          THEN "confident_abstain"
                          ELSE IF step = MAX_STEPS THEN "abstain" ELSE "open"
    BY <1>4 DEF Ending
  <2> QED
    BY <2>1, <1>4 DEF Endings
<1> QED
  BY <1>1, <1>2, <1>3, <1>4 DEF Finals

LEMMA AskInv == ASSUME PlannerInv, AskServe PROVE PlannerInv'
<1>1. PICK r \in Replies(probe, Routine, inScope) :
          reply' = r /\ terminated_on' = Ending(r, steps_used + 1)
  BY DEF AskServe
<1>2. /\ r.decision \in Finals
      /\ (r.facts # <<>> /\ selective(r.sufficiency, r.confidence) /\ r.decision # "pass")
             => r.stale
  BY ReplyShape
<1>3. /\ terminated_on' \in Endings \cup {"open"}
      /\ terminated_on' = "open" => r.decision = "abstain" /\ steps_used + 1 # MAX_STEPS
      /\ terminated_on' \in {"abstain", "confident_abstain"} => r.decision = "abstain"
      /\ terminated_on' = "confident_abstain" =>
             r.facts # <<>> /\ selective(r.sufficiency, r.confidence)
  BY <1>1, <1>2, EndingOf
<1>4. StepsCounted'
  BY OneMoreStep DEF AskServe, StepsCounted
<1>5. Phased'
  <2>1. steps_used' \in 1 .. MAX_STEPS /\ steps_used' = steps_used + 1
    BY OneMoreStep DEF AskServe
  <2>2. /\ phase' = IF terminated_on' = "open" THEN "choose" ELSE "done"
        /\ reply'.decision = r.decision
    BY <1>1 DEF AskServe
  <2>3. phase' # "done" => steps_used' < MAX_STEPS
    BY <2>1, <2>2, <1>3, StepsAssumption
  <2> QED
    BY <2>2, <2>3, <1>3 DEF Phased
<1>6. OnlyStaleIsConfident'
  BY <1>1, <1>2, <1>3 DEF OnlyStaleIsConfident
<1> QED
  BY <1>4, <1>5, <1>6 DEF AskServe, PlannerInv

LEMMA ChooseInv == ASSUME PlannerInv, Choose PROVE PlannerInv'
<1>1. StepsCounted'
  BY DEF Choose, PlannerInv, StepsCounted
<1>2. Phased'
  <2>1. CASE Fresh = {} /\ phase' = "done" /\ terminated_on' = "abstain"
    BY <2>1 DEF Choose, PlannerInv, Phased, Endings
  <2>2. CASE phase' = "ask" /\ UNCHANGED terminated_on
                 /\ \E i \in Fresh : probe' = Candidates(reply)[i]
    <3>1. probe' \notin tried'
      BY <2>2 DEF Choose, Fresh
    <3> QED
      BY <3>1, <2>2 DEF Choose, PlannerInv, Phased
  <2> QED
    BY <2>1, <2>2 DEF Choose
<1>3. OnlyStaleIsConfident'
  BY DEF Choose, PlannerInv, Phased, OnlyStaleIsConfident
<1> QED
  BY <1>1, <1>2, <1>3 DEF Choose, PlannerInv

LEMMA MoveInv == ASSUME PlannerInv, PlannerMove PROVE PlannerInv'
<1>1. inScope' \subseteq Real
  BY DEF PlannerMove, Moved, PlannerInv
<1> QED
  BY <1>1 DEF PlannerMove, PlannerInv, Phased, StepsCounted, OnlyStaleIsConfident

LEMMA PlannerNextInv == ASSUME PlannerInv, [PlannerNext]_pvars PROVE PlannerInv'
<1>1. CASE UNCHANGED pvars
  BY <1>1 DEF pvars, PlannerInv, Phased, StepsCounted, OnlyStaleIsConfident
<1> QED
  BY <1>1, AskInv, ChooseInv, MoveInv DEF PlannerNext, PlannerStep

LEMMA PlannerInvHolds == PlannerSpec => []PlannerInv
<1>1. PlannerInit => PlannerInv
  BY PlannerInitInv
<1>2. PlannerInv /\ [PlannerNext]_pvars => PlannerInv'
  BY PlannerNextInv
<1> QED
  BY <1>1, <1>2, PTL DEF PlannerSpec

\* The state of the planner stays well typed, and every step is a probe of its own.
THEOREM PlannerTypeCorrect == PlannerSpec => []PlannerTypeOK
<1>1. PlannerInv => PlannerTypeOK
  BY DEF PlannerInv, Phased, StepsCounted, PlannerTypeOK
<1> QED
  BY <1>1, PlannerInvHolds, PTL

\* No question is asked twice, nor more than MAX_STEPS of them (the tried set
\* and the range of planner.py).
THEOREM AskedOnceTheorem == PlannerSpec => []AskedOnce
<1>1. PlannerInv => AskedOnce
  BY DEF PlannerInv, Phased, StepsCounted, AskedOnce
<1> QED
  BY <1>1, PlannerInvHolds, PTL

\* Only a stale card is given up as "confident_abstain" (planner.py, tau).
THEOREM OnlyStaleTheorem == PlannerSpec => []OnlyStaleIsConfident
<1>1. PlannerInv => OnlyStaleIsConfident
  BY DEF PlannerInv
<1> QED
  BY <1>1, PlannerInvHolds, PTL

-----------------------------------------------------------------------------
(* The structure of the question                                              *)

\* What the second of two lists holds stands behind the first.
LEMMA Behind ==
    ASSUME NEW S, NEW a \in Seq(S), NEW b \in Seq(S)
    PROVE  ToSet(b) \subseteq {(a \o b)[i] : i \in DOMAIN (a \o b)}
<1>1. /\ DOMAIN (a \o b) = 1 .. (Len(a) + Len(b))
      /\ \A i \in 1 .. Len(b) : (a \o b)[Len(a) + i] = b[i]
  OBVIOUS
<1>2. DOMAIN b = 1 .. Len(b) /\ Len(a) \in Nat /\ Len(b) \in Nat
  OBVIOUS
<1>3. \A i \in 1 .. Len(b) : Len(a) + i \in DOMAIN (a \o b)
  BY <1>1, <1>2
<1> QED
  BY <1>1, <1>2, <1>3 DEF ToSet

\* A list of at most one element.
LEMMA AtMostOne ==
    ASSUME NEW S, NEW x \in S, NEW a, a = <<>> \/ a = <<x>>
    PROVE  a \in Seq(S)
<1>1. <<>> \in Seq(S)
  OBVIOUS
<1>2. <<x>> \in Seq(S)
  OBVIOUS
<1> QED
  BY <1>1, <1>2

\* The probes of a structure are among the candidates of a reply without facts.
LEMMA PatternsAreCandidates ==
    ASSUME NEW r, r.facts = <<>>
    PROVE  ToSet(PatternProbes) \subseteq {Candidates(r)[i] : i \in DOMAIN Candidates(r)}
<1> DEFINE ids == IdProbes(probe)
           S == {Probe("", <<>>, k) : k \in Keys} \cup {Probe("ids", IdsOf(probe), None)}
<1>1. PatternProbes \in Seq(S) /\ Len(PatternProbes) = Len(Objects)
  <2>1. Len(Objects) \in Nat /\ \A i \in 1 .. Len(Objects) : Objects[i] \in Keys
    BY ObjectsAssumption
  <2>2. \A i \in 1 .. Len(Objects) : Probe("", <<>>, Objects[i]) \in S
    BY <2>1
  <2>3. PatternProbes = [i \in 1 .. Len(Objects) |-> Probe("", <<>>, Objects[i])]
    BY DEF PatternProbes
  <2> HIDE DEF S
  <2>4. PatternProbes \in [1 .. Len(Objects) -> S]
    BY <2>2, <2>3
  <2> QED
    BY <2>1, <2>4
<1>2. ids \in Seq(S)
  <2>1. Probe("ids", IdsOf(probe), None) \in S
    OBVIOUS
  <2> DEFINE one == Probe("ids", IdsOf(probe), None)
  <2>2. ids = <<>> \/ ids = <<one>>
    BY DEF IdProbes
  <2>3. one \in S
    BY <2>1
  <2> HIDE DEF S, ids, one
  <2> QED
    BY <2>2, <2>3, AtMostOne
<1>3. Candidates(r) = ids \o PatternProbes
  BY DEF Candidates
<1> HIDE DEF ids, S
<1> QED
  BY <1>1, <1>2, <1>3, Behind

\* A planner that is through and not at its bound had no candidate left.
LEMMA StructureNext ==
    ASSUME PlannerInv, StructureWasTried, [PlannerNext]_pvars
    PROVE  StructureWasTried'
<1>1. CASE AskServe
  <2>1. PICK r \in Replies(probe, Routine, inScope) :
            terminated_on' = Ending(r, steps_used + 1) /\ r.decision \in Finals
    BY <1>1, ReplyShape DEF AskServe
  <2>2. terminated_on' = "abstain" => steps_used' = MAX_STEPS
    BY <1>1, <2>1 DEF AskServe, Ending
  <2> QED
    BY <2>2, StepsAssumption DEF StructureWasTried
<1>2. CASE Choose
  <2>1. CASE Fresh = {} /\ reply.facts = <<>>
    <3>1. \A i \in DOMAIN Candidates(reply) : Candidates(reply)[i] \in tried
      BY <2>1 DEF Fresh
    <3>2. ToSet(PatternProbes) \subseteq tried
      BY <2>1, <3>1, PatternsAreCandidates
    <3> QED
      BY <1>2, <3>2 DEF Choose, StructureWasTried
  <2>2. CASE reply.facts # <<>>
    BY <1>2, <2>2 DEF Choose, StructureWasTried
  <2>3. CASE Fresh # {}
    BY <1>2, <2>3 DEF Choose, StructureWasTried
  <2> QED
    BY <2>1, <2>2, <2>3
<1>3. CASE PlannerMove
  BY <1>3 DEF PlannerMove, StructureWasTried
<1>4. CASE UNCHANGED pvars
  BY <1>4 DEF pvars, StructureWasTried
<1> QED
  BY <1>1, <1>2, <1>3, <1>4 DEF PlannerNext, PlannerStep

\* The planner does not give up without facts and with steps left before it
\* asked for the structure that the question names (planner.py, _choose_next).
THEOREM StructureTheorem == PlannerSpec => []StructureWasTried
<1>1. PlannerInit => StructureWasTried
  BY DEF PlannerInit, StructureWasTried
<1>2. PlannerInv /\ StructureWasTried /\ [PlannerNext]_pvars => StructureWasTried'
  BY StructureNext
<1> QED
  BY <1>1, <1>2, PlannerInvHolds, PTL DEF PlannerSpec

-----------------------------------------------------------------------------
(* The refinement                                                             *)

\* The cardinality of Search is that of sets.
LEMMA PlannerCardinality == \A S : PlannerSearch!Cardinality(S) = Cardinality(S)
BY DEF PlannerSearch!Cardinality, Cardinality

LEMMA PlannerInitSearch == ASSUME PlannerInit PROVE PlannerSearch!SearchInit
BY DEF PlannerInit, PlannerSearch!SearchInit, NoReply, Miss, None

LEMMA AskIsAsk == ASSUME PlannerInv, AskServe PROVE PlannerSearch!Ask
<1>1. PICK r \in Replies(probe, Routine, inScope) :
          reply' = r /\ terminated_on' = Ending(r, steps_used + 1)
  BY DEF AskServe
<1>2. r.decision \in Finals
  BY ReplyShape
<1> DEFINE o == terminated_on'
<1>3. /\ o \in Endings \cup {"open"}
      /\ o = "open" => r.decision = "abstain"
      /\ o = "confidence" => r.decision \in {"pass", "partial"}
      /\ o = "escalate" => r.decision = "escalate"
      /\ o \in {"abstain", "confident_abstain"} => r.decision = "abstain"
  BY <1>1, <1>2, EndingOf
<1>4. tried \subseteq tried' /\ Cardinality(tried' \ tried) = 1 /\ Cardinality(tried') <= MAX_STEPS
  BY OneMoreStep, StepsAssumption DEF AskServe
<1>10. PlannerSearch!Cardinality(tried' \ tried) = 1 /\ PlannerSearch!Cardinality(tried') <= MAX_STEPS
  BY <1>4, PlannerCardinality
<1>5. terminated_on = "open" /\ reply.decision \in {"none", "abstain"}
  BY DEF AskServe, PlannerInv, Phased
<1>6. CASE o = "confidence"
  BY <1>1, <1>3, <1>4, <1>10, <1>5, <1>6 DEF PlannerSearch!Ask
<1>7. CASE o = "escalate"
  BY <1>1, <1>3, <1>4, <1>10, <1>5, <1>7 DEF PlannerSearch!Ask
<1>8. CASE o \in {"abstain", "confident_abstain", "open"}
  BY <1>1, <1>3, <1>4, <1>10, <1>5, <1>8 DEF PlannerSearch!Ask
<1>9. CASE o = "raised"
  BY <1>1, <1>2, <1>4, <1>10, <1>5, <1>9 DEF PlannerSearch!Ask, PlannerSearch!Decisions, Finals
<1> QED
  BY <1>3, <1>6, <1>7, <1>8, <1>9 DEF Endings

LEMMA ChooseIsLeave ==
    ASSUME PlannerInv, Choose
    PROVE  PlannerSearch!Leave \/ UNCHANGED PlannerSearch!svars
<1>1. terminated_on = "open" /\ reply.decision = "abstain"
  BY DEF Choose, PlannerInv, Phased
<1>2. CASE phase' = "done" /\ terminated_on' = "abstain"
  BY <1>1, <1>2 DEF Choose, PlannerSearch!Leave
<1>3. CASE UNCHANGED terminated_on
  BY <1>3 DEF Choose, PlannerSearch!svars
<1> QED
  BY <1>2, <1>3 DEF Choose

\* The planner implements Search: whatever serve replies and writers do, it
\* probes something new only after an abstention, within its bound, and its
\* label tells how it went (planner.py, "Bounded loop").
THEOREM PlannerImplementsSearch == PlannerSpec => PlannerPromise
<1>1. PlannerInit => PlannerSearch!SearchInit
  BY PlannerInitSearch
<1>2. PlannerInv /\ [PlannerNext]_pvars => [PlannerSearch!SearchNext]_PlannerSearch!svars
  <2> SUFFICES ASSUME PlannerInv, [PlannerNext]_pvars
               PROVE  PlannerSearch!SearchNext \/ UNCHANGED PlannerSearch!svars
    OBVIOUS
  <2>1. CASE AskServe
    BY <2>1, AskIsAsk DEF PlannerSearch!SearchNext
  <2>2. CASE Choose
    BY <2>2, ChooseIsLeave DEF PlannerSearch!SearchNext
  <2>3. CASE PlannerMove
    BY <2>3 DEF PlannerMove, PlannerSearch!svars
  <2>4. CASE UNCHANGED pvars
    BY <2>4 DEF pvars, PlannerSearch!svars
  <2> QED
    BY <2>1, <2>2, <2>3, <2>4 DEF PlannerNext, PlannerStep
<1> QED
  BY <1>1, <1>2, PlannerInvHolds, PTL DEF PlannerSpec, PlannerPromise, PlannerSearch!SearchSafe

-----------------------------------------------------------------------------
(* The corrective loop.                                                       *)

ResolvedAs == {"start", "open", "initial", "rewrite", "exhausted", "web_advisory", "raised"}

\* What was asked and decided so far; until the first answer nothing is done.
StillAsks ==
    /\ resolved_at \in ResolvedAs
    /\ resolved_at = "start" => /\ attempted = {} /\ candidate = None
                                /\ rewrites_used = 0 /\ decision = None
    /\ resolved_at = "open" => candidate = "abstain" /\ decision = "abstain"
    /\ resolved_at \in {"initial", "rewrite"} => decision = candidate
    /\ resolved_at \in {"exhausted", "web_advisory"} => decision \in {"abstain", "escalate"}
    /\ candidate \in Finals \cup {None}
    /\ decision \in Finals \cup {None}
    /\ inScope \subseteq Real
    /\ request \in Requests

RewritesCounted ==
    /\ IsFiniteSet(attempted)
    /\ rewrites_used \in 0 .. MAX_REWRITES
    /\ resolved_at = "open" => Cardinality(attempted) = rewrites_used + 1

\* An action was carried out by the last call, which was told "pass".
Acted ==
    /\ executed \in {0, 1}
    /\ executed = 1 => /\ resolved_at \in {"initial", "rewrite", "raised"}
                       /\ candidate = "pass"
                       /\ request.autonomous

CorrectiveInv == StillAsks /\ RewritesCounted /\ Acted

\* The gate says one of two words to what has no support.
LEMMA RegradeType == Regrade \in {"abstain", "escalate"}
BY DEF Regrade, stage_a_decision, Hard, gate

LEMMA CorrectiveInitInv ==
    ASSUME CorrectiveInit
    PROVE  CorrectiveInv
<1>1. IsFiniteSet({})
  BY FS_EmptySet
<1>2. RewritesCounted
  BY RewritesAssumption, <1>1 DEF CorrectiveInit, RewritesCounted
<1> QED
  BY <1>2 DEF CorrectiveInit, CorrectiveInv, StillAsks, Acted, ResolvedAs, Finals

\* A call before which nothing was done acts only if it is told "pass" and may.
LEMMA CallActs ==
    ASSUME NEW p, NEW r, Call(p, r), executed = 0
    PROVE  /\ executed' \in {0, 1}
           /\ executed' = 1 => candidate' = "pass" /\ request.autonomous
BY DEF Call, Executes

LEMMA InitialInv ==
    ASSUME CorrectiveInv, Initial
    PROVE  CorrectiveInv'
<1>1. PICK r \in Replies(TheQuestion, request, inScope) :
          /\ Call(TheQuestion, r)
          /\ decision' = r.decision
          /\ resolved_at' = IF ~r.clean THEN "raised"
                            ELSE IF r.decision # "abstain" THEN "initial" ELSE "open"
  BY DEF Initial
<1>2. r.decision \in Finals
  BY ReplyShape
<1>3. /\ resolved_at = "start" /\ attempted = {} /\ rewrites_used = 0 /\ executed = 0
      /\ UNCHANGED <<request, rewrites_used, inScope>>
  BY DEF Initial, CorrectiveInv, StillAsks, Acted
<1>4. candidate' = r.decision /\ attempted' = {TheQuestion}
  BY <1>1, <1>3 DEF Call
<1>5. StillAsks'
  BY <1>1, <1>2, <1>3, <1>4 DEF CorrectiveInv, StillAsks, ResolvedAs
<1>6. RewritesCounted'
  <2>1. IsFiniteSet({TheQuestion}) /\ Cardinality({TheQuestion}) = 1
    BY FS_Singleton
  <2> QED
    BY <2>1, <1>3, <1>4, RewritesAssumption DEF RewritesCounted
<1>7. Acted'
  BY <1>1, <1>3, <1>4, CallActs DEF Acted
<1> QED
  BY <1>5, <1>6, <1>7 DEF CorrectiveInv

\* A probe that was not made is counted.
LEMMA OneMoreRewrite ==
    ASSUME CorrectiveInv, Rewrite
    PROVE  /\ IsFiniteSet(attempted')
           /\ attempted' = attempted \cup {Head(todo)}
           /\ Cardinality(attempted') = rewrites_used + 2
           /\ Cardinality(attempted' \ attempted) = 1
           /\ rewrites_used' = rewrites_used + 1
           /\ rewrites_used + 1 \in 0 .. MAX_REWRITES
<1>1. /\ resolved_at = "open" /\ rewrites_used < MAX_REWRITES
      /\ Head(todo) \notin attempted
      /\ attempted' = attempted \cup {Head(todo)}
      /\ rewrites_used' = rewrites_used + 1
  BY DEF Rewrite, Ready, Call
<1>2. IsFiniteSet(attempted') /\ Cardinality(attempted') = Cardinality(attempted) + 1
  BY <1>1, FS_AddElement DEF CorrectiveInv, RewritesCounted
<1>3. attempted' \ attempted = {Head(todo)}
  BY <1>1
<1>4. Cardinality({Head(todo)}) = 1
  BY FS_Singleton
<1> QED
  BY <1>1, <1>2, <1>3, <1>4, RewritesAssumption DEF CorrectiveInv, RewritesCounted

LEMMA RewriteInv ==
    ASSUME CorrectiveInv, Rewrite
    PROVE  CorrectiveInv'
<1>1. PICK r \in Replies(Head(todo), request, inScope) :
          /\ Call(Head(todo), r)
          /\ decision' = IF r.clean /\ r.decision # "abstain" THEN r.decision ELSE decision
          /\ resolved_at' = IF ~r.clean THEN "raised"
                            ELSE IF r.decision # "abstain" THEN "rewrite" ELSE "open"
  BY DEF Rewrite
<1>2. r.decision \in Finals
  BY ReplyShape
<1>3. /\ resolved_at = "open" /\ decision = "abstain" /\ executed = 0
      /\ UNCHANGED <<request, inScope>>
  BY DEF Rewrite, Ready, CorrectiveInv, StillAsks, Acted
<1>4. candidate' = r.decision
  BY <1>1 DEF Call
<1>5. StillAsks'
  BY <1>1, <1>2, <1>3, <1>4 DEF CorrectiveInv, StillAsks, ResolvedAs
<1>6. RewritesCounted'
  BY OneMoreRewrite DEF RewritesCounted, CorrectiveInv
<1>7. Acted'
  BY <1>1, <1>3, <1>4, CallActs DEF Acted
<1> QED
  BY <1>5, <1>6, <1>7 DEF CorrectiveInv

LEMMA GiveUpInv ==
    ASSUME CorrectiveInv, GiveUp
    PROVE  CorrectiveInv'
<1>1. /\ resolved_at = "open" /\ decision = "abstain" /\ executed = 0
      /\ UNCHANGED <<request, attempted, candidate, rewrites_used, executed, inScope>>
  BY DEF GiveUp, Exhausted, CorrectiveInv, StillAsks, Acted
<1>2. /\ resolved_at' \in {"exhausted", "web_advisory", "raised"}
      /\ decision' \in {"abstain", "escalate"}
  BY <1>1, RegradeType DEF GiveUp
<1> QED
  BY <1>1, <1>2 DEF CorrectiveInv, StillAsks, RewritesCounted, Acted, ResolvedAs, Finals

LEMMA QuietSteps ==
    ASSUME CorrectiveInv, UNCHANGED <<request, attempted, candidate, rewrites_used, resolved_at,
                            decision, executed>>,
           inScope' \subseteq Real
    PROVE  CorrectiveInv'
BY DEF CorrectiveInv, StillAsks, RewritesCounted, Acted

LEMMA CorrectiveNextInv ==
    ASSUME CorrectiveInv, [CorrectiveNext]_cvars
    PROVE  CorrectiveInv'
<1>1. CASE Initial
  BY <1>1, InitialInv
<1>2. CASE Expand
  BY <1>2, QuietSteps DEF Expand, CorrectiveInv, StillAsks
<1>3. CASE Skip
  BY <1>3, QuietSteps DEF Skip, CorrectiveInv, StillAsks
<1>4. CASE Rewrite
  BY <1>4, RewriteInv
<1>5. CASE GiveUp
  BY <1>5, GiveUpInv
<1>6. CASE CorrectiveMove
  <2>1. inScope' \subseteq Real
    BY <1>6 DEF CorrectiveMove, Moved, CorrectiveInv, StillAsks
  <2> QED
    BY <2>1, <1>6, QuietSteps DEF CorrectiveMove
<1>7. CASE UNCHANGED cvars
  BY <1>7, QuietSteps DEF cvars, CorrectiveInv, StillAsks
<1> QED
  BY <1>1, <1>2, <1>3, <1>4, <1>5, <1>6, <1>7 DEF CorrectiveNext, CorrectiveStep

LEMMA CorrectiveInvHolds == CorrectiveSpec => []CorrectiveInv
<1>1. CorrectiveInit => CorrectiveInv
  BY CorrectiveInitInv
<1>2. CorrectiveInv /\ [CorrectiveNext]_cvars => CorrectiveInv'
  BY CorrectiveNextInv
<1> QED
  BY <1>1, <1>2, PTL DEF CorrectiveSpec

\* The state of the loop stays well typed.
THEOREM CorrectiveTypeCorrect == CorrectiveSpec => []CorrectiveTypeOK
<1>1. CorrectiveInv => CorrectiveTypeOK
  BY DEF CorrectiveInv, StillAsks, RewritesCounted, Acted, ResolvedAs, CorrectiveTypeOK
<1> QED
  BY <1>1, CorrectiveInvHolds, PTL

\* The caller's action, which every probe carries, is carried out at most once,
\* and by the call whose "pass" the caller is told (corrective.py, the action
\* that each serve call is given).
THEOREM ActsOnceTheorem == CorrectiveSpec => []ActsOnce
<1>1. CorrectiveInv => ActsOnce
  BY DEF CorrectiveInv, StillAsks, Acted, ActsOnce
<1> QED
  BY <1>1, CorrectiveInvHolds, PTL

-----------------------------------------------------------------------------
(* The refinement                                                             *)

\* The cardinality of Search is that of sets.
LEMMA CorrectiveCardinality == \A S : CorrectiveSearch!Cardinality(S) = Cardinality(S)
BY DEF CorrectiveSearch!Cardinality, Cardinality

LEMMA CorrectiveInitSearch == ASSUME CorrectiveInit PROVE CorrectiveSearch!SearchInit
BY DEF CorrectiveInit, CorrectiveSearch!SearchInit, None

LEMMA InitialIsAsk ==
    ASSUME CorrectiveInv, Initial
    PROVE  CorrectiveSearch!Ask
<1>1. PICK r \in Replies(TheQuestion, request, inScope) :
          /\ Call(TheQuestion, r)
          /\ decision' = r.decision
          /\ resolved_at' = IF ~r.clean THEN "raised"
                            ELSE IF r.decision # "abstain" THEN "initial" ELSE "open"
  BY DEF Initial
<1>2. r.decision \in Finals
  BY ReplyShape
<1>3. resolved_at = "start" /\ attempted = {} /\ candidate = "none"
  BY DEF Initial, CorrectiveInv, StillAsks, None
<1>4. candidate' = r.decision /\ attempted' = {TheQuestion} /\ attempted' \ attempted = {TheQuestion}
  BY <1>1, <1>3 DEF Call
<1>5. /\ CorrectiveSearch!Cardinality(attempted') <= MAX_REWRITES + 1
      /\ CorrectiveSearch!Cardinality(attempted' \ attempted) = 1
  <2>1. Cardinality({TheQuestion}) = 1
    BY FS_Singleton
  <2> QED
    BY <2>1, <1>4, CorrectiveCardinality, RewritesAssumption
<1>6. CASE ~r.clean
  BY <1>1, <1>2, <1>3, <1>4, <1>5, <1>6 DEF CorrectiveSearch!Ask, CorrectiveSearch!Decisions, Finals
<1>7. CASE r.clean /\ r.decision = "abstain"
  BY <1>1, <1>3, <1>4, <1>5, <1>7 DEF CorrectiveSearch!Ask
<1>8. CASE r.clean /\ r.decision # "abstain"
  <2>1. resolved_at' = "initial" /\ decision' = r.decision
    BY <1>1, <1>8
  <2> QED
    BY <2>1, <1>2, <1>3, <1>4, <1>5, <1>8 DEF CorrectiveSearch!Ask, Finals
<1> QED
  BY <1>6, <1>7, <1>8

LEMMA RewriteIsAsk ==
    ASSUME CorrectiveInv, Rewrite
    PROVE  CorrectiveSearch!Ask
<1>1. PICK r \in Replies(Head(todo), request, inScope) :
          /\ Call(Head(todo), r)
          /\ decision' = IF r.clean /\ r.decision # "abstain" THEN r.decision ELSE decision
          /\ resolved_at' = IF ~r.clean THEN "raised"
                            ELSE IF r.decision # "abstain" THEN "rewrite" ELSE "open"
  BY DEF Rewrite
<1>2. r.decision \in Finals
  BY ReplyShape
<1>3. resolved_at = "open" /\ candidate = "abstain"
  BY DEF Rewrite, Ready, CorrectiveInv, StillAsks
<1>4. candidate' = r.decision
  BY <1>1 DEF Call
<1>5. /\ attempted \subseteq attempted'
      /\ CorrectiveSearch!Cardinality(attempted') <= MAX_REWRITES + 1
      /\ CorrectiveSearch!Cardinality(attempted' \ attempted) = 1
  BY OneMoreRewrite, CorrectiveCardinality, RewritesAssumption DEF CorrectiveInv, RewritesCounted
<1>6. CASE ~r.clean
  BY <1>1, <1>2, <1>3, <1>4, <1>5, <1>6 DEF CorrectiveSearch!Ask, CorrectiveSearch!Decisions, Finals
<1>7. CASE r.clean /\ r.decision = "abstain"
  BY <1>1, <1>3, <1>4, <1>5, <1>7 DEF CorrectiveSearch!Ask
<1>8. CASE r.clean /\ r.decision # "abstain"
  <2>1. resolved_at' = "rewrite" /\ decision' = r.decision
    BY <1>1, <1>8
  <2> QED
    BY <2>1, <1>2, <1>3, <1>4, <1>5, <1>8 DEF CorrectiveSearch!Ask, Finals
<1> QED
  BY <1>6, <1>7, <1>8

LEMMA GiveUpIsLeave ==
    ASSUME CorrectiveInv, GiveUp
    PROVE  CorrectiveSearch!Leave
<1>1. resolved_at = "open" /\ candidate = "abstain" /\ decision = "abstain"
  BY DEF GiveUp, Exhausted, CorrectiveInv, StillAsks
<1>2. /\ resolved_at' \in {"exhausted", "web_advisory", "raised"}
      /\ decision' \in {"abstain", "escalate"}
  BY <1>1, RegradeType DEF GiveUp
<1> QED
  BY <1>1, <1>2 DEF GiveUp, CorrectiveSearch!Leave

\* The corrective loop implements Search: a bounded number of different probes,
\* a further one only after an abstention, and a label and decision that tell
\* truly how it went (corrective.py, "Loop is provably bounded").
THEOREM CorrectiveImplementsSearch == CorrectiveSpec => CorrectivePromise
<1>1. CorrectiveInit => CorrectiveSearch!SearchInit
  BY CorrectiveInitSearch
<1>2. CorrectiveInv /\ [CorrectiveNext]_cvars => [CorrectiveSearch!SearchNext]_CorrectiveSearch!svars
  <2> SUFFICES ASSUME CorrectiveInv, [CorrectiveNext]_cvars
               PROVE  CorrectiveSearch!SearchNext \/ UNCHANGED CorrectiveSearch!svars
    OBVIOUS
  <2>1. CASE Initial
    BY <2>1, InitialIsAsk DEF CorrectiveSearch!SearchNext
  <2>2. CASE Rewrite
    BY <2>2, RewriteIsAsk DEF CorrectiveSearch!SearchNext
  <2>3. CASE GiveUp
    BY <2>3, GiveUpIsLeave DEF CorrectiveSearch!SearchNext
  <2>4. CASE Expand \/ Skip \/ CorrectiveMove \/ UNCHANGED cvars
    BY <2>4 DEF Expand, Skip, CorrectiveMove, cvars, CorrectiveSearch!svars
  <2> QED
    BY <2>1, <2>2, <2>3, <2>4 DEF CorrectiveNext, CorrectiveStep
<1> QED
  BY <1>1, <1>2, CorrectiveInvHolds, PTL DEF CorrectiveSpec, CorrectivePromise, CorrectiveSearch!SearchSafe

=============================================================================

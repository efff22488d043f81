------------------------------- MODULE Planner -------------------------------
(* The planner's loop (02-agents/src/planner.py): each step asks serve() and  *)
(* chooses the next probe from the reply.  A step's call and the tests that   *)
(* follow it are one action; the choice is another, because it reads the      *)
(* graph, which writers may have changed since.  serve() is called without an *)
(* action, so the default of a routine, reversible one decides.               *)
EXTENDS Probes

CONSTANT MAX_STEPS   \* max_steps, 4 in the code

ASSUME StepsAssumption == MAX_STEPS \in Nat \ {0}
ASSUME ObjectsAssumption == Objects \in Seq(Keys)

VARIABLES
    phase,          \* "ask", "choose" or "done"
    probe,          \* current_query and current_pattern
    tried,          \* the probes made
    steps_used,     \* how many steps were made
    reply,          \* what serve answered last, or NoReply
    terminated_on   \* "open", or the label the caller gets

pvars == <<phase, probe, tried, steps_used, reply, terminated_on, inScope>>

Routine == [category |-> "routine", reversible |-> TRUE]

PlannerInit ==
    /\ phase = "ask"
    /\ probe = TheQuestion
    /\ tried = {}
    /\ steps_used = 0
    /\ reply = NoReply
    /\ terminated_on = "open"
    /\ inScope = Real

\* Mutant: the score is looked at before the decision.
EndingScoreFirst(r, step) ==
    CASE ~r.clean -> "raised"
      [] r.clean /\ r.facts # <<>> /\ selective(r.sufficiency, r.confidence) -> "confident_abstain"
      [] OTHER -> IF r.decision \in {"pass", "partial"} THEN "confidence"
                  ELSE IF r.decision = "escalate" THEN "escalate"
                  ELSE IF step = MAX_STEPS THEN "abstain" ELSE "open"

\* How the step's reply ends the loop, "open" when it does not.  The score of
\* a reply is the gate's, and tau is the gate's threshold.
Ending(r, step) ==
    CASE ~r.clean -> "raised"
      [] r.clean /\ r.decision \in {"pass", "partial"} -> "confidence"
      [] r.clean /\ r.decision = "escalate" -> "escalate"
      [] OTHER -> IF r.facts # <<>> /\ selective(r.sufficiency, r.confidence)
                  THEN "confident_abstain"
                  ELSE IF step = MAX_STEPS THEN "abstain" ELSE "open"

\* One step: the call and the tests on its reply.
AskServe ==
    /\ phase = "ask"
    /\ tried' = tried \cup {probe}
    /\ steps_used' = steps_used + 1
    /\ \E r \in Replies(probe, Routine, inScope) :
          /\ reply' = r
          /\ terminated_on' = Ending(r, steps_used + 1)
    /\ phase' = IF terminated_on' = "open" THEN "choose" ELSE "done"
    /\ UNCHANGED <<probe, inScope>>

\* Mutant: the verb and the ids are looked for in the query of this step.
CandidatesOfQuery(r) ==
    IF r.facts = <<>>
    THEN IdProbes(probe) \o (IF probe.text = "question" THEN PatternProbes ELSE <<>>)
    ELSE HopProbes(r, inScope, probe.obj)
         \o (IF r.sufficiency < 34 THEN PartProbes(None) ELSE <<>>)

\* What may be asked next, in order of preference: without facts the ids alone
\* and then the structure the question names; with facts their neighbours and,
\* when they cover little, the parts of the question.
Candidates(r) ==
    IF r.facts = <<>>
    THEN IdProbes(probe) \o PatternProbes
    ELSE HopProbes(r, inScope, probe.obj)
         \o (IF r.sufficiency < 34 THEN PartProbes(None) ELSE <<>>)

\* Mutant: a probe that was made already is made again.
FreshAny == DOMAIN Candidates(reply)

\* The places of the candidates that were not tried.
Fresh == {i \in DOMAIN Candidates(reply) : Candidates(reply)[i] \notin tried}

\* _choose_next: the first candidate that was not tried.
Choose ==
    /\ phase = "choose"
    /\ \/ /\ Fresh = {}
          /\ phase' = "done"
          /\ terminated_on' = "abstain"
          /\ UNCHANGED probe
       \/ /\ \E i \in Fresh : /\ \A j \in Fresh : i <= j
                              /\ probe' = Candidates(reply)[i]
          /\ phase' = "ask"
          /\ UNCHANGED terminated_on
    /\ UNCHANGED <<tried, steps_used, reply, inScope>>

\* Writers, while the loop runs.
PlannerMove ==
    /\ phase # "done"
    /\ inScope' \in Moved(inScope)
    /\ UNCHANGED <<phase, probe, tried, steps_used, reply, terminated_on>>

PlannerStep == AskServe \/ Choose
PlannerNext == PlannerStep \/ PlannerMove

PlannerSpec == PlannerInit /\ [][PlannerNext]_pvars /\ WF_pvars(PlannerStep)

-----------------------------------------------------------------------------
(* Properties                                                                 *)

Endings == {"confidence", "escalate", "confident_abstain", "abstain", "raised"}

\* Every variable holds what the code lets it hold.
PlannerTypeOK ==
    /\ phase \in {"ask", "choose", "done"}
    /\ steps_used \in 0 .. MAX_STEPS
    /\ terminated_on \in Endings \cup {"open"}
    /\ inScope \subseteq Real
    /\ Cardinality(tried) = steps_used

\* The planner asks nothing twice and at most MAX_STEPS times, whatever serve
\* replies and the graph does in between (planner.py, the tried set).
AskedOnce ==
    /\ phase = "ask" => probe \notin tried
    /\ steps_used \in 0 .. MAX_STEPS
    /\ steps_used = MAX_STEPS => phase = "done"

\* A card without a stale fact is never given up as a "confident abstain": with
\* tau at the gate's threshold the score of a clean card passes, and that of a
\* card without facts does not count.
OnlyStaleIsConfident ==
    terminated_on = "confident_abstain" =>
        reply.facts # <<>> /\ reply.stale

\* Whatever the detours, the structure that the question names was asked for
\* before the planner gives up without facts and with steps left (the verb is
\* lost from the query of a later step).
StructureWasTried ==
    (terminated_on = "abstain" /\ reply.facts = <<>> /\ steps_used < MAX_STEPS) =>
        ToSet(PatternProbes) \subseteq tried

\* The planner as a search: what it asked, how the last reply decided and how
\* its label reads.
PlannerSearch == INSTANCE Search WITH
    Budget <- MAX_STEPS,
    asked <- tried,
    last <- reply.decision,
    outcome <- [open |-> "open", confidence |-> "answered", escalate |-> "handed_over",
                confident_abstain |-> "gave_up", abstain |-> "gave_up",
                raised |-> "stopped"][terminated_on]

\* The planner keeps what Search promises: a further probe only after an
\* abstention, never one that was made, and a label that tells how it went.
PlannerPromise == PlannerSearch!SearchSafe

=============================================================================

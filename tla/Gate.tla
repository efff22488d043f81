-------------------------------- MODULE Gate --------------------------------
(* The trust gate: gate.gate, abstain.stage_a_decision and abstain.execute.   *)
(* A claim is [support_status, stale]; serve raises no conflict and the       *)
(* requery that stage_a_decision passes is the identity.  Sufficiency and     *)
(* confidence are percentages: with weights 2, 2, bias -1.5 and TAU 0.5 the   *)
(* logistic says act exactly when they add up to 75 or more.                  *)
EXTENDS Integers

Categories == {"routine", "architectural", "security", "irreversible"}
CATEGORICAL_HUMAN == {"security", "irreversible"}

Claim == [support_status : {"SUPPORTED", "PARTIAL", "UNSUPPORTED"}, stale : BOOLEAN]

Finals == {"pass", "partial", "abstain", "escalate"}

Hard(claims) == \E c \in claims : c.support_status = "UNSUPPORTED" \/ c.stale

\* gate(), entered only with a hard violation.
gate(action) ==
    IF action.category \in CATEGORICAL_HUMAN \/ ~action.reversible
    THEN "escalate" ELSE "abstain"

selective(sufficiency, confidence) == 2 * (sufficiency + confidence) - 150 >= 0

\* Mutant: the freshness of claims is not looked at.
stage_a_stale(claims, action, sufficiency, confidence) ==
    IF \E c \in claims : c.support_status = "UNSUPPORTED" THEN gate(action)
    ELSE IF selective(sufficiency, confidence) THEN "pass" ELSE "abstain"

stage_a_decision(claims, action, sufficiency, confidence) ==
    IF Hard(claims) THEN gate(action)
    ELSE IF \E c \in claims : c.support_status = "PARTIAL" THEN "partial"
    ELSE IF selective(sufficiency, confidence) THEN "pass"
    ELSE "abstain"

\* execute: suggest-only blocks even a pass.
Executes(autonomous, final) == autonomous /\ final = "pass"

=============================================================================

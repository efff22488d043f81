-------------------------------- MODULE Search --------------------------------
(* What the two probing loops promise (corrective.py, "Loop is provably       *)
(* bounded"; planner.py, "Bounded loop"): a finite number of different        *)
(* probes, a further one only after an abstention, and an ending that says    *)
(* truly how the last probe went.  Planner and Corrective implement it.       *)
EXTENDS Naturals, FiniteSets

CONSTANT Budget   \* how many probes there may be

VARIABLES
    asked,    \* the probes made
    last,     \* the decision on the last of them, or "none"
    outcome   \* "open", or how the search ended

Decisions == {"pass", "partial", "abstain", "escalate"}

svars == <<asked, last, outcome>>

SearchInit == asked = {} /\ last = "none" /\ outcome = "open"

\* A further probe: nothing was answered and nobody was called yet.
Ask ==
    /\ outcome = "open"
    /\ last \in {"none", "abstain"}
    /\ asked \subseteq asked'
    /\ Cardinality(asked' \ asked) = 1
    /\ Cardinality(asked') <= Budget
    /\ \/ last' \in {"pass", "partial"} /\ outcome' = "answered"
       \/ last' = "escalate" /\ outcome' = "handed_over"
       \/ last' = "abstain" /\ outcome' \in {"open", "gave_up"}
       \/ last' \in Decisions /\ outcome' = "stopped"

\* The search ends without a further probe.
Leave ==
    /\ outcome = "open"
    /\ last = "abstain"
    /\ outcome' \in {"gave_up", "handed_over", "stopped"}
    /\ UNCHANGED <<asked, last>>

SearchNext == Ask \/ Leave

SearchSafe == SearchInit /\ [][SearchNext]_svars

\* The search comes to an end.
SearchEnds == <>(outcome # "open")

SearchSpec == SearchSafe /\ SearchEnds

=============================================================================

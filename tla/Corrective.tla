------------------------------ MODULE Corrective ------------------------------
(* The corrective loop (01-context/src/corrective.py): serve() is asked once, *)
(* and after an abstention the question is rewritten, at most MAX_REWRITES    *)
(* times.  The rewrites come from a generator: the list of those that depend  *)
(* on the question alone is fixed, and the place EXPAND stands for the one    *)
(* that reads the graph when the loop reaches it.  The generator was given    *)
(* the first result, so that is the one it expands, whatever came later.      *)
EXTENDS Probes

CONSTANTS
    MAX_REWRITES,  \* max_rewrites, 2 in the code
    Requests       \* the caller's action, its lease and whether the web is enabled

ASSUME RewritesAssumption == MAX_REWRITES \in Nat

VARIABLES
    request,      \* [category, reversible, autonomous, web]
    todo,         \* what the generator has still to yield
    attempted,    \* the probes made
    first,        \* the first reply, which the generator expands, or NoReply
    candidate,    \* the decision of the last reply
    rewrites_used,
    resolved_at,  \* "start", "open", or the label the caller gets
    decision,     \* the decision the caller gets
    executed      \* how often an action was carried out

cvars == <<request, todo, attempted, first, candidate, rewrites_used, resolved_at,
           decision, executed, inScope>>

EXPAND == Probe("expand", <<>>, None)

CorrectiveInit ==
    /\ request \in Requests
    /\ todo = <<>>
    /\ attempted = {}
    /\ first = NoReply
    /\ candidate = None
    /\ rewrites_used = 0
    /\ resolved_at = "start"
    /\ decision = None
    /\ executed = 0
    /\ inScope = Real

\* _build_rewrites, for a call without a pattern.
Rewrites == IdProbes(TheQuestion) \o PatternProbes \o <<EXPAND>> \o PartProbes(None)

\* A call of serve: its reply, and its action when the gate and the lease allow it.
Call(p, r) ==
    /\ attempted' = attempted \cup {p}
    /\ candidate' = r.decision
    /\ executed' = executed + (IF r.retrieved /\ Executes(request.autonomous, r.decision)
                               THEN 1 ELSE 0)

\* The first probe, the question itself.
Initial ==
    /\ resolved_at = "start"
    /\ \E r \in Replies(TheQuestion, request, inScope) :
          /\ Call(TheQuestion, r)
          /\ first' = IF r.clean /\ r.decision = "abstain" THEN r ELSE NoReply
          /\ decision' = r.decision
          /\ resolved_at' = IF ~r.clean THEN "raised"
                            ELSE IF r.decision # "abstain" THEN "initial" ELSE "open"
    /\ todo' = Rewrites
    /\ UNCHANGED <<request, rewrites_used, inScope>>

\* The loop asks the generator for one more: it reads the graph for the
\* neighbours, and yields nothing when there are none.
Expand ==
    /\ resolved_at = "open"
    /\ todo # <<>>
    /\ Head(todo) = EXPAND
    /\ todo' = HopProbes(first, inScope, None) \o Tail(todo)
    /\ UNCHANGED <<request, attempted, first, candidate, rewrites_used, resolved_at,
                   decision, executed, inScope>>

Ready ==
    /\ resolved_at = "open"
    /\ todo # <<>>
    /\ Head(todo) # EXPAND
    /\ rewrites_used < MAX_REWRITES

\* The no-op guard.
Skip ==
    /\ Ready
    /\ Head(todo) \in attempted
    /\ todo' = Tail(todo)
    /\ UNCHANGED <<request, attempted, first, candidate, rewrites_used, resolved_at,
                   decision, executed, inScope>>

\* Mutant: the loop goes on after an answer and keeps the last one.
RewriteOn ==
    /\ Ready
    /\ Head(todo) \notin attempted
    /\ \E r \in Replies(Head(todo), request, inScope) :
          /\ Call(Head(todo), r)
          /\ decision' = IF r.clean /\ r.decision # "abstain" THEN r.decision ELSE decision
          /\ resolved_at' = IF ~r.clean THEN "raised" ELSE "open"
    /\ rewrites_used' = rewrites_used + 1
    /\ todo' = Tail(todo)
    /\ UNCHANGED <<request, first, inScope>>

\* One rewrite.  A caller of a loop that stays without an answer gets the first
\* result, not the last.
Rewrite ==
    /\ Ready
    /\ Head(todo) \notin attempted
    /\ \E r \in Replies(Head(todo), request, inScope) :
          /\ Call(Head(todo), r)
          /\ decision' = IF r.clean /\ r.decision # "abstain" THEN r.decision ELSE decision
          /\ resolved_at' = IF ~r.clean THEN "raised"
                            ELSE IF r.decision # "abstain" THEN "rewrite" ELSE "open"
    /\ rewrites_used' = rewrites_used + 1
    /\ todo' = Tail(todo)
    /\ UNCHANGED <<request, first, inScope>>

\* Mutant: the bound keeps from a further rewrite but does not end the loop.
ExhaustedWhenEmpty == resolved_at = "open" /\ todo = <<>>

Exhausted ==
    /\ resolved_at = "open"
    /\ \/ todo = <<>>
       \/ todo # <<>> /\ Head(todo) # EXPAND /\ rewrites_used = MAX_REWRITES

\* Mutant: the facts of the web are claims with support.
RegradeSupported ==
    stage_a_decision({[support_status |-> "SUPPORTED", stale |-> FALSE]}, request, 0, 95)

\* Facts of the web have no support in the graph.
Regrade ==
    stage_a_decision({[support_status |-> "UNSUPPORTED", stale |-> FALSE]}, request, 0, 0)

\* The end of the loop: the fallback, if it is enabled, returns nothing, returns
\* facts, or raises (a payment prompt, or the last of its three attempts failed).
GiveUp ==
    /\ Exhausted
    /\ \/ resolved_at' = "exhausted" /\ UNCHANGED decision
       \/ request.web /\ resolved_at' = "web_advisory" /\ decision' = Regrade
       \/ request.web /\ resolved_at' = "raised" /\ UNCHANGED decision
    /\ UNCHANGED <<request, todo, attempted, first, candidate, rewrites_used, executed, inScope>>

\* Writers, while the loop runs.
CorrectiveMove ==
    /\ resolved_at \in {"start", "open"}
    /\ inScope' \in Moved(inScope)
    /\ UNCHANGED <<request, todo, attempted, first, candidate, rewrites_used, resolved_at,
                   decision, executed>>

CorrectiveStep == Initial \/ Expand \/ Skip \/ Rewrite \/ GiveUp
CorrectiveNext == CorrectiveStep \/ CorrectiveMove

CorrectiveSpec == CorrectiveInit /\ [][CorrectiveNext]_cvars /\ WF_cvars(CorrectiveStep)

-----------------------------------------------------------------------------
(* Properties                                                                 *)

\* Every variable holds what the code lets it hold.
CorrectiveTypeOK ==
    /\ request \in Requests
    /\ rewrites_used \in 0 .. MAX_REWRITES
    /\ resolved_at \in {"start", "open", "initial", "rewrite", "exhausted",
                        "web_advisory", "raised"}
    /\ decision \in Finals \cup {None}
    /\ executed \in Nat
    /\ inScope \subseteq Real

\* Every probe carries the caller's action, and still it is carried out at most
\* once, and never by a call whose caller is told anything but "pass" (a leak
\* that the loop finds afterwards raises, and the action was taken).
ActsOnce ==
    /\ executed <= 1
    /\ (executed = 1 /\ resolved_at # "raised") => decision = "pass"
    /\ executed = 1 => request.autonomous

\* The loop as a search.
CorrectiveSearch == INSTANCE Search WITH
    Budget <- MAX_REWRITES + 1,
    asked <- attempted,
    last <- candidate,
    outcome <- IF resolved_at \in {"start", "open"} THEN "open"
               ELSE IF resolved_at = "raised" THEN "stopped"
               ELSE [pass |-> "answered", partial |-> "answered",
                     escalate |-> "handed_over", abstain |-> "gave_up"][decision]

\* The loop keeps what Search promises: it stops at the first reply that is no
\* abstention, and its caller is told truly how it went.
CorrectivePromise == CorrectiveSearch!SearchSafe

=============================================================================

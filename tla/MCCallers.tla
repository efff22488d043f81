------------------------------ MODULE MCCallers ------------------------------
(* Small instances for TLC of what calls serve() in a loop (the planner, the  *)
(* corrective loop, the calibration runs), of what is derived from the graph  *)
(* (communities, mined candidates) and of the scripts that plant nodes in it. *)
(* They share no state, so a scene runs one of them and the variables of the  *)
(* others stay as they are.  What may happen without end (starts, deaths,     *)
(* writers, a judge that changes) happens at most `events` times.             *)
EXTENDS Planner, Corrective, Communities, Judging, Mining, Fixtures

VARIABLES scene, events

\* The question names an entity and a forged key and has a verb between them;
\* one of its parts comes twice, so that the no-op guards have something to skip.
MCKeys == {"a", "b", "f", "x"}
MCReal == {"a", "b"}
MCQuestionIds == <<"a", "x">>
MCObjects == <<"x", "a">>
MCParts == <<"p1", "p1", "p2">>
MCPartIds == [p1 |-> <<"a lower">>, p2 |-> <<>>]
MCFactLists == {<<>>, <<"b">>}
MCProseLists == {<<>>, <<"f", "b">>}

Request(category, autonomous, web) ==
    [category |-> category, reversible |-> TRUE, autonomous |-> autonomous, web |-> web]

MCRequests == {Request("routine", TRUE, FALSE), Request("routine", FALSE, TRUE),
               Request("security", FALSE, TRUE)}

\* An entity of engineering and one that may change hands.
MCEntities == {"a", "b"}
MCNamespaces == {"eng", "fin"}
MCHome == [a |-> {"eng"}, b |-> {"eng", "fin"}]
MCLinks == {<<"a", "b">>}

\* Two prose nodes, a good triple and a bad one.
MCNodes == <<"n1", "n2">>
MCOutputs == {<<"bad", "good">>}

\* Scripts that share their keys, that count what others plant, and others.
MCTogether ==
    {{"planner_demo", "agent_demo"}, {"cycle_selftest", "guard_demo"},
     {"invariant_selftest", "history_selftest"}, {"golden_draft", "as_of_demo"},
     {"ocr_demo", "ocr_selftest"}, {"stamp_demo", "decoy_demo"}}

searchVars == <<request, todo, attempted, first, candidate, rewrites_used, resolved_at,
                decision, executed>>
planVars == <<phase, probe, tried, steps_used, reply, terminated_on>>

MCInit ==
    /\ scene \in {"planner", "corrective", "communities", "judging", "mining", "fixtures"}
    /\ PlannerInit /\ CorrectiveInit /\ CommunitiesInit /\ JudgingInit /\ MiningInit
    /\ FixturesInit
    /\ scene # "corrective" => request = Request("routine", TRUE, FALSE)
    /\ scene # "communities" => \A e \in DOMAIN owner : owner[e] = "none"
    /\ answer = [q \in Questions |-> "text"]
    /\ scene # "judging" => ~results
    /\ scene # "fixtures" => "cto" \in real /\ DOMAIN run = {"planner_demo", "agent_demo"}
    /\ events = CASE scene \in {"judging", "fixtures"} -> 4
                [] scene \in {"communities", "mining"} -> 3
                [] OTHER -> 0

\* An event that may happen without end, and a step that may not.
Event(A) == events > 0 /\ events' = events - 1 /\ A
Going(A) == UNCHANGED events /\ A

Plans ==
    /\ scene = "planner"
    /\ Going(PlannerNext)
    /\ UNCHANGED <<scene, searchVars, gvars, jvars, mvars, fvars>>

Corrects ==
    /\ scene = "corrective"
    /\ Going(CorrectiveNext)
    /\ UNCHANGED <<scene, planVars, gvars, jvars, mvars, fvars>>

Rebuilds ==
    /\ scene = "communities"
    /\ \/ Going(\E b \in Builders : Continues(b))
       \/ Event(Moves \/ \E b \in Builders : Starts(b) \/ Dies(b))
    /\ UNCHANGED <<scene, pvars, searchVars, jvars, mvars, fvars>>

Calibrates ==
    /\ scene = "judging"
    /\ \/ Going(EndCal3 \/ EndCal4 \/ \E w \in Workers : Take(w) \/ Finish(w))
       \/ Event(StartCal3 \/ StartCal4 \/ Die \/ JudgeTurns \/ Reanswer)
    /\ answer'["e"] = answer["e"]
    /\ UNCHANGED <<scene, pvars, searchVars, gvars, mvars, fvars>>

Mines ==
    /\ scene = "mining"
    /\ \/ Going(\E m \in Miners : MinesOn(m))
       \/ Event(\/ \E t \in Good : Propose(t)
                \/ \E m \in Miners : Mine(m) \/ MinerDies(m))
    /\ UNCHANGED <<scene, pvars, searchVars, gvars, jvars, fvars>>

Plants ==
    /\ scene = "fixtures"
    /\ \/ Going(\E s \in Scripts : GoesOn(s))
       \/ Event(Others \/ \E s \in Scripts : BeginScript(s) \/ Accident(s))
    /\ UNCHANGED <<scene, pvars, searchVars, gvars, jvars, mvars>>

MCNext == Plans \/ Corrects \/ Rebuilds \/ Calibrates \/ Mines \/ Plants

mcvars == <<scene, events, pvars, searchVars, gvars, jvars, mvars, fvars>>

\* The loops are plain code: they go on whatever the writers do.
MCSpec ==
    /\ MCInit /\ [][MCNext]_mcvars
    /\ WF_mcvars(Plans /\ PlannerStep)
    /\ WF_mcvars(Corrects /\ CorrectiveStep)

\* Every variable holds what the code lets it hold.
TypeOK ==
    /\ PlannerTypeOK
    /\ CorrectiveTypeOK
    /\ CommunitiesTypeOK
    /\ JudgingTypeOK
    /\ MiningTypeOK
    /\ FixturesTypeOK

\* Both loops come to an end although the graph that they read never rests
\* (corrective.py, "Loop is provably bounded"; planner.py, "Bounded loop").
LoopsEnd ==
    /\ scene = "planner" => PlannerSearch!SearchEnds
    /\ scene = "corrective" => CorrectiveSearch!SearchEnds

=============================================================================

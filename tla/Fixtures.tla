------------------------------- MODULE Fixtures -------------------------------
(* The demos and self-tests that plant nodes of their own in the graph that   *)
(* everybody shares, ask what they came to ask, and remove the nodes.  Each   *)
(* statement commits by itself; some scripts remove what a former run left    *)
(* before they start, some remove their nodes in a `finally`, some count the  *)
(* nodes of the graph before and after.  A read stands for the calls of       *)
(* serve, plan or a monitor that find what was planted, and for the checks on *)
(* their results; a batch that one call ingests is one step.                  *)
EXTENDS Naturals, Sequences, FiniteSets, SequencesExt, FiniteSetsExt

CONSTANT Together   \* sets of scripts that are run beside each other

VARIABLES
    planted,   \* how many planted nodes there are of each key
    real,      \* which of the other keys have a node
    edges,     \* the planted edges
    run,       \* what each script is doing
    abandoned  \* the scripts that may have left nodes behind

fvars == <<planted, real, edges, run, abandoned>>

-----------------------------------------------------------------------------
(* The scripts                                                                *)

\* What was planted before is removed; a read finds everything, or only looks.
Clean == [do |-> "clean"]
Read == [do |-> "read"]
Look == [do |-> "look"]
Count == [do |-> "count"]

\* A node is merged by its key, or created whatever is there; an edge is merged
\* when both its ends exist.
Merged(k) == [do |-> "merge", key |-> k]
Created(k) == [do |-> "create", key |-> k]
Edge(a, b) == [do |-> "edge", edge |-> <<a, b>>]

\* After the steps from `try` on a `finally` removes the nodes; 0 when there is none.
Script(keys, try, steps) == [keys |-> keys, try |-> try, steps |-> steps]

PlannerDemo == Script({"SPI-3", "SPI-6"}, 1,
    <<Clean, Merged("SPI-6"), Merged("SPI-3"), Edge("SPI-3", "SPI-6"), Edge("SPI-3", "cto"), Read>>)

GoldenDraft == Script({"SPI-1", "SPI-2", "SPI-4", "SPI-5"}, 2,
    <<Clean, Merged("SPI-2"), Merged("SPI-1"), Merged("SPI-4"), Merged("SPI-5"), Edge("SPI-2", "cto"),
      Edge("SPI-2", "SPI-1"), Edge("SPI-1", "cto"), Edge("SPI-4", "cfo"), Read>>)

GuardDemo == Script({"stale-node", "control-node"}, 4,
    <<Clean, Created("stale-node"), Created("control-node"), Read>>)

plant_supersession ==
    <<Clean, Merged("probe"), Merged("old"), Merged("new"), Edge("probe", "old"), Edge("probe", "new")>>

\* The fixture is planted before the try.
AsOfDemo == Script({"probe", "old", "new"}, 7, plant_supersession \o <<Read>>)

DecoyDemo == Script({"decoy"}, 4,
    <<Merged("decoy"), Edge("cto", "decoy"), Edge("issue", "decoy"), Look>>)

OcrDemo == Script({"scan"}, 1, <<Clean, Merged("scan"), Read>>)

OcrSelftest == Script({"scan2"}, 0, <<Clean, Merged("scan2"), Read, Clean>>)

StampDemo == Script({"s1", "s2", "leak"}, 0,
    <<Clean, Merged("s1"), Merged("s2"), Merged("leak"), Edge("s1", "leak"), Read, Clean>>)

\* Its row of engram has the number of a row that may be real.
HistorySelftest == Script({"fx1", "obs1"}, 0, <<Clean, Merged("fx1"), Merged("obs1"), Read, Clean>>)

CycleSelftest == Script({"cy"}, 2, <<Count, Created("cy"), Read>>)

InvariantSelftest == Script({"st"}, 2, <<Count, Created("st"), Read>>)

\* The agent's demo uses the functions of the planner's.
Table ==
    [planner_demo |-> PlannerDemo, agent_demo |-> PlannerDemo, golden_draft |-> GoldenDraft,
     guard_demo |-> GuardDemo, as_of_demo |-> AsOfDemo, decoy_demo |-> DecoyDemo,
     ocr_demo |-> OcrDemo, ocr_selftest |-> OcrSelftest, stamp_demo |-> StampDemo,
     history_selftest |-> HistorySelftest, cycle_selftest |-> CycleSelftest,
     invariant_selftest |-> InvariantSelftest]

ASSUME TogetherAssumption == \A S \in Together : S \subseteq DOMAIN Table

Scripts == DOMAIN run
KeysOf(s) == Table[s].keys
PlantedKeys == UNION {KeysOf(s) : s \in Scripts}

\* Keys that others write, of which one may be planted too.
RealKeys == {"cto", "cfo", "issue", "obs1"}

EdgesOf(s) == {x.edge : x \in {y \in ToSet(Table[s].steps) : y.do = "edge"}}

\* The nodes that a script counts on and does not plant.
Needs(s) ==
    IF Look \in ToSet(Table[s].steps) THEN {}
    ELSE RealKeys \cap {e[2] : e \in EdgesOf(s)}

Counts(s) == Count \in ToSet(Table[s].steps)

-----------------------------------------------------------------------------
(* Runs                                                                       *)

NotRun == [at |-> "rest", pc |-> 0, counted |-> 0, found |-> FALSE, ok |-> FALSE,
            failed |-> FALSE, hampered |-> FALSE, disturbed |-> FALSE]

FixturesInit ==
    /\ run \in {[s \in S |-> NotRun] : S \in Together}
    /\ planted = [k \in PlantedKeys |-> 0]
    /\ real \in {RealKeys \ {"obs1"}, RealKeys \ {"cto"}}
    /\ edges = {}
    /\ abandoned = {}

Exists(k) == k \in real \/ (k \in PlantedKeys /\ planted[k] > 0)

\* The nodes of the graph, planted or not.
Copies == UNION {{k} \X (1 .. planted[k]) : k \in DOMAIN planted}
Total == Cardinality(real) + Cardinality(Copies)

\* A script whose nodes, or whose count, somebody else changes.
Touched(s) ==
    \/ \E k \in KeysOf(s) : planted'[k] # planted[k]
    \/ \E k \in Needs(s) \cup KeysOf(s) : (k \in real') # (k \in real)
    \/ Counts(s) /\ Total' # Total

ScriptGoes(s, step) ==
    run' = [t \in Scripts |-> IF t = s THEN step ELSE [run[t] EXCEPT !.disturbed = @ \/ Touched(t)]]

Running(s) == run[s].at \in {"steps", "final", "compare"}

BeginScript(s) ==
    /\ ~Running(s)
    /\ UNCHANGED <<planted, real, edges, abandoned>>
    /\ ScriptGoes(s, [NotRun EXCEPT
           !.at = "steps", !.pc = 1,
           !.hampered = \/ ~(Needs(s) \subseteq real) \/ KeysOf(s) \cap real # {}
                        \/ Counts(s) /\ \E k \in KeysOf(s) : planted[k] > 0])

\* Mutant: a key is missing in the list.
RemovedButOne(s) == KeysOf(s) \ {CHOOSE k \in KeysOf(s) : TRUE}

\* The keys whose nodes the script removes.
Removed(s) == KeysOf(s)

\* DETACH DELETE.
Cleans(s) ==
    LET K == Removed(s)
    IN  /\ planted' = [k \in PlantedKeys |-> IF k \in K THEN 0 ELSE planted[k]]
        /\ edges' = {e \in edges : e[1] \notin K /\ e[2] \notin K}
        /\ abandoned' = {t \in abandoned : ~(KeysOf(t) \subseteq KeysOf(s))}
        /\ UNCHANGED real

\* A statement that writes.
Effect(x) ==
    \/ /\ x.do \in {"merge", "create"}
       /\ planted' = [planted EXCEPT ![x.key] = IF x.do = "create" THEN @ + 1
                                               ELSE IF @ = 0 THEN 1 ELSE @]
       /\ UNCHANGED edges
    \/ /\ x.do = "edge"
       /\ edges' = edges \cup (IF Exists(x.edge[1]) /\ Exists(x.edge[2]) THEN {x.edge} ELSE {})
       /\ UNCHANGED planted
    \/ /\ x.do \in {"read", "look", "count"}
       /\ UNCHANGED <<planted, edges>>

Whole(s) == (\A k \in KeysOf(s) : planted[k] > 0) /\ EdgesOf(s) \subseteq edges

\* A node that belongs to another namespace is not merged, and a read that does
\* not find what was planted raises.
Raises(s, x) ==
    \/ x.do = "merge" /\ x.key \in real
    \/ x.do = "read" /\ ~Whole(s)

\* After the last step comes the `finally`, if there is one.
After(s, r) ==
    IF r.pc < Len(Table[s].steps) THEN [r EXCEPT !.pc = @ + 1]
    ELSE IF Table[s].try > 0 THEN [r EXCEPT !.at = "final"]
    ELSE [r EXCEPT !.at = "ended", !.ok = r.found]

Step(s) ==
    LET x == Table[s].steps[run[s].pc]
        r == [run[s] EXCEPT !.found = @ \/ x.do \in {"read", "look"},
                            !.counted = IF x.do = "count" THEN Total ELSE @]
    IN  /\ run[s].at = "steps"
        /\ ~Raises(s, x)
        /\ IF x.do = "clean" THEN Cleans(s) ELSE Effect(x) /\ UNCHANGED <<real, abandoned>>
        /\ ScriptGoes(s, After(s, r))

\* A statement raises: inside the try that leads to the `finally`.
Leaves(s, failed) ==
    LET caught == Table[s].try > 0 /\ run[s].pc >= Table[s].try
    IN  /\ run[s].at = "steps"
        /\ abandoned' = IF caught THEN abandoned ELSE abandoned \cup {s}
        /\ UNCHANGED <<planted, real, edges>>
        /\ ScriptGoes(s, [run[s] EXCEPT !.at = IF caught THEN "final" ELSE "ended", !.failed = failed])

\* By what it met in the graph, or because the database is gone.
Misses(s) == run[s].at = "steps" /\ Raises(s, Table[s].steps[run[s].pc]) /\ Leaves(s, FALSE)
Fail(s) == Leaves(s, TRUE)

\* The `finally`, and its own failure, which the OCR demo swallows.
Finally(s) ==
    /\ run[s].at = "final"
    /\ Cleans(s)
    /\ ScriptGoes(s, [run[s] EXCEPT !.at = IF Counts(s) /\ run[s].found THEN "compare" ELSE "ended",
                              !.ok = run[s].found /\ ~Counts(s)])

FinallyFails(s) ==
    /\ run[s].at = "final"
    /\ abandoned' = abandoned \cup {s}
    /\ UNCHANGED <<planted, real, edges>>
    /\ ScriptGoes(s, [run[s] EXCEPT !.at = "ended", !.failed = @ \/ s # "ocr_demo",
                              !.ok = run[s].found /\ s = "ocr_demo"])

\* The self-tests count once more.
Compare(s) ==
    /\ run[s].at = "compare"
    /\ UNCHANGED <<planted, real, edges, abandoned>>
    /\ ScriptGoes(s, [run[s] EXCEPT !.at = "ended", !.ok = run[s].found /\ run[s].counted = Total])

ScriptDies(s) ==
    /\ Running(s)
    /\ abandoned' = abandoned \cup {s}
    /\ UNCHANGED <<planted, real, edges>>
    /\ ScriptGoes(s, NotRun)

\* Others create a node, where nothing is planted, or erase one; and etl.py
\* starts from an empty graph.
RealMoves(k) ==
    /\ ~(k \in PlantedKeys /\ planted[k] > 0)
    /\ real' = IF k \in real THEN real \ {k} ELSE real \cup {k}
    /\ edges' = {e \in edges : k \notin {e[1], e[2]}}
    /\ UNCHANGED <<planted, abandoned>>
    /\ ScriptGoes("nobody", NotRun)

WipeAll ==
    /\ planted' = [k \in PlantedKeys |-> 0]
    /\ real' = {} /\ edges' = {} /\ abandoned' = {}
    /\ ScriptGoes("nobody", NotRun)

GoesOn(s) == Step(s) \/ Misses(s) \/ Finally(s) \/ Compare(s)
Accident(s) == Fail(s) \/ FinallyFails(s) \/ ScriptDies(s)
Others == WipeAll \/ \E k \in RealKeys : RealMoves(k)

FixturesNext ==
    \/ \E s \in Scripts : BeginScript(s) \/ GoesOn(s) \/ Accident(s)
    \/ Others

FixturesSpec == FixturesInit /\ [][FixturesNext]_fvars

-----------------------------------------------------------------------------
(* Properties                                                                 *)

\* Every variable holds what the code lets it hold.
FixturesTypeOK ==
    /\ planted \in [PlantedKeys -> Nat]
    /\ real \subseteq RealKeys
    /\ \A e \in edges : Exists(e[1]) /\ Exists(e[2])
    /\ abandoned \subseteq Scripts
    /\ \A s \in Scripts : run[s].at \in {"rest", "steps", "final", "compare", "ended"}

\* Nothing planted outlives the scripts, also when they overlap on the same
\* keys: what is there belongs to a script that runs, or that died or raised
\* where no `finally` follows.  And whatever former runs left, a script that
\* nobody disturbs passes when the database answers ("drop any stale prior
\* fixture first"), unless a node it needs is missing, one it plants is real, or
\* it is a self-test that counts what its own former run left.
FixturesAreTransient ==
    /\ \A k \in PlantedKeys : planted[k] > 0 =>
          \E s \in Scripts : k \in KeysOf(s) /\ (Running(s) \/ s \in abandoned)
    /\ \A s \in Scripts :
          (run[s].at = "ended" /\ ~(run[s].disturbed \/ run[s].hampered)) => run[s].ok \/ run[s].failed

=============================================================================

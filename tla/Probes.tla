-------------------------------- MODULE Probes --------------------------------
(* What corrective.py and planner.py have in common: the probes that can be   *)
(* made from one question, and the reply of serve() to a probe.               *)
(*                                                                            *)
(* A text is what the regular expressions see of it.  The question names some *)
(* entities, has or has not a verb that stands for a relation, and splits     *)
(* into parts.  A key is the name of an entity; a token is a key or its       *)
(* lower-case form, which is what is left of it in a part.                    *)
EXTENDS Gate, Sequences, SequencesExt

CONSTANTS
    Keys,         \* names of entities, real or forged
    Real,         \* those an entity may have
    QuestionIds,  \* the entities the question names, in order
    Objects,      \* the same, those after the verb first; <<>> without a verb
    Parts,        \* the parts of the question, in order
    PartIds,      \* PartIds[p]: the tokens in part p
    FactLists,    \* the lists of edge targets a card may have
    ProseLists,   \* the lists of tokens its prose may have
    Confidences   \* percentages

VARIABLE inScope   \* the entities the caller's role may read now

None == "none"

\* _probe_key: the query, and the object of the pattern (its relation is the verb's).
Probe(text, with, obj) == [text |-> text, with |-> with, obj |-> obj]

TheQuestion == Probe("question", <<>>, None)

Once(s) == FoldLeft(LAMBDA acc, k : IF Contains(acc, k) THEN acc ELSE Append(acc, k), <<>>, s)

\* _extract_ids of a probe's query.
IdsOf(probe) ==
    CASE probe.text = "question" -> Once(QuestionIds \o probe.with)
      [] probe.text = "ids" -> probe.with
      [] probe.text = "" -> <<>>
      [] OTHER -> Once(PartIds[probe.text])

\* "id_extract", the ids alone; nothing when there are none.
IdProbes(probe) ==
    IF IdsOf(probe) = <<>> THEN <<>> ELSE <<Probe("ids", IdsOf(probe), None)>>

\* The structural probes: no query, the verb's relation to each object.
PatternProbes == [i \in 1 .. Len(Objects) |-> Probe("", <<>>, Objects[i])]

\* "decompose": the parts, with the pattern the caller gives.
PartProbes(obj) == [i \in 1 .. Len(Parts) |-> Probe(Parts[i], <<>>, obj)]

\* The targets of the facts, and the tokens of the prose that name an entity in scope.
Seeds(reply, scope) ==
    reply.facts \o SelectSeq(reply.prose, LAMBDA k : k \in scope /\ ~Contains(reply.facts, k))

\* The question with the first three seeds.
HopProbes(reply, scope, obj) ==
    LET seeds == Seeds(reply, scope)
    IN  IF seeds = <<>> THEN <<>>
        ELSE <<Probe("question", SubSeq(seeds, 1, IF Len(seeds) < 3 THEN Len(seeds) ELSE 3), obj)>>

-----------------------------------------------------------------------------
(* serve() as the loops see it                                                *)

\* _support_coverage: how much of what was asked the support reaches, in percent,
\* rounded.  The primary counts when it has a fact; a lower-case token matches no key.
Coverage(q, primary, facts) ==
    LET r == IF facts = <<>> THEN {} ELSE ToSet(facts) \cup {primary}
        n == Cardinality(q)
    IN  IF n = 0 THEN 0 ELSE (200 * Cardinality(q \cap r) + n) \div (2 * n)

\* The early return: nothing was retrieved, whatever the action.
Miss == [retrieved |-> FALSE, stale |-> FALSE, facts |-> <<>>, prose |-> <<>>, clean |-> TRUE,
         sufficiency |-> 0, confidence |-> 0, decision |-> "abstain"]

\* Before the first reply.
NoReply == [Miss EXCEPT !.decision = None]

\* A card that was retrieved: its claims and its coverage are what the gate decides on.
Reply(action, coverage, facts, prose, stale, confidence, clean) ==
    LET claims == IF facts = <<>> THEN {[support_status |-> "UNSUPPORTED", stale |-> FALSE]}
                  ELSE {[support_status |-> "SUPPORTED", stale |-> stale]}
    IN  [retrieved |-> TRUE, stale |-> stale, facts |-> facts, prose |-> prose, clean |-> clean,
         sufficiency |-> coverage, confidence |-> confidence,
         decision |-> stage_a_decision(claims, action, coverage, confidence)]

\* What serve may reply: everything in scope is read at that moment.
Replies(probe, action, scope) ==
    LET q == ToSet(IdsOf(probe))
        cards == {<<f, Coverage(q, k, f)>> :
                    k \in scope, f \in {l \in FactLists : ToSet(l) \subseteq scope}}
    IN  {Miss} \cup
        {Reply(action, c[2], c[1], p, s, conf, ok) :
           c \in cards, p \in ProseLists, s \in BOOLEAN, conf \in Confidences, ok \in BOOLEAN}

\* Writers create an entity, erase it or give it to another namespace.
Moved(scope) == {(scope \cup {k}) : k \in Real} \cup {(scope \ {k}) : k \in Real}

=============================================================================

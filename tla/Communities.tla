------------------------------ MODULE Communities ------------------------------
(* Derived communities (01-context/src/communities.py, summarize_adapter.py)  *)
(* and how serve() shows them.  A rebuild of a namespace is a script whose    *)
(* statements commit one by one: it reads the entities, wipes the old         *)
(* communities, and writes the new ones, member by member, each with an       *)
(* optional summary that a program outside makes of the members' texts.       *)
(* Communities are numbered from 0 in the order in which Leiden yields them,  *)
(* so a number means something else after the next rebuild.                   *)
EXTENDS Naturals, Sequences, FiniteSets, SequencesExt

CONSTANTS
    Entities,    \* keys
    Namespaces,
    Home,        \* the namespaces that may create each entity
    Links,       \* the pairs of entities that current facts connect
    Builders     \* scripts that may run at the same time

Nobody == "none"

ASSUME HomesAssumption ==
    /\ IsFiniteSet(Entities)
    /\ Home \in [Entities -> SUBSET Namespaces]
    /\ \A e \in Entities : IsFiniteSet(Home[e])
    /\ Nobody \notin Namespaces \cup Builders

VARIABLES
    owner,      \* the namespace of each entity, or Nobody when there is no such entity
    community,  \* of each <<ns, number>> what its node holds, or Gone
    member,     \* the memberships, <<entity, ns, number>>; the edge carries ns
    ckpt,       \* the summaries in the checkpoint file, by <<ns, number>>
    build       \* what each script is doing

gvars == <<owner, community, member, ckpt, build>>

Numbers == 0 .. Cardinality(Entities) - 1
Communities == Namespaces \X Numbers

\* A text is the entity it tells of and the namespace that wrote it.
Text(e) == <<e, owner[e]>>

Gone == [exists |-> FALSE, summary |-> {}]
Bare == [exists |-> TRUE, summary |-> {}]

\* A script that does nothing; disturbed tells that the namespace was written
\* by somebody else since the rebuild began.
Resting == [at |-> "rest", ns |-> Nobody, read |-> {}, todo |-> <<>>, number |-> 0,
            left |-> {}, texts |-> {}, summarize |-> FALSE, disturbed |-> FALSE]

CommunitiesInit ==
    /\ owner \in [Entities -> Namespaces \cup {Nobody}]
    /\ \A e \in Entities : owner[e] \in Home[e] \cup {Nobody}
    /\ community = [c \in Communities |-> Gone]
    /\ member = {}
    /\ ckpt = [c \in Communities |-> {}]
    /\ build = [b \in Builders |-> Resting]

Of(ns) == {e \in Entities : owner[e] = ns}

\* Whoever writes to ns disturbs the rebuilds of it by the others.
Disturbing(nss, b) ==
    [a \in Builders |-> IF a # b /\ build[a].ns \in nss
                        THEN [build[a] EXCEPT !.disturbed = TRUE] ELSE build[a]]

At(b, place) == build[b].at = place
Current(b) == <<build[b].ns, build[b].number>>
Goes(b, step) == build' = [Disturbing({build[b].ns}, b) EXCEPT ![b] = step]

\* The first read: the ends of the facts inside the namespace.
ReadFacts(b, ns, summarize) ==
    /\ At(b, "rest") \/ At(b, "done")
    /\ build' = [build EXCEPT ![b] =
           [Resting EXCEPT !.at = "facts", !.ns = ns, !.summarize = summarize,
                           !.read = {e \in Of(ns) : \E f \in Of(ns) : <<e, f>> \in Links \/ <<f, e>> \in Links},
                           !.disturbed = \E a \in Builders \ {b} : build[a].ns = ns /\ ~At(a, "done")]]
    /\ UNCHANGED <<owner, community, member, ckpt>>

\* The partitions of a set, in any order: Leiden's is one of them.
Partitions(S) ==
    {p \in UNION {[1 .. n -> (SUBSET S) \ {{}}] : n \in 1 .. Cardinality(S)} :
        /\ UNION ToSet(p) = S
        /\ \A i, j \in DOMAIN p : i # j => p[i] \cap p[j] = {}}

\* The second read adds the entities without a fact; then the communities are
\* found.  An empty namespace is left as it is.
ReadNodes(b) ==
    /\ At(b, "facts")
    /\ LET nodes == build[b].read \cup Of(build[b].ns)
       IN  IF nodes = {} THEN Goes(b, [build[b] EXCEPT !.at = "done"])
           ELSE \E p \in Partitions(nodes) :
                    Goes(b, [build[b] EXCEPT !.at = "wipe", !.read = {}, !.todo = p])
    /\ UNCHANGED <<owner, community, member, ckpt>>

\* Mutant: only communities without members are wiped.
WipedGhosts(ns) == {c \in Communities : c[1] = ns /\ \A m \in member : <<m[2], m[3]>> # c}

\* _delete_ns_communities: by the namespace and by the key.
Wiped(ns) == {c \in Communities : c[1] = ns}

Wipe(b) ==
    /\ At(b, "wipe")
    /\ LET w == Wiped(build[b].ns)
       IN  /\ community' = [c \in Communities |-> IF c \in w THEN Gone ELSE community[c]]
           /\ member' = {m \in member : <<m[2], m[3]>> \notin w}
    /\ Goes(b, [build[b] EXCEPT !.at = "node"])
    /\ UNCHANGED <<owner, ckpt>>

\* The node of the next community.
WriteNode(b) ==
    /\ At(b, "node")
    /\ IF build[b].todo = <<>>
       THEN Goes(b, [build[b] EXCEPT !.at = "done"]) /\ UNCHANGED community
       ELSE /\ community' = [community EXCEPT ![Current(b)].exists = TRUE]
            /\ Goes(b, [build[b] EXCEPT !.at = "members", !.left = Head(build[b].todo)])
    /\ UNCHANGED <<owner, member, ckpt>>

\* One member; the entity is matched by its key alone.
WriteMember(b, e) ==
    /\ At(b, "members") /\ e \in build[b].left
    /\ member' = IF owner[e] # Nobody /\ community[Current(b)].exists
                 THEN member \cup {<<e, build[b].ns, build[b].number>>} ELSE member
    /\ LET left == build[b].left \ {e}
       IN  Goes(b, [build[b] EXCEPT !.left = IF left = {} /\ build[b].summarize
                                             THEN Head(build[b].todo) ELSE left,
                                    !.at = IF left # {} THEN "members"
                                           ELSE IF build[b].summarize THEN "gather" ELSE "next"])
    /\ UNCHANGED <<owner, community, ckpt>>

\* The text of one member, again by its key alone.
Gather(b, e) ==
    /\ At(b, "gather") /\ e \in build[b].left
    /\ Goes(b, [build[b] EXCEPT !.left = build[b].left \ {e},
                                !.texts = IF owner[e] = Nobody THEN @ ELSE @ \cup {Text(e)},
                                !.at = IF build[b].left = {e} THEN "call" ELSE "gather"])
    /\ UNCHANGED <<owner, community, member, ckpt>>

\* Mutant: the checkpoint knows a community by its number.
ResumedByNumber(c) == UNION {ckpt[d] : d \in {x \in Communities : x[2] = c[2]}}

\* What the checkpoint holds for a community of that namespace and number.
Resumed(c) == ckpt[c]

\* summarize: the checkpoint, or the program; when it fails twice or asks for
\* money the script ends.
Summarize(b) ==
    /\ At(b, "call")
    /\ \/ /\ Resumed(Current(b)) # {}
          /\ Goes(b, [build[b] EXCEPT !.at = "summary", !.texts = Resumed(Current(b))])
          /\ UNCHANGED ckpt
       \/ /\ Resumed(Current(b)) = {}
          /\ ckpt' = [ckpt EXCEPT ![Current(b)] = build[b].texts]
          /\ Goes(b, [build[b] EXCEPT !.at = "summary"])
       \/ /\ Resumed(Current(b)) = {}
          /\ Goes(b, Resting)
          /\ UNCHANGED ckpt
    /\ UNCHANGED <<owner, community, member>>

WriteSummary(b) ==
    /\ At(b, "summary")
    /\ community' = IF community[Current(b)].exists
                    THEN [community EXCEPT ![Current(b)].summary = build[b].texts] ELSE community
    /\ Goes(b, [build[b] EXCEPT !.at = "next", !.texts = {}])
    /\ UNCHANGED <<owner, member, ckpt>>

Advance(b) ==
    /\ At(b, "next")
    /\ Goes(b, [build[b] EXCEPT !.at = "node", !.todo = Tail(@), !.number = @ + 1])
    /\ UNCHANGED <<owner, community, member, ckpt>>

\* The script dies between two statements.
Dies(b) ==
    /\ ~At(b, "rest") /\ ~At(b, "done")
    /\ Goes(b, Resting)
    /\ UNCHANGED <<owner, community, member, ckpt>>

\* An entity is erased, with its memberships, or created.
Erase(e) ==
    /\ owner[e] # Nobody
    /\ owner' = [owner EXCEPT ![e] = Nobody]
    /\ member' = {m \in member : m[1] # e}
    /\ build' = Disturbing({owner[e]}, Nobody)
    /\ UNCHANGED <<community, ckpt>>

Create(e, ns) ==
    /\ owner[e] = Nobody /\ ns \in Home[e]
    /\ owner' = [owner EXCEPT ![e] = ns]
    /\ build' = Disturbing({ns}, Nobody)
    /\ UNCHANGED <<community, member, ckpt>>

Starts(b) == \E ns \in Namespaces, summarize \in BOOLEAN : ReadFacts(b, ns, summarize)

Continues(b) ==
    \/ ReadNodes(b) \/ Wipe(b) \/ WriteNode(b)
    \/ \E e \in Entities : WriteMember(b, e) \/ Gather(b, e)
    \/ Summarize(b) \/ WriteSummary(b) \/ Advance(b)

Moves == \E e \in Entities : Erase(e) \/ \E ns \in Namespaces : Create(e, ns)

CommunitiesNext ==
    \/ \E b \in Builders : Starts(b) \/ Continues(b) \/ Dies(b)
    \/ Moves

CommunitiesSpec == CommunitiesInit /\ [][CommunitiesNext]_gvars

-----------------------------------------------------------------------------
(* Readers                                                                    *)

MembersOf(c) == {m[1] : m \in {x \in member : <<x[2], x[3]>> = c}}

\* assert_no_cross_namespace_community: no member, or one of another namespace.
Suspect(c) ==
    /\ community[c].exists
    /\ MembersOf(c) = {} \/ \E e \in MembersOf(c) : owner[e] # c[1]

\* COMMUNITY_Q: what a role is shown of the communities its hits are in.
Shown(keys, allowed) ==
    {[id |-> c, summary |-> community[c].summary,
      member_keys |-> {e \in MembersOf(c) : owner[e] \in allowed}] :
       c \in {x \in Communities : x[1] \in allowed /\ MembersOf(x) \cap keys # {}}}

-----------------------------------------------------------------------------
(* Properties                                                                 *)

\* Every variable holds what the code lets it hold.
CommunitiesTypeOK ==
    /\ owner \in [Entities -> Namespaces \cup {Nobody}]
    /\ member \subseteq Entities \X Namespaces \X Numbers
    /\ \A m \in member : owner[m[1]] # Nobody /\ community[<<m[2], m[3]>>].exists
    /\ \A c \in Communities : community[c].summary \cup ckpt[c] \subseteq Entities \X Namespaces

\* Whatever was left by scripts that died or overlapped, a rebuild that nobody
\* disturbs puts every entity of the namespace in exactly one community and
\* leaves nothing to report (communities.py, "full rebuild (idempotent)").
\* Of an emptied namespace that is not true: it is not wiped.
QuietRebuildCovers ==
    \A b \in Builders :
        (At(b, "done") /\ ~build[b].disturbed /\ Of(build[b].ns) # {}) =>
            /\ \A e \in Of(build[b].ns) :
                  Cardinality({m \in member : m[1] = e /\ m[2] = build[b].ns}) = 1
            /\ \A c \in Communities : c[1] = build[b].ns => ~Suspect(c)

\* A role is shown no summary that tells of an entity outside its slice, resumed
\* or not, whatever number a community has today; but for an entity that may
\* change hands, whose text is read by key after the members were chosen
\* (summarize_adapter.py, "adapter never sees another namespace").
SummaryStaysHome ==
    \A allowed \in SUBSET Namespaces : \A s \in Shown(Entities, allowed) :
        \A t \in s.summary : t[2] \notin allowed => Cardinality(Home[t[1]]) > 1

=============================================================================

--------------------------- MODULE CommunitiesProofs ---------------------------
(* What a role is shown of summaries, whatever scripts overlap, die and resume *)
(* and however entities come and go: a proof of SummaryStaysHome for           *)
(* Communities.  The program outside makes a summary of the texts it is given, *)
(* so the argument follows the texts: an entity gets into a community only     *)
(* while it is in the namespace, and its text is one that a home of it wrote.  *)
(* And a proof that a rebuild nobody disturbs covers its namespace: at every   *)
(* place of it, what is pending and what has an entry are a partition of it.   *)
EXTENDS Communities, FiniteSetTheorems, TLAPS

Steps == {"rest", "facts", "wipe", "node", "members", "gather", "call", "summary", "next", "done"}

\* The places where a community of the list is being written.
Telling == {"members", "gather", "call", "summary", "next"}

Build ==
    [at : Steps, ns : Namespaces \cup {Nobody}, read : SUBSET Entities, todo : Seq(SUBSET Entities),
     number : Nat, left : SUBSET Entities, texts : SUBSET (Entities \X Namespaces),
     summarize : BOOLEAN, disturbed : BOOLEAN]

\* Entities that may be in ns, and texts of such entities.
Local(ns, S) == \A e \in S : ns \in Home[e]
LocalTexts(ns, T) == \A t \in T : ns \in Home[t[1]] /\ t[2] \in Home[t[1]]

\* A rebuild has seen nothing but entities of its namespace, and has a number
\* for each of its communities.
SoundBuild(j) ==
    /\ j \in Build
    /\ j.at # "rest" => j.ns \in Namespaces
    /\ Local(j.ns, j.read) /\ Local(j.ns, j.left) /\ LocalTexts(j.ns, j.texts)
    /\ \A i \in DOMAIN j.todo : Local(j.ns, j.todo[i])
    /\ j.number + Len(j.todo) <= Cardinality(Entities)
    /\ j.at = "facts" => j.number = 0
    /\ j.at \in Telling => j.todo # <<>>

AtHome ==
    /\ owner \in [Entities -> Namespaces \cup {Nobody}]
    /\ \A e \in Entities : owner[e] \in Home[e] \cup {Nobody}

\* The texts that communities and the checkpoint hold.
Holding ==
    /\ community \in [Communities -> [exists : BOOLEAN, summary : SUBSET (Entities \X Namespaces)]]
    /\ ckpt \in [Communities -> SUBSET (Entities \X Namespaces)]
    /\ \A c \in Communities : /\ LocalTexts(c[1], community[c].summary)
                              /\ LocalTexts(c[1], ckpt[c])

Builds == build = [b \in Builders |-> build[b]] /\ \A b \in Builders : SoundBuild(build[b])

Inv == AtHome /\ Holding /\ Builds

LEMMA RestingSound == SoundBuild(Resting)
<1>1. Cardinality(Entities) \in Nat
  BY FS_CardinalityType, HomesAssumption
<1>2. Resting \in Build
  BY DEF Resting, Build, Steps
<1> QED
  BY <1>1, <1>2 DEF Resting, SoundBuild, Local, LocalTexts, Telling

\* To be disturbed changes nothing of this.
LEMMA DisturbedSound ==
    ASSUME NEW j, SoundBuild(j)
    PROVE  SoundBuild([j EXCEPT !.disturbed = TRUE])
<1> DEFINE d == [j EXCEPT !.disturbed = TRUE]
<1>1. /\ d \in Build
      /\ d.at = j.at /\ d.ns = j.ns /\ d.read = j.read /\ d.todo = j.todo
      /\ d.number = j.number /\ d.left = j.left /\ d.texts = j.texts
  BY DEF SoundBuild, Build
<1> HIDE DEF d
<1>2. SoundBuild(d)
  BY <1>1 DEF SoundBuild
<1> QED
  BY <1>2 DEF d

LEMMA DisturbingSound ==
    ASSUME Builds, NEW nss, NEW b, NEW a \in Builders
    PROVE  SoundBuild(Disturbing(nss, b)[a])
BY DisturbedSound DEF Builds, Disturbing

\* A step of b that leaves its own rebuild sound leaves all of them sound.
LEMMA GoesSound ==
    ASSUME Builds, NEW b \in Builders, NEW step, Goes(b, step), SoundBuild(step)
    PROVE  Builds'
<1>1. \A a \in Builders : build'[a] = IF a = b THEN step ELSE Disturbing({build[b].ns}, b)[a]
  BY DEF Goes, Disturbing
<1>2. build' = [a \in Builders |-> build'[a]]
  BY DEF Goes, Disturbing
<1> QED
  BY <1>1, <1>2, DisturbingSound DEF Builds

\* The community that is being written has a number.
LEMMA CurrentIs ==
    ASSUME Builds, NEW b \in Builders, build[b].at \in Telling
    PROVE  Current(b) \in Communities /\ Current(b)[1] = build[b].ns
<1>1. /\ build[b].ns \in Namespaces /\ build[b].number \in Nat
      /\ build[b].todo \in Seq(SUBSET Entities) /\ build[b].todo # <<>>
      /\ build[b].number + Len(build[b].todo) <= Cardinality(Entities)
  BY DEF Builds, SoundBuild, Build, Telling
<1>2. Cardinality(Entities) \in Nat
  BY FS_CardinalityType, HomesAssumption
<1>3. build[b].number \in Numbers
  BY <1>1, <1>2 DEF Numbers
<1> QED
  BY <1>1, <1>3 DEF Current, Communities

LEMMA InitInv == ASSUME CommunitiesInit PROVE Inv
<1>1. AtHome
  BY DEF CommunitiesInit, AtHome
<1>2. Holding
  BY DEF CommunitiesInit, Holding, Gone, LocalTexts
<1>3. Builds
  BY RestingSound DEF CommunitiesInit, Builds
<1> QED
  BY <1>1, <1>2, <1>3 DEF Inv

\* Who owns an entity now may.
LEMMA OfLocal ==
    ASSUME AtHome, NEW ns \in Namespaces
    PROVE  Of(ns) \subseteq Entities /\ Local(ns, Of(ns))
BY HomesAssumption DEF AtHome, Of, Local

LEMMA ReadFactsInv ==
    ASSUME Inv, NEW b \in Builders, NEW ns \in Namespaces, NEW summarize \in BOOLEAN,
           ReadFacts(b, ns, summarize)
    PROVE  Inv'
<1>1. PICK r \in SUBSET Of(ns), d \in BOOLEAN :
          build' = [build EXCEPT ![b] = [Resting EXCEPT !.at = "facts", !.ns = ns,
                       !.summarize = summarize, !.read = r, !.disturbed = d]]
  BY DEF ReadFacts
<1> DEFINE j == [Resting EXCEPT !.at = "facts", !.ns = ns,
                       !.summarize = summarize, !.read = r, !.disturbed = d]
<1>2. r \subseteq Entities /\ Local(ns, r)
  BY OfLocal DEF Inv, Local
<1>3. Cardinality(Entities) \in Nat
  BY FS_CardinalityType, HomesAssumption
<1>4. /\ j \in Build /\ j.at = "facts" /\ j.ns = ns /\ j.read = r /\ j.todo = <<>>
      /\ j.number = 0 /\ j.left = {} /\ j.texts = {}
  <2>1. /\ Resting \in Build /\ Resting.todo = <<>> /\ Resting.number = 0
        /\ Resting.left = {} /\ Resting.texts = {}
    BY DEF Resting, Build, Steps
  <2> QED
    BY <1>2, <2>1 DEF Build, Steps
<1> HIDE DEF j
<1>6. SoundBuild(j)
  BY <1>2, <1>3, <1>4 DEF SoundBuild, Local, LocalTexts, Telling
<1>5. Builds'
  BY <1>1, <1>6 DEF Inv, Builds, j
<1> QED
  BY <1>5 DEF ReadFacts, Inv, AtHome, Holding

\* A partition has at most as many parts as there are entities.
LEMMA PartitionsAre ==
    ASSUME NEW S, S \subseteq Entities, NEW p \in Partitions(S)
    PROVE  /\ p \in Seq(SUBSET Entities)
           /\ Len(p) <= Cardinality(Entities)
           /\ \A i \in DOMAIN p : p[i] \subseteq S
<1>1. IsFiniteSet(S) /\ Cardinality(S) <= Cardinality(Entities)
  BY FS_Subset, HomesAssumption
<1>2. Cardinality(S) \in Nat /\ Cardinality(Entities) \in Nat
  BY <1>1, FS_CardinalityType, HomesAssumption
<1>3. PICK n \in 1 .. Cardinality(S) : p \in [1 .. n -> (SUBSET S) \ {{}}]
  BY DEF Partitions
<1>4. n \in Nat /\ Len(p) = n /\ DOMAIN p = 1 .. n
  BY <1>2, <1>3
<1> QED
  BY <1>1, <1>2, <1>3, <1>4

LEMMA ReadNodesInv ==
    ASSUME Inv, NEW b \in Builders, ReadNodes(b)
    PROVE  Inv'
<1> DEFINE j == build[b]
           nodes == j.read \cup Of(j.ns)
<1>1. SoundBuild(j) /\ j.at = "facts" /\ j.ns \in Namespaces
  BY DEF ReadNodes, At, Inv, Builds, SoundBuild
<1>2. nodes \subseteq Entities /\ Local(j.ns, nodes)
  BY <1>1, OfLocal DEF Inv, SoundBuild, Build, Local
<1>3. CASE Goes(b, [j EXCEPT !.at = "done"])
  <2>1. SoundBuild([j EXCEPT !.at = "done"])
    BY <1>1 DEF SoundBuild, Build, Steps, Telling
  <2> QED
    BY <2>1, <1>3, GoesSound DEF ReadNodes, Inv, AtHome, Holding
<1>4. ASSUME NEW p \in Partitions(nodes), Goes(b, [j EXCEPT !.at = "wipe", !.read = {}, !.todo = p])
      PROVE  Inv'
  <2>1. /\ p \in Seq(SUBSET Entities) /\ Len(p) <= Cardinality(Entities)
        /\ \A i \in DOMAIN p : Local(j.ns, p[i])
    BY <1>2, PartitionsAre DEF Local
  <2> DEFINE k == [j EXCEPT !.at = "wipe", !.read = {}, !.todo = p]
  <2>2. /\ k \in Build /\ k.at = "wipe" /\ k.ns = j.ns /\ k.read = {} /\ k.todo = p
        /\ k.number = j.number /\ k.left = j.left /\ k.texts = j.texts
    BY <1>1, <2>1 DEF SoundBuild, Build, Steps
  <2> HIDE DEF k
  <2>3. SoundBuild(k)
    BY <1>1, <2>1, <2>2 DEF SoundBuild, Local, Telling, Build
  <2> QED
    BY <2>3, <1>4, GoesSound DEF ReadNodes, Inv, AtHome, Holding, k
<1> QED
  BY <1>3, <1>4 DEF ReadNodes

LEMMA WipeInv ==
    ASSUME Inv, NEW b \in Builders, Wipe(b)
    PROVE  Inv'
<1>1. SoundBuild(build[b]) /\ build[b].at = "wipe"
  BY DEF Wipe, At, Inv, Builds
<1>2. SoundBuild([build[b] EXCEPT !.at = "node"])
  BY <1>1 DEF SoundBuild, Build, Steps, Telling
<1>3. Builds'
  BY <1>2, GoesSound DEF Wipe, Inv
<1>4. Holding'
  BY DEF Wipe, Inv, Holding, Gone, LocalTexts
<1> QED
  BY <1>3, <1>4 DEF Wipe, Inv, AtHome

LEMMA WriteNodeInv ==
    ASSUME Inv, NEW b \in Builders, WriteNode(b)
    PROVE  Inv'
<1> DEFINE j == build[b]
<1>1. SoundBuild(j) /\ j.at = "node"
  BY DEF WriteNode, At, Inv, Builds
<1>2. CASE j.todo = <<>>
  <2>1. SoundBuild([j EXCEPT !.at = "done"])
    BY <1>1 DEF SoundBuild, Build, Steps, Telling
  <2> QED
    BY <2>1, <1>2, GoesSound DEF WriteNode, Inv, AtHome, Holding
<1>3. CASE j.todo # <<>>
  <2> DEFINE k == [j EXCEPT !.at = "members", !.left = Head(j.todo)]
  <2>1. Head(j.todo) \in SUBSET Entities /\ Local(j.ns, Head(j.todo))
    BY <1>1, <1>3 DEF SoundBuild, Build
  <2>2. /\ k \in Build /\ k.at = "members" /\ k.ns = j.ns /\ k.read = j.read /\ k.todo = j.todo
        /\ k.number = j.number /\ k.left = Head(j.todo) /\ k.texts = j.texts
    BY <1>1, <2>1 DEF SoundBuild, Build, Steps
  <2> HIDE DEF k
  <2>3. SoundBuild(k)
    BY <1>1, <1>3, <2>1, <2>2 DEF SoundBuild
  <2>4. Builds'
    BY <1>3, <2>3, GoesSound DEF WriteNode, Inv, k
  <2>5. community' = [community EXCEPT ![Current(b)].exists = TRUE] /\ UNCHANGED ckpt
    BY <1>3 DEF WriteNode
  <2>6. Holding'
    <3>1. \A c \in Communities : community[c] \in [exists : BOOLEAN, summary : SUBSET (Entities \X Namespaces)]
      BY DEF Inv, Holding
    <3>2. /\ community' = [c \in Communities |-> community'[c]]
          /\ \A c \in Communities : /\ community'[c].summary = community[c].summary
                                    /\ community'[c] \in [exists : BOOLEAN, summary : SUBSET (Entities \X Namespaces)]
      BY <2>5, <3>1 DEF Inv, Holding
    <3> QED
      BY <2>5, <3>2 DEF Inv, Holding
  <2> QED
    BY <2>4, <2>6 DEF WriteNode, Inv, AtHome
<1> QED
  BY <1>2, <1>3

LEMMA WriteMemberInv ==
    ASSUME Inv, NEW b \in Builders, NEW e \in Entities, WriteMember(b, e)
    PROVE  Inv'
<1> DEFINE j == build[b]
<1>1. SoundBuild(j) /\ j.at = "members"
  BY DEF WriteMember, At, Inv, Builds
<1> DEFINE rest == j.left \ {e}
           l == IF rest = {} /\ j.summarize THEN Head(j.todo) ELSE rest
           at == IF rest # {} THEN "members" ELSE IF j.summarize THEN "gather" ELSE "next"
           k == [j EXCEPT !.left = l, !.at = at]
<1>7. Goes(b, k)
  BY DEF WriteMember
<1>2. /\ l \in {j.left \ {e}, Head(j.todo)}
      /\ at \in {"members", "gather", "next"}
  OBVIOUS
<1> HIDE DEF l, at
<1>3. l \in SUBSET Entities /\ Local(j.ns, l)
  <2>1. j.todo \in Seq(SUBSET Entities) /\ j.todo # <<>>
    BY <1>1 DEF SoundBuild, Build, Telling
  <2>2. Head(j.todo) \in SUBSET Entities /\ Local(j.ns, Head(j.todo))
    BY <1>1, <2>1 DEF SoundBuild
  <2>3. j.left \ {e} \in SUBSET Entities /\ Local(j.ns, j.left \ {e})
    BY <1>1 DEF SoundBuild, Build, Local
  <2> QED
    BY <1>2, <2>2, <2>3
<1>4. /\ k \in Build /\ k.at = at /\ k.ns = j.ns /\ k.read = j.read /\ k.todo = j.todo
      /\ k.number = j.number /\ k.left = l /\ k.texts = j.texts
  BY <1>1, <1>2, <1>3 DEF SoundBuild, Build, Steps
<1> HIDE DEF k
<1>5. SoundBuild(k)
  BY <1>1, <1>2, <1>3, <1>4 DEF SoundBuild, Telling
<1>6. Builds'
  BY <1>7, <1>5, GoesSound DEF Inv
<1> QED
  BY <1>6 DEF WriteMember, Inv, AtHome, Holding

\* A text that is gathered is that of a home, of an entity of the namespace.
LEMMA GatherInv ==
    ASSUME Inv, NEW b \in Builders, NEW e \in Entities, Gather(b, e)
    PROVE  Inv'
<1> DEFINE j == build[b]
<1>1. SoundBuild(j) /\ j.at = "gather" /\ e \in j.left
  BY DEF Gather, At, Inv, Builds
<1>2. PICK T, at : /\ T = IF owner[e] = Nobody THEN j.texts ELSE j.texts \cup {Text(e)}
                   /\ at \in {"call", "gather"}
                   /\ Goes(b, [j EXCEPT !.left = j.left \ {e}, !.texts = T, !.at = at])
  <2>1. j = [j EXCEPT !.texts = j.texts]
    BY <1>1 DEF SoundBuild, Build
  <2> QED
    BY <1>1, <2>1 DEF Gather, SoundBuild, Build
<1> DEFINE k == [j EXCEPT !.left = j.left \ {e}, !.texts = T, !.at = at]
<1>3. T \in SUBSET (Entities \X Namespaces) /\ LocalTexts(j.ns, T)
  <2>1. j.texts \in SUBSET (Entities \X Namespaces) /\ LocalTexts(j.ns, j.texts)
    BY <1>1 DEF SoundBuild, Build
  <2>2. CASE owner[e] = Nobody
    BY <1>2, <2>1, <2>2
  <2>3. CASE owner[e] # Nobody
    <3>1. j.ns \in Home[e] /\ owner[e] \in Home[e] /\ owner[e] \in Namespaces
      BY <1>1, <2>3 DEF SoundBuild, Local, Inv, AtHome
    <3>2. Text(e) \in Entities \X Namespaces /\ Text(e)[1] = e /\ Text(e)[2] = owner[e]
      BY <3>1 DEF Text
    <3> QED
      BY <1>2, <2>1, <2>3, <3>1, <3>2 DEF LocalTexts
  <2> QED
    BY <2>2, <2>3
<1>4. /\ k \in Build /\ k.at = at /\ k.ns = j.ns /\ k.read = j.read /\ k.todo = j.todo
      /\ k.number = j.number /\ k.left = j.left \ {e} /\ k.texts = T
  BY <1>1, <1>2, <1>3 DEF SoundBuild, Build, Steps
<1> HIDE DEF k
<1>5. Local(j.ns, j.left \ {e})
  BY <1>1 DEF SoundBuild, Local
<1>6. SoundBuild(k)
  BY <1>1, <1>2, <1>3, <1>4, <1>5 DEF SoundBuild, Telling
<1>7. Builds'
  BY <1>2, <1>6, GoesSound DEF Inv, k
<1> QED
  BY <1>7 DEF Gather, Inv, AtHome, Holding

\* What is resumed was made for a community of the same namespace.
LEMMA SummarizeInv ==
    ASSUME Inv, NEW b \in Builders, Summarize(b)
    PROVE  Inv'
<1> DEFINE j == build[b]
           c == Current(b)
<1>1. SoundBuild(j) /\ j.at = "call"
  BY DEF Summarize, At, Inv, Builds
<1>2. c \in Communities /\ c[1] = j.ns
  BY <1>1, CurrentIs DEF Inv, Telling
<1>3. j.texts \in SUBSET (Entities \X Namespaces) /\ LocalTexts(j.ns, j.texts)
  BY <1>1 DEF SoundBuild, Build
<1>4. ckpt[c] \in SUBSET (Entities \X Namespaces) /\ LocalTexts(j.ns, ckpt[c])
  BY <1>2 DEF Inv, Holding
<1> HIDE DEF c
<1>5. ASSUME NEW T \in SUBSET (Entities \X Namespaces), LocalTexts(j.ns, T)
      PROVE  SoundBuild([j EXCEPT !.at = "summary", !.texts = T])
  <2> DEFINE k == [j EXCEPT !.at = "summary", !.texts = T]
  <2>1. /\ k \in Build /\ k.at = "summary" /\ k.ns = j.ns /\ k.read = j.read /\ k.todo = j.todo
        /\ k.number = j.number /\ k.left = j.left /\ k.texts = T
    BY <1>1, <1>5 DEF SoundBuild, Build, Steps
  <2> HIDE DEF k
  <2>2. SoundBuild(k)
    BY <1>1, <1>5, <2>1 DEF SoundBuild, Telling
  <2> QED
    BY <2>2 DEF k
<1>6. j = [j EXCEPT !.texts = j.texts]
  BY <1>1 DEF SoundBuild, Build
<1>7. CASE Goes(b, [j EXCEPT !.at = "summary", !.texts = ckpt[c]]) /\ UNCHANGED ckpt
  <2>1. Builds'
    BY <1>4, <1>5, <1>7, GoesSound DEF Inv
  <2> QED
    BY <2>1, <1>7 DEF Summarize, Inv, AtHome, Holding
<1>8. CASE /\ ckpt' = [ckpt EXCEPT ![c] = j.texts]
           /\ Goes(b, [j EXCEPT !.at = "summary"])
  <2>1. [j EXCEPT !.at = "summary"] = [j EXCEPT !.at = "summary", !.texts = j.texts]
    BY <1>1 DEF SoundBuild, Build
  <2>2. Builds'
    BY <1>3, <1>5, <1>8, <2>1, GoesSound DEF Inv
  <2>3. Holding'
    BY <1>2, <1>3, <1>8 DEF Summarize, Inv, Holding
  <2> QED
    BY <2>2, <2>3 DEF Summarize, Inv, AtHome
<1>9. CASE Goes(b, Resting) /\ UNCHANGED ckpt
  BY <1>9, RestingSound, GoesSound DEF Summarize, Inv, AtHome, Holding
<1> QED
  BY <1>7, <1>8, <1>9 DEF Summarize, Resumed, c

LEMMA WriteSummaryInv ==
    ASSUME Inv, NEW b \in Builders, WriteSummary(b)
    PROVE  Inv'
<1> DEFINE j == build[b]
           c == Current(b)
           k == [j EXCEPT !.at = "next", !.texts = {}]
<1>1. SoundBuild(j) /\ j.at = "summary"
  BY DEF WriteSummary, At, Inv, Builds
<1>2. c \in Communities /\ c[1] = j.ns
  BY <1>1, CurrentIs DEF Inv, Telling
<1>3. j.texts \in SUBSET (Entities \X Namespaces) /\ LocalTexts(j.ns, j.texts)
  BY <1>1 DEF SoundBuild, Build
<1>4. /\ k \in Build /\ k.at = "next" /\ k.ns = j.ns /\ k.read = j.read /\ k.todo = j.todo
      /\ k.number = j.number /\ k.left = j.left /\ k.texts = {}
  BY <1>1 DEF SoundBuild, Build, Steps
<1>5. Goes(b, k)
  BY DEF WriteSummary
<1>6. community' = IF community[c].exists
                   THEN [community EXCEPT ![c].summary = j.texts] ELSE community
  BY DEF WriteSummary
<1> HIDE DEF k, c
<1>7. SoundBuild(k)
  BY <1>1, <1>4 DEF SoundBuild, Telling, LocalTexts
<1>8. Builds'
  BY <1>5, <1>7, GoesSound DEF Inv
<1>9. Holding'
  <2>1. \A x \in Communities : community[x] \in [exists : BOOLEAN, summary : SUBSET (Entities \X Namespaces)]
    BY DEF Inv, Holding
  <2>2. /\ community' = [x \in Communities |-> community'[x]]
        /\ \A x \in Communities : /\ \/ community'[x].summary = community[x].summary
                                     \/ x = c /\ community'[x].summary = j.texts
                                  /\ community'[x] \in [exists : BOOLEAN, summary : SUBSET (Entities \X Namespaces)]
    BY <1>2, <1>3, <1>6, <2>1 DEF Inv, Holding
  <2> QED
    BY <1>2, <1>3, <2>2 DEF WriteSummary, Inv, Holding
<1> QED
  BY <1>8, <1>9 DEF WriteSummary, Inv, AtHome

LEMMA AdvanceInv ==
    ASSUME Inv, NEW b \in Builders, Advance(b)
    PROVE  Inv'
<1> DEFINE j == build[b]
           k == [j EXCEPT !.at = "node", !.todo = Tail(j.todo), !.number = j.number + 1]
<1>1. SoundBuild(j) /\ j.at = "next"
  BY DEF Advance, At, Inv, Builds
<1>2. /\ j.todo \in Seq(SUBSET Entities) /\ j.todo # <<>> /\ j.number \in Nat
      /\ Cardinality(Entities) \in Nat
      /\ j.number + Len(j.todo) <= Cardinality(Entities)
  BY <1>1, FS_CardinalityType, HomesAssumption DEF SoundBuild, Build, Telling
<1>3. /\ Tail(j.todo) \in Seq(SUBSET Entities) /\ Len(Tail(j.todo)) = Len(j.todo) - 1
      /\ \A i \in DOMAIN Tail(j.todo) : Tail(j.todo)[i] = j.todo[i + 1] /\ i + 1 \in DOMAIN j.todo
  BY <1>2
<1>10. j.number + 1 \in Nat
  BY <1>2
<1>5. Goes(b, k)
  BY DEF Advance
<1> DEFINE rest == Tail(j.todo)
           n == j.number + 1
<1> HIDE DEF rest, n
<1>4. /\ k \in Build /\ k.at = "node" /\ k.ns = j.ns /\ k.read = j.read /\ k.todo = rest
      /\ k.number = n /\ k.left = j.left /\ k.texts = j.texts
  BY <1>1, <1>3, <1>10 DEF SoundBuild, Build, Steps, rest, n
<1> USE DEF rest, n
<1> HIDE DEF k
<1>6. \A i \in DOMAIN k.todo : Local(k.ns, k.todo[i])
  BY <1>1, <1>3, <1>4 DEF SoundBuild
<1>7. k.number + Len(k.todo) <= Cardinality(Entities)
  BY <1>2, <1>3, <1>4
<1>8. SoundBuild(k)
  BY <1>1, <1>4, <1>6, <1>7 DEF SoundBuild, Telling
<1>9. Builds'
  BY <1>5, <1>8, GoesSound DEF Inv
<1> QED
  BY <1>9 DEF Advance, Inv, AtHome, Holding

LEMMA MovesInv ==
    ASSUME Inv, Moves
    PROVE  Inv'
<1>1. PICK nss : build' = Disturbing(nss, Nobody)
  BY DEF Moves, Erase, Create
<1>2. Builds'
  <2>1. build' = [a \in Builders |-> build'[a]]
    BY <1>1 DEF Disturbing
  <2> QED
    BY <1>1, <2>1, DisturbingSound DEF Inv, Builds
<1>3. AtHome'
  BY DEF Moves, Erase, Create, Inv, AtHome
<1> QED
  BY <1>2, <1>3 DEF Moves, Erase, Create, Inv, Holding

LEMMA NextInv ==
    ASSUME Inv, [CommunitiesNext]_gvars
    PROVE  Inv'
<1>1. CASE UNCHANGED gvars
  BY <1>1 DEF gvars, Inv, AtHome, Holding, Builds
<1>2. CASE Moves
  BY <1>2, MovesInv
<1>3. ASSUME NEW b \in Builders, Starts(b) PROVE Inv'
  BY <1>3, ReadFactsInv DEF Starts
<1>4. ASSUME NEW b \in Builders, Dies(b) PROVE Inv'
  BY <1>4, RestingSound, GoesSound DEF Dies, Inv, AtHome, Holding
<1>5. ASSUME NEW b \in Builders, Continues(b) PROVE Inv'
  BY <1>5, ReadNodesInv, WipeInv, WriteNodeInv, WriteMemberInv, GatherInv, SummarizeInv,
     WriteSummaryInv, AdvanceInv DEF Continues
<1> QED
  BY <1>1, <1>2, <1>3, <1>4, <1>5 DEF CommunitiesNext

\* An entity with two homes has more than one.
LEMMA TwoHomes ==
    ASSUME NEW e \in Entities, NEW a \in Home[e], NEW b \in Home[e], a # b
    PROVE  Cardinality(Home[e]) > 1
<1>1. IsFiniteSet(Home[e]) /\ IsFiniteSet({a}) /\ Cardinality({a}) = 1
  BY FS_Singleton, HomesAssumption
<1>2. Cardinality({a, b}) = 2 /\ {a, b} = {a} \cup {b}
  <2>1. b \notin {a} /\ {a, b} = {a} \cup {b}
    OBVIOUS
  <2>2. Cardinality({a} \cup {b}) = Cardinality({a}) + 1
    BY <1>1, <2>1, FS_AddElement
  <2> QED
    BY <1>1, <2>1, <2>2
<1>3. Cardinality({a, b}) <= Cardinality(Home[e])
  BY <1>1, FS_Subset
<1>4. Cardinality(Home[e]) \in Nat
  BY <1>1, FS_CardinalityType
<1> QED
  BY <1>2, <1>3, <1>4

\* Whatever rebuilds overlap, die and resume, no role is shown a summary that
\* tells of an entity outside its slice, unless the entity may change hands
\* (summarize_adapter.py, "adapter never sees another namespace").
THEOREM SummaryTheorem == CommunitiesSpec => []SummaryStaysHome
<1>1. CommunitiesInit => Inv
  BY InitInv
<1>2. Inv /\ [CommunitiesNext]_gvars => Inv'
  BY NextInv
<1>3. Inv => SummaryStaysHome
  <2> SUFFICES ASSUME Inv, NEW allowed \in SUBSET Namespaces, NEW c \in Communities,
                      c[1] \in allowed, NEW t \in community[c].summary, t[2] \notin allowed
               PROVE  Cardinality(Home[t[1]]) > 1
    BY DEF SummaryStaysHome, Shown
  <2>1. t \in Entities \X Namespaces /\ c[1] \in Home[t[1]] /\ t[2] \in Home[t[1]]
    BY DEF Inv, Holding, LocalTexts
  <2> QED
    BY <2>1, TwoHomes
<1> QED
  BY <1>1, <1>2, <1>3, PTL DEF CommunitiesSpec

-----------------------------------------------------------------------------
(* Memberships                                                                *)

Membership ==
    /\ member \subseteq Entities \X Namespaces \X Numbers
    /\ \A m \in member : owner[m[1]] # Nobody /\ community[<<m[2], m[3]>>].exists

LEMMA MembershipStep ==
    ASSUME Inv, Membership, [CommunitiesNext]_gvars
    PROVE  Membership'
<1>0. /\ \A c \in Communities : community[c] \in [exists : BOOLEAN, summary : SUBSET (Entities \X Namespaces)]
      /\ community = [c \in Communities |-> community[c]] /\ owner = [e \in Entities |-> owner[e]]
  BY DEF Inv, Holding, AtHome
<1>1. CASE UNCHANGED <<owner, community, member>>
  BY <1>1 DEF Membership
<1>2. ASSUME NEW b \in Builders, Wipe(b) PROVE Membership'
  <2>1. \A m \in member' : m \in member /\ <<m[2], m[3]>> \in Communities
                           /\ <<m[2], m[3]>> \notin Wiped(build[b].ns)
    BY <1>2 DEF Wipe, Membership, Communities
  <2>2. \A c \in Communities \ Wiped(build[b].ns) : community'[c] = community[c]
    BY <1>2 DEF Wipe
  <2> QED
    BY <1>2, <2>1, <2>2 DEF Wipe, Membership
<1>3. ASSUME NEW b \in Builders, WriteNode(b) PROVE Membership'
  <2>1. \A c \in Communities : community[c].exists => community'[c].exists
    BY <1>0, <1>3 DEF WriteNode
  <2> QED
    BY <1>3, <2>1 DEF WriteNode, Membership, Communities
<1>4. ASSUME NEW b \in Builders, WriteSummary(b) PROVE Membership'
  <2>1. \A c \in Communities : community[c].exists => community'[c].exists
    BY <1>0, <1>4 DEF WriteSummary
  <2> QED
    BY <1>4, <2>1 DEF WriteSummary, Membership, Communities
<1>5. ASSUME NEW b \in Builders, NEW e \in Entities, WriteMember(b, e) PROVE Membership'
  <2>1. Current(b) \in Communities
    BY <1>5, CurrentIs DEF WriteMember, At, Telling, Inv
  <2>2. <<e, build[b].ns, build[b].number>> \in Entities \X Namespaces \X Numbers
    BY <2>1 DEF Current, Communities
  <2> QED
    BY <1>5, <2>2 DEF WriteMember, Membership, Current
<1>6. ASSUME NEW e \in Entities, Erase(e) PROVE Membership'
  BY <1>0, <1>6 DEF Erase, Membership
<1>7. ASSUME NEW e \in Entities, NEW ns \in Namespaces, Create(e, ns) PROVE Membership'
  <2>1. ns # Nobody
    BY HomesAssumption
  <2> QED
    BY <1>0, <1>7, <2>1 DEF Create, Membership
<1>8. CASE Moves
  BY <1>8, <1>6, <1>7 DEF Moves
<1>9. ASSUME NEW b \in Builders, Continues(b) PROVE Membership'
  <2>1. CASE ReadNodes(b) \/ Summarize(b) \/ Advance(b) \/ \E e \in Entities : Gather(b, e)
    BY <1>1, <2>1 DEF ReadNodes, Summarize, Advance, Gather
  <2> QED
    BY <1>2, <1>3, <1>4, <1>5, <1>9, <2>1 DEF Continues
<1>10. ASSUME NEW b \in Builders, Starts(b) \/ Dies(b) PROVE Membership'
  BY <1>1, <1>10 DEF Starts, ReadFacts, Dies
<1> QED
  BY <1>1, <1>8, <1>9, <1>10 DEF CommunitiesNext, gvars

-----------------------------------------------------------------------------
(* A rebuild that nobody disturbs                                             *)

Entries(ns) == {m \in member : m[2] = ns}

\* The parts of a list from the n-th on.
Ahead(s, n) == UNION {s[i] : i \in {x \in DOMAIN s : x >= n}}

\* All of ns but what is pending has one entry each; only the first `nodes`
\* numbers have a node, and the first `full` have a member.
Cover(ns, pending, nodes, full) ==
    /\ pending \subseteq Of(ns)
    /\ \A m \in Entries(ns) : m[1] \in Of(ns) \ pending
    /\ \A e \in Of(ns) \ pending : \E m \in Entries(ns) : m[1] = e
    /\ \A m, o \in Entries(ns) : m[1] = o[1] => m = o
    /\ \A k \in Numbers : /\ community[<<ns, k>>].exists => k < nodes
                          /\ k < full => \E m \in Entries(ns) : m[3] = k

\* The communities to come are disjoint, not empty and of the namespace.
Pieces(j) ==
    \A i, k \in DOMAIN j.todo :
        /\ j.todo[i] # {} /\ j.todo[i] \subseteq Of(j.ns)
        /\ i # k => j.todo[i] \cap j.todo[k] = {}

Progress(j) ==
    /\ j.at = "facts" => j.read \subseteq Of(j.ns)
    /\ j.at \in {"wipe", "node"} \cup Telling => Pieces(j)
    /\ j.at = "wipe" => j.number = 0 /\ Ahead(j.todo, 1) = Of(j.ns)
    /\ j.at = "node" => Cover(j.ns, Ahead(j.todo, 1), j.number, j.number)
    /\ j.at = "members" => /\ j.left # {} /\ j.left \subseteq j.todo[1]
                           /\ community[<<j.ns, j.number>>].exists
                           /\ Cover(j.ns, j.left \cup Ahead(j.todo, 2), j.number + 1, j.number)
    /\ j.at \in Telling \ {"members"} => Cover(j.ns, Ahead(j.todo, 2), j.number + 1, j.number + 1)
    /\ j.at = "done" => Of(j.ns) = {} \/ \E n \in Nat : Cover(j.ns, {}, n, n)

Covers(b) == build[b].at # "rest" /\ ~build[b].disturbed => Progress(build[b])

Rebuilt == \A b \in Builders : Covers(b)

\* Who leaves ns as it is.
LeavesAlone(ns) ==
    /\ Of(ns)' = Of(ns) /\ Entries(ns)' \subseteq Entries(ns)
    /\ \A m \in Entries(ns) : m[1] \in Of(ns) => m \in Entries(ns)'
    /\ \A k \in Numbers : community'[<<ns, k>>].exists = community[<<ns, k>>].exists

LEMMA Beside ==
    ASSUME NEW j, Progress(j), LeavesAlone(j.ns), j.at = "members" => j.number \in Numbers
    PROVE  Progress(j)'
<1>1. Of(j.ns)' = Of(j.ns)
  BY DEF LeavesAlone
<1>2. \A k \in Numbers : community'[<<j.ns, k>>].exists = community[<<j.ns, k>>].exists
  BY DEF LeavesAlone
<1>3. ASSUME NEW pending, NEW n, NEW f, Cover(j.ns, pending, n, f) PROVE Cover(j.ns, pending, n, f)'
  <2>1. Entries(j.ns)' = Entries(j.ns)
    BY <1>3 DEF LeavesAlone, Cover
  <2> QED
    BY <1>1, <1>2, <1>3, <2>1 DEF Cover
<1>4. Pieces(j) => Pieces(j)'
  BY <1>1 DEF Pieces
<1>5. (j.at = "facts" => j.read \subseteq Of(j.ns))'
  BY <1>1 DEF Progress
<1>6. (j.at \in {"wipe", "node"} \cup Telling => Pieces(j))'
  BY <1>4 DEF Progress, Telling
<1>7. (j.at = "wipe" => j.number = 0 /\ Ahead(j.todo, 1) = Of(j.ns))'
  BY <1>1 DEF Progress, Ahead
<1>8. (j.at = "node" => Cover(j.ns, Ahead(j.todo, 1), j.number, j.number))'
  BY <1>3 DEF Progress, Ahead
<1>9. (j.at = "members" => /\ j.left # {} /\ j.left \subseteq j.todo[1]
                           /\ community[<<j.ns, j.number>>].exists
                           /\ Cover(j.ns, j.left \cup Ahead(j.todo, 2), j.number + 1, j.number))'
  BY <1>2, <1>3 DEF Progress, Ahead
<1>10. (j.at \in Telling \ {"members"} => Cover(j.ns, Ahead(j.todo, 2), j.number + 1, j.number + 1))'
  BY <1>3 DEF Progress, Ahead, Telling
<1>11. (j.at = "done" => Of(j.ns) = {} \/ \E n \in Nat : Cover(j.ns, {}, n, n))'
  BY <1>1, <1>3 DEF Progress
<1> QED
  BY <1>5, <1>6, <1>7, <1>8, <1>9, <1>10, <1>11 DEF Progress

\* What the others see of a step of b: they are disturbed, or it is not in
\* their namespace.
LEMMA GoesRebuilt ==
    ASSUME Inv, Rebuilt, NEW b \in Builders, NEW step, Goes(b, step),
           \A ns \in Namespaces : ns # build[b].ns => LeavesAlone(ns),
           step.at = "rest" \/ step.disturbed \/ Progress(step)'
    PROVE  Rebuilt'
<1> SUFFICES ASSUME NEW a \in Builders, build'[a].at # "rest", ~build'[a].disturbed
             PROVE  Progress(build[a])'
  BY DEF Rebuilt, Covers
<1>1. build'[a] = IF a = b THEN step ELSE Disturbing({build[b].ns}, b)[a]
  BY DEF Goes, Disturbing
<1>2. CASE a = b
  BY <1>1, <1>2
<1>3. CASE a # b
  <2>1. build[a] \in Build /\ SoundBuild(build[a])
    BY DEF Inv, Builds, SoundBuild
  <2>2. build[a].ns # build[b].ns /\ build'[a] = build[a]
    BY <1>1, <1>3, <2>1 DEF Disturbing, Build
  <2>3. PICK j : j = build[a]
    OBVIOUS
  <2>4. Progress(j)
    BY <2>2, <2>3 DEF Rebuilt, Covers
  <2>5. j.ns \in Namespaces /\ j.ns # build[b].ns
    BY <2>1, <2>2, <2>3 DEF SoundBuild
  <2>6. j.at = "members" => j.number \in Numbers
    BY <2>3, CurrentIs DEF Inv, Current, Communities, Telling
  <2>7. Progress(j)'
    BY <2>4, <2>5, <2>6, Beside
  <2> QED
    BY <2>2, <2>3, <2>7
<1> QED
  BY <1>2, <1>3

\* A statement that writes nothing.
LEMMA Reading ==
    ASSUME UNCHANGED <<owner, community, member>>
    PROVE  \A ns : LeavesAlone(ns)
BY DEF LeavesAlone, Of, Entries

LEMMA ReadFactsRebuilt ==
    ASSUME Inv, Rebuilt, NEW b \in Builders, NEW ns \in Namespaces, NEW summarize \in BOOLEAN,
           ReadFacts(b, ns, summarize)
    PROVE  Rebuilt'
<1>1. PICK r \in SUBSET Of(ns), d \in BOOLEAN :
          build' = [build EXCEPT ![b] = [Resting EXCEPT !.at = "facts", !.ns = ns,
                       !.summarize = summarize, !.read = r, !.disturbed = d]]
  BY DEF ReadFacts
<1>2. PICK k : k = [Resting EXCEPT !.at = "facts", !.ns = ns,
                       !.summarize = summarize, !.read = r, !.disturbed = d]
  OBVIOUS
<1>3. k.at = "facts" /\ k.ns = ns /\ k.read = r
  BY <1>2 DEF Resting
<1>4. UNCHANGED <<owner, community, member>>
  BY DEF ReadFacts
<1>5. Progress(k)'
  BY <1>3, <1>4 DEF Progress, Of, Telling
<1> SUFFICES ASSUME NEW a \in Builders, build'[a].at # "rest", ~build'[a].disturbed
             PROVE  Progress(build[a])'
  BY DEF Rebuilt, Covers
<1>6. build'[a] = IF a = b THEN k ELSE build[a]
  BY <1>1, <1>2 DEF Inv, Builds
<1>7. CASE a = b
  BY <1>5, <1>6, <1>7
<1>8. CASE a # b
  <2>1. PICK j : j = build[a]
    OBVIOUS
  <2>2. Progress(j)
    BY <1>6, <1>8, <2>1 DEF Rebuilt, Covers
  <2>3. j.at = "members" => j.number \in Numbers
    BY <2>1, CurrentIs DEF Inv, Current, Communities, Telling
  <2>4. Progress(j)'
    BY <1>4, <2>2, <2>3, Reading, Beside
  <2> QED
    BY <1>6, <1>8, <2>1, <2>4
<1> QED
  BY <1>7, <1>8

LEMMA PartitionParts ==
    ASSUME NEW S, NEW p \in Partitions(S), IsFiniteSet(S)
    PROVE  /\ Ahead(p, 1) = S
           /\ \A i, k \in DOMAIN p : /\ p[i] # {} /\ p[i] \subseteq S
                                     /\ i # k => p[i] \cap p[k] = {}
<1>1. Cardinality(S) \in Nat
  BY FS_CardinalityType
<1>2. PICK n \in 1 .. Cardinality(S) : p \in [1 .. n -> (SUBSET S) \ {{}}]
  BY DEF Partitions
<1>3. DOMAIN p = 1 .. n /\ n \in Nat
  BY <1>1, <1>2
<1>4. {x \in DOMAIN p : x >= 1} = DOMAIN p
  BY <1>3
<1>5. UNION ToSet(p) = S /\ \A i, k \in DOMAIN p : i # k => p[i] \cap p[k] = {}
  BY DEF Partitions
<1>6. Ahead(p, 1) = UNION {p[i] : i \in DOMAIN p}
  BY <1>4 DEF Ahead
<1> QED
  BY <1>2, <1>3, <1>5, <1>6 DEF ToSet

LEMMA ReadNodesRebuilt ==
    ASSUME Inv, Rebuilt, NEW b \in Builders, ReadNodes(b)
    PROVE  Rebuilt'
<1>1. PICK j : j = build[b]
  OBVIOUS
<1>2. SoundBuild(j) /\ j \in Build /\ j.at = "facts" /\ j.ns \in Namespaces /\ j.number = 0
  BY <1>1 DEF ReadNodes, At, Inv, Builds, SoundBuild
<1>3. UNCHANGED <<owner, community, member>>
  BY DEF ReadNodes
<1>4. ~j.disturbed => j.read \subseteq Of(j.ns)
  BY <1>1, <1>2 DEF Rebuilt, Covers, Progress
<1> DEFINE nodes == j.read \cup Of(j.ns)
<1>5. CASE nodes = {} /\ Goes(b, [j EXCEPT !.at = "done"])
  <2>1. PICK k : k = [j EXCEPT !.at = "done"]
    OBVIOUS
  <2>2. k.at = "done" /\ k.ns = j.ns
    BY <1>2, <2>1 DEF Build
  <2>3. Of(j.ns)' = {}
    BY <1>3, <1>5 DEF Of
  <2>4. Progress(k)'
    BY <2>2, <2>3 DEF Progress, Telling
  <2> QED
    BY <1>3, <1>5, <2>1, <2>4, Reading, GoesRebuilt
<1>6. ASSUME NEW p \in Partitions(nodes), Goes(b, [j EXCEPT !.at = "wipe", !.read = {}, !.todo = p])
      PROVE  Rebuilt'
  <2>1. PICK k : k = [j EXCEPT !.at = "wipe", !.read = {}, !.todo = p]
    OBVIOUS
  <2>2. k.at = "wipe" /\ k.ns = j.ns /\ k.todo = p /\ k.number = 0 /\ k.disturbed = j.disturbed
    BY <1>2, <2>1 DEF Build
  <2>3. CASE j.disturbed
    BY <1>3, <1>6, <2>1, <2>2, <2>3, Reading, GoesRebuilt
  <2>4. CASE ~j.disturbed
    <3>1. nodes = Of(j.ns) /\ IsFiniteSet(nodes)
      <4>1. nodes = Of(j.ns) /\ nodes \subseteq Entities
        BY <1>4, <2>4 DEF Of
      <4> QED
        BY <4>1, FS_Subset, HomesAssumption
    <3>2. Of(k.ns)' = nodes
      BY <1>3, <2>2, <3>1 DEF Of
    <3> HIDE DEF nodes
    <3>3. Ahead(p, 1) = nodes
      BY <1>6, <3>1, PartitionParts
    <3>4. Pieces(k)'
      BY <1>6, <2>2, <3>1, <3>2, PartitionParts DEF Pieces
    <3>5. (Ahead(k.todo, 1) = Of(k.ns))'
      BY <2>2, <3>2, <3>3
    <3>6. Progress(k)'
      BY <2>2, <3>4, <3>5 DEF Progress, Telling
    <3> QED
      BY <1>3, <1>6, <2>1, <3>6, Reading, GoesRebuilt
  <2> QED
    BY <2>3, <2>4
<1> QED
  BY <1>1, <1>5, <1>6 DEF ReadNodes

LEMMA WipeRebuilt ==
    ASSUME Inv, Membership, Rebuilt, NEW b \in Builders, Wipe(b)
    PROVE  Rebuilt'
<1>1. PICK j : j = build[b]
  OBVIOUS
<1>2. SoundBuild(j) /\ j \in Build /\ j.at = "wipe" /\ j.ns \in Namespaces
  BY <1>1 DEF Wipe, At, Inv, Builds, SoundBuild
<1>3. PICK k : k = [j EXCEPT !.at = "node"]
  OBVIOUS
<1>4. /\ k.at = "node" /\ k.ns = j.ns /\ k.todo = j.todo /\ k.number = j.number
      /\ k.disturbed = j.disturbed
  BY <1>2, <1>3 DEF Build
<1>5. Goes(b, k) /\ UNCHANGED owner
  BY <1>1, <1>3 DEF Wipe
<1>6. /\ member' = {m \in member : <<m[2], m[3]>> \notin Wiped(j.ns)}
      /\ community' = [c \in Communities |-> IF c \in Wiped(j.ns) THEN Gone ELSE community[c]]
  BY <1>1 DEF Wipe
<1>7. \A m \in member : <<m[2], m[3]>> \in Communities
  BY DEF Membership, Communities
<1>8. ASSUME NEW ns \in Namespaces, ns # j.ns PROVE LeavesAlone(ns)
  <2>1. Entries(ns)' = Entries(ns)
    BY <1>6, <1>8 DEF Entries, Wiped
  <2>2. \A i \in Numbers : community'[<<ns, i>>] = community[<<ns, i>>]
    BY <1>6, <1>8 DEF Wiped, Communities
  <2> QED
    BY <1>5, <2>1, <2>2 DEF LeavesAlone, Of
<1>9. Entries(j.ns)' = {}
  BY <1>6, <1>7 DEF Entries, Wiped
<1>10. \A i \in Numbers : ~community'[<<j.ns, i>>].exists
  BY <1>2, <1>6 DEF Wiped, Communities, Gone
<1>11. CASE j.disturbed
  BY <1>1, <1>4, <1>5, <1>8, <1>11, GoesRebuilt
<1>12. CASE ~j.disturbed
  <2>1. Pieces(j) /\ j.number = 0 /\ Ahead(j.todo, 1) = Of(j.ns)
    BY <1>1, <1>2, <1>12 DEF Rebuilt, Covers, Progress
  <2>2. Of(j.ns)' = Of(j.ns)
    BY <1>5 DEF Of
  <2>3. Pieces(k)'
    BY <1>4, <2>1, <2>2 DEF Pieces
  <2>4. Cover(j.ns, Of(j.ns), 0, 0)'
    BY <1>9, <1>10, <2>2 DEF Cover, Numbers
  <2>5. Ahead(k.todo, 1)' = Of(j.ns)'
    BY <1>4, <2>1, <2>2 DEF Ahead
  <2>6. Cover(k.ns, Ahead(k.todo, 1), k.number, k.number)'
    BY <1>4, <2>1, <2>4, <2>5
  <2>7. Progress(k)'
    BY <1>4, <2>3, <2>6 DEF Progress, Telling
  <2> QED
    BY <1>1, <1>5, <1>8, <2>7, GoesRebuilt
<1> QED
  BY <1>11, <1>12

\* The head of the list and what comes after it.
LEMMA AheadSplit ==
    ASSUME NEW S, NEW s \in Seq(S), s # <<>>
    PROVE  /\ Ahead(s, 1) = Head(s) \cup Ahead(s, 2) /\ Head(s) = s[1] /\ 1 \in DOMAIN s
           /\ Ahead(Tail(s), 1) = Ahead(s, 2)
           /\ DOMAIN Tail(s) \subseteq Nat
           /\ \A i \in DOMAIN Tail(s) : Tail(s)[i] = s[i + 1] /\ i + 1 \in DOMAIN s
<1>1. Len(s) \in Nat \ {0} /\ DOMAIN s = 1 .. Len(s) /\ Head(s) = s[1]
  OBVIOUS
<1>2. /\ Tail(s) \in Seq(S) /\ Len(Tail(s)) = Len(s) - 1
      /\ \A i \in 1 .. Len(Tail(s)) : Tail(s)[i] = s[i + 1]
  OBVIOUS
<1>3. DOMAIN Tail(s) = 1 .. (Len(s) - 1)
  BY <1>1, <1>2
<1>4. {x \in DOMAIN s : x >= 1} = {1} \cup {x \in DOMAIN s : x >= 2}
  BY <1>1
<1>5. Ahead(s, 1) = s[1] \cup Ahead(s, 2)
  BY <1>4 DEF Ahead
<1>6. {x \in DOMAIN Tail(s) : x >= 1} = DOMAIN Tail(s)
  BY <1>3
<1>7. Ahead(Tail(s), 1) = UNION {Tail(s)[i] : i \in DOMAIN Tail(s)}
  BY <1>6 DEF Ahead
<1>8. ASSUME NEW e \in Ahead(s, 2) PROVE e \in Ahead(Tail(s), 1)
  <2>1. PICK i \in DOMAIN s : i >= 2 /\ e \in s[i]
    BY DEF Ahead
  <2>2. i - 1 \in 1 .. Len(Tail(s)) /\ (i - 1) + 1 = i
    BY <1>1, <1>2, <2>1
  <2>3. Tail(s)[i - 1] = s[i] /\ i - 1 \in DOMAIN Tail(s)
    BY <1>1, <1>2, <1>3, <2>2
  <2> QED
    BY <1>7, <2>1, <2>3
<1>9. ASSUME NEW e \in Ahead(Tail(s), 1) PROVE e \in Ahead(s, 2)
  <2>1. PICK i \in DOMAIN Tail(s) : e \in Tail(s)[i]
    BY <1>7
  <2>2. i + 1 \in DOMAIN s /\ i + 1 >= 2 /\ Tail(s)[i] = s[i + 1]
    BY <1>1, <1>2, <1>3
  <2> QED
    BY <2>1, <2>2 DEF Ahead
<1>10. \A i \in DOMAIN Tail(s) : Tail(s)[i] = s[i + 1] /\ i + 1 \in DOMAIN s
  BY <1>1, <1>2, <1>3
<1>11. Ahead(Tail(s), 1) = Ahead(s, 2)
  <2> DEFINE A == Ahead(Tail(s), 1)
             B == Ahead(s, 2)
  <2>1. (\A e \in B : e \in A) /\ (\A e \in A : e \in B)
    BY <1>8, <1>9
  <2> HIDE DEF A, B
  <2>2. A = B
    BY <2>1
  <2> QED
    BY <2>2 DEF A, B
<1>12. 1 \in DOMAIN s /\ DOMAIN Tail(s) \subseteq Nat
  BY <1>1, <1>3
<1> QED
  BY <1>1, <1>5, <1>10, <1>11, <1>12

\* What the head of a list of parts has, nothing after it has.
LEMMA HeadApart ==
    ASSUME NEW j, j \in Build, j.todo # <<>>, Pieces(j), NEW e \in Head(j.todo)
    PROVE  e \notin Ahead(j.todo, 2)
<1>1. j.todo \in Seq(SUBSET Entities)
  BY DEF Build
<1>2. Head(j.todo) = j.todo[1] /\ 1 \in DOMAIN j.todo
  BY <1>1, AheadSplit
<1> SUFFICES ASSUME NEW i \in DOMAIN j.todo, i >= 2, e \in j.todo[i] PROVE FALSE
  BY DEF Ahead
<1> QED
  BY <1>2 DEF Pieces

\* The node of one more community.
LEMMA WriteNodeRebuilt ==
    ASSUME Inv, Rebuilt, NEW b \in Builders, WriteNode(b)
    PROVE  Rebuilt'
<1>1. PICK j : j = build[b]
  OBVIOUS
<1>2. /\ SoundBuild(j) /\ j \in Build /\ j.at = "node" /\ j.ns \in Namespaces
      /\ j.todo \in Seq(SUBSET Entities) /\ j.number \in Nat
  BY <1>1 DEF WriteNode, At, Inv, Builds, SoundBuild, Build
<1>3. UNCHANGED <<owner, member>>
  BY DEF WriteNode
<1>4. ~j.disturbed => Pieces(j) /\ Cover(j.ns, Ahead(j.todo, 1), j.number, j.number)
  BY <1>1, <1>2 DEF Rebuilt, Covers, Progress
<1>5. CASE j.todo = <<>>
  <2>1. PICK k : k = [j EXCEPT !.at = "done"]
    OBVIOUS
  <2>2. k.at = "done" /\ k.ns = j.ns /\ k.disturbed = j.disturbed
    BY <1>2, <2>1 DEF Build
  <2>3. Goes(b, k) /\ UNCHANGED community
    BY <1>1, <1>5, <2>1 DEF WriteNode
  <2>4. CASE j.disturbed
    BY <1>1, <1>3, <2>2, <2>3, <2>4, Reading, GoesRebuilt
  <2>5. CASE ~j.disturbed
    <3>1. Ahead(j.todo, 1) = {}
      BY <1>5 DEF Ahead
    <3>2. Cover(j.ns, {}, j.number, j.number)
      BY <1>4, <2>5, <3>1
    <3>3. Cover(j.ns, {}, j.number, j.number)'
      BY <1>3, <2>3, <3>2 DEF Cover, Of, Entries
    <3>4. Progress(k)'
      BY <1>2, <2>2, <3>3 DEF Progress, Telling
    <3> QED
      BY <1>1, <1>3, <2>3, <3>4, Reading, GoesRebuilt
  <2> QED
    BY <2>4, <2>5
<1>6. CASE j.todo # <<>>
  <2>1. PICK k : k = [j EXCEPT !.at = "members", !.left = Head(j.todo)]
    OBVIOUS
  <2>2. /\ k.at = "members" /\ k.ns = j.ns /\ k.todo = j.todo /\ k.number = j.number
        /\ k.left = Head(j.todo) /\ k.disturbed = j.disturbed
    BY <1>2, <2>1 DEF Build
  <2>3. Goes(b, k) /\ community' = [community EXCEPT ![Current(b)].exists = TRUE]
    BY <1>1, <1>6, <2>1 DEF WriteNode
  <2>4. j.number \in Numbers /\ Current(b) = <<j.ns, j.number>>
    <3>1. Cardinality(Entities) \in Nat
      BY FS_CardinalityType, HomesAssumption
    <3>2. Len(j.todo) \in Nat \ {0}
      BY <1>2, <1>6
    <3> QED
      BY <1>1, <1>2, <3>1, <3>2 DEF SoundBuild, Numbers, Current
  <2>5. /\ \A c \in Communities : community[c] \in [exists : BOOLEAN, summary : SUBSET (Entities \X Namespaces)]
        /\ community = [c \in Communities |-> community[c]]
    BY DEF Inv, Holding
  <2>6. /\ \A c \in Communities : c # <<j.ns, j.number>> => community'[c] = community[c]
        /\ community'[<<j.ns, j.number>>].exists
    BY <1>2, <2>3, <2>4, <2>5 DEF Communities
  <2>7. ASSUME NEW ns \in Namespaces, ns # j.ns PROVE LeavesAlone(ns)
    <3>1. \A i \in Numbers : community'[<<ns, i>>] = community[<<ns, i>>]
      BY <2>6, <2>7 DEF Communities
    <3> QED
      BY <1>3, <3>1 DEF LeavesAlone, Of, Entries
  <2>8. CASE j.disturbed
    BY <1>1, <2>2, <2>3, <2>7, <2>8, GoesRebuilt
  <2>9. CASE ~j.disturbed
    <3>1. Ahead(j.todo, 1) = Head(j.todo) \cup Ahead(j.todo, 2) /\ Head(j.todo) = j.todo[1]
          /\ 1 \in DOMAIN j.todo
      BY <1>2, <1>6, AheadSplit
    <3>2. Head(j.todo) # {}
      BY <1>4, <2>9, <3>1 DEF Pieces
    <3>3. Pieces(k)'
      BY <1>3, <1>4, <2>2, <2>9 DEF Pieces, Of
    <3>4. Cover(j.ns, Head(j.todo) \cup Ahead(j.todo, 2), j.number, j.number)
      BY <1>4, <2>9, <3>1
    <3>5. \A i \in Numbers : community'[<<j.ns, i>>].exists => i < j.number + 1
      <4> SUFFICES ASSUME NEW i \in Numbers, community'[<<j.ns, i>>].exists PROVE i < j.number + 1
        OBVIOUS
      <4>1. i \in Nat
        BY DEF Numbers
      <4>2. i # j.number => community'[<<j.ns, i>>] = community[<<j.ns, i>>]
        BY <1>2, <2>6 DEF Communities
      <4>3. i # j.number => i < j.number
        BY <3>4, <4>2 DEF Cover
      <4> QED
        BY <1>2, <4>1, <4>3
    <3>6. Cover(j.ns, Head(j.todo) \cup Ahead(j.todo, 2), j.number + 1, j.number)'
      BY <1>3, <3>4, <3>5 DEF Cover, Of, Entries, Ahead
    <3>7. Progress(k)'
      BY <2>2, <2>6, <3>1, <3>2, <3>3, <3>6 DEF Progress, Telling, Ahead
    <3> QED
      BY <1>1, <2>3, <2>7, <3>7, GoesRebuilt
  <2> QED
    BY <2>8, <2>9
<1> QED
  BY <1>5, <1>6

\* A rebuild that goes on over the same communities.
LEMMA SameParts ==
    ASSUME NEW j, NEW k, Pieces(j), k.ns = j.ns, k.todo = j.todo, UNCHANGED owner
    PROVE  Pieces(k)'
BY DEF Pieces, Of

LEMMA WriteMemberRebuilt ==
    ASSUME Inv, Rebuilt, NEW b \in Builders, NEW e \in Entities, WriteMember(b, e)
    PROVE  Rebuilt'
<1>1. PICK j : j = build[b]
  OBVIOUS
<1>2. /\ SoundBuild(j) /\ j \in Build /\ j.at = "members" /\ j.ns \in Namespaces /\ e \in j.left
      /\ j.todo \in Seq(SUBSET Entities) /\ j.todo # <<>> /\ j.number \in Nat
  BY <1>1 DEF WriteMember, At, Inv, Builds, SoundBuild, Build, Telling
<1>3. j.number \in Numbers /\ Current(b) = <<j.ns, j.number>>
  BY <1>1, <1>2, CurrentIs DEF Inv, Current, Communities, Telling
<1>4. UNCHANGED <<owner, community>>
  BY DEF WriteMember
<1> DEFINE rest == j.left \ {e}
           l == IF rest = {} /\ j.summarize THEN Head(j.todo) ELSE rest
           at == IF rest # {} THEN "members" ELSE IF j.summarize THEN "gather" ELSE "next"
<1>5. PICK k : k = [j EXCEPT !.left = l, !.at = at]
  OBVIOUS
<1>6. Goes(b, k)
  BY <1>1, <1>5 DEF WriteMember
<1>7. /\ k.ns = j.ns /\ k.todo = j.todo /\ k.number = j.number /\ k.disturbed = j.disturbed
      /\ k.left = l /\ k.at = at
  BY <1>2, <1>5 DEF Build
<1>8. member' \subseteq member \cup {<<e, j.ns, j.number>>} /\ member \subseteq member'
  BY <1>1, <1>3 DEF WriteMember, Current
<1>9. ASSUME NEW ns \in Namespaces, ns # j.ns PROVE LeavesAlone(ns)
  <2>1. Entries(ns)' = Entries(ns)
    BY <1>8, <1>9 DEF Entries
  <2> QED
    BY <1>4, <2>1 DEF LeavesAlone, Of
<1>10. CASE j.disturbed
  BY <1>1, <1>6, <1>7, <1>9, <1>10, GoesRebuilt
<1>11. CASE ~j.disturbed
  <2> DEFINE after == Ahead(j.todo, 2)
  <2>1. /\ Pieces(j) /\ j.left \subseteq j.todo[1] /\ community[<<j.ns, j.number>>].exists
        /\ Cover(j.ns, j.left \cup after, j.number + 1, j.number)
    BY <1>1, <1>2, <1>11 DEF Rebuilt, Covers, Progress, Telling
  <2>2. Head(j.todo) = j.todo[1]
    BY <1>2, AheadSplit
  <2>3. e \notin after
    BY <1>2, <2>1, <2>2, HeadApart
  <2>4. owner[e] # Nobody
    BY <1>2, <2>1, HomesAssumption DEF Cover, Of
  <2>5. member' = member \cup {<<e, j.ns, j.number>>}
    BY <1>1, <1>3, <2>1, <2>4 DEF WriteMember, Current
  <2>6. Entries(j.ns)' = Entries(j.ns) \cup {<<e, j.ns, j.number>>}
    BY <2>5 DEF Entries
  <2>7. after' = after /\ Of(j.ns)' = Of(j.ns)
    BY <1>4 DEF Ahead, Of
  <2> HIDE DEF after
  <2>8. e \in Of(j.ns) /\ \A m \in Entries(j.ns) : m[1] # e
    BY <1>2, <2>1 DEF Cover
  <2>9. (j.left \cup after) \ {e} = rest \cup after
    BY <2>3
  <2>10. PICK p : p = rest \cup after
    OBVIOUS
  <2>11. /\ p \subseteq Of(j.ns)
         /\ \A m \in Entries(j.ns)' : m[1] \in Of(j.ns) \ p
         /\ \A x \in Of(j.ns) \ p : \E m \in Entries(j.ns)' : m[1] = x
         /\ \A m, o \in Entries(j.ns)' : m[1] = o[1] => m = o
    <3>1. PICK new : new = <<e, j.ns, j.number>>
      OBVIOUS
    <3>2. Entries(j.ns)' = Entries(j.ns) \cup {new} /\ new[1] = e
      BY <2>6, <3>1
    <3>3. p = (j.left \cup after) \ {e} /\ e \notin p
      BY <2>9, <2>10
    <3>4. /\ j.left \cup after \subseteq Of(j.ns)
          /\ \A m \in Entries(j.ns) : m[1] \in Of(j.ns) \ (j.left \cup after)
          /\ \A x \in Of(j.ns) \ (j.left \cup after) : \E m \in Entries(j.ns) : m[1] = x
          /\ \A m, o \in Entries(j.ns) : m[1] = o[1] => m = o
      BY <2>1 DEF Cover
    <3>5. p \subseteq Of(j.ns) /\ \A m \in Entries(j.ns)' : m[1] \in Of(j.ns) \ p
      BY <2>8, <3>2, <3>3, <3>4
    <3>6. ASSUME NEW x \in Of(j.ns) \ p PROVE \E m \in Entries(j.ns)' : m[1] = x
      BY <3>2, <3>3, <3>4
    <3>7. ASSUME NEW m \in Entries(j.ns)', NEW o \in Entries(j.ns)', m[1] = o[1] PROVE m = o
      BY <2>8, <3>2, <3>4, <3>7
    <3> QED
      BY <3>5, <3>6, <3>7
  <2>12. \A i \in Numbers : community'[<<j.ns, i>>].exists => i < j.number + 1
    BY <1>4, <2>1 DEF Cover
  <2>13. \A i \in Numbers : i < j.number => \E m \in Entries(j.ns)' : m[3] = i
    BY <2>1, <2>6 DEF Cover
  <2>14. Cover(j.ns, p, j.number + 1, j.number)'
    BY <2>7, <2>11, <2>12, <2>13 DEF Cover
  <2>15. \A i \in Numbers : i < j.number + 1 => \E m \in Entries(j.ns)' : m[3] = i
    <3> SUFFICES ASSUME NEW i \in Numbers, i < j.number + 1 PROVE \E m \in Entries(j.ns)' : m[3] = i
      OBVIOUS
    <3>1. i < j.number \/ i = j.number
      BY <1>2 DEF Numbers
    <3> QED
      BY <2>6, <2>13, <3>1
  <2>16. Cover(j.ns, p, j.number + 1, j.number + 1)'
    BY <2>7, <2>11, <2>12, <2>15 DEF Cover
  <2>17. Pieces(k)'
    BY <1>4, <1>7, <2>1, SameParts
  <2>18. CASE rest # {}
    <3>1. k.at = "members" /\ k.left = rest /\ k.left # {} /\ k.left \subseteq k.todo[1]
      BY <1>7, <2>1, <2>18
    <3>2. Cover(k.ns, k.left \cup Ahead(k.todo, 2), k.number + 1, k.number)'
      BY <1>7, <2>7, <2>10, <2>14, <3>1 DEF after
    <3>3. community'[<<k.ns, k.number>>].exists
      BY <1>4, <1>7, <2>1
    <3>4. Progress(k)'
      BY <2>17, <3>1, <3>2, <3>3 DEF Progress, Telling
    <3> QED
      BY <1>1, <1>6, <1>9, <3>4, GoesRebuilt
  <2>19. CASE rest = {}
    <3>1. k.at \in {"gather", "next"}
      BY <1>7, <2>19
    <3>2. Cover(k.ns, Ahead(k.todo, 2), k.number + 1, k.number + 1)'
      BY <1>7, <2>7, <2>10, <2>16, <2>19 DEF after
    <3>3. Progress(k)'
      BY <2>17, <3>1, <3>2 DEF Progress, Telling
    <3> QED
      BY <1>1, <1>6, <1>9, <3>3, GoesRebuilt
  <2> QED
    BY <2>18, <2>19
<1> QED
  BY <1>10, <1>11

\* The community is complete; its summary is being made and written.
LEMMA SummaryRebuilt ==
    ASSUME Inv, Rebuilt, NEW b \in Builders, NEW j, NEW k, j = build[b], Goes(b, k),
           j.at \in Telling \ {"members"}, k.at \in Telling \ {"members"},
           k.ns = j.ns, k.todo = j.todo, k.number = j.number, k.disturbed = j.disturbed,
           UNCHANGED <<owner, member>>,
           \A c \in Communities : community'[c].exists = community[c].exists
    PROVE  Rebuilt'
<1>1. ASSUME NEW ns \in Namespaces PROVE LeavesAlone(ns)
  BY <1>1 DEF LeavesAlone, Of, Entries, Communities
<1>2. CASE j.disturbed
  BY <1>1, <1>2, GoesRebuilt
<1>3. CASE ~j.disturbed
  <2>1. Pieces(j) /\ Cover(j.ns, Ahead(j.todo, 2), j.number + 1, j.number + 1)
    BY <1>3 DEF Rebuilt, Covers, Progress, Telling
  <2>2. Pieces(k)'
    BY <2>1, SameParts
  <2>3. j.ns \in Namespaces
    BY DEF Inv, Builds, SoundBuild, Telling
  <2>4. Cover(j.ns, Ahead(j.todo, 2), j.number + 1, j.number + 1)'
    BY <2>1, <2>3 DEF Cover, Of, Entries, Communities, Ahead
  <2>5. Cover(k.ns, Ahead(k.todo, 2), k.number + 1, k.number + 1)'
    BY <2>4
  <2>6. Progress(k)'
    BY <2>2, <2>5 DEF Progress, Telling
  <2> QED
    BY <1>1, <2>6, GoesRebuilt
<1> QED
  BY <1>2, <1>3

LEMMA GatherRebuilt ==
    ASSUME Inv, Rebuilt, NEW b \in Builders, NEW e \in Entities, Gather(b, e)
    PROVE  Rebuilt'
<1>1. PICK j : j = build[b]
  OBVIOUS
<1>2. SoundBuild(j) /\ j \in Build /\ j.at = "gather"
  BY <1>1 DEF Gather, At, Inv, Builds, SoundBuild
<1>3. PICK k : k = [j EXCEPT !.left = j.left \ {e},
                             !.texts = IF owner[e] = Nobody THEN @ ELSE @ \cup {Text(e)},
                             !.at = IF j.left = {e} THEN "call" ELSE "gather"]
  OBVIOUS
<1>4. /\ k.ns = j.ns /\ k.todo = j.todo /\ k.number = j.number /\ k.disturbed = j.disturbed
      /\ k.at \in {"call", "gather"}
  BY <1>2, <1>3 DEF Build
<1>5. Goes(b, k) /\ UNCHANGED <<owner, community, member>>
  BY <1>1, <1>3 DEF Gather
<1> QED
  BY <1>1, <1>2, <1>4, <1>5, SummaryRebuilt DEF Telling

LEMMA DiesRebuilt ==
    ASSUME Inv, Rebuilt, NEW b \in Builders, Goes(b, Resting), UNCHANGED <<owner, community, member>>
    PROVE  Rebuilt'
BY Reading, GoesRebuilt DEF Resting

LEMMA SummarizeRebuilt ==
    ASSUME Inv, Rebuilt, NEW b \in Builders, Summarize(b)
    PROVE  Rebuilt'
<1>1. PICK j : j = build[b]
  OBVIOUS
<1>2. SoundBuild(j) /\ j \in Build /\ j.at = "call"
  BY <1>1 DEF Summarize, At, Inv, Builds, SoundBuild
<1>3. UNCHANGED <<owner, community, member>>
  BY DEF Summarize
<1>4. CASE Goes(b, Resting)
  BY <1>3, <1>4, DiesRebuilt
<1>5. ASSUME NEW T, Goes(b, [j EXCEPT !.at = "summary", !.texts = T]) PROVE Rebuilt'
  <2>1. PICK k : k = [j EXCEPT !.at = "summary", !.texts = T]
    OBVIOUS
  <2>2. /\ k.ns = j.ns /\ k.todo = j.todo /\ k.number = j.number /\ k.disturbed = j.disturbed
        /\ k.at = "summary"
    BY <1>2, <2>1 DEF Build
  <2> QED
    BY <1>1, <1>2, <1>3, <1>5, <2>1, <2>2, SummaryRebuilt DEF Telling
<1>6. [j EXCEPT !.at = "summary"] = [j EXCEPT !.at = "summary", !.texts = j.texts]
  BY <1>2 DEF Build
<1> QED
  BY <1>1, <1>4, <1>5, <1>6 DEF Summarize

LEMMA WriteSummaryRebuilt ==
    ASSUME Inv, Rebuilt, NEW b \in Builders, WriteSummary(b)
    PROVE  Rebuilt'
<1>1. PICK j : j = build[b]
  OBVIOUS
<1>2. SoundBuild(j) /\ j \in Build /\ j.at = "summary"
  BY <1>1 DEF WriteSummary, At, Inv, Builds, SoundBuild
<1>3. PICK k : k = [j EXCEPT !.at = "next", !.texts = {}]
  OBVIOUS
<1>4. /\ k.ns = j.ns /\ k.todo = j.todo /\ k.number = j.number /\ k.disturbed = j.disturbed
      /\ k.at = "next"
  BY <1>2, <1>3 DEF Build
<1>5. Goes(b, k) /\ UNCHANGED <<owner, member>>
  BY <1>1, <1>3 DEF WriteSummary
<1>6. /\ \A c \in Communities : community[c] \in [exists : BOOLEAN, summary : SUBSET (Entities \X Namespaces)]
      /\ community = [c \in Communities |-> community[c]]
  BY DEF Inv, Holding
<1>7. \A c \in Communities : community'[c].exists = community[c].exists
  BY <1>6 DEF WriteSummary
<1> QED
  BY <1>1, <1>2, <1>4, <1>5, <1>7, SummaryRebuilt DEF Telling

\* On to the next community.
LEMMA AdvanceRebuilt ==
    ASSUME Inv, Rebuilt, NEW b \in Builders, Advance(b)
    PROVE  Rebuilt'
<1>1. PICK j : j = build[b]
  OBVIOUS
<1>2. /\ SoundBuild(j) /\ j \in Build /\ j.at = "next" /\ j.ns \in Namespaces
      /\ j.todo \in Seq(SUBSET Entities) /\ j.todo # <<>>
  BY <1>1 DEF Advance, At, Inv, Builds, SoundBuild, Build, Telling
<1>3. UNCHANGED <<owner, community, member>>
  BY DEF Advance
<1>4. PICK rest : rest = Tail(j.todo)
  OBVIOUS
<1>5. PICK k : k = [j EXCEPT !.at = "node", !.todo = rest, !.number = j.number + 1]
  OBVIOUS
<1>6. /\ k.at = "node" /\ k.ns = j.ns /\ k.todo = rest /\ k.number = j.number + 1
      /\ k.disturbed = j.disturbed
  BY <1>2, <1>5 DEF Build
<1>7. Goes(b, k)
  BY <1>1, <1>2, <1>4, <1>5 DEF Advance, Build
<1>8. CASE j.disturbed
  BY <1>1, <1>3, <1>6, <1>7, <1>8, Reading, GoesRebuilt
<1>9. CASE ~j.disturbed
  <2>1. Pieces(j) /\ Cover(j.ns, Ahead(j.todo, 2), j.number + 1, j.number + 1)
    BY <1>1, <1>2, <1>9 DEF Rebuilt, Covers, Progress, Telling
  <2>2. /\ Ahead(rest, 1) = Ahead(j.todo, 2) /\ DOMAIN rest \subseteq Nat
        /\ \A i \in DOMAIN rest : rest[i] = j.todo[i + 1] /\ i + 1 \in DOMAIN j.todo
    BY <1>2, <1>4, AheadSplit
  <2>3. ASSUME NEW i \in DOMAIN rest, NEW n \in DOMAIN rest
        PROVE  /\ rest[i] # {} /\ rest[i] \subseteq Of(j.ns)
               /\ i # n => rest[i] \cap rest[n] = {}
    <3>1. i \in Nat /\ n \in Nat
      BY <2>2, <2>3
    <3>2. i # n => i + 1 # n + 1
      BY <3>1
    <3> QED
      BY <2>1, <2>2, <2>3, <3>2 DEF Pieces
  <2>4. Pieces(k)'
    BY <1>3, <1>6, <2>3 DEF Pieces, Of
  <2>5. Cover(j.ns, Ahead(rest, 1), j.number + 1, j.number + 1)
    BY <2>1, <2>2
  <2>6. Cover(k.ns, Ahead(k.todo, 1), k.number, k.number)'
    BY <1>3, <1>6, <2>5 DEF Cover, Of, Entries, Ahead
  <2>7. Progress(k)'
    BY <1>6, <2>4, <2>6 DEF Progress, Telling
  <2> QED
    BY <1>1, <1>3, <1>7, <2>7, Reading, GoesRebuilt
<1> QED
  BY <1>8, <1>9

\* An entity that comes or goes disturbs the rebuilds of its namespace.
LEMMA MoveRebuilt ==
    ASSUME Inv, Rebuilt, NEW ns, build' = Disturbing({ns}, Nobody),
           \A other \in Namespaces : other # ns => LeavesAlone(other)
    PROVE  Rebuilt'
<1> SUFFICES ASSUME NEW a \in Builders, build'[a].at # "rest", ~build'[a].disturbed
             PROVE  Progress(build[a])'
  BY DEF Rebuilt, Covers
<1>1. build[a] \in Build /\ SoundBuild(build[a])
  BY DEF Inv, Builds, SoundBuild
<1>2. build'[a] = IF a # Nobody /\ build[a].ns = ns
                  THEN [build[a] EXCEPT !.disturbed = TRUE] ELSE build[a]
  BY DEF Disturbing
<1>3. build[a].ns # ns /\ build'[a] = build[a]
  BY <1>1, <1>2, HomesAssumption DEF Build
<1>4. PICK j : j = build[a]
  OBVIOUS
<1>5. Progress(j)
  BY <1>3, <1>4 DEF Rebuilt, Covers
<1>6. j.ns \in Namespaces /\ j.ns # ns
  BY <1>1, <1>3, <1>4 DEF SoundBuild
<1>7. j.at = "members" => j.number \in Numbers
  BY <1>4, CurrentIs DEF Inv, Current, Communities, Telling
<1>8. Progress(j)'
  BY <1>5, <1>6, <1>7, Beside
<1> QED
  BY <1>3, <1>4, <1>8

LEMMA MovesRebuilt ==
    ASSUME Inv, Membership, Rebuilt, Moves
    PROVE  Rebuilt'
<1>1. owner = [e \in Entities |-> owner[e]]
  BY DEF Inv, AtHome
<1>2. ASSUME NEW e \in Entities, Erase(e) PROVE Rebuilt'
  <2>1. ASSUME NEW ns \in Namespaces, ns # owner[e] PROVE LeavesAlone(ns)
    <3>1. Of(ns)' = Of(ns) /\ e \notin Of(ns)
      BY <1>1, <1>2, <2>1, HomesAssumption DEF Erase, Of
    <3>2. UNCHANGED community /\ member' = {m \in member : m[1] # e}
      BY <1>2 DEF Erase
    <3> QED
      BY <3>1, <3>2 DEF LeavesAlone, Entries
  <2> QED
    BY <1>2, <2>1, MoveRebuilt DEF Erase
<1>3. ASSUME NEW e \in Entities, NEW ns \in Namespaces, Create(e, ns) PROVE Rebuilt'
  <2>1. ASSUME NEW other \in Namespaces, other # ns PROVE LeavesAlone(other)
    <3>1. Of(other)' = Of(other)
      BY <1>1, <1>3, <2>1, HomesAssumption DEF Create, Of
    <3>2. UNCHANGED <<community, member>>
      BY <1>3 DEF Create
    <3> QED
      BY <3>1, <3>2 DEF LeavesAlone, Entries
  <2> QED
    BY <1>3, <2>1, MoveRebuilt DEF Create
<1> QED
  BY <1>2, <1>3 DEF Moves

LEMMA NextRebuilt ==
    ASSUME Inv, Membership, Rebuilt, [CommunitiesNext]_gvars
    PROVE  Rebuilt'
<1>1. CASE UNCHANGED gvars
  BY <1>1 DEF gvars, Rebuilt, Covers, Progress, Pieces, Cover, Of, Entries, Ahead
<1>2. CASE Moves
  BY <1>2, MovesRebuilt
<1>3. ASSUME NEW b \in Builders, Starts(b) PROVE Rebuilt'
  BY <1>3, ReadFactsRebuilt DEF Starts
<1>4. ASSUME NEW b \in Builders, Dies(b) PROVE Rebuilt'
  BY <1>4, DiesRebuilt DEF Dies
<1>5. ASSUME NEW b \in Builders, Continues(b) PROVE Rebuilt'
  BY <1>5, ReadNodesRebuilt, WipeRebuilt, WriteNodeRebuilt, WriteMemberRebuilt, GatherRebuilt,
     SummarizeRebuilt, WriteSummaryRebuilt, AdvanceRebuilt DEF Continues
<1> QED
  BY <1>1, <1>2, <1>3, <1>4, <1>5 DEF CommunitiesNext

LEMMA InitRebuilt == ASSUME CommunitiesInit PROVE Membership /\ Rebuilt
BY DEF CommunitiesInit, Membership, Rebuilt, Covers, Resting

\* What is true of every rebuild that is done and was not disturbed.
LEMMA DoneCovers ==
    ASSUME Inv, Membership, Rebuilt
    PROVE  QuietRebuildCovers
<1> SUFFICES ASSUME NEW b \in Builders, At(b, "done"), ~build[b].disturbed, Of(build[b].ns) # {}
             PROVE  /\ \A e \in Of(build[b].ns) :
                          Cardinality({m \in member : m[1] = e /\ m[2] = build[b].ns}) = 1
                    /\ \A c \in Communities : c[1] = build[b].ns => ~Suspect(c)
  BY DEF QuietRebuildCovers
<1> DEFINE ns == build[b].ns
<1>1. PICK n \in Nat : Cover(ns, {}, n, n)
  BY DEF Rebuilt, Covers, Progress, At
<1>2. ASSUME NEW e \in Of(ns) PROVE Cardinality({m \in member : m[1] = e /\ m[2] = ns}) = 1
  <2>1. PICK m \in Entries(ns) : m[1] = e
    BY <1>1, <1>2 DEF Cover
  <2>2. {x \in member : x[1] = e /\ x[2] = ns} = {m}
    BY <1>1, <2>1 DEF Cover, Entries
  <2> QED
    BY <2>2, FS_Singleton
<1>3. ASSUME NEW c \in Communities, c[1] = ns, Suspect(c) PROVE FALSE
  <2>1. c = <<ns, c[2]>> /\ c[2] \in Numbers
    BY <1>3 DEF Communities
  <2>2. c[2] < n
    BY <1>1, <1>3, <2>1 DEF Cover, Suspect
  <2>3. PICK m \in Entries(ns) : m[3] = c[2]
    BY <1>1, <2>1, <2>2 DEF Cover
  <2>4. m \in member /\ <<m[2], m[3]>> = c
    BY <2>1, <2>3 DEF Entries
  <2>5. m[1] \in MembersOf(c)
    BY <2>4 DEF MembersOf
  <2>6. ASSUME NEW e \in MembersOf(c) PROVE owner[e] = ns
    <3>1. PICK x \in member : <<x[2], x[3]>> = c /\ x[1] = e
      BY <2>6 DEF MembersOf
    <3>2. x \in Entries(ns)
      BY <1>3, <3>1 DEF Entries
    <3> QED
      BY <1>1, <3>1, <3>2 DEF Cover, Of
  <2> QED
    BY <1>3, <2>5, <2>6 DEF Suspect
<1> QED
  BY <1>2, <1>3

\* Whatever was left by scripts that died or overlapped, a rebuild that nobody
\* disturbs puts every entity of the namespace in exactly one community and
\* leaves nothing to report (communities.py, "full rebuild (idempotent)").
THEOREM QuietTheorem == CommunitiesSpec => []QuietRebuildCovers
<1>1. CommunitiesInit => Inv /\ Membership /\ Rebuilt
  BY InitInv, InitRebuilt
<1>2. Inv /\ Membership /\ Rebuilt /\ [CommunitiesNext]_gvars => (Inv /\ Membership /\ Rebuilt)'
  BY NextInv, MembershipStep, NextRebuilt
<1>3. Inv /\ Membership /\ Rebuilt => QuietRebuildCovers
  BY DoneCovers
<1> QED
  BY <1>1, <1>2, <1>3, PTL DEF CommunitiesSpec

\* The type invariant: memberships are of entities and communities that are.
THEOREM CommunitiesTypeTheorem == CommunitiesSpec => []CommunitiesTypeOK
<1>1. CommunitiesInit => Inv /\ Membership
  BY InitInv, InitRebuilt
<1>2. Inv /\ Membership /\ [CommunitiesNext]_gvars => (Inv /\ Membership)'
  BY NextInv, MembershipStep
<1>3. Inv /\ Membership => CommunitiesTypeOK
  BY DEF Inv, AtHome, Holding, Membership, CommunitiesTypeOK
<1> QED
  BY <1>1, <1>2, <1>3, PTL DEF CommunitiesSpec

=============================================================================

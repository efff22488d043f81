---------------------------- MODULE ScriptsProofs ----------------------------
(* What is proved of the scripts around serve(): of the calibration runs      *)
(* (Judging) and of the miners (Mining), for any number of threads, questions,*)
(* nodes and replies; and of the scripts that plant nodes (Fixtures), for any *)
(* of them beside any others.  At the end, of all that goes on around serve() *)
(* (MCCallers), with the theorems of LoopsProofs and CommunitiesProofs.       *)
EXTENDS MCCallers, LoopsProofs, CommunitiesProofs, FiniteSetTheorems, SequenceTheorems, TLAPS

-----------------------------------------------------------------------------
(* The calibration runs.                                                      *)

\* cal3 asks one question after the other, and asks for nothing but labels.
OneByOne ==
    /\ queue \in Seq(Labels)
    /\ DOMAIN got \subseteq Labels
    /\ \A w \in Workers : taken[w] \in Labels \cup {NoJob}
    /\ \A v, w \in Workers : taken[v] # NoJob /\ taken[w] # NoJob => v = w

\* What the verdict of cal4 says.
AllJudged ==
    /\ \A j \in Judged : j \in DOMAIN got /\ got[j].of = "scored"
    /\ \A q \in Easy : \E t \in 1 .. EASY_TRIALS : got[Job("easy", q, t)].of = "scored"
    /\ \A j \in DOMAIN got : got[j].of # "error"
    /\ leased = {}

\* A script at work has said nothing yet, and none is at work without a thread;
\* an OK was said of labels alone or of everything that cal4 asks for.
JudgingInv ==
    /\ taken \in [Workers -> Range(taken)]
    /\ script = "none" => Idle
    /\ script # "none" => verdict # "OK"
    /\ script = "cal3" => OneByOne
    /\ verdict = "OK" => DOMAIN got \subseteq Labels \/ AllJudged

\* No job of cal3 is one of cal4.
LEMMA LabelsApart == Labels \cap (Judged \cup Votes) = {} /\ NoJob \notin Labels
<1>1. \A j \in Labels : j.of = "label" /\ j # NoJob
  <2> SUFFICES ASSUME NEW j \in Labels PROVE j.of = "label" /\ j # NoJob
    OBVIOUS
  <2>1. PICK q \in Prose, t \in 1 .. 3 : j = [of |-> "label", q |-> q, t |-> t]
    BY DEF Labels, Jobs, Job
  <2>2. j.of = "label" /\ NoJob.of = "none"
    BY <2>1 DEF NoJob
  <2> QED
    BY <2>2
<1>2. \A j \in Judged \cup Votes : j.of # "label"
  BY DEF Judged, Votes, Jobs, Job
<1> QED
  BY <1>1, <1>2

\* There are finitely many labels,
LEMMA LabelsFinite == IsFiniteSet(Labels)
<1> DEFINE f == [p \in Prose \X (1 .. 3) |-> Job("label", p[1], p[2])]
<1>1. IsFiniteSet(Prose \X (1 .. 3))
  <2>1. \A m, n \in Int : IsFiniteSet(m .. n)
    BY FS_Interval
  <2>2. 1 \in Int /\ 3 \in Int
    OBVIOUS
  <2>3. IsFiniteSet(1 .. 3)
    BY <2>1, <2>2, Zenon
  <2> QED
    BY <2>3, ProseAssumption, FS_Product
<1>2. f \in Surjection(Prose \X (1 .. 3), Labels)
  <2>1. f \in [Prose \X (1 .. 3) -> Labels]
    BY DEF Labels, Jobs
  <2>2. \A j \in Labels : \E p \in Prose \X (1 .. 3) : f[p] = j
    <3> SUFFICES ASSUME NEW j \in Labels PROVE \E p \in Prose \X (1 .. 3) : f[p] = j
      OBVIOUS
    <3>1. PICK q \in Prose, t \in 1 .. 3 : j = Job("label", q, t)
      BY DEF Labels, Jobs
    <3>2. <<q, t>> \in Prose \X (1 .. 3) /\ f[<<q, t>>] = j
      BY <3>1
    <3> QED
      BY <3>2
  <2> QED
    BY <2>1, <2>2 DEF Surjection
<1> HIDE DEF f
<1> QED
  BY <1>1, <1>2, FS_Surjection

\* so that they are queued one by one.
LEMMA LabelsQueue == SetToSeq(Labels) \in Seq(Labels)
<1> DEFINE n == Cardinality(Labels)
<1>1. n \in Nat /\ ExistsBijection(1 .. n, Labels)
  BY LabelsFinite, FS_CardinalityType
<1>2. PICK f \in [1 .. n -> Labels] : IsInjective(f)
  BY <1>1 DEF ExistsBijection, Bijection, Injection
<1>3. SetToSeq(Labels) \in [1 .. n -> Labels]
  BY <1>2 DEF SetToSeq
<1> QED
  BY <1>1, <1>3, SeqDef

LEMMA JudgingInitInv == ASSUME JudgingInit PROVE JudgingInv
  BY DEF JudgingInit, JudgingInv, Idle, Range

LEMMA StartInv ==
    ASSUME JudgingInv, NEW s \in {"cal3", "cal4"}, NEW jobs, Start(s, jobs),
           s = "cal3" => jobs = Labels
    PROVE  JudgingInv'
<1>1. Idle /\ verdict' = "none" /\ script' = s /\ UNCHANGED taken
  BY DEF Start, JudgingInv
<1>2. CASE s = "cal3"
  <2>1. queue' \in Seq(Labels) /\ DOMAIN got' = {}
    BY <1>2, LabelsQueue DEF Start
  <2>2. OneByOne'
    BY <1>1, <2>1 DEF OneByOne, Idle
  <2> QED
    BY <1>1, <1>2, <2>2 DEF JudgingInv
<1>3. CASE s # "cal3"
  BY <1>1, <1>3 DEF JudgingInv
<1> QED
  BY <1>2, <1>3

LEMMA TakeInv ==
    ASSUME JudgingInv, NEW w \in Workers, Take(w)
    PROVE  JudgingInv'
<1>1. /\ script # "none" /\ UNCHANGED <<script, verdict, got>>
      /\ taken' = [taken EXCEPT ![w] = Head(queue)]
  BY DEF Take
<1>2. ASSUME script = "cal3" PROVE OneByOne'
  <2>1. Head(queue) \in Labels /\ Tail(queue) \in Seq(Labels)
    BY <1>2, HeadTailProperties DEF Take, JudgingInv, OneByOne
  <2>2. Idle /\ queue' = Tail(queue)
    BY <1>2 DEF Take
  <2> QED
    BY <1>1, <1>2, <2>1, <2>2 DEF JudgingInv, OneByOne, Idle
<1>3. taken' \in [Workers -> Range(taken')]
  BY <1>1 DEF JudgingInv, Range
<1> QED
  BY <1>1, <1>2, <1>3 DEF JudgingInv

LEMMA FinishInv ==
    ASSUME JudgingInv, NEW w \in Workers, Finish(w)
    PROVE  JudgingInv'
<1> DEFINE j == taken[w]
<1>1. /\ taken[w] # NoJob /\ taken' = [taken EXCEPT ![w] = NoJob]
      /\ DOMAIN got' = DOMAIN got \cup {j}
  BY DEF Finish
<1>2. script # "none"
  BY <1>1 DEF JudgingInv, Idle
<1>3. taken' \in [Workers -> Range(taken')]
  BY <1>1 DEF JudgingInv, Range
<1>4. CASE script = "cal3" /\ script' = "none" /\ verdict' = "raised"
  <2>1. Idle'
    BY <1>1, <1>4 DEF JudgingInv, OneByOne, Idle
  <2> QED
    BY <1>3, <1>4, <2>1 DEF JudgingInv
<1>5. CASE UNCHANGED <<script, verdict, queue>>
  <2>1. ASSUME script = "cal3" PROVE OneByOne'
    BY <1>1, <1>5, <2>1 DEF JudgingInv, OneByOne
  <2> QED
    BY <1>2, <1>3, <1>5, <2>1 DEF JudgingInv
<1> QED
  BY <1>4, <1>5 DEF Finish

LEMMA EndCal3Inv == ASSUME JudgingInv, EndCal3 PROVE JudgingInv'
  BY DEF EndCal3, JudgingInv, OneByOne, Complete, Idle

LEMMA EndCal4Inv == ASSUME JudgingInv, EndCal4 PROVE JudgingInv'
<1>1. script' = "none" /\ Idle' /\ UNCHANGED <<taken, got>>
  BY DEF EndCal4, Complete, Idle
<1>2. ASSUME verdict' = "OK" PROVE AllJudged'
  <2>1. ~Short /\ Having("error", DOMAIN got) = {} /\ leased' = {}
    BY <1>2 DEF EndCal4
  <2>2. \A j \in Judged : j \in DOMAIN got /\ got[j].of = "scored"
    BY <2>1 DEF Short, Having
  <2>3. ASSUME NEW q \in Easy
        PROVE  \E t \in 1 .. EASY_TRIALS : got[Job("easy", q, t)].of = "scored"
    <3>1. PICK j \in Votes : j.q = q /\ got[j].of = "scored"
      BY <2>1 DEF Short, Having
    <3>2. PICK p \in Easy, t \in 1 .. EASY_TRIALS : j = Job("easy", p, t)
      BY DEF Votes, Jobs
    <3> QED
      BY <3>1, <3>2 DEF Job
  <2>4. \A j \in DOMAIN got : got[j].of # "error"
    BY <2>1 DEF Having
  <2> QED
    BY <1>1, <2>1, <2>2, <2>3, <2>4 DEF AllJudged
<1> QED
  BY <1>1, <1>2 DEF JudgingInv

\* A process that dies says nothing, and a turn of the judge or of the graph
\* touches nothing of a script.
LEMMA OutsideInv == ASSUME JudgingInv, Die \/ JudgeTurns \/ Reanswer PROVE JudgingInv'
<1>1. CASE Die
  <2>1. /\ taken' = [w \in Workers |-> NoJob]
        /\ script' = "none" /\ verdict' = "died"
    BY <1>1 DEF Die
  <2> QED
    BY <2>1 DEF JudgingInv, Idle, Range
<1>2. CASE JudgeTurns \/ Reanswer
  <2>1. UNCHANGED <<taken, script, verdict, got, queue, leased>>
    BY <1>2 DEF JudgeTurns, Reanswer
  <2> QED
    BY <2>1 DEF JudgingInv, Idle, OneByOne, AllJudged
<1> QED
  BY <1>1, <1>2

LEMMA JudgingNextInv == ASSUME JudgingInv, [JudgingNext]_jvars PROVE JudgingInv'
<1>1. CASE StartCal3
  BY <1>1, StartInv DEF StartCal3
<1>2. CASE StartCal4
  BY <1>2, StartInv DEF StartCal4
<1>3. CASE \E w \in Workers : Take(w)
  BY <1>3, TakeInv
<1>4. CASE \E w \in Workers : Finish(w)
  BY <1>4, FinishInv
<1>5. CASE EndCal3 \/ EndCal4 \/ Die \/ JudgeTurns \/ Reanswer
  BY <1>5, EndCal3Inv, EndCal4Inv, OutsideInv
<1>6. CASE UNCHANGED jvars
  BY <1>6 DEF jvars, JudgingInv, Idle, OneByOne, AllJudged
<1> QED
  BY <1>1, <1>2, <1>3, <1>4, <1>5, <1>6 DEF JudgingNext

LEMMA JudgingInvHolds == JudgingSpec => []JudgingInv
<1>1. JudgingInit => JudgingInv
  BY JudgingInitInv
<1>2. JudgingInv /\ [JudgingNext]_jvars => JudgingInv'
  BY JudgingNextInv
<1> QED
  BY <1>1, <1>2, PTL DEF JudgingSpec

\* CAL4_OK is never said of a sweep that the judge did not go through, whatever
\* the judge, the graph and the process did meanwhile (cal4_sweep.py, main).
THEOREM OkTheorem == JudgingSpec => []OkMeansJudged
<1>1. JudgingInv => OkMeansJudged
  BY LabelsApart DEF JudgingInv, OkMeansJudged, AllJudged
<1> QED
  BY <1>1, JudgingInvHolds, PTL

-----------------------------------------------------------------------------
(* What the calibration runs keep well typed.                                 *)

\* A label is about a question of prose.
LEMMA LabelOfProse == \A j \in Labels : j.q \in Questions
<1> SUFFICES ASSUME NEW j \in Labels PROVE j.q \in Questions
  OBVIOUS
<1>1. PICK q \in Prose, t \in 1 .. 3 : j = [of |-> "label", q |-> q, t |-> t]
  BY DEF Labels, Jobs, Job
<1> QED
  BY <1>1 DEF Questions

LEMMA JudgingInitType == ASSUME JudgingInit PROVE JudgingTypeOK
  BY DEF JudgingInit, JudgingTypeOK

LEMMA TakeType ==
    ASSUME JudgingInv, JudgingTypeOK, NEW w \in Workers, Take(w)
    PROVE  JudgingTypeOK'
<1>1. given' \in [Questions -> Versions]
  <2>1. CASE script = "cal3"
    <3>1. Head(queue) \in Labels
      BY <2>1, HeadTailProperties DEF Take, JudgingInv, OneByOne
    <3>2. Head(queue).q \in Questions
      BY <3>1, LabelOfProse
    <3>3. answer[Head(queue).q] \in Versions
      BY <3>2 DEF JudgingTypeOK
    <3> QED
      BY <3>3 DEF Take, JudgingTypeOK
  <2>2. CASE script # "cal3"
    BY <2>2 DEF Take, JudgingTypeOK
  <2> QED
    BY <2>1, <2>2
<1> QED
  BY <1>1 DEF Take, JudgingTypeOK

LEMMA JudgingNextType ==
    ASSUME JudgingInv, JudgingTypeOK, [JudgingNext]_jvars
    PROVE  JudgingTypeOK'
<1>1. CASE StartCal3
  BY <1>1 DEF StartCal3, Start, JudgingTypeOK
<1>2. CASE StartCal4
  BY <1>2 DEF StartCal4, Start, JudgingTypeOK
<1>3. CASE \E w \in Workers : Take(w)
  BY <1>3, TakeType
<1>4. CASE \E w \in Workers : Finish(w)
  BY <1>4 DEF Finish, JudgingTypeOK
<1>5. CASE EndCal3
  BY <1>5 DEF EndCal3, JudgingTypeOK
<1>6. CASE EndCal4
  BY <1>6 DEF EndCal4, JudgingTypeOK
<1>7. CASE Die
  BY <1>7 DEF Die, JudgingTypeOK
<1>8. CASE JudgeTurns
  BY <1>8 DEF JudgeTurns, JudgingTypeOK
<1>9. CASE Reanswer
  BY <1>9 DEF Reanswer, JudgingTypeOK
<1>10. CASE UNCHANGED jvars
  BY <1>10 DEF jvars, JudgingTypeOK
<1> QED
  BY <1>1, <1>2, <1>3, <1>4, <1>5, <1>6, <1>7, <1>8, <1>9, <1>10 DEF JudgingNext

\* The state of the calibration runs stays well typed: in particular the answers
\* a script judges are answers to questions, though cal3 takes each from serve
\* when it comes to it and cal4 all at the start (cal3_fit.py, cal4_sweep.py).
THEOREM JudgingTypeTheorem == JudgingSpec => []JudgingTypeOK
<1>1. JudgingInit => JudgingTypeOK
  BY JudgingInitType
<1>2. JudgingInv /\ JudgingTypeOK /\ [JudgingNext]_jvars => JudgingTypeOK'
  BY JudgingNextType
<1> QED
  BY <1>1, <1>2, JudgingInvHolds, PTL DEF JudgingSpec

-----------------------------------------------------------------------------
(* Sequences.                                                                 *)

LEMMA SeqIn ==
    ASSUME NEW S, NEW s \in Seq(S)
    PROVE  /\ Len(s) \in Nat /\ DOMAIN s = 1 .. Len(s)
           /\ \A i \in 1 .. Len(s) : s[i] \in S
           /\ ToSet(s) \subseteq S
           /\ s # <<>> => Len(s) # 0
<1>1. Len(s) \in Nat /\ DOMAIN s = 1 .. Len(s) /\ \A i \in 1 .. Len(s) : s[i] \in S
  BY LenProperties, ElementOfSeq
<1>2. s # <<>> => Len(s) # 0
  BY <1>1, EmptySeq
<1> QED
  BY <1>1, <1>2 DEF ToSet

\* What is read first, and what is left.
LEMMA FirstAndRest ==
    ASSUME NEW S, NEW s \in Seq(S), s # <<>>
    PROVE  /\ Head(s) \in S /\ Tail(s) \in Seq(S)
           /\ ToSet(s) = {Head(s)} \cup ToSet(Tail(s))
           /\ Len(Tail(s)) = Len(s) - 1
           /\ \A i \in 1 .. Len(Tail(s)) : Tail(s)[i] = s[i + 1]
<1>1. /\ Head(s) \in S /\ Tail(s) \in Seq(S) /\ Len(Tail(s)) = Len(s) - 1
      /\ \A i \in 1 .. Len(Tail(s)) : Tail(s)[i] = s[i + 1]
  BY HeadTailProperties
<1>2. Len(s) \in Nat /\ DOMAIN s = 1 .. Len(s) /\ Len(s) # 0
  BY SeqIn
<1>3. Head(s) = s[1]
  BY <1>2
<1> DEFINE t == Tail(s)
<1>4. DOMAIN t = 1 .. Len(t)
  BY <1>1, SeqIn
<1>5. \A i \in DOMAIN s : i = 1 \/ (i - 1 \in DOMAIN t /\ s[i] = t[i - 1])
  BY <1>1, <1>2, <1>4
<1>6. \A i \in DOMAIN t : i + 1 \in DOMAIN s /\ t[i] = s[i + 1]
  BY <1>1, <1>2, <1>4
<1>7. 1 \in DOMAIN s
  BY <1>2
<1> HIDE DEF t
<1>8. ToSet(s) \subseteq {s[1]} \cup ToSet(t)
  BY <1>5 DEF ToSet
<1>9. {s[1]} \cup ToSet(t) \subseteq ToSet(s)
  BY <1>6, <1>7 DEF ToSet
<1>10. ToSet(s) = {s[1]} \cup ToSet(t)
  BY <1>8, <1>9
<1> QED
  BY <1>1, <1>3, <1>10 DEF t

LEMMA OneMore ==
    ASSUME NEW S, NEW s \in Seq(S), NEW e \in S
    PROVE  /\ Append(s, e) \in Seq(S) /\ Len(Append(s, e)) = Len(s) + 1
           /\ \A i \in 1 .. Len(s) : Append(s, e)[i] = s[i]
           /\ Append(s, e)[Len(s) + 1] = e
           /\ ToSet(Append(s, e)) = ToSet(s) \cup {e}
<1> DEFINE a == Append(s, e)
<1>1. /\ a \in Seq(S) /\ Len(a) = Len(s) + 1 /\ \A i \in 1 .. Len(s) : a[i] = s[i]
      /\ a[Len(s) + 1] = e
  BY AppendProperties
<1> HIDE DEF a
<1>2. Len(s) \in Nat /\ DOMAIN s = 1 .. Len(s) /\ DOMAIN a = 1 .. (Len(s) + 1)
  <2>1. DOMAIN a = 1 .. Len(a)
    BY <1>1, SeqIn
  <2> QED
    BY <1>1, <2>1, SeqIn
<1>3. \A i \in DOMAIN a : i \in DOMAIN s \/ i = Len(s) + 1
  BY <1>2
<1>4. \A i \in DOMAIN s : i \in DOMAIN a
  BY <1>2
<1>5. Len(s) + 1 \in DOMAIN a
  BY <1>2
<1>6. ToSet(a) \subseteq ToSet(s) \cup {e}
  BY <1>1, <1>2, <1>3 DEF ToSet
<1>7. ToSet(s) \cup {e} \subseteq ToSet(a)
  BY <1>1, <1>2, <1>4, <1>5 DEF ToSet
<1>8. ToSet(a) = ToSet(s) \cup {e}
  BY <1>6, <1>7
<1> QED
  BY <1>1, <1>8 DEF a

-----------------------------------------------------------------------------
(* The last letters.                                                          *)

\* The sequence r ends as the file d does; what is longer in it is in o.
Follows(r, d, o) ==
    \A i \in 1 .. Len(r) :
       IF Len(r) - i < Len(d) THEN r[i] = d[Len(d) - (Len(r) - i)] ELSE r[i] \in ToSet(o)

\* It does so when a letter is added to both,
LEMMA FollowsOn ==
    ASSUME NEW S, NEW r \in Seq(S), NEW d \in Seq(S), NEW o, NEW l \in S, Follows(r, d, o)
    PROVE  Follows(Append(r, l), Append(d, l), o)
<1> DEFINE a == Append(r, l)
           b == Append(d, l)
<1>1. /\ Len(a) = Len(r) + 1 /\ a[Len(r) + 1] = l
      /\ \A i \in 1 .. Len(r) : a[i] = r[i]
  BY OneMore
<1>2. /\ Len(b) = Len(d) + 1 /\ b[Len(d) + 1] = l
      /\ \A i \in 1 .. Len(d) : b[i] = d[i]
  BY OneMore
<1>3. Len(r) \in Nat /\ Len(d) \in Nat
  BY SeqIn
<1> HIDE DEF a, b
<1>4. ASSUME NEW i \in 1 .. Len(a)
      PROVE  IF Len(a) - i < Len(b) THEN a[i] = b[Len(b) - (Len(a) - i)] ELSE a[i] \in ToSet(o)
  <2>1. CASE i = Len(r) + 1
    BY <1>1, <1>2, <1>3, <2>1
  <2>2. CASE i # Len(r) + 1
    <3>1. i \in 1 .. Len(r) /\ a[i] = r[i]
      BY <1>1, <1>3, <2>2
    <3>2. CASE Len(r) - i < Len(d)
      <4>1. /\ r[i] = d[Len(d) - (Len(r) - i)]
            /\ Len(d) - (Len(r) - i) \in 1 .. Len(d)
        BY <1>3, <3>1, <3>2 DEF Follows
      <4>2. Len(b) - (Len(a) - i) = Len(d) - (Len(r) - i)
        BY <1>1, <1>2, <1>3, <3>1
      <4> QED
        BY <1>1, <1>2, <1>3, <3>1, <3>2, <4>1, <4>2
    <3>3. CASE ~(Len(r) - i < Len(d))
      <4>1. r[i] \in ToSet(o)
        BY <3>1, <3>3 DEF Follows
      <4> QED
        BY <1>1, <1>2, <1>3, <3>1, <3>3, <4>1
    <3> QED
      BY <3>2, <3>3
  <2> QED
    BY <2>1, <2>2
<1> QED
  BY <1>4 DEF Follows, a, b

\* and when its oldest letter is left out.
LEMMA FollowsTail ==
    ASSUME NEW S, NEW r \in Seq(S), r # <<>>, NEW d \in Seq(S), NEW o, Follows(r, d, o)
    PROVE  Follows(Tail(r), d, o)
<1> DEFINE t == Tail(r)
<1>1. Len(t) = Len(r) - 1 /\ \A i \in 1 .. Len(t) : t[i] = r[i + 1]
  BY FirstAndRest
<1>2. Len(r) \in Nat /\ Len(d) \in Nat
  BY SeqIn
<1> HIDE DEF t
<1>3. ASSUME NEW i \in 1 .. Len(t)
      PROVE  IF Len(t) - i < Len(d) THEN t[i] = d[Len(d) - (Len(t) - i)] ELSE t[i] \in ToSet(o)
  <2>1. /\ i + 1 \in 1 .. Len(r) /\ t[i] = r[i + 1]
        /\ Len(t) - i = Len(r) - (i + 1)
    BY <1>1, <1>2
  <2> QED
    BY <2>1 DEF Follows
<1> QED
  BY <1>3 DEF Follows, t

\* No letter of it is lost with a file that is at least as long.
LEMMA FollowsWithin ==
    ASSUME NEW S, NEW r \in Seq(S), NEW d \in Seq(S), NEW o, Follows(r, d, o)
    PROVE  /\ ToSet(r) \subseteq ToSet(d) \cup ToSet(o)
           /\ Len(r) <= Len(d) => ToSet(r) \subseteq ToSet(d)
<1>1. /\ Len(r) \in Nat /\ DOMAIN r = 1 .. Len(r)
      /\ Len(d) \in Nat /\ DOMAIN d = 1 .. Len(d)
  BY SeqIn
<1>2. ASSUME NEW i \in 1 .. Len(r)
      PROVE  /\ r[i] \in ToSet(d) \cup ToSet(o)
             /\ Len(r) <= Len(d) => r[i] \in ToSet(d)
  <2>1. CASE Len(r) - i < Len(d)
    <3>1. Len(d) - (Len(r) - i) \in DOMAIN d /\ r[i] = d[Len(d) - (Len(r) - i)]
      BY <1>1, <2>1 DEF Follows
    <3> QED
      BY <3>1 DEF ToSet
  <2>2. CASE ~(Len(r) - i < Len(d))
    <3>1. r[i] \in ToSet(o) /\ ~(Len(r) <= Len(d))
      BY <1>1, <2>2 DEF Follows
    <3> QED
      BY <3>1
  <2> QED
    BY <2>1, <2>2
<1> QED
  BY <1>1, <1>2 DEF ToSet

-----------------------------------------------------------------------------
(* The miners.                                                                *)

Whats == Triples \cup {"output"}
Letters == [node : ToSet(Nodes), what : Whats]
Stages == {"rest", "call", "read", "roll", "append"}
Writing == {"roll", "append"}

Records == [at : Stages, todo : Seq(ToSet(Nodes)), output : Seq(Whats), unread : Seq(Whats),
            edges : Seq(Good)]

\* What a miner does with a triple w of the node it is at: it has still to read
\* or to stage it, or it is done with.
Dealt(k, w, staged, letters) ==
    \/ w \in ToSet(k.unread)
    \/ w \in Good /\ (w \in ToSet(k.edges) \/ staged[w] # Nowhere)
    \/ w \notin Good /\ Letter(Head(k.todo), w) \in letters

\* A miner at work is at a node, it has a bad triple when it writes, and it deals
\* with everything the program said of the node.
Sound(k, staged, letters) ==
    /\ k \in Records
    /\ k.at # "rest" => k.todo # <<>>
    /\ k.at \in Writing => k.unread # <<>> /\ Head(k.unread) \notin Good
    /\ k.at \in Writing \cup {"read"} => \A w \in ToSet(k.output) : Dealt(k, w, staged, letters)

Through ==
    \A l \in through : IF l.what \in Good THEN source[l.what] # Nowhere ELSE l \in written

\* Unless miners write at the same time, the letters are in the order in which
\* they were written, and a file that is replaced is full.
InOrder ==
    /\ Follows(recent, deadletter, older)
    /\ \A m, n \in Miners : miner[m].at \in Writing /\ miner[n].at \in Writing => m = n
    /\ \A m \in Miners : miner[m].at = "roll" => Len(deadletter) >= CAP

MiningInv ==
    /\ miner \in [Miners -> Records]
    /\ \A m \in Miners : Sound(miner[m], source, written)
    /\ source \in [Good -> ToSet(Nodes) \cup {Nowhere, "agent"}]
    /\ deadletter \in Seq(Letters) /\ older \in Seq(Letters) /\ recent \in Seq(Letters)
    /\ Len(recent) <= CAP
    /\ Through
    /\ raced \/ InOrder

LEMMA UnbusySound == \A staged, letters : Sound(Unbusy, staged, letters)
<1>1. Unbusy \in Records
  BY EmptySeq DEF Unbusy, Records, Stages
<1> QED
  BY <1>1 DEF Sound, Unbusy, Writing

LEMMA MiningInitInv == ASSUME MiningInit PROVE MiningInv
<1>1. miner \in [Miners -> Records] /\ \A m \in Miners : miner[m] = Unbusy
  BY UnbusySound DEF MiningInit, Sound
<1>2. <<>> \in Seq(Letters) /\ Len(<<>>) = 0
  BY EmptySeq
<1>3. InOrder
  BY <1>1, <1>2 DEF MiningInit, InOrder, Follows, Unbusy, Writing
<1>4. \A m \in Miners : Sound(miner[m], source, written)
  BY <1>1, UnbusySound
<1> QED
  BY <1>1, <1>2, <1>3, <1>4, CapAssumption DEF MiningInit, MiningInv, Through

\* What was written or staged stays so,
Grows ==
    /\ written \subseteq written'
    /\ \A t \in Good : source[t] # Nowhere => source'[t] # Nowhere

\* so that a miner that does nothing stays sound, and what is done is done.
LEMMA StaysSound ==
    ASSUME NEW k, Sound(k, source, written), Grows
    PROVE  Sound(k, source', written')
  BY DEF Sound, Dealt, Grows

LEMMA StaysThrough ==
    ASSUME Through, Grows, UNCHANGED through
    PROVE  Through'
  BY DEF Through, Grows

\* The miners stay sound when one of them makes a step to a sound record.
LEMMA MinersSound ==
    ASSUME MiningInv, NEW m \in Miners, NEW k, MinerGoes(m, k), Sound(k, source', written'), Grows
    PROVE  /\ miner' = [miner EXCEPT ![m] = k] /\ miner \in [Miners -> Records] /\ k \in Records
           /\ miner' \in [Miners -> Records]
           /\ \A n \in Miners : Sound(miner'[n], source', written')
<1>1. miner' = [miner EXCEPT ![m] = k] /\ miner \in [Miners -> Records] /\ k \in Records
  BY DEF MinerGoes, MiningInv, Sound
<1>2. ASSUME NEW n \in Miners PROVE Sound(miner'[n], source', written')
  <2>1. n # m => miner'[n] = miner[n] /\ Sound(miner[n], source, written)
    BY <1>1 DEF MiningInv
  <2>2. n # m => Sound(miner[n], source', written')
    BY <2>1, StaysSound
  <2> QED
    BY <1>1, <2>1, <2>2
<1> QED
  BY <1>1, <1>2

\* A step of one miner that is not about the file.
LEMMA QuietStep ==
    ASSUME MiningInv, NEW m \in Miners, NEW k, MinerGoes(m, k), Sound(k, source', written'), Grows,
           Through', source' \in [Good -> ToSet(Nodes) \cup {Nowhere, "agent"}],
           k.at \notin Writing,
           UNCHANGED <<deadletter, older, recent, raced>>
    PROVE  MiningInv'
<1>1. /\ miner' = [miner EXCEPT ![m] = k] /\ miner \in [Miners -> Records]
      /\ miner' \in [Miners -> Records]
      /\ \A n \in Miners : Sound(miner'[n], source', written')
  BY MinersSound
<1>2. raced' \/ InOrder'
  BY <1>1 DEF MiningInv, InOrder, Writing
<1> QED
  BY <1>1, <1>2 DEF MiningInv

LEMMA WiderSeq ==
    ASSUME NEW S, NEW T \in SUBSET S, NEW s \in Seq(T)
    PROVE  s \in Seq(S)
<1>1. Len(s) \in Nat /\ DOMAIN s = 1 .. Len(s) /\ \A i \in 1 .. Len(s) : s[i] \in S
  BY SeqIn
<1>2. s \in [1 .. Len(s) -> S]
  BY <1>1, SeqDef
<1> QED
  BY <1>1, <1>2, SeqDef

LEMMA MineInv == ASSUME MiningInv, NEW m \in Miners, Mine(m) PROVE MiningInv'
<1> DEFINE k == [Unbusy EXCEPT !.at = "call", !.todo = Nodes]
<1>1. /\ MinerGoes(m, k)
      /\ UNCHANGED <<source, deadletter, older, written, recent, through, raced>>
  BY DEF Mine
<1>2. k \in Records /\ k.at = "call" /\ k.todo # <<>>
  BY NodesAssumption, EmptySeq DEF Unbusy, Records, Stages
<1>3. Sound(k, source', written') /\ k.at \notin Writing
  BY <1>2 DEF Sound, Writing
<1>4. Grows /\ Through'
  BY <1>1 DEF Grows, MiningInv, Through
<1>5. source' \in [Good -> ToSet(Nodes) \cup {Nowhere, "agent"}]
  BY <1>1 DEF MiningInv
<1> HIDE DEF k
<1> QED
  BY <1>1, <1>3, <1>4, <1>5, QuietStep

LEMMA ExtractInv == ASSUME MiningInv, NEW m \in Miners, Extract(m) PROVE MiningInv'
<1>1. UNCHANGED <<source, deadletter, older, written, recent, through, raced>>
  BY DEF Extract
<1>2. Grows /\ Through' /\ source' \in [Good -> ToSet(Nodes) \cup {Nowhere, "agent"}]
  BY <1>1 DEF Grows, MiningInv, Through
<1>3. CASE MinerGoes(m, Unbusy)
  <2>1. Sound(Unbusy, source', written') /\ Unbusy.at \notin Writing
    BY UnbusySound DEF Unbusy, Writing
  <2> QED
    BY <1>1, <1>2, <1>3, <2>1, QuietStep
<1>4. CASE \E o \in Outputs \cup {<<"output">>} :
             MinerGoes(m, [miner[m] EXCEPT !.at = "read", !.output = o, !.unread = o])
  <2>1. PICK o \in Outputs \cup {<<"output">>} :
             MinerGoes(m, [miner[m] EXCEPT !.at = "read", !.output = o, !.unread = o])
    BY <1>4
  <2> DEFINE k == [miner[m] EXCEPT !.at = "read", !.output = o, !.unread = o]
  <2>2. o \in Seq(Whats)
    <3>1. CASE o \in Outputs
      <4>1. o \in Seq(ToSet(o)) /\ ToSet(o) \in SUBSET Whats
        BY <3>1, OutputsAssumption DEF Whats, Triples
      <4> QED
        BY <4>1, WiderSeq
    <3>2. CASE o = <<"output">>
      BY <3>2 DEF Whats
    <3> QED
      BY <3>1, <3>2
  <2>3. miner[m] \in Records /\ miner[m].at = "call" /\ miner[m].todo # <<>>
    BY DEF MiningInv, Sound, Extract, MinerAt
  <2>4. k \in Records /\ k.at = "read" /\ k.unread = o /\ k.output = o /\ k.todo # <<>>
    BY <2>2, <2>3 DEF Records, Stages
  <2>5. Sound(k, source', written') /\ k.at \notin Writing
    BY <2>4 DEF Sound, Dealt, Writing
  <2> HIDE DEF k
  <2> QED
    BY <1>1, <1>2, <2>1, <2>5, QuietStep DEF k
<1> QED
  BY <1>3, <1>4 DEF Extract

LEMMA AcceptInv == ASSUME MiningInv, NEW m \in Miners, Accept(m) PROVE MiningInv'
<1> DEFINE j == miner[m]
           k == [j EXCEPT !.unread = Tail(@), !.edges = Append(@, Triple(m))]
<1>1. /\ MinerGoes(m, k) /\ j.at = "read" /\ j.unread # <<>> /\ Head(j.unread) \in Good
      /\ UNCHANGED <<source, deadletter, older, written, recent, through, raced>>
  BY DEF Accept, Reads, MinerAt, Triple
<1>2. Grows /\ Through' /\ source' \in [Good -> ToSet(Nodes) \cup {Nowhere, "agent"}]
  BY <1>1 DEF Grows, MiningInv, Through
<1>3. Sound(j, source, written) /\ j \in Records
  BY DEF MiningInv, Sound
<1>4. Tail(j.unread) \in Seq(Whats) /\ ToSet(j.unread) = {Head(j.unread)} \cup ToSet(Tail(j.unread))
  BY <1>1, <1>3, FirstAndRest DEF Records
<1>5. /\ Append(j.edges, Head(j.unread)) \in Seq(Good)
      /\ ToSet(Append(j.edges, Head(j.unread))) = ToSet(j.edges) \cup {Head(j.unread)}
  BY <1>1, <1>3, OneMore DEF Records
<1>6. /\ k \in Records /\ k.at = "read" /\ k.todo = j.todo /\ k.output = j.output
      /\ k.unread = Tail(j.unread) /\ k.edges = Append(j.edges, Head(j.unread))
  BY <1>1, <1>3, <1>4, <1>5 DEF Records, Triple
<1> HIDE DEF k
<1>7. Sound(k, source', written') /\ k.at \notin Writing
  <2>1. ASSUME NEW w \in ToSet(k.output) PROVE Dealt(k, w, source', written')
    <3>1. Dealt(j, w, source, written)
      BY <1>1, <1>3, <1>6 DEF Sound
    <3> QED
      BY <1>1, <1>4, <1>5, <1>6, <3>1 DEF Dealt
  <2> QED
    BY <1>1, <1>3, <1>6, <2>1 DEF Sound, Writing
<1> QED
  BY <1>1, <1>2, <1>7, QuietStep

LEMMA StatInv == ASSUME MiningInv, NEW m \in Miners, Stat(m) PROVE MiningInv'
<1> DEFINE j == miner[m]
           k == [j EXCEPT !.at = IF Len(deadletter) >= CAP THEN "roll" ELSE "append"]
<1>1. /\ MinerGoes(m, k) /\ j.at = "read" /\ j.unread # <<>> /\ Head(j.unread) \notin Good
      /\ UNCHANGED <<source, deadletter, older, written, recent, through>>
      /\ raced' = (raced \/ \E n \in Miners \ {m} : miner[n].at \in Writing)
  BY DEF Stat, Reads, MinerAt, Triple, Writing
<1>2. Grows /\ Through' /\ source' \in [Good -> ToSet(Nodes) \cup {Nowhere, "agent"}]
  BY <1>1 DEF Grows, MiningInv, Through
<1>3. Sound(j, source, written) /\ j \in Records
  BY DEF MiningInv, Sound
<1>4. /\ k \in Records /\ k.at \in Writing /\ (k.at = "roll" => Len(deadletter) >= CAP)
      /\ k.todo = j.todo /\ k.output = j.output /\ k.unread = j.unread /\ k.edges = j.edges
  BY <1>3 DEF Records, Stages, Writing
<1> HIDE DEF k
<1>5. Sound(k, source', written')
  BY <1>1, <1>3, <1>4 DEF Sound, Dealt, Writing
<1>6. /\ miner' = [miner EXCEPT ![m] = k] /\ miner \in [Miners -> Records]
      /\ miner' \in [Miners -> Records]
      /\ \A n \in Miners : Sound(miner'[n], source', written')
  BY <1>1, <1>2, <1>5, MinersSound
<1>7. ASSUME ~raced' PROVE InOrder'
  <2>1. InOrder /\ \A n \in Miners \ {m} : miner'[n] = miner[n] /\ miner[n].at \notin Writing
    BY <1>1, <1>6, <1>7 DEF MiningInv
  <2>2. \A n \in Miners : miner'[n].at \in Writing => n = m
    BY <2>1
  <2>3. miner'[m].at = "roll" => Len(deadletter) >= CAP
    BY <1>4, <1>6
  <2> QED
    BY <1>1, <2>1, <2>2, <2>3 DEF InOrder, Writing
<1> QED
  BY <1>1, <1>2, <1>6, <1>7 DEF MiningInv

\* Nothing that is still among the last letters goes with a file that is full.
LEMMA RollInv == ASSUME MiningInv, NEW m \in Miners, Roll(m) PROVE MiningInv'
<1> DEFINE j == miner[m]
           k == [j EXCEPT !.at = "append"]
<1>1. /\ MinerGoes(m, k) /\ j.at = "roll"
      /\ older' = Kept(deadletter) /\ deadletter' = <<>>
      /\ UNCHANGED <<source, written, recent, through, raced>>
  BY DEF Roll, MinerAt
<1>2. Grows /\ Through' /\ source' \in [Good -> ToSet(Nodes) \cup {Nowhere, "agent"}]
  BY <1>1 DEF Grows, MiningInv, Through
<1>3. Sound(j, source, written) /\ j \in Records
  BY DEF MiningInv, Sound
<1>4. /\ k \in Records /\ k.at = "append" /\ "append" \in Writing /\ "roll" \in Writing
      /\ k.todo = j.todo /\ k.output = j.output /\ k.unread = j.unread /\ k.edges = j.edges
  BY <1>3 DEF Records, Stages, Writing
<1> HIDE DEF k
<1>5. Sound(k, source', written')
  BY <1>1, <1>3, <1>4 DEF Sound, Dealt
<1>6. /\ miner' = [miner EXCEPT ![m] = k] /\ miner \in [Miners -> Records]
      /\ miner' \in [Miners -> Records]
      /\ \A n \in Miners : Sound(miner'[n], source', written')
  BY <1>1, <1>2, <1>5, MinersSound
<1>7. /\ deadletter \in Seq(Letters) /\ older \in Seq(Letters) /\ recent \in Seq(Letters)
      /\ Len(recent) <= CAP
      /\ deadletter' \in Seq(Letters) /\ older' \in Seq(Letters)
  BY <1>1, EmptySeq DEF MiningInv, Kept
<1>8. ASSUME ~raced' PROVE InOrder'
  <2>1. /\ InOrder /\ Len(deadletter) >= CAP
        /\ \A n \in Miners \ {m} : miner'[n] = miner[n] /\ miner[n].at \notin Writing
    BY <1>1, <1>4, <1>6, <1>8 DEF MiningInv, InOrder
  <2>2. Len(deadletter) \in Nat /\ Len(recent) \in Nat /\ DOMAIN recent = 1 .. Len(recent)
    BY <1>7, SeqIn
  <2>3. Len(recent) <= Len(deadletter)
    BY <1>7, <2>1, <2>2, CapAssumption
  <2>4. ToSet(recent) \subseteq ToSet(deadletter)
    BY <1>7, <2>1, <2>3, FollowsWithin DEF InOrder
  <2>5. ToSet(recent) \subseteq ToSet(older')
    <3>1. CASE deadletter = <<>>
      <4>1. Len(recent) = 0
        BY <2>2, <2>3, <3>1
      <4>2. DOMAIN recent = {}
        BY <2>2, <4>1
      <4> QED
        BY <4>2 DEF ToSet
    <3>2. CASE deadletter # <<>>
      BY <1>1, <2>4, <3>2 DEF Kept
    <3> QED
      BY <3>1, <3>2
  <2>6. ASSUME NEW i \in 1 .. Len(recent)
        PROVE  recent[i] \in ToSet(older') /\ ~(Len(recent) - i < 0)
    <3>1. recent[i] \in ToSet(recent)
      BY <2>2 DEF ToSet
    <3> QED
      BY <2>2, <2>5, <3>1
  <2>7. Follows(recent', deadletter', older')
    BY <1>1, <2>2, <2>6 DEF Follows
  <2>8. \A n \in Miners : miner'[n].at \in Writing => n = m
    BY <2>1
  <2>9. miner'[m].at = "append"
    BY <1>4, <1>6
  <2> QED
    BY <2>7, <2>8, <2>9, <1>4 DEF InOrder
<1> QED
  BY <1>1, <1>2, <1>6, <1>7, <1>8 DEF MiningInv

\* A letter is written at the end of the file, and forgotten no sooner than CAP
\* others were written.
LEMMA WriteInv == ASSUME MiningInv, NEW m \in Miners, Write(m) PROVE MiningInv'
<1> DEFINE j == miner[m]
           k == [j EXCEPT !.at = "read", !.unread = Tail(@)]
           l == Letter(Head(j.todo), Head(j.unread))
           last == Append(recent, l)
<1>1. /\ MinerGoes(m, k) /\ j.at = "append"
      /\ deadletter' = Append(deadletter, l) /\ written' = written \cup {l}
      /\ recent' = IF Len(last) > CAP THEN Tail(last) ELSE last
      /\ UNCHANGED <<source, older, through, raced>>
  BY DEF Write, MinerAt, Triple, Node
<1>2. Grows /\ Through' /\ source' \in [Good -> ToSet(Nodes) \cup {Nowhere, "agent"}]
  BY <1>1 DEF Grows, MiningInv, Through
<1>3. /\ Sound(j, source, written) /\ j \in Records
      /\ "append" \in Writing /\ "roll" \in Writing /\ "read" \notin Writing
  BY DEF MiningInv, Sound, Writing
<1>4. j.todo # <<>> /\ j.unread # <<>> /\ Head(j.unread) \notin Good
  BY <1>1, <1>3 DEF Sound
<1>5. /\ Head(j.unread) \in Whats /\ Tail(j.unread) \in Seq(Whats)
      /\ ToSet(j.unread) = {Head(j.unread)} \cup ToSet(Tail(j.unread))
  BY <1>3, <1>4, FirstAndRest DEF Records
<1>6. l \in Letters
  <2>1. Head(j.todo) \in ToSet(Nodes)
    BY <1>3, <1>4, FirstAndRest DEF Records
  <2> QED
    BY <1>5, <2>1 DEF Letters, Letter
<1>7. /\ k \in Records /\ k.at = "read"
      /\ k.todo = j.todo /\ k.output = j.output /\ k.unread = Tail(j.unread) /\ k.edges = j.edges
  BY <1>3, <1>5 DEF Records, Stages
<1> HIDE DEF k
<1>8. Sound(k, source', written')
  <2>1. ASSUME NEW w \in ToSet(k.output) PROVE Dealt(k, w, source', written')
    <3>1. Dealt(j, w, source, written)
      BY <1>1, <1>3, <1>7 DEF Sound
    <3> QED
      BY <1>1, <1>4, <1>5, <1>7, <3>1 DEF Dealt
  <2> QED
    BY <1>3, <1>4, <1>7, <2>1 DEF Sound
<1>9. /\ miner' = [miner EXCEPT ![m] = k] /\ miner \in [Miners -> Records]
      /\ miner' \in [Miners -> Records]
      /\ \A n \in Miners : Sound(miner'[n], source', written')
  BY <1>1, <1>2, <1>8, MinersSound
<1>10. /\ deadletter \in Seq(Letters) /\ older \in Seq(Letters) /\ recent \in Seq(Letters)
       /\ Len(recent) <= CAP
  BY DEF MiningInv
<1> HIDE DEF l
<1>11. /\ deadletter' \in Seq(Letters) /\ Len(deadletter') = Len(deadletter) + 1
       /\ last \in Seq(Letters) /\ Len(last) = Len(recent) + 1
       /\ Len(deadletter) \in Nat /\ Len(recent) \in Nat
  BY <1>1, <1>6, <1>10, OneMore, SeqIn
<1> HIDE DEF last
<1>12. last # <<>>
  BY <1>11
<1>13. recent' \in Seq(Letters) /\ Len(recent') <= CAP
  BY <1>1, <1>10, <1>11, <1>12, FirstAndRest, CapAssumption
<1>14. ASSUME ~raced' PROVE InOrder'
  <2>1. /\ InOrder
        /\ \A n \in Miners \ {m} : miner'[n] = miner[n] /\ miner[n].at \notin Writing
    BY <1>1, <1>3, <1>9, <1>14 DEF MiningInv, InOrder
  <2>2. Follows(last, deadletter', older)
    BY <1>1, <1>6, <1>10, <2>1, FollowsOn DEF InOrder, last
  <2>3. Follows(Tail(last), deadletter', older)
    BY <1>11, <1>12, <2>2, FollowsTail
  <2>4. Follows(recent', deadletter', older')
    BY <1>1, <2>2, <2>3
  <2>5. \A n \in Miners : miner'[n].at \notin Writing
    BY <1>3, <1>7, <1>9, <2>1
  <2> QED
    BY <1>3, <2>4, <2>5 DEF InOrder
<1> QED
  BY <1>1, <1>2, <1>9, <1>10, <1>11, <1>13, <1>14 DEF MiningInv

\* A triple that is staged is not lost, whoever was first.
LEMMA StagedGrows ==
    ASSUME MiningInv, NEW t \in Good, NEW from \in ToSet(Nodes) \cup {"agent"}, Staged(t, from),
           UNCHANGED <<written, through>>
    PROVE  /\ Grows /\ Through' /\ source'[t] # Nowhere
           /\ source' \in [Good -> ToSet(Nodes) \cup {Nowhere, "agent"}]
<1>1. /\ source \in [Good -> ToSet(Nodes) \cup {Nowhere, "agent"}]
      /\ source' = [source EXCEPT ![t] = IF @ = Nowhere THEN from ELSE @]
      /\ from # Nowhere
  BY NodesAssumption DEF MiningInv, Staged, Nowhere
<1>2. Grows
  BY <1>1 DEF Grows
<1>3. Through'
  BY <1>2, StaysThrough DEF MiningInv
<1> QED
  BY <1>1, <1>2, <1>3

LEMMA StageInv == ASSUME MiningInv, NEW m \in Miners, Stage(m) PROVE MiningInv'
<1> DEFINE j == miner[m]
           k == [j EXCEPT !.edges = Tail(@)]
<1>1. /\ MinerGoes(m, k) /\ j.at = "read" /\ j.edges # <<>>
      /\ Staged(Head(j.edges), Head(j.todo))
      /\ UNCHANGED <<deadletter, older, written, recent, through, raced>>
  BY DEF Stage, ReadAll, MinerAt, Node
<1>2. Sound(j, source, written) /\ j \in Records
  BY DEF MiningInv, Sound
<1>3. /\ Head(j.edges) \in Good /\ Tail(j.edges) \in Seq(Good)
      /\ ToSet(j.edges) = {Head(j.edges)} \cup ToSet(Tail(j.edges))
  BY <1>1, <1>2, FirstAndRest DEF Records
<1>4. Head(j.todo) \in ToSet(Nodes)
  BY <1>1, <1>2, FirstAndRest DEF Records, Sound
<1>5. /\ Grows /\ Through' /\ source'[Head(j.edges)] # Nowhere
      /\ source' \in [Good -> ToSet(Nodes) \cup {Nowhere, "agent"}]
  BY <1>1, <1>3, <1>4, StagedGrows
<1>6. /\ k \in Records /\ k.at = "read"
      /\ k.todo = j.todo /\ k.output = j.output /\ k.unread = j.unread /\ k.edges = Tail(j.edges)
  BY <1>1, <1>2, <1>3 DEF Records
<1> HIDE DEF k
<1>7. Sound(k, source', written') /\ k.at \notin Writing
  <2>1. ASSUME NEW w \in ToSet(k.output) PROVE Dealt(k, w, source', written')
    <3>1. Dealt(j, w, source, written)
      BY <1>1, <1>2, <1>6 DEF Sound
    <3> QED
      BY <1>1, <1>3, <1>5, <1>6, <3>1 DEF Dealt, Grows
  <2> QED
    BY <1>1, <1>2, <1>6, <2>1 DEF Sound, Writing
<1> QED
  BY <1>1, <1>5, <1>7, QuietStep

\* The miner is through with a node when it has nothing left to read or to stage.
LEMMA NextNodeInv == ASSUME MiningInv, NEW m \in Miners, NextNode(m) PROVE MiningInv'
<1> DEFINE j == miner[m]
           rest == Tail(j.todo)
           k == IF rest = <<>> THEN Unbusy ELSE [Unbusy EXCEPT !.at = "call", !.todo = rest]
<1>1. /\ MinerGoes(m, k) /\ j.at = "read" /\ j.unread = <<>> /\ j.edges = <<>>
      /\ through' = through \cup {Letter(Head(j.todo), t) : t \in ToSet(j.output)}
      /\ UNCHANGED <<source, deadletter, older, written, recent, raced>>
  BY DEF NextNode, ReadAll, MinerAt, Node
<1>2. Sound(j, source, written) /\ j \in Records
  BY DEF MiningInv, Sound
<1>3. rest \in Seq(ToSet(Nodes))
  BY <1>1, <1>2, FirstAndRest DEF Records, Sound
<1> HIDE DEF rest
<1>4. k \in Records /\ k.at \notin Writing \cup {"read"} /\ (k.at # "rest" => k.todo # <<>>)
  BY <1>3, EmptySeq DEF Unbusy, Records, Stages, Writing
<1> HIDE DEF k
<1>5. Sound(k, source', written') /\ k.at \notin Writing
  BY <1>4 DEF Sound, Writing
<1>6. Grows
  BY <1>1 DEF Grows
<1>7. Through'
  <2>1. ToSet(<<>>) = {}
    BY DEF ToSet
  <2>2. ASSUME NEW t \in ToSet(j.output)
        PROVE  IF t \in Good THEN source[t] # Nowhere ELSE Letter(Head(j.todo), t) \in written
    BY <1>1, <1>2, <2>1 DEF Sound, Dealt
  <2>3. ASSUME NEW l \in through'
        PROVE  IF l.what \in Good THEN source[l.what] # Nowhere ELSE l \in written
    <3>1. CASE l \in through
      BY <3>1 DEF MiningInv, Through
    <3>2. CASE \E t \in ToSet(j.output) : l = Letter(Head(j.todo), t)
      BY <2>2, <3>2 DEF Letter
    <3> QED
      BY <1>1, <3>1, <3>2
  <2> QED
    BY <1>1, <2>3 DEF Through
<1>8. source' \in [Good -> ToSet(Nodes) \cup {Nowhere, "agent"}]
  BY <1>1 DEF MiningInv
<1> QED
  BY <1>1, <1>5, <1>6, <1>7, <1>8, QuietStep

LEMMA MinerDiesInv == ASSUME MiningInv, NEW m \in Miners, MinerDies(m) PROVE MiningInv'
<1>1. /\ MinerGoes(m, Unbusy)
      /\ UNCHANGED <<source, deadletter, older, written, recent, through, raced>>
  BY DEF MinerDies
<1>2. Grows /\ Through' /\ source' \in [Good -> ToSet(Nodes) \cup {Nowhere, "agent"}]
  BY <1>1 DEF Grows, MiningInv, Through
<1>3. Sound(Unbusy, source', written') /\ Unbusy.at \notin Writing
  BY UnbusySound DEF Unbusy, Writing
<1> QED
  BY <1>1, <1>2, <1>3, QuietStep

LEMMA ProposeInv == ASSUME MiningInv, NEW t \in Good, Propose(t) PROVE MiningInv'
<1>1. /\ Staged(t, "agent")
      /\ UNCHANGED <<miner, deadletter, older, written, recent, through, raced>>
  BY DEF Propose
<1>2. Grows /\ Through' /\ source' \in [Good -> ToSet(Nodes) \cup {Nowhere, "agent"}]
  BY <1>1, StagedGrows
<1>3. ASSUME NEW m \in Miners PROVE Sound(miner[m], source', written')
  BY <1>2, StaysSound DEF MiningInv
<1>4. raced' \/ InOrder'
  BY <1>1 DEF MiningInv, InOrder
<1> QED
  BY <1>1, <1>2, <1>3, <1>4 DEF MiningInv

LEMMA MiningNextInv == ASSUME MiningInv, [MiningNext]_mvars PROVE MiningInv'
<1>1. CASE \E m \in Miners : Mine(m) \/ MinerDies(m)
  BY <1>1, MineInv, MinerDiesInv
<1>2. CASE \E m \in Miners : MinesOn(m)
  BY <1>2, ExtractInv, AcceptInv, StatInv, RollInv, WriteInv, StageInv, NextNodeInv DEF MinesOn
<1>3. CASE \E t \in Good : Propose(t)
  BY <1>3, ProposeInv
<1>4. CASE UNCHANGED mvars
  BY <1>4 DEF mvars, MiningInv, Through, InOrder
<1> QED
  BY <1>1, <1>2, <1>3, <1>4 DEF MiningNext

LEMMA MiningInvHolds == MiningSpec => []MiningInv
<1>1. MiningInit => MiningInv
  BY MiningInitInv
<1>2. MiningInv /\ [MiningNext]_mvars => MiningInv'
  BY MiningNextInv
<1> QED
  BY <1>1, <1>2, PTL DEF MiningSpec

LEMMA BothFiles ==
    ASSUME NEW S, NEW d \in Seq(S), NEW o \in Seq(S)
    PROVE  ToSet(d) \cup ToSet(o) \subseteq ToSet(d \o o)
<1>1. /\ d \o o \in Seq(S) /\ Len(d \o o) = Len(d) + Len(o)
      /\ \A i \in 1 .. Len(d) : (d \o o)[i] = d[i]
      /\ \A i \in 1 .. Len(o) : (d \o o)[Len(d) + i] = o[i]
  BY ConcatProperties
<1> DEFINE c == d \o o
<1> HIDE DEF c
<1>2. /\ Len(d) \in Nat /\ DOMAIN d = 1 .. Len(d)
      /\ Len(o) \in Nat /\ DOMAIN o = 1 .. Len(o)
      /\ DOMAIN c = 1 .. (Len(d) + Len(o))
  BY <1>1, SeqIn DEF c
<1>3. \A i \in DOMAIN d : i \in DOMAIN c /\ c[i] = d[i]
  BY <1>1, <1>2 DEF c
<1>4. \A i \in DOMAIN o : Len(d) + i \in DOMAIN c /\ c[Len(d) + i] = o[i]
  BY <1>1, <1>2 DEF c
<1>5. ToSet(d) \cup ToSet(o) \subseteq ToSet(c)
  BY <1>3, <1>4 DEF ToSet
<1> QED
  BY <1>5 DEF c

\* Whatever calls fail and miners die, nothing that the program said of a node is
\* lost, and unless miners write at once the last CAP letters are in one of the
\* two files (extract.py, mine and _deadletter).
THEOREM UnminedTheorem == MiningSpec => []NothingUnmined
<1>1. ASSUME MiningInv PROVE NothingUnmined
  <2>1. Through /\ (raced \/ InOrder)
    BY <1>1, Zenon DEF MiningInv
  <2>2. ASSUME InOrder PROVE ToSet(recent) \subseteq ToSet(deadletter \o older)
    <3>1. /\ deadletter \in Seq(Letters) /\ older \in Seq(Letters) /\ recent \in Seq(Letters)
          /\ Follows(recent, deadletter, older)
      BY <1>1, <2>2 DEF MiningInv, InOrder
    <3>2. ToSet(recent) \subseteq ToSet(deadletter) \cup ToSet(older)
      BY <3>1, FollowsWithin
    <3>3. ToSet(deadletter) \cup ToSet(older) \subseteq ToSet(deadletter \o older)
      BY <3>1, BothFiles
    <3> QED
      BY <3>2, <3>3
  <2> QED
    BY <2>1, <2>2, Zenon DEF Through, NothingUnmined
<1> QED
  BY <1>1, MiningInvHolds, PTL

-----------------------------------------------------------------------------
(* What the miners keep well typed.                                           *)

\* Every letter in the files was written, and everything written or done with is
\* about something the program said of a prose node.
Filed ==
    /\ ToSet(deadletter) \subseteq written /\ ToSet(older) \subseteq written
    /\ ToSet(recent) \subseteq written
    /\ written \subseteq Letters /\ through \subseteq Letters

LEMMA NothingFiled == ToSet(<<>>) = {}
  BY DEF ToSet

LEMMA WriteFiled == ASSUME MiningInv, Filed, NEW m \in Miners, Write(m) PROVE Filed'
<1> DEFINE j == miner[m]
           l == Letter(Head(j.todo), Head(j.unread))
           last == Append(recent, l)
<1>1. /\ j.at = "append"
      /\ deadletter' = Append(deadletter, l) /\ written' = written \cup {l}
      /\ recent' = IF Len(last) > CAP THEN Tail(last) ELSE last
      /\ UNCHANGED <<older, through>>
  BY DEF Write, MinerAt, Triple, Node
<1>2. l \in Letters
  <2>1. Sound(j, source, written) /\ j \in Records /\ "append" \in Writing
    BY DEF MiningInv, Sound, Writing
  <2>2. j.todo # <<>> /\ j.unread # <<>>
    BY <1>1, <2>1 DEF Sound
  <2>3. Head(j.todo) \in ToSet(Nodes) /\ Head(j.unread) \in Whats
    BY <2>1, <2>2, FirstAndRest DEF Records
  <2> QED
    BY <2>3 DEF Letters, Letter
<1>3. deadletter \in Seq(Letters) /\ recent \in Seq(Letters)
  BY DEF MiningInv
<1> HIDE DEF l
<1>4. ToSet(deadletter') = ToSet(deadletter) \cup {l}
  BY <1>1, <1>2, <1>3, OneMore
<1>5. /\ ToSet(last) = ToSet(recent) \cup {l} /\ last \in Seq(Letters)
      /\ Len(last) = Len(recent) + 1 /\ Len(recent) \in Nat
  BY <1>2, <1>3, OneMore, SeqIn
<1> HIDE DEF last
<1>6. ToSet(Tail(last)) \subseteq ToSet(last)
  <2>1. last # <<>>
    BY <1>5
  <2> QED
    BY <1>5, <2>1, FirstAndRest
<1>7. ToSet(recent') \subseteq ToSet(recent) \cup {l}
  BY <1>1, <1>5, <1>6
<1> QED
  BY <1>1, <1>2, <1>4, <1>7 DEF Filed

LEMMA NextNodeFiled == ASSUME MiningInv, Filed, NEW m \in Miners, NextNode(m) PROVE Filed'
<1> DEFINE j == miner[m]
<1>1. /\ j.at = "read"
      /\ through' = through \cup {Letter(Head(j.todo), t) : t \in ToSet(j.output)}
      /\ UNCHANGED <<deadletter, older, written, recent>>
  BY DEF NextNode, ReadAll, MinerAt, Node
<1>2. Sound(j, source, written) /\ j \in Records
  BY DEF MiningInv, Sound
<1>3. Head(j.todo) \in ToSet(Nodes) /\ ToSet(j.output) \subseteq Whats
  BY <1>1, <1>2, FirstAndRest, SeqIn DEF Records, Sound
<1>4. \A t \in ToSet(j.output) : Letter(Head(j.todo), t) \in Letters
  BY <1>3 DEF Letters, Letter
<1> QED
  BY <1>1, <1>4 DEF Filed

LEMMA MiningNextFiled == ASSUME MiningInv, Filed, [MiningNext]_mvars PROVE Filed'
<1>1. CASE UNCHANGED <<deadletter, older, written, recent, through>>
  BY <1>1 DEF Filed
<1>2. ASSUME NEW m \in Miners, Roll(m) PROVE Filed'
  BY <1>2, NothingFiled DEF Roll, Kept, Filed
<1>3. ASSUME NEW m \in Miners, Write(m) PROVE Filed'
  BY <1>3, WriteFiled
<1>4. ASSUME NEW m \in Miners, NextNode(m) PROVE Filed'
  BY <1>4, NextNodeFiled
<1>5. ASSUME NEW m \in Miners, Mine(m) \/ Extract(m) \/ Accept(m) \/ Stat(m) \/ Stage(m) \/ MinerDies(m)
      PROVE  UNCHANGED <<deadletter, older, written, recent, through>>
  BY <1>5 DEF Mine, Extract, Accept, Stat, Stage, MinerDies
<1>6. ASSUME NEW t \in Good, Propose(t)
      PROVE  UNCHANGED <<deadletter, older, written, recent, through>>
  BY <1>6 DEF Propose
<1>7. UNCHANGED mvars => UNCHANGED <<deadletter, older, written, recent, through>>
  BY DEF mvars
<1> QED
  BY <1>1, <1>2, <1>3, <1>4, <1>5, <1>6, <1>7 DEF MiningNext, MinesOn

\* The state of the miners stays well typed: no file ever holds a letter that
\* was not written, and every letter is about a prose node and something the
\* program said (extract.py, _deadletter and mine).
THEOREM MiningTypeTheorem == MiningSpec => []MiningTypeOK
<1>1. MiningInit => Filed
  BY NothingFiled DEF MiningInit, Filed
<1>2. MiningInv /\ Filed /\ [MiningNext]_mvars => Filed'
  BY MiningNextFiled
<1>3. MiningInv /\ Filed => MiningTypeOK
  <2>1. Letters \subseteq {Letter(n, w) : n \in ToSet(Nodes), w \in Triples \cup {"output"}}
    <3> SUFFICES ASSUME NEW l \in Letters
                 PROVE  \E n \in ToSet(Nodes), w \in Triples \cup {"output"} : l = Letter(n, w)
      OBVIOUS
    <3>1. /\ l.node \in ToSet(Nodes) /\ l.what \in Triples \cup {"output"}
          /\ l = Letter(l.node, l.what)
      BY DEF Letters, Letter, Whats
    <3> QED
      BY <3>1
  <2> QED
    BY <2>1 DEF MiningInv, Filed, MiningTypeOK
<1> QED
  BY <1>1, <1>2, <1>3, MiningInvHolds, PTL DEF MiningSpec

-----------------------------------------------------------------------------
(* The scripts that plant nodes: how they are written.                        *)

Planting(x) == x.do \in {"merge", "create"}

\* How a script is written.  It cleans first, or last when it has no `finally`;
\* it plants keys of its own, and before it asks for all of them, with their edges;
\* an edge goes from a key that it planted to another one or to a node it needs.
WellWritten(S) ==
    LET n == Len(S.steps)
    IN  /\ n \in Nat \ {0}
        /\ DOMAIN S.steps = 1 .. n
        /\ S.try = 0 => S.steps[n].do = "clean" /\ n > 1
        /\ \A i \in 1 .. n :
             LET x == S.steps[i]
             IN  /\ x.do \in {"clean", "read", "look", "count", "edge", "merge", "create"}
                 /\ x.do = "clean" => i = 1 \/ (i = n /\ S.try = 0)
                 /\ Planting(x) => x.key \in S.keys
                 /\ x.do = "read" =>
                       /\ \A k \in S.keys : \E j \in 1 .. n : j < i /\ Planting(S.steps[j]) /\ S.steps[j].key = k
                       /\ \A j \in 1 .. n : S.steps[j].do = "edge" => j < i
                       /\ \A j \in 1 .. n : S.steps[j].do = "edge" =>
                            LET e == S.steps[j].edge
                            IN  /\ e = <<e[1], e[2]>>
                                /\ \E h \in 1 .. n : h < j /\ Planting(S.steps[h]) /\ S.steps[h].key = e[1]
                                /\ \/ \E h \in 1 .. n : h < j /\ Planting(S.steps[h]) /\ S.steps[h].key = e[2]
                                   \/ e[2] \in {"cto", "cfo"}
                       /\ \A j \in 1 .. n : S.steps[j] # Look
        /\ \E i \in 1 .. n : S.steps[i].do \in {"read", "look"} /\ (S.try = 0 => i < n)
        /\ "cto" \notin S.keys /\ "cfo" \notin S.keys
        /\ (\E i \in 1 .. n : S.steps[i].do = "count") =>
              /\ n = 3 /\ S.try = 2
              /\ S.steps[1].do = "count" /\ S.steps[3].do = "read"
              /\ S.steps[2].do = "create" /\ S.keys = {S.steps[2].key}

LEMMA PlannerDemoWritten == WellWritten(PlannerDemo)
BY SMTT(60) DEF WellWritten, PlannerDemo, Script, Planting, Count, Created, Read, Look, Merged, Edge, Clean

LEMMA GoldenDraftWritten == WellWritten(GoldenDraft)
BY SMTT(60) DEF WellWritten, GoldenDraft, Script, Planting, Count, Created, Read, Look, Merged, Edge, Clean

LEMMA GuardDemoWritten == WellWritten(GuardDemo)
BY SMTT(60) DEF WellWritten, GuardDemo, Script, Planting, Count, Created, Read, Look, Merged, Edge, Clean

LEMMA AsOfDemoWritten == WellWritten(AsOfDemo)
BY SMTT(60) DEF WellWritten, AsOfDemo, Script, Planting, Count, Created, Read, Look, Merged, Edge, Clean, plant_supersession

LEMMA DecoyDemoWritten == WellWritten(DecoyDemo)
BY SMTT(60) DEF WellWritten, DecoyDemo, Script, Planting, Count, Created, Read, Look, Merged, Edge, Clean

LEMMA OcrDemoWritten == WellWritten(OcrDemo)
BY SMTT(60) DEF WellWritten, OcrDemo, Script, Planting, Count, Created, Read, Look, Merged, Edge, Clean

LEMMA OcrSelftestWritten == WellWritten(OcrSelftest)
BY SMTT(60) DEF WellWritten, OcrSelftest, Script, Planting, Count, Created, Read, Look, Merged, Edge, Clean

LEMMA StampDemoWritten == WellWritten(StampDemo)
BY SMTT(60) DEF WellWritten, StampDemo, Script, Planting, Count, Created, Read, Look, Merged, Edge, Clean

LEMMA HistorySelftestWritten == WellWritten(HistorySelftest)
BY SMTT(60) DEF WellWritten, HistorySelftest, Script, Planting, Count, Created, Read, Look, Merged, Edge, Clean

LEMMA CycleSelftestWritten == WellWritten(CycleSelftest)
BY SMTT(60) DEF WellWritten, CycleSelftest, Script, Planting, Count, Created, Read, Look, Merged, Edge, Clean

LEMMA InvariantSelftestWritten == WellWritten(InvariantSelftest)
BY SMTT(60) DEF WellWritten, InvariantSelftest, Script, Planting, Count, Created, Read, Look, Merged, Edge, Clean

LEMMA TableWritten == \A s \in DOMAIN Table : WellWritten(Table[s])
BY PlannerDemoWritten, GoldenDraftWritten, GuardDemoWritten, AsOfDemoWritten, DecoyDemoWritten, OcrDemoWritten, OcrSelftestWritten, StampDemoWritten, HistorySelftestWritten, CycleSelftestWritten, InvariantSelftestWritten DEF Table

LEMMA EdgesWritten ==
    ASSUME NEW s \in DOMAIN Table
    PROVE  \A e : e \in EdgesOf(s) <=> \E i \in 1 .. Len(Table[s].steps) :
                     Table[s].steps[i].do = "edge" /\ Table[s].steps[i].edge = e
<1>1. DOMAIN Table[s].steps = 1 .. Len(Table[s].steps)
  BY TableWritten DEF WellWritten
<1> QED
  BY <1>1 DEF EdgesOf, ToSet

\* A script that asks needs the officers that its edges go to, and nobody plants them.
LEMMA NeedsWritten ==
    ASSUME NEW s \in DOMAIN Table, NEW i \in 1 .. Len(Table[s].steps), Table[s].steps[i].do = "read"
    PROVE  /\ \A e \in EdgesOf(s) : e[2] \in {"cto", "cfo"} => e[2] \in Needs(s)
           /\ \A t \in DOMAIN Table : {"cto", "cfo"} \cap KeysOf(t) = {}
<1>1. Look \notin ToSet(Table[s].steps)
  BY TableWritten DEF WellWritten, ToSet
<1>2. \A e \in EdgesOf(s) : e[2] \in {"cto", "cfo"} => e[2] \in Needs(s)
  BY <1>1 DEF Needs, RealKeys
<1>3. \A t \in DOMAIN Table : {"cto", "cfo"} \cap KeysOf(t) = {}
  BY TableWritten DEF WellWritten, KeysOf
<1> QED
  BY <1>2, <1>3

\* A script that counts plants one node, which it creates after it counted.
LEMMA CountsWritten ==
    ASSUME NEW s \in DOMAIN Table, Counts(s)
    PROVE  /\ Len(Table[s].steps) = 3 /\ Table[s].try = 2
           /\ Table[s].steps[1].do = "count" /\ Table[s].steps[3].do = "read"
           /\ Table[s].steps[2].do = "create" /\ KeysOf(s) = {Table[s].steps[2].key}
<1>1. PICK i \in 1 .. Len(Table[s].steps) : Table[s].steps[i] = Count
  BY TableWritten DEF Counts, WellWritten, ToSet
<1>2. Table[s].steps[i].do = "count"
  BY <1>1 DEF Count
<1> QED
  BY <1>2, TableWritten DEF WellWritten, KeysOf

-----------------------------------------------------------------------------
(* The nodes of the graph.                                                    *)

CopiesOf(f) == UNION {{k} \X (1 .. f[k]) : k \in DOMAIN f}

LEMMA CopyOf ==
    ASSUME NEW f, NEW c
    PROVE  c \in CopiesOf(f) <=> \E k \in DOMAIN f : \E i \in 1 .. f[k] : c = <<k, i>>
  BY DEF CopiesOf

\* One more copy of a key is one node more,
LEMMA OneCopyMore ==
    ASSUME NEW P, NEW f \in [P -> Nat], NEW k \in P, IsFiniteSet(CopiesOf(f))
    PROVE  LET g == [f EXCEPT ![k] = @ + 1]
           IN  /\ IsFiniteSet(CopiesOf(g))
               /\ Cardinality(CopiesOf(g)) = Cardinality(CopiesOf(f)) + 1
<1> DEFINE g == [f EXCEPT ![k] = @ + 1]
           new == <<k, f[k] + 1>>
<1>1. DOMAIN g = P /\ DOMAIN f = P /\ g[k] = f[k] + 1 /\ \A h \in P : h # k => g[h] = f[h]
  OBVIOUS
<1>2. \A h \in P : f[h] \in Nat
  OBVIOUS
<1> HIDE DEF g
<1>3. ASSUME NEW c \in CopiesOf(g) PROVE c \in CopiesOf(f) \cup {new}
  <2>1. PICK h \in P, i \in Int : i \in 1 .. g[h] /\ c = <<h, i>>
    BY <1>1, CopyOf
  <2>2. CASE h = k /\ i = f[k] + 1
    BY <2>1, <2>2
  <2>3. CASE ~(h = k /\ i = f[k] + 1)
    <3>1. i \in 1 .. f[h]
      BY <1>1, <1>2, <2>1, <2>3
    <3> QED
      BY <1>1, <2>1, <3>1, CopyOf
  <2> QED
    BY <2>2, <2>3
<1>4. ASSUME NEW c \in CopiesOf(f) PROVE c \in CopiesOf(g)
  <2>1. PICK h \in P, i \in Int : i \in 1 .. f[h] /\ c = <<h, i>>
    BY <1>1, CopyOf
  <2>2. i \in 1 .. g[h]
    BY <1>1, <1>2, <2>1
  <2> QED
    BY <1>1, <2>1, <2>2, CopyOf
<1>5. new \in CopiesOf(g)
  <2>1. f[k] + 1 \in 1 .. g[k]
    BY <1>1, <1>2
  <2> QED
    BY <1>1, <2>1, CopyOf
<1>6. new \notin CopiesOf(f)
  <2> SUFFICES ASSUME new \in CopiesOf(f) PROVE FALSE
    OBVIOUS
  <2>1. PICK h \in P, i \in Int : i \in 1 .. f[h] /\ new = <<h, i>>
    BY <1>1, CopyOf
  <2>2. h = k /\ i = f[k] + 1
    BY <2>1
  <2> QED
    BY <1>2, <2>1, <2>2
<1> HIDE DEF new
<1>7. CopiesOf(g) = CopiesOf(f) \cup {new}
  BY <1>3, <1>4, <1>5
<1>8. /\ IsFiniteSet(CopiesOf(f) \cup {new})
      /\ Cardinality(CopiesOf(f) \cup {new}) = Cardinality(CopiesOf(f)) + 1
  BY <1>6, FS_AddElement
<1> QED
  BY <1>7, <1>8 DEF g

\* and a key whose nodes are removed is none: as many less as there were.
LEMMA CopiesGone ==
    ASSUME NEW P, NEW f \in [P -> Nat], NEW K, IsFiniteSet(CopiesOf(f))
    PROVE  LET g == [k \in P |-> IF k \in K THEN 0 ELSE f[k]]
           IN  /\ IsFiniteSet(CopiesOf(g))
               /\ \A h \in P : (K = {h} /\ f[h] = 1) =>
                      Cardinality(CopiesOf(g)) = Cardinality(CopiesOf(f)) - 1
<1> DEFINE g == [k \in P |-> IF k \in K THEN 0 ELSE f[k]]
<1>1. /\ DOMAIN g = P /\ DOMAIN f = P
      /\ \A k \in P : k \in K => g[k] = 0
      /\ \A k \in P : k \notin K => g[k] = f[k]
      /\ \A k \in P : f[k] \in Nat
  OBVIOUS
<1> HIDE DEF g
<1>2. ASSUME NEW c \in CopiesOf(g) PROVE c \in CopiesOf(f) /\ \A h \in K : \A i : c # <<h, i>>
  <2>1. PICK h \in P, i \in Int : i \in 1 .. g[h] /\ c = <<h, i>>
    BY <1>1, CopyOf
  <2>2. h \notin K /\ i \in 1 .. f[h]
    BY <1>1, <2>1
  <2> QED
    BY <1>1, <2>1, <2>2, CopyOf
<1>3. IsFiniteSet(CopiesOf(g))
  <2>1. CopiesOf(g) \in SUBSET CopiesOf(f)
    BY <1>2
  <2> QED
    BY <2>1, FS_Subset
<1>4. ASSUME NEW h \in P, K = {h}, f[h] = 1
      PROVE  Cardinality(CopiesOf(g)) = Cardinality(CopiesOf(f)) - 1
  <2>1. <<h, 1>> \in CopiesOf(f)
    <3>1. 1 \in 1 .. f[h]
      BY <1>4
    <3> QED
      BY <1>1, <3>1, CopyOf
  <2>2. ASSUME NEW c \in CopiesOf(f), c # <<h, 1>> PROVE c \in CopiesOf(g)
    <3>1. PICK k \in P, i \in Int : i \in 1 .. f[k] /\ c = <<k, i>>
      BY <1>1, CopyOf
    <3>2. k # h
      BY <1>4, <2>2, <3>1
    <3>3. i \in 1 .. g[k]
      BY <1>1, <1>4, <3>1, <3>2
    <3> QED
      BY <1>1, <3>1, <3>3, CopyOf
  <2>3. ASSUME NEW c \in CopiesOf(g) PROVE c \in CopiesOf(f) \ {<<h, 1>>}
    BY <1>2, <1>4
  <2>4. CopiesOf(g) = CopiesOf(f) \ {<<h, 1>>}
    BY <2>2, <2>3
  <2>5. Cardinality(CopiesOf(f) \ {<<h, 1>>}) = Cardinality(CopiesOf(f)) - 1
    BY <2>1, FS_RemoveElement
  <2> QED
    BY <2>4, <2>5
<1> QED
  BY <1>3, <1>4 DEF g

-----------------------------------------------------------------------------
(* The fixtures.                                                              *)

Places == {"rest", "steps", "final", "compare", "ended"}

Runs == [at : Places, pc : Nat, counted : Nat, found : BOOLEAN, ok : BOOLEAN,
         failed : BOOLEAN, hampered : BOOLEAN, disturbed : BOOLEAN]

StepsOf(s) == Table[s].steps
ReadsBack(s) == \E i \in 1 .. Len(StepsOf(s)) : StepsOf(s)[i].do = "read"

FixturesShape ==
    /\ Scripts \subseteq DOMAIN Table
    /\ run \in [Scripts -> Runs]
    /\ planted \in [PlantedKeys -> Nat]
    /\ real \subseteq RealKeys
    /\ IsFiniteSet(Copies)
    /\ \A s \in Scripts : run[s].at = "steps" => run[s].pc \in 1 .. Len(StepsOf(s))

\* A planted node has a script that will remove it or did not.  A script that
\* compares has removed its own.
Owned ==
    \A k \in PlantedKeys : planted[k] > 0 =>
       \E s \in Scripts : k \in KeysOf(s) /\ (run[s].at \in {"steps", "final"} \/ s \in abandoned)

\* One node more than a script counted: its own.
OneAbove(s) == Total = run[s].counted + 1 /\ \A k \in KeysOf(s) : planted[k] = 1

\* What the statements that a script has behind it did.
SoFar(s) ==
    /\ KeysOf(s) \cap real = {} /\ Needs(s) \subseteq real
    /\ \A h \in 1 .. (run[s].pc - 1) :
          /\ Planting(StepsOf(s)[h]) => planted[StepsOf(s)[h].key] > 0
          /\ StepsOf(s)[h].do = "edge" /\ ReadsBack(s) => StepsOf(s)[h].edge \in edges
          /\ StepsOf(s)[h].do \in {"read", "look"} => run[s].found
    /\ Counts(s) => /\ ~run[s].found
                    /\ run[s].pc < 3 => \A k \in KeysOf(s) : planted[k] = 0
                    /\ run[s].pc = 2 => run[s].counted = Total
                    /\ run[s].pc = 3 => OneAbove(s)

\* A script that nobody disturbs or hampers is on its way to pass.
Promising(s) ==
    ~run[s].disturbed /\ ~run[s].hampered =>
       /\ run[s].at = "steps" => SoFar(s)
       /\ run[s].at = "final" => /\ run[s].found \/ run[s].failed
                                 /\ run[s].found /\ Counts(s) => OneAbove(s)
       /\ run[s].at = "compare" => run[s].found /\ Counts(s) /\ run[s].counted = Total
       /\ run[s].at = "ended" => run[s].ok \/ run[s].failed

FixInv == FixturesShape /\ Owned /\ \A s \in Scripts : Promising(s)

\* An edge is lost only with a node of one of its ends.
Mild ==
    \A e \in edges : e[1] \in PlantedKeys =>
       \/ e \in edges'
       \/ \E k \in {e[1], e[2]} : (k \in real') # (k \in real) \/ (k \in PlantedKeys /\ planted'[k] = 0)

LEMMA RealFinite == ASSUME NEW S \in SUBSET RealKeys PROVE IsFiniteSet(S)
<1>1. IsFiniteSet({})
  BY FS_EmptySet
<1>2. IsFiniteSet({} \cup {"cto"})
  BY <1>1, FS_AddElement
<1>3. IsFiniteSet(({} \cup {"cto"}) \cup {"cfo"})
  BY <1>2, FS_AddElement
<1>4. IsFiniteSet((({} \cup {"cto"}) \cup {"cfo"}) \cup {"issue"})
  BY <1>3, FS_AddElement
<1>5. IsFiniteSet(((({} \cup {"cto"}) \cup {"cfo"}) \cup {"issue"}) \cup {"obs1"})
  BY <1>4, FS_AddElement
<1>6. RealKeys = ((({} \cup {"cto"}) \cup {"cfo"}) \cup {"issue"}) \cup {"obs1"}
  BY DEF RealKeys
<1>7. IsFiniteSet(RealKeys)
  BY <1>5, <1>6
<1> QED
  BY <1>7, FS_Subset

LEMMA TotalType == ASSUME FixturesShape PROVE Total \in Nat
<1>1. IsFiniteSet(real)
  BY RealFinite DEF FixturesShape
<1> QED
  BY <1>1, FS_CardinalityType DEF FixturesShape, Total

\* What a step of t is for the scripts.
LEMMA RunAfter ==
    ASSUME FixturesShape, NEW t, NEW step, ScriptGoes(t, step)
    PROVE  /\ Scripts' = Scripts /\ PlantedKeys' = PlantedKeys
           /\ t \in Scripts => run'[t] = step
           /\ \A s \in Scripts : s # t => run'[s] = [run[s] EXCEPT !.disturbed = @ \/ Touched(s)]
           /\ run' = [s \in Scripts |-> run'[s]]
<1>1. run' = [s \in Scripts |-> IF s = t THEN step
                                ELSE [run[s] EXCEPT !.disturbed = @ \/ Touched(s)]]
  BY DEF ScriptGoes
<1>2. Scripts' = Scripts
  BY <1>1 DEF Scripts
<1>3. PlantedKeys' = PlantedKeys
  BY <1>2 DEF PlantedKeys
<1> QED
  BY <1>1, <1>2, <1>3

LEMMA TouchedBoolean == ASSUME NEW s PROVE Touched(s) \in BOOLEAN
  BY DEF Touched

\* The others stay on their way.
LEMMA StaysPromising ==
    ASSUME FixturesShape, NEW s \in Scripts, Promising(s), Mild, PlantedKeys' = PlantedKeys,
           run'[s] = [run[s] EXCEPT !.disturbed = @ \/ Touched(s)]
    PROVE  Promising(s)'
<1> DEFINE r == run[s]
           q == run'[s]
<1>1. r \in Runs /\ s \in DOMAIN Table /\ KeysOf(s) \subseteq PlantedKeys
  BY DEF FixturesShape, PlantedKeys
<1>2. /\ q.at = r.at /\ q.pc = r.pc /\ q.counted = r.counted /\ q.found = r.found
      /\ q.ok = r.ok /\ q.failed = r.failed /\ q.hampered = r.hampered
      /\ ~q.disturbed => ~r.disturbed /\ ~Touched(s)
  BY <1>1 DEF Runs
<1> HIDE DEF q, r
<1> SUFFICES ASSUME ~q.disturbed, ~q.hampered
             PROVE  /\ q.at = "steps" => SoFar(s)'
                    /\ q.at = "final" => /\ q.found \/ q.failed
                                         /\ q.found /\ Counts(s) => OneAbove(s)'
                    /\ q.at = "compare" => q.found /\ Counts(s) /\ q.counted = Total'
                    /\ q.at = "ended" => q.ok \/ q.failed
  BY DEF Promising, q, Counts
<1>3. /\ \A k \in KeysOf(s) : planted'[k] = planted[k]
      /\ \A k \in Needs(s) \cup KeysOf(s) : k \in real' <=> k \in real
      /\ Counts(s) => Total' = Total
  BY <1>2 DEF Touched
<1>4. /\ r.at = "steps" => SoFar(s)
      /\ r.at = "final" => /\ r.found \/ r.failed
                           /\ r.found /\ Counts(s) => OneAbove(s)
      /\ r.at = "compare" => r.found /\ Counts(s) /\ r.counted = Total
      /\ r.at = "ended" => r.ok \/ r.failed
  BY <1>2 DEF Promising, r
<1>5. Counts(s) /\ OneAbove(s) => OneAbove(s)'
  BY <1>2, <1>3 DEF OneAbove, q, r
<1>6. ASSUME r.at = "steps" PROVE SoFar(s)'
  <2>1. /\ SoFar(s) /\ r.pc \in 1 .. Len(StepsOf(s)) /\ Len(StepsOf(s)) \in Nat
    BY <1>1, <1>4, <1>6, TableWritten DEF FixturesShape, r, WellWritten, StepsOf
  <2>2. ASSUME NEW h \in 1 .. (r.pc - 1), StepsOf(s)[h].do = "edge", ReadsBack(s)
        PROVE  StepsOf(s)[h].edge \in edges'
    <3> DEFINE e == StepsOf(s)[h].edge
    <3>1. PICK i \in 1 .. Len(StepsOf(s)) : StepsOf(s)[i].do = "read"
      BY <2>2 DEF ReadsBack
    <3>2. h \in 1 .. Len(StepsOf(s))
      BY <2>1
    <3>3. /\ \E g \in 1 .. Len(StepsOf(s)) : g < h /\ Planting(StepsOf(s)[g]) /\ StepsOf(s)[g].key = e[1]
          /\ \/ \E g \in 1 .. Len(StepsOf(s)) : g < h /\ Planting(StepsOf(s)[g]) /\ StepsOf(s)[g].key = e[2]
             \/ e[2] \in {"cto", "cfo"}
      BY <1>1, <2>2, <3>1, <3>2, TableWritten DEF WellWritten, StepsOf
    <3>4. e \in edges
      BY <2>1, <2>2 DEF SoFar, r
    <3>5. ASSUME NEW g \in 1 .. Len(StepsOf(s)), g < h, Planting(StepsOf(s)[g])
          PROVE  /\ StepsOf(s)[g].key \in KeysOf(s)
                 /\ planted'[StepsOf(s)[g].key] # 0
                 /\ (StepsOf(s)[g].key \in real') <=> (StepsOf(s)[g].key \in real)
      <4>1. g \in 1 .. (r.pc - 1)
        BY <2>1, <3>2, <3>5
      <4>2. planted[StepsOf(s)[g].key] > 0
        BY <2>1, <3>5, <4>1 DEF SoFar, r
      <4>3. StepsOf(s)[g].key \in KeysOf(s)
        BY <1>1, <3>5, TableWritten DEF WellWritten, StepsOf, KeysOf
      <4> QED
        BY <1>1, <1>3, <4>2, <4>3 DEF FixturesShape
    <3>6. e[1] \in KeysOf(s) /\ planted'[e[1]] # 0 /\ ((e[1] \in real') <=> (e[1] \in real))
      BY <3>3, <3>5
    <3>7. ((e[2] \in real') <=> (e[2] \in real)) /\ (e[2] \in PlantedKeys => planted'[e[2]] # 0)
      <4>1. CASE e[2] \in {"cto", "cfo"}
        <5>1. e \in EdgesOf(s)
          BY <1>1, <2>2, <3>2, EdgesWritten DEF StepsOf
        <5>2. e[2] \in Needs(s)
          BY <1>1, <3>1, <4>1, <5>1, NeedsWritten DEF StepsOf
        <5>3. \A t \in DOMAIN Table : e[2] \notin KeysOf(t)
          BY <1>1, <3>1, <4>1, NeedsWritten DEF StepsOf
        <5>4. e[2] \notin PlantedKeys
          BY <5>3 DEF PlantedKeys, FixturesShape
        <5> QED
          BY <1>3, <5>2, <5>4
      <4>2. CASE e[2] \notin {"cto", "cfo"}
        BY <3>3, <3>5, <4>2
      <4> QED
        BY <4>1, <4>2
    <3> QED
      BY <1>1, <3>4, <3>6, <3>7 DEF Mild
  <2>3. ASSUME NEW h \in 1 .. (r.pc - 1)
        PROVE  /\ Planting(StepsOf(s)[h]) => planted'[StepsOf(s)[h].key] > 0
               /\ StepsOf(s)[h].do \in {"read", "look"} => r.found
    <3>1. Planting(StepsOf(s)[h]) => StepsOf(s)[h].key \in KeysOf(s)
      BY <1>1, <2>1, TableWritten DEF WellWritten, StepsOf, KeysOf
    <3> QED
      BY <1>3, <2>1, <3>1 DEF SoFar, r
  <2>4. /\ KeysOf(s) \cap real' = {} /\ Needs(s) \subseteq real'
    BY <1>3, <2>1 DEF SoFar
  <2>5. Counts(s) => /\ ~r.found
                     /\ r.pc < 3 => \A k \in KeysOf(s) : planted'[k] = 0
                     /\ r.pc = 2 => r.counted = Total'
                     /\ r.pc = 3 => OneAbove(s)'
    BY <1>3, <1>5, <2>1 DEF SoFar, r
  <2> QED
    BY <1>2, <2>2, <2>3, <2>4, <2>5 DEF SoFar, q
<1> QED
  BY <1>2, <1>3, <1>4, <1>5, <1>6

\* A step of t leaves the invariant true when it does its part.
LEMMA StepKeepsFixtures ==
    ASSUME FixInv, NEW t, NEW step, ScriptGoes(t, step),
           t \in Scripts => /\ step \in Runs
                            /\ step.at = "steps" => step.pc \in 1 .. Len(StepsOf(t))
                            /\ Promising(t)',
           planted' \in [PlantedKeys -> Nat], real' \subseteq RealKeys, IsFiniteSet(Copies'),
           Mild, Owned'
    PROVE  FixInv'
<1>1. FixturesShape /\ \A s \in Scripts : Promising(s)
  BY DEF FixInv
<1>2. /\ Scripts' = Scripts /\ PlantedKeys' = PlantedKeys
      /\ t \in Scripts => run'[t] = step
      /\ \A s \in Scripts : s # t => run'[s] = [run[s] EXCEPT !.disturbed = @ \/ Touched(s)]
      /\ run' = [s \in Scripts |-> run'[s]]
  BY <1>1, RunAfter
<1>3. ASSUME NEW s \in Scripts PROVE Promising(s)'
  <2>1. CASE s = t
    BY <2>1
  <2>2. CASE s # t
    BY <1>1, <1>2, <2>2, StaysPromising
  <2> QED
    BY <2>1, <2>2
<1>4. ASSUME NEW s \in Scripts
      PROVE  run'[s] \in Runs /\ (run'[s].at = "steps" => run'[s].pc \in 1 .. Len(StepsOf(s)))
  <2>1. CASE s = t
    BY <1>2, <2>1
  <2>2. CASE s # t
    <3>1. run[s] \in Runs /\ (run[s].at = "steps" => run[s].pc \in 1 .. Len(StepsOf(s)))
      BY <1>1 DEF FixturesShape
    <3>2. Touched(s) \in BOOLEAN
      BY TouchedBoolean
    <3>3. (run[s].disturbed \/ Touched(s)) \in BOOLEAN
      OBVIOUS
    <3> QED
      BY <1>2, <2>2, <3>1, <3>3 DEF Runs
  <2> QED
    BY <2>1, <2>2
<1>5. run' \in [Scripts -> Runs]
  BY <1>2, <1>4
<1>6. FixturesShape'
  BY <1>1, <1>2, <1>4, <1>5 DEF FixturesShape, StepsOf
<1> QED
  BY <1>2, <1>3, <1>6 DEF FixInv

LEMMA NobodyIsNoScript == ASSUME FixturesShape PROVE "nobody" \notin Scripts
  BY DEF FixturesShape, Table

\* A script that goes on keeps its nodes, and one that does not is remembered.
LEMMA StillOwned ==
    ASSUME FixturesShape, Owned, NEW s \in Scripts, NEW step, ScriptGoes(s, step),
           \A k \in PlantedKeys : planted'[k] > 0 =>
              planted[k] > 0 \/ (k \in KeysOf(s) /\ step.at \in {"steps", "final"}),
           abandoned \subseteq abandoned',
           run[s].at \in {"steps", "final"} => step.at \in {"steps", "final"} \/ s \in abandoned'
    PROVE  Owned'
<1>1. /\ Scripts' = Scripts /\ PlantedKeys' = PlantedKeys
      /\ run'[s] = step
      /\ \A w \in Scripts : w # s => run'[w] = [run[w] EXCEPT !.disturbed = @ \/ Touched(w)]
  BY RunAfter
<1>2. ASSUME NEW w \in Scripts, w # s PROVE run'[w].at = run[w].at
  <2>1. run[w] \in Runs
    BY DEF FixturesShape
  <2> QED
    BY <1>1, <1>2, <2>1 DEF Runs
<1>3. ASSUME NEW k \in PlantedKeys, planted'[k] > 0
      PROVE  \E w \in Scripts : k \in KeysOf(w) /\ (run'[w].at \in {"steps", "final"} \/ w \in abandoned')
  <2>1. CASE k \in KeysOf(s) /\ step.at \in {"steps", "final"}
    BY <1>1, <2>1
  <2>2. CASE planted[k] > 0
    <3>1. PICK w \in Scripts : k \in KeysOf(w) /\ (run[w].at \in {"steps", "final"} \/ w \in abandoned)
      BY <2>2 DEF Owned
    <3>2. CASE w = s
      BY <1>1, <3>1, <3>2
    <3>3. CASE w # s
      BY <1>2, <3>1, <3>3
    <3> QED
      BY <3>2, <3>3
  <2> QED
    BY <1>3, <2>1, <2>2
<1> QED
  BY <1>1, <1>3 DEF Owned, KeysOf

\* What a script removes nobody has to remove any more.
LEMMA CleansWell ==
    ASSUME FixturesShape, Owned, NEW s \in Scripts, NEW step, ScriptGoes(s, step), Cleans(s)
    PROVE  /\ planted' \in [PlantedKeys -> Nat] /\ real' = real /\ IsFiniteSet(Copies')
           /\ \A k \in KeysOf(s) : planted'[k] = 0
           /\ \A h \in PlantedKeys : KeysOf(s) = {h} /\ planted[h] = 1 => Total' = Total - 1
           /\ Mild /\ Owned'
<1>1. /\ planted' = [k \in PlantedKeys |-> IF k \in KeysOf(s) THEN 0 ELSE planted[k]]
      /\ edges' = {e \in edges : e[1] \notin KeysOf(s) /\ e[2] \notin KeysOf(s)}
      /\ abandoned' = {t \in abandoned : ~(KeysOf(t) \subseteq KeysOf(s))}
      /\ real' = real
  BY DEF Cleans, Removed
<1>2. KeysOf(s) \subseteq PlantedKeys /\ planted \in [PlantedKeys -> Nat] /\ IsFiniteSet(Copies)
  BY DEF PlantedKeys, FixturesShape
<1>3. Copies = CopiesOf(planted) /\ Copies' = CopiesOf(planted')
  BY DEF Copies, CopiesOf
<1>4. /\ IsFiniteSet(CopiesOf(planted'))
      /\ \A h \in PlantedKeys : KeysOf(s) = {h} /\ planted[h] = 1 =>
            Cardinality(CopiesOf(planted')) = Cardinality(CopiesOf(planted)) - 1
  <2> DEFINE g == [k \in PlantedKeys |-> IF k \in KeysOf(s) THEN 0 ELSE planted[k]]
  <2>1. /\ IsFiniteSet(CopiesOf(g))
        /\ \A h \in PlantedKeys : (KeysOf(s) = {h} /\ planted[h] = 1) =>
              Cardinality(CopiesOf(g)) = Cardinality(CopiesOf(planted)) - 1
    <3>1. IsFiniteSet(CopiesOf(planted))
      BY <1>2, <1>3
    <3> QED
      BY <1>2, <3>1, CopiesGone
  <2>2. planted' = g
    BY <1>1
  <2> QED
    BY <2>1, <2>2
<1>5. planted' \in [PlantedKeys -> Nat] /\ \A k \in KeysOf(s) : planted'[k] = 0
  BY <1>1, <1>2
<1>6. \A h \in PlantedKeys : KeysOf(s) = {h} /\ planted[h] = 1 => Total' = Total - 1
  <2>1. Cardinality(real) \in Nat /\ Cardinality(Copies) \in Nat
    <3>1. IsFiniteSet(real)
      BY RealFinite DEF FixturesShape
    <3> QED
      BY <1>2, <3>1, FS_CardinalityType
  <2>2. Total = Cardinality(real) + Cardinality(Copies)
    BY DEF Total
  <2>3. Total' = Cardinality(real) + Cardinality(Copies')
    BY <1>1 DEF Total
  <2> QED
    BY <1>3, <1>4, <2>1, <2>2, <2>3
<1>7. Mild
  <2> SUFFICES ASSUME NEW e \in edges, e[1] \in PlantedKeys, e \notin edges'
               PROVE  \E k \in {e[1], e[2]} : k \in PlantedKeys /\ planted'[k] = 0
    BY DEF Mild
  <2>1. e[1] \in KeysOf(s) \/ e[2] \in KeysOf(s)
    BY <1>1
  <2> QED
    BY <1>2, <1>5, <2>1
<1>8. /\ Scripts' = Scripts /\ PlantedKeys' = PlantedKeys
      /\ \A w \in Scripts : w # s => run'[w] = [run[w] EXCEPT !.disturbed = @ \/ Touched(w)]
  BY RunAfter
<1>9. ASSUME NEW k \in PlantedKeys, planted'[k] > 0
      PROVE  \E w \in Scripts : k \in KeysOf(w) /\ (run'[w].at \in {"steps", "final"} \/ w \in abandoned')
  <2>1. k \notin KeysOf(s) /\ planted[k] > 0
    BY <1>1, <1>9
  <2>2. PICK w \in Scripts : k \in KeysOf(w) /\ (run[w].at \in {"steps", "final"} \/ w \in abandoned)
    BY <2>1 DEF Owned
  <2>3. w # s /\ ~(KeysOf(w) \subseteq KeysOf(s))
    BY <2>1, <2>2
  <2>4. run'[w].at = run[w].at
    <3>1. run[w] \in Runs
      BY DEF FixturesShape
    <3> QED
      BY <1>8, <2>3, <3>1 DEF Runs
  <2> QED
    BY <1>1, <2>2, <2>3, <2>4
<1>10. Owned'
  BY <1>8, <1>9 DEF Owned, KeysOf
<1> QED
  BY <1>1, <1>3, <1>4, <1>5, <1>6, <1>7, <1>10

LEMMA InitFixtures == FixturesInit => FixInv
<1> SUFFICES ASSUME FixturesInit PROVE FixInv
  OBVIOUS
<1>1. PICK S \in Together : run = [s \in S |-> NotRun]
  BY DEF FixturesInit
<1>2. Scripts = S /\ S \subseteq DOMAIN Table
  BY <1>1, TogetherAssumption DEF Scripts
<1>3. NotRun \in Runs /\ NotRun.at = "rest"
  BY DEF NotRun, Runs, Places
<1>4. planted = [k \in PlantedKeys |-> 0] /\ real \subseteq RealKeys
  BY DEF FixturesInit
<1>5. IsFiniteSet(Copies)
  <2>1. \A k \in DOMAIN planted : 1 .. planted[k] = {}
    BY <1>4
  <2>2. \A c : c \notin Copies
    BY <2>1 DEF Copies
  <2>3. Copies = {}
    BY <2>2
  <2> QED
    BY <2>3, FS_EmptySet
<1>6. FixturesShape
  BY <1>1, <1>2, <1>3, <1>4, <1>5 DEF FixturesShape
<1>7. Owned
  BY <1>4 DEF Owned
<1>8. \A s \in Scripts : Promising(s)
  BY <1>1, <1>2, <1>3 DEF Promising
<1> QED
  BY <1>6, <1>7, <1>8 DEF FixInv

\* A statement that touches no node.
LEMMA NothingPlanted ==
    ASSUME FixInv, NEW s \in Scripts, NEW step, ScriptGoes(s, step), UNCHANGED <<planted, real, edges>>,
           step \in Runs, step.at = "steps" => step.pc \in 1 .. Len(StepsOf(s)), Promising(s)',
           abandoned \subseteq abandoned',
           run[s].at \in {"steps", "final"} => step.at \in {"steps", "final"} \/ s \in abandoned'
    PROVE  FixInv'
<1>1. FixturesShape /\ Owned
  BY DEF FixInv
<1>2. Scripts' = Scripts /\ PlantedKeys' = PlantedKeys
  BY <1>1, RunAfter
<1>3. Owned'
  BY <1>1, StillOwned
<1>4. Mild
  BY DEF Mild
<1>5. planted' \in [PlantedKeys -> Nat] /\ real' \subseteq RealKeys /\ IsFiniteSet(Copies')
  BY <1>1 DEF FixturesShape, Copies
<1> QED
  BY <1>3, <1>4, <1>5, StepKeepsFixtures

LEMMA BeginScriptKeeps == ASSUME FixInv, NEW s \in Scripts, BeginScript(s) PROVE FixInv'
<1> DEFINE H == \/ ~(Needs(s) \subseteq real) \/ KeysOf(s) \cap real # {}
                \/ Counts(s) /\ \E k \in KeysOf(s) : planted[k] > 0
           step == [NotRun EXCEPT !.at = "steps", !.pc = 1, !.hampered = H]
<1>1. FixturesShape /\ Owned
  BY DEF FixInv
<1>2. ScriptGoes(s, step) /\ UNCHANGED <<planted, real, edges, abandoned>> /\ ~Running(s)
  BY DEF BeginScript
<1>3. H \in BOOLEAN
  OBVIOUS
<1> HIDE DEF H
<1>4. /\ step \in Runs /\ step.at = "steps" /\ step.pc = 1 /\ ~step.found
      /\ step.hampered = H
  BY <1>3 DEF NotRun, Runs, Places
<1>5. 1 \in 1 .. Len(StepsOf(s))
  BY <1>1, TableWritten DEF FixturesShape, WellWritten, StepsOf
<1>6. run'[s] = step
  BY <1>1, <1>2, RunAfter
<1> HIDE DEF step
<1>7. Promising(s)'
  <2> SUFFICES ASSUME ~H PROVE SoFar(s)'
    BY <1>4, <1>6 DEF Promising
  <2>1. /\ Needs(s) \subseteq real' /\ KeysOf(s) \cap real' = {}
        /\ Counts(s) => \A k \in KeysOf(s) : ~(planted'[k] > 0)
    BY <1>2 DEF H
  <2>2. \A k \in KeysOf(s) : planted'[k] \in Nat
    BY <1>1, <1>2 DEF FixturesShape, PlantedKeys
  <2>3. Counts(s) => \A k \in KeysOf(s) : planted'[k] = 0
    BY <2>1, <2>2
  <2>4. 1 .. (step.pc - 1) = {}
    BY <1>4
  <2> QED
    BY <1>4, <1>6, <2>1, <2>3, <2>4 DEF SoFar
<1>8. run[s].at \notin {"steps", "final"}
  BY <1>2 DEF Running
<1> QED
  BY <1>2, <1>4, <1>5, <1>7, <1>8, NothingPlanted

LEMMA CompareKeeps == ASSUME FixInv, NEW s \in Scripts, Compare(s) PROVE FixInv'
<1> DEFINE r == run[s]
           O == r.found /\ r.counted = Total
           step == [r EXCEPT !.at = "ended", !.ok = O]
<1>1. FixturesShape /\ r \in Runs /\ Promising(s)
  BY DEF FixInv, FixturesShape
<1>2. /\ ScriptGoes(s, step) /\ UNCHANGED <<planted, real, edges, abandoned>> /\ r.at = "compare"
  BY DEF Compare
<1>3. O \in BOOLEAN
  BY <1>1 DEF Runs
<1>4. ~r.disturbed /\ ~r.hampered => O
  BY <1>1, <1>2 DEF Promising
<1> HIDE DEF O
<1>5. /\ step \in Runs /\ step.at = "ended" /\ step.ok = O
      /\ step.disturbed = r.disturbed /\ step.hampered = r.hampered
  BY <1>1, <1>3 DEF Runs, Places
<1>6. run'[s] = step
  BY <1>1, <1>2, RunAfter
<1> HIDE DEF step
<1>7. Promising(s)'
  BY <1>4, <1>5, <1>6 DEF Promising
<1>8. step.at # "steps" /\ r.at \notin {"steps", "final"}
  BY <1>2, <1>5
<1> HIDE DEF r
<1> QED
  BY <1>2, <1>5, <1>7, <1>8, NothingPlanted DEF r

LEMMA ScriptDiesKeeps == ASSUME FixInv, NEW s \in Scripts, ScriptDies(s) PROVE FixInv'
<1>1. NotRun \in Runs /\ NotRun.at = "rest"
  BY DEF NotRun, Runs, Places
<1>2. /\ ScriptGoes(s, NotRun) /\ UNCHANGED <<planted, real, edges>>
      /\ abandoned \subseteq abandoned' /\ s \in abandoned'
  BY DEF ScriptDies
<1>3. run'[s] = NotRun
  BY <1>2, RunAfter DEF FixInv
<1>4. Promising(s)'
  BY <1>1, <1>3 DEF Promising
<1> QED
  BY <1>1, <1>2, <1>4, NothingPlanted

LEMMA FinallyFailsKeeps == ASSUME FixInv, NEW s \in Scripts, FinallyFails(s) PROVE FixInv'
<1> DEFINE r == run[s]
           F == r.failed \/ s # "ocr_demo"
           O == r.found /\ s = "ocr_demo"
           step == [r EXCEPT !.at = "ended", !.failed = F, !.ok = O]
<1>1. FixturesShape /\ r \in Runs /\ Promising(s)
  BY DEF FixInv, FixturesShape
<1>2. /\ ScriptGoes(s, step) /\ UNCHANGED <<planted, real, edges>> /\ r.at = "final"
      /\ abandoned \subseteq abandoned' /\ s \in abandoned'
  BY DEF FinallyFails
<1>3. O \in BOOLEAN /\ F \in BOOLEAN
  BY <1>1 DEF Runs
<1>4. ~r.disturbed /\ ~r.hampered => O \/ F
  BY <1>1, <1>2 DEF Promising
<1> HIDE DEF O, F
<1>5. /\ step \in Runs /\ step.at = "ended" /\ step.ok = O /\ step.failed = F
      /\ step.disturbed = r.disturbed /\ step.hampered = r.hampered
  BY <1>1, <1>3 DEF Runs, Places
<1>6. run'[s] = step
  BY <1>1, <1>2, RunAfter
<1> HIDE DEF step
<1>7. Promising(s)'
  BY <1>4, <1>5, <1>6 DEF Promising
<1>8. step.at # "steps"
  BY <1>5
<1> QED
  BY <1>2, <1>5, <1>7, <1>8, NothingPlanted

LEMMA RealMovesKeeps == ASSUME FixInv, NEW k \in RealKeys, RealMoves(k) PROVE FixInv'
<1>1. FixturesShape /\ Owned
  BY DEF FixInv
<1>2. /\ ScriptGoes("nobody", NotRun) /\ UNCHANGED <<planted, abandoned>>
      /\ real' = IF k \in real THEN real \ {k} ELSE real \cup {k}
      /\ edges' = {e \in edges : k \notin {e[1], e[2]}}
  BY DEF RealMoves
<1>3. "nobody" \notin Scripts
  BY <1>1, NobodyIsNoScript
<1>4. /\ Scripts' = Scripts /\ PlantedKeys' = PlantedKeys
      /\ \A s \in Scripts : s # "nobody" => run'[s] = [run[s] EXCEPT !.disturbed = @ \/ Touched(s)]
  BY <1>1, <1>2, RunAfter
<1>5. \A s \in Scripts : run'[s].at = run[s].at
  <2>1. \A s \in Scripts : run[s] \in Runs
    BY <1>1 DEF FixturesShape
  <2> QED
    BY <1>3, <1>4, <2>1 DEF Runs
<1>6. Owned'
  BY <1>1, <1>2, <1>4, <1>5 DEF Owned, KeysOf
<1>7. Mild
  <2>1. (k \in real') # (k \in real)
    BY <1>2
  <2> QED
    BY <1>2, <2>1 DEF Mild
<1>8. planted' \in [PlantedKeys -> Nat] /\ real' \subseteq RealKeys /\ IsFiniteSet(Copies')
  BY <1>1, <1>2 DEF FixturesShape, Copies
<1> QED
  BY <1>2, <1>3, <1>6, <1>7, <1>8, StepKeepsFixtures

LEMMA WipeAllKeeps == ASSUME FixInv, WipeAll PROVE FixInv'
<1>1. FixturesShape
  BY DEF FixInv
<1>2. /\ ScriptGoes("nobody", NotRun) /\ planted' = [k \in PlantedKeys |-> 0] /\ real' = {}
  BY DEF WipeAll
<1>3. "nobody" \notin Scripts
  BY <1>1, NobodyIsNoScript
<1>4. Scripts' = Scripts /\ PlantedKeys' = PlantedKeys
  BY <1>1, <1>2, RunAfter
<1>5. Owned'
  BY <1>2, <1>4 DEF Owned
<1>6. Mild
  BY <1>2 DEF Mild
<1>7. IsFiniteSet(Copies')
  <2>1. \A k \in DOMAIN planted' : 1 .. planted'[k] = {}
    BY <1>2
  <2>2. \A c : c \notin Copies'
    BY <2>1 DEF Copies
  <2>3. Copies' = {}
    BY <2>2
  <2> QED
    BY <2>3, FS_EmptySet
<1>8. planted' \in [PlantedKeys -> Nat] /\ real' \subseteq RealKeys
  BY <1>2
<1> QED
  BY <1>2, <1>3, <1>5, <1>6, <1>7, <1>8, StepKeepsFixtures

LEMMA FinallyKeeps == ASSUME FixInv, NEW s \in Scripts, Finally(s) PROVE FixInv'
<1> DEFINE r == run[s]
           A == IF Counts(s) /\ r.found THEN "compare" ELSE "ended"
           O == r.found /\ ~Counts(s)
           step == [r EXCEPT !.at = A, !.ok = O]
<1>1. FixturesShape /\ Owned /\ r \in Runs /\ Promising(s) /\ s \in DOMAIN Table
  BY DEF FixInv, FixturesShape
<1>2. ScriptGoes(s, step) /\ Cleans(s) /\ r.at = "final"
  BY DEF Finally
<1>3. O \in BOOLEAN /\ A \in Places /\ A \in {"compare", "ended"}
  BY <1>1 DEF Runs, Places
<1>4. /\ planted' \in [PlantedKeys -> Nat] /\ real' = real /\ IsFiniteSet(Copies')
      /\ \A h \in PlantedKeys : KeysOf(s) = {h} /\ planted[h] = 1 => Total' = Total - 1
      /\ Mild /\ Owned'
  BY <1>1, <1>2, CleansWell
<1>5. real' \subseteq RealKeys
  BY <1>1, <1>4 DEF FixturesShape
<1>6. ASSUME ~r.disturbed, ~r.hampered
      PROVE  /\ A = "compare" => r.found /\ Counts(s) /\ r.counted = Total'
             /\ A = "ended" => O \/ r.failed
  <2>1. /\ r.found \/ r.failed
        /\ r.found /\ Counts(s) => OneAbove(s)
    BY <1>1, <1>2, <1>6 DEF Promising
  <2>2. ASSUME r.found, Counts(s) PROVE r.counted = Total'
    <3>1. Total = r.counted + 1 /\ \A k \in KeysOf(s) : planted[k] = 1
      BY <2>1, <2>2 DEF OneAbove
    <3>2. PICK h : KeysOf(s) = {h}
      BY <1>1, <2>2, CountsWritten
    <3>3. h \in PlantedKeys
      BY <3>2 DEF PlantedKeys
    <3>4. Total' = Total - 1
      BY <1>4, <3>1, <3>2, <3>3
    <3>5. r.counted \in Nat
      BY <1>1 DEF Runs
    <3> QED
      BY <3>1, <3>4, <3>5
  <2> QED
    BY <2>1, <2>2
<1> HIDE DEF O, A
<1>7. /\ step \in Runs /\ step.at = A /\ step.ok = O /\ step.failed = r.failed
      /\ step.found = r.found /\ step.counted = r.counted
      /\ step.disturbed = r.disturbed /\ step.hampered = r.hampered
  BY <1>1, <1>3 DEF Runs
<1>8. run'[s] = step
  BY <1>1, <1>2, RunAfter
<1> HIDE DEF step, r
<1>9. Promising(s)'
  BY <1>3, <1>6, <1>7, <1>8 DEF Promising, Counts
<1> QED
  BY <1>2, <1>3, <1>4, <1>5, <1>7, <1>9, StepKeepsFixtures

\* A script on its way finds what it asks for, and plants nothing that is real.
LEMMA OnItsWay ==
    ASSUME FixturesShape, NEW s \in Scripts, run[s].at = "steps", SoFar(s)
    PROVE  ~Raises(s, StepsOf(s)[run[s].pc])
<1> DEFINE i == run[s].pc
           x == StepsOf(s)[i]
<1>1. s \in DOMAIN Table /\ i \in 1 .. Len(StepsOf(s)) /\ Len(StepsOf(s)) \in Nat
  BY TableWritten DEF FixturesShape, WellWritten, StepsOf
<1>2. ASSUME x.do = "merge" PROVE x.key \notin real
  <2>1. x.key \in KeysOf(s)
    BY <1>1, <1>2, TableWritten DEF WellWritten, StepsOf, KeysOf, Planting
  <2> QED
    BY <2>1 DEF SoFar
<1>3. ASSUME x.do = "read" PROVE Whole(s)
  <2>1. /\ \A k \in KeysOf(s) : \E j \in 1 .. Len(StepsOf(s)) :
              j < i /\ Planting(StepsOf(s)[j]) /\ StepsOf(s)[j].key = k
        /\ \A j \in 1 .. Len(StepsOf(s)) : StepsOf(s)[j].do = "edge" => j < i
    BY <1>1, <1>3, TableWritten DEF WellWritten, StepsOf, KeysOf
  <2>2. ReadsBack(s)
    BY <1>1, <1>3 DEF ReadsBack
  <2>3. \A j \in 1 .. Len(StepsOf(s)) : j < i => j \in 1 .. (i - 1)
    BY <1>1
  <2>4. ASSUME NEW k \in KeysOf(s) PROVE planted[k] > 0
    BY <2>1, <2>3 DEF SoFar
  <2>5. ASSUME NEW e \in EdgesOf(s) PROVE e \in edges
    <3>1. PICK j \in 1 .. Len(StepsOf(s)) : StepsOf(s)[j].do = "edge" /\ StepsOf(s)[j].edge = e
      BY <1>1, EdgesWritten DEF StepsOf
    <3> QED
      BY <2>1, <2>2, <2>3, <3>1 DEF SoFar
  <2> QED
    BY <2>4, <2>5 DEF Whole
<1> QED
  BY <1>2, <1>3 DEF Raises

\* A script that raises is failed, or was not on its way.
LEMMA LeavesKeeps ==
    ASSUME FixInv, NEW s \in Scripts, NEW failed \in BOOLEAN, Leaves(s, failed),
           failed \/ Raises(s, StepsOf(s)[run[s].pc])
    PROVE  FixInv'
<1> DEFINE r == run[s]
           caught == Table[s].try > 0 /\ r.pc >= Table[s].try
           A == IF caught THEN "final" ELSE "ended"
           step == [r EXCEPT !.at = A, !.failed = failed]
<1>1. FixturesShape /\ r \in Runs /\ Promising(s)
  BY DEF FixInv, FixturesShape
<1>2. /\ ScriptGoes(s, step) /\ UNCHANGED <<planted, real, edges>> /\ r.at = "steps"
      /\ abandoned \subseteq abandoned' /\ (A = "ended" => s \in abandoned')
  BY DEF Leaves
<1>3. A \in Places /\ A \in {"final", "ended"}
  BY DEF Places
<1> HIDE DEF A
<1>4. /\ step \in Runs /\ step.at = A /\ step.failed = failed /\ step.found = r.found
      /\ step.disturbed = r.disturbed /\ step.hampered = r.hampered
  BY <1>1, <1>3 DEF Runs
<1>5. run'[s] = step
  BY <1>1, <1>2, RunAfter
<1>6. ASSUME ~r.disturbed, ~r.hampered
      PROVE  failed /\ (Counts(s) => ~r.found)
  <2>1. SoFar(s)
    BY <1>1, <1>2, <1>6 DEF Promising
  <2>2. ~Raises(s, StepsOf(s)[run[s].pc])
    BY <1>1, <1>2, <2>1, OnItsWay
  <2> QED
    BY <2>1, <2>2 DEF SoFar
<1> HIDE DEF step, r
<1>7. Promising(s)'
  BY <1>3, <1>4, <1>5, <1>6 DEF Promising, Counts
<1> USE DEF r
<1>8. step.at # "steps" /\ (step.at \in {"steps", "final"} \/ s \in abandoned')
  BY <1>2, <1>3, <1>4
<1> QED
  BY <1>2, <1>4, <1>7, <1>8, NothingPlanted

LEMMA MissesKeeps == ASSUME FixInv, NEW s \in Scripts, Misses(s) PROVE FixInv'
  BY LeavesKeeps DEF Misses, StepsOf

LEMMA FailKeeps == ASSUME FixInv, NEW s \in Scripts, Fail(s) PROVE FixInv'
  BY LeavesKeeps DEF Fail

\* What a statement that writes does to the nodes and the edges.
LEMMA EffectWell ==
    ASSUME FixturesShape, NEW s \in Scripts, run[s].at = "steps", Effect(StepsOf(s)[run[s].pc]),
           UNCHANGED real
    PROVE  LET x == StepsOf(s)[run[s].pc]
           IN  /\ planted' \in [PlantedKeys -> Nat] /\ IsFiniteSet(Copies')
               /\ edges \subseteq edges'
               /\ \A k \in PlantedKeys : planted'[k] >= planted[k]
               /\ \A k \in PlantedKeys : planted'[k] > 0 => planted[k] > 0 \/ k \in KeysOf(s)
               /\ Planting(x) => planted'[x.key] > 0
               /\ ~Planting(x) => planted' = planted
               /\ x.do = "create" => /\ planted'[x.key] = planted[x.key] + 1
                                     /\ Total' = Total + 1
<1> DEFINE x == StepsOf(s)[run[s].pc]
           C == [planted EXCEPT ![x.key] = @ + 1]
<1>1. s \in DOMAIN Table /\ run[s].pc \in 1 .. Len(StepsOf(s))
  BY DEF FixturesShape
<1>2. /\ x.do \in {"clean", "read", "look", "count", "edge", "merge", "create"}
      /\ Planting(x) => x.key \in KeysOf(s)
  BY <1>1, TableWritten DEF WellWritten, StepsOf, KeysOf
<1>3. KeysOf(s) \subseteq PlantedKeys /\ planted \in [PlantedKeys -> Nat] /\ IsFiniteSet(Copies)
  BY DEF PlantedKeys, FixturesShape
<1>4. Copies = CopiesOf(planted) /\ Copies' = CopiesOf(planted')
  BY DEF Copies, CopiesOf
<1>5. Effect(x)
  OBVIOUS
<1> HIDE DEF x
<1>6. ASSUME Planting(x)
      PROVE  IsFiniteSet(CopiesOf(C)) /\ Cardinality(CopiesOf(C)) = Cardinality(CopiesOf(planted)) + 1
  BY <1>2, <1>3, <1>4, <1>6, OneCopyMore
<1>7. CASE ~Planting(x)
  <2>1. planted' = planted /\ edges \subseteq edges'
    BY <1>5, <1>7 DEF Effect, Planting
  <2>2. \A k \in PlantedKeys : planted[k] >= planted[k]
    BY <1>3
  <2>3. x.do # "create"
    BY <1>7 DEF Planting
  <2> QED
    BY <1>3, <1>4, <1>7, <2>1, <2>2, <2>3 DEF x
<1>8. CASE Planting(x) /\ (x.do = "create" \/ planted[x.key] = 0)
  <2>1. planted' = C /\ edges' = edges
    <3>1. planted' = [planted EXCEPT ![x.key] = IF x.do = "create" THEN @ + 1 ELSE IF @ = 0 THEN 1 ELSE @]
          /\ edges' = edges
      BY <1>5, <1>8 DEF Effect, Planting
    <3>2. (IF x.do = "create" THEN planted[x.key] + 1 ELSE IF planted[x.key] = 0 THEN 1 ELSE planted[x.key])
             = planted[x.key] + 1
      BY <1>2, <1>3, <1>8
    <3> QED
      BY <1>3, <3>1, <3>2
  <2>2. /\ planted' \in [PlantedKeys -> Nat] /\ planted'[x.key] = planted[x.key] + 1
        /\ \A k \in PlantedKeys : k # x.key => planted'[k] = planted[k]
    BY <1>2, <1>3, <1>8, <2>1
  <2>3. Total' = Total + 1
    <3>1. Cardinality(real) \in Nat /\ Cardinality(Copies) \in Nat
      <4>1. IsFiniteSet(real)
        BY RealFinite DEF FixturesShape
      <4> QED
        BY <1>3, <4>1, FS_CardinalityType
    <3>2. Total = Cardinality(real) + Cardinality(Copies)
      BY DEF Total
    <3>3. Total' = Cardinality(real) + Cardinality(Copies')
      BY DEF Total
    <3>4. Cardinality(Copies') = Cardinality(Copies) + 1
      BY <1>4, <1>6, <1>8, <2>1
    <3> QED
      BY <3>1, <3>2, <3>3, <3>4
  <2>4. IsFiniteSet(Copies')
    BY <1>4, <1>6, <1>8, <2>1
  <2>5. x.key \in KeysOf(s) /\ x.key \in PlantedKeys /\ planted[x.key] \in Nat
    BY <1>2, <1>3, <1>8
  <2>6. \A k \in PlantedKeys : planted[k] \in Nat
    BY <1>3
  <2> HIDE DEF C
  <2>7. /\ \A k \in PlantedKeys : planted'[k] >= planted[k]
        /\ \A k \in PlantedKeys : planted'[k] > 0 => planted[k] > 0 \/ k \in KeysOf(s)
        /\ planted'[x.key] > 0
    BY <2>2, <2>5, <2>6
  <2> QED
    BY <1>8, <2>1, <2>2, <2>3, <2>4, <2>7 DEF x
<1>9. CASE Planting(x) /\ ~(x.do = "create" \/ planted[x.key] = 0)
  <2>1. planted' = planted /\ edges' = edges
    <3>1. planted' = [planted EXCEPT ![x.key] = IF x.do = "create" THEN @ + 1 ELSE IF @ = 0 THEN 1 ELSE @]
          /\ edges' = edges
      BY <1>5, <1>9 DEF Effect, Planting
    <3> QED
      BY <1>3, <1>9, <3>1
  <2>2. planted[x.key] > 0
    BY <1>2, <1>3, <1>9
  <2>3. \A k \in PlantedKeys : planted[k] >= planted[k]
    BY <1>3
  <2> QED
    BY <1>3, <1>4, <1>9, <2>1, <2>2, <2>3 DEF x
<1> QED
  BY <1>7, <1>8, <1>9

\* A statement that does not remove the nodes leaves what the former ones did,
\* and does its own part.
LEMMA DoesItsPart ==
    ASSUME FixturesShape, NEW s \in Scripts, run[s].at = "steps", SoFar(s), UNCHANGED real,
           Effect(StepsOf(s)[run[s].pc]),
           NEW h \in 1 .. run[s].pc
    PROVE  /\ Planting(StepsOf(s)[h]) => planted'[StepsOf(s)[h].key] > 0
           /\ StepsOf(s)[h].do = "edge" /\ ReadsBack(s) => StepsOf(s)[h].edge \in edges'
<1> DEFINE i == run[s].pc
           x == StepsOf(s)[i]
           y == StepsOf(s)[h]
<1>1. s \in DOMAIN Table /\ i \in 1 .. Len(StepsOf(s)) /\ Len(StepsOf(s)) \in Nat
  BY TableWritten DEF FixturesShape, WellWritten, StepsOf
<1>2. h \in 1 .. Len(StepsOf(s)) /\ (h # i => h \in 1 .. (i - 1))
  BY <1>1
<1>3. /\ planted' \in [PlantedKeys -> Nat] /\ edges \subseteq edges'
      /\ \A k \in PlantedKeys : planted'[k] >= planted[k]
      /\ Planting(x) => planted'[x.key] > 0
      /\ ~Planting(x) => planted' = planted
  BY EffectWell
<1>4. /\ planted \in [PlantedKeys -> Nat] /\ KeysOf(s) \subseteq PlantedKeys
  BY DEF FixturesShape, PlantedKeys
<1>5. ASSUME Planting(y) PROVE planted'[y.key] > 0
  <2>1. CASE h = i
    BY <1>3, <1>5, <2>1
  <2>2. CASE h # i
    <3>1. planted[y.key] > 0
      BY <1>2, <1>5, <2>2 DEF SoFar
    <3>2. y.key \in PlantedKeys
      BY <1>1, <1>2, <1>4, <1>5, TableWritten DEF WellWritten, StepsOf, KeysOf
    <3>3. planted'[y.key] >= planted[y.key] /\ planted[y.key] \in Nat /\ planted'[y.key] \in Nat
      BY <1>3, <1>4, <3>2
    <3> QED
      BY <3>1, <3>3
  <2> QED
    BY <2>1, <2>2
<1>6. ASSUME y.do = "edge", ReadsBack(s) PROVE y.edge \in edges'
  <2>1. CASE h # i
    <3>1. y.edge \in edges
      BY <1>2, <1>6, <2>1 DEF SoFar
    <3> QED
      BY <1>3, <3>1
  <2>2. CASE h = i
    <3> DEFINE e == y.edge
    <3>1. PICK j \in 1 .. Len(StepsOf(s)) : StepsOf(s)[j].do = "read"
      BY <1>6 DEF ReadsBack
    <3>2. /\ \E g \in 1 .. Len(StepsOf(s)) : g < h /\ Planting(StepsOf(s)[g]) /\ StepsOf(s)[g].key = e[1]
          /\ \/ \E g \in 1 .. Len(StepsOf(s)) : g < h /\ Planting(StepsOf(s)[g]) /\ StepsOf(s)[g].key = e[2]
             \/ e[2] \in {"cto", "cfo"}
      BY <1>1, <1>2, <1>6, <3>1, TableWritten DEF WellWritten, StepsOf
    <3>3. ASSUME NEW g \in 1 .. Len(StepsOf(s)), g < h, Planting(StepsOf(s)[g])
          PROVE  Exists(StepsOf(s)[g].key)
      <4>1. g \in 1 .. (i - 1)
        BY <1>1, <2>2, <3>3
      <4>2. planted[StepsOf(s)[g].key] > 0
        BY <3>3, <4>1 DEF SoFar
      <4>3. StepsOf(s)[g].key \in PlantedKeys
        BY <1>1, <1>4, <3>3, TableWritten DEF WellWritten, StepsOf, KeysOf
      <4> QED
        BY <4>2, <4>3 DEF Exists
    <3>4. Exists(e[1])
      BY <3>2, <3>3
    <3>5. Exists(e[2])
      <4>1. CASE e[2] \in {"cto", "cfo"}
        <5>1. e \in EdgesOf(s)
          BY <1>1, <1>2, <1>6, EdgesWritten DEF StepsOf
        <5>2. e[2] \in Needs(s)
          BY <1>1, <3>1, <4>1, <5>1, NeedsWritten DEF StepsOf
        <5> QED
          BY <5>2 DEF SoFar, Exists
      <4>2. CASE e[2] \notin {"cto", "cfo"}
        BY <3>2, <3>3, <4>2
      <4> QED
        BY <4>1, <4>2
    <3>6. x.do = "edge" /\ x.edge = e
      BY <1>6, <2>2
    <3>7. e \in edges'
      <4>1. edges' = edges \cup (IF Exists(x.edge[1]) /\ Exists(x.edge[2]) THEN {x.edge} ELSE {})
        BY <3>6 DEF Effect
      <4> HIDE DEF x, e
      <4> QED
        BY <3>4, <3>5, <3>6, <4>1
    <3> QED
      BY <3>7
  <2> QED
    BY <2>1, <2>2
<1> QED
  BY <1>5, <1>6

\* A script that counts finds its own node above its count.
LEMMA CountsOn ==
    ASSUME FixturesShape, NEW s \in Scripts, run[s].at = "steps", SoFar(s), UNCHANGED real,
           Effect(StepsOf(s)[run[s].pc]), Counts(s)
    PROVE  LET i == run[s].pc
               x == StepsOf(s)[i]
               c == IF x.do = "count" THEN Total ELSE run[s].counted
           IN  /\ i \in {1, 2, 3} /\ Len(StepsOf(s)) = 3 /\ Table[s].try = 2
               /\ x.do \in {"read", "look"} <=> i = 3
               /\ i = 1 => (\A k \in KeysOf(s) : planted'[k] = 0) /\ c = Total'
               /\ i \in {2, 3} => (\A k \in KeysOf(s) : planted'[k] = 1) /\ Total' = c + 1
<1> DEFINE i == run[s].pc
           x == StepsOf(s)[i]
<1>1. s \in DOMAIN Table /\ i \in 1 .. Len(StepsOf(s))
  BY DEF FixturesShape
<1>2. /\ Len(StepsOf(s)) = 3 /\ Table[s].try = 2
      /\ StepsOf(s)[1].do = "count" /\ StepsOf(s)[3].do = "read"
      /\ StepsOf(s)[2].do = "create" /\ KeysOf(s) = {StepsOf(s)[2].key}
  BY <1>1, CountsWritten DEF StepsOf
<1>3. i \in {1, 2, 3}
  BY <1>1, <1>2
<1>4. /\ planted' \in [PlantedKeys -> Nat]
      /\ ~Planting(x) => planted' = planted
      /\ x.do = "create" => planted'[x.key] = planted[x.key] + 1 /\ Total' = Total + 1
  BY EffectWell
<1>5. planted' = planted => Total' = Total
  BY DEF Total, Copies
<1>6. CASE i = 1
  <2>1. \A k \in KeysOf(s) : planted[k] = 0
    BY <1>6 DEF SoFar
  <2>2. ~Planting(x) /\ x.do = "count"
    BY <1>2, <1>6 DEF Planting
  <2> QED
    BY <1>2, <1>4, <1>5, <1>6, <2>1, <2>2
<1>7. CASE i = 2
  <2>1. (\A k \in KeysOf(s) : planted[k] = 0) /\ run[s].counted = Total
    BY <1>7 DEF SoFar
  <2>2. x.do = "create" /\ KeysOf(s) = {x.key}
    BY <1>2, <1>7
  <2>3. planted[x.key] = 0
    BY <2>1, <2>2
  <2>4. planted'[x.key] = 1
    BY <1>4, <2>2, <2>3
  <2> QED
    BY <1>2, <1>4, <1>7, <2>1, <2>2, <2>4
<1>8. CASE i = 3
  <2>1. OneAbove(s)
    BY <1>8 DEF SoFar
  <2>2. ~Planting(x) /\ x.do = "read"
    BY <1>2, <1>8 DEF Planting
  <2> QED
    BY <1>2, <1>4, <1>5, <1>8, <2>1, <2>2 DEF OneAbove
<1> QED
  BY <1>3, <1>6, <1>7, <1>8

\* Where a script is after a step.
LEMMA AfterStep ==
    ASSUME NEW s, NEW r \in Runs, r.at = "steps", Len(StepsOf(s)) \in Nat, r.pc \in 1 .. Len(StepsOf(s))
    PROVE  LET a == After(s, r)
               n == Len(StepsOf(s))
           IN  /\ a \in Runs /\ (a.at = "steps" => a.pc \in 1 .. n)
               /\ a.found = r.found /\ a.counted = r.counted /\ a.failed = r.failed
               /\ a.hampered = r.hampered /\ a.disturbed = r.disturbed
               /\ r.pc < n => a.at = "steps" /\ a.pc = r.pc + 1
               /\ r.pc = n /\ Table[s].try > 0 => a.at = "final"
               /\ r.pc = n /\ ~(Table[s].try > 0) => a.at = "ended" /\ a.ok = r.found
<1>1. CASE r.pc < Len(StepsOf(s))
  <2>1. After(s, r) = [r EXCEPT !.pc = r.pc + 1]
    BY <1>1 DEF After, StepsOf
  <2> QED
    BY <1>1, <2>1 DEF Runs
<1>2. CASE r.pc = Len(StepsOf(s)) /\ Table[s].try > 0
  <2>1. After(s, r) = [r EXCEPT !.at = "final"]
    BY <1>2 DEF After, StepsOf
  <2> QED
    BY <1>2, <2>1 DEF Runs, Places
<1>3. CASE r.pc = Len(StepsOf(s)) /\ ~(Table[s].try > 0)
  <2> DEFINE O == r.found
  <2>1. After(s, r) = [r EXCEPT !.at = "ended", !.ok = O]
    BY <1>3 DEF After, StepsOf
  <2>2. O \in BOOLEAN /\ r.found = O
    BY DEF Runs
  <2> HIDE DEF O
  <2>3. LET a == [r EXCEPT !.at = "ended", !.ok = O]
        IN  /\ a \in Runs /\ a.at = "ended" /\ a.ok = O /\ a.found = r.found
            /\ a.counted = r.counted /\ a.failed = r.failed
            /\ a.hampered = r.hampered /\ a.disturbed = r.disturbed
    BY <2>2 DEF Runs, Places
  <2> QED
    BY <1>3, <2>1, <2>2, <2>3
<1> QED
  BY <1>1, <1>2, <1>3

LEMMA StepKeeps == ASSUME FixInv, NEW s \in Scripts, Step(s) PROVE FixInv'
<1> DEFINE i == run[s].pc
           n == Len(StepsOf(s))
           x == StepsOf(s)[i]
           F == run[s].found \/ x.do \in {"read", "look"}
           C == IF x.do = "count" THEN Total ELSE run[s].counted
           r == [run[s] EXCEPT !.found = F, !.counted = C]
           step == After(s, r)
<1>1. FixturesShape /\ Owned /\ run[s] \in Runs /\ Promising(s)
  BY DEF FixInv, FixturesShape
<1>2. /\ run[s].at = "steps" /\ ScriptGoes(s, step)
      /\ x.do = "clean" => Cleans(s)
      /\ x.do # "clean" => Effect(x) /\ UNCHANGED <<real, abandoned>>
  BY DEF Step, StepsOf
<1>3. s \in DOMAIN Table /\ i \in 1 .. n /\ n \in Nat /\ Table[s].try \in Nat
  <2>1. s \in DOMAIN Table /\ i \in 1 .. n /\ n \in Nat
    BY <1>1, <1>2, TableWritten DEF FixturesShape, WellWritten, StepsOf
  <2>2. \A t \in DOMAIN Table : Table[t].try \in Nat
    BY DEF Table, Script, PlannerDemo, GoldenDraft, GuardDemo, AsOfDemo, DecoyDemo, OcrDemo, OcrSelftest,
           StampDemo, HistorySelftest, CycleSelftest, InvariantSelftest
  <2> QED
    BY <2>1, <2>2
<1>4. /\ Table[s].try = 0 => StepsOf(s)[n].do = "clean"
      /\ x.do = "clean" => i = 1 \/ (i = n /\ Table[s].try = 0)
      /\ \E h \in 1 .. n : StepsOf(s)[h].do \in {"read", "look"} /\ (Table[s].try = 0 => h < n)
  BY <1>3, TableWritten DEF WellWritten, StepsOf
<1>5. F \in BOOLEAN /\ C \in Nat
  BY <1>1, TotalType DEF Runs
<1> HIDE DEF F, C
<1>6. /\ r \in Runs /\ r.at = "steps" /\ r.pc = i /\ r.found = F /\ r.counted = C
      /\ r.hampered = run[s].hampered /\ r.disturbed = run[s].disturbed /\ r.failed = run[s].failed
  BY <1>1, <1>2, <1>5 DEF Runs
<1> HIDE DEF r
<1>7. /\ step \in Runs /\ (step.at = "steps" => step.pc \in 1 .. n)
      /\ step.found = F /\ step.counted = C
      /\ step.hampered = run[s].hampered /\ step.disturbed = run[s].disturbed
      /\ i < n => step.at = "steps" /\ step.pc = i + 1
      /\ i = n /\ Table[s].try > 0 => step.at = "final"
      /\ i = n /\ ~(Table[s].try > 0) => step.at = "ended" /\ step.ok = F
  BY <1>3, <1>6, AfterStep
<1> HIDE DEF step
<1>8. /\ run'[s] = step /\ PlantedKeys' = PlantedKeys
  BY <1>1, <1>2, RunAfter
<1>9. x.do # "clean" => step.at \in {"steps", "final"}
  BY <1>3, <1>4, <1>7
<1>10. /\ planted' \in [PlantedKeys -> Nat] /\ real' = real /\ IsFiniteSet(Copies') /\ Mild /\ Owned'
  <2>1. CASE x.do = "clean"
    BY <1>1, <1>2, <2>1, CleansWell
  <2>2. CASE x.do # "clean"
    <3>1. /\ planted' \in [PlantedKeys -> Nat] /\ IsFiniteSet(Copies') /\ edges \subseteq edges'
          /\ \A k \in PlantedKeys : planted'[k] > 0 => planted[k] > 0 \/ k \in KeysOf(s)
      BY <1>1, <1>2, <2>2, EffectWell
    <3>2. Mild
      BY <3>1 DEF Mild
    <3>3. Owned'
      BY <1>1, <1>2, <1>9, <2>2, <3>1, StillOwned
    <3> QED
      BY <1>2, <2>2, <3>1, <3>2, <3>3
  <2> QED
    BY <2>1, <2>2
<1>11. ASSUME ~run[s].disturbed, ~run[s].hampered
       PROVE  /\ i < n => SoFar(s)'
              /\ i = n => F /\ (Counts(s) => OneAbove(s)')
  <2>1. SoFar(s)
    BY <1>1, <1>2, <1>11 DEF Promising
  <2>2. \A h \in 1 .. i : StepsOf(s)[h].do \in {"read", "look"} => F
    <3> SUFFICES ASSUME NEW h \in 1 .. i, StepsOf(s)[h].do \in {"read", "look"} PROVE F
      OBVIOUS
    <3>1. CASE h = i
      BY <3>1 DEF F
    <3>2. CASE h # i
      <4>1. h \in 1 .. (i - 1)
        BY <1>3, <3>2
      <4> QED
        BY <2>1, <4>1 DEF SoFar, F
    <3> QED
      BY <3>1, <3>2
  <2>3. i < n => \A h \in 1 .. i : /\ Planting(StepsOf(s)[h]) => planted'[StepsOf(s)[h].key] > 0
                                   /\ StepsOf(s)[h].do = "edge" /\ ReadsBack(s) => StepsOf(s)[h].edge \in edges'
    <3> SUFFICES ASSUME i < n, NEW h \in 1 .. i
                 PROVE  /\ Planting(StepsOf(s)[h]) => planted'[StepsOf(s)[h].key] > 0
                        /\ StepsOf(s)[h].do = "edge" /\ ReadsBack(s) => StepsOf(s)[h].edge \in edges'
      OBVIOUS
    <3>1. CASE x.do = "clean"
      <4>1. h = i
        BY <1>3, <1>4, <3>1
      <4> QED
        BY <3>1, <4>1 DEF Planting
    <3>2. CASE x.do # "clean"
      BY <1>1, <1>2, <2>1, <3>2, DoesItsPart
    <3> QED
      BY <3>1, <3>2
  <2>4. ASSUME Counts(s)
        PROVE  /\ i \in {1, 2, 3} /\ n = 3
               /\ i = 1 => (\A k \in KeysOf(s) : planted'[k] = 0) /\ C = Total'
               /\ i \in {2, 3} => (\A k \in KeysOf(s) : planted'[k] = 1) /\ Total' = C + 1
               /\ i # 3 => ~F
    <3>1. x.do # "clean"
      <4>1. /\ n = 3 /\ Table[s].try = 2 /\ StepsOf(s)[1].do = "count"
        BY <1>3, <2>4, CountsWritten DEF StepsOf
      <4> QED
        BY <1>4, <4>1
    <3>2. /\ i \in {1, 2, 3} /\ n = 3
          /\ x.do \in {"read", "look"} <=> i = 3
          /\ i = 1 => (\A k \in KeysOf(s) : planted'[k] = 0) /\ C = Total'
          /\ i \in {2, 3} => (\A k \in KeysOf(s) : planted'[k] = 1) /\ Total' = C + 1
      BY <1>1, <1>2, <2>1, <2>4, <3>1, CountsOn DEF C
    <3>3. ~run[s].found
      BY <2>1, <2>4 DEF SoFar
    <3> QED
      BY <3>2, <3>3 DEF F
  <2>5. KeysOf(s) \cap real' = {} /\ Needs(s) \subseteq real'
    BY <1>10, <2>1 DEF SoFar
  <2>6. ASSUME i < n PROVE SoFar(s)'
    <3>1. step.pc = i + 1 /\ step.pc - 1 = i
      BY <1>3, <1>7, <2>6
    <3>2. ASSUME Counts(s)
          PROVE  /\ ~step.found
                 /\ step.pc < 3 => \A k \in KeysOf(s) : planted'[k] = 0
                 /\ step.pc = 2 => step.counted = Total'
                 /\ step.pc = 3 => Total' = step.counted + 1 /\ \A k \in KeysOf(s) : planted'[k] = 1
      BY <1>3, <1>7, <2>4, <2>6, <3>1, <3>2
    <3>3. \A h \in 1 .. (step.pc - 1) :
             /\ Planting(StepsOf(s)[h]) => planted'[StepsOf(s)[h].key] > 0
             /\ StepsOf(s)[h].do = "edge" /\ ReadsBack(s) => StepsOf(s)[h].edge \in edges'
             /\ StepsOf(s)[h].do \in {"read", "look"} => step.found
      BY <1>7, <2>2, <2>3, <2>6, <3>1
    <3> HIDE DEF i, n, x
    <3> QED
      BY <1>8, <2>5, <3>2, <3>3 DEF SoFar, OneAbove, Counts
  <2>7. ASSUME i = n PROVE F /\ (Counts(s) => OneAbove(s)')
    <3>1. F
      BY <1>4, <2>2, <2>7
    <3>2. Counts(s) => OneAbove(s)'
      BY <1>7, <1>8, <2>4, <2>7 DEF OneAbove
    <3> QED
      BY <3>1, <3>2
  <2> QED
    BY <2>6, <2>7
<1>12. Promising(s)'
  <2> HIDE DEF x
  <2>1. CASE i < n
    BY <1>7, <1>8, <1>11, <2>1 DEF Promising
  <2>2. CASE i = n /\ Table[s].try > 0
    BY <1>7, <1>8, <1>11, <2>2 DEF Promising, Counts
  <2>3. CASE i = n /\ ~(Table[s].try > 0)
    BY <1>7, <1>8, <1>11, <2>3 DEF Promising
  <2> QED
    BY <1>3, <2>1, <2>2, <2>3
<1>13. real' \subseteq RealKeys
  BY <1>1, <1>10 DEF FixturesShape
<1> QED
  BY <1>2, <1>7, <1>10, <1>12, <1>13, StepKeepsFixtures

LEMMA FixturesNextKeeps == ASSUME FixInv, [FixturesNext]_fvars PROVE FixInv'
<1>1. ASSUME NEW s \in Scripts, BeginScript(s) PROVE FixInv'
  BY <1>1, BeginScriptKeeps
<1>2. ASSUME NEW s \in Scripts, Step(s) PROVE FixInv'
  BY <1>2, StepKeeps
<1>3. ASSUME NEW s \in Scripts, Misses(s) PROVE FixInv'
  BY <1>3, MissesKeeps
<1>4. ASSUME NEW s \in Scripts, Finally(s) PROVE FixInv'
  BY <1>4, FinallyKeeps
<1>5. ASSUME NEW s \in Scripts, Compare(s) PROVE FixInv'
  BY <1>5, CompareKeeps
<1>6. ASSUME NEW s \in Scripts, Fail(s) PROVE FixInv'
  BY <1>6, FailKeeps
<1>7. ASSUME NEW s \in Scripts, FinallyFails(s) PROVE FixInv'
  BY <1>7, FinallyFailsKeeps
<1>8. ASSUME NEW s \in Scripts, ScriptDies(s) PROVE FixInv'
  BY <1>8, ScriptDiesKeeps
<1>9. ASSUME NEW k \in RealKeys, RealMoves(k) PROVE FixInv'
  BY <1>9, RealMovesKeeps
<1>10. CASE WipeAll
  BY <1>10, WipeAllKeeps
<1>11. CASE UNCHANGED fvars
  <2>1. /\ planted' = planted /\ real' = real /\ edges' = edges /\ run' = run /\ abandoned' = abandoned
        /\ Scripts' = Scripts
    BY <1>11 DEF fvars, Scripts
  <2>2. PlantedKeys' = PlantedKeys
    BY <2>1 DEF PlantedKeys
  <2>3. Copies' = Copies /\ Total' = Total
    BY <2>1 DEF Copies, Total
  <2>4. FixturesShape'
    BY <2>1, <2>2, <2>3 DEF FixInv, FixturesShape
  <2>5. Owned'
    BY <2>1, <2>2 DEF FixInv, Owned
  <2>6. ASSUME NEW s \in Scripts PROVE Promising(s)'
    <3>1. Promising(s)
      BY DEF FixInv
    <3>2. OneAbove(s)' <=> OneAbove(s)
      BY <2>1, <2>3 DEF OneAbove
    <3>3. SoFar(s)' <=> SoFar(s)
      BY <2>1, <2>3, <3>2 DEF SoFar
    <3> QED
      BY <2>1, <2>3, <3>1, <3>2, <3>3 DEF Promising
  <2> QED
    BY <2>1, <2>4, <2>5, <2>6 DEF FixInv
<1> QED
  BY <1>1, <1>2, <1>3, <1>4, <1>5, <1>6, <1>7, <1>8, <1>9, <1>10, <1>11
     DEF FixturesNext, GoesOn, Accident, Others

LEMMA FixInvHolds == FixturesSpec => []FixInv
<1>1. FixturesInit => FixInv
  BY InitFixtures
<1>2. FixInv /\ [FixturesNext]_fvars => FixInv'
  BY FixturesNextKeeps
<1> QED
  BY <1>1, <1>2, PTL DEF FixturesSpec

\* Nothing planted outlives the scripts, and a script that nobody disturbs or
\* hampers passes when the database answers.
THEOREM TransientTheorem == FixturesSpec => []FixturesAreTransient
<1>1. FixInv => FixturesAreTransient
  BY DEF FixInv, Owned, Promising, FixturesAreTransient, Running
<1> QED
  BY <1>1, FixInvHolds, PTL

-----------------------------------------------------------------------------
(* What the scripts keep well typed.                                          *)

\* A planted edge has both its ends, and whoever left nodes behind is a script.
Anchored ==
    /\ \A e \in edges : Exists(e[1]) /\ Exists(e[2])
    /\ abandoned \subseteq Scripts

\* A node that is there stays when nothing is removed.
LEMMA StaysThere ==
    ASSUME FixturesShape, NEW t, NEW step, ScriptGoes(t, step), real \subseteq real',
           \A k \in PlantedKeys : planted[k] > 0 => planted'[k] > 0
    PROVE  \A k : Exists(k) => Exists(k)'
<1>1. PlantedKeys' = PlantedKeys
  BY RunAfter
<1> QED
  BY <1>1 DEF Exists

LEMMA CleansAnchored ==
    ASSUME FixturesShape, Anchored, NEW s \in Scripts, NEW step, ScriptGoes(s, step), Cleans(s)
    PROVE  Anchored'
<1>1. Scripts' = Scripts /\ PlantedKeys' = PlantedKeys
  BY RunAfter
<1>2. /\ planted' = [k \in PlantedKeys |-> IF k \in KeysOf(s) THEN 0 ELSE planted[k]]
      /\ edges' = {e \in edges : e[1] \notin KeysOf(s) /\ e[2] \notin KeysOf(s)}
      /\ abandoned' \subseteq abandoned /\ real' = real
  BY DEF Cleans, Removed
<1>3. \A k : Exists(k) /\ k \notin KeysOf(s) => Exists(k)'
  BY <1>1, <1>2 DEF Exists
<1> QED
  BY <1>1, <1>2, <1>3 DEF Anchored

LEMMA StepAnchored == ASSUME FixInv, Anchored, NEW s \in Scripts, Step(s) PROVE Anchored'
<1> DEFINE x == StepsOf(s)[run[s].pc]
<1>1. FixturesShape
  BY DEF FixInv
<1>2. PICK step : ScriptGoes(s, step)
  BY DEF Step
<1>3. /\ run[s].at = "steps"
      /\ x.do = "clean" => Cleans(s)
      /\ x.do # "clean" => Effect(x) /\ UNCHANGED <<real, abandoned>>
  BY DEF Step, StepsOf
<1>4. Scripts' = Scripts /\ PlantedKeys' = PlantedKeys
  BY <1>1, <1>2, RunAfter
<1>5. CASE x.do = "clean"
  BY <1>1, <1>2, <1>3, <1>5, CleansAnchored
<1>6. CASE x.do # "clean"
  <2>1. \A k \in PlantedKeys : planted'[k] >= planted[k] /\ planted[k] \in Nat /\ planted'[k] \in Nat
    <3>1. planted' \in [PlantedKeys -> Nat] /\ \A k \in PlantedKeys : planted'[k] >= planted[k]
      BY <1>1, <1>3, <1>6, EffectWell
    <3> QED
      BY <1>1, <3>1 DEF FixturesShape
  <2>2. \A k : Exists(k) => Exists(k)'
    <3>1. \A k \in PlantedKeys : planted[k] > 0 => planted'[k] > 0
      BY <2>1
    <3> QED
      BY <1>1, <1>2, <1>3, <1>6, <3>1, StaysThere
  <2> HIDE DEF x
  <2>3. \A e \in edges' : e \in edges \/ (Exists(e[1]) /\ Exists(e[2]))
    BY <1>3, <1>6 DEF Effect
  <2> QED
    BY <1>3, <1>4, <1>6, <2>2, <2>3 DEF Anchored
<1> QED
  BY <1>5, <1>6

LEMMA RealMovesAnchored == ASSUME FixInv, Anchored, NEW k \in RealKeys, RealMoves(k) PROVE Anchored'
<1>1. /\ ScriptGoes("nobody", NotRun) /\ UNCHANGED <<planted, abandoned>>
      /\ real' = IF k \in real THEN real \ {k} ELSE real \cup {k}
      /\ edges' = {e \in edges : k \notin {e[1], e[2]}}
  BY DEF RealMoves
<1>2. Scripts' = Scripts /\ PlantedKeys' = PlantedKeys
  BY <1>1, RunAfter DEF FixInv
<1>3. \A h : h # k /\ Exists(h) => Exists(h)'
  BY <1>1, <1>2 DEF Exists
<1> QED
  BY <1>1, <1>2, <1>3 DEF Anchored

\* The steps of a script that leave the graph as it is.
LEMMA QuietAnchored ==
    ASSUME FixInv, Anchored, NEW s \in Scripts, NEW step, ScriptGoes(s, step),
           UNCHANGED <<planted, real, edges>>, abandoned' \subseteq abandoned \cup {s}
    PROVE  Anchored'
<1>1. Scripts' = Scripts /\ PlantedKeys' = PlantedKeys
  BY RunAfter DEF FixInv
<1>2. \A k : Exists(k)' <=> Exists(k)
  BY <1>1 DEF Exists
<1> QED
  BY <1>1, <1>2 DEF Anchored

LEMMA FixturesNextAnchored == ASSUME FixInv, Anchored, [FixturesNext]_fvars PROVE Anchored'
<1>1. ASSUME NEW s \in Scripts, BeginScript(s) PROVE Anchored'
  BY <1>1, QuietAnchored DEF BeginScript
<1>2. ASSUME NEW s \in Scripts, Step(s) PROVE Anchored'
  BY <1>2, StepAnchored
<1>3. ASSUME NEW s \in Scripts, Misses(s) \/ Fail(s) PROVE Anchored'
  <2>1. PICK failed : Leaves(s, failed)
    BY <1>3 DEF Misses, Fail
  <2>2. PICK step : ScriptGoes(s, step)
    BY <2>1 DEF Leaves
  <2> QED
    BY <2>1, <2>2, QuietAnchored DEF Leaves
<1>4. ASSUME NEW s \in Scripts, Finally(s) PROVE Anchored'
  BY <1>4, CleansAnchored DEF Finally, FixInv
<1>5. ASSUME NEW s \in Scripts, FinallyFails(s) PROVE Anchored'
  BY <1>5, QuietAnchored DEF FinallyFails
<1>6. ASSUME NEW s \in Scripts, Compare(s) PROVE Anchored'
  BY <1>6, QuietAnchored DEF Compare
<1>7. ASSUME NEW s \in Scripts, ScriptDies(s) PROVE Anchored'
  BY <1>7, QuietAnchored DEF ScriptDies
<1>8. ASSUME NEW k \in RealKeys, RealMoves(k) PROVE Anchored'
  BY <1>8, RealMovesAnchored
<1>9. CASE WipeAll
  BY <1>9 DEF WipeAll, Anchored
<1>10. CASE UNCHANGED fvars
  BY <1>10 DEF fvars, Anchored, Exists, PlantedKeys, Scripts
<1> QED
  BY <1>1, <1>2, <1>3, <1>4, <1>5, <1>6, <1>7, <1>8, <1>9, <1>10
     DEF FixturesNext, GoesOn, Accident, Others

\* The state of the scripts stays well typed: in particular a planted edge never
\* outlives a node at one of its ends, whoever removes it (DETACH DELETE), and is
\* never merged without one.
THEOREM FixturesTypeTheorem == FixturesSpec => []FixturesTypeOK
<1>1. FixturesInit => Anchored
  BY DEF FixturesInit, Anchored
<1>2. FixInv /\ Anchored /\ [FixturesNext]_fvars => Anchored'
  BY FixturesNextAnchored
<1>3. FixInv /\ Anchored => FixturesTypeOK
  BY DEF FixInv, FixturesShape, Anchored, FixturesTypeOK, Runs, Places
<1> QED
  BY <1>1, <1>2, <1>3, FixInvHolds, PTL DEF FixturesSpec

-----------------------------------------------------------------------------
(* All that goes on around serve(), scene by scene.                           *)

\* A scene runs one of the components, or moves what the two loops share, which
\* is what their caller may read.
LEMMA SceneSteps ==
    ASSUME [MCNext]_mcvars
    PROVE  /\ [PlannerNext]_pvars \/ (UNCHANGED planVars /\ [CorrectiveNext]_cvars)
           /\ [CorrectiveNext]_cvars \/ (UNCHANGED searchVars /\ [PlannerNext]_pvars)
           /\ [CommunitiesNext]_gvars /\ [JudgingNext]_jvars /\ [MiningNext]_mvars
           /\ [FixturesNext]_fvars
<1>1. CASE Plans
  BY <1>1 DEF Plans, Going
<1>2. CASE Corrects
  BY <1>2 DEF Corrects, Going
<1> DEFINE Loops == UNCHANGED pvars /\ UNCHANGED cvars
<1>3. UNCHANGED <<pvars, searchVars>> => Loops
  BY DEF pvars, searchVars, cvars
<1>4. CASE Rebuilds
  BY <1>3, <1>4 DEF Rebuilds, Going, Event, CommunitiesNext
<1>5. CASE Calibrates
  BY <1>3, <1>5 DEF Calibrates, Going, Event, JudgingNext
<1>6. CASE Mines
  BY <1>3, <1>6 DEF Mines, Going, Event, MiningNext
<1>7. CASE Plants
  BY <1>3, <1>7 DEF Plants, Going, Event, FixturesNext
<1>8. CASE UNCHANGED mcvars
  BY <1>3, <1>8 DEF mcvars
<1> QED
  BY <1>1, <1>2, <1>4, <1>5, <1>6, <1>7, <1>8 DEF MCNext

\* Both loops keep what they keep alone.
LEMMA LoopsStep ==
    ASSUME PlannerInv, CorrectiveInv, [MCNext]_mcvars
    PROVE  PlannerInv' /\ CorrectiveInv'
<1>1. CASE [PlannerNext]_pvars /\ [CorrectiveNext]_cvars
  BY <1>1, PlannerNextInv, CorrectiveNextInv
<1>2. CASE UNCHANGED planVars /\ [CorrectiveNext]_cvars
  <2>1. CorrectiveInv'
    BY <1>2, CorrectiveNextInv
  <2>2. inScope' \subseteq Real
    BY <2>1 DEF CorrectiveInv, StillAsks
  <2> QED
    BY <1>2, <2>1, <2>2 DEF planVars, PlannerInv, Phased, StepsCounted, OnlyStaleIsConfident
<1>3. CASE UNCHANGED searchVars /\ [PlannerNext]_pvars
  <2>1. PlannerInv'
    BY <1>3, PlannerNextInv
  <2>2. inScope' \subseteq Real
    BY <2>1 DEF PlannerInv
  <2> QED
    BY <1>3, <2>1, <2>2, QuietSteps DEF searchVars
<1> QED
  BY <1>1, <1>2, <1>3, SceneSteps

\* The scenes add no behaviour to the components that share no state: what is
\* proved of each of them for every value of its constants is true of the runs.
LEMMA ScenesAreTheirs ==
    MCSpec => CommunitiesSpec /\ JudgingSpec /\ MiningSpec /\ FixturesSpec
<1>1. MCInit => CommunitiesInit /\ JudgingInit /\ MiningInit /\ FixturesInit
  BY DEF MCInit
<1>2. [MCNext]_mcvars => /\ [CommunitiesNext]_gvars /\ [JudgingNext]_jvars /\ [MiningNext]_mvars
                         /\ [FixturesNext]_fvars
  BY SceneSteps
<1> QED
  BY <1>1, <1>2, PTL DEF MCSpec, CommunitiesSpec, JudgingSpec, MiningSpec, FixturesSpec

LEMMA LoopsHold == MCSpec => [](PlannerInv /\ CorrectiveInv)
<1>1. MCInit => PlannerInv /\ CorrectiveInv
  BY PlannerInitInv, CorrectiveInitInv DEF MCInit
<1>2. PlannerInv /\ CorrectiveInv /\ [MCNext]_mcvars => PlannerInv' /\ CorrectiveInv'
  BY LoopsStep
<1> QED
  BY <1>1, <1>2, PTL DEF MCSpec

\* The type invariant of everything around serve(), in the composition that TLC
\* runs, for every value of the constants: the planner's and the corrective
\* loop's, of communities, calibration, miners and scripts.
THEOREM CallersTypeTheorem == MCSpec => []TypeOK
<1>1. PlannerInv => PlannerTypeOK
  BY DEF PlannerInv, Phased, StepsCounted, PlannerTypeOK
<1>2. CorrectiveInv => CorrectiveTypeOK
  BY DEF CorrectiveInv, StillAsks, RewritesCounted, Acted, ResolvedAs, CorrectiveTypeOK
<1>3. /\ PlannerTypeOK /\ CorrectiveTypeOK /\ CommunitiesTypeOK /\ JudgingTypeOK /\ MiningTypeOK
      /\ FixturesTypeOK
      => TypeOK
  BY DEF TypeOK
<1> QED
  BY <1>1, <1>2, <1>3, LoopsHold, ScenesAreTheirs, CommunitiesTypeTheorem, JudgingTypeTheorem,
     MiningTypeTheorem, FixturesTypeTheorem, PTL

=============================================================================

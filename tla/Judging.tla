------------------------------- MODULE Judging -------------------------------
(* The calibration runs that ask a judge outside the system (03-evals/src/    *)
(* cal3_fit.py and cal4_sweep.py over judge_adapter.py).  Each script labels  *)
(* the answers that serve() gives to the questions of the golden set; every   *)
(* scored verdict is a line of the script's checkpoint file, so that a script *)
(* that was stopped takes up where it was.  cal3 asks one question after the  *)
(* other; cal4 hands its jobs to a pool of threads, and reads the results     *)
(* that cal3 wrote.  The verdicts themselves are not told apart: the modelled *)
(* part is which of them a run has, of which answer, and how it ends.         *)
EXTENDS Naturals, Sequences, FiniteSets, SequencesExt

CONSTANTS
    Prose,        \* the questions whose gold answer is free text; there are some
    Easy,         \* those whose gold answer is compared exactly
    TRIALS,       \* how often cal4 has a prose answer judged
    EASY_TRIALS,  \* how often it has another answer judged
    Workers,      \* the threads of cal4's pool
    Versions,     \* of the answer that serve gives
    Withheld,     \* that it gives none
    Roles         \* the keys of CALIBRATED

ASSUME ProseAssumption == IsFiniteSet(Prose)

VARIABLES
    judge,    \* how the judge's program behaves
    answer,   \* what serve answers to each question now
    file,     \* the checkpoint: of each job, the answers whose verdict is in it
    torn,     \* the scripts whose checkpoint ends in half a line
    results,  \* cal3 has written its results
    script,   \* the script that runs, or "none"
    given,    \* the answers that it judges
    queue,    \* its jobs that no thread has taken
    taken,    \* the job of each thread, or NoJob
    got,      \* what came of its other jobs
    leased,   \* the roles that hold a lease in its process
    verdict   \* how the last run ended

jvars == <<judge, answer, file, torn, results, script, given, queue, taken, got, leased, verdict>>

Questions == Prose \cup Easy
NoJob == [of |-> "none"]
Job(kind, q, t) == [of |-> kind, q |-> q, t |-> t]

\* The jobs of a script for the questions in qs, t times each.
Jobs(kinds, qs, n) == {Job(k, q, t) : k \in kinds, q \in qs, t \in 1 .. n}

Judged == Jobs({"point", "pairA", "pairB"}, Prose, TRIALS)
Votes == Jobs({"easy"}, Easy, EASY_TRIALS)
Labels == Jobs({"label"}, Prose, 3)

ScriptOf(j) == IF j.of = "label" THEN "cal3" ELSE "cal4"

JudgingInit ==
    /\ judge = "works"
    /\ answer \in [Questions -> Versions]
    /\ file = [j \in Judged \cup Votes \cup Labels |-> <<>>]
    /\ torn = {}
    /\ results \in BOOLEAN              \* the file may be there from before
    /\ script = "none"
    /\ given = answer
    /\ queue = <<>>
    /\ taken = [w \in Workers |-> NoJob]
    /\ got = <<>>
    /\ leased = {}
    /\ verdict = "none"

Idle == \A w \in Workers : taken[w] = NoJob

Start(s, jobs) ==
    /\ script = "none"
    /\ script' = s
    /\ given' = answer
    /\ queue' = SetToSeq(jobs)
    /\ got' = <<>>
    /\ verdict' = "none"
    /\ leased' \in SUBSET Roles          \* the table as the source has it
    /\ UNCHANGED <<judge, answer, file, torn, results, taken>>

StartCal3 == Start("cal3", Labels)

\* cal4 loads the checkpoint to tell how much of it is done, and raises when it
\* cannot.
StartCal4 == "cal4" \notin torn /\ Start("cal4", Judged \cup Votes)

\* A thread takes the next job; cal3 has no pool, and asks serve for an answer
\* when it comes to its question.
Take(w) ==
    /\ script # "none" /\ taken[w] = NoJob /\ queue # <<>>
    /\ script = "cal3" => Idle
    /\ taken' = [taken EXCEPT ![w] = Head(queue)]
    /\ queue' = Tail(queue)
    /\ given' = IF script = "cal3" /\ \A j \in DOMAIN got : j.q # Head(queue).q
                THEN [given EXCEPT ![Head(queue).q] = answer[Head(queue).q]] ELSE given
    /\ UNCHANGED <<judge, answer, file, torn, results, script, got, leased, verdict>>

\* label_correct settles without a judge that nothing was answered.
Settled(j) == j.of = "label" /\ given[j.q] = Withheld

\* score_match and judge_pair.  A key in the checkpoint is not judged again; a
\* judge that is not there, fails three times or replies with something else
\* leaves the job unscored and writes nothing; one that asks for a login or for
\* money raises, and so does a checkpoint that cannot be read.
Outcome(j) ==
    CASE Settled(j) -> [of |-> "settled"]
      [] ~Settled(j) /\ ScriptOf(j) \in torn -> [of |-> "error"]
      [] ~Settled(j) /\ ScriptOf(j) \notin torn /\ file[j] # <<>> ->
           [of |-> "scored", about |-> Last(file[j])]
      [] OTHER -> CASE judge = "works" -> [of |-> "scored", about |-> given[j.q]]
                    [] judge = "unpaid" -> [of |-> "error"]
                    [] OTHER -> [of |-> "unscored"]

\* A new verdict is appended to the checkpoint.
Writes(j) == Outcome(j).of = "scored" /\ file[j] = <<>>

\* A thread is through with its job.  cal4 counts an error and goes on; cal3
\* has no handler, and the script ends.
Finish(w) ==
    /\ taken[w] # NoJob
    /\ LET j == taken[w]
       IN  /\ got' = [k \in DOMAIN got \cup {j} |-> IF k = j THEN Outcome(j) ELSE got[k]]
           /\ file' = IF Writes(j) THEN [file EXCEPT ![j] = Append(@, given[j.q])] ELSE file
           /\ IF script = "cal3" /\ Outcome(j).of = "error"
              THEN script' = "none" /\ verdict' = "raised" /\ queue' = <<>>
              ELSE UNCHANGED <<script, verdict, queue>>
    /\ taken' = [taken EXCEPT ![w] = NoJob]
    /\ UNCHANGED <<judge, answer, torn, results, given, leased>>

Having(of, jobs) == {j \in jobs \cap DOMAIN got : got[j].of = of}

\* A judge that is absent is no failure by itself; one that is there and does
\* not score is.
Degraded == Having("unscored", DOMAIN got) # {} /\ judge # "absent"

Complete == script # "none" /\ queue = <<>> /\ Idle

\* The end of cal3: rows that were not scored thrice are left out of the fit,
\* and the fit may fail by itself (the data of the fit are not modelled).
EndCal3 ==
    /\ Complete /\ script = "cal3"
    /\ LET rows == {q \in Prose : \A t \in 1 .. 3 : got[Job("label", q, t)].of \in {"scored", "settled"}}
       IN  \/ /\ rows \cup Easy # {} /\ ~Degraded /\ leased = {}
              /\ verdict' = "OK"
           \/ verdict' = "FAIL"
    /\ results' = TRUE
    /\ script' = "none"
    /\ UNCHANGED <<judge, answer, file, torn, given, queue, taken, got, leased>>

\* Mutant: a question without enough verdicts is reported, and no failure.
ShortOfNone == FALSE

\* Too few verdicts on a prose answer, or none on another one.
Short ==
    \/ Having("scored", Judged) # Judged
    \/ \E q \in Easy : Having("scored", {j \in Votes : j.q = q}) = {}

\* The end of cal4, without the results of cal3 an exception.  The human's
\* agreement cannot be measured, so every lease of the process is revoked.
EndCal4 ==
    /\ Complete /\ script = "cal4"
    /\ IF ~results THEN verdict' = "raised" /\ UNCHANGED leased
       ELSE /\ leased' = {}
            /\ verdict' = IF Degraded \/ Short \/ Having("error", DOMAIN got) # {}
                          THEN "FAIL" ELSE "OK"
    /\ script' = "none"
    /\ UNCHANGED <<judge, answer, file, torn, results, given, queue, taken, got>>

\* The process dies, perhaps in the middle of a line.
Die ==
    /\ script # "none"
    /\ script' = "none" /\ verdict' = "died"
    /\ queue' = <<>> /\ taken' = [w \in Workers |-> NoJob]
    /\ \/ UNCHANGED torn
       \/ /\ \E w \in Workers : taken[w] # NoJob /\ Writes(taken[w])
          /\ torn' = torn \cup {script}
    /\ UNCHANGED <<judge, answer, file, results, given, got, leased>>

\* The judge's program is installed, breaks, or wants a login.
JudgeTurns ==
    /\ judge' \in {"works", "broken", "unpaid", "absent"} \ {judge}
    /\ UNCHANGED <<answer, file, torn, results, script, given, queue, taken, got, leased, verdict>>

\* The graph changes, and with it what serve answers.
Reanswer ==
    /\ \E q \in Questions, v \in Versions : v # answer[q] /\ answer' = [answer EXCEPT ![q] = v]
    /\ UNCHANGED <<judge, file, torn, results, script, given, queue, taken, got, leased, verdict>>

JudgingNext ==
    \/ StartCal3 \/ StartCal4
    \/ \E w \in Workers : Take(w) \/ Finish(w)
    \/ EndCal3 \/ EndCal4 \/ Die
    \/ JudgeTurns \/ Reanswer

JudgingSpec == JudgingInit /\ [][JudgingNext]_jvars

-----------------------------------------------------------------------------
(* Properties                                                                 *)

\* Every variable holds what the code lets it hold.
JudgingTypeOK ==
    /\ judge \in {"works", "broken", "unpaid", "absent"}
    /\ answer \in [Questions -> Versions] /\ given \in [Questions -> Versions]
    /\ torn \subseteq {"cal3", "cal4"}
    /\ script \in {"none", "cal3", "cal4"}
    /\ verdict \in {"none", "OK", "FAIL", "raised", "died"}
    /\ leased \subseteq Roles

\* CAL4_OK is never said of a sweep that the judge did not go through, however
\* it behaved meanwhile and whatever was resumed: every prose answer has all
\* its verdicts and every other one has at least one, nothing raised, and no
\* role keeps a lease that its agreement with a human did not earn.
OkMeansJudged ==
    (verdict = "OK" /\ DOMAIN got \subseteq Judged \cup Votes /\ DOMAIN got # {}) =>
        /\ \A j \in Judged : j \in DOMAIN got /\ got[j].of = "scored"
        /\ \A q \in Easy : \E t \in 1 .. EASY_TRIALS : got[Job("easy", q, t)].of = "scored"
        /\ \A j \in DOMAIN got : got[j].of # "error"
        /\ leased = {}

=============================================================================

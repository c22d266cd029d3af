------------------------------ MODULE ScoreRun ------------------------------
(***************************************************************************)
(* Deliveries of the scoring cron (run_score.py), each one transaction:    *)
(* pass 1 scores what has no score, pass 2 screens and judges the best     *)
(* unjudged jobs under a daily spend ceiling (llm.py, judge.py,            *)
(* filters/sharia.py).  They run beside each other, beside discovery runs, *)
(* which keep every company they touch locked until they commit            *)
(* (upsert_company), and beside a user who rules on companies              *)
(* (set_sharia_override).                                                  *)
(*                                                                         *)
(* A transaction sees what is committed and, over it, the rows it wrote    *)
(* itself (READ COMMITTED); a row it wrote stays locked to the end.  One   *)
(* day's ledger is modelled; what Anthropic charged is outside it.         *)
(***************************************************************************)
EXTENDS Naturals, FiniteSets

CONSTANTS Run,            \* deliveries of the scoring cron
          Ingest,         \* discovery runs
          Job,            \* live jobs that passed the pre-filter
          Company,
          CompanyOf,
          Rank,           \* total_score
          Listed,         \* companies the blocklist resolves
          Reply,          \* verdicts the classifier gives, coerced to VERDICTS
          Ruling,         \* verdicts the user gives
          BatchSize,      \* _SCORE_BATCH
          JudgeLimit,     \* daily_judge_limit
          PerCompany,     \* judge_per_company_cap
          Cap,            \* daily_llm_cap_usd
          MaxCost,        \* bound on the cost of one call
          None            \* no row, no transaction

Txn == Run \cup Ingest
Row == Job \cup Company
Verdict == {"allowed", "flagged", "excluded", "unknown"}

ASSUME ScoreAssumption ==
    /\ Run \cap Ingest = {} /\ Job \cap Company = {}
    /\ None \notin Txn \cup Row
    /\ IsFiniteSet(Job)
    /\ CompanyOf \in [Job -> Company]
    /\ Rank \in [Job -> Nat]
    /\ \A j, k \in Job : Rank[j] = Rank[k] => j = k
    /\ Listed \subseteq Company
    /\ Reply \subseteq Verdict /\ Ruling \subseteq Verdict
    /\ BatchSize \in Nat \ {0} /\ JudgeLimit \in Nat /\ PerCompany \in Nat
    /\ Cap \in Nat /\ MaxCost \in Nat \ {0}

VARIABLES pc,             \* where each transaction is
          batch,          \* pass 1: jobs of the batch still to write
          more,           \* pass 1: the batch was full, so another one follows
          todo,           \* pass 2: candidates not yet dealt with
          at,             \* the row the transaction is working on
          reply,          \* the verdict about to be stored, and its source
          lock,           \* the transaction that wrote the row
          newScore,       \* the rows of scores as their lock's holder sees them
          newScreen,      \* the rows of companies as their lock's holder sees them
          bill,           \* the llm_spend rows of a transaction, summed
          score,          \* committed rows of scores
          screen,         \* committed verdict and source of each company
          spend,          \* committed llm_spend of the day
          charged,        \* what Anthropic charged
          unanswered,     \* of that, for calls no answer came back from (auxiliary)
          undone,         \* of that, with its row rolled back (auxiliary)
          overlapped      \* two scoring runs were under way at once (auxiliary)

control == <<pc, batch, more, todo, at, reply>>
private == <<lock, newScore, newScreen, bill>>
db == <<score, screen, spend>>
money == <<charged, unanswered, undone>>
vars == <<control, private, db, money, overlapped>>

\* Levels of a row of scores.
Unscored == 0
Scored == 1
Judged == 2

Undecided == [verdict |-> "unknown", source |-> "none"]
Screening == [verdict : Verdict, source : {"none", "blocklist", "llm", "user"}]

Ended == {"committed", "failed", "killed"}
InPass1 == {"batching", "scoring", "upserting"}
InPass2 == {"picking", "choosing", "screening", "asking", "storing", "judging", "reading", "recording"}
State == {"idle", "ingesting", "touching", "finishing"} \cup InPass1 \cup InPass2 \cup Ended

Active(t) == pc[t] \notin {"idle"} \cup Ended

Init ==
    /\ pc = [t \in Txn |-> "idle"]
    /\ batch = [r \in Run |-> {}]
    /\ more = [r \in Run |-> FALSE]
    /\ todo = [r \in Run |-> {}]
    /\ at = [t \in Txn |-> None]
    /\ reply = [r \in Run |-> Undecided]
    /\ lock = [x \in Row |-> None]
    /\ score = [j \in Job |-> Unscored]
    /\ newScore = score
    /\ screen = [c \in Company |-> Undecided]
    /\ newScreen = screen
    /\ bill = [r \in Run |-> 0]
    /\ spend = 0
    /\ charged = 0
    /\ unanswered = 0
    /\ undone = 0
    /\ overlapped = FALSE

-----------------------------------------------------------------------------
(* What a transaction sees.                                                *)

ScoreSeen(r, j) == IF lock[j] = r THEN newScore[j] ELSE score[j]

ScreenSeen(r, c) == IF lock[c] = r THEN newScreen[c] ELSE screen[c]

\* A row can be written once no other transaction has it.
CanWrite(t, x) == lock[x] \in {None, t}

\* jobs_needing_scores, before its LIMIT.
NeedScores(r) == {j \in Job : ScoreSeen(r, j) = Unscored}

\* The first n of a set of jobs, by total_score.
Best(n, S) == {j \in S : Cardinality({k \in S : Rank[k] >= Rank[j]}) <= n}

\* top_unjudged: at most PerCompany per employer, then the limit.
TopUnjudged(r) ==
    LET unjudged == {j \in Job : ScoreSeen(r, j) = Scored}
        capped == {j \in unjudged :
                     j \in Best(PerCompany, {k \in unjudged : CompanyOf[k] = CompanyOf[j]})}
    IN  Best(JudgeLimit, capped)

\* The plausible slips the mutants try: a re-score that overwrites the
\* judgement, a ledger kept in the process, a screen that does not look who
\* decided, locks that outlive their transaction, a candidate not taken off.
Overwritten(old, new) == new

TallyInProcess(r) == bill[r] >= Cap

AnySource(r, c) == FALSE

KeepLocks(t) == UNCHANGED <<lock, newScore, newScreen>>

NotTakenOff(r) == todo' = todo

\* assert_under_cap: spend_today reads the table, this transaction's rows included.
CapReached(r) == spend + bill[r] >= Cap

\* A user's ruling, or any verdict but unknown, needs no second opinion.
Decided(seen) == seen.source = "user" \/ (seen.source # "none" /\ seen.verdict # "unknown")

\* upsert_score keeps a judgement over a score that has none (COALESCE).
Upserted(old, new) == IF old > new THEN old ELSE new

-----------------------------------------------------------------------------
(* Pass 1: score what has no score.                                        *)

\* GET /api/cron/score: load_profile, start_run.  The scheduler "may skip a
\* tick or deliver one twice" (run_score.py:12).
Begin(r) ==
    /\ pc[r] = "idle"
    /\ pc' = [pc EXCEPT ![r] = "batching"]
    /\ overlapped' = (overlapped \/ \E q \in Run : Active(q))
    /\ UNCHANGED <<batch, more, todo, at, reply, private, db, money>>

\* Jobs of one discovery run share their last_seen_at, so that ORDER BY
\* leaves the batch and its order open.
SelectBatch(r) ==
    /\ pc[r] = "batching"
    /\ \E B \in SUBSET NeedScores(r) :
        /\ Cardinality(B) <= BatchSize
        /\ B # NeedScores(r) => Cardinality(B) = BatchSize
        /\ batch' = [batch EXCEPT ![r] = B]
        /\ more' = [more EXCEPT ![r] = Cardinality(B) = BatchSize]
        /\ pc' = [pc EXCEPT ![r] = IF B = {} THEN "picking" ELSE "scoring"]
    /\ UNCHANGED <<todo, at, reply, private, db, money, overlapped>>

ScoreNext(r, j) ==
    /\ pc[r] = "scoring"
    /\ j \in batch[r]
    /\ at' = [at EXCEPT ![r] = j]
    /\ pc' = [pc EXCEPT ![r] = "upserting"]
    /\ UNCHANGED <<batch, more, todo, reply, private, db, money, overlapped>>

\* upsert_score, which waits for a row another transaction has written and
\* then merges with what that one committed.
WriteScore(r, j, level) ==
    /\ CanWrite(r, j)
    /\ lock' = [lock EXCEPT ![j] = r]
    /\ newScore' = [newScore EXCEPT ![j] = Upserted(@, level)]

UpsertScore(r) ==
    /\ pc[r] = "upserting"
    /\ WriteScore(r, at[r], Scored)
    /\ batch' = [batch EXCEPT ![r] = @ \ {at[r]}]
    /\ at' = [at EXCEPT ![r] = None]
    /\ pc' = [pc EXCEPT ![r] = "scoring"]
    /\ UNCHANGED <<more, todo, reply, newScreen, bill, db, money, overlapped>>

BatchDone(r) ==
    /\ pc[r] = "scoring"
    /\ batch[r] = {}
    /\ pc' = [pc EXCEPT ![r] = IF more[r] THEN "batching" ELSE "picking"]
    /\ more' = [more EXCEPT ![r] = FALSE]
    /\ UNCHANGED <<batch, todo, at, reply, private, db, money, overlapped>>

\* The budget is looked at before each batch, before pass 2, before each candidate.
OutOfTime(r) ==
    /\ pc[r] \in {"batching", "picking", "choosing"}
    /\ pc' = [pc EXCEPT ![r] = "finishing"]
    /\ todo' = [todo EXCEPT ![r] = {}]
    /\ UNCHANGED <<batch, more, at, reply, private, db, money, overlapped>>

-----------------------------------------------------------------------------
(* Pass 2: screen and judge the best unjudged jobs, in rank order.         *)

PickCandidates(r) ==
    /\ pc[r] = "picking"
    /\ todo' = [todo EXCEPT ![r] = TopUnjudged(r)]
    /\ pc' = [pc EXCEPT ![r] = "choosing"]
    /\ UNCHANGED <<batch, more, at, reply, private, db, money, overlapped>>

NextCandidate(r, j) ==
    /\ pc[r] = "choosing"
    /\ j \in todo[r]
    /\ \A k \in todo[r] : Rank[k] <= Rank[j]
    /\ at' = [at EXCEPT ![r] = j]
    /\ pc' = [pc EXCEPT ![r] = "screening"]
    /\ UNCHANGED <<batch, more, todo, reply, private, db, money, overlapped>>

NoMoreCandidates(r) ==
    /\ pc[r] = "choosing"
    /\ todo[r] = {}
    /\ pc' = [pc EXCEPT ![r] = "finishing"]
    /\ UNCHANGED <<batch, more, todo, at, reply, private, db, money, overlapped>>

TakeOff(r) == todo' = [todo EXCEPT ![r] = @ \ {at[r]}]

\* screen_company returns: an excluded employer's job is passed over.
Screened(r, verdict) ==
    IF verdict = "excluded"
    THEN /\ pc' = [pc EXCEPT ![r] = "choosing"]
         /\ TakeOff(r)
         /\ at' = [at EXCEPT ![r] = None]
    ELSE /\ pc' = [pc EXCEPT ![r] = "judging"]
         /\ UNCHANGED <<todo, at>>

Employer(r) == CompanyOf[at[r]]

ScreenCached(r) ==
    LET seen == ScreenSeen(r, Employer(r)) IN
    /\ pc[r] = "screening"
    /\ Decided(seen)
    /\ Screened(r, seen.verdict)
    /\ UNCHANGED <<batch, more, reply, private, db, money, overlapped>>

ScreenListed(r) ==
    /\ pc[r] = "screening"
    /\ ~Decided(ScreenSeen(r, Employer(r)))
    /\ Employer(r) \in Listed
    /\ reply' = [reply EXCEPT ![r] = [verdict |-> "excluded", source |-> "blocklist"]]
    /\ pc' = [pc EXCEPT ![r] = "storing"]
    /\ UNCHANGED <<batch, more, todo, at, private, db, money, overlapped>>

\* The classifier is asked if the ceiling allows; else the verdict is unknown.
ScreenAsks(r) ==
    /\ pc[r] = "screening"
    /\ ~Decided(ScreenSeen(r, Employer(r)))
    /\ Employer(r) \notin Listed
    /\ IF CapReached(r)
       THEN Screened(r, "unknown")
       ELSE pc' = [pc EXCEPT ![r] = "asking"] /\ UNCHANGED <<todo, at>>
    /\ UNCHANGED <<batch, more, reply, private, db, money, overlapped>>

\* An answer is charged, and record_spend writes its row.
Charge(r, cost) ==
    /\ charged' = charged + cost
    /\ bill' = [bill EXCEPT ![r] = @ + cost]
    /\ UNCHANGED <<unanswered, undone>>

ScreenAnswered(r, cost) ==
    /\ pc[r] = "asking"
    /\ Charge(r, cost)
    /\ \E v \in Reply : reply' = [reply EXCEPT ![r] = [verdict |-> v, source |-> "llm"]]
    /\ pc' = [pc EXCEPT ![r] = "storing"]
    /\ UNCHANGED <<batch, more, todo, at, lock, newScore, newScreen, db, overlapped>>

\* The call raised: before it was charged, or after, when the answer does not
\* parse or comes too late; then nothing is recorded.
CallRaises(cost) ==
    /\ charged' = charged + cost
    /\ unanswered' = unanswered + cost
    /\ UNCHANGED undone

\* "Leave it unknown rather than excluded."
ScreenFails(r, cost) ==
    /\ pc[r] = "asking"
    /\ CallRaises(cost)
    /\ Screened(r, "unknown")
    /\ UNCHANGED <<batch, more, reply, private, db, overlapped>>

\* The WHERE clause of _store spares a row the user ruled on.
RuledByUser(r, c) == ScreenSeen(r, c).source = "user"

\* _store; screen_company returns the verdict it found, stored or not.
StoreVerdict(r) ==
    LET c == Employer(r) IN
    /\ pc[r] = "storing"
    /\ IF RuledByUser(r, c)
       THEN UNCHANGED <<lock, newScreen>>
       ELSE /\ CanWrite(r, c)
            /\ lock' = [lock EXCEPT ![c] = r]
            /\ newScreen' = [newScreen EXCEPT ![c] = reply[r]]
    /\ Screened(r, reply[r].verdict)
    /\ reply' = [reply EXCEPT ![r] = Undecided]
    /\ UNCHANGED <<batch, more, newScore, bill, db, money, overlapped>>

\* judge_job returned None: stop judging, keep the scores.
StopJudging(r) ==
    /\ pc' = [pc EXCEPT ![r] = "finishing"]
    /\ todo' = [todo EXCEPT ![r] = {}]
    /\ at' = [at EXCEPT ![r] = None]

Judge(r) ==
    /\ pc[r] = "judging"
    /\ IF CapReached(r)
       THEN StopJudging(r)
       ELSE pc' = [pc EXCEPT ![r] = "reading"] /\ UNCHANGED <<todo, at>>
    /\ UNCHANGED <<batch, more, reply, private, db, money, overlapped>>

JudgeAnswered(r, cost) ==
    /\ pc[r] = "reading"
    /\ Charge(r, cost)
    /\ pc' = [pc EXCEPT ![r] = "recording"]
    /\ UNCHANGED <<batch, more, todo, at, reply, lock, newScore, newScreen, db, overlapped>>

JudgeFails(r, cost) ==
    /\ pc[r] = "reading"
    /\ CallRaises(cost)
    /\ StopJudging(r)
    /\ UNCHANGED <<batch, more, reply, private, db, overlapped>>

\* score_components_for finds the row: scores are never deleted.
RecordJudgement(r) ==
    /\ pc[r] = "recording"
    /\ WriteScore(r, at[r], Judged)
    /\ TakeOff(r)
    /\ at' = [at EXCEPT ![r] = None]
    /\ pc' = [pc EXCEPT ![r] = "choosing"]
    /\ UNCHANGED <<batch, more, reply, newScreen, bill, db, money, overlapped>>

-----------------------------------------------------------------------------
(* Discovery runs and the user, as far as scoring meets them.              *)

\* upsert_company on the next posting; it leaves the verdict alone.
IngestNext(d, c) ==
    /\ pc[d] \in {"idle", "ingesting"}
    /\ lock[c] # d
    /\ at' = [at EXCEPT ![d] = c]
    /\ pc' = [pc EXCEPT ![d] = "touching"]
    /\ UNCHANGED <<batch, more, todo, reply, private, db, money, overlapped>>

TouchCompany(d) ==
    /\ pc[d] = "touching"
    /\ CanWrite(d, at[d])
    /\ lock' = [lock EXCEPT ![at[d]] = d]
    /\ at' = [at EXCEPT ![d] = None]
    /\ pc' = [pc EXCEPT ![d] = "ingesting"]
    /\ UNCHANGED <<batch, more, todo, reply, newScore, newScreen, bill, db, money, overlapped>>

\* POST /settings/sharia, a transaction of one statement.
Rule(c, verdict) ==
    /\ lock[c] = None
    /\ screen' = [screen EXCEPT ![c] = [verdict |-> verdict, source |-> "user"]]
    /\ newScreen' = [newScreen EXCEPT ![c] = screen'[c]]
    /\ UNCHANGED <<control, lock, newScore, bill, score, spend, money, overlapped>>

-----------------------------------------------------------------------------
(* How transactions end.                                                   *)

\* Free the rows of t; what it saw in them is now what is committed.
Release(t) ==
    /\ lock' = [x \in Row |-> IF lock[x] = t THEN None ELSE lock[x]]
    /\ newScore' = [j \in Job |-> IF lock[j] = t THEN score'[j] ELSE newScore[j]]
    /\ newScreen' = [c \in Company |-> IF lock[c] = t THEN screen'[c] ELSE newScreen[c]]

Leave(t, how) ==
    /\ pc' = [pc EXCEPT ![t] = how]
    /\ at' = [at EXCEPT ![t] = None]
    /\ batch' = [r \in Run |-> IF r = t THEN {} ELSE batch[r]]
    /\ more' = [r \in Run |-> r # t /\ more[r]]
    /\ todo' = [r \in Run |-> IF r = t THEN {} ELSE todo[r]]
    /\ reply' = [r \in Run |-> IF r = t THEN Undecided ELSE reply[r]]
    /\ bill' = [r \in Run |-> IF r = t THEN 0 ELSE bill[r]]
    /\ Release(t)

\* finish_run, and the connection's commit.
Commit(t) ==
    /\ pc[t] \in {"finishing", "ingesting"}
    /\ score' = [j \in Job |-> IF lock[j] = t THEN newScore[j] ELSE score[j]]
    /\ screen' = [c \in Company |-> IF lock[c] = t THEN newScreen[c] ELSE screen[c]]
    /\ spend' = IF t \in Run THEN spend + bill[t] ELSE spend
    /\ UNCHANGED <<money, overlapped>>
    /\ Leave(t, "committed")

\* Charges outlive the rows that recorded them.
RollBack(t, how) ==
    /\ undone' = IF t \in Run THEN undone + bill[t] ELSE undone
    /\ UNCHANGED <<db, overlapped>>
    /\ Leave(t, how)

\* What a call in flight may be charged although its caller is gone.
InFlight(t) == IF pc[t] \in {"asking", "reading"} THEN 0..MaxCost ELSE {0}

\* Killed at maxDuration, crashed, or an exception that no handler catches.
Kill(t) ==
    /\ Active(t)
    /\ \E cost \in InFlight(t) :
        /\ charged' = charged + cost
        /\ unanswered' = unanswered + cost
    /\ RollBack(t, "killed")

\* The row t's statement waits for.
Wanted(t) ==
    IF pc[t] \in {"upserting", "recording", "touching"} THEN {at[t]}
    ELSE IF pc[t] = "storing" /\ ~RuledByUser(t, Employer(t)) THEN {Employer(t)}
    ELSE {}

WaitsFor(t) == {lock[x] : x \in Wanted(t)} \ {None, t}

\* t waits for a transaction that, in the end, waits for t.
InCycle(t) ==
    \E S \in SUBSET Txn : t \in S /\ S = UNION {WaitsFor(s) : s \in S}

\* PostgreSQL breaks the cycle by failing one statement in it.  The handlers
\* in run_score count an error and go on, but in an aborted transaction: every
\* later statement fails too, judge_job before it calls anyone, and spend_today
\* or top_unjudged raises out of the run.
DeadlockVictim(t) ==
    /\ Active(t)
    /\ InCycle(t)
    /\ RollBack(t, "failed")
    /\ UNCHANGED <<charged, unanswered>>

-----------------------------------------------------------------------------
Cost == 1..MaxCost

Proceed(r) ==
    \/ Begin(r)
    \/ SelectBatch(r)
    \/ \E j \in Job : ScoreNext(r, j) \/ NextCandidate(r, j)
    \/ UpsertScore(r)
    \/ BatchDone(r)
    \/ PickCandidates(r)
    \/ NoMoreCandidates(r)
    \/ ScreenCached(r)
    \/ ScreenListed(r)
    \/ ScreenAsks(r)
    \/ StoreVerdict(r)
    \/ Judge(r)
    \/ RecordJudgement(r)
    \/ \E cost \in Cost : ScreenAnswered(r, cost) \/ JudgeAnswered(r, cost)
    \/ \E cost \in Cost \cup {0} : ScreenFails(r, cost) \/ JudgeFails(r, cost)

IngestStep(d) == (\E c \in Company : IngestNext(d, c)) \/ TouchCompany(d)

EndStep(t) == Commit(t) \/ DeadlockVictim(t)

Next ==
    \/ \E r \in Run : Proceed(r) \/ OutOfTime(r)
    \/ \E d \in Ingest : IngestStep(d)
    \/ \E t \in Txn : EndStep(t) \/ Kill(t)
    \/ \E c \in Company, v \in Ruling : Rule(c, v)

Spec == Init /\ [][Next]_vars

\* A transaction that can move moves: a call answers or times out, and
\* deadlock_timeout is short.  Nothing makes the platform kill a run, the
\* budget run out or the user rule.
FairSpec ==
    /\ Spec
    /\ \A r \in Run : WF_vars(Proceed(r) \/ EndStep(r))
    /\ \A d \in Ingest : WF_vars(IngestStep(d) \/ EndStep(d))

-----------------------------------------------------------------------------
\* A row is written only by a transaction that is under way, and differs from
\* what is committed only while it is.
TypeOK ==
    /\ pc \in [Txn -> State]
    /\ batch \in [Run -> SUBSET Job]
    /\ more \in [Run -> BOOLEAN]
    /\ todo \in [Run -> SUBSET Job]
    /\ at \in [Txn -> Row \cup {None}]
    /\ reply \in [Run -> Screening]
    /\ lock \in [Row -> Txn \cup {None}]
    /\ \A x \in Row : lock[x] # None => Active(lock[x])
    /\ newScore \in [Job -> Unscored..Judged]
    /\ newScreen \in [Company -> Screening]
    /\ bill \in [Run -> Nat]
    /\ score \in [Job -> Unscored..Judged]
    /\ screen \in [Company -> Screening]
    /\ spend \in Nat /\ charged \in Nat /\ unanswered \in Nat /\ undone \in Nat
    /\ overlapped \in BOOLEAN

\* "A judgement already paid for is never overwritten with NULL by a later
\* re-score" (store.py:455), also when a run that chose the job for scoring
\* waited while another judged it and committed.
JudgementsStay ==
    [][\A j \in Job : score'[j] >= score[j]]_vars

\* "A user verdict is permanent" (sharia.py:182): only the user changes it,
\* also when the ruling came while a run waited for the classifier's answer.
RulingsStay ==
    [][\A c \in Company : screen[c].source = "user" => screen'[c].source = "user"]_vars

\* The ceiling holds to within one call as long as runs follow one another and
\* every charge finds its row, whatever is killed and when.
SerialRunsKeepCap == ~overlapped => charged <= unanswered + undone + Cap + MaxCost - 1

\* Every transaction that began ends, also when runs and discovery wait for
\* each other.
TransactionsEnd == \A t \in Txn : Active(t) ~> pc[t] \in Ended

\* "The daily spend ceiling cannot be bypassed" (llm.py:3), not even by a cold
\* start (llm.py:93).  The code does not keep this: runs that overlap do not
\* see each other's rows, and a rolled back run takes its rows along.
CapIsACeiling == charged <= unanswered + Cap + MaxCost - 1

\* "Both mean stop judging; the scores already written stay" (run_score.py:132):
\* a run that is not killed commits what it scored.  The code does not keep
\* this: discovery locks companies in the order of postings, the screen in
\* the order of rank, and the victim of their deadlock loses its transaction.
OnlyKillsLoseScores == \A r \in Run : pc[r] # "failed"
=============================================================================

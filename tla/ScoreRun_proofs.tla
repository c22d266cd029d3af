--------------------------- MODULE ScoreRun_proofs ---------------------------
(***************************************************************************)
(* Overlapping scoring runs, for every number of runs, discovery runs,     *)
(* jobs and companies, every ceiling and every cost of a call.             *)
(***************************************************************************)
EXTENDS ScoreRun, TLAPS

\* Which transactions are where, and what they are working on there.
Places ==
    /\ \A r \in Run : pc[r] \notin {"ingesting", "touching"}
    /\ \A d \in Ingest : pc[d] \in {"idle", "ingesting", "touching"} \cup Ended
    /\ \A r \in Run : pc[r] \in {"upserting", "screening", "asking", "storing", "judging",
                                 "reading", "recording"} => at[r] \in Job
    /\ \A d \in Ingest : pc[d] = "touching" => at[d] \in Company

\* An uncommitted row of scores is never behind the committed one; a ruling is
\* in the uncommitted row too.
Drafts ==
    /\ \A j \in Job : newScore[j] >= score[j]
    /\ \A c \in Company : lock[c] = None => newScreen[c] = screen[c]
    /\ \A c \in Company : screen[c].source = "user" => newScreen[c].source = "user"

\* As long as no two runs overlapped, every charge is in one place, and a run
\* that is making a call found itself below the ceiling.
Ledger ==
    /\ \A r \in Run : ~Active(r) => bill[r] = 0
    /\ ~overlapped =>
        /\ \A r, q \in Run : Active(r) /\ Active(q) => r = q
        /\ \A r \in Run : Active(r) => charged = unanswered + undone + spend + bill[r]
        /\ (\A r \in Run : ~Active(r)) => charged = unanswered + undone + spend
        /\ \A r \in Run : pc[r] \in {"asking", "reading"} => spend + bill[r] < Cap
        /\ \A r \in Run : spend + bill[r] <= Cap + MaxCost - 1
        /\ spend <= Cap + MaxCost - 1

IInv == TypeOK /\ Places /\ Drafts /\ Ledger

LEMMA InitEstablishesIInv == Init => IInv
<1> SUFFICES ASSUME Init PROVE IInv
  OBVIOUS
<1>1. TypeOK
  <2>1. Undecided \in Screening /\ Unscored \in Unscored..Judged /\ "idle" \in State
    BY DEF Undecided, Screening, Verdict, Unscored, Judged, State
  <2>2. /\ pc \in [Txn -> State] /\ at \in [Txn -> Row \cup {None}]
        /\ batch \in [Run -> SUBSET Job] /\ more \in [Run -> BOOLEAN]
        /\ todo \in [Run -> SUBSET Job] /\ reply \in [Run -> Screening]
    BY <2>1 DEF Init
  <2>3. /\ score \in [Job -> Unscored..Judged] /\ newScore \in [Job -> Unscored..Judged]
        /\ screen \in [Company -> Screening] /\ newScreen \in [Company -> Screening]
    BY <2>1 DEF Init
  <2>4. /\ lock \in [Row -> Txn \cup {None}] /\ \A x \in Row : lock[x] = None
        /\ bill \in [Run -> Nat] /\ spend \in Nat /\ charged \in Nat
        /\ unanswered \in Nat /\ undone \in Nat /\ overlapped \in BOOLEAN
    BY DEF Init
  <2>5. QED
    BY <2>2, <2>3, <2>4 DEF TypeOK
<1>2. Places
  BY DEF Init, Places, Ended, Txn
<1>3. Drafts
  BY DEF Init, Drafts, Undecided, Row, Unscored
<1>4. Ledger
  BY ScoreAssumption DEF Init, Ledger, Active, Ended, Txn
<1>5. QED
  BY <1>1, <1>2, <1>3, <1>4 DEF IInv

-----------------------------------------------------------------------------
(* Types.                                                                  *)

\* A transaction that moves on, or begins, takes nobody else off.
LEMMA Moving ==
    ASSUME pc \in [Txn -> State], NEW t \in Txn, NEW p \in State \ (Ended \cup {"idle"}),
           pc' = [pc EXCEPT ![t] = p]
    PROVE  /\ pc' \in [Txn -> State]
           /\ \A u \in Txn : Active(u) => Active(u)'
           /\ Active(t)'
BY DEF Active

\* The control state after a step that moves one run.
ControlOK ==
    /\ pc \in [Txn -> State]
    /\ batch \in [Run -> SUBSET Job]
    /\ more \in [Run -> BOOLEAN]
    /\ todo \in [Run -> SUBSET Job]
    /\ at \in [Txn -> Row \cup {None}]
    /\ reply \in [Run -> Screening]

\* The rows, locks and bills of the transactions.
RowsOK ==
    /\ lock \in [Row -> Txn \cup {None}]
    /\ newScore \in [Job -> Unscored..Judged]
    /\ newScreen \in [Company -> Screening]
    /\ bill \in [Run -> Nat]
    /\ score \in [Job -> Unscored..Judged]
    /\ screen \in [Company -> Screening]
    /\ spend \in Nat /\ charged \in Nat /\ unanswered \in Nat /\ undone \in Nat
    /\ overlapped \in BOOLEAN

LockedByActive == \A x \in Row : lock[x] # None => Active(lock[x])

LEMMA TypeParts == TypeOK <=> ControlOK /\ RowsOK /\ LockedByActive
BY DEF TypeOK, ControlOK, RowsOK, LockedByActive

LEMMA StatesAreThere ==
    /\ {"batching", "scoring", "upserting", "picking", "choosing", "screening", "asking",
        "storing", "judging", "reading", "recording", "finishing", "ingesting", "touching"}
         \subseteq State \ (Ended \cup {"idle"})
    /\ Ended \subseteq State
BY DEF State, Ended, InPass1, InPass2

LEMMA CandidatesAreJobs == \A r \in Run : TopUnjudged(r) \subseteq Job
BY DEF TopUnjudged, Best

LEMMA ScreenedType ==
    ASSUME ControlOK, NEW r \in Run, NEW v, Screened(r, v)
    PROVE  /\ pc' \in [Txn -> State]
           /\ todo' \in [Run -> SUBSET Job]
           /\ at' \in [Txn -> Row \cup {None}]
           /\ \A u \in Txn : Active(u) => Active(u)'
           /\ Active(r)'
<1> r \in Txn
  BY DEF Txn
<1>1. \E p \in {"choosing", "judging"} : pc' = [pc EXCEPT ![r] = p]
  BY DEF Screened
<1>2. pc' \in [Txn -> State] /\ (\A u \in Txn : Active(u) => Active(u)') /\ Active(r)'
  BY <1>1, Moving, StatesAreThere DEF ControlOK
<1>3. todo' \in [Run -> SUBSET Job] /\ at' \in [Txn -> Row \cup {None}]
  BY DEF Screened, TakeOff, ControlOK
<1>4. QED
  BY <1>2, <1>3

LEMMA StopType ==
    ASSUME ControlOK, NEW r \in Run, StopJudging(r)
    PROVE  /\ pc' \in [Txn -> State]
           /\ todo' \in [Run -> SUBSET Job]
           /\ at' \in [Txn -> Row \cup {None}]
           /\ \A u \in Txn : Active(u) => Active(u)'
           /\ Active(r)'
<1> r \in Txn
  BY DEF Txn
<1>1. pc' \in [Txn -> State] /\ (\A u \in Txn : Active(u) => Active(u)') /\ Active(r)'
  BY Moving, StatesAreThere DEF ControlOK, StopJudging
<1>2. QED
  BY <1>1 DEF StopJudging, ControlOK

\* Steps that touch nothing but the run's own control state.
Quiet(r) ==
    \/ Begin(r) \/ SelectBatch(r) \/ BatchDone(r) \/ OutOfTime(r)
    \/ PickCandidates(r) \/ NoMoreCandidates(r)
    \/ ScreenCached(r) \/ ScreenListed(r) \/ ScreenAsks(r) \/ Judge(r)
    \/ \E j \in Job : ScoreNext(r, j) \/ NextCandidate(r, j)

LEMMA QuietLeavesRows ==
    ASSUME NEW r \in Run, Quiet(r)
    PROVE  UNCHANGED <<private, db, money>>
BY DEF Quiet, Begin, SelectBatch, BatchDone, OutOfTime, PickCandidates, NoMoreCandidates,
       ScreenCached, ScreenListed, ScreenAsks, Judge, ScoreNext, NextCandidate

LEMMA QuietType ==
    ASSUME TypeOK, NEW r \in Run, Quiet(r)
    PROVE  TypeOK'
<1> r \in Txn
  BY DEF Txn
<1>1. ControlOK /\ RowsOK /\ LockedByActive
  BY TypeParts
<1>2. /\ ControlOK'
      /\ \A u \in Txn : Active(u) => Active(u)'
      /\ overlapped' \in BOOLEAN
  <2>1. CASE Begin(r) \/ SelectBatch(r) \/ BatchDone(r) \/ OutOfTime(r)
             \/ PickCandidates(r) \/ NoMoreCandidates(r) \/ ScreenListed(r)
             \/ \E j \in Job : ScoreNext(r, j) \/ NextCandidate(r, j)
    <3>1. \E p \in {"batching", "scoring", "upserting", "picking", "choosing", "screening",
                    "storing", "finishing"} : pc' = [pc EXCEPT ![r] = p]
      BY <2>1 DEF Begin, SelectBatch, BatchDone, OutOfTime, PickCandidates, NoMoreCandidates,
                  ScreenListed, ScoreNext, NextCandidate
    <3>2. pc' \in [Txn -> State] /\ \A u \in Txn : Active(u) => Active(u)'
      BY <1>1, <3>1, Moving, StatesAreThere DEF ControlOK
    <3>3. batch' \in [Run -> SUBSET Job]
      BY <1>1, <2>1 DEF ControlOK, NeedScores, Begin, SelectBatch, BatchDone, OutOfTime,
                        PickCandidates, NoMoreCandidates, ScreenListed, ScoreNext, NextCandidate
    <3>4. more' \in [Run -> BOOLEAN] /\ overlapped' \in BOOLEAN
      BY <1>1, <2>1 DEF ControlOK, RowsOK, Begin, SelectBatch, BatchDone, OutOfTime,
                        PickCandidates, NoMoreCandidates, ScreenListed, ScoreNext, NextCandidate
    <3>5. todo' \in [Run -> SUBSET Job]
      BY <1>1, <2>1, CandidatesAreJobs
         DEF ControlOK, Begin, SelectBatch, BatchDone, OutOfTime, PickCandidates,
             NoMoreCandidates, ScreenListed, ScoreNext, NextCandidate
    <3>6. at' \in [Txn -> Row \cup {None}]
      BY <1>1, <2>1 DEF ControlOK, Row, Begin, SelectBatch, BatchDone, OutOfTime,
                        PickCandidates, NoMoreCandidates, ScreenListed, ScoreNext, NextCandidate
    <3>7. reply' \in [Run -> Screening]
      BY <1>1, <2>1 DEF ControlOK, Screening, Verdict, Begin, SelectBatch, BatchDone, OutOfTime,
                        PickCandidates, NoMoreCandidates, ScreenListed, ScoreNext, NextCandidate
    <3>8. QED
      BY <3>2, <3>3, <3>4, <3>5, <3>6, <3>7 DEF ControlOK
  <2>2. CASE ScreenCached(r) \/ ScreenAsks(r) \/ Judge(r)
    <3>1. UNCHANGED <<batch, more, reply, overlapped>>
      BY <2>2 DEF ScreenCached, ScreenAsks, Judge
    <3>2. \/ \E v : Screened(r, v)
          \/ StopJudging(r)
          \/ /\ \E p \in {"asking", "reading"} : pc' = [pc EXCEPT ![r] = p]
             /\ UNCHANGED <<todo, at>>
      BY <2>2 DEF ScreenCached, ScreenAsks, Judge
    <3>3. CASE \E v : Screened(r, v)
      BY <1>1, <3>1, <3>3, ScreenedType DEF ControlOK, RowsOK
    <3>4. CASE StopJudging(r)
      BY <1>1, <3>1, <3>4, StopType DEF ControlOK, RowsOK
    <3>5. CASE /\ \E p \in {"asking", "reading"} : pc' = [pc EXCEPT ![r] = p]
               /\ UNCHANGED <<todo, at>>
      BY <1>1, <3>1, <3>5, Moving, StatesAreThere DEF ControlOK, RowsOK
    <3>6. QED
      BY <3>2, <3>3, <3>4, <3>5
  <2>3. QED
    BY <2>1, <2>2 DEF Quiet
<1>3. RowsOK'
  <2>1. UNCHANGED <<private, db, money>>
    BY QuietLeavesRows
  <2>2. UNCHANGED <<lock, newScore, newScreen, bill, score, screen, spend,
                    charged, unanswered, undone>>
    BY <2>1 DEF private, db, money
  <2>3. QED
    BY <1>1, <1>2, <2>2 DEF RowsOK
<1>4. LockedByActive'
  <2>1. lock' = lock
    BY QuietLeavesRows DEF private
  <2>2. \A x \in Row : lock[x] \in Txn \cup {None}
    BY <1>1 DEF RowsOK
  <2>3. QED
    BY <1>1, <1>2, <2>1, <2>2 DEF LockedByActive, Active
<1>5. QED
  BY <1>2, <1>3, <1>4 DEF TypeOK, ControlOK, RowsOK, LockedByActive

LEMMA UpsertedType ==
    \A a, b \in Unscored..Judged : Upserted(a, b) \in Unscored..Judged /\ Upserted(a, b) >= a
BY DEF Upserted, Unscored, Judged

\* Steps of one run that write a row, or get an answer.
Busy(r) ==
    \/ UpsertScore(r) \/ RecordJudgement(r) \/ StoreVerdict(r)
    \/ \E cost \in Cost : ScreenAnswered(r, cost) \/ JudgeAnswered(r, cost)
    \/ \E cost \in Cost \cup {0} : ScreenFails(r, cost) \/ JudgeFails(r, cost)

LEMMA BusyType ==
    ASSUME TypeOK, Places, NEW r \in Run, Busy(r)
    PROVE  TypeOK'
<1> r \in Txn
  BY DEF Txn
<1>1. ControlOK /\ RowsOK /\ LockedByActive
  BY TypeParts
<1>2. /\ ControlOK'
      /\ \A u \in Txn : Active(u) => Active(u)'
      /\ Active(r)'
  <2>1. CASE UpsertScore(r)
    <3>1. pc' \in [Txn -> State] /\ (\A u \in Txn : Active(u) => Active(u)') /\ Active(r)'
      BY <1>1, <2>1, Moving, StatesAreThere DEF ControlOK, UpsertScore
    <3>2. QED
      BY <1>1, <2>1, <3>1 DEF ControlOK, UpsertScore
  <2>2. CASE RecordJudgement(r)
    <3>1. pc' \in [Txn -> State] /\ (\A u \in Txn : Active(u) => Active(u)') /\ Active(r)'
      BY <1>1, <2>2, Moving, StatesAreThere DEF ControlOK, RecordJudgement
    <3>2. QED
      BY <1>1, <2>2, <3>1 DEF ControlOK, RecordJudgement, TakeOff
  <2>3. CASE StoreVerdict(r)
    <3>1. Screened(r, reply[r].verdict) /\ UNCHANGED <<batch, more>>
          /\ reply' = [reply EXCEPT ![r] = Undecided]
      BY <2>3 DEF StoreVerdict
    <3>2. reply' \in [Run -> Screening]
      BY <1>1, <3>1 DEF ControlOK, Undecided, Screening, Verdict
    <3>3. QED
      BY <1>1, <3>1, <3>2, ScreenedType DEF ControlOK
  <2>4. ASSUME NEW cost \in Cost, ScreenAnswered(r, cost)
        PROVE  /\ ControlOK'
               /\ \A u \in Txn : Active(u) => Active(u)'
               /\ Active(r)'
    <3>1. pc' \in [Txn -> State] /\ (\A u \in Txn : Active(u) => Active(u)') /\ Active(r)'
      BY <1>1, <2>4, Moving, StatesAreThere DEF ControlOK, ScreenAnswered
    <3>2. reply' \in [Run -> Screening]
      BY <1>1, <2>4, ScoreAssumption DEF ControlOK, ScreenAnswered, Screening, Verdict
    <3>3. QED
      BY <1>1, <2>4, <3>1, <3>2 DEF ControlOK, ScreenAnswered
  <2>5. ASSUME NEW cost \in Cost, JudgeAnswered(r, cost)
        PROVE  /\ ControlOK'
               /\ \A u \in Txn : Active(u) => Active(u)'
               /\ Active(r)'
    <3>1. pc' \in [Txn -> State] /\ (\A u \in Txn : Active(u) => Active(u)') /\ Active(r)'
      BY <1>1, <2>5, Moving, StatesAreThere DEF ControlOK, JudgeAnswered
    <3>2. QED
      BY <1>1, <2>5, <3>1 DEF ControlOK, JudgeAnswered
  <2>6. ASSUME NEW cost, ScreenFails(r, cost)
        PROVE  /\ ControlOK'
               /\ \A u \in Txn : Active(u) => Active(u)'
               /\ Active(r)'
    <3>1. Screened(r, "unknown") /\ UNCHANGED <<batch, more, reply>>
      BY <2>6 DEF ScreenFails
    <3>2. QED
      BY <1>1, <3>1, ScreenedType DEF ControlOK
  <2>7. ASSUME NEW cost, JudgeFails(r, cost)
        PROVE  /\ ControlOK'
               /\ \A u \in Txn : Active(u) => Active(u)'
               /\ Active(r)'
    <3>1. StopJudging(r) /\ UNCHANGED <<batch, more, reply>>
      BY <2>7 DEF JudgeFails
    <3>2. QED
      BY <1>1, <3>1, StopType DEF ControlOK
  <2>8. QED
    BY <2>1, <2>2, <2>3, <2>4, <2>5, <2>6, <2>7 DEF Busy
<1>3. RowsOK' /\ \A x \in Row : lock'[x] \in {lock[x], r}
  <2>1. CASE UpsertScore(r) \/ RecordJudgement(r)
    <3>1. at[r] \in Job /\ at[r] \in Row
      BY <2>1 DEF Places, UpsertScore, RecordJudgement, Row
    <3>2. \E level \in Unscored..Judged : WriteScore(r, at[r], level)
      BY <2>1 DEF UpsertScore, RecordJudgement, Unscored, Scored, Judged
    <3>3. newScore' \in [Job -> Unscored..Judged]
      <4>1. PICK level \in Unscored..Judged : WriteScore(r, at[r], level)
        BY <3>2
      <4>2. newScore[at[r]] \in Unscored..Judged
        BY <1>1, <3>1 DEF RowsOK
      <4>3. Upserted(newScore[at[r]], level) \in Unscored..Judged
        BY <4>2, UpsertedType
      <4>4. newScore' = [newScore EXCEPT ![at[r]] = Upserted(newScore[at[r]], level)]
        BY <4>1 DEF WriteScore
      <4>5. QED
        BY <1>1, <4>3, <4>4 DEF RowsOK
    <3>4. lock' = [lock EXCEPT ![at[r]] = r]
      BY <3>2 DEF WriteScore
    <3>5. UNCHANGED <<newScreen, bill, score, screen, spend, charged, unanswered, undone, overlapped>>
      BY <2>1 DEF UpsertScore, RecordJudgement, db, money
    <3>6. QED
      BY <1>1, <3>1, <3>3, <3>4, <3>5 DEF RowsOK
  <2>2. CASE StoreVerdict(r)
    <3>1. Employer(r) \in Company /\ Employer(r) \in Row /\ reply[r] \in Screening
      BY <1>1, <2>2, ScoreAssumption DEF Places, StoreVerdict, Row, Employer, ControlOK
    <3>2. \/ UNCHANGED <<lock, newScreen>>
          \/ /\ lock' = [lock EXCEPT ![Employer(r)] = r]
             /\ newScreen' = [newScreen EXCEPT ![Employer(r)] = reply[r]]
      BY <2>2 DEF StoreVerdict
    <3>3. UNCHANGED <<newScore, bill, score, screen, spend, charged, unanswered, undone, overlapped>>
      BY <2>2 DEF StoreVerdict, db, money
    <3>4. lock' \in [Row -> Txn \cup {None}] /\ newScreen' \in [Company -> Screening]
          /\ \A x \in Row : lock'[x] \in {lock[x], r}
      BY <1>1, <3>1, <3>2 DEF RowsOK
    <3>5. QED
      BY <1>1, <3>3, <3>4 DEF RowsOK
  <2>3. ASSUME NEW cost \in Cost, ScreenAnswered(r, cost) \/ JudgeAnswered(r, cost)
        PROVE  RowsOK' /\ \A x \in Row : lock'[x] \in {lock[x], r}
    <3>1. Charge(r, cost) /\ cost \in Nat
          /\ UNCHANGED <<lock, newScore, newScreen, score, screen, spend, overlapped>>
      BY <2>3, ScoreAssumption DEF ScreenAnswered, JudgeAnswered, db, Cost
    <3>2. charged' \in Nat /\ bill' \in [Run -> Nat] /\ UNCHANGED <<unanswered, undone>>
      BY <1>1, <3>1 DEF Charge, RowsOK
    <3>3. QED
      BY <1>1, <3>1, <3>2 DEF RowsOK
  <2>4. ASSUME NEW cost \in Cost \cup {0}, ScreenFails(r, cost) \/ JudgeFails(r, cost)
        PROVE  RowsOK' /\ \A x \in Row : lock'[x] \in {lock[x], r}
    <3>1. CallRaises(cost) /\ cost \in Nat
          /\ UNCHANGED <<lock, newScore, newScreen, bill, score, screen, spend, overlapped>>
      BY <2>4, ScoreAssumption DEF ScreenFails, JudgeFails, db, private, Cost
    <3>2. charged' \in Nat /\ unanswered' \in Nat /\ UNCHANGED undone
      BY <1>1, <3>1 DEF CallRaises, RowsOK
    <3>3. QED
      BY <1>1, <3>1, <3>2 DEF RowsOK
  <2>5. QED
    BY <2>1, <2>2, <2>3, <2>4 DEF Busy
<1>4. LockedByActive'
  <2>1. \A x \in Row : lock[x] \in Txn \cup {None}
    BY <1>1 DEF RowsOK
  <2>2. QED
    BY <1>1, <1>2, <1>3, <2>1 DEF LockedByActive, Active
<1>5. QED
  BY <1>2, <1>3, <1>4 DEF TypeOK, ControlOK, RowsOK, LockedByActive

\* A transaction that ends, whichever way.
Ends(t) == Commit(t) \/ Kill(t) \/ DeadlockVictim(t)

LEMMA EndsLeave ==
    ASSUME NEW t \in Txn, Ends(t)
    PROVE  /\ \E how \in Ended : Leave(t, how)
           /\ UNCHANGED overlapped
           /\ Active(t)
BY DEF Ends, Commit, Kill, DeadlockVictim, RollBack, Ended, Active

\* What a killed call was charged counts on both sides of the ledger.
LEMMA EndsCharge ==
    ASSUME NEW t \in Txn, Ends(t), charged \in Nat, unanswered \in Nat
    PROVE  \E cost \in Nat : charged' = charged + cost /\ unanswered' = unanswered + cost
<1>1. CASE Commit(t) \/ DeadlockVictim(t)
  <2>1. charged' = charged + 0 /\ unanswered' = unanswered + 0
    BY <1>1 DEF Commit, DeadlockVictim, money
  <2>2. QED
    BY <2>1
<1>2. CASE Kill(t)
  <2>1. InFlight(t) \subseteq Nat
    BY ScoreAssumption DEF InFlight
  <2>2. QED
    BY <1>2, <2>1 DEF Kill
<1>3. QED
  BY <1>1, <1>2 DEF Ends

LEMMA EndsType ==
    ASSUME TypeOK, NEW t \in Txn, Ends(t)
    PROVE  TypeOK'
<1>1. ControlOK /\ RowsOK /\ LockedByActive
  BY TypeParts
<1>2. PICK how \in Ended : Leave(t, how)
  BY EndsLeave
<1>3. /\ score' \in [Job -> Unscored..Judged]
      /\ screen' \in [Company -> Screening]
      /\ spend' \in Nat /\ undone' \in Nat
  <2>1. CASE Commit(t)
    BY <1>1, <2>1 DEF Commit, RowsOK, money
  <2>2. CASE Kill(t) \/ DeadlockVictim(t)
    BY <1>1, <2>2 DEF Kill, DeadlockVictim, RollBack, RowsOK, db
  <2>3. QED
    BY <2>1, <2>2 DEF Ends
<1>4. ControlOK'
  <2>1. Undecided \in Screening
    BY DEF Undecided, Screening, Verdict
  <2>2. pc' \in [Txn -> State] /\ at' \in [Txn -> Row \cup {None}]
    BY <1>1, <1>2, StatesAreThere DEF Leave, ControlOK
  <2>3. batch' \in [Run -> SUBSET Job] /\ todo' \in [Run -> SUBSET Job]
    BY <1>1, <1>2 DEF Leave, ControlOK
  <2>4. more' \in [Run -> BOOLEAN]
    BY <1>1, <1>2 DEF Leave, ControlOK
  <2>5. reply' \in [Run -> Screening]
    BY <1>1, <1>2, <2>1 DEF Leave, ControlOK
  <2>6. QED
    BY <2>2, <2>3, <2>4, <2>5 DEF ControlOK
<1>5. RowsOK'
  <2>1. lock' \in [Row -> Txn \cup {None}]
    BY <1>1, <1>2 DEF Leave, Release, RowsOK
  <2>2. newScore' \in [Job -> Unscored..Judged]
    BY <1>1, <1>2, <1>3 DEF Leave, Release, RowsOK
  <2>3. newScreen' \in [Company -> Screening]
    BY <1>1, <1>2, <1>3 DEF Leave, Release, RowsOK
  <2>4. bill' \in [Run -> Nat]
    BY <1>1, <1>2 DEF Leave, RowsOK
  <2>5. charged' \in Nat /\ unanswered' \in Nat /\ overlapped' \in BOOLEAN
    BY <1>1, EndsLeave, EndsCharge DEF RowsOK
  <2>6. QED
    BY <1>3, <2>1, <2>2, <2>3, <2>4, <2>5 DEF RowsOK
<1>6. LockedByActive'
  <2>1. \A x \in Row : lock'[x] = IF lock[x] = t THEN None ELSE lock[x]
    BY <1>2 DEF Leave, Release
  <2>2. \A u \in Txn : u # t => pc'[u] = pc[u]
    BY <1>1, <1>2 DEF Leave, ControlOK
  <2>3. \A x \in Row : lock[x] \in Txn \cup {None}
    BY <1>1 DEF RowsOK
  <2>4. QED
    BY <1>1, <2>1, <2>2, <2>3 DEF LockedByActive, Active
<1>7. QED
  BY <1>4, <1>5, <1>6 DEF TypeOK, ControlOK, RowsOK, LockedByActive

LEMMA OthersType ==
    ASSUME TypeOK, Places
    PROVE  /\ \A d \in Ingest : IngestStep(d) => TypeOK'
           /\ \A c \in Company, v \in Ruling : Rule(c, v) => TypeOK'
<1>1. ControlOK /\ RowsOK /\ LockedByActive
  BY TypeParts
<1>2. ASSUME NEW d \in Ingest, NEW c \in Company, IngestNext(d, c) PROVE TypeOK'
  <2> d \in Txn /\ c \in Row
    BY DEF Txn, Row
  <2>1. pc' \in [Txn -> State] /\ \A u \in Txn : Active(u) => Active(u)'
    BY <1>1, <1>2, Moving, StatesAreThere DEF ControlOK, IngestNext
  <2>2. at' \in [Txn -> Row \cup {None}]
    BY <1>1, <1>2 DEF ControlOK, IngestNext
  <2>3. UNCHANGED <<batch, more, todo, reply, lock, newScore, newScreen, bill, score, screen,
                    spend, charged, unanswered, undone, overlapped>>
    BY <1>2 DEF IngestNext, private, db, money
  <2>4. ControlOK' /\ RowsOK'
    BY <1>1, <2>1, <2>2, <2>3 DEF ControlOK, RowsOK
  <2>5. LockedByActive'
    BY <1>1, <2>1, <2>3 DEF LockedByActive, Active, RowsOK
  <2>6. QED
    BY <2>4, <2>5 DEF TypeOK, ControlOK, RowsOK, LockedByActive
<1>3. ASSUME NEW d \in Ingest, TouchCompany(d) PROVE TypeOK'
  <2> d \in Txn
    BY DEF Txn
  <2>0. at[d] \in Row
    BY <1>3 DEF Places, TouchCompany, Row
  <2>1. pc' \in [Txn -> State] /\ (\A u \in Txn : Active(u) => Active(u)') /\ Active(d)'
    BY <1>1, <1>3, Moving, StatesAreThere DEF ControlOK, TouchCompany
  <2>2. at' \in [Txn -> Row \cup {None}] /\ lock' \in [Row -> Txn \cup {None}]
        /\ \A x \in Row : lock'[x] \in {lock[x], d}
    BY <1>1, <1>3, <2>0 DEF ControlOK, RowsOK, TouchCompany
  <2>3. UNCHANGED <<batch, more, todo, reply, newScore, newScreen, bill, score, screen,
                    spend, charged, unanswered, undone, overlapped>>
    BY <1>3 DEF TouchCompany, db, money
  <2>4. ControlOK' /\ RowsOK'
    BY <1>1, <2>1, <2>2, <2>3 DEF ControlOK, RowsOK
  <2>5. LockedByActive'
    BY <1>1, <2>1, <2>2 DEF LockedByActive, Active, RowsOK
  <2>6. QED
    BY <2>4, <2>5 DEF TypeOK, ControlOK, RowsOK, LockedByActive
<1>4. ASSUME NEW c \in Company, NEW v \in Ruling, Rule(c, v) PROVE TypeOK'
  <2>1. [verdict |-> v, source |-> "user"] \in Screening
    BY ScoreAssumption DEF Screening, Verdict
  <2>2. screen' \in [Company -> Screening]
    BY <1>1, <1>4, <2>1 DEF Rule, RowsOK
  <2>3. newScreen' \in [Company -> Screening]
    BY <1>1, <1>4, <2>2 DEF Rule, RowsOK
  <2>4. UNCHANGED <<pc, batch, more, todo, at, reply, lock, newScore, bill, score,
                    spend, charged, unanswered, undone, overlapped>>
    BY <1>4 DEF Rule, control, money
  <2>5. QED
    BY <1>1, <2>2, <2>3, <2>4 DEF TypeOK, ControlOK, RowsOK, LockedByActive, Active
<1>5. QED
  BY <1>2, <1>3, <1>4 DEF IngestStep

\* Every step is one of a few kinds.
LEMMA Kinds ==
    ASSUME [Next]_vars
    PROVE  \/ \E r \in Run : Quiet(r) \/ Busy(r)
           \/ \E t \in Txn : Ends(t)
           \/ \E d \in Ingest : IngestStep(d)
           \/ \E c \in Company, v \in Ruling : Rule(c, v)
           \/ UNCHANGED vars
BY DEF Next, Proceed, EndStep, Quiet, Busy, Ends

LEMMA TypeStep ==
    ASSUME TypeOK, Places, [Next]_vars
    PROVE  TypeOK'
<1>1. CASE UNCHANGED vars
  <2>1. UNCHANGED <<control, private, db, money, overlapped>>
    BY <1>1 DEF vars
  <2>2. QED
    BY <2>1 DEF TypeOK, Active, control, private, db, money
<1>2. QED
  BY <1>1, Kinds, QuietType, BusyType, EndsType, OthersType

-----------------------------------------------------------------------------
(* Where transactions are.                                                 *)

AtWork == {"upserting", "screening", "asking", "storing", "judging", "reading", "recording"}

\* Only t moved.
OnlyMoves(t) ==
    \A u \in Txn : u # t => pc'[u] = pc[u] /\ at'[u] = at[u]

LEMMA RunMoves ==
    ASSUME TypeOK, Places, NEW r \in Run, OnlyMoves(r),
           pc'[r] \notin {"ingesting", "touching"},
           pc'[r] \in AtWork => at'[r] \in Job
    PROVE  Places'
BY ScoreAssumption DEF Places, OnlyMoves, AtWork, Txn

LEMMA QuietMoves ==
    ASSUME TypeOK, Places, NEW r \in Run, Quiet(r)
    PROVE  /\ OnlyMoves(r)
           /\ pc'[r] \notin {"ingesting", "touching"} \cup Ended
           /\ pc'[r] \in AtWork => at'[r] \in Job
           /\ pc'[r] \in {"asking", "reading"} => ~CapReached(r)
           /\ Begin(r) \/ (Active(r) /\ overlapped' = overlapped)
<1> r \in Txn /\ pc \in [Txn -> State] /\ at \in [Txn -> Row \cup {None}]
  BY DEF Txn, TypeOK
<1> USE DEF OnlyMoves, AtWork, Ended, Active
<1>1. CASE Begin(r) \/ SelectBatch(r) \/ BatchDone(r) \/ OutOfTime(r)
  BY <1>1 DEF Begin, SelectBatch, BatchDone, OutOfTime
<1>2. CASE PickCandidates(r) \/ NoMoreCandidates(r) \/ ScreenListed(r)
  BY <1>2 DEF PickCandidates, NoMoreCandidates, ScreenListed, Places
<1>3. CASE \E j \in Job : ScoreNext(r, j) \/ NextCandidate(r, j)
  BY <1>3 DEF ScoreNext, NextCandidate
<1>4. CASE ScreenCached(r)
  BY <1>4 DEF ScreenCached, Screened, Places
<1>5. CASE ScreenAsks(r)
  BY <1>5 DEF ScreenAsks, Screened, Places
<1>6. CASE Judge(r)
  BY <1>6 DEF Judge, StopJudging, Places
<1>7. QED
  BY <1>1, <1>2, <1>3, <1>4, <1>5, <1>6 DEF Quiet

LEMMA BusyMoves ==
    ASSUME TypeOK, Places, NEW r \in Run, Busy(r)
    PROVE  /\ OnlyMoves(r)
           /\ pc'[r] \notin {"ingesting", "touching", "idle", "asking", "reading"} \cup Ended
           /\ pc'[r] \in AtWork => at'[r] \in Job
           /\ Active(r)
<1> r \in Txn /\ pc \in [Txn -> State] /\ at \in [Txn -> Row \cup {None}]
  BY DEF Txn, TypeOK
<1> USE DEF OnlyMoves, AtWork, Ended, Active
<1>1. CASE UpsertScore(r) \/ RecordJudgement(r)
  BY <1>1 DEF UpsertScore, RecordJudgement
<1>2. CASE StoreVerdict(r)
  BY <1>2 DEF StoreVerdict, Screened, Places
<1>3. ASSUME NEW cost, ScreenAnswered(r, cost) \/ JudgeAnswered(r, cost)
      PROVE  /\ OnlyMoves(r)
             /\ pc'[r] \notin {"ingesting", "touching", "idle", "asking", "reading"} \cup Ended
             /\ pc'[r] \in AtWork => at'[r] \in Job
             /\ Active(r)
  BY <1>3 DEF ScreenAnswered, JudgeAnswered, Places
<1>4. ASSUME NEW cost, ScreenFails(r, cost) \/ JudgeFails(r, cost)
      PROVE  /\ OnlyMoves(r)
             /\ pc'[r] \notin {"ingesting", "touching", "idle", "asking", "reading"} \cup Ended
             /\ pc'[r] \in AtWork => at'[r] \in Job
             /\ Active(r)
  BY <1>4 DEF ScreenFails, JudgeFails, Screened, StopJudging, Places
<1>5. QED
  BY <1>1, <1>2, <1>3, <1>4 DEF Busy

LEMMA EndsMoves ==
    ASSUME TypeOK, NEW t \in Txn, Ends(t)
    PROVE  OnlyMoves(t) /\ pc'[t] \in Ended
BY EndsLeave DEF Leave, OnlyMoves, TypeOK

LEMMA PlacesStep ==
    ASSUME TypeOK, Places, [Next]_vars
    PROVE  Places'
<1>1. ASSUME NEW r \in Run, Quiet(r) \/ Busy(r) PROVE Places'
  BY <1>1, QuietMoves, BusyMoves, RunMoves
<1>2. ASSUME NEW t \in Txn, Ends(t) PROVE Places'
  BY <1>2, EndsMoves, ScoreAssumption DEF Places, OnlyMoves, Ended, Txn
<1>3. ASSUME NEW d \in Ingest, IngestStep(d) PROVE Places'
  <2> d \in Txn /\ d \notin Run /\ pc \in [Txn -> State] /\ at \in [Txn -> Row \cup {None}]
    BY ScoreAssumption DEF Txn, TypeOK
  <2>1. OnlyMoves(d) /\ pc'[d] \in {"ingesting", "touching"}
        /\ (pc'[d] = "touching" => at'[d] \in Company)
    BY <1>3 DEF IngestStep, IngestNext, TouchCompany, OnlyMoves
  <2>2. QED
    BY <2>1 DEF Places, OnlyMoves, Txn
<1>4. ASSUME NEW c \in Company, NEW v \in Ruling, Rule(c, v) PROVE Places'
  BY <1>4 DEF Rule, control, Places
<1>5. CASE UNCHANGED vars
  BY <1>5 DEF vars, control, Places
<1>6. QED
  BY <1>1, <1>2, <1>3, <1>4, <1>5, Kinds

-----------------------------------------------------------------------------
(* Uncommitted rows.                                                       *)

LEMMA DraftsStep ==
    ASSUME TypeOK, Places, Drafts, [Next]_vars
    PROVE  Drafts'
<1>1. ASSUME NEW r \in Run, Quiet(r) PROVE Drafts'
  <2>1. UNCHANGED <<lock, newScore, newScreen, score, screen>>
    BY <1>1, QuietLeavesRows DEF private, db
  <2>2. QED
    BY <2>1 DEF Drafts
<1>2. ASSUME NEW r \in Run, UpsertScore(r) \/ RecordJudgement(r) PROVE Drafts'
  <2>1. at[r] \in Job /\ at[r] \notin Company
    BY <1>2, ScoreAssumption DEF Places, UpsertScore, RecordJudgement
  <2>2. PICK level \in Unscored..Judged : WriteScore(r, at[r], level)
    BY <1>2 DEF UpsertScore, RecordJudgement, Unscored, Scored, Judged
  <2>3. Upserted(newScore[at[r]], level) >= newScore[at[r]]
    BY <2>1, UpsertedType DEF TypeOK
  <2>4. /\ newScore' = [newScore EXCEPT ![at[r]] = Upserted(newScore[at[r]], level)]
        /\ lock' = [lock EXCEPT ![at[r]] = r]
        /\ UNCHANGED <<newScreen, score, screen>>
    BY <1>2, <2>2 DEF WriteScore, UpsertScore, RecordJudgement, db
  <2>5. \A j \in Job : newScore'[j] >= newScore[j]
    BY <2>1, <2>3, <2>4 DEF TypeOK, Unscored, Judged
  <2>6. \A j \in Job : newScore'[j] >= score'[j]
    <3>1. \A j \in Job : newScore[j] \in Nat /\ newScore'[j] \in Nat /\ score[j] \in Nat
      BY <2>1, <2>3, <2>4, UpsertedType DEF TypeOK, Unscored, Judged
    <3>2. QED
      BY <2>4, <2>5, <3>1 DEF Drafts
  <2>7. \A c \in Company : lock'[c] = lock[c]
    BY <2>1, <2>4 DEF TypeOK, Row
  <2>8. QED
    BY <2>4, <2>6, <2>7 DEF Drafts
<1>3. ASSUME NEW r \in Run, StoreVerdict(r) PROVE Drafts'
  <2>1. Employer(r) \in Company /\ Employer(r) \notin Job
    BY <1>3, ScoreAssumption DEF Places, StoreVerdict, Employer
  <2>2. UNCHANGED <<newScore, score, screen>>
    BY <1>3 DEF StoreVerdict, db
  <2>3. CASE RuledByUser(r, Employer(r))
    BY <1>3, <2>2, <2>3 DEF StoreVerdict, Drafts
  <2>4. CASE ~RuledByUser(r, Employer(r))
    <3>1. /\ lock[Employer(r)] \in {None, r}
          /\ lock' = [lock EXCEPT ![Employer(r)] = r]
          /\ newScreen' = [newScreen EXCEPT ![Employer(r)] = reply[r]]
      BY <1>3, <2>4 DEF StoreVerdict, CanWrite
    <3>2. screen[Employer(r)].source # "user"
      BY <2>1, <2>4, <3>1 DEF RuledByUser, ScreenSeen, Drafts
    <3>3. r # None
      BY ScoreAssumption DEF Txn
    <3>4. QED
      BY <2>1, <2>2, <3>1, <3>2, <3>3 DEF Drafts, TypeOK, Row
  <2>5. QED
    BY <2>3, <2>4
<1>4. ASSUME NEW r \in Run, NEW cost,
             ScreenAnswered(r, cost) \/ JudgeAnswered(r, cost)
               \/ ScreenFails(r, cost) \/ JudgeFails(r, cost)
      PROVE  Drafts'
  <2>1. UNCHANGED <<lock, newScore, newScreen, score, screen>>
    BY <1>4 DEF ScreenAnswered, JudgeAnswered, ScreenFails, JudgeFails, private, db
  <2>2. QED
    BY <2>1 DEF Drafts
<1>5. ASSUME NEW t \in Txn, Ends(t) PROVE Drafts'
  <2>1. Release(t) /\ t # None
    BY <1>5, EndsLeave, ScoreAssumption DEF Leave
  <2>2. /\ \A j \in Job : score'[j] = score[j] \/ (lock[j] = t /\ score'[j] = newScore[j])
        /\ \A c \in Company : screen'[c] = screen[c] \/ (lock[c] = t /\ screen'[c] = newScreen[c])
    BY <1>5 DEF Ends, Commit, Kill, DeadlockVictim, RollBack, db
  <2>3. /\ \A j \in Job : newScore'[j] = IF lock[j] = t THEN score'[j] ELSE newScore[j]
        /\ \A c \in Company : newScreen'[c] = IF lock[c] = t THEN screen'[c] ELSE newScreen[c]
        /\ \A c \in Company : lock'[c] = IF lock[c] = t THEN None ELSE lock[c]
    BY <2>1 DEF Release, Row
  <2>4. \A j \in Job : score'[j] \in Nat /\ newScore'[j] \in Nat
    BY <2>2, <2>3 DEF TypeOK, Unscored, Judged
  <2>5. \A j \in Job : newScore'[j] >= score'[j]
    BY <2>2, <2>3, <2>4 DEF Drafts
  <2>6. QED
    BY <2>2, <2>3, <2>5 DEF Drafts
<1>6. ASSUME NEW d \in Ingest, IngestStep(d) PROVE Drafts'
  <2>1. UNCHANGED <<newScore, newScreen, score, screen>>
    BY <1>6 DEF IngestStep, IngestNext, TouchCompany, private, db
  <2>2. d # None
    BY ScoreAssumption DEF Txn
  <2>3. \A c \in Company : lock'[c] = None => lock[c] = None
    BY <1>6, <2>2 DEF IngestStep, IngestNext, TouchCompany, private, TypeOK, Row
  <2>4. QED
    BY <2>1, <2>3 DEF Drafts
<1>7. ASSUME NEW c \in Company, NEW v \in Ruling, Rule(c, v) PROVE Drafts'
  <2>1. screen' = [screen EXCEPT ![c] = [verdict |-> v, source |-> "user"]]
        /\ newScreen' = [newScreen EXCEPT ![c] = screen'[c]]
        /\ UNCHANGED <<lock, newScore, score>>
    BY <1>7 DEF Rule
  <2>2. QED
    BY <2>1 DEF Drafts, TypeOK
<1>8. CASE UNCHANGED vars
  BY <1>8 DEF vars, private, db, Drafts
<1>9. QED
  BY <1>1, <1>2, <1>3, <1>4, <1>5, <1>6, <1>7, <1>8, Kinds DEF Busy

-----------------------------------------------------------------------------
(* The ledger.                                                             *)

LEMMA LedgerStep ==
    ASSUME TypeOK, Places, Ledger, [Next]_vars
    PROVE  Ledger'
<1>0. /\ bill \in [Run -> Nat] /\ spend \in Nat /\ charged \in Nat
      /\ unanswered \in Nat /\ undone \in Nat /\ Cap \in Nat /\ MaxCost \in Nat \ {0}
      /\ pc \in [Txn -> State] /\ \A r \in Run : r \in Txn
  BY ScoreAssumption DEF TypeOK, Txn
<1>1. ASSUME NEW r \in Run, Quiet(r) PROVE Ledger'
  <2>1. UNCHANGED <<bill, spend, charged, unanswered, undone>>
    BY <1>1, QuietLeavesRows DEF private, db, money
  <2>2. /\ \A q \in Run : q # r => pc'[q] = pc[q]
        /\ pc'[r] \in {"asking", "reading"} => ~CapReached(r)
        /\ pc'[r] \notin Ended
        /\ Begin(r) \/ (Active(r) /\ overlapped' = overlapped)
    BY <1>0, <1>1, QuietMoves DEF OnlyMoves
  <2>3. CASE Begin(r)
    <3>1. /\ pc' = [pc EXCEPT ![r] = "batching"] /\ pc[r] = "idle"
          /\ overlapped' = (overlapped \/ \E q \in Run : Active(q))
      BY <2>3 DEF Begin
    <3>2. ~Active(r)
      BY <3>1 DEF Active
    <3>3. CASE overlapped'
      BY <1>0, <2>1, <2>2, <3>2, <3>3 DEF Ledger, Active
    <3>4. CASE ~overlapped'
      <4>1. ~overlapped /\ \A q \in Run : ~Active(q)
        BY <3>1, <3>4
      <4>2. \A q \in Run : q # r => ~Active(q)'
        BY <2>2, <4>1 DEF Active
      <4>3. bill[r] = 0 /\ pc'[r] = "batching"
        BY <1>0, <3>1, <3>2 DEF Ledger
      <4>4. \A q \in Run : pc'[q] \notin {"asking", "reading"}
        BY <4>2, <4>3 DEF Active, Ended
      <4>5. /\ charged = unanswered + undone + spend
            /\ spend <= Cap + MaxCost - 1
            /\ \A q \in Run : bill[q] = 0
            /\ Active(r)'
        BY <4>1, <4>3 DEF Ledger, Active, Ended
      <4>6. QED
        BY <1>0, <2>1, <3>4, <4>2, <4>4, <4>5 DEF Ledger
    <3>5. QED
      BY <3>3, <3>4
  <2>4. CASE Active(r) /\ overlapped' = overlapped /\ ~Begin(r)
    <3>1. \A q \in Run : Active(q)' => Active(q)
      BY <2>2, <2>4 DEF Active
    <3>2. \A q \in Run : ~Active(q)' => bill[q] = 0
      <4>1. pc'[r] # "idle"
        BY <1>1, <2>4
           DEF Quiet, SelectBatch, BatchDone, OutOfTime, PickCandidates, NoMoreCandidates,
               ScreenCached, ScreenListed, ScreenAsks, Judge, ScoreNext, NextCandidate,
               Screened, StopJudging, TypeOK, Txn
      <4>2. QED
        BY <2>2, <4>1 DEF Active, Ledger
    <3>3. ~overlapped /\ pc'[r] \in {"asking", "reading"} => spend + bill[r] < Cap
      BY <1>0, <2>2 DEF CapReached
    <3>4. ASSUME ~overlapped, \A q \in Run : ~Active(q)'
          PROVE  charged = unanswered + undone + spend
      <4>1. bill[r] = 0 /\ charged = unanswered + undone + spend + bill[r]
        BY <2>4, <3>2, <3>4 DEF Ledger
      <4>2. QED
        BY <1>0, <4>1
    <3>5. QED
      BY <1>0, <2>1, <2>2, <2>4, <3>1, <3>2, <3>3, <3>4 DEF Ledger
  <2>5. QED
    BY <2>2, <2>3, <2>4
<1>2. ASSUME NEW r \in Run, Busy(r) PROVE Ledger'
  <2>1. /\ \A q \in Run : q # r => pc'[q] = pc[q]
        /\ pc'[r] \notin {"idle", "asking", "reading"} \cup Ended
        /\ Active(r) /\ Active(r)'
    BY <1>0, <1>2, BusyMoves DEF OnlyMoves, Active
  <2>2. \A q \in Run : Active(q)' <=> Active(q)
    BY <2>1 DEF Active
  <2>3. CASE UpsertScore(r) \/ RecordJudgement(r) \/ StoreVerdict(r)
    <3>1. UNCHANGED <<bill, spend, charged, unanswered, undone, overlapped>>
      BY <2>3 DEF UpsertScore, RecordJudgement, StoreVerdict, db, money
    <3>2. QED
      BY <1>0, <2>1, <2>2, <3>1 DEF Ledger
  <2>4. ASSUME NEW cost \in Cost, ScreenAnswered(r, cost) \/ JudgeAnswered(r, cost)
        PROVE  Ledger'
    <3>1. /\ charged' = charged + cost /\ bill' = [bill EXCEPT ![r] = bill[r] + cost]
          /\ UNCHANGED <<spend, unanswered, undone, overlapped>>
          /\ pc[r] \in {"asking", "reading"}
          /\ cost \in Nat /\ cost <= MaxCost
      BY <1>0, <2>4 DEF ScreenAnswered, JudgeAnswered, Charge, db, Cost
    <3>2. /\ bill'[r] = bill[r] + cost
          /\ \A q \in Run : q # r => bill'[q] = bill[q]
      BY <1>0, <3>1
    <3>3. ~overlapped =>
            /\ charged = unanswered + undone + spend + bill[r]
            /\ spend + bill[r] < Cap
            /\ \A q \in Run : q # r => ~Active(q) /\ pc[q] \notin {"asking", "reading"}
      BY <2>1, <3>1 DEF Ledger, Active, Ended
    <3>4. ~overlapped =>
            /\ charged' = unanswered' + undone' + spend' + bill'[r]
            /\ spend' + bill'[r] <= Cap + MaxCost - 1
      BY <1>0, <3>1, <3>2, <3>3
    <3>5. \A q \in Run : ~Active(q)' => bill'[q] = 0
      BY <2>1, <2>2, <3>2 DEF Ledger
    <3>6. ~overlapped' => /\ \A q, p \in Run : Active(q)' /\ Active(p)' => q = p
                          /\ \A q \in Run : Active(q)' => q = r
                          /\ \A q \in Run : pc'[q] \notin {"asking", "reading"}
                          /\ \A q \in Run : spend' + bill'[q] <= Cap + MaxCost - 1
                          /\ spend' <= Cap + MaxCost - 1
      BY <1>0, <2>1, <2>2, <3>1, <3>2, <3>3, <3>4 DEF Ledger
    <3>7. QED
      BY <2>1, <3>1, <3>4, <3>5, <3>6 DEF Ledger
  <2>5. ASSUME NEW cost \in Cost \cup {0}, ScreenFails(r, cost) \/ JudgeFails(r, cost)
        PROVE  Ledger'
    <3>1. /\ charged' = charged + cost /\ unanswered' = unanswered + cost
          /\ UNCHANGED <<spend, bill, undone, overlapped>> /\ cost \in Nat
      BY <1>0, <2>5 DEF ScreenFails, JudgeFails, CallRaises, db, private, Cost
    <3>2. QED
      BY <1>0, <2>1, <2>2, <3>1 DEF Ledger
  <2>6. QED
    BY <1>2, <2>3, <2>4, <2>5 DEF Busy
<1>3. ASSUME NEW t \in Txn, Ends(t) PROVE Ledger'
  <2>1. /\ \A u \in Txn : u # t => pc'[u] = pc[u]
        /\ pc'[t] \in Ended /\ Active(t)
        /\ bill' = [r \in Run |-> IF r = t THEN 0 ELSE bill[r]]
        /\ UNCHANGED overlapped
    BY <1>3, EndsMoves, EndsLeave DEF OnlyMoves, Leave
  <2>0. PICK cost \in Nat : charged' = charged + cost /\ unanswered' = unanswered + cost
    BY <1>0, <1>3, EndsCharge
  <2>2. \A r \in Run : Active(r)' <=> Active(r) /\ r # t
    BY <1>0, <2>1 DEF Active
  <2>3. \A r \in Run : ~Active(r)' => bill'[r] = 0
    BY <2>1, <2>2 DEF Ledger
  <2>4. CASE t \notin Run
    <3>1. UNCHANGED <<spend, undone>>
      BY <1>3, <2>4 DEF Ends, Commit, Kill, DeadlockVictim, RollBack, db, money
    <3>2. bill' = bill
      BY <1>0, <2>1, <2>4
    <3>3. \A r \in Run : pc'[r] = pc[r] /\ r # t
      BY <1>0, <2>1, <2>4
    <3>4. \A r \in Run : Active(r)' <=> Active(r)
      BY <3>3 DEF Active
    <3>5. QED
      BY <1>0, <2>0, <2>1, <3>1, <3>2, <3>3, <3>4 DEF Ledger
  <2>5. CASE t \in Run
    <3>1. spend' + undone' = spend + undone + bill[t]
          /\ spend' \in {spend, spend + bill[t]} /\ undone' \in {undone, undone + bill[t]}
      BY <1>0, <1>3, <2>5 DEF Ends, Commit, Kill, DeadlockVictim, RollBack, db, money
    <3>2. ~overlapped =>
            /\ \A r \in Run : ~Active(r)' /\ bill'[r] = 0
            /\ charged = unanswered + undone + spend + bill[t]
            /\ spend + bill[t] <= Cap + MaxCost - 1
      BY <2>1, <2>2, <2>3, <2>5 DEF Ledger
    <3>3. ~overlapped => charged' = unanswered' + undone' + spend'
                         /\ spend' <= Cap + MaxCost - 1
      <4>1. bill[t] \in Nat /\ spend' \in Nat /\ undone' \in Nat
        BY <1>0, <2>5, <3>1
      <4>2. ASSUME ~overlapped
            PROVE  charged + cost = (unanswered + cost) + undone' + spend'
        BY <1>0, <3>1, <3>2, <4>1, <4>2
      <4>3. ~overlapped => spend' <= Cap + MaxCost - 1
        BY <1>0, <3>1, <3>2, <4>1
      <4>4. QED
        BY <2>0, <4>2, <4>3
    <3>4. ~overlapped => \A r \in Run : pc'[r] \notin {"asking", "reading"}
      BY <3>2 DEF Active, Ended
    <3>5. ~overlapped => \A r \in Run : spend' + bill'[r] <= Cap + MaxCost - 1
      BY <1>0, <2>5, <3>1, <3>2, <3>3
    <3>6. QED
      BY <2>1, <2>3, <3>2, <3>3, <3>4, <3>5 DEF Ledger
  <2>6. QED
    BY <2>4, <2>5
<1>4. ASSUME NEW d \in Ingest, IngestStep(d) PROVE Ledger'
  <2>1. /\ UNCHANGED <<bill, spend, charged, unanswered, undone, overlapped>>
        /\ \A r \in Run : pc'[r] = pc[r]
    BY <1>0, <1>4, ScoreAssumption DEF IngestStep, IngestNext, TouchCompany, private, db, money
  <2>2. QED
    BY <2>1 DEF Ledger, Active
<1>5. ASSUME NEW c \in Company, NEW v \in Ruling, Rule(c, v) PROVE Ledger'
  BY <1>5 DEF Rule, control, money, Ledger, Active
<1>6. CASE UNCHANGED vars
  BY <1>6 DEF vars, control, private, db, money, Ledger, Active
<1>7. QED
  BY <1>1, <1>2, <1>3, <1>4, <1>5, <1>6, Kinds

-----------------------------------------------------------------------------
(* The invariant, and what follows from it.                                *)

\* The inductive invariant holds in every reachable state.
THEOREM ScoreInvariant == Spec => []IInv
<1>1. Init => IInv
  BY InitEstablishesIInv
<1>2. IInv /\ [Next]_vars => IInv'
  BY TypeStep, PlacesStep, DraftsStep, LedgerStep DEF IInv
<1>3. QED
  BY <1>1, <1>2, PTL DEF Spec

\* Type correctness, and: no lock outlives the transaction that took it.
THEOREM TypesHold == Spec => []TypeOK
BY ScoreInvariant, PTL DEF IInv

\* A judgement is never overwritten, however many runs work on the same job.
THEOREM JudgementsAreKept == Spec => JudgementsStay
<1>1. TypeOK /\ Drafts /\ [Next]_vars => [\A j \in Job : score'[j] >= score[j]]_vars
  <2> SUFFICES ASSUME TypeOK, Drafts, Next, NEW j \in Job PROVE score'[j] >= score[j]
    BY DEF TypeOK
  <2>1. score[j] \in Nat
    BY DEF TypeOK, Unscored, Judged
  <2>2. score'[j] = score[j] \/ score'[j] = newScore[j]
    <3>1. ASSUME NEW r \in Run, Quiet(r) PROVE score' = score
      BY <3>1, QuietLeavesRows DEF db
    <3>2. ASSUME NEW r \in Run, Busy(r) PROVE score' = score
      BY <3>2 DEF Busy, UpsertScore, RecordJudgement, StoreVerdict, ScreenAnswered,
                  JudgeAnswered, ScreenFails, JudgeFails, db
    <3>3. ASSUME NEW t \in Txn, Ends(t) PROVE score'[j] = score[j] \/ score'[j] = newScore[j]
      BY <3>3 DEF Ends, Commit, Kill, DeadlockVictim, RollBack, db
    <3>4. ASSUME NEW d \in Ingest, IngestStep(d) PROVE score' = score
      BY <3>4 DEF IngestStep, IngestNext, TouchCompany, db
    <3>5. ASSUME NEW c \in Company, NEW v \in Ruling, Rule(c, v) PROVE score' = score
      BY <3>5 DEF Rule
    <3>6. QED
      BY <3>1, <3>2, <3>3, <3>4, <3>5, Kinds DEF vars, db
  <2>3. QED
    BY <2>1, <2>2 DEF Drafts
<1>2. QED
  BY <1>1, ScoreInvariant, PTL DEF Spec, JudgementsStay, IInv

\* A user's ruling on a company is replaced by another ruling or not at all.
THEOREM RulingsAreKept == Spec => RulingsStay
<1>1. TypeOK /\ Drafts /\ [Next]_vars =>
        [\A c \in Company : screen[c].source = "user" => screen'[c].source = "user"]_vars
  <2> SUFFICES ASSUME TypeOK, Drafts, Next, NEW c \in Company, screen[c].source = "user"
               PROVE  screen'[c].source = "user"
    OBVIOUS
  <2>1. ASSUME NEW r \in Run, Quiet(r) PROVE screen' = screen
    BY <2>1, QuietLeavesRows DEF db
  <2>2. ASSUME NEW r \in Run, Busy(r) PROVE screen' = screen
    BY <2>2 DEF Busy, UpsertScore, RecordJudgement, StoreVerdict, ScreenAnswered,
                JudgeAnswered, ScreenFails, JudgeFails, db
  <2>3. ASSUME NEW t \in Txn, Ends(t) PROVE screen'[c] \in {screen[c], newScreen[c]}
    BY <2>3 DEF Ends, Commit, Kill, DeadlockVictim, RollBack, db
  <2>4. ASSUME NEW d \in Ingest, IngestStep(d) PROVE screen' = screen
    BY <2>4 DEF IngestStep, IngestNext, TouchCompany, db
  <2>5. ASSUME NEW e \in Company, NEW v \in Ruling, Rule(e, v)
        PROVE  screen'[c].source = "user"
    BY <2>5 DEF Rule, TypeOK
  <2>6. CASE UNCHANGED vars
    BY <2>6 DEF vars, db
  <2>7. QED
    BY <2>1, <2>2, <2>3, <2>4, <2>5, <2>6, Kinds DEF Drafts
<1>2. QED
  BY <1>1, ScoreInvariant, PTL DEF Spec, RulingsStay, IInv

\* The ceiling is exceeded by at most one call, for every ceiling, as long as
\* runs follow one another and every charge finds its row.
THEOREM CapHoldsSerially == Spec => []SerialRunsKeepCap
<1>1. IInv => SerialRunsKeepCap
  <2> SUFFICES ASSUME IInv, ~overlapped
               PROVE  charged <= unanswered + undone + Cap + MaxCost - 1
    BY DEF SerialRunsKeepCap
  <2>0. /\ bill \in [Run -> Nat] /\ spend \in Nat /\ charged \in Nat
        /\ unanswered \in Nat /\ undone \in Nat /\ Cap \in Nat /\ MaxCost \in Nat \ {0}
    BY ScoreAssumption DEF IInv, TypeOK
  <2>1. CASE \E r \in Run : Active(r)
    BY <2>0, <2>1 DEF IInv, Ledger
  <2>2. CASE \A r \in Run : ~Active(r)
    BY <2>0, <2>2 DEF IInv, Ledger
  <2>3. QED
    BY <2>1, <2>2
<1>2. QED
  BY <1>1, ScoreInvariant, PTL
=============================================================================

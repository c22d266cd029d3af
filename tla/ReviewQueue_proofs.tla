-------------------------- MODULE ReviewQueue_proofs --------------------------
(***************************************************************************)
(* The queue and the tracker for every number of jobs and employers, every *)
(* set of filters, page size, length of a week, and however often the      *)
(* tables change.                                                          *)
(***************************************************************************)
EXTENDS ReviewQueue, FiniteSetTheorems, SequenceTheorems, TLAPS

-----------------------------------------------------------------------------
(* Sets of jobs, and their sequences.                                      *)

LEMMA SomeJobs ==
    ASSUME NEW S, S \subseteq Job
    PROVE  IsFiniteSet(S) /\ Cardinality(S) \in Nat
BY QueueAssumption, FS_Subset, FS_CardinalityType

\* A sequence of all the elements, each once.
LEMMA Arranged ==
    ASSUME NEW S, S \subseteq Job, NEW rows \in SetToSeqs(S)
    PROVE  /\ rows \in Seq(Job) /\ Len(rows) = Cardinality(S)
           /\ DOMAIN rows = 1..Len(rows)
           /\ \A i, j \in DOMAIN rows : i # j => rows[i] # rows[j]
           /\ \A x \in S : \E i \in DOMAIN rows : rows[i] = x
           /\ \A i \in DOMAIN rows : rows[i] \in S
<1>1. IsFiniteSet(S) /\ Cardinality(S) \in Nat
  BY SomeJobs
<1> DEFINE n == Cardinality(S)
<1>2. /\ rows \in [1..n -> S]
      /\ \A i, j \in 1..n : i # j => rows[i] # rows[j]
  BY DEF SetToSeqs
<1>3. rows \in Seq(S)
  BY <1>1, <1>2, SeqDef
<1>4. rows \in Seq(Job) /\ Len(rows) = n
  <2>1. Len(rows) \in Nat /\ DOMAIN rows = 1..Len(rows)
    BY <1>3, LenProperties
  <2>2. 1..n = 1..Len(rows)
    BY <1>2, <2>1
  <2>3. Len(rows) = n
    BY <1>1, <2>1, <2>2
  <2>4. QED
    BY <1>3, <2>3, SeqMonotonic
<1>5. IsFiniteSet(1..n) /\ Cardinality(1..n) = n
  <2>1. 0 \in Int /\ 1 \in Int /\ n \in Int /\ (1 > n => n = 0)
    BY <1>1
  <2>2. /\ IsFiniteSet(1..n)
        /\ Cardinality(1..n) = IF 1 > n THEN 0 ELSE n - 1 + 1
    BY <2>1, FS_Interval
  <2>3. QED
    BY <2>1, <2>2
<1>6. rows \in Injection(1..n, S)
  BY <1>2 DEF Injection, IsInjective
<1>7. rows \in Surjection(1..n, S)
  BY <1>1, <1>5, <1>6, FS_Injection
<1>8. QED
  BY <1>2, <1>4, <1>7 DEF Surjection

\* What the query may return: some rows within the caps, in the order asked for.
LEMMA ResultsAreKept ==
    ASSUME NEW f, NEW rows \in Results(f)
    PROVE  \E kept \in Kept(f) :
              /\ kept \subseteq Eligible(f)
              /\ rows \in SetToSeqs(kept)
              /\ \A m, n \in DOMAIN rows : m < n => ~SortsBefore(f, rows[n], rows[m])
<1>1. PICK kept \in Kept(f) : rows \in SetToSeqs(kept)
  BY DEF Results
<1>2. \A m, n \in DOMAIN rows : m < n => ~SortsBefore(f, rows[n], rows[m])
  BY DEF Results
<1>3. kept \subseteq Eligible(f)
  BY <1>1 DEF Kept, TopOfEachEmployer
<1>4. QED
  BY <1>1, <1>2, <1>3

LEMMA ResultsTyped == ASSUME NEW f, NEW rows \in Results(f) PROVE rows \in Seq(Job)
<1>1. PICK kept : kept \subseteq Eligible(f) /\ rows \in SetToSeqs(kept)
  BY ResultsAreKept
<1>2. kept \subseteq Job
  BY <1>1 DEF Eligible
<1>3. QED
  BY <1>1, <1>2, Arranged

LEMMA SliceTyped ==
    ASSUME NEW rows \in Seq(Job), NEW offset \in Nat, NEW n \in Nat
    PROVE  Slice(rows, offset, n) \in Seq(Job)
<1> DEFINE last == IF offset + n < Len(rows) THEN offset + n ELSE Len(rows)
<1>1. Len(rows) \in Nat
  BY LenProperties
<1>2. last \in Int /\ offset + 1 \in Int
  BY <1>1
<1>3. \A i \in (offset + 1)..last : i \in 1..Len(rows)
  BY <1>1
<1>4. \A i \in (offset + 1)..last : rows[i] \in Job
  BY <1>3, ElementOfSeq
<1> HIDE DEF last
<1>5. SubSeq(rows, offset + 1, last) \in Seq(Job)
  BY <1>2, <1>4, SubSeqProperties
<1>6. QED
  BY <1>5 DEF Slice, last

-----------------------------------------------------------------------------
(* Types.                                                                  *)

\* The row a click leaves keeps both CHECKs of migration 004.
LEMMA UpsertedTyped ==
    ASSUME NEW old \in AppRow \cup {None}, NEW status \in Statuses, NEW stamp \in Nat,
           old # None /\ old.appliedAt = None => old.status \in {"queued", "dismissed"}
    PROVE  /\ Upserted(old, status, stamp) \in AppRow
           /\ Upserted(old, status, stamp).status = status
           /\ Upserted(old, status, stamp).appliedAt = None => status \in {"queued", "dismissed"}
           /\ old # None /\ old.appliedAt # None =>
                Upserted(old, status, stamp).appliedAt = old.appliedAt
           /\ \/ Upserted(old, status, stamp).appliedAt \in {stamp, None}
              \/ /\ old # None
                 /\ Upserted(old, status, stamp).appliedAt = old.appliedAt
<1> DEFINE date == IF NeedsTimestamp(status) THEN stamp ELSE None
           row == Upserted(old, status, stamp)
<1>1. date \in {stamp, None} /\ (date = None => status \in {"queued", "dismissed"})
  <2>1. stamp # None
    BY QueueAssumption
  <2>2. QED
    BY <2>1 DEF NeedsTimestamp
<1>2. CASE old # None /\ old.appliedAt # None
  <2>1. row = [status |-> status, appliedAt |-> old.appliedAt]
    BY <1>2 DEF Upserted
  <2>2. old.appliedAt \in Nat
    BY <1>2 DEF AppRow
  <2>3. QED
    BY <1>2, <2>1, <2>2 DEF AppRow
<1>3. CASE ~(old # None /\ old.appliedAt # None)
  <2>1. row = [status |-> status, appliedAt |-> date]
    BY <1>3 DEF Upserted
  <2> HIDE DEF date
  <2>2. /\ Upserted(old, status, stamp).status = status
        /\ Upserted(old, status, stamp).appliedAt = date
    BY <2>1
  <2>3. Upserted(old, status, stamp) \in AppRow
    BY <1>1, <2>1 DEF AppRow
  <2>4. Upserted(old, status, stamp).appliedAt \in {stamp, None}
    BY <1>1, <2>2
  <2>5. Upserted(old, status, stamp).appliedAt = None => status \in {"queued", "dismissed"}
    BY <1>1, <2>2
  <2>6. QED
    BY <1>3, <2>2, <2>3, <2>4, <2>5
<1>4. QED
  BY <1>2, <1>3

LEMMA InitTyped == Init => TypeOK
BY EmptySeq, QueueAssumption DEF Init, TypeOK, Walk, Idle, Verdicts

\* A page read and its place in the walk.
LEMMA ReadPageTyped ==
    ASSUME TypeOK, NEW f \in Walks, NEW offset \in Nat, ReadPage(f, offset)
    PROVE  TypeOK'
<1>1. PICK rows \in Results(f) :
         /\ walk' = [at |-> "listed", filters |-> f, offset |-> offset, offered |-> {},
                     more |-> Len(Slice(rows, offset, PageSize + 1)) > PageSize]
         /\ shown' = IF calm THEN shown \o Slice(rows, offset, PageSize) ELSE <<>>
  BY DEF ReadPage
<1>2. rows \in Seq(Job)
  BY ResultsTyped
<1>3. Slice(rows, offset, PageSize) \in Seq(Job)
  BY <1>2, SliceTyped, QueueAssumption
<1>4. shown' \in Seq(Job)
  BY <1>1, <1>3, EmptySeq, ConcatProperties DEF TypeOK
<1>5. walk' \in Walk
  <2> DEFINE more == Len(Slice(rows, offset, PageSize + 1)) > PageSize
  <2>1. more \in BOOLEAN
    OBVIOUS
  <2> HIDE DEF more
  <2>2. [at |-> "listed", filters |-> f, offset |-> offset, offered |-> {}, more |-> more] \in Walk
    BY <2>1 DEF Walk
  <2>3. QED
    BY <1>1, <2>2 DEF more
<1>6. UNCHANGED <<tables, now, calm, changes>>
  BY DEF ReadPage
<1>7. QED
  BY <1>4, <1>5, <1>6 DEF TypeOK, tables

LEMMA ChangeTyped ==
    ASSUME TypeOK, Change
    PROVE  walk' \in Walk /\ now' \in Nat /\ shown' \in Seq(Job) /\ calm' \in BOOLEAN /\ changes' \in Nat
BY EmptySeq DEF Change, TypeOK

LEMMA StepTyped == ASSUME TypeOK, [Next]_vars PROVE TypeOK'
<1>1. ASSUME NEW f \in Walks, Open(f) PROVE TypeOK'
  BY <1>1, ReadPageTyped DEF Open
<1>2. CASE ReadFacets
  <2> DEFINE offers == {Listing[j].employer : j \in {k \in Job : InQueue(k)}}
  <2>1. walk.at = "listed" /\ walk' = [walk EXCEPT !.at = "page", !.offered = offers]
        /\ UNCHANGED <<tables, now, shown, calm, changes>>
    BY <1>2 DEF ReadFacets
  <2>2. offers \in SUBSET Employer
    BY QueueAssumption DEF ListingRow
  <2> HIDE DEF offers
  <2>3. walk \in [at : {"listed", "page"}, filters : Walks, offset : Nat, more : BOOLEAN,
                  offered : SUBSET Employer]
    BY <2>1 DEF TypeOK, Walk, Idle
  <2>4. walk' \in Walk
    BY <2>1, <2>2, <2>3 DEF Walk
  <2>5. QED
    BY <2>1, <2>4 DEF TypeOK, tables
<1>3. CASE NextPage
  <2>1. walk.filters \in Walks /\ walk.offset \in Nat
    BY <1>3 DEF NextPage, TypeOK, Walk, Idle
  <2>2. walk.offset + PageSize \in Nat
    BY <2>1, QueueAssumption
  <2>3. QED
    BY <1>3, <2>1, <2>2, ReadPageTyped DEF NextPage
<1>4. CASE Close
  BY <1>4, EmptySeq DEF Close, TypeOK, tables, Walk
<1>5. ASSUME NEW j \in Job, NEW n \in Points, Score(j, n) PROVE TypeOK'
  BY <1>5, ChangeTyped, QueueAssumption DEF Score, TypeOK
<1>6. ASSUME NEW j \in Job, Judge(j) \/ Filter(j) PROVE TypeOK'
  BY <1>6, ChangeTyped DEF Judge, Filter, TypeOK
<1>7. ASSUME NEW e \in Employer, NEW v \in Verdicts, Rule(e, v) PROVE TypeOK'
  BY <1>7, ChangeTyped DEF Rule, TypeOK
<1>8. ASSUME NEW j \in Job, NEW status \in Statuses, NEW stamp \in 0..now,
             SetStatus(j, status, stamp)
      PROVE  TypeOK'
  <2>1. stamp \in Nat /\ app[j] \in AppRow \cup {None}
        /\ (app[j] # None /\ app[j].appliedAt = None => app[j].status \in {"queued", "dismissed"})
    BY DEF TypeOK
  <2>2. /\ Upserted(app[j], status, stamp) \in AppRow
        /\ Upserted(app[j], status, stamp).status = status
        /\ Upserted(app[j], status, stamp).appliedAt = None => status \in {"queued", "dismissed"}
    BY <2>1, UpsertedTyped
  <2>3. app' = [app EXCEPT ![j] = Upserted(app[j], status, stamp)] /\ Change
        /\ UNCHANGED <<score, judged, filtered, verdict>>
    BY <1>8 DEF SetStatus
  <2>4. app' \in [Job -> AppRow \cup {None}]
    BY <2>2, <2>3 DEF TypeOK
  <2>5. ASSUME NEW k \in Job, app'[k] # None /\ app'[k].appliedAt = None
        PROVE  app'[k].status \in {"queued", "dismissed"}
    BY <2>2, <2>3, <2>5 DEF TypeOK
  <2>6. QED
    BY <2>3, <2>4, <2>5, ChangeTyped DEF TypeOK
<1>9. CASE Tick
  BY <1>9, EmptySeq DEF Tick, TypeOK, tables
<1>10. CASE UNCHANGED vars
  BY <1>10 DEF vars, TypeOK
<1>11. QED
  BY <1>1, <1>2, <1>3, <1>4, <1>5, <1>6, <1>7, <1>8, <1>9, <1>10 DEF Next

\* Every state is well typed; in particular an application past the queue has
\* the date on which it was made (the CHECKs of migration 004).
THEOREM TypeCorrect == Spec => []TypeOK
<1>1. QED
  BY InitTyped, StepTyped, PTL DEF Spec

-----------------------------------------------------------------------------
(* The tracker.                                                            *)

\* Nothing was applied to after today.
Dated == \A j \in Job : app[j] # None /\ app[j].appliedAt # None => app[j].appliedAt <= now

\* Weeks follow each other as days do.
LEMMA WeeksInOrder ==
    ASSUME NEW d \in Nat, NEW e \in Nat, d <= e
    PROVE  Week(d) \in Nat /\ Week(e) \in Nat /\ Week(d) <= Week(e)
<1> DEFINE L == WeekLength
<1>1. L \in Nat /\ L > 0
  BY QueueAssumption
<1>2. d \div L \in Nat /\ e \div L \in Nat /\ d \div L <= e \div L
  BY <1>1
<1>3. QED
  BY <1>2 DEF Week

LEMMA InitDated == Init => Dated
BY DEF Init, Dated

\* A date that is set stays, and no step sets one in the future.
LEMMA DatesStay ==
    ASSUME TypeOK, Dated, [Next]_vars
    PROVE  /\ now' \in Nat /\ now <= now'
           /\ \A j \in Job : /\ app'[j] \in AppRow \cup {None}
                             /\ app'[j] # None /\ app'[j].appliedAt # None => app'[j].appliedAt <= now'
                             /\ app[j] # None /\ app[j].appliedAt # None =>
                                  app'[j] # None /\ app'[j].appliedAt = app[j].appliedAt
<1>1. app \in [Job -> AppRow \cup {None}] /\ now \in Nat
  BY DEF TypeOK
<1>2. CASE app' = app /\ now' = now
  BY <1>1, <1>2 DEF Dated
<1>3. CASE Tick
  <2>1. app' = app /\ now' = now + 1
    BY <1>3 DEF Tick, tables
  <2>2. \A j \in Job : app[j] # None /\ app[j].appliedAt # None => app[j].appliedAt \in Nat
    BY <1>1 DEF AppRow
  <2>3. QED
    BY <1>1, <2>1, <2>2 DEF Dated
<1>4. ASSUME NEW j \in Job, NEW status \in Statuses, NEW stamp \in 0..now,
             SetStatus(j, status, stamp)
      PROVE  /\ now' \in Nat /\ now <= now'
             /\ \A k \in Job : /\ app'[k] \in AppRow \cup {None}
                               /\ app'[k] # None /\ app'[k].appliedAt # None => app'[k].appliedAt <= now'
                               /\ app[k] # None /\ app[k].appliedAt # None =>
                                    app'[k] # None /\ app'[k].appliedAt = app[k].appliedAt
  <2>1. now' = now /\ app' = [app EXCEPT ![j] = Upserted(app[j], status, stamp)]
    BY <1>4 DEF SetStatus, Change
  <2> DEFINE row == Upserted(app[j], status, stamp)
  <2>2. app'[j] = row /\ \A k \in Job \ {j} : app'[k] = app[k]
    BY <1>1, <2>1
  <2>3. stamp \in Nat /\ stamp <= now /\ app[j] \in AppRow \cup {None}
        /\ (app[j] # None /\ app[j].appliedAt = None => app[j].status \in {"queued", "dismissed"})
    BY <1>1 DEF TypeOK
  <2>4. /\ row \in AppRow
        /\ app[j] # None /\ app[j].appliedAt # None => row.appliedAt = app[j].appliedAt
        /\ \/ row.appliedAt \in {stamp, None}
           \/ app[j] # None /\ row.appliedAt = app[j].appliedAt
    BY <2>3, UpsertedTyped
  <2>5. row # None
    BY <2>4, QueueAssumption
  <2> HIDE DEF row
  <2>6. row.appliedAt # None => row.appliedAt <= now
    BY <2>3, <2>4 DEF Dated
  <2>7. QED
    BY <1>1, <2>1, <2>2, <2>4, <2>5, <2>6 DEF Dated
<1>5. CASE ~Tick /\ ~\E j \in Job, status \in Statuses, stamp \in 0..now : SetStatus(j, status, stamp)
  <2>1. app' = app /\ now' = now
    BY <1>5 DEF Next, vars, tables, Open, ReadPage, ReadFacets, NextPage, Close, Score, Judge,
                Filter, Rule, Change
  <2>2. QED
    BY <1>2, <2>1
<1>6. QED
  BY <1>3, <1>4, <1>5

\* The answers that came to the applications of a week.
AnsweredIn(week) == {j \in AppliedIn(week) : app[j].status \in {"responded", "interview"}}

\* The numbered answers of the weeks shown are as many as the jobs answered whose
\* application is of one of them, and of exactly one.
LEMMA AnswersAddUp == ASSUME TypeOK, Dated PROVE TablesAgree
<1> DEFINE answers == {a \in WeeksShown \X (1..Cardinality(Job)) :
                         a[2] <= Conversion(a[1]).responded}
           responded == {j \in Job : app[j] # None /\ app[j].status = "responded"}
           interview == {j \in Job : app[j] # None /\ app[j].status = "interview"}
           answered == (responded \cup interview) \ AnsweredEarlier
           pick == [w \in WeeksShown |->
                      CHOOSE b : b \in Bijection(1..Cardinality(AnsweredIn(w)), AnsweredIn(w))]
           job == [a \in answers |-> pick[a[1]][a[2]]]
<1>1. now \in Nat /\ Week(now) \in Nat
  BY WeeksInOrder DEF TypeOK
<1>2. IsFiniteSet(Job) /\ Cardinality(Job) \in Nat
  BY SomeJobs
<1>3. ASSUME NEW w
      PROVE  /\ IsFiniteSet(AnsweredIn(w)) /\ Cardinality(AnsweredIn(w)) \in Nat
             /\ Cardinality(AnsweredIn(w)) <= Cardinality(Job)
             /\ Conversion(w).responded = Cardinality(AnsweredIn(w))
  <2>1. AnsweredIn(w) \subseteq Job
    BY DEF AnsweredIn, AppliedIn
  <2>2. Conversion(w).responded = Cardinality(AnsweredIn(w))
    BY DEF Conversion, AnsweredIn
  <2>3. QED
    BY <1>2, <2>1, <2>2, SomeJobs, FS_Subset
<1>4. ASSUME NEW w \in WeeksShown
      PROVE  pick[w] \in Bijection(1..Cardinality(AnsweredIn(w)), AnsweredIn(w))
  <2>1. \E b : b \in Bijection(1..Cardinality(AnsweredIn(w)), AnsweredIn(w))
    BY <1>3, FS_CardinalityType DEF ExistsBijection
  <2>2. QED
    BY <2>1
<1> HIDE DEF pick
\* A numbered answer is a job answered in its week.
<1>5. ASSUME NEW a \in answers
      PROVE  /\ a[1] \in WeeksShown /\ a[2] \in 1..Cardinality(AnsweredIn(a[1]))
             /\ a = <<a[1], a[2]>> /\ job[a] \in AnsweredIn(a[1])
  <2>1. /\ a[1] \in WeeksShown /\ a[2] \in 1..Cardinality(Job) /\ a = <<a[1], a[2]>>
        /\ a[2] <= Conversion(a[1]).responded
    OBVIOUS
  <2>2. a[2] \in 1..Cardinality(AnsweredIn(a[1]))
    BY <1>2, <1>3, <2>1
  <2>3. pick[a[1]] \in [1..Cardinality(AnsweredIn(a[1])) -> AnsweredIn(a[1])]
    BY <1>4, <2>1 DEF Bijection, Injection
  <2>4. pick[a[1]][a[2]] \in AnsweredIn(a[1])
    BY <2>2, <2>3
  <2>5. QED
    BY <2>1, <2>2, <2>4
\* A job is answered in the week of its application.
<1>6. ASSUME NEW w \in WeeksShown, NEW j \in AnsweredIn(w)
      PROVE  j \in answered /\ w = Week(app[j].appliedAt)
  BY DEF AnsweredIn, AppliedIn, AnsweredEarlier
<1>7. ASSUME NEW j \in answered
      PROVE  \E w \in WeeksShown : j \in AnsweredIn(w)
  <2>1. /\ j \in Job /\ app[j] \in AppRow /\ app[j] # None
        /\ app[j].status \in {"responded", "interview"}
    BY DEF TypeOK
  <2>2. app[j].appliedAt # None
    BY <2>1 DEF TypeOK
  <2>4. Week(app[j].appliedAt) \in WeeksShown
    BY <2>1, <2>2 DEF AnsweredEarlier
  <2>5. j \in AnsweredIn(Week(app[j].appliedAt))
    BY <2>1, <2>2 DEF AnsweredIn, AppliedIn
  <2>6. QED
    BY <2>4, <2>5
<1>8. job \in [answers -> answered]
  BY <1>5, <1>6
<1>9. ASSUME NEW a \in answers, NEW b \in answers, job[a] = job[b] PROVE a = b
  <2>1. a[1] = b[1]
    BY <1>5, <1>6, <1>9
  <2>2. pick[a[1]][a[2]] = pick[a[1]][b[2]]
    BY <1>9, <2>1
  <2>3. pick[a[1]] \in Injection(1..Cardinality(AnsweredIn(a[1])), AnsweredIn(a[1]))
    BY <1>4, <1>5 DEF Bijection
  <2>4. a[2] = b[2]
    BY <1>5, <2>1, <2>2, <2>3 DEF Injection, IsInjective
  <2>5. QED
    BY <1>5, <2>1, <2>4
<1>10. ASSUME NEW j \in answered PROVE \E a \in answers : job[a] = j
  <2>1. PICK w \in WeeksShown : j \in AnsweredIn(w)
    BY <1>7
  <2>2. pick[w] \in Surjection(1..Cardinality(AnsweredIn(w)), AnsweredIn(w))
    BY <1>4 DEF Bijection
  <2>3. PICK i \in 1..Cardinality(AnsweredIn(w)) : pick[w][i] = j
    BY <2>1, <2>2 DEF Surjection
  <2>4. i \in 1..Cardinality(Job) /\ i <= Conversion(w).responded
    BY <1>2, <1>3, <2>3
  <2>5. <<w, i>> \in answers
    BY <2>1, <2>4
  <2>6. job[<<w, i>>] = j
    BY <2>3, <2>5
  <2>7. QED
    BY <2>5, <2>6
<1>11. IsFiniteSet(answers)
  <2>1. IsFiniteSet(WeeksShown) /\ IsFiniteSet(1..Cardinality(Job))
    <3>1. IsFiniteSet(0..Week(now)) /\ WeeksShown \subseteq 0..Week(now)
      BY <1>1, FS_Interval DEF WeeksShown
    <3>2. IsFiniteSet(WeeksShown)
      BY <3>1, FS_Subset
    <3>3. IsFiniteSet(1..Cardinality(Job))
      BY <1>2, FS_Interval
    <3>4. QED
      BY <3>2, <3>3
  <2>2. IsFiniteSet(WeeksShown \X (1..Cardinality(Job)))
    BY <2>1, FS_Product
  <2>3. answers \subseteq WeeksShown \X (1..Cardinality(Job))
    OBVIOUS
  <2>4. QED
    BY <2>2, <2>3, FS_Subset
<1>12. Cardinality(answers) = Cardinality(answered)
  <2>1. job \in Bijection(answers, answered)
    BY <1>8, <1>9, <1>10 DEF Bijection, Injection, Surjection, IsInjective
  <2> HIDE DEF job, answers, answered
  <2>2. ExistsBijection(answers, answered)
    BY <2>1 DEF ExistsBijection
  <2>3. QED
    BY <1>11, <2>2, FS_Bijection
<1>13. Cardinality(responded \cup interview) = Cardinality(responded) + Cardinality(interview)
  <2>1. IsFiniteSet(responded) /\ Cardinality(responded) \in Nat
    BY SomeJobs
  <2>2. IsFiniteSet(interview) /\ Cardinality(interview) \in Nat
    BY SomeJobs
  <2>3. responded \cap interview = {}
    OBVIOUS
  <2> HIDE DEF responded, interview
  <2>4. Cardinality(responded \cap interview) = 0
    BY <2>3, FS_EmptySet
  <2>5. Cardinality(responded \cup interview)
          = Cardinality(responded) + Cardinality(interview) - Cardinality(responded \cap interview)
    BY <2>1, <2>2, FS_Union
  <2>6. QED
    BY <2>1, <2>2, <2>4, <2>5
<1>14. Cardinality(answered) + Cardinality(AnsweredEarlier) = Cardinality(responded \cup interview)
  <2>1. AnsweredEarlier \subseteq responded \cup interview
    BY DEF AnsweredEarlier
  <2>2. answered = (responded \cup interview) \ AnsweredEarlier
    OBVIOUS
  <2>3. IsFiniteSet(responded \cup interview)
    BY SomeJobs
  <2> HIDE DEF responded, interview, answered
  <2>4. IsFiniteSet(answered) /\ IsFiniteSet(AnsweredEarlier)
        /\ answered \cap AnsweredEarlier = {}
        /\ answered \cup AnsweredEarlier = responded \cup interview
    BY <2>1, <2>2, <2>3, FS_Subset
  <2>5. Cardinality(answered \cap AnsweredEarlier) = 0
    BY <2>4, FS_EmptySet
  <2>6. Cardinality(answered) \in Nat /\ Cardinality(AnsweredEarlier) \in Nat
    BY <2>4, FS_CardinalityType
  <2>7. Cardinality(answered \cup AnsweredEarlier)
          = Cardinality(answered) + Cardinality(AnsweredEarlier)
                - Cardinality(answered \cap AnsweredEarlier)
    BY <2>4, FS_Union
  <2>8. QED
    BY <2>4, <2>5, <2>6, <2>7
<1>15. QED
  BY <1>12, <1>13, <1>14 DEF TablesAgree, FunnelCount

\* A week that the tracker still shows never loses an application, and its two
\* tables agree on the answers that came.
THEOREM WeeksKeep == Spec => WeeksKeepTheirApplications
<1>1. TypeOK /\ Dated /\ [Next]_vars => TypeOK' /\ Dated'
  BY StepTyped, DatesStay DEF Dated
<1>2. TypeOK /\ Dated => TablesAgree
  BY AnswersAddUp
<1>3. TypeOK /\ Dated /\ [Next]_vars => \A w : AppliedIn(w) \subseteq AppliedIn(w)'
  BY DatesStay DEF AppliedIn
<1>4. TypeOK /\ Dated /\ TypeOK' /\ Dated' /\ TablesAgree' /\ [Next]_vars =>
        [/\ \A w \in WeeksShown \cap WeeksShown' : AppliedIn(w) \subseteq AppliedIn(w)'
         /\ TablesAgree']_vars
  BY <1>3
<1>5. QED
  BY <1>1, <1>2, <1>4, InitTyped, InitDated, PTL DEF Spec, WeeksKeepTheirApplications

-----------------------------------------------------------------------------
(* The order of the queue.                                                 *)

\* Of two jobs in the queue, one comes before the other and not after it: the
\* end of every ordering on job_id makes it total.
LEMMA OrderIsTotal ==
    ASSUME TypeOK, NEW f \in Walks, NEW i \in Eligible(f), NEW j \in Eligible(f), i # j
    PROVE  SortsBefore(f, i, j) <=> ~SortsBefore(f, j, i)
<1>1. i \in Job /\ j \in Job /\ i \in Int /\ j \in Int
  BY QueueAssumption DEF Eligible
<1>2. score[i] \in Int /\ score[j] \in Int
  BY <1>1 DEF Eligible, InQueue, TypeOK
<1>3. SortKey(f, i) \in Int \cup {None} /\ SortKey(f, j) \in Int \cup {None}
  <2>1. Listing[i] \in ListingRow /\ Listing[j] \in ListingRow
    BY <1>1, QueueAssumption
  <2>2. ASSUME NEW k \in {i, j} PROVE SortKey(f, k) \in Int \cup {None}
    <3>1. Listing[k].posted \in Int \cup {None}
      BY <2>1, <2>2 DEF ListingRow
    <3>2. Listing[k].pay \in Int \cup {None}
      BY <2>1, <2>2 DEF ListingRow
    <3>3. Listing[k].employer \in Int
      <4>1. Listing[k].employer \in Employer
        BY <2>1, <2>2 DEF ListingRow
      <4>2. Employer \subseteq Int
        BY QueueAssumption
      <4>3. QED
        BY <4>1, <4>2
    <3>4. QED
      BY <1>2, <3>1, <3>2, <3>3 DEF SortKey
  <2>3. QED
    BY <2>2
<1>4. None \notin Int
  BY QueueAssumption
<1>5. CASE SortKey(f, i) = SortKey(f, j)
  <2>1. ~Ahead(SortKey(f, i), SortKey(f, j), f.descending)
        /\ ~Ahead(SortKey(f, j), SortKey(f, i), f.descending)
    BY <1>3, <1>4, <1>5 DEF Ahead
  <2>2. QED
    BY <1>1, <1>2, <1>5, <2>1 DEF SortsBefore
<1>6. CASE SortKey(f, i) # SortKey(f, j)
  <2>1. Ahead(SortKey(f, i), SortKey(f, j), f.descending)
        <=> ~Ahead(SortKey(f, j), SortKey(f, i), f.descending)
    BY <1>3, <1>4, <1>6 DEF Ahead
  <2>2. QED
    BY <1>6, <2>1 DEF SortsBefore
<1>7. QED
  BY <1>5, <1>6

\* A nonempty set of numbers has a least.
LEMMA LeastNumber ==
    ASSUME NEW S, S \subseteq Nat, S # {}
    PROVE  \E m \in S : \A k \in S : m <= k
<1>1. \E m \in S : \A k \in S : ~(<<k, m>> \in OpToRel(<, Nat))
  BY NatLessThanWellFounded, WFMin
<1>2. PICK m \in S : \A k \in S : ~(<<k, m>> \in OpToRel(<, Nat))
  BY <1>1
<1>3. ASSUME NEW k \in S PROVE m <= k
  <2>1. <<k, m>> \in Nat \X Nat
    OBVIOUS
  <2>2. ~(k < m)
    BY <1>2, <2>1 DEF OpToRel
  <2>3. QED
    BY <2>2
<1>4. QED
  BY <1>3

InOrder(f, rows) == \A m, n \in DOMAIN rows : m < n => ~SortsBefore(f, rows[n], rows[m])

\* Jobs of the queue can be put in order in one way only.
LEMMA OneOrder ==
    ASSUME TypeOK, NEW f \in Walks, NEW S, S \subseteq Eligible(f),
           NEW a \in SetToSeqs(S), NEW b \in SetToSeqs(S), InOrder(f, a), InOrder(f, b)
    PROVE  a = b
<1>1. S \subseteq Job
  BY DEF Eligible
<1>2. /\ a \in Seq(Job) /\ b \in Seq(Job) /\ Len(a) = Len(b) /\ Len(a) \in Nat
      /\ DOMAIN a = 1..Len(a) /\ DOMAIN b = 1..Len(a)
      /\ \A i, j \in DOMAIN a : i # j => a[i] # a[j]
      /\ \A i, j \in DOMAIN b : i # j => b[i] # b[j]
      /\ \A x \in S : \E i \in DOMAIN a : a[i] = x
      /\ \A x \in S : \E i \in DOMAIN b : b[i] = x
      /\ \A i \in DOMAIN a : a[i] \in S
      /\ \A i \in DOMAIN b : b[i] \in S
  BY <1>1, Arranged, LenProperties
<1> DEFINE differ == {i \in 1..Len(a) : a[i] # b[i]}
<1>3. ASSUME differ # {} PROVE FALSE
  <2>1. differ \subseteq Nat
    OBVIOUS
  <2>2. PICK i \in differ : \A k \in differ : i <= k
    BY <1>3, <2>1, LeastNumber
  <2>3. i \in 1..Len(a) /\ a[i] # b[i] /\ \A k \in 1..Len(a) : k < i => a[k] = b[k]
    BY <2>2
  <2>4. PICK j \in 1..Len(a) : b[j] = a[i]
    BY <1>2, <2>3
  <2>5. PICK l \in 1..Len(a) : a[l] = b[i]
    BY <1>2, <2>3
  <2>6. i < j
    <3>1. i # j
      BY <2>3, <2>4
    <3>2. ~(j < i)
      <4>1. ASSUME j < i PROVE FALSE
        <5>1. a[j] = a[i] /\ j # i
          BY <2>3, <2>4, <4>1
        <5>2. QED
          BY <1>2, <2>3, <5>1
      <4>2. QED
        BY <4>1
    <3>3. QED
      BY <2>3, <3>1, <3>2
  <2>7. i < l
    <3>1. i # l
      BY <2>3, <2>5
    <3>2. ~(l < i)
      <4>1. ASSUME l < i PROVE FALSE
        <5>1. b[l] = b[i] /\ l # i
          BY <2>3, <2>5, <4>1
        <5>2. QED
          BY <1>2, <2>3, <5>1
      <4>2. QED
        BY <4>1
    <3>3. QED
      BY <2>3, <3>1, <3>2
  <2>8. ~SortsBefore(f, b[i], a[i])
    BY <1>2, <2>3, <2>5, <2>7 DEF InOrder
  <2>9. ~SortsBefore(f, a[i], b[i])
    BY <1>2, <2>3, <2>4, <2>6 DEF InOrder
  <2>10. a[i] \in Eligible(f) /\ b[i] \in Eligible(f) /\ a[i] # b[i]
    BY <1>2, <2>3
  <2>11. QED
    BY <2>8, <2>9, <2>10, OrderIsTotal
<1>4. QED
  BY <1>2, <1>3, SeqEqual

\* When no two rows tie at a cap, the query has one result.
LEMMA OneResult ==
    ASSUME TypeOK, NEW f \in Walks, CapDecides(f), NEW a \in Results(f), NEW b \in Results(f)
    PROVE  a = b
<1>1. PICK s \in Kept(f) : s \subseteq Eligible(f) /\ a \in SetToSeqs(s) /\ InOrder(f, a)
  BY ResultsAreKept DEF InOrder
<1>2. PICK t \in Kept(f) : t \subseteq Eligible(f) /\ b \in SetToSeqs(t) /\ InOrder(f, b)
  BY ResultsAreKept DEF InOrder
<1>3. IsFiniteSet(Kept(f))
  <2>1. Eligible(f) \subseteq Job
    BY DEF Eligible
  <2>2. IsFiniteSet(SUBSET Eligible(f))
    BY <2>1, SomeJobs, FS_SUBSET
  <2>3. Kept(f) \subseteq SUBSET Eligible(f)
    BY DEF Kept, TopOfEachEmployer
  <2>4. QED
    BY <2>2, <2>3, FS_Subset
<1>4. s = t
  <2>1. PICK x : Kept(f) = {x}
    BY <1>3, FS_Singleton DEF CapDecides
  <2>2. QED
    BY <1>1, <1>2, <2>1
<1>5. QED
  BY <1>1, <1>2, <1>4, OneOrder

-----------------------------------------------------------------------------
(* The pages of a walk.                                                    *)

Offers == {Listing[j].employer : j \in {k \in Job : InQueue(k)}}

\* What the walk has shown is the result up to the end of the page.
ShownSoFar(rows) ==
    LET next == walk.offset + PageSize
    IN  /\ shown = SubSeq(rows, 1, IF next < Len(rows) THEN next ELSE Len(rows))
        /\ walk.more <=> Len(rows) > next

Walking ==
    /\ walk = Idle => calm /\ shown = <<>>
    /\ calm /\ walk.at = "page" => walk.offered = Offers
    /\ \A f \in Walks : calm /\ walk # Idle /\ walk.filters = f /\ CapDecides(f) =>
           \E rows \in Results(f) : ShownSoFar(rows)

\* A page goes on where the one before ended.
LEMMA PagesAdjoin ==
    ASSUME NEW rows \in Seq(Job), NEW offset \in Nat, offset <= Len(rows)
    PROVE  /\ SubSeq(rows, 1, offset) \o Slice(rows, offset, PageSize)
                = SubSeq(rows, 1, IF offset + PageSize < Len(rows) THEN offset + PageSize ELSE Len(rows))
           /\ Len(Slice(rows, offset, PageSize + 1)) > PageSize <=> Len(rows) > offset + PageSize
<1> DEFINE last == IF offset + PageSize < Len(rows) THEN offset + PageSize ELSE Len(rows)
           beyond == IF offset + (PageSize + 1) < Len(rows) THEN offset + (PageSize + 1) ELSE Len(rows)
<1>1. Len(rows) \in Nat /\ PageSize \in Nat /\ PageSize > 0
  BY LenProperties, QueueAssumption
<1>2. /\ 1 \in 1..(Len(rows) + 1) /\ offset \in (1 - 1)..Len(rows) /\ last \in offset..Len(rows)
  BY <1>1
<1>3. SubSeq(rows, 1, offset) \o SubSeq(rows, offset + 1, last) = SubSeq(rows, 1, last)
  BY <1>2, ConcatAdjacentSubSeq
<1>4. Len(SubSeq(rows, offset + 1, beyond)) > PageSize <=> Len(rows) > offset + PageSize
  <2>1. beyond \in Int /\ offset + 1 \in Int
    BY <1>1
  <2>2. \A i \in (offset + 1)..beyond : rows[i] \in Job
    <3>1. \A i \in (offset + 1)..beyond : i \in 1..Len(rows)
      BY <1>1
    <3>2. QED
      BY <3>1, ElementOfSeq
  <2>3. beyond - (offset + 1) + 1 = beyond - offset
    BY <2>1
  <2> HIDE DEF beyond
  <2>4. Len(SubSeq(rows, offset + 1, beyond))
          = IF offset + 1 <= beyond THEN beyond - (offset + 1) + 1 ELSE 0
    BY <2>1, <2>2, SubSeqProperties
  <2>5. (IF offset + 1 <= beyond THEN beyond - (offset + 1) + 1 ELSE 0) > PageSize
          <=> Len(rows) > offset + PageSize
    BY <1>1, <2>1, <2>3 DEF beyond
  <2>6. QED
    BY <2>4, <2>5
<1>5. QED
  BY <1>3, <1>4 DEF Slice

LEMMA InitWalking == Init => Walking
BY DEF Init, Walking, Idle

\* What the page is read from does not change under it.
LEMMA StillTheSame ==
    ASSUME UNCHANGED <<tables, now>>, NEW f
    PROVE  /\ Results(f)' = Results(f)
           /\ CapDecides(f)' <=> CapDecides(f)
           /\ Offers' = Offers
<1>1. UNCHANGED <<score, judged, filtered, verdict, app, now>>
  BY DEF tables
<1>2. \A j : /\ InQueue(j)' <=> InQueue(j)
             /\ Fits(f, j)' <=> Fits(f, j)
  BY <1>1 DEF InQueue, Fits, Status
<1>3. Eligible(f)' = Eligible(f)
  BY <1>2 DEF Eligible
<1>4. Kept(f)' = Kept(f)
  BY <1>1, <1>3 DEF Kept, TopOfEachEmployer
<1>5. \A i, j : SortsBefore(f, i, j)' <=> SortsBefore(f, i, j)
  BY <1>1 DEF SortsBefore, SortKey
<1>6. Results(f)' = Results(f)
  BY <1>4, <1>5 DEF Results
<1>7. Offers' = Offers
  BY <1>2 DEF Offers
<1>8. QED
  BY <1>4, <1>6, <1>7 DEF CapDecides

\* A page read while nothing changes: it begins where the walk is.
LEMMA ReadPageWalks ==
    ASSUME TypeOK, NEW f \in Walks, NEW offset \in Nat, ReadPage(f, offset),
           calm /\ CapDecides(f) => \A rows \in Results(f) :
               offset <= Len(rows) /\ shown = SubSeq(rows, 1, offset)
    PROVE  Walking'
<1>1. PICK rows \in Results(f) :
         /\ walk' = [at |-> "listed", filters |-> f, offset |-> offset, offered |-> {},
                     more |-> Len(Slice(rows, offset, PageSize + 1)) > PageSize]
         /\ shown' = IF calm THEN shown \o Slice(rows, offset, PageSize) ELSE <<>>
  BY DEF ReadPage
<1>2. UNCHANGED <<tables, now, calm>>
  BY DEF ReadPage
<1>3. /\ walk'.at = "listed" /\ walk'.filters = f /\ walk'.offset = offset
      /\ walk'.more = (Len(Slice(rows, offset, PageSize + 1)) > PageSize)
  BY <1>1
<1>4. walk' # Idle
  BY <1>3 DEF Idle
<1>5. ASSUME calm, CapDecides(f)
      PROVE  \E r \in Results(f)' : ShownSoFar(r)'
  <2>1. rows \in Seq(Job) /\ offset <= Len(rows) /\ shown = SubSeq(rows, 1, offset)
    BY <1>5, ResultsTyped
  <2>2. /\ shown' = SubSeq(rows, 1, IF offset + PageSize < Len(rows) THEN offset + PageSize
                                    ELSE Len(rows))
        /\ walk'.more <=> Len(rows) > offset + PageSize
    BY <1>1, <1>3, <1>5, <2>1, PagesAdjoin
  <2>3. ShownSoFar(rows)'
    BY <1>3, <2>2 DEF ShownSoFar
  <2>4. rows \in Results(f)'
    BY <1>2, StillTheSame
  <2>5. QED
    BY <2>3, <2>4
<1>6. ASSUME NEW g \in Walks, calm', walk'.filters = g, CapDecides(g)'
      PROVE  \E r \in Results(g)' : ShownSoFar(r)'
  <2>1. g = f /\ calm /\ CapDecides(f)
    BY <1>2, <1>3, <1>6, StillTheSame
  <2>2. QED
    BY <1>5, <2>1
<1>7. QED
  BY <1>3, <1>4, <1>6 DEF Walking

\* A step that disturbs the walk, or happens while nobody walks.
LEMMA ChangesEndWalks ==
    ASSUME Walking, calm' = (walk = Idle), walk' = walk, shown' = <<>>
    PROVE  Walking'
<1>1. CASE walk = Idle
  BY <1>1 DEF Walking, Idle
<1>2. CASE walk # Idle
  BY <1>2 DEF Walking
<1>3. QED
  BY <1>1, <1>2

LEMMA StepWalks == ASSUME TypeOK, Walking, [Next]_vars PROVE Walking'
<1>1. ASSUME NEW f \in Walks, Open(f) PROVE Walking'
  <2>1. walk = Idle /\ calm /\ shown = <<>> /\ ReadPage(f, 0)
    BY <1>1 DEF Open, Walking
  <2>2. ASSUME NEW rows \in Results(f) PROVE 0 <= Len(rows) /\ shown = SubSeq(rows, 1, 0)
    <3>1. Len(rows) \in Nat
      BY ResultsTyped, LenProperties
    <3>2. SubSeq(rows, 1, 0) = <<>>
      BY SubSeqEmpty
    <3>3. QED
      BY <2>1, <3>1, <3>2
  <2>3. QED
    BY <2>1, <2>2, ReadPageWalks
<1>2. CASE ReadFacets
  <2>1. /\ walk.at = "listed" /\ walk' = [walk EXCEPT !.at = "page", !.offered = Offers]
        /\ UNCHANGED <<tables, now, shown, calm>>
    BY <1>2 DEF ReadFacets, Offers
  <2>2. walk \in [at : {"listed", "page"}, filters : Walks, offset : Nat, more : BOOLEAN,
                  offered : SUBSET Employer]
    BY <2>1 DEF TypeOK, Walk, Idle
  <2>3. /\ walk'.at = "page" /\ walk'.offered = Offers /\ walk'.filters = walk.filters
        /\ walk'.offset = walk.offset /\ walk'.more = walk.more
    BY <2>1, <2>2
  <2>4. walk # Idle /\ walk' # Idle
    <3>1. walk.at = "listed" /\ walk'.at = "page"
      BY <2>1, <2>3
    <3>2. Idle.at = "idle"
      BY DEF Idle
    <3>3. QED
      BY <3>1, <3>2
  <2>5. ASSUME NEW f \in Walks, calm', walk'.filters = f, CapDecides(f)'
        PROVE  \E rows \in Results(f)' : ShownSoFar(rows)'
    <3>1. calm /\ walk.filters = f /\ CapDecides(f) /\ Results(f)' = Results(f)
      BY <2>1, <2>3, <2>5, StillTheSame
    <3>2. PICK rows \in Results(f) : ShownSoFar(rows)
      BY <2>4, <3>1 DEF Walking
    <3>3. ShownSoFar(rows)'
      BY <2>1, <2>3, <3>2 DEF ShownSoFar
    <3>4. QED
      BY <3>1, <3>2, <3>3
  <2>6. Offers' = Offers
    BY <2>1, StillTheSame
  <2>7. QED
    BY <2>3, <2>4, <2>5, <2>6 DEF Walking
<1>3. CASE NextPage
  <2>1. PICK f \in Walks, offset \in Nat : walk.filters = f /\ walk.offset = offset
    BY <1>3 DEF NextPage, TypeOK, Walk, Idle
  <2>2. /\ walk.more /\ walk # Idle /\ PageSize \in Nat /\ offset + PageSize \in Nat
        /\ ReadPage(f, offset + PageSize)
    BY <1>3, <2>1, QueueAssumption DEF NextPage, Idle
  <2>3. ASSUME calm, CapDecides(f), NEW rows \in Results(f)
        PROVE  offset + PageSize <= Len(rows) /\ shown = SubSeq(rows, 1, offset + PageSize)
    <3>1. PICK r \in Results(f) : ShownSoFar(r)
      BY <2>1, <2>2, <2>3 DEF Walking
    <3>2. r = rows
      BY <2>3, OneResult
    <3>3. Len(rows) \in Nat
      BY ResultsTyped, LenProperties
    <3>4. /\ Len(rows) > offset + PageSize
          /\ shown = SubSeq(rows, 1, IF offset + PageSize < Len(rows) THEN offset + PageSize
                                     ELSE Len(rows))
      BY <2>1, <2>2, <3>1, <3>2 DEF ShownSoFar
    <3>5. QED
      BY <2>2, <3>3, <3>4
  <2>4. QED
    BY <2>2, <2>3, ReadPageWalks
<1>4. CASE Close
  BY <1>4 DEF Close, Walking, Idle
<1>5. CASE Change
  BY <1>5, ChangesEndWalks DEF Change
<1>6. CASE Tick
  BY <1>6, ChangesEndWalks DEF Tick
<1>7. CASE UNCHANGED vars
  <2>1. UNCHANGED <<tables, now, walk, calm, shown>>
    BY <1>7 DEF vars, tables
  <2>2. ASSUME NEW f \in Walks, calm, walk # Idle, walk.filters = f, CapDecides(f)'
        PROVE  \E rows \in Results(f)' : ShownSoFar(rows)'
    <3>1. CapDecides(f) /\ Results(f)' = Results(f)
      BY <2>1, <2>2, StillTheSame
    <3>2. PICK rows \in Results(f) : ShownSoFar(rows)
      BY <2>2, <3>1 DEF Walking
    <3>3. ShownSoFar(rows)'
      BY <2>1, <3>2 DEF ShownSoFar
    <3>4. QED
      BY <3>1, <3>2, <3>3
  <2>3. Offers' = Offers
    BY <2>1, StillTheSame
  <2>4. QED
    BY <2>1, <2>2, <2>3 DEF Walking
<1>8. QED
  BY <1>1, <1>2, <1>3, <1>4, <1>5, <1>6, <1>7 DEF Next, Score, Judge, Filter, Rule, SetStatus

\* What a walk has shown, when one result is all there can be.
LEMMA WalkIsRight == ASSUME TypeOK, Walking PROVE WalkShowsTheQueue
<1> SUFFICES ASSUME walk # Idle, calm, CapDecides(walk.filters) PROVE
        LET f == walk.filters
        IN  /\ ToSet(shown) \subseteq Eligible(f)
            /\ \A m, n \in DOMAIN shown : m < n => SortsBefore(f, shown[m], shown[n])
            /\ walk.at = "page" => {Listing[j].employer : j \in ToSet(shown)} \subseteq walk.offered
            /\ ~walk.more => \A j \in Eligible(f) \ ToSet(shown) :
                   Cardinality({i \in OfEmployer(ToSet(shown), Listing[j].employer) :
                                   score[i] >= score[j]}) >= f.cap
  BY DEF WalkShowsTheQueue
<1> DEFINE f == walk.filters
<1>1. f \in Walks /\ walk.offset \in Nat /\ walk.offset + PageSize \in Nat
  BY QueueAssumption DEF TypeOK, Walk
<1>2. PICK rows \in Results(f) : ShownSoFar(rows)
  BY <1>1 DEF Walking
<1>3. PICK kept \in Kept(f) :
         kept \subseteq Eligible(f) /\ rows \in SetToSeqs(kept) /\ InOrder(f, rows)
  BY ResultsAreKept DEF InOrder
<1> HIDE DEF f
<1>4. kept \subseteq Job
  BY <1>3 DEF Eligible
<1>5. /\ rows \in Seq(Job) /\ DOMAIN rows = 1..Len(rows) /\ Len(rows) \in Nat
      /\ \A i, j \in DOMAIN rows : i # j => rows[i] # rows[j]
      /\ \A x \in kept : \E i \in DOMAIN rows : rows[i] = x
      /\ \A i \in DOMAIN rows : rows[i] \in kept
  BY <1>3, <1>4, Arranged, LenProperties
<1> DEFINE next == walk.offset + PageSize
           last == IF next < Len(rows) THEN next ELSE Len(rows)
<1>6. /\ last \in 0..Len(rows) /\ shown = SubSeq(rows, 1, last)
      /\ ~walk.more => last = Len(rows)
  BY <1>1, <1>2, <1>5 DEF ShownSoFar
<1> HIDE DEF last
<1>7. DOMAIN shown = 1..last /\ \A i \in 1..last : shown[i] = rows[i] /\ i \in DOMAIN rows
  <2>1. last \in Int /\ \A i \in 1..last : rows[i] \in Job /\ i \in DOMAIN rows
    <3>1. last \in 0..Len(rows) /\ Len(rows) \in Nat
      BY <1>5, <1>6
    <3>2. last \in Int /\ \A i \in 1..last : i \in 1..Len(rows)
      BY ONLY <3>1
    <3>3. QED
      BY <1>4, <1>5, <3>2
  <2>2. /\ Len(SubSeq(rows, 1, last)) = last
        /\ \A i \in 1..last : SubSeq(rows, 1, last)[i] = rows[i]
    <3>1. /\ Len(SubSeq(rows, 1, last)) = IF 1 <= last THEN last - 1 + 1 ELSE 0
          /\ \A i \in 1..(last - 1 + 1) : SubSeq(rows, 1, last)[i] = rows[1 + i - 1]
      BY <2>1, SubSeqProperties
    <3>2. last \in Nat /\ last - 1 + 1 = last /\ \A i \in 1..last : 1 + i - 1 = i
      BY <1>6
    <3>3. QED
      BY <3>1, <3>2
  <2>3. DOMAIN shown = 1..Len(shown)
    BY LenProperties DEF TypeOK
  <2>4. QED
    BY <1>6, <2>1, <2>2, <2>3
<1>8. ToSet(shown) \subseteq kept
  BY <1>5, <1>7 DEF ToSet
<1>9. ToSet(shown) \subseteq Eligible(f)
  BY <1>3, <1>8
<1>10. ASSUME NEW m \in DOMAIN shown, NEW n \in DOMAIN shown, m < n
       PROVE  SortsBefore(f, shown[m], shown[n])
  <2>1. m \in DOMAIN rows /\ n \in DOMAIN rows /\ m # n
        /\ shown[m] = rows[m] /\ shown[n] = rows[n]
    BY <1>7, <1>10
  <2>2. rows[m] # rows[n] /\ rows[m] \in Eligible(f) /\ rows[n] \in Eligible(f)
    BY <1>3, <1>5, <2>1
  <2>3. ~SortsBefore(f, rows[n], rows[m])
    BY <1>3, <1>10, <2>1 DEF InOrder
  <2>4. QED
    BY <1>1, <2>1, <2>2, <2>3, OrderIsTotal
<1>11. walk.at = "page" => {Listing[j].employer : j \in ToSet(shown)} \subseteq walk.offered
  <2>1. \A j \in ToSet(shown) : j \in Job /\ InQueue(j)
    BY <1>9 DEF Eligible
  <2>2. {Listing[j].employer : j \in ToSet(shown)} \subseteq Offers
    BY <2>1 DEF Offers
  <2>3. QED
    BY <2>2 DEF Walking
<1>12. ASSUME ~walk.more, NEW j \in Eligible(f) \ ToSet(shown)
       PROVE  Cardinality({i \in OfEmployer(ToSet(shown), Listing[j].employer) :
                              score[i] >= score[j]}) >= f.cap
  <2>1. ToSet(shown) = kept
    BY <1>5, <1>6, <1>7, <1>8, <1>12 DEF ToSet
  <2> DEFINE e == Listing[j].employer
             of == OfEmployer(Eligible(f), e)
             in == OfEmployer(kept, e)
  <2>2. j \in Job /\ e \in Employer
    BY QueueAssumption DEF Eligible, ListingRow
  <2>3. /\ Cardinality(in) = IF Cardinality(of) < f.cap THEN Cardinality(of) ELSE f.cap
        /\ \A k \in in, l \in of \ in : score[k] >= score[l]
    BY <1>3, <2>2 DEF Kept, TopOfEachEmployer
  <2>4. in \subseteq of /\ of \subseteq Job /\ j \in of /\ j \notin in
    BY <1>3, <1>12, <2>1 DEF OfEmployer, Eligible
  <2>5. {i \in in : score[i] >= score[j]} = in
    BY <2>3, <2>4
  <2> HIDE DEF in, of, e
  <2>6. Cardinality(in) # Cardinality(of)
    <3>1. IsFiniteSet(of)
      BY <2>4, SomeJobs
    <3>2. Cardinality(in) = Cardinality(of) => of = in
      BY <2>4, <3>1, FS_Subset
    <3>3. QED
      BY <2>4, <3>2
  <2>7. f.cap \in Nat
    BY <1>1, QueueAssumption DEF QueueFilters
  <2>8. Cardinality(in) >= f.cap
    BY <2>3, <2>6, <2>7
  <2>9. QED
    BY <2>1, <2>5, <2>8 DEF in, e
<1>13. QED
  BY <1>9, <1>10, <1>11, <1>12 DEF f

\* While nothing changes, and no rows tie at a cap, the pages of a walk show
\* jobs of the queue that fit its filters, each once and in its order, and at
\* its end leave out only jobs whose employer filled its cap with as good ones
\* (store.py:486, 563).
THEOREM WalksShowTheQueue == Spec => []WalkShowsTheQueue
<1>1. TypeOK /\ Walking => WalkShowsTheQueue
  BY WalkIsRight
<1>2. TypeOK /\ Walking /\ [Next]_vars => TypeOK' /\ Walking'
  BY StepTyped, StepWalks
<1>3. QED
  BY <1>1, <1>2, InitTyped, InitWalking, PTL DEF Spec
=============================================================================

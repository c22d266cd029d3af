------------------------- MODULE DiscoverRun_proofs -------------------------
(***************************************************************************)
(* What holds of one discovery run for every number of sources, boards and *)
(* jobs, every queue size and every table it may find.                     *)
(***************************************************************************)
EXTENDS DiscoverRun, SequenceTheorems, TLAPS

-----------------------------------------------------------------------------
(* Sequences and their elements.                                           *)

LEMMA ElementsOfTail ==
    ASSUME NEW S, NEW seq \in Seq(S), seq # <<>>
    PROVE  /\ Elements(seq) = {Head(seq)} \cup Elements(Tail(seq))
           /\ Tail(seq) \in Seq(S)
           /\ Head(seq) \in S
<1>1. /\ Head(seq) \in S /\ Tail(seq) \in Seq(S) /\ Len(Tail(seq)) = Len(seq) - 1
      /\ \A i \in 1 .. Len(Tail(seq)) : Tail(seq)[i] = seq[i + 1]
  BY HeadTailProperties
<1>2. Len(seq) \in Nat /\ Len(seq) > 0 /\ DOMAIN seq = 1 .. Len(seq)
      /\ DOMAIN Tail(seq) = 1 .. Len(Tail(seq)) /\ Head(seq) = seq[1]
  BY <1>1, EmptySeq, LenProperties
<1>3. ASSUME NEW x \in Elements(seq)
      PROVE  x \in {Head(seq)} \cup Elements(Tail(seq))
  <2>1. PICK i \in 1 .. Len(seq) : seq[i] = x
    BY <1>2, <1>3 DEF Elements
  <2>2. CASE i = 1
    BY <1>2, <2>1, <2>2
  <2>3. CASE i # 1
    <3>1. i - 1 \in 1 .. Len(Tail(seq)) /\ (i - 1) + 1 = i
      BY <1>1, <1>2, <2>1, <2>3
    <3>2. Tail(seq)[i - 1] = x
      BY <1>1, <2>1, <3>1
    <3>3. QED
      BY <1>2, <3>1, <3>2 DEF Elements
  <2>4. QED
    BY <2>2, <2>3
<1>4. ASSUME NEW x \in Elements(Tail(seq))
      PROVE  x \in Elements(seq)
  <2>1. PICK i \in 1 .. Len(Tail(seq)) : Tail(seq)[i] = x
    BY <1>2, <1>4 DEF Elements
  <2>2. i + 1 \in 1 .. Len(seq) /\ seq[i + 1] = x
    BY <1>1, <1>2, <2>1
  <2>3. QED
    BY <1>2, <2>2 DEF Elements
<1>5. Head(seq) \in Elements(seq)
  BY <1>2 DEF Elements
<1>6. QED
  BY <1>1, <1>3, <1>4, <1>5

LEMMA ElementsOfAppend ==
    ASSUME NEW S, NEW seq \in Seq(S), NEW e \in S
    PROVE  /\ Elements(Append(seq, e)) = Elements(seq) \cup {e}
           /\ Append(seq, e) \in Seq(S)
           /\ Len(Append(seq, e)) = Len(seq) + 1
<1>1. /\ Append(seq, e) \in Seq(S) /\ Len(Append(seq, e)) = Len(seq) + 1
      /\ \A i \in 1 .. Len(seq) : Append(seq, e)[i] = seq[i]
      /\ Append(seq, e)[Len(seq) + 1] = e
  BY AppendProperties
<1>2. Len(seq) \in Nat /\ DOMAIN seq = 1 .. Len(seq)
      /\ DOMAIN Append(seq, e) = 1 .. (Len(seq) + 1)
  BY <1>1, LenProperties
<1>3. QED
  BY <1>1, <1>2 DEF Elements

LEMMA ElementsOfEmpty == Elements(<<>>) = {}
BY DEF Elements

LEMMA ElementsIn ==
    ASSUME NEW S, NEW seq \in Seq(S)
    PROVE  Elements(seq) \subseteq S
BY LenProperties DEF Elements

LEMMA InjectiveTail ==
    ASSUME NEW S, NEW seq \in Seq(S), seq # <<>>, IsInjective(seq)
    PROVE  /\ IsInjective(Tail(seq))
           /\ Elements(Tail(seq)) = Elements(seq) \ {Head(seq)}
<1>1. /\ Tail(seq) \in Seq(S) /\ Len(Tail(seq)) = Len(seq) - 1
      /\ \A i \in 1 .. Len(Tail(seq)) : Tail(seq)[i] = seq[i + 1]
  BY HeadTailProperties
<1>2. Len(seq) \in Nat /\ Len(seq) > 0 /\ DOMAIN seq = 1 .. Len(seq)
      /\ DOMAIN Tail(seq) = 1 .. Len(Tail(seq)) /\ Head(seq) = seq[1]
  BY <1>1, EmptySeq, LenProperties
<1>3. \A i \in DOMAIN Tail(seq) :
        i + 1 \in DOMAIN seq /\ i \in Nat /\ i + 1 # 1 /\ 1 \in DOMAIN seq
        /\ Tail(seq)[i] = seq[i + 1]
  BY <1>1, <1>2
<1>4. IsInjective(Tail(seq))
  <2> SUFFICES ASSUME NEW i \in DOMAIN Tail(seq), NEW j \in DOMAIN Tail(seq),
                      Tail(seq)[i] = Tail(seq)[j]
               PROVE  i = j
    BY DEF IsInjective
  <2>1. i + 1 = j + 1
    BY <1>3 DEF IsInjective
  <2>2. QED
    BY <1>3, <2>1
<1>5. Head(seq) \notin Elements(Tail(seq))
  BY <1>2, <1>3 DEF Elements, IsInjective
<1>6. QED
  BY <1>4, <1>5, ElementsOfTail

LEMMA InjectiveAppend ==
    ASSUME NEW S, NEW seq \in Seq(S), NEW e \in S, IsInjective(seq), e \notin Elements(seq)
    PROVE  IsInjective(Append(seq, e))
<1>1. /\ Append(seq, e) \in Seq(S) /\ Len(Append(seq, e)) = Len(seq) + 1
      /\ \A i \in 1 .. Len(seq) : Append(seq, e)[i] = seq[i]
      /\ Append(seq, e)[Len(seq) + 1] = e
  BY AppendProperties
<1>2. Len(seq) \in Nat /\ DOMAIN seq = 1 .. Len(seq)
      /\ DOMAIN Append(seq, e) = 1 .. (Len(seq) + 1)
  BY <1>1, LenProperties
<1>3. \A i \in 1 .. Len(seq) : seq[i] \in Elements(seq)
  BY <1>2 DEF Elements
<1>4. QED
  BY <1>1, <1>2, <1>3 DEF IsInjective

-----------------------------------------------------------------------------
(* Type correctness.                                                       *)

\* Where a producer stands tells what it has left.
Positions ==
    \A s \in Source :
        /\ prod[s] = "sent" => boards[s] # <<>>
        /\ prod[s] = "put" => rest[s] # <<>>
        /\ prod[s] \in {"next", "sent", "ended"} => rest[s] = <<>>

LEMMA ProduceKeepsType ==
    ASSUME TypeOK, Positions, NEW s \in Source, Produce(s)
    PROVE  TypeOK'
<1> USE DEF TypeOK, ProducerState, ConsumerState, Goto, FlagBudget, db, fates
<1> DEFINE b == Head(boards[s])
<1>1. boards[s] # <<>> => b \in Board /\ Tail(boards[s]) \in Seq(Board)
  BY ElementsOfTail
<1>2. rest[s] # <<>> => Head(rest[s]) \in Item /\ Tail(rest[s]) \in Seq(Item)
                        /\ Elements(rest[s]) \subseteq Item
  BY ElementsOfTail DEF Elements
<1> DEFINE FeedType ==
      /\ prod' \in [Source -> ProducerState]
      /\ boards' \in [Source -> Seq(Board)]
      /\ rest' \in [Source -> Seq(Item)]
      /\ boardErrors' \in SUBSET Source
      /\ errors' \in SUBSET Source
      /\ refused' = refused
      /\ read' \in SUBSET Board
      /\ unchanged' \in SUBSET Board
      /\ skipped' \in SUBSET Board
<1>a. ASSUME BoardFails(s), boards[s] # <<>> PROVE FeedType
  BY <1>1, <1>a DEF BoardFails, PassBoard
<1>3. CASE Request(s)
  <2>1. FeedType
    <3>1. CASE txn = "aborted"
      BY <1>3, <1>a, <3>1 DEF Request
    <3>2. CASE txn # "aborted"
      BY <1>3, <3>2 DEF Request
    <3>3. QED
      BY <3>1, <3>2
  <2> HIDE DEF FeedType
  <2>2. UNCHANGED <<queue, cons, hand, db, fates, expired, budgetHit, phase>>
    BY <1>3 DEF Request
  <2>3. QED
    BY <2>1, <2>2 DEF FeedType
<1>4. CASE NotModified(s)
  BY <1>1, <1>4 DEF NotModified, PassBoard, Positions
<1>5. CASE Refused(s)
  BY <1>5 DEF Refused
<1>6. CASE RequestFails(s)
  BY <1>1, <1>6 DEF RequestFails, BoardFails, PassBoard, Positions
<1>7. CASE Answered(s) \/ NotJson(s) \/ PassedOver(s) \/ NoBoard(s)
  <2>0. Received(s)
    BY <1>7 DEF Answered, NotJson, PassedOver, NoBoard
  <2> b \in Board /\ boards[s] # <<>> /\ ItemsOf[b] \in Seq(Item)
    BY <1>1, <2>0, FeedAssumption DEF Received, Positions
  <2>1. FeedType
    <3>1. CASE Answered(s)
      BY <1>1, <3>1 DEF Answered
    <3>2. CASE NotJson(s)
      BY <1>a, <3>2 DEF NotJson
    <3>3. CASE PassedOver(s)
      BY <1>1, <3>3 DEF PassedOver, PassBoard
    <3>4. CASE NoBoard(s)
      BY <3>4 DEF NoBoard, SourceFails
    <3>5. QED
      BY <1>7, <3>1, <3>2, <3>3, <3>4
  <2> HIDE DEF FeedType
  <2>2. cached' \in SUBSET Board /\ guarded' \in SUBSET Board
    BY <2>0 DEF Received, StoreValidators
  <2>3. UNCHANGED <<queue, cons, hand, txn, jobs, poisoned, fates, expired, budgetHit, phase>>
    BY <1>7, <2>0 DEF Received, Answered, NotJson, PassedOver, NoBoard
  <2>4. QED
    BY <2>1, <2>2, <2>3 DEF FeedType
<1>8. CASE BoardDone(s) \/ LastPage(s)
  <2>1. CASE BoardDone(s)
    BY <2>1 DEF BoardDone
  <2>2. CASE LastPage(s)
    BY <2>2 DEF LastPage
  <2>3. QED
    BY <1>8, <2>1, <2>2
<1>9. CASE Malformed(s)
  BY <1>2, <1>9 DEF Malformed, SourceFails
<1>10. CASE StopOnBudget(s)
  BY <1>2, <1>10 DEF StopOnBudget
<1>11. CASE Offer(s)
  BY <1>11 DEF Offer
<1>12. CASE Put(s)
  BY <1>2, <1>12, SizeAssumption, ElementsOfAppend DEF Put, Room, Positions
<1>13. CASE SourceDone(s)
  BY <1>13 DEF SourceDone
<1>14. QED
  BY <1>3, <1>4, <1>5, <1>6, <1>7, <1>8, <1>9, <1>10, <1>11, <1>12, <1>13 DEF Produce

LEMMA ProduceKeepsPositions ==
    ASSUME TypeOK, Positions, NEW s \in Source, Produce(s)
    PROVE  Positions'
<1> USE DEF TypeOK, Positions, ProducerState, Goto
<1>1. CASE Request(s)
  BY <1>1 DEF Request, BoardFails, PassBoard
<1>2. CASE NotModified(s)
  BY <1>2 DEF NotModified, PassBoard
<1>3. CASE Refused(s)
  BY <1>3 DEF Refused
<1>4. CASE RequestFails(s)
  BY <1>4 DEF RequestFails, BoardFails, PassBoard
<1>5. CASE Answered(s) \/ NotJson(s) \/ PassedOver(s) \/ NoBoard(s)
  <2>1. prod[s] = "sent"
    BY <1>5 DEF Answered, NotJson, PassedOver, NoBoard, Received
  <2>2. QED
    BY <1>5, <2>1 DEF Answered, NotJson, PassedOver, NoBoard, SourceFails, BoardFails, PassBoard
<1>6. CASE BoardDone(s) \/ LastPage(s)
  BY <1>6 DEF BoardDone, LastPage
<1>7. CASE Malformed(s)
  BY <1>7 DEF Malformed, SourceFails
<1>8. CASE StopOnBudget(s)
  BY <1>8 DEF StopOnBudget
<1>9. CASE Offer(s)
  BY <1>9 DEF Offer
<1>10. CASE Put(s)
  BY <1>10 DEF Put
<1>11. CASE SourceDone(s)
  BY <1>11 DEF SourceDone
<1>12. QED
  BY <1>1, <1>2, <1>3, <1>4, <1>5, <1>6, <1>7, <1>8, <1>9, <1>10, <1>11 DEF Produce

\* Between the sentinel and the end: who can still hold a job.
Flow ==
    /\ cons \notin {"get", "returned"} => hand \in Item
    /\ phase # "fetching" => \A s \in Source : prod[s] = "ended"
    /\ phase = "fetching" => Done \notin Elements(queue) /\ cons # "returned"
    /\ \A i \in 1 .. Len(queue) : queue[i] = Done => i = Len(queue)
    /\ cons = "returned" => queue = <<>>
    /\ phase \in {"committed", "raised"} => cons = "returned"

\* The connection's state at each place of the consumer.
TxnState ==
    /\ cons \in {"insert", "release"} => txn = "savepoint"
    /\ cons = "undo" => txn # "ok"
    /\ cons = "rollback" => txn = "aborted"
    /\ cons \in {"savepoint", "resolve"} => txn = "ok"
    /\ cons \in {"get", "company", "returned"} => txn = "ok" \/ (txn = "aborted" /\ poisoned)
    /\ phase = "raised" => poisoned

LEMMA UpsertType ==
    ASSUME NEW tbl \in Table, NEW p \in Posting, ~Collides(tbl, p)
    PROVE  Upsert(tbl, p, 1) \in Table
<1>1. (IF tbl[p.fp] = NoRow THEN 1 ELSE tbl[p.fp].first) \in Nat
  BY NoRowAssumption DEF Table, Row, Posting
<1>2. [sid |-> p.sid, verdict |-> p.verdict,
       first |-> IF tbl[p.fp] = NoRow THEN 1 ELSE tbl[p.fp].first, last |-> 1] \in Row
  BY <1>1 DEF Row, Posting
<1>3. QED
  BY <1>2 DEF Upsert, Table, Posting

LEMMA ResolveType ==
    ASSUME NEW tbl \in Table, NEW p \in Posting, tbl[p.fp] # NoRow
    PROVE  Resolve(tbl, p, 1) \in Table
<1>1. tbl[p.fp] \in Row
  BY DEF Table, Posting
<1>2. QED
  BY <1>1 DEF Resolve, Table, Row, Posting

LEMMA ConsumeKeepsType ==
    ASSUME TypeOK, Flow, Consume
    PROVE  TypeOK'
<1> USE DEF TypeOK, ConsumerState, feed, db, fates, CountFailure, CountStored, FlagBudget
<1>1. queue # <<>> => /\ Head(queue) \in Item \cup {Done}
                      /\ Tail(queue) \in Seq(Item \cup {Done})
                      /\ Len(Tail(queue)) <= QueueSize
  BY HeadTailProperties, LenProperties, SizeAssumption
<1>2. cons \notin {"get", "returned"} => hand \in Item /\ PostingOf[hand] \in Posting
  BY FeedAssumption DEF Flow
<1>3. CASE TakeDone
  BY <1>1, <1>3 DEF TakeDone
<1>4. CASE TakeLate
  BY <1>1, <1>4 DEF TakeLate
<1>5. CASE TakeJob
  BY <1>1, <1>5 DEF TakeJob
<1>6. CASE CompanyStored
  BY <1>6 DEF CompanyStored
<1>7. ASSUME NEW onServer \in BOOLEAN, CompanyFails(onServer) PROVE TypeOK'
  BY <1>2, <1>7 DEF CompanyFails
<1>8. ASSUME NEW onServer \in BOOLEAN, InsertFails(onServer) PROVE TypeOK'
  BY <1>8 DEF InsertFails
<1>9. CASE OpenSavepoint
  BY <1>9 DEF OpenSavepoint
<1>10. CASE InsertJob
  BY <1>2, <1>10, UpsertType DEF InsertJob
<1>11. CASE ReleaseSavepoint
  BY <1>2, <1>11 DEF ReleaseSavepoint
<1>12. CASE RollbackCollision
  BY <1>12 DEF RollbackCollision, RollbackTo
<1>13. CASE RollbackFailure
  BY <1>2, <1>13 DEF RollbackFailure, RollbackTo
<1>14. CASE ResolveJob
  BY <1>2, <1>14, ResolveType DEF ResolveJob
<1>15. ASSUME NEW onServer \in BOOLEAN, ResolveFails(onServer) PROVE TypeOK'
  BY <1>2, <1>15 DEF ResolveFails
<1>16. QED
  BY <1>3, <1>4, <1>5, <1>6, <1>7, <1>8, <1>9, <1>10, <1>11, <1>12, <1>13, <1>14, <1>15
     DEF Consume

LEMMA ConsumeKeepsTxnState ==
    ASSUME TypeOK, TxnState, Consume
    PROVE  TxnState'
<1> USE DEF TxnState, TypeOK, db, CountFailure, CountStored
<1>1. CASE TakeDone \/ TakeLate \/ TakeJob
  BY <1>1 DEF TakeDone, TakeLate, TakeJob
<1>2. CASE CompanyStored
  BY <1>2 DEF CompanyStored
<1>3. ASSUME NEW onServer \in BOOLEAN, CompanyFails(onServer) PROVE TxnState'
  BY <1>3 DEF CompanyFails
<1>4. ASSUME NEW onServer \in BOOLEAN, InsertFails(onServer) PROVE TxnState'
  BY <1>4 DEF InsertFails
<1>5. CASE OpenSavepoint \/ InsertJob \/ ReleaseSavepoint
  BY <1>5 DEF OpenSavepoint, InsertJob, ReleaseSavepoint
<1>6. CASE RollbackCollision \/ RollbackFailure
  BY <1>6 DEF RollbackCollision, RollbackFailure, RollbackTo
<1>7. CASE ResolveJob
  BY <1>7 DEF ResolveJob
<1>8. ASSUME NEW onServer \in BOOLEAN, ResolveFails(onServer) PROVE TxnState'
  BY <1>8 DEF ResolveFails
<1>9. QED
  BY <1>1, <1>2, <1>3, <1>4, <1>5, <1>6, <1>7, <1>8 DEF Consume

-----------------------------------------------------------------------------
(* The flow of jobs through the queue.                                     *)

\* A producer that can move is one that gather still waits for.
LEMMA ProducersFetch ==
    ASSUME TypeOK, Flow, NEW s \in Source, Produce(s)
    PROVE  phase = "fetching" /\ UNCHANGED <<phase, cons, hand>>
<1> USE DEF Flow, Produce, feed, db
<1>1. prod[s] # "ended" /\ UNCHANGED <<phase, cons, hand>>
  BY DEF Request, NotModified, Refused, RequestFails, Received, Answered, NotJson, PassedOver,
         NoBoard, BoardDone, LastPage, Malformed, StopOnBudget, Offer, Put, SourceDone
<1>2. QED
  BY <1>1 DEF TypeOK

LEMMA ProduceKeepsFlow ==
    ASSUME TypeOK, Positions, Flow, NEW s \in Source, Produce(s)
    PROVE  Flow'
<1>1. phase = "fetching" /\ UNCHANGED <<phase, cons, hand>>
  BY ProducersFetch
<1>2. CASE Put(s)
  <2>1. Head(rest[s]) \in Item
    BY <1>2, HeadTailProperties DEF Put, Room, TypeOK, Positions
  <2>2. /\ Elements(queue') = Elements(queue) \cup {Head(rest[s])}
        /\ queue' \in Seq(Item \cup {Done})
    <3>1. /\ queue \in Seq(Item \cup {Done}) /\ Head(rest[s]) \in Item \cup {Done}
          /\ queue' = Append(queue, Head(rest[s]))
      BY <1>2, <2>1 DEF Put, Room, TypeOK
    <3> HIDE DEF TypeOK
    <3>2. QED
      BY ONLY <3>1, ElementsOfAppend
  <2>3. Done \notin Elements(queue')
    BY <1>1, <2>1, <2>2, FeedAssumption DEF Flow
  <2>4. \A i \in 1 .. Len(queue') : queue'[i] \in Elements(queue')
    BY <2>2, LenProperties DEF Elements
  <2>5. QED
    BY <1>1, <2>3, <2>4 DEF Flow
<1>3. CASE queue' = queue
  BY <1>1, <1>3 DEF Flow
<1>4. queue' = queue \/ Put(s)
  BY DEF Produce, Request, NotModified, Refused, RequestFails, Received, Answered, NotJson,
         PassedOver, NoBoard, BoardDone, LastPage, Malformed, StopOnBudget, Offer, SourceDone
<1>5. QED
  BY <1>2, <1>3, <1>4

LEMMA ConsumeKeepsFlow ==
    ASSUME TypeOK, Flow, Consume
    PROVE  Flow'
<1>1. UNCHANGED <<prod, phase>>
  BY DEF Consume, TakeDone, TakeLate, TakeJob, CompanyStored, CompanyFails, InsertFails,
         OpenSavepoint, InsertJob, ReleaseSavepoint, RollbackCollision, RollbackFailure,
         RollbackTo, ResolveJob, ResolveFails, feed
<1>2. CASE TakeDone \/ TakeLate \/ TakeJob
  <2>1. /\ queue # <<>> /\ queue' = Tail(queue) /\ cons = "get"
        /\ cons' \in {"get", "returned", "company"}
        /\ cons' = "returned" => Head(queue) = Done
        /\ cons' = "company" => hand' = Head(queue) /\ Head(queue) # Done
    BY <1>2 DEF TakeDone, TakeLate, TakeJob
  <2>2. /\ Elements(queue) = {Head(queue)} \cup Elements(queue')
        /\ Head(queue) \in Item \cup {Done}
    BY <2>1, ElementsOfTail DEF TypeOK
  <2>3. /\ Len(queue) \in Nat \ {0} /\ Len(queue') = Len(queue) - 1
        /\ Head(queue) = queue[1]
        /\ queue' \in Seq(Item \cup {Done})
        /\ \A i \in 1 .. Len(queue') : queue'[i] = queue[i + 1]
    BY <2>1, HeadTailProperties, LenProperties, EmptySeq DEF TypeOK
  <2>4. \A i \in 1 .. Len(queue') : queue'[i] = Done => i = Len(queue')
    BY <2>3 DEF Flow
  <2>5. cons' = "returned" => queue' = <<>>
    <3>1. SUFFICES ASSUME cons' = "returned" PROVE Len(queue') = 0
      BY <2>3, EmptySeq
    <3>2. queue[1] = Done /\ 1 \in 1 .. Len(queue)
      BY <2>1, <2>3, <3>1
    <3>3. QED
      BY <2>3, <3>2 DEF Flow
  <2>6. phase = "fetching" => cons' # "returned" /\ Done \notin Elements(queue')
    BY <2>1, <2>2 DEF Flow
  <2>7. phase \notin {"committed", "raised"}
    BY <2>1 DEF Flow
  <2>8. QED
    BY <1>1, <2>1, <2>2, <2>4, <2>5, <2>6, <2>7 DEF Flow
<1>3. CASE ~(TakeDone \/ TakeLate \/ TakeJob)
  <2>1. /\ UNCHANGED <<queue, hand>>
        /\ cons \notin {"get", "returned"}
        /\ cons' # "returned"
    BY <1>3 DEF Consume, CompanyStored, CompanyFails, InsertFails, OpenSavepoint, InsertJob,
         ReleaseSavepoint, RollbackCollision, RollbackFailure, RollbackTo, ResolveJob, ResolveFails,
         CountStored, CountFailure
  <2>2. QED
    BY <1>1, <2>1 DEF Flow
<1>4. QED
  BY <1>2, <1>3

-----------------------------------------------------------------------------
(* Nothing is lost: a job that was read is settled or still in flight.     *)

InFlight(i) ==
    \/ \E s \in Source : i \in Elements(rest[s])
    \/ i \in Elements(queue)
    \/ cons \notin {"get", "returned"} /\ i = hand

Coverage == \A b \in read : \A i \in Elements(ItemsOf[b]) : i \in Settled \/ InFlight(i)

LEMMA ProduceKeepsCoverage ==
    ASSUME TypeOK, Positions, Coverage, NEW s \in Source, Produce(s)
    PROVE  Coverage'
<1> SUFFICES ASSUME NEW b \in read', NEW i \in Elements(ItemsOf[b])
             PROVE  i \in Settled' \/ InFlight(i)'
  BY DEF Coverage
<1>1. UNCHANGED <<cons, hand>>
  BY DEF Produce, Request, NotModified, Refused, RequestFails, Received, Answered, NotJson,
         PassedOver, NoBoard, BoardDone, LastPage, Malformed, StopOnBudget, Offer, Put,
         SourceDone, db
<1>2. CASE UNCHANGED <<rest, queue, fates, read>>
  BY <1>1, <1>2 DEF Coverage, InFlight, Settled, fates
<1>3. CASE Answered(s)
  <2>1. /\ prod[s] = "sent" /\ rest[s] = <<>>
        /\ rest' = [rest EXCEPT ![s] = ItemsOf[Head(boards[s])]]
        /\ read' = read \cup {Head(boards[s])}
        /\ UNCHANGED <<queue, fates>>
    BY <1>3 DEF Answered, Received, Positions, fates
  <2>2. CASE b = Head(boards[s])
    BY <2>1, <2>2 DEF InFlight, TypeOK
  <2>3. CASE b # Head(boards[s])
    <3>1. i \in Settled \/ InFlight(i)
      BY <2>1, <2>3 DEF Coverage
    <3>2. Elements(rest[s]) = {}
      BY <2>1, ElementsOfEmpty
    <3>3. \A r \in Source \ {s} : rest'[r] = rest[r]
      BY <2>1 DEF TypeOK
    <3>4. QED
      BY <1>1, <2>1, <3>1, <3>2, <3>3 DEF InFlight, Settled, fates
  <2>4. QED
    BY <2>2, <2>3
<1>4. CASE Malformed(s) \/ StopOnBudget(s)
  <2>1. /\ rest' = [rest EXCEPT ![s] = <<>>]
        /\ Settled' = Settled \cup Elements(rest[s])
        /\ UNCHANGED <<queue, read>>
    BY <1>4 DEF Malformed, SourceFails, StopOnBudget, Settled
  <2>2. i \in Settled \/ InFlight(i)
    BY <2>1 DEF Coverage
  <2>3. \A r \in Source \ {s} : rest'[r] = rest[r]
    BY <2>1 DEF TypeOK
  <2>4. QED
    BY <1>1, <2>1, <2>2, <2>3 DEF InFlight
<1>5. CASE Put(s)
  <2>1. rest[s] \in Seq(Item) /\ rest[s] # <<>> /\ queue \in Seq(Item \cup {Done})
    BY <1>5 DEF Put, Room, TypeOK, Positions
  <2>2. /\ Elements(rest[s]) = {Head(rest[s])} \cup Elements(Tail(rest[s]))
        /\ Head(rest[s]) \in Item \cup {Done}
    BY <2>1, ElementsOfTail
  <2>3. Elements(Append(queue, Head(rest[s]))) = Elements(queue) \cup {Head(rest[s])}
    BY <2>1, <2>2, ElementsOfAppend
  <2>4. /\ rest' = [rest EXCEPT ![s] = Tail(rest[s])]
        /\ queue' = Append(queue, Head(rest[s]))
        /\ UNCHANGED <<read, fates>>
    BY <1>5 DEF Put
  <2>5. i \in Settled \/ InFlight(i)
    BY <2>4 DEF Coverage
  <2>6. rest'[s] = Tail(rest[s]) /\ \A r \in Source \ {s} : rest'[r] = rest[r]
    BY <2>4 DEF TypeOK
  <2>7. QED
    BY <1>1, <2>2, <2>3, <2>4, <2>5, <2>6 DEF InFlight, Settled, fates
<1>6. QED
  BY <1>2, <1>3, <1>4, <1>5
     DEF Produce, Request, NotModified, Refused, RequestFails, BoardFails, Received, NotJson,
         PassedOver, NoBoard, SourceFails, BoardDone, LastPage, Offer, SourceDone

LEMMA ConsumeKeepsCoverage ==
    ASSUME TypeOK, Flow, Coverage, Consume
    PROVE  Coverage'
<1> SUFFICES ASSUME NEW b \in read', NEW i \in Elements(ItemsOf[b])
             PROVE  i \in Settled' \/ InFlight(i)'
  BY DEF Coverage
<1>1. UNCHANGED <<rest, read>>
  BY DEF Consume, TakeDone, TakeLate, TakeJob, CompanyStored, CompanyFails, InsertFails,
         OpenSavepoint, InsertJob, ReleaseSavepoint, RollbackCollision, RollbackFailure,
         RollbackTo, ResolveJob, ResolveFails, feed
<1>2. i \in Settled \/ InFlight(i)
  BY <1>1 DEF Coverage
<1>3. CASE TakeDone \/ TakeLate \/ TakeJob
  <2>1. /\ queue # <<>> /\ queue' = Tail(queue) /\ cons = "get" /\ Settled \subseteq Settled'
        /\ \/ Head(queue) = Done
           \/ Head(queue) \in Settled'
           \/ cons' = "company" /\ hand' = Head(queue)
    BY <1>3 DEF TakeDone, TakeLate, TakeJob, Settled, fates
  <2>2. Elements(queue) = {Head(queue)} \cup Elements(Tail(queue))
    BY <2>1, ElementsOfTail DEF TypeOK
  <2>3. i # Done
    <3>1. ItemsOf[b] \in Seq(Item)
      BY <1>1, FeedAssumption DEF TypeOK
    <3>2. QED
      BY <3>1, LenProperties, FeedAssumption DEF Elements
  <2>4. QED
    BY <1>1, <1>2, <2>1, <2>2, <2>3 DEF InFlight
<1>4. CASE ~(TakeDone \/ TakeLate \/ TakeJob)
  <2>1. /\ UNCHANGED <<queue, hand>>
        /\ cons \notin {"get", "returned"}
        /\ Settled \subseteq Settled'
        /\ cons' \notin {"get", "returned"} \/ hand \in Settled'
    BY <1>4 DEF Consume, CompanyStored, CompanyFails, InsertFails, OpenSavepoint, InsertJob,
         ReleaseSavepoint, RollbackCollision, RollbackFailure, RollbackTo, ResolveJob, ResolveFails,
         CountStored, CountFailure, Settled, fates
  <2>2. QED
    BY <1>1, <1>2, <2>1 DEF InFlight
<1>5. QED
  BY <1>3, <1>4

-----------------------------------------------------------------------------
(* The report: whatever keeps a run from being complete leaves its trace.  *)

\* A board that was asked for got an answer, is still to come or is in
\* cfg.errors, and a producer stops early only for a reason the run reports.
Traces ==
    /\ dropped # {} => budgetHit
    /\ abandoned # {} => errors # {} \/ boardErrors # {}
    /\ poisoned => failed # {}
    /\ \A s \in Source :
        /\ s \notin boardErrors =>
               Elements(BoardsOf[s])
                   \subseteq read \cup unchanged \cup skipped \cup Elements(boards[s])
        /\ prod[s] = "ended" /\ s \notin refused \cup Paged \cup errors \cup boardErrors
               => boards[s] = <<>> \/ budgetHit

LEMMA ProduceKeepsTraces ==
    ASSUME TypeOK, Positions, Traces, NEW s \in Source, Produce(s)
    PROVE  Traces'
<1> USE DEF Traces, TypeOK, Goto, fates, db
<1> DEFINE b == Head(boards[s])
<1>1. boards[s] # <<>> => Elements(boards[s]) = {b} \cup Elements(Tail(boards[s]))
  BY ElementsOfTail
<1>a. ASSUME BoardFails(s), UNCHANGED <<fates, poisoned, budgetHit>> PROVE Traces'
  BY <1>a DEF BoardFails, PassBoard
<1>2. CASE Request(s)
  BY <1>2, <1>a DEF Request
<1>3. CASE NotModified(s)
  <2>1. boards[s] # <<>> /\ boards' = [boards EXCEPT ![s] = Tail(boards[s])]
        /\ unchanged' = unchanged \cup {b}
        /\ prod' = [prod EXCEPT ![s] = IF s \in Paged THEN "ended" ELSE "next"]
        /\ UNCHANGED <<errors, boardErrors, refused, read, skipped, fates, poisoned, budgetHit>>
    BY <1>3 DEF NotModified, PassBoard, Positions
  <2>2. QED
    BY <1>1, <2>1
<1>4. CASE Refused(s)
  BY <1>4 DEF Refused
<1>5. CASE RequestFails(s)
  BY <1>5, <1>a DEF RequestFails
<1>6. CASE Answered(s) \/ NotJson(s) \/ PassedOver(s) \/ NoBoard(s)
  <2>0. boards[s] # <<>> /\ UNCHANGED <<fates, poisoned, budgetHit>>
    BY <1>6 DEF Answered, NotJson, PassedOver, NoBoard, Received, Positions
  <2>1. CASE Answered(s)
    <3>1. boards' = [boards EXCEPT ![s] = Tail(boards[s])]
          /\ read' = read \cup {b}
          /\ prod' = [prod EXCEPT ![s] = "yield"]
          /\ UNCHANGED <<errors, boardErrors, refused, unchanged, skipped>>
      BY <2>1 DEF Answered
    <3>2. QED
      BY <1>1, <2>0, <3>1
  <2>2. CASE NotJson(s)
    BY <1>a, <2>0, <2>2 DEF NotJson
  <2>3. CASE PassedOver(s)
    <3>1. boards' = [boards EXCEPT ![s] = Tail(boards[s])]
          /\ skipped' = skipped \cup {b}
          /\ prod' = [prod EXCEPT ![s] = IF s \in Paged THEN "ended" ELSE "next"]
          /\ UNCHANGED <<errors, boardErrors, refused, read, unchanged>>
      BY <2>3 DEF PassedOver, PassBoard
    <3>2. QED
      BY <1>1, <2>0, <3>1
  <2>4. CASE NoBoard(s)
    BY <2>0, <2>4 DEF NoBoard, SourceFails
  <2>5. QED
    BY <1>6, <2>1, <2>2, <2>3, <2>4
<1>7. CASE BoardDone(s) \/ LastPage(s)
  BY <1>7 DEF BoardDone, LastPage
<1>8. CASE Malformed(s)
  BY <1>8 DEF Malformed, SourceFails
<1>9. CASE StopOnBudget(s)
  BY <1>9 DEF StopOnBudget, FlagBudget
<1>10. CASE Offer(s) \/ Put(s) \/ SourceDone(s)
  BY <1>10 DEF Offer, Put, SourceDone
<1>11. QED
  BY <1>2, <1>3, <1>4, <1>5, <1>6, <1>7, <1>8, <1>9, <1>10 DEF Produce

LEMMA ConsumeKeepsTraces ==
    ASSUME TypeOK, Traces, Consume
    PROVE  Traces'
<1>1. /\ UNCHANGED <<prod, boards, errors, boardErrors, refused, read, unchanged, skipped,
                     abandoned>>
      /\ UNCHANGED <<dropped, budgetHit>> \/ budgetHit'
      /\ failed \subseteq failed' /\ (UNCHANGED poisoned \/ failed' # {})
  BY DEF Consume, TakeDone, TakeLate, TakeJob, CompanyStored, CompanyFails, InsertFails,
         OpenSavepoint, InsertJob, ReleaseSavepoint, RollbackCollision, RollbackFailure,
         RollbackTo, ResolveJob, ResolveFails, CountStored, CountFailure, FlagBudget, feed, db, fates
<1>2. QED
  BY <1>1 DEF Traces

-----------------------------------------------------------------------------
(* The inductive invariant and what follows from it.                       *)

IInv == TypeOK /\ Positions /\ Flow /\ TxnState /\ Coverage /\ Traces

LEMMA InitEstablishesIInv == Init => IInv
<1> SUFFICES ASSUME Init PROVE IInv
  OBVIOUS
<1>1. TypeOK
  <2>1. /\ <<>> \in Seq(Item) /\ <<>> \in Seq(Item \cup {Done})
        /\ Len(<<>>) = 0 /\ 0 <= QueueSize
    BY SizeAssumption, EmptySeq
  <2>2. /\ prod \in [Source -> ProducerState]
        /\ boards \in [Source -> Seq(Board)]
        /\ rest \in [Source -> Seq(Item)]
    BY <2>1, FeedAssumption DEF Init, ProducerState
  <2>3. queue \in Seq(Item \cup {Done}) /\ Len(queue) <= QueueSize
    BY <2>1 DEF Init
  <2>4. jobs \in Table
    BY FeedAssumption DEF Init
  <2>5. QED
    BY <2>2, <2>3, <2>4 DEF Init, TypeOK, ConsumerState
<1>2. Elements(queue) = {} /\ Len(queue) = 0
  BY ElementsOfEmpty, EmptySeq DEF Init
<1>3. Positions /\ Flow /\ TxnState /\ Coverage
  BY <1>2 DEF Init, Positions, Flow, TxnState, Coverage
<1>4. Traces
  BY DEF Init, Traces
<1>5. QED
  BY <1>1, <1>3, <1>4 DEF IInv

LEMMA ProduceKeepsTxnState ==
    ASSUME TypeOK, Flow, TxnState, NEW s \in Source, Produce(s)
    PROVE  TxnState'
<1>1. UNCHANGED <<txn, cons, poisoned, phase>>
  BY DEF Produce, Request, NotModified, Refused, RequestFails, Received, Answered, NotJson,
         PassedOver, NoBoard, BoardDone, LastPage, Malformed, StopOnBudget, Offer, Put,
         SourceDone, db
<1>2. QED
  BY <1>1 DEF TxnState

LEMMA RunKeepsIInv ==
    ASSUME IInv, PutDone \/ Finish \/ Expire \/ UNCHANGED vars
    PROVE  IInv'
<1> USE DEF IInv, feed, db, fates
<1>1. CASE UNCHANGED vars
  BY <1>1 DEF vars, TypeOK, Positions, Flow, TxnState, Coverage, Traces, Settled, InFlight
<1>2. CASE Expire
  BY <1>2 DEF Expire, TypeOK, Positions, Flow, TxnState, Coverage, Traces, Settled,
            InFlight
<1>3. CASE Finish
  <2>1. TypeOK' /\ Positions' /\ Coverage' /\ Traces'
    BY <1>3 DEF Finish, TypeOK, Positions, Coverage, Traces, Settled, InFlight
  <2>2. Flow' /\ TxnState'
    BY <1>3 DEF Finish, TypeOK, Flow, TxnState
  <2>3. QED
    BY <2>1, <2>2
<1>4. CASE PutDone
  <2>1. queue \in Seq(Item \cup {Done}) /\ Done \in Item \cup {Done}
        /\ Len(queue) \in Nat /\ Len(queue) < QueueSize /\ queue' = Append(queue, Done)
    BY <1>4, LenProperties DEF PutDone, Room, AllFetched, TypeOK
  <2>2. /\ Elements(queue') = Elements(queue) \cup {Done}
        /\ queue' \in Seq(Item \cup {Done})
        /\ Len(queue') = Len(queue) + 1
        /\ \A i \in 1 .. Len(queue) : queue'[i] = queue[i]
    BY <2>1, ElementsOfAppend, AppendProperties
  <2>3. TypeOK'
    BY <1>4, <2>1, <2>2, SizeAssumption DEF PutDone, Room, AllFetched, TypeOK
  <2>4. \A i \in 1 .. Len(queue) : queue[i] # Done
    BY <1>4, <2>1, LenProperties DEF PutDone, Room, AllFetched, Flow, Elements
  <2>5. Flow'
    BY <1>4, <2>1, <2>2, <2>4 DEF PutDone, Room, AllFetched, Flow
  <2>6. Coverage'
    BY <1>4, <2>2 DEF PutDone, Room, AllFetched, Coverage, Settled, InFlight
  <2>7. QED
    BY <1>4, <2>3, <2>5, <2>6 DEF PutDone, Room, AllFetched, Positions, TxnState, Traces
<1>5. QED
  BY <1>1, <1>2, <1>3, <1>4

LEMMA ConsumeKeepsPositions ==
    ASSUME Positions, Consume
    PROVE  Positions'
BY DEF Positions, Consume, TakeDone, TakeLate, TakeJob, CompanyStored, CompanyFails, InsertFails,
       OpenSavepoint, InsertJob, ReleaseSavepoint, RollbackCollision, RollbackFailure,
       RollbackTo, ResolveJob, ResolveFails, feed

LEMMA StepKeepsIInv == IInv /\ [Next]_vars => IInv'
<1> SUFFICES ASSUME IInv, [Next]_vars PROVE IInv'
  OBVIOUS
<1>1. ASSUME NEW s \in Source, Produce(s) PROVE IInv'
  BY <1>1, ProduceKeepsType, ProduceKeepsPositions, ProduceKeepsFlow, ProduceKeepsTxnState,
     ProduceKeepsCoverage, ProduceKeepsTraces DEF IInv
<1>2. CASE Consume
  BY <1>2, ConsumeKeepsType, ConsumeKeepsPositions, ConsumeKeepsFlow, ConsumeKeepsTxnState,
     ConsumeKeepsCoverage, ConsumeKeepsTraces DEF IInv
<1>3. CASE PutDone \/ Finish \/ Expire \/ UNCHANGED vars
  BY <1>3, RunKeepsIInv
<1>4. QED
  BY <1>1, <1>2, <1>3 DEF Next, Terminated

LEMMA RunInvariant == Spec => []IInv
BY InitEstablishesIInv, StepKeepsIInv, PTL DEF Spec

\* Type correctness of every run.
THEOREM TypesHold == Spec => []TypeOK
<1>1. IInv => TypeOK
  BY DEF IInv
<1>2. QED
  BY <1>1, RunInvariant, PTL

\* No job disappears between the coroutines of run_discover.run, whatever the
\* number of sources, the queue's size and the moment of the deadline.
THEOREM NoJobIsLost == Spec => []NothingLost
<1>1. IInv => NothingLost
  <2> SUFFICES ASSUME IInv, phase \in {"committed", "raised"}, NEW i \in ItemsRead
               PROVE  i \in Settled
    BY DEF NothingLost
  <2>1. cons = "returned" /\ queue = <<>>
    BY DEF IInv, Flow
  <2>2. \A s \in Source : rest[s] = <<>>
    BY DEF IInv, Flow, Positions
  <2>3. ~InFlight(i)
    BY <2>1, <2>2, ElementsOfEmpty DEF InFlight
  <2>4. QED
    BY <2>3 DEF IInv, Coverage, ItemsRead
<1>2. QED
  BY <1>1, RunInvariant, PTL

\* A collision on the second unique key never costs the run: only a statement
\* outside the savepoint can abort its transaction.
THEOREM CollisionsAreConfined == Spec => []SavepointConfines
<1>1. IInv => SavepointConfines
  BY DEF IInv, TypeOK, ConsumerState, TxnState, SavepointConfines
<1>2. QED
  BY <1>1, RunInvariant, PTL

\* A run whose report shows neither an error nor budget_hit stored every job it
\* read, and every board of an ATS whose host answered gave its jobs or a 304,
\* or JSON that the adapter passed over.
THEOREM QuietRunsAreComplete == Spec => []QuietRunIsComplete
<1>1. IInv /\ NothingLost => QuietRunIsComplete
  <2> SUFFICES ASSUME IInv, NothingLost, phase = "committed", ~budgetHit, errors = {},
                      boardErrors = {}, failed = {}
               PROVE  /\ ItemsRead \subseteq stored
                      /\ \A s \in Source \ (refused \cup Paged) :
                             Elements(BoardsOf[s]) \subseteq read \cup unchanged \cup skipped
    BY DEF QuietRunIsComplete
  <2>1. dropped = {} /\ abandoned = {}
    BY DEF IInv, Traces
  <2>2. ItemsRead \subseteq stored
    BY <2>1 DEF NothingLost, Settled
  <2>3. ASSUME NEW s \in Source \ (refused \cup Paged)
        PROVE  Elements(BoardsOf[s]) \subseteq read \cup unchanged \cup skipped
    <3>1. boards[s] = <<>>
      BY DEF IInv, Flow, Traces
    <3>2. Elements(boards[s]) = {}
      BY <3>1, ElementsOfEmpty
    <3>3. QED
      BY <3>2 DEF IInv, Traces
  <2>4. QED
    BY <2>2, <2>3
<1>2. QED
  BY <1>1, RunInvariant, NoJobIsLost, PTL

-----------------------------------------------------------------------------
(* Every job is in one place: the clauses only the refinement needs.       *)

\* A job that was read is in one reply, once on the queue, or in the consumer's
\* hand, or settled, and the boards still to come are unread.
Apart ==
    /\ \A s \in Source :
        /\ IsInjective(boards[s])
        /\ Elements(boards[s]) \subseteq Elements(BoardsOf[s]) \ read
        /\ IsInjective(rest[s])
        /\ Elements(rest[s]) \subseteq ItemsRead
        /\ Elements(rest[s]) \cap Elements(queue) = {}
        /\ \A r \in Source \ {s} : Elements(rest[s]) \cap Elements(rest[r]) = {}
    /\ IsInjective(queue)
    /\ Elements(queue) \subseteq ItemsRead \cup {Done}
    /\ cons \notin {"get", "returned"} =>
        /\ hand \in ItemsRead \ Elements(queue)
        /\ \A s \in Source : hand \notin Elements(rest[s])
    /\ Settled \subseteq ItemsRead
    /\ \A i \in Settled : ~InFlight(i)

\* The ways a producer's step moves jobs.
QuietFetch(s) ==
    /\ \/ UNCHANGED boards
       \/ boards[s] # <<>> /\ boards' = [boards EXCEPT ![s] = Tail(boards[s])]
    /\ UNCHANGED <<rest, queue, read, fates>>

ReplyRead(s) ==
    /\ boards[s] # <<>>
    /\ rest[s] = <<>>
    /\ boards' = [boards EXCEPT ![s] = Tail(boards[s])]
    /\ rest' = [rest EXCEPT ![s] = ItemsOf[Head(boards[s])]]
    /\ read' = read \cup {Head(boards[s])}
    /\ UNCHANGED <<queue, fates>>

LEMMA ProducerMoves ==
    ASSUME TypeOK, Positions, NEW s \in Source, Produce(s)
    PROVE  QuietFetch(s) \/ ReplyRead(s) \/ Malformed(s) \/ StopOnBudget(s) \/ Put(s)
<1> DEFINE b == Head(boards[s])
<1>1. ASSUME BoardFails(s), boards[s] # <<>>, UNCHANGED <<queue, fates>> PROVE QuietFetch(s)
  BY <1>1 DEF BoardFails, PassBoard, QuietFetch
<1>2. CASE Request(s)
  BY <1>1, <1>2 DEF Request, QuietFetch
<1>3. CASE NotModified(s)
  BY <1>3 DEF NotModified, PassBoard, QuietFetch, Positions
<1>4. CASE RequestFails(s)
  BY <1>1, <1>4 DEF RequestFails, Positions
<1>5. CASE Answered(s) \/ NotJson(s) \/ PassedOver(s) \/ NoBoard(s)
  <2>1. boards[s] # <<>> /\ rest[s] = <<>> /\ queue' = queue
    BY <1>5 DEF Answered, NotJson, PassedOver, NoBoard, Received, Positions
  <2>2. CASE Answered(s)
    BY <2>1, <2>2 DEF Answered, ReplyRead
  <2>3. CASE NotJson(s)
    BY <1>1, <2>1, <2>3 DEF NotJson
  <2>4. CASE PassedOver(s)
    BY <2>1, <2>4 DEF PassedOver, PassBoard, QuietFetch
  <2>5. CASE NoBoard(s)
    BY <2>1, <2>5 DEF NoBoard, SourceFails, QuietFetch
  <2>6. QED
    BY <1>5, <2>2, <2>3, <2>4, <2>5
<1>6. CASE Refused(s) \/ BoardDone(s) \/ LastPage(s) \/ Offer(s) \/ SourceDone(s)
  BY <1>6 DEF Refused, BoardDone, LastPage, Offer, SourceDone, QuietFetch
<1>7. QED
  BY <1>2, <1>3, <1>4, <1>5, <1>6 DEF Produce

LEMMA ProduceKeepsApart ==
    ASSUME TypeOK, Positions, Apart, NEW s \in Source, Produce(s)
    PROVE  Apart'
<1>1. UNCHANGED <<cons, hand>>
  BY DEF Produce, Request, NotModified, Refused, RequestFails, Received, Answered, NotJson,
         PassedOver, NoBoard, BoardDone, LastPage, Malformed, StopOnBudget, Offer, Put,
         SourceDone, db
<1>2. boards[s] # <<>> =>
        /\ Elements(boards[s]) = {Head(boards[s])} \cup Elements(Tail(boards[s]))
        /\ Head(boards[s]) \in Board
        /\ IsInjective(Tail(boards[s]))
        /\ Elements(Tail(boards[s])) = Elements(boards[s]) \ {Head(boards[s])}
  BY ElementsOfTail, InjectiveTail DEF TypeOK, Apart
<1>3. CASE QuietFetch(s)
  <2>1. \A r \in Source : IsInjective(boards'[r]) /\ Elements(boards'[r]) \subseteq Elements(boards[r])
    BY <1>2, <1>3 DEF QuietFetch, TypeOK, Apart
  <2>2. QED
    BY <1>1, <1>3, <2>1 DEF QuietFetch, Apart, InFlight, ItemsRead, Settled, fates
<1>4. CASE ReplyRead(s)
  <2> DEFINE b == Head(boards[s])
  <2>1. b \in Board /\ b \in Elements(BoardsOf[s]) /\ b \notin read
    BY <1>2, <1>4 DEF ReplyRead, Apart
  <2>2. ItemsRead' = ItemsRead \cup Elements(ItemsOf[b])
    BY <1>4 DEF ReplyRead, ItemsRead
  <2>3. IsInjective(ItemsOf[b]) /\ Elements(ItemsOf[b]) \cap ItemsRead = {}
    <3>1. \A c \in read : c \in Board /\ c # b
      BY <2>1 DEF TypeOK
    <3>2. \A c \in read : Elements(ItemsOf[b]) \cap Elements(ItemsOf[c]) = {}
      BY <2>1, <3>1, OccurrenceAssumption
    <3>3. QED
      BY <2>1, <3>2, OccurrenceAssumption DEF ItemsRead
  <2>4. Done \notin Elements(ItemsOf[b])
    BY <2>1, ElementsIn, FeedAssumption
  <2>5. /\ rest'[s] = ItemsOf[b] /\ \A r \in Source \ {s} : rest'[r] = rest[r]
        /\ boards'[s] = Tail(boards[s]) /\ \A r \in Source \ {s} : boards'[r] = boards[r]
        /\ read' = read \cup {b}
        /\ UNCHANGED <<queue, Settled>>
    BY <1>4 DEF ReplyRead, TypeOK, Settled, fates
  <2> HIDE DEF b
  <2>6. \A r \in Source : IsInjective(boards'[r])
                          /\ Elements(boards'[r]) \subseteq Elements(BoardsOf[r]) \ read'
    <3>1. \A r \in Source \ {s} : b \notin Elements(BoardsOf[r])
      BY <2>1, OccurrenceAssumption
    <3>2. /\ IsInjective(Tail(boards[s]))
          /\ Elements(Tail(boards[s])) = Elements(boards[s]) \ {b}
      BY <1>2, <1>4 DEF ReplyRead, b
    <3>3. QED
      BY <2>5, <3>1, <3>2 DEF Apart
  <2>7. \A r \in Source :
          /\ IsInjective(rest'[r])
          /\ Elements(rest'[r]) \subseteq ItemsRead'
          /\ Elements(rest'[r]) \cap Elements(queue') = {}
          /\ \A t \in Source \ {r} : Elements(rest'[r]) \cap Elements(rest'[t]) = {}
    BY <2>2, <2>3, <2>4, <2>5 DEF Apart
  <2>8. \A i \in Settled' : ~InFlight(i)'
    BY <1>1, <2>3, <2>5 DEF Apart, InFlight
  <2>9. cons' \notin {"get", "returned"} =>
          /\ hand' \in ItemsRead' \ Elements(queue')
          /\ \A r \in Source : hand' \notin Elements(rest'[r])
    BY <1>1, <2>2, <2>3, <2>5 DEF Apart
  <2>10. QED
    BY <2>2, <2>5, <2>6, <2>7, <2>8, <2>9 DEF Apart
<1>5. CASE Malformed(s) \/ StopOnBudget(s)
  <2>1. /\ rest' = [rest EXCEPT ![s] = <<>>]
        /\ Settled' = Settled \cup Elements(rest[s])
        /\ UNCHANGED <<boards, queue, read>>
    BY <1>5 DEF Malformed, SourceFails, StopOnBudget, Settled
  <2>2. /\ Elements(rest'[s]) = {} /\ IsInjective(rest'[s])
        /\ \A r \in Source \ {s} : rest'[r] = rest[r]
    BY <2>1, ElementsOfEmpty DEF TypeOK, IsInjective
  <2>3. ItemsRead' = ItemsRead
    BY <2>1 DEF ItemsRead
  <2>4. \A i \in Settled' : ~InFlight(i)'
    BY <1>1, <2>1, <2>2 DEF Apart, InFlight
  <2>5. QED
    BY <1>1, <2>1, <2>2, <2>3, <2>4 DEF Apart
<1>6. CASE Put(s)
  <2> DEFINE i == Head(rest[s])
  <2>1. rest[s] \in Seq(Item) /\ rest[s] # <<>> /\ queue \in Seq(Item \cup {Done})
    BY <1>6 DEF Put, Room, TypeOK, Positions
  <2>2. /\ i \in Item /\ i \in Elements(rest[s])
        /\ IsInjective(Tail(rest[s]))
        /\ Elements(Tail(rest[s])) = Elements(rest[s]) \ {i}
    BY <2>1, ElementsOfTail, InjectiveTail DEF Apart
  <2>3. Elements(Append(queue, i)) = Elements(queue) \cup {i} /\ IsInjective(Append(queue, i))
    BY <2>1, <2>2, ElementsOfAppend, InjectiveAppend DEF Apart
  <2>4. /\ rest' = [rest EXCEPT ![s] = Tail(rest[s])]
        /\ queue' = Append(queue, i)
        /\ UNCHANGED <<boards, read, fates>>
    BY <1>6 DEF Put
  <2>5. rest'[s] = Tail(rest[s]) /\ \A r \in Source \ {s} : rest'[r] = rest[r]
    BY <2>4 DEF TypeOK
  <2>6. ItemsRead' = ItemsRead /\ Settled' = Settled
    BY <2>4 DEF ItemsRead, Settled, fates
  <2> HIDE DEF i
  <2>7. \A j : InFlight(j)' <=> InFlight(j)
    BY <1>1, <2>2, <2>3, <2>4, <2>5 DEF InFlight
  <2>8. \A r \in Source :
          /\ IsInjective(rest'[r])
          /\ Elements(rest'[r]) \subseteq ItemsRead'
          /\ Elements(rest'[r]) \cap Elements(queue') = {}
          /\ \A t \in Source \ {r} : Elements(rest'[r]) \cap Elements(rest'[t]) = {}
    <3>1. \A r \in Source \ {s} : i \notin Elements(rest[r])
      BY <2>2 DEF Apart
    <3>2. /\ Elements(rest'[s]) = Elements(rest[s]) \ {i}
          /\ Elements(queue') = Elements(queue) \cup {i}
          /\ IsInjective(rest'[s])
      BY <2>2, <2>3, <2>4, <2>5
    <3>3. QED
      BY <2>5, <2>6, <3>1, <3>2 DEF Apart
  <2>9. \A r \in Source : IsInjective(boards'[r])
                          /\ Elements(boards'[r]) \subseteq Elements(BoardsOf[r]) \ read'
    BY <2>4 DEF Apart
  <2>10. IsInjective(queue') /\ Elements(queue') \subseteq ItemsRead' \cup {Done}
    BY <2>2, <2>3, <2>4, <2>6 DEF Apart
  <2>11. cons' \notin {"get", "returned"} =>
          /\ hand' \in ItemsRead' \ Elements(queue')
          /\ \A r \in Source : hand' \notin Elements(rest'[r])
    <3>1. SUFFICES ASSUME cons \notin {"get", "returned"}
                   PROVE  /\ hand \in ItemsRead \ Elements(queue')
                          /\ \A r \in Source : hand \notin Elements(rest'[r])
      BY <1>1, <2>6
    <3>2. hand # i /\ hand \in ItemsRead \ Elements(queue)
          /\ \A r \in Source : hand \notin Elements(rest[r])
      BY <2>2, <3>1 DEF Apart
    <3>3. QED
      BY <2>2, <2>3, <2>4, <2>5, <3>2
  <2>12. \A j \in Settled' : ~InFlight(j)'
    BY <2>6, <2>7 DEF Apart
  <2>13. Settled' \subseteq ItemsRead'
    BY <2>6 DEF Apart
  <2>14. QED
    BY <2>8, <2>9, <2>10, <2>11, <2>12, <2>13 DEF Apart
<1>7. QED
  BY <1>3, <1>4, <1>5, <1>6, ProducerMoves

\* A consumer's step takes a job, goes on with it, or settles it.
LEMMA ConsumerMoves ==
    ASSUME TypeOK, Consume
    PROVE  /\ UNCHANGED <<boards, rest, read>>
           /\ \/ TakeDone
              \/ TakeLate
              \/ TakeJob
              \/ /\ UNCHANGED <<queue, hand>>
                 /\ cons \notin {"get", "returned"}
                 /\ \/ cons' \notin {"get", "returned"} /\ UNCHANGED fates
                    \/ CountStored
                    \/ CountFailure
BY DEF Consume, TakeDone, TakeLate, TakeJob, CompanyStored, CompanyFails, InsertFails,
       OpenSavepoint, InsertJob, ReleaseSavepoint, RollbackCollision, RollbackFailure,
       RollbackTo, ResolveJob, ResolveFails, feed, fates, CountFailure, CountStored

LEMMA ConsumeKeepsApart ==
    ASSUME TypeOK, Flow, Apart, Consume
    PROVE  Apart'
<1>1. UNCHANGED <<boards, rest, read>> /\ ItemsRead' = ItemsRead
  BY ConsumerMoves DEF ItemsRead
<1>2. CASE TakeDone \/ TakeLate \/ TakeJob
  <2> DEFINE i == Head(queue)
  <2>1. /\ queue # <<>> /\ queue' = Tail(queue) /\ cons = "get"
        /\ \/ i = Done /\ cons' = "returned" /\ Settled' = Settled
           \/ i # Done /\ cons' = "get" /\ Settled' = Settled \cup {i}
           \/ i # Done /\ cons' = "company" /\ hand' = i /\ Settled' = Settled
    BY <1>2 DEF TakeDone, TakeLate, TakeJob, Settled, fates
  <2>2. /\ i \in Elements(queue)
        /\ IsInjective(queue')
        /\ Elements(queue') = Elements(queue) \ {i}
    BY <2>1, ElementsOfTail, InjectiveTail DEF TypeOK, Apart
  <2> HIDE DEF i
  <2>3. \A j \in Settled' : ~InFlight(j)'
    BY <1>1, <2>1, <2>2 DEF Apart, InFlight
  <2>4. QED
    BY <1>1, <2>1, <2>2, <2>3 DEF Apart
<1>3. CASE ~(TakeDone \/ TakeLate \/ TakeJob)
  <2>1. /\ UNCHANGED <<queue, hand>>
        /\ cons \notin {"get", "returned"}
        /\ \/ cons' \notin {"get", "returned"} /\ Settled' = Settled
           \/ cons' = "get" /\ Settled' = Settled \cup {hand}
    BY <1>3, ConsumerMoves DEF CountStored, CountFailure, Settled, fates
  <2>2. \A j \in Settled' : ~InFlight(j)'
    BY <1>1, <2>1 DEF Apart, InFlight
  <2>3. QED
    BY <1>1, <2>1, <2>2 DEF Apart
<1>4. QED
  BY <1>2, <1>3

LEMMA InitEstablishesApart == Init => Apart
<1> SUFFICES ASSUME Init PROVE Apart
  OBVIOUS
<1>1. Elements(<<>>) = {} /\ IsInjective(<<>>)
  BY ElementsOfEmpty DEF IsInjective
<1>2. boards = BoardsOf /\ queue = <<>> /\ \A s \in Source : rest[s] = <<>>
  BY DEF Init
<1>3. Settled = {} /\ ItemsRead = {} /\ read = {} /\ cons = "get"
  BY DEF Init, Settled, ItemsRead
<1>4. QED
  BY <1>1, <1>2, <1>3, OccurrenceAssumption DEF Apart

LEMMA StepKeepsApart == IInv /\ Apart /\ [Next]_vars => Apart'
<1> SUFFICES ASSUME IInv, Apart, [Next]_vars PROVE Apart'
  OBVIOUS
<1>1. ASSUME NEW s \in Source, Produce(s) PROVE Apart'
  BY <1>1, ProduceKeepsApart DEF IInv
<1>2. CASE Consume
  BY <1>2, ConsumeKeepsApart DEF IInv
<1>3. CASE PutDone
  <2>1. /\ queue \in Seq(Item \cup {Done}) /\ Done \in Item \cup {Done}
        /\ queue' = Append(queue, Done) /\ Done \notin Elements(queue)
    BY <1>3 DEF PutDone, Room, AllFetched, IInv, TypeOK, Flow
  <2>2. IsInjective(queue') /\ Elements(queue') = Elements(queue) \cup {Done}
    BY <2>1, ElementsOfAppend, InjectiveAppend DEF Apart
  <2>3. \A b \in read : Done \notin Elements(ItemsOf[b])
    BY ElementsIn, FeedAssumption DEF IInv, TypeOK
  <2>4. Done \notin ItemsRead
    BY <2>3 DEF ItemsRead
  <2>5. /\ UNCHANGED <<boards, rest, read, cons, hand, fates>>
        /\ ItemsRead' = ItemsRead /\ Settled' = Settled
    BY <1>3 DEF PutDone, Room, AllFetched, feed, fates, ItemsRead, Settled
  <2>6. \A i \in Settled' : ~InFlight(i)'
    BY <2>2, <2>4, <2>5 DEF Apart, InFlight
  <2>7. QED
    BY <2>2, <2>4, <2>5, <2>6 DEF Apart
<1>4. CASE Finish \/ Expire \/ UNCHANGED vars
  BY <1>4 DEF Finish, Expire, vars, feed, fates, Apart, InFlight, ItemsRead, Settled
<1>5. QED
  BY <1>1, <1>2, <1>3, <1>4 DEF Next, Terminated

-----------------------------------------------------------------------------
(* Each step of the run is a step of RunLedger or leaves it alone.         *)

Rule(i) ==
    IF i \in stored THEN "stored"
    ELSE IF i \in failed THEN "failed"
    ELSE IF i \in dropped THEN "dropped"
    ELSE IF i \in abandoned THEN "abandoned"
    ELSE IF InFlight(i) THEN "pending"
    ELSE "unread"

LEMMA FatesByRule ==
    /\ JobFates = [i \in Item |-> Rule(i)]
    /\ JobFates' = [i \in Item |-> Rule(i)']
<1>1. ASSUME NEW i \in Item PROVE i \in Pending <=> InFlight(i)
  <2>1. i # Done
    BY FeedAssumption
  <2>2. i \in UNION {Elements(rest[s]) : s \in Source}
          <=> \E s \in Source : i \in Elements(rest[s])
    OBVIOUS
  <2>3. QED
    BY <2>1, <2>2 DEF Pending, InFlight
<1>2. ASSUME NEW i \in Item PROVE (i \in Pending)' <=> InFlight(i)'
  <2>1. i # Done
    BY FeedAssumption
  <2>2. i \in UNION {Elements(rest'[s]) : s \in Source}
          <=> \E s \in Source : i \in Elements(rest'[s])
    OBVIOUS
  <2>3. QED
    BY <2>1, <2>2 DEF Pending, InFlight
<1>3. \A i \in Item : FateOf(i) = Rule(i)
  BY <1>1 DEF FateOf, Rule
<1>4. \A i \in Item : FateOf(i)' = Rule(i)'
  BY <1>2 DEF FateOf, Rule
<1>5. QED
  BY <1>3, <1>4 DEF JobFates

\* Jobs of one fate take another, and the others keep theirs.
LEMMA JobsMove ==
    ASSUME NEW I \in SUBSET Item, I # {}, NEW from, NEW to,
           LedgerPhase = "running", LedgerPhase' = "running",
           \A i \in I : Rule(i) = from /\ Rule(i)' = to,
           \A i \in Item \ I : Rule(i)' = Rule(i)
    PROVE  Ledger!Move(I, from, to)
<1>1. \A i \in I : JobFates[i] = from
  BY FatesByRule
<1>2. JobFates' = [i \in Item |-> IF i \in I THEN to ELSE JobFates[i]]
  BY FatesByRule
<1>3. QED
  BY <1>1, <1>2 DEF Ledger!Move

LEMMA NoJobMoves ==
    ASSUME UNCHANGED fates, \A i \in Item : InFlight(i)' <=> InFlight(i)
    PROVE  JobFates' = JobFates
<1>1. \A i \in Item : Rule(i)' = Rule(i)
  BY DEF Rule, fates
<1>2. QED
  BY <1>1, FatesByRule

LEMMA ProduceStepsLedger ==
    ASSUME IInv, Apart, NEW s \in Source, Produce(s)
    PROVE  [Ledger!Next]_(Ledger!vars)
<1> USE DEF IInv
<1>1. /\ UNCHANGED <<phase, cons, hand>>
      /\ LedgerPhase = "running" /\ LedgerPhase' = "running"
  BY ProducersFetch DEF LedgerPhase
<1>2. /\ errors \subseteq errors' /\ boardErrors \subseteq boardErrors'
      /\ (errors' = errors /\ boardErrors' = boardErrors) \/ Erred'
  BY DEF Produce, Request, NotModified, Refused, RequestFails, Received, Answered, NotJson,
         PassedOver, NoBoard, BoardFails, SourceFails, BoardDone, LastPage, Malformed,
         StopOnBudget, Offer, Put, SourceDone, Erred
<1>3. ASSUME JobFates' = JobFates, UNCHANGED <<failed, budgetHit>>
      PROVE  [Ledger!Next]_(Ledger!vars)
  <2>1. CASE Erred' = Erred
    BY <1>1, <1>3, <2>1 DEF Ledger!vars
  <2>2. CASE Erred' # Erred
    <3>1. Erred' = TRUE
      BY <1>2, <1>3, <2>2 DEF Erred
    <3>2. Ledger!Report
      BY <1>1, <1>3, <3>1 DEF Ledger!Report
    <3>3. QED
      BY <3>2 DEF Ledger!Next
  <2>3. QED
    BY <2>1, <2>2
<1>4. ASSUME QuietFetch(s) \/ ReplyRead(s) \/ Put(s) PROVE UNCHANGED <<failed, budgetHit>>
  <2>1. UNCHANGED fates /\ (UNCHANGED budgetHit \/ StopOnBudget(s))
    BY <1>4 DEF QuietFetch, ReplyRead, Put, Produce, Request, NotModified, Refused,
         RequestFails, Received, Answered, NotJson, PassedOver, NoBoard, BoardDone, LastPage,
         Malformed, Offer, SourceDone
  <2>2. ~StopOnBudget(s)
    <3>1. SUFFICES ASSUME StopOnBudget(s) PROVE FALSE
      OBVIOUS
    <3>2. rest[s] # <<>> /\ rest' = [rest EXCEPT ![s] = <<>>] /\ rest'[s] = <<>>
      BY <3>1 DEF StopOnBudget, TypeOK
    <3>3. ~QuietFetch(s) /\ ~ReplyRead(s)
      BY <3>2 DEF QuietFetch, ReplyRead
    <3>4. Put(s)
      BY <1>4, <3>3
    <3>5. prod'[s] = "yield" /\ prod'[s] = "ended"
      BY <3>1, <3>4 DEF StopOnBudget, Put, Goto, TypeOK
    <3>6. QED
      BY <3>5
  <2>3. QED
    BY <2>1, <2>2 DEF fates
<1>5. CASE QuietFetch(s)
  <2>1. \A i \in Item : InFlight(i)' <=> InFlight(i)
    BY <1>1, <1>5 DEF QuietFetch, InFlight
  <2>2. JobFates' = JobFates
    BY <1>5, <2>1, NoJobMoves DEF QuietFetch
  <2>3. QED
    BY <1>3, <1>4, <1>5, <2>2
<1>6. CASE ReplyRead(s)
  <2>1. Head(boards[s]) \in Board /\ Head(boards[s]) \notin read
    BY <1>6, ElementsOfTail DEF ReplyRead, TypeOK, Apart
  <2>2. PICK I \in SUBSET Item : I = Elements(ItemsOf[Head(boards[s])])
    BY <2>1, ElementsIn, FeedAssumption
  <2>3. I \cap ItemsRead = {}
    <3>1. \A c \in read : c \in Board /\ c # Head(boards[s])
      BY <2>1 DEF TypeOK
    <3>2. \A c \in read : I \cap Elements(ItemsOf[c]) = {}
      BY <2>1, <2>2, <3>1, OccurrenceAssumption
    <3>3. QED
      BY <3>2 DEF ItemsRead
  <2>4. /\ rest[s] = <<>> /\ rest'[s] = ItemsOf[Head(boards[s])]
        /\ \A r \in Source \ {s} : rest'[r] = rest[r]
        /\ UNCHANGED <<queue, fates>>
    BY <1>6 DEF ReplyRead, TypeOK
  <2>5. Elements(rest'[s]) = I /\ Elements(rest[s]) = {}
    BY <2>2, <2>4, ElementsOfEmpty
  <2>6. \A i \in Item : InFlight(i)' <=> (InFlight(i) \/ i \in I)
    BY <1>1, <2>4, <2>5 DEF InFlight
  <2>7. \A i \in I : i \notin Settled /\ ~InFlight(i)
    <3>1. \A i \in Item : InFlight(i) => i \in ItemsRead
      BY FeedAssumption DEF Apart, InFlight
    <3>2. QED
      BY <2>2, <2>3, <3>1 DEF Apart
  <2>8. CASE I = {}
    BY <1>3, <1>4, <1>6, <2>4, <2>6, <2>8, NoJobMoves
  <2>9. CASE I # {}
    <3>1. \A i \in I : Rule(i) = "unread" /\ Rule(i)' = "pending"
      BY <2>2, <2>4, <2>6, <2>7 DEF Rule, Settled, fates
    <3>2. \A i \in Item \ I : Rule(i)' = Rule(i)
      BY <2>4, <2>6 DEF Rule, fates
    <3>3. Ledger!Move(I, "unread", "pending")
      BY <1>1, <2>2, <2>9, <3>1, <3>2, JobsMove
    <3>4. UNCHANGED <<budgetHit, Erred>>
      <4>1. UNCHANGED <<errors, boardErrors>>
        <5>1. rest'[s] # rest[s] /\ ~Malformed(s) /\ ~StopOnBudget(s) /\ ~Put(s)
          BY <2>4, <2>5, <2>9 DEF Malformed, StopOnBudget, Put
        <5>2. QED
          BY <5>1 DEF Produce, Request, NotModified, Refused, RequestFails, BoardFails, Answered,
               NotJson, PassedOver, NoBoard, SourceFails, BoardDone, LastPage, Offer, SourceDone
      <4>2. QED
        BY <1>4, <1>6, <4>1 DEF Erred
    <3>5. QED
      BY <2>2, <3>3, <3>4 DEF Ledger!Read, Ledger!Next
  <2>10. QED
    BY <2>8, <2>9
<1>7. CASE Put(s)
  <2> DEFINE i == Head(rest[s])
  <2>1. rest[s] \in Seq(Item) /\ rest[s] # <<>> /\ queue \in Seq(Item \cup {Done})
    BY <1>7 DEF Put, Room, TypeOK, Positions
  <2>2. i \in Item /\ Elements(rest[s]) = {i} \cup Elements(Tail(rest[s]))
    BY <2>1, ElementsOfTail
  <2>3. Elements(Append(queue, i)) = Elements(queue) \cup {i}
    BY <2>1, <2>2, ElementsOfAppend
  <2>4. /\ rest' = [rest EXCEPT ![s] = Tail(rest[s])]
        /\ queue' = Append(queue, i)
        /\ UNCHANGED fates
    BY <1>7 DEF Put
  <2>5. rest'[s] = Tail(rest[s]) /\ \A r \in Source \ {s} : rest'[r] = rest[r]
    BY <2>4 DEF TypeOK
  <2> HIDE DEF i
  <2>6. \A j \in Item : InFlight(j)' <=> InFlight(j)
    BY <1>1, <2>2, <2>3, <2>4, <2>5 DEF InFlight
  <2>7. QED
    BY <1>3, <1>4, <1>7, <2>4, <2>6, NoJobMoves
<1>8. CASE Malformed(s) \/ StopOnBudget(s)
  <2>1. rest[s] \in Seq(Item) /\ rest[s] # <<>>
    BY <1>8 DEF Malformed, StopOnBudget, TypeOK
  <2>2. PICK I \in SUBSET Item : I = Elements(rest[s]) /\ I # {}
    <3>1. Elements(rest[s]) = {Head(rest[s])} \cup Elements(Tail(rest[s]))
      BY <2>1, ElementsOfTail
    <3>2. Elements(rest[s]) \in SUBSET Item
      BY <2>1, ElementsIn
    <3>3. QED
      BY <3>1, <3>2
  <2>3. /\ rest' = [rest EXCEPT ![s] = <<>>]
        /\ UNCHANGED <<queue, stored, failed>>
    BY <1>8 DEF Malformed, StopOnBudget
  <2>4. Elements(rest'[s]) = {} /\ \A r \in Source \ {s} : rest'[r] = rest[r]
    BY <2>3, ElementsOfEmpty DEF TypeOK
  <2>5. \A i \in I : InFlight(i) /\ ~InFlight(i)' /\ i \notin Settled
    BY <1>1, <2>2, <2>3, <2>4 DEF Apart, InFlight
  <2>6. \A i \in Item \ I : InFlight(i)' <=> InFlight(i)
    BY <1>1, <2>2, <2>3, <2>4 DEF InFlight
  <2>7. CASE Malformed(s)
    <3>1. abandoned' = abandoned \cup I /\ UNCHANGED <<dropped, budgetHit>> /\ Erred' = TRUE
      BY <2>2, <2>7 DEF Malformed, SourceFails, Erred
    <3>2. \A i \in I : Rule(i) = "pending" /\ Rule(i)' = "abandoned"
      BY <2>3, <2>5, <3>1 DEF Rule, Settled
    <3>3. \A i \in Item \ I : Rule(i)' = Rule(i)
      BY <2>3, <2>6, <3>1 DEF Rule
    <3>4. Ledger!Move(I, "pending", "abandoned")
      BY <1>1, <2>1, <2>2, <3>2, <3>3, JobsMove
    <3>5. QED
      BY <2>1, <3>1, <3>4 DEF Ledger!Abandon, Ledger!Next
  <2>8. CASE StopOnBudget(s)
    <3>1. dropped' = dropped \cup I /\ UNCHANGED abandoned /\ budgetHit' = TRUE /\ Erred' = Erred
      BY <2>2, <2>8 DEF StopOnBudget, FlagBudget, Erred
    <3>2. \A i \in I : Rule(i) = "pending" /\ Rule(i)' = "dropped"
      BY <2>3, <2>5, <3>1 DEF Rule, Settled
    <3>3. \A i \in Item \ I : Rule(i)' = Rule(i)
      BY <2>3, <2>6, <3>1 DEF Rule
    <3>4. Ledger!Move(I, "pending", "dropped")
      BY <1>1, <2>1, <2>2, <3>2, <3>3, JobsMove
    <3>5. QED
      BY <2>1, <3>1, <3>4 DEF Ledger!Drop, Ledger!Next
  <2>9. QED
    BY <1>8, <2>7, <2>8
<1>9. QED
  BY <1>5, <1>6, <1>7, <1>8, ProducerMoves

LEMMA ConsumeStepsLedger ==
    ASSUME IInv, Apart, Consume
    PROVE  [Ledger!Next]_(Ledger!vars)
<1> USE DEF IInv
<1>1. UNCHANGED <<rest, phase, errors, boardErrors>>
  BY DEF Consume, TakeDone, TakeLate, TakeJob, CompanyStored, CompanyFails, InsertFails,
         OpenSavepoint, InsertJob, ReleaseSavepoint, RollbackCollision, RollbackFailure,
         RollbackTo, ResolveJob, ResolveFails, feed
<1>2. LedgerPhase = "running" /\ LedgerPhase' = "running"
  <2>1. cons # "returned"
    BY DEF Consume, TakeDone, TakeLate, TakeJob, CompanyStored, CompanyFails, InsertFails,
           OpenSavepoint, InsertJob, ReleaseSavepoint, RollbackCollision, RollbackFailure,
           ResolveJob, ResolveFails
  <2>2. QED
    BY <1>1, <2>1 DEF Flow, LedgerPhase, TypeOK
<1>3. TakeLate \/ UNCHANGED budgetHit
  BY DEF Consume, TakeDone, TakeJob, CompanyStored, CompanyFails, InsertFails,
         OpenSavepoint, InsertJob, ReleaseSavepoint, RollbackCollision, RollbackFailure,
         RollbackTo, ResolveJob, ResolveFails
<1>4. ASSUME UNCHANGED <<fates, budgetHit>>, \A i \in Item : InFlight(i)' <=> InFlight(i)
      PROVE  [Ledger!Next]_(Ledger!vars)
  BY <1>1, <1>2, <1>4, NoJobMoves DEF Ledger!vars, Erred, fates
<1>5. CASE TakeDone \/ TakeLate \/ TakeJob
  <2>1. queue # <<>> /\ queue' = Tail(queue) /\ cons = "get"
    BY <1>5 DEF TakeDone, TakeLate, TakeJob
  <2>2. PICK i \in Item \cup {Done} :
          /\ i = Head(queue)
          /\ Elements(queue) = {i} \cup Elements(queue')
          /\ i \notin Elements(queue')
    BY <2>1, ElementsOfTail, InjectiveTail DEF TypeOK, Apart
  <2>3. CASE TakeDone \/ TakeJob
    <3>1. /\ UNCHANGED <<fates, budgetHit>>
          /\ \/ i = Done /\ cons' = "returned"
             \/ cons' = "company" /\ hand' = i
      BY <2>2, <2>3 DEF TakeDone, TakeJob
    <3>2. \A j \in Item : InFlight(j)' <=> InFlight(j)
      BY <1>1, <2>1, <2>2, <3>1, FeedAssumption DEF InFlight
    <3>3. QED
      BY <1>4, <3>1, <3>2
  <2>4. CASE TakeLate
    <3>1. /\ i # Done /\ cons' = "get"
          /\ dropped' = dropped \cup {i} /\ budgetHit' = TRUE
          /\ UNCHANGED <<stored, failed, abandoned>>
      BY <2>1, <2>2, <2>4 DEF TakeLate, FlagBudget
    <3>2. i \in Item /\ InFlight(i) /\ i \notin Settled
      BY <2>2, <3>1 DEF Apart, InFlight
    <3>3. ~InFlight(i)' /\ \A j \in Item \ {i} : InFlight(j)' <=> InFlight(j)
      BY <1>1, <2>1, <2>2, <3>1 DEF Apart, InFlight
    <3>4. Rule(i) = "pending" /\ Rule(i)' = "dropped"
      BY <3>1, <3>2, <3>3 DEF Rule, Settled
    <3>5. \A j \in Item \ {i} : Rule(j)' = Rule(j)
      BY <3>1, <3>3 DEF Rule
    <3>6. Ledger!Move({i}, "pending", "dropped")
      BY <1>2, <3>2, <3>4, <3>5, JobsMove
    <3>7. Erred' = Erred
      BY <1>1, <3>1 DEF Erred
    <3>8. QED
      BY <3>1, <3>2, <3>6, <3>7 DEF Ledger!Drop, Ledger!Next
  <2>5. QED
    BY <1>5, <2>3, <2>4
<1>6. CASE ~(TakeDone \/ TakeLate \/ TakeJob)
  <2>1. /\ UNCHANGED <<queue, hand>>
        /\ cons \notin {"get", "returned"}
        /\ \/ cons' \notin {"get", "returned"} /\ UNCHANGED fates
           \/ CountStored
           \/ CountFailure
    BY <1>6, ConsumerMoves
  <2>2. PICK i \in Item : i = hand /\ InFlight(i) /\ i \notin Settled
    BY <2>1 DEF Flow, Apart, InFlight
  <2>3. CASE cons' \notin {"get", "returned"} /\ UNCHANGED fates
    <3>1. \A j \in Item : InFlight(j)' <=> InFlight(j)
      BY <1>1, <2>1, <2>3 DEF InFlight
    <3>2. QED
      BY <1>3, <1>4, <1>6, <2>3, <3>1
  <2>4. CASE CountStored \/ CountFailure
    <3>1. cons' = "get"
      BY <2>4 DEF CountStored, CountFailure
    <3>2. ~InFlight(i)' /\ \A j \in Item \ {i} : InFlight(j)' <=> InFlight(j)
      BY <1>1, <2>1, <2>2, <3>1 DEF Apart, InFlight
    <3>3. CASE CountStored
      <4>1. stored' = stored \cup {i} /\ UNCHANGED <<failed, dropped, abandoned>>
        BY <2>2, <3>3 DEF CountStored
      <4>2. Rule(i) = "pending" /\ Rule(i)' = "stored"
        BY <2>2, <3>2, <4>1 DEF Rule, Settled
      <4>3. \A j \in Item \ {i} : Rule(j)' = Rule(j)
        BY <3>2, <4>1 DEF Rule
      <4>4. Ledger!Move({i}, "pending", "stored")
        BY <1>2, <2>2, <4>2, <4>3, JobsMove
      <4>5. Erred' = Erred /\ UNCHANGED budgetHit
        BY <1>1, <1>3, <1>6, <4>1 DEF Erred
      <4>6. QED
        BY <2>2, <4>4, <4>5 DEF Ledger!Store, Ledger!Next
    <3>4. CASE CountFailure
      <4>1. failed' = failed \cup {i} /\ UNCHANGED <<stored, dropped, abandoned>>
        BY <2>2, <3>4 DEF CountFailure
      <4>2. Rule(i) = "pending" /\ Rule(i)' = "failed"
        BY <2>2, <3>2, <4>1 DEF Rule, Settled
      <4>3. \A j \in Item \ {i} : Rule(j)' = Rule(j)
        BY <3>2, <4>1 DEF Rule
      <4>4. Ledger!Move({i}, "pending", "failed")
        BY <1>2, <2>2, <4>2, <4>3, JobsMove
      <4>5. Erred' = TRUE /\ UNCHANGED budgetHit
        BY <1>3, <1>6, <4>1 DEF Erred
      <4>6. QED
        BY <2>2, <4>4, <4>5 DEF Ledger!Fail, Ledger!Next
    <3>5. QED
      BY <2>4, <3>3, <3>4
  <2>5. QED
    BY <2>1, <2>3, <2>4
<1>7. QED
  BY <1>5, <1>6

LEMMA RunStepsLedger ==
    ASSUME IInv, PutDone \/ Finish \/ Expire \/ UNCHANGED vars
    PROVE  [Ledger!Next]_(Ledger!vars)
<1> USE DEF IInv
<1>1. UNCHANGED <<errors, boardErrors, fates, budgetHit, rest, cons, hand>> /\ Erred' = Erred
  BY DEF PutDone, Finish, Expire, vars, feed, fates, Erred
<1>2. ASSUME \A i \in Item : InFlight(i)' <=> InFlight(i), LedgerPhase' = LedgerPhase
      PROVE  [Ledger!Next]_(Ledger!vars)
  BY <1>1, <1>2, NoJobMoves DEF Ledger!vars
<1>3. CASE PutDone
  <2>1. Elements(queue') = Elements(queue) \cup {Done}
    BY <1>3, ElementsOfAppend DEF PutDone, Room, AllFetched, TypeOK
  <2>2. \A i \in Item : InFlight(i)' <=> InFlight(i)
    BY <1>1, <2>1, FeedAssumption DEF InFlight
  <2>3. LedgerPhase' = LedgerPhase
    BY <1>3 DEF PutDone, Room, AllFetched, LedgerPhase
  <2>4. QED
    BY <1>2, <2>2, <2>3
<1>4. CASE Expire \/ UNCHANGED vars
  <2>1. UNCHANGED <<queue, phase>>
    BY <1>4 DEF Expire, vars
  <2>2. QED
    BY <1>1, <1>2, <2>1 DEF InFlight, LedgerPhase
<1>5. CASE Finish
  <2>1. /\ phase = "draining" /\ cons = "returned" /\ queue' = queue
        /\ phase' = IF txn = "aborted" THEN "raised" ELSE "committed"
    BY <1>5 DEF Finish
  <2>2. \A i \in Item : ~InFlight(i)
    <3>1. queue = <<>> /\ \A s \in Source : rest[s] = <<>>
      BY <2>1 DEF Flow, Positions
    <3>2. QED
      BY <2>1, <3>1, ElementsOfEmpty DEF InFlight
  <2>3. JobFates' = JobFates
    BY <1>1, <2>1, NoJobMoves DEF InFlight
  <2>4. LedgerPhase = "running" /\ LedgerPhase' = phase'
    BY <2>1 DEF LedgerPhase
  <2>5. CASE txn = "aborted"
    <3>1. Erred
      BY <2>1, <2>5 DEF TxnState, Traces, Erred
    <3>2. Ledger!Raise
      BY <1>1, <2>1, <2>3, <2>4, <2>5, <3>1 DEF Ledger!Raise
    <3>3. QED
      BY <3>2 DEF Ledger!Next
  <2>6. CASE txn # "aborted"
    <3>1. \A i \in Item : JobFates[i] # "pending"
      BY <2>2, FatesByRule DEF Rule
    <3>2. Ledger!Commit
      BY <1>1, <2>1, <2>3, <2>4, <2>6, <3>1 DEF Ledger!Commit
    <3>3. QED
      BY <3>2 DEF Ledger!Next
  <2>7. QED
    BY <2>5, <2>6
<1>6. QED
  BY <1>3, <1>4, <1>5

\* A run keeps what RunLedger promises about the jobs it reads: every step of
\* its producers, its consumer and its clock moves jobs of one fate to the next
\* and shows in the report, or changes nothing the ledger sees.
THEOREM ImplementsLedger == Spec => LedgerSpec
<1>1. Init => Ledger!Init
  <2> SUFFICES ASSUME Init PROVE Ledger!Init
    OBVIOUS
  <2>1. \A i \in Item : Rule(i) = "unread"
    BY ElementsOfEmpty DEF Init, Rule, InFlight
  <2>2. JobFates = [i \in Item |-> "unread"]
    BY <2>1, FatesByRule
  <2>3. Erred = FALSE /\ LedgerPhase = "running" /\ budgetHit = FALSE
    BY DEF Init, Erred, LedgerPhase
  <2>4. QED
    BY <2>2, <2>3 DEF Ledger!Init
<1>2. IInv /\ Apart /\ [Next]_vars => [Ledger!Next]_(Ledger!vars)
  <2> SUFFICES ASSUME IInv, Apart, [Next]_vars PROVE [Ledger!Next]_(Ledger!vars)
    OBVIOUS
  <2>1. ASSUME NEW s \in Source, Produce(s) PROVE [Ledger!Next]_(Ledger!vars)
    BY <2>1, ProduceStepsLedger
  <2>2. CASE Consume
    BY <2>2, ConsumeStepsLedger
  <2>3. CASE PutDone \/ Finish \/ Expire \/ UNCHANGED vars
    BY <2>3, RunStepsLedger
  <2>4. QED
    BY <2>1, <2>2, <2>3 DEF Next, Terminated
<1>3. QED
  BY <1>1, <1>2, InitEstablishesApart, StepKeepsApart, RunInvariant, PTL
     DEF Spec, LedgerSpec, Ledger!Spec
=============================================================================

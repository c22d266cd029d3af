----------------------------- MODULE DiscoverRun -----------------------------
(***************************************************************************)
(* One invocation of run_discover.run: a producer per due source, a        *)
(* bounded queue, the consumer that stores, the deadline, and the single   *)
(* database connection that all of them share.                             *)
(*                                                                         *)
(* asyncio interleaves coroutines at their awaits, and psycopg's           *)
(* connection lock lets one statement through at a time, so a step is one  *)
(* statement, one reply or one queue operation.  The producers' http_cache *)
(* statements (pipeline/http.py) go through the consumer's connection, and *)
(* so may fall between its SAVEPOINT and its RELEASE or ROLLBACK TO.       *)
(***************************************************************************)
EXTENDS JobTable, FiniteSets, Functions, Sequences

CONSTANTS Source,       \* the sources that claim_source granted this run
          Board,        \* the URLs they request
          Item,         \* the RawJobs on them
          BoardsOf,     \* a source's boards, in request order
          Paged,        \* sources whose boards are pages of one feed (hn_algolia)
          Validating,   \* boards whose replies carry an ETag or Last-Modified
          ItemsOf,      \* a board's jobs, in the order of the reply
          PostingOf,    \* what to_job and prefilter make of a RawJob
          Done,         \* _DONE
          QueueSize,    \* _QUEUE_SIZE
          StartTables   \* tables the run may find

ASSUME SizeAssumption == QueueSize \in Nat \ {0}

ASSUME FeedAssumption ==
    /\ BoardsOf \in [Source -> Seq(Board)]
    /\ Paged \subseteq Source
    /\ Validating \subseteq Board
    /\ ItemsOf \in [Board -> Seq(Item)]
    /\ PostingOf \in [Item -> Posting]
    /\ Done \notin Item
    /\ StartTables \subseteq Table

Elements(seq) == {seq[i] : i \in DOMAIN seq}

\* A Board is one request and an Item one RawJob object, not a URL or a
\* posting: a token listed twice makes two boards, and a posting repeated in a
\* reply two items with the same PostingOf.
ASSUME OccurrenceAssumption ==
    /\ \A s \in Source : IsInjective(BoardsOf[s])
    /\ \A s, r \in Source : s # r => Elements(BoardsOf[s]) \cap Elements(BoardsOf[r]) = {}
    /\ \A b \in Board : IsInjective(ItemsOf[b])
    /\ \A b, c \in Board : b # c => Elements(ItemsOf[b]) \cap Elements(ItemsOf[c]) = {}

VARIABLES prod,         \* where each producer is
          boards,       \* boards it has not finished requesting
          rest,         \* jobs of the current reply not yet on the queue
          queue,
          cons,         \* where the consumer is
          hand,         \* the job it took last
          txn,          \* the connection: "ok", in a "savepoint", or "aborted"
          jobs,         \* the jobs table as the transaction sees it
          cached,       \* boards whose validators the transaction holds
          guarded,      \* those of them a ROLLBACK TO would undo
          expired,      \* the deadline has passed
          budgetHit,    \* counters["budget_hit"]
          errors,       \* sources whose fetch raised
          boardErrors,  \* sources with an entry in cfg.errors
          refused,      \* sources whose host answered 403 (blocked_hosts)
          read,         \* boards whose jobs this run received
          unchanged,    \* boards that answered 304
          skipped,      \* boards whose JSON was passed over in silence
          stored, failed, dropped, abandoned,  \* what became of the jobs
          poisoned,     \* an unguarded statement failed on the server
          phase         \* "fetching", "draining", then "committed" or "raised"

feed == <<prod, boards, rest, errors, boardErrors, refused, read, unchanged, skipped>>
db == <<txn, jobs, cached, guarded, poisoned>>
fates == <<stored, failed, dropped, abandoned>>
vars == <<feed, queue, cons, hand, db, fates, expired, budgetHit, phase>>

ProducerState == {"next", "sent", "yield", "put", "ended"}
ConsumerState == {"get", "company", "savepoint", "insert", "release",
                  "rollback", "undo", "resolve", "returned"}

Init ==
    /\ prod = [s \in Source |-> "next"]
    /\ boards = BoardsOf
    /\ rest = [s \in Source |-> <<>>]
    /\ queue = <<>>
    /\ cons = "get"
    /\ hand = Done
    /\ txn = "ok"
    /\ jobs \in StartTables
    /\ cached = {}
    /\ guarded = {}
    /\ expired = FALSE
    /\ budgetHit = FALSE
    /\ errors = {}
    /\ boardErrors = {}
    /\ refused = {}
    /\ read = {}
    /\ unchanged = {}
    /\ skipped = {}
    /\ stored = {}
    /\ failed = {}
    /\ dropped = {}
    /\ abandoned = {}
    /\ poisoned = FALSE
    /\ phase = "fetching"

-----------------------------------------------------------------------------
Goto(s, where) == prod' = [prod EXCEPT ![s] = where]

\* The plausible slips the mutants try: a queue without maxsize, the sentinel
\* after the first producer, a budget nobody flags, a producer that leaves the
\* flag to the consumer, an except around the consumer's loop, and no savepoint.
Unbounded == TRUE

SomeFetched == \E s \in Source : prod[s] = "ended"

NoFlag == UNCHANGED budgetHit

StopSilently(s) ==
    /\ prod[s] = "yield"
    /\ rest[s] # <<>>
    /\ expired
    /\ dropped' = dropped \cup Elements(rest[s])
    /\ rest' = [rest EXCEPT ![s] = <<>>]
    /\ Goto(s, "ended")
    /\ UNCHANGED <<boards, errors, boardErrors, refused, read, unchanged, skipped, stored, failed,
                   abandoned>>
    /\ UNCHANGED <<queue, cons, hand, db, expired, budgetHit, phase>>

StopConsuming ==
    /\ failed' = failed \cup {hand}
    /\ cons' = "returned"
    /\ UNCHANGED <<stored, dropped, abandoned>>

NoRollback == UNCHANGED <<feed, queue, hand, db, expired, budgetHit, phase>>

-----------------------------------------------------------------------------
(* A producer: _produce around the source's fetch generator.               *)

\* asyncio.Queue(maxsize=_QUEUE_SIZE).
Room == Len(queue) < QueueSize

\* asyncio.gather.
AllFetched == \A s \in Source : prod[s] = "ended"

FlagBudget == budgetHit' = TRUE

\* Leave the board at the head: an ATS goes on to its next board, a paged feed
\* stops at the first page without a body.
PassBoard(s) ==
    /\ boards' = [boards EXCEPT ![s] = Tail(@)]
    /\ Goto(s, IF s \in Paged THEN "ended" ELSE "next")

\* One bad board must not kill the run.
BoardFails(s) ==
    /\ boardErrors' = boardErrors \cup {s}
    /\ PassBoard(s)
    /\ UNCHANGED <<rest, errors, refused, read, unchanged, skipped>>

\* get_json begins with a SELECT from http_cache, then the request goes out.
Request(s) ==
    /\ prod[s] = "next"
    /\ boards[s] # <<>>
    /\ IF txn = "aborted"
       THEN BoardFails(s)
       ELSE /\ Goto(s, "sent")
            /\ UNCHANGED <<boards, rest, errors, boardErrors, refused, read, unchanged, skipped>>
    /\ UNCHANGED <<queue, cons, hand, db, fates, expired, budgetHit, phase>>

\* 304.
NotModified(s) ==
    /\ prod[s] = "sent"
    /\ unchanged' = unchanged \cup {Head(boards[s])}
    /\ PassBoard(s)
    /\ UNCHANGED <<rest, errors, boardErrors, refused, read, skipped>>
    /\ UNCHANGED <<queue, cons, hand, db, fates, expired, budgetHit, phase>>

\* 403: the adapter logs, stops the source and records nothing.
Refused(s) ==
    /\ prod[s] = "sent"
    /\ refused' = refused \cup {s}
    /\ Goto(s, "ended")
    /\ UNCHANGED <<boards, rest, errors, boardErrors, read, unchanged, skipped>>
    /\ UNCHANGED <<queue, cons, hand, db, fates, expired, budgetHit, phase>>

\* A timeout, a 4xx, or a retryable status on the last attempt.
RequestFails(s) ==
    /\ prod[s] = "sent"
    /\ BoardFails(s)
    /\ UNCHANGED <<queue, cons, hand, db, fates, expired, budgetHit, phase>>

\* _store_validators: an INSERT on the consumer's connection, inside whatever
\* savepoint it has open.
StoreValidators(b) ==
    IF b \in Validating /\ txn # "aborted"
    THEN /\ cached' = cached \cup {b}
         /\ guarded' = IF txn = "savepoint" THEN guarded \cup ({b} \ cached) ELSE guarded
    ELSE UNCHANGED <<cached, guarded>>

\* 200.  The validators are written before anyone looks at the body; on an
\* aborted transaction that raises.
Received(s) ==
    /\ prod[s] = "sent"
    /\ StoreValidators(Head(boards[s]))
    /\ UNCHANGED <<queue, cons, hand, txn, jobs, poisoned, expired, budgetHit, phase>>

StoringRaises(s) == Head(boards[s]) \in Validating /\ txn = "aborted"

\* The body holds the board's jobs.
Answered(s) ==
    /\ Received(s)
    /\ ~StoringRaises(s)
    /\ rest' = [rest EXCEPT ![s] = ItemsOf[Head(boards[s])]]
    /\ read' = read \cup {Head(boards[s])}
    /\ boards' = [boards EXCEPT ![s] = Tail(@)]
    /\ Goto(s, "yield")
    /\ UNCHANGED <<errors, boardErrors, refused, unchanged, skipped, fates>>

\* It is not JSON, or was never looked at.
NotJson(s) ==
    /\ Received(s)
    /\ BoardFails(s)
    /\ UNCHANGED fates

\* It is JSON but no board, and the adapter passes over it with a warning at
\* most: lever what is not a list, the others an object without "jobs", and all
\* of them a null, which reads as a 304.
PassedOver(s) ==
    /\ Received(s)
    /\ ~StoringRaises(s)
    /\ skipped' = skipped \cup {Head(boards[s])}
    /\ PassBoard(s)
    /\ UNCHANGED <<rest, errors, boardErrors, refused, read, unchanged, fates>>

\* A generator raises where the data is not of the shape it expects: the whole
\* source stops.  hn_algolia catches the exception, the others leave it to
\* _produce.
SourceFails(s) ==
    /\ errors' = IF s \in Paged THEN errors ELSE errors \cup {s}
    /\ boardErrors' = IF s \in Paged THEN boardErrors \cup {s} ELSE boardErrors
    /\ Goto(s, "ended")
    /\ UNCHANGED <<boards, refused, read, unchanged, skipped>>

\* The other adapters, on JSON that is no board.
NoBoard(s) ==
    /\ Received(s)
    /\ ~StoringRaises(s)
    /\ SourceFails(s)
    /\ UNCHANGED <<rest, fates>>

\* The generator has no more jobs on this board.
BoardDone(s) ==
    /\ prod[s] = "yield"
    /\ rest[s] = <<>>
    /\ Goto(s, "next")
    /\ UNCHANGED <<boards, rest, errors, boardErrors, refused, read, unchanged, skipped>>
    /\ UNCHANGED <<queue, cons, hand, db, fates, expired, budgetHit, phase>>

\* A paged feed stops where the reply says so (the last page, or no thread).
LastPage(s) ==
    /\ prod[s] = "yield"
    /\ rest[s] = <<>>
    /\ s \in Paged
    /\ Goto(s, "ended")
    /\ UNCHANGED <<boards, rest, errors, boardErrors, refused, read, unchanged, skipped>>
    /\ UNCHANGED <<queue, cons, hand, db, fates, expired, budgetHit, phase>>

\* An entry lacks a field.
Malformed(s) ==
    /\ prod[s] = "yield"
    /\ rest[s] # <<>>
    /\ SourceFails(s)
    /\ abandoned' = abandoned \cup Elements(rest[s])
    /\ rest' = [rest EXCEPT ![s] = <<>>]
    /\ UNCHANGED <<stored, failed, dropped>>
    /\ UNCHANGED <<queue, cons, hand, db, expired, budgetHit, phase>>

\* A yielded job finds the deadline passed: the source stops.
StopOnBudget(s) ==
    /\ prod[s] = "yield"
    /\ rest[s] # <<>>
    /\ expired
    /\ FlagBudget
    /\ dropped' = dropped \cup Elements(rest[s])
    /\ rest' = [rest EXCEPT ![s] = <<>>]
    /\ Goto(s, "ended")
    /\ UNCHANGED <<boards, errors, boardErrors, refused, read, unchanged, skipped, stored, failed,
                   abandoned>>
    /\ UNCHANGED <<queue, cons, hand, db, expired, phase>>

\* It does not: queue.put, which waits while the queue is full.
Offer(s) ==
    /\ prod[s] = "yield"
    /\ rest[s] # <<>>
    /\ ~expired
    /\ Goto(s, "put")
    /\ UNCHANGED <<boards, rest, errors, boardErrors, refused, read, unchanged, skipped>>
    /\ UNCHANGED <<queue, cons, hand, db, fates, expired, budgetHit, phase>>

Put(s) ==
    /\ prod[s] = "put"
    /\ Room
    /\ queue' = Append(queue, Head(rest[s]))
    /\ rest' = [rest EXCEPT ![s] = Tail(@)]
    /\ Goto(s, "yield")
    /\ UNCHANGED <<boards, errors, boardErrors, refused, read, unchanged, skipped>>
    /\ UNCHANGED <<cons, hand, db, fates, expired, budgetHit, phase>>

\* The generator is exhausted.
SourceDone(s) ==
    /\ prod[s] = "next"
    /\ boards[s] = <<>>
    /\ Goto(s, "ended")
    /\ UNCHANGED <<boards, rest, errors, boardErrors, refused, read, unchanged, skipped>>
    /\ UNCHANGED <<queue, cons, hand, db, fates, expired, budgetHit, phase>>

Produce(s) ==
    \/ Request(s)
    \/ NotModified(s)
    \/ Refused(s)
    \/ RequestFails(s)
    \/ Answered(s)
    \/ NotJson(s)
    \/ PassedOver(s)
    \/ NoBoard(s)
    \/ BoardDone(s)
    \/ LastPage(s)
    \/ Malformed(s)
    \/ StopOnBudget(s)
    \/ Offer(s)
    \/ Put(s)
    \/ SourceDone(s)

-----------------------------------------------------------------------------
(* The consumer: _consume, upsert_company and upsert_job.                  *)

TakeDone ==
    /\ cons = "get"
    /\ queue # <<>>
    /\ Head(queue) = Done
    /\ queue' = Tail(queue)
    /\ cons' = "returned"
    /\ UNCHANGED <<feed, hand, db, fates, expired, budgetHit, phase>>

\* Drain without writing.
TakeLate ==
    /\ cons = "get"
    /\ queue # <<>>
    /\ Head(queue) # Done
    /\ expired
    /\ queue' = Tail(queue)
    /\ FlagBudget
    /\ dropped' = dropped \cup {Head(queue)}
    /\ UNCHANGED <<feed, cons, hand, db, stored, failed, abandoned, expired, phase>>

TakeJob ==
    /\ cons = "get"
    /\ queue # <<>>
    /\ Head(queue) # Done
    /\ ~expired
    /\ queue' = Tail(queue)
    /\ hand' = Head(queue)
    /\ cons' = "company"
    /\ UNCHANGED <<feed, db, fates, expired, budgetHit, phase>>

\* The except clause of _consume: count the job and go on.
CountFailure ==
    /\ failed' = failed \cup {hand}
    /\ cons' = "get"
    /\ UNCHANGED <<stored, dropped, abandoned>>

CountStored ==
    /\ stored' = stored \cup {hand}
    /\ cons' = "get"
    /\ UNCHANGED <<failed, dropped, abandoned>>

\* upsert_company has no savepoint: a failure on the server aborts the run's
\* whole transaction, one in the client (or in to_job) only costs the job.
CompanyStored ==
    /\ cons = "company"
    /\ txn = "ok"
    /\ cons' = "savepoint"
    /\ UNCHANGED <<feed, queue, hand, db, fates, expired, budgetHit, phase>>

CompanyFails(onServer) ==
    /\ cons = "company"
    /\ txn' = IF onServer THEN "aborted" ELSE txn
    /\ poisoned' = (poisoned \/ onServer)
    /\ CountFailure
    /\ UNCHANGED <<feed, queue, hand, jobs, cached, guarded, expired, budgetHit, phase>>

\* conn.transaction() inside the run's transaction: SAVEPOINT.
OpenSavepoint ==
    /\ cons = "savepoint"
    /\ txn' = "savepoint"
    /\ guarded' = {}
    /\ cons' = "insert"
    /\ UNCHANGED <<feed, queue, hand, jobs, cached, poisoned, fates, expired, budgetHit, phase>>

\* _UPSERT_JOB, which may raise UniqueViolation.
InsertJob ==
    /\ cons = "insert"
    /\ IF Collides(jobs, PostingOf[hand])
       THEN txn' = "aborted" /\ cons' = "rollback" /\ UNCHANGED jobs
       ELSE jobs' = Upsert(jobs, PostingOf[hand], 1) /\ cons' = "release" /\ UNCHANGED txn
    /\ UNCHANGED <<feed, queue, hand, cached, guarded, poisoned, fates, expired, budgetHit, phase>>

\* Any other error of the statement, on the server or before it is sent.
InsertFails(onServer) ==
    /\ cons = "insert"
    /\ txn' = IF onServer THEN "aborted" ELSE txn
    /\ cons' = "undo"
    /\ UNCHANGED <<feed, queue, hand, jobs, cached, guarded, poisoned, fates, expired, budgetHit,
                   phase>>

ReleaseSavepoint ==
    /\ cons = "release"
    /\ txn' = "ok"
    /\ guarded' = {}
    /\ CountStored
    /\ UNCHANGED <<feed, queue, hand, jobs, cached, poisoned, expired, budgetHit, phase>>

\* ROLLBACK TO: validators a producer wrote since the savepoint go with it.
RollbackTo ==
    /\ txn' = "ok"
    /\ cached' = cached \ guarded
    /\ guarded' = {}
    /\ UNCHANGED <<feed, queue, hand, jobs, poisoned, expired, budgetHit, phase>>

RollbackCollision ==
    /\ cons = "rollback"
    /\ cons' = "resolve"
    /\ RollbackTo
    /\ UNCHANGED fates

RollbackFailure ==
    /\ cons = "undo"
    /\ CountFailure
    /\ RollbackTo

\* The UPDATE by fingerprint; without a match, row["job_id"] raises TypeError.
ResolveJob ==
    /\ cons = "resolve"
    /\ IF jobs[PostingOf[hand].fp] # NoRow
       THEN jobs' = Resolve(jobs, PostingOf[hand], 1) /\ CountStored
       ELSE UNCHANGED jobs /\ CountFailure
    /\ UNCHANGED <<feed, queue, hand, txn, cached, guarded, poisoned, expired, budgetHit, phase>>

\* The UPDATE itself fails: it runs after the savepoint is gone.
ResolveFails(onServer) ==
    /\ cons = "resolve"
    /\ txn' = IF onServer THEN "aborted" ELSE txn
    /\ poisoned' = (poisoned \/ onServer)
    /\ CountFailure
    /\ UNCHANGED <<feed, queue, hand, jobs, cached, guarded, expired, budgetHit, phase>>

Consume ==
    \/ TakeDone
    \/ TakeLate
    \/ TakeJob
    \/ CompanyStored
    \/ \E onServer \in BOOLEAN :
           CompanyFails(onServer) \/ InsertFails(onServer) \/ ResolveFails(onServer)
    \/ OpenSavepoint
    \/ InsertJob
    \/ ReleaseSavepoint
    \/ RollbackCollision
    \/ RollbackFailure
    \/ ResolveJob

-----------------------------------------------------------------------------
(* run itself, and the clock.                                              *)

\* gather returned; queue.put(_DONE) waits for room like any other put.
PutDone ==
    /\ phase = "fetching"
    /\ AllFetched
    /\ Room
    /\ queue' = Append(queue, Done)
    /\ phase' = "draining"
    /\ UNCHANGED <<feed, cons, hand, db, fates, expired, budgetHit>>

\* record_source_result and finish_run, then the commit.  On an aborted
\* transaction the first of these statements raises and nothing is kept.
Finish ==
    /\ phase = "draining"
    /\ cons = "returned"
    /\ phase' = IF txn = "aborted" THEN "raised" ELSE "committed"
    /\ UNCHANGED <<feed, queue, cons, hand, db, fates, expired, budgetHit>>

Expire ==
    /\ ~expired
    /\ phase \in {"fetching", "draining"}
    /\ expired' = TRUE
    /\ UNCHANGED <<feed, queue, cons, hand, db, fates, budgetHit, phase>>

Terminated == phase \in {"committed", "raised"} /\ UNCHANGED vars

Next ==
    \/ \E s \in Source : Produce(s)
    \/ Consume
    \/ PutDone
    \/ Finish
    \/ Expire
    \/ Terminated

Spec == Init /\ [][Next]_vars

\* The event loop runs every coroutine that can run: requests time out and are
\* retried a bounded number of times, and statements complete.
FairSpec ==
    /\ Spec
    /\ \A s \in Source : WF_vars(Produce(s))
    /\ WF_vars(Consume)
    /\ WF_vars(PutDone \/ Finish)

-----------------------------------------------------------------------------
TypeOK ==
    /\ prod \in [Source -> ProducerState]
    /\ boards \in [Source -> Seq(Board)]
    /\ rest \in [Source -> Seq(Item)]
    /\ queue \in Seq(Item \cup {Done})
    /\ Len(queue) <= QueueSize
    /\ cons \in ConsumerState
    /\ hand \in Item \cup {Done}
    /\ txn \in {"ok", "savepoint", "aborted"}
    /\ jobs \in Table
    /\ cached \in SUBSET Board
    /\ guarded \in SUBSET Board
    /\ expired \in BOOLEAN
    /\ budgetHit \in BOOLEAN
    /\ poisoned \in BOOLEAN
    /\ errors \in SUBSET Source
    /\ boardErrors \in SUBSET Source
    /\ refused \in SUBSET Source
    /\ read \in SUBSET Board
    /\ unchanged \in SUBSET Board
    /\ skipped \in SUBSET Board
    /\ stored \in SUBSET Item
    /\ failed \in SUBSET Item
    /\ dropped \in SUBSET Item
    /\ abandoned \in SUBSET Item
    /\ phase \in {"fetching", "draining", "committed", "raised"}

ItemsRead == UNION {Elements(ItemsOf[b]) : b \in read}

Settled == stored \cup failed \cup dropped \cup abandoned

\* No job falls between the coroutines: when the run ends, every job of every
\* reply it received was stored, counted as failed, dropped on the budget or
\* given up with its source -- none is left on the queue, behind a put that
\* waited, or in the consumer's hand.
NothingLost == phase \in {"committed", "raised"} => ItemsRead \subseteq Settled

\* A run that reports neither errors nor budget_hit stored every job it read
\* and had an answer from every board of an ATS whose host did not refuse it:
\* its jobs, a 304, or JSON that is no board, the one answer that can leave a
\* board unread without a trace (lever.py:70-72, greenhouse.py:56).
QuietRunIsComplete ==
    (phase = "committed" /\ ~budgetHit /\ errors = {} /\ boardErrors = {} /\ failed = {})
    => /\ ItemsRead \subseteq stored
       /\ \A s \in Source \ (refused \cup Paged) :
              Elements(BoardsOf[s]) \subseteq read \cup unchanged \cup skipped

\* The savepoint confines the damage of a collision (store.py:142): between
\* jobs the transaction is usable unless an unguarded statement failed, so
\* only that can lose the run.
SavepointConfines ==
    /\ (txn = "aborted" /\ cons \notin {"rollback", "undo"}) => poisoned
    /\ phase = "raised" => poisoned

\* The run ends by itself: no put waits forever on a full queue, and the
\* sentinel reaches the consumer.
RunEnds == <>(phase \in {"committed", "raised"})

\* "Without it a run in which every board errored still reports errors=0 ...
\* so the digest looks healthy while nothing was ingested" (sources/base.py):
\* a run that reports no error and no budget_hit got every board's jobs or a 304.
\* The code does not keep this: a refused host is recorded nowhere, and neither
\* is JSON that is no board.
QuietRunAskedEveryBoard ==
    (phase = "committed" /\ ~budgetHit /\ errors = {} /\ boardErrors = {})
    => \A s \in Source \ Paged : Elements(BoardsOf[s]) \subseteq read \cup unchanged

-----------------------------------------------------------------------------
(* DiscoverRun implements RunLedger.                                       *)

Pending ==
    ((UNION {Elements(rest[s]) : s \in Source}) \cup Elements(queue)
        \cup (IF cons \in {"get", "returned"} THEN {} ELSE {hand})) \ {Done}

FateOf(i) ==
    IF i \in stored THEN "stored"
    ELSE IF i \in failed THEN "failed"
    ELSE IF i \in dropped THEN "dropped"
    ELSE IF i \in abandoned THEN "abandoned"
    ELSE IF i \in Pending THEN "pending"
    ELSE "unread"

JobFates == [i \in Item |-> FateOf(i)]

\* run_log.errors counts all three.
Erred == errors # {} \/ boardErrors # {} \/ failed # {}

LedgerPhase == IF phase \in {"fetching", "draining"} THEN "running" ELSE phase

Ledger == INSTANCE RunLedger WITH
    fate      <- JobFates,
    erred     <- Erred,
    phase     <- LedgerPhase

LedgerSpec == Ledger!Spec
=============================================================================

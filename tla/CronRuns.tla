------------------------------ MODULE CronRuns ------------------------------
(***************************************************************************)
(* Overlapping deliveries of the discover cron (api/index.py), each one    *)
(* transaction that claims every source, fetches those that are due and    *)
(* commits or is rolled back whole.                                        *)
(*                                                                         *)
(* What two runs share is the committed database: when a source was last   *)
(* claimed, the validators of its feed (http_cache) and which version of   *)
(* the feed the jobs table holds.  A source is one URL here; what happens  *)
(* inside a fetch is module DiscoverRun's subject.                         *)
(***************************************************************************)
EXTENDS Naturals

CONSTANTS Run,          \* function instances, each serving one delivery at a time
          Source,
          Rank,         \* the place of each source in SOURCES
          Interval,     \* min_interval_seconds
          Budget,       \* run_budget_seconds
          Ceiling,      \* maxDuration, where the platform kills the function
          NoRun,        \* the holder of a free row lock
          MaxTime,      \* bound on the clock
          MaxVersion    \* bound on the versions each feed goes through

ASSUME CronAssumption ==
    /\ Rank \in [Source -> Nat]
    /\ \A s, t \in Source : Rank[s] = Rank[t] => s = t
    /\ Interval \in [Source -> Nat]
    /\ Budget \in Nat /\ Ceiling \in Nat /\ Budget < Ceiling
    /\ NoRun \notin Run

VARIABLES now,
          published,    \* the version of each source's feed
          pc,           \* where each run is
          start,        \* now() in the run's transaction
          toClaim,      \* sources it has not come to yet
          fate,         \* what this run did about each source
          got,          \* the version it received
          lock,         \* the run that holds the source_state row
          claimedAt,    \* committed last_fetch_started_at; 0 for NULL
          etag,         \* committed validators, as the version they stand for
          stored,       \* the version whose jobs are committed
          outcome,      \* what became of each source's last reply (auxiliary)
          visited,      \* when each source with an interval was last requested (auxiliary)
          rushed        \* sources requested before their interval was over (auxiliary)

runs == <<pc, start, toClaim, fate, got>>
db == <<claimedAt, etag, stored, outcome>>
asked == <<visited, rushed>>
vars == <<now, published, runs, lock, db, asked>>

RunState == {"off", "claiming", "working"}
SourceFate == {"untouched", "skipped", "due", "replied", "kept", "dropped", "lost", "unchanged", "failed"}
Outcome == {"kept", "dropped", "lost"}

Init ==
    /\ now = 1
    /\ published = [s \in Source |-> 1]
    /\ pc = [r \in Run |-> "off"]
    /\ start = [r \in Run |-> 0]
    /\ toClaim = [r \in Run |-> Source]
    /\ fate = [r \in Run |-> [s \in Source |-> "untouched"]]
    /\ got = [r \in Run |-> [s \in Source |-> 0]]
    /\ lock = [s \in Source |-> NoRun]
    /\ claimedAt = [s \in Source |-> 0]
    /\ etag = [s \in Source |-> 0]
    /\ stored = [s \in Source |-> 0]
    /\ outcome = [s \in Source |-> "kept"]
    /\ visited = [s \in Source |-> 0]
    /\ rushed = {}

Active(r) == pc[r] \in {"claiming", "working"}

Late(r) == now >= start[r] + Budget

Settle(r, s, what) == fate' = [fate EXCEPT ![r][s] = what]

\* What r's transaction wrote, over what is committed.
Written(r, table) == [s \in Source |-> IF got[r][s] # 0 THEN got[r][s] ELSE table[s]]

\* The plausible slips the mutants try: a claim whose statement autocommits,
\* an interval that is not looked at, sources claimed in no fixed order, locks
\* that outlive their run, validators written on a connection of their own.
LockNothing(r, s) == UNCHANGED lock

DueAtOnce(r, s) == claimedAt[s] = 0 \/ claimedAt[s] < start[r]

AnyUnclaimed(r) == toClaim[r]

KeepLocks(r) == UNCHANGED lock

ValidatorsSurvive(r) == etag' = Written(r, etag) /\ UNCHANGED <<claimedAt, stored, outcome>>

-----------------------------------------------------------------------------
\* The clock.  The platform lets no run pass the ceiling.
Tick ==
    /\ now < MaxTime
    /\ \A r \in Run : Active(r) => now < start[r] + Ceiling
    /\ now' = now + 1
    /\ UNCHANGED <<published, runs, lock, db, asked>>

\* The operator's side, outside src/: the feed changes.
Publish(s) ==
    /\ published[s] < MaxVersion[s]
    /\ published' = [published EXCEPT ![s] = @ + 1]
    /\ UNCHANGED <<now, runs, lock, db, asked>>

\* GET /api/cron/discover: the transaction begins with start_run.  The
\* scheduler may skip a tick, repeat one, or deliver one while another runs.
Deliver(r) ==
    /\ pc[r] = "off"
    /\ pc' = [pc EXCEPT ![r] = "claiming"]
    /\ start' = [start EXCEPT ![r] = now]
    /\ UNCHANGED <<now, published, toClaim, fate, got, lock, db, asked>>

-----------------------------------------------------------------------------
(* claim_source                                                            *)

NextToClaim(r) == {s \in toClaim[r] : \A t \in toClaim[r] : Rank[s] <= Rank[t]}

\* The WHERE clause, on the row as last committed.
IsDue(r, s) == claimedAt[s] = 0 \/ claimedAt[s] + Interval[s] < start[r]

\* ON CONFLICT DO UPDATE locks the row even where its WHERE clause is false;
\* the lock is the transaction's, not the statement's.
LockRow(r, s) == lock' = [lock EXCEPT ![s] = r]

\* The statement waits for the row's lock and then evaluates its condition.
Claim(r, s) ==
    /\ pc[r] = "claiming"
    /\ s \in NextToClaim(r)
    /\ lock[s] = NoRun
    /\ LockRow(r, s)
    /\ toClaim' = [toClaim EXCEPT ![r] = @ \ {s}]
    /\ Settle(r, s, IF IsDue(r, s) THEN "due" ELSE "skipped")
    /\ UNCHANGED <<now, published, pc, start, got, db, asked>>

BeginWork(r) ==
    /\ pc[r] = "claiming"
    /\ toClaim[r] = {}
    /\ pc' = [pc EXCEPT ![r] = "working"]
    /\ UNCHANGED <<now, published, start, toClaim, fate, got, lock, db, asked>>

-----------------------------------------------------------------------------
(* The fetch of one source, whose server sends validators.                 *)

Visit(s) ==
    /\ rushed' = IF visited[s] # 0 /\ now < visited[s] + Interval[s]
                 THEN rushed \cup {s} ELSE rushed
    /\ visited' = [visited EXCEPT ![s] = IF Interval[s] = 0 \/ rushed' # {} THEN 0 ELSE now]

\* The conditional request.  A 200 writes the validators before any of its
\* jobs is stored.
Request(r, s) ==
    /\ pc[r] = "working"
    /\ fate[r][s] = "due"
    /\ Visit(s)
    /\ IF etag[s] = published[s]
       THEN Settle(r, s, "unchanged") /\ UNCHANGED got
       ELSE Settle(r, s, "replied") /\ got' = [got EXCEPT ![r][s] = published[s]]
    /\ UNCHANGED <<now, published, pc, start, toClaim, lock, db>>

\* No 200: blocked, an error status to the last attempt, a timeout.  Nothing is
\* written.
RequestFails(r, s) ==
    /\ pc[r] = "working"
    /\ fate[r][s] = "due"
    /\ Visit(s)
    /\ Settle(r, s, "failed")
    /\ UNCHANGED <<now, published, pc, start, toClaim, got, lock, db>>

\* The consumer gets through all of the reply's jobs in time ...
Store(r, s) ==
    /\ pc[r] = "working"
    /\ fate[r][s] = "replied"
    /\ ~Late(r)
    /\ Settle(r, s, "kept")
    /\ UNCHANGED <<now, published, pc, start, toClaim, got, lock, db, asked>>

\* ... or the deadline passes: "drain without writing".
Drop(r, s) ==
    /\ pc[r] = "working"
    /\ fate[r][s] = "replied"
    /\ Late(r)
    /\ Settle(r, s, "dropped")
    /\ UNCHANGED <<now, published, pc, start, toClaim, got, lock, db, asked>>

\* ... or the validators are all that is kept of it: the body is not JSON or no
\* list of jobs, an entry is malformed and ends the board, an upsert fails or
\* finds no row to refresh.
Lose(r, s) ==
    /\ pc[r] = "working"
    /\ fate[r][s] = "replied"
    /\ Settle(r, s, "lost")
    /\ UNCHANGED <<now, published, pc, start, toClaim, got, lock, db, asked>>

-----------------------------------------------------------------------------
Unlock(r) == lock' = [s \in Source |-> IF lock[s] = r THEN NoRun ELSE lock[s]]

\* The transaction is over: its locks are free, the instance takes the next delivery.
EndRun(r) ==
    /\ pc' = [pc EXCEPT ![r] = "off"]
    /\ start' = [start EXCEPT ![r] = 0]
    /\ toClaim' = [toClaim EXCEPT ![r] = Source]
    /\ fate' = [fate EXCEPT ![r] = [s \in Source |-> "untouched"]]
    /\ got' = [got EXCEPT ![r] = [s \in Source |-> 0]]
    /\ Unlock(r)

Did(r, what) == {s \in Source : fate[r][s] = what}

Commit(r) ==
    /\ pc[r] = "working"
    /\ Did(r, "due") \cup Did(r, "replied") = {}
    /\ claimedAt' = [s \in Source |-> IF fate[r][s] # "skipped" THEN start[r] ELSE claimedAt[s]]
    /\ etag' = Written(r, etag)
    /\ stored' = [s \in Source |-> IF fate[r][s] = "kept" THEN got[r][s] ELSE stored[s]]
    /\ outcome' = [s \in Source |-> IF fate[r][s] \in Outcome THEN fate[r][s] ELSE outcome[s]]
    /\ EndRun(r)
    /\ UNCHANGED <<now, published, asked>>

RollBack(r) == UNCHANGED db

\* Killed at the ceiling, crashed, or run() raised: rolled back, locks freed.
Kill(r) ==
    /\ Active(r)
    /\ RollBack(r)
    /\ EndRun(r)
    /\ UNCHANGED <<now, published, asked>>

Proceed(r) ==
    \/ \E s \in Source :
        \/ Claim(r, s)
        \/ Request(r, s)
        \/ RequestFails(r, s)
        \/ Store(r, s)
        \/ Drop(r, s)
        \/ Lose(r, s)
    \/ BeginWork(r)
    \/ Commit(r)

Next ==
    \/ Tick
    \/ \E s \in Source : Publish(s)
    \/ \E r \in Run : Deliver(r) \/ Proceed(r) \/ Kill(r)

Spec == Init /\ [][Next]_vars

\* A run that can move moves, and PostgreSQL hands a row's lock to those who
\* queue for it in turn, so a waiter is not passed over forever.  Nothing makes
\* the scheduler deliver a run, or the platform kill one.
FairSpec == Spec /\ \A r \in Run : SF_vars(Proceed(r))

-----------------------------------------------------------------------------
\* A lock belongs to a run that is still there.
TypeOK ==
    /\ now \in Nat
    /\ published \in [Source -> Nat \ {0}]
    /\ pc \in [Run -> RunState]
    /\ start \in [Run -> Nat]
    /\ toClaim \in [Run -> SUBSET Source]
    /\ fate \in [Run -> [Source -> SourceFate]]
    /\ got \in [Run -> [Source -> Nat]]
    /\ lock \in [Source -> Run \cup {NoRun}]
    /\ \A s \in Source : lock[s] # NoRun => Active(lock[s])
    /\ claimedAt \in [Source -> Nat]
    /\ etag \in [Source -> Nat]
    /\ stored \in [Source -> Nat]
    /\ outcome \in [Source -> Outcome]
    /\ visited \in [Source -> Nat]
    /\ rushed \in SUBSET Source

\* "Two overlapping cron invocations cannot both claim the same source"
\* (store.py:214), and more: since every run claims every source before it
\* fetches any, runs never fetch or write at the same time.
RunsAreSerialised ==
    \A r, q \in Run : pc[r] = "working" /\ pc[q] = "working" => r = q

\* r waits for a row that q has locked.
Waits(r, q) ==
    /\ pc[r] = "claiming"
    /\ NextToClaim(r) # {}
    /\ \A s \in NextToClaim(r) : lock[s] = q

\* A run that waits holds no row itself, so waiting never closes a cycle.
ClaimsNeverDeadlock ==
    \A r, q \in Run : Waits(r, q) => \A s \in Source : lock[s] # r

\* Two committed claims of a source are more than its interval apart, also
\* when the second run waited for the first one's locks, or began before it.
ClaimsAreSpaced ==
    [][\A s \in Source :
        claimedAt[s] \notin {0, claimedAt'[s]} => claimedAt'[s] > claimedAt[s] + Interval[s]]_vars

\* Validators and the rows they stand for are committed together, whatever is
\* killed, overlaps or fails and when: where a board's rows are not those its
\* validators name, its last reply came and was dropped on the budget or lost.
ValidatorsMatchRows == \A s \in Source : etag[s] # stored[s] => outcome[s] \in {"dropped", "lost"}

\* A run that was delivered ends, however many others it has to wait for.
DeliveredRunsEnd == \A r \in Run : pc[r] = "claiming" ~> ~Active(r)

\* "drain without writing; the next run refetches" (run_discover.py:106): what
\* was dropped on the budget is not answered with 304 the next time.  The code
\* does not keep this: the reply's validators were stored when it arrived.
NextRunRefetches == \A s \in Source : outcome[s] = "dropped" => etag[s] # published[s]

\* The interval is "minimum seconds between fetches of this source"
\* (sources/base.py).  The code does not keep this: a killed run's claim is
\* rolled back, the requests it made are not.
FetchesAreSpaced == rushed = {}
=============================================================================

------------------------------ MODULE JobStore ------------------------------
(***************************************************************************)
(* What a sequence of discovery runs makes of the jobs table while the     *)
(* boards they read publish, edit, repost and withdraw postings.           *)
(*                                                                         *)
(* A run is one transaction (pipeline/db.py: the pooled connection is not  *)
(* autocommit, and run_discover.py's CLI opens one around the whole run),  *)
(* so it works on a private copy that FinishRun publishes and KillRun      *)
(* discards.  Runs do not overlap here: module CronRuns shows that the     *)
(* row locks of claim_source serialise them.                               *)
(***************************************************************************)
EXTENDS JobTable, FiniteSets, Sequences

CONSTANT MaxRuns        \* bound on the run counter

VARIABLES live,         \* what the boards show now, at most one posting a sid
          batch,        \* postings this run fetched and has not yet consumed
          log,          \* postings this run consumed, in order
          failed,       \* those of them whose upsert_job raised
          new,          \* counters["new"] of this run
          jobs,         \* the jobs table as the open transaction sees it
          saved,        \* the jobs table as committed
          newTotal,     \* the sum of run_log.jobs_new, committed
          run,          \* number of the last run; now() is constant in a run
          open,         \* a run is in progress
          history       \* every posting ever consumed (auxiliary)

vars == <<live, batch, log, failed, new, jobs, saved, newTotal, run, open, history>>

Init ==
    /\ live = {}
    /\ batch = {}
    /\ log = <<>>
    /\ failed = {}
    /\ new = 0
    /\ jobs = EmptyTable
    /\ saved = EmptyTable
    /\ newTotal = 0
    /\ run = 0
    /\ open = FALSE
    /\ history = {}

-----------------------------------------------------------------------------
\* The employer's side, outside src/: a posting appears, or its content moves
\* while its source id stays.
Publish(p) ==
    /\ p \notin live
    /\ live' = {q \in live : q.sid # p.sid} \cup {p}
    /\ UNCHANGED <<batch, log, failed, new, jobs, saved, newTotal, run, open, history>>

Withdraw(p) ==
    /\ live' = live \ {p}
    /\ UNCHANGED <<batch, log, failed, new, jobs, saved, newTotal, run, open, history>>

\* The run begins, and its adapters yield the postings of some of the boards
\* (the others answered 304 or failed).
StartRun(fetched) ==
    /\ ~open
    /\ run < MaxRuns
    /\ open' = TRUE
    /\ run' = run + 1
    /\ batch' = fetched
    /\ log' = <<>>
    /\ failed' = {}
    /\ new' = 0
    /\ UNCHANGED <<live, jobs, saved, newTotal, history>>

\* One turn of _consume before the deadline.
Consume(p) ==
    /\ open
    /\ batch' = batch \ {p}
    /\ log' = Append(log, p)
    /\ jobs' = Sighted(jobs, p, run)
    /\ IF Fails(jobs, p)
       THEN failed' = failed \cup {p} /\ UNCHANGED new
       ELSE /\ new' = IF ~Collides(jobs, p) /\ IsNew(jobs, p, run) THEN new + 1 ELSE new
            /\ UNCHANGED failed
    /\ history' = history \cup {p}
    /\ UNCHANGED <<live, saved, newTotal, run, open>>

\* The deadline passes: the consumer drains what is left without writing.
Drain ==
    /\ open
    /\ batch # {}
    /\ batch' = {}
    /\ UNCHANGED <<live, log, failed, new, jobs, saved, newTotal, run, open, history>>

\* finish_run, then the commit on leaving connection().
FinishRun ==
    /\ open
    /\ batch = {}
    /\ open' = FALSE
    /\ saved' = jobs
    /\ newTotal' = newTotal + new
    /\ UNCHANGED <<live, batch, log, failed, new, jobs, run, history>>

\* The platform kills the function at maxDuration, run() raises, or the CLI was
\* given --dry-run (force_rollback): the transaction is rolled back whole.
KillRun ==
    /\ open
    /\ open' = FALSE
    /\ batch' = {}
    /\ log' = <<>>
    /\ failed' = {}
    /\ new' = 0
    /\ jobs' = saved
    /\ UNCHANGED <<live, saved, newTotal, run, history>>

Next ==
    \/ \E p \in Posting : Publish(p)
    \/ \E p \in live : Withdraw(p)
    \/ \E fetched \in SUBSET live : StartRun(fetched)
    \/ \E p \in batch : Consume(p)
    \/ Drain
    \/ FinishRun
    \/ KillRun

Spec == Init /\ [][Next]_vars

-----------------------------------------------------------------------------
TypeOK ==
    /\ live \in SUBSET Posting
    /\ batch \in SUBSET Posting
    /\ log \in Seq(Posting)
    /\ failed \in SUBSET Posting
    /\ new \in Nat
    /\ jobs \in Table
    /\ saved \in Table
    /\ newTotal \in Nat
    /\ run \in Nat
    /\ open \in BOOLEAN
    /\ history \in SUBSET Posting

\* The jobs_new the run log reports, summed over the committed runs and the
\* open one, is the number of rows the table holds: no row is counted twice
\* (a repost, a duplicate within a run, a run delivered again after a kill)
\* and none appears uncounted.
NewCountsRows ==
    /\ Cardinality(Stored(saved)) = newTotal
    /\ Cardinality(Stored(jobs)) = newTotal + (IF open THEN new ELSE 0)

\* A row never mixes two postings: its source id was seen with its content,
\* and so was its verdict.  Within a run the last sighting of a content decides
\* its verdict, also when it went through the fallback update: a rule change or
\* an edit reaches the row at the next sighting.
RowsFollowTheirSightings ==
    /\ \A f \in Stored(jobs) :
           /\ \E p \in history : p.fp = f /\ p.sid = jobs[f].sid
           /\ \E p \in history : p.fp = f /\ p.verdict = jobs[f].verdict
    /\ \A i \in DOMAIN log :
           (/\ log[i] \notin failed
            /\ \A j \in DOMAIN log : log[j].fp = log[i].fp => j <= i)
           => /\ jobs[log[i].fp] # NoRow
              /\ jobs[log[i].fp].verdict = log[i].verdict
              /\ jobs[log[i].fp].last = run

\* Rows are permanent: neither a commit nor a kill nor a repost takes away a
\* committed row or moves its first_seen_at, which scores and applications
\* refer to by job_id.
RowsArePermanent ==
    [][\A f \in Stored(saved) : f \in Stored(saved') /\ saved'[f].first = saved[f].first]_vars

\* The table after the first n sightings of this run are delivered once more,
\* as a cron that arrives twice does, by the next run's clock.
Redelivered[n \in 0..Len(log)] ==
    IF n = 0 THEN jobs ELSE Sighted(Redelivered[n - 1], log[n], run + 1)

\* What of a table does not depend on the order of deliveries.
Judged(tbl) == [f \in Stored(tbl) |-> <<tbl[f].verdict, tbl[f].first>>]

\* "Run it twice, get the same rows" (store.py:4), as far as the code keeps it:
\* when every sighting of a run was stored, delivering them again adds no row,
\* fails on none, and leaves every verdict and first_seen_at.
RunTwiceSameJobs ==
    failed = {} =>
        /\ Judged(Redelivered[Len(log)]) = Judged(jobs)
        /\ \A n \in DOMAIN log : ~Fails(Redelivered[n - 1], log[n])

\* The sentence as it stands, which the code does not keep: a sighting that
\* collided and was resolved onto its content's row no longer collides when a
\* later sighting of the run moved the other row, so it now moves the source id.
RunTwiceSameRows ==
    failed = {} =>
        \A f \in Fingerprint : jobs[f] # NoRow => Redelivered[Len(log)][f].sid = jobs[f].sid

\* "Insert or match a job by content fingerprint": a sighting is always stored
\* (store.py:113).  The code does not keep this.
EverySightingStored == failed = {}
=============================================================================

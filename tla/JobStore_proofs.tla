--------------------------- MODULE JobStore_proofs ---------------------------
(***************************************************************************)
(* What holds of JobStore for every set of fingerprints, source ids and    *)
(* verdicts, and every number of runs.                                     *)
(***************************************************************************)
EXTENDS JobStore, FiniteSetTheorems, TLAPS

-----------------------------------------------------------------------------
(* What one upsert_job does to any table.                                  *)

\* upsert_job maps a table to a table.
LEMMA SightedType ==
    ASSUME NEW tbl \in Table, NEW p \in Posting, NEW now \in Nat
    PROVE  Sighted(tbl, p, now) \in Table
<1>1. CASE ~Collides(tbl, p)
  <2>1. (IF tbl[p.fp] = NoRow THEN now ELSE tbl[p.fp].first) \in Nat
    BY NoRowAssumption DEF Table, Row, Posting
  <2>2. [sid |-> p.sid, verdict |-> p.verdict,
         first |-> IF tbl[p.fp] = NoRow THEN now ELSE tbl[p.fp].first,
         last |-> now] \in Row
    BY <2>1 DEF Row, Posting
  <2>3. QED
    BY <1>1, <2>2 DEF Sighted, Upsert, Table, Posting
<1>2. CASE Collides(tbl, p) /\ tbl[p.fp] # NoRow
  <2>1. tbl[p.fp] \in Row
    BY <1>2 DEF Table, Posting
  <2>2. QED
    BY <1>2, <2>1 DEF Sighted, Resolve, Table, Row, Posting
<1>3. CASE Collides(tbl, p) /\ tbl[p.fp] = NoRow
  BY <1>3 DEF Sighted
<1>4. QED
  BY <1>1, <1>2, <1>3

\* No row is lost, none changes its first_seen_at, and the only row that can
\* appear is the sighting's own, exactly when the statement reports is_new.
LEMMA SightedRows ==
    ASSUME NEW tbl \in Table, NEW p \in Posting, NEW now \in Nat
    PROVE  /\ Stored(Sighted(tbl, p, now)) =
                IF ~Collides(tbl, p) /\ IsNew(tbl, p, now)
                THEN Stored(tbl) \cup {p.fp} ELSE Stored(tbl)
           /\ \A f \in Stored(tbl) : Sighted(tbl, p, now)[f].first = tbl[f].first
<1> p.fp \in Fingerprint
  BY DEF Posting
<1>1. CASE ~Collides(tbl, p)
  <2> DEFINE row == [sid |-> p.sid, verdict |-> p.verdict,
                     first |-> IF tbl[p.fp] = NoRow THEN now ELSE tbl[p.fp].first,
                     last |-> now]
  <2>1. Sighted(tbl, p, now) = [tbl EXCEPT ![p.fp] = row]
    BY <1>1 DEF Sighted, Upsert
  <2>2. row \in Row
    BY NoRowAssumption DEF Table, Row, Posting
  <2>3. row # NoRow
    BY <2>2, NoRowAssumption
  <2>4. \A f \in Fingerprint :
          Sighted(tbl, p, now)[f] = IF f = p.fp THEN row ELSE tbl[f]
    BY <2>1 DEF Table
  <2>5. row.first = IF tbl[p.fp] = NoRow THEN now ELSE tbl[p.fp].first
    OBVIOUS
  <2> HIDE DEF row
  <2>6. QED
    BY <1>1, <2>3, <2>4, <2>5 DEF Stored, IsNew
<1>2. CASE Collides(tbl, p) /\ tbl[p.fp] # NoRow
  <2>1. tbl[p.fp] \in Row
    BY <1>2 DEF Table
  <2> DEFINE row == [tbl[p.fp] EXCEPT !.verdict = p.verdict, !.last = now]
  <2>2. Sighted(tbl, p, now) = [tbl EXCEPT ![p.fp] = row]
    BY <1>2, <2>1 DEF Sighted, Resolve, Table, Row
  <2>3. row \in Row /\ row.first = tbl[p.fp].first
    BY <2>1 DEF Row, Posting
  <2>4. row # NoRow
    BY <2>3, NoRowAssumption
  <2>5. \A f \in Fingerprint :
          Sighted(tbl, p, now)[f] = IF f = p.fp THEN row ELSE tbl[f]
    BY <2>2 DEF Table
  <2> HIDE DEF row
  <2>6. QED
    BY <1>2, <2>3, <2>4, <2>5 DEF Stored
<1>3. CASE Collides(tbl, p) /\ tbl[p.fp] = NoRow
  BY <1>3 DEF Sighted
<1>4. QED
  BY <1>1, <1>2, <1>3

\* A sighting writes its own row alone: the verdict and last_seen_at of the
\* sighting, with a source id that is the sighting's or the row's own.
LEMMA SightedWrites ==
    ASSUME NEW tbl \in Table, NEW p \in Posting, NEW now \in Nat
    PROVE  /\ \A f \in Fingerprint \ {p.fp} : Sighted(tbl, p, now)[f] = tbl[f]
           /\ Fails(tbl, p) => Sighted(tbl, p, now) = tbl
           /\ ~Fails(tbl, p) =>
                /\ Sighted(tbl, p, now)[p.fp] # NoRow
                /\ Sighted(tbl, p, now)[p.fp].verdict = p.verdict
                /\ Sighted(tbl, p, now)[p.fp].last = now
                /\ \/ Sighted(tbl, p, now)[p.fp].sid = p.sid
                   \/ /\ tbl[p.fp] # NoRow
                      /\ Sighted(tbl, p, now)[p.fp].sid = tbl[p.fp].sid
<1> p.fp \in Fingerprint
  BY DEF Posting
<1>1. CASE ~Collides(tbl, p)
  <2> DEFINE row == [sid |-> p.sid, verdict |-> p.verdict,
                     first |-> IF tbl[p.fp] = NoRow THEN now ELSE tbl[p.fp].first,
                     last |-> now]
  <2>1. Sighted(tbl, p, now) = [tbl EXCEPT ![p.fp] = row]
    BY <1>1 DEF Sighted, Upsert
  <2>2. row \in Row
    BY NoRowAssumption DEF Table, Row, Posting
  <2>3. row # NoRow /\ row.sid = p.sid /\ row.verdict = p.verdict /\ row.last = now
    BY <2>2, NoRowAssumption
  <2>4. \A f \in Fingerprint :
          Sighted(tbl, p, now)[f] = IF f = p.fp THEN row ELSE tbl[f]
    BY <2>1 DEF Table
  <2> HIDE DEF row
  <2>5. QED
    BY <1>1, <2>3, <2>4 DEF Fails
<1>2. CASE Collides(tbl, p) /\ tbl[p.fp] # NoRow
  <2>1. tbl[p.fp] \in Row
    BY <1>2 DEF Table
  <2> DEFINE row == [tbl[p.fp] EXCEPT !.verdict = p.verdict, !.last = now]
  <2>2. Sighted(tbl, p, now) = [tbl EXCEPT ![p.fp] = row]
    BY <1>2, <2>1 DEF Sighted, Resolve, Table, Row
  <2>3. row \in Row /\ row.sid = tbl[p.fp].sid /\ row.verdict = p.verdict /\ row.last = now
    BY <2>1 DEF Row, Posting
  <2>4. row # NoRow
    BY <2>3, NoRowAssumption
  <2>5. \A f \in Fingerprint :
          Sighted(tbl, p, now)[f] = IF f = p.fp THEN row ELSE tbl[f]
    BY <2>2 DEF Table
  <2> HIDE DEF row
  <2>6. QED
    BY <1>2, <2>3, <2>4, <2>5 DEF Fails
<1>3. CASE Fails(tbl, p)
  BY <1>3 DEF Sighted, Fails
<1>4. QED
  BY <1>1, <1>2, <1>3 DEF Fails

-----------------------------------------------------------------------------
(* JobStore.                                                               *)

\* Every variable keeps its type, whatever the boards do.
THEOREM TypeCorrect == Spec => []TypeOK
<1>1. Init => TypeOK
  <2> SUFFICES ASSUME Init PROVE TypeOK
    OBVIOUS
  <2>1. EmptyTable \in Table
    BY DEF EmptyTable, Table
  <2>2. log \in Seq(Posting)
    BY DEF Init
  <2>3. open \in BOOLEAN
    BY DEF Init
  <2>4. QED
    BY <2>1, <2>2, <2>3 DEF Init, TypeOK
<1>2. TypeOK /\ [Next]_vars => TypeOK'
  <2> SUFFICES ASSUME TypeOK, [Next]_vars PROVE TypeOK'
    OBVIOUS
  <2> USE DEF TypeOK
  <2>1. ASSUME NEW p \in Posting, Publish(p) PROVE TypeOK'
    BY <2>1 DEF Publish
  <2>2. ASSUME NEW p \in live, Withdraw(p) PROVE TypeOK'
    BY <2>2 DEF Withdraw
  <2>3. ASSUME NEW fetched \in SUBSET live, StartRun(fetched) PROVE TypeOK'
    BY <2>3 DEF StartRun
  <2>4. ASSUME NEW p \in batch, Consume(p) PROVE TypeOK'
    <3>1. p \in Posting
      OBVIOUS
    <3>2. jobs' \in Table
      BY <2>4, <3>1, SightedType DEF Consume
    <3>3. failed' \in SUBSET Posting /\ new' \in Nat
      BY <2>4, <3>1 DEF Consume
    <3>4. log' \in Seq(Posting)
      BY <2>4, <3>1 DEF Consume
    <3>5. QED
      BY <2>4, <3>1, <3>2, <3>3, <3>4 DEF Consume
  <2>5. CASE Drain
    BY <2>5 DEF Drain
  <2>6. CASE FinishRun
    <3>1. open' \in BOOLEAN
      BY <2>6 DEF FinishRun
    <3>2. QED
      BY <2>6, <3>1 DEF FinishRun
  <2>7. CASE KillRun
    <3>1. open' \in BOOLEAN
      BY <2>7 DEF KillRun
    <3>2. log' \in Seq(Posting)
      BY <2>7 DEF KillRun
    <3>3. QED
      BY <2>7, <3>1, <3>2 DEF KillRun
  <2>8. CASE UNCHANGED vars
    BY <2>8 DEF vars
  <2>9. QED
    BY <2>1, <2>2, <2>3, <2>4, <2>5, <2>6, <2>7, <2>8 DEF Next
<1>3. QED
  BY <1>1, <1>2, PTL DEF Spec

-----------------------------------------------------------------------------
\* The transaction only ever adds to what is committed.
OpenExtendsSaved ==
    \A f \in Stored(saved) : f \in Stored(jobs) /\ jobs[f].first = saved[f].first

\* What makes the counts inductive: the tables are finite, and between runs
\* the transaction's copy is what was committed.
IInv ==
    /\ NewCountsRows
    /\ IsFiniteSet(Stored(jobs))
    /\ IsFiniteSet(Stored(saved))
    /\ OpenExtendsSaved

\* One consumed posting keeps the invariant.
LEMMA ConsumeKeepsIInv ==
    ASSUME TypeOK, IInv, NEW p \in batch, Consume(p)
    PROVE  IInv'
<1>1. p \in Posting /\ run \in Nat /\ jobs \in Table
  BY DEF TypeOK
<1>2. jobs' = Sighted(jobs, p, run) /\ saved' = saved /\ newTotal' = newTotal
      /\ open /\ open'
  BY DEF Consume
<1>3. /\ Stored(jobs') = IF ~Collides(jobs, p) /\ IsNew(jobs, p, run)
                         THEN Stored(jobs) \cup {p.fp} ELSE Stored(jobs)
      /\ \A f \in Stored(jobs) : jobs'[f].first = jobs[f].first
  BY <1>1, <1>2, SightedRows
<1>4. new' = IF ~Collides(jobs, p) /\ IsNew(jobs, p, run) THEN new + 1 ELSE new
  BY DEF Consume, Fails
<1>5. CASE ~Collides(jobs, p) /\ IsNew(jobs, p, run)
  <2>1. p.fp \notin Stored(jobs)
    BY <1>5 DEF IsNew, Stored
  <2>2. IsFiniteSet(Stored(jobs')) /\ Cardinality(Stored(jobs')) = Cardinality(Stored(jobs)) + 1
    BY <1>3, <1>5, <2>1, FS_AddElement DEF IInv
  <2>3. NewCountsRows'
    BY <1>2, <1>4, <1>5, <2>2 DEF IInv, NewCountsRows, TypeOK
  <2>4. OpenExtendsSaved'
    BY <1>2, <1>3, <1>5 DEF IInv, OpenExtendsSaved
  <2>5. QED
    BY <1>2, <2>2, <2>3, <2>4 DEF IInv
<1>6. CASE ~(~Collides(jobs, p) /\ IsNew(jobs, p, run))
  BY <1>2, <1>3, <1>4, <1>6 DEF IInv, NewCountsRows, OpenExtendsSaved
<1>7. QED
  BY <1>5, <1>6

LEMMA IInvInductive == TypeOK /\ IInv /\ [Next]_vars => IInv'
<1> SUFFICES ASSUME TypeOK, IInv, [Next]_vars PROVE IInv'
  OBVIOUS
<1> USE DEF IInv, NewCountsRows, OpenExtendsSaved
<1>1. ASSUME NEW p \in Posting, Publish(p) PROVE IInv'
  BY <1>1 DEF Publish
<1>2. ASSUME NEW p \in live, Withdraw(p) PROVE IInv'
  BY <1>2 DEF Withdraw
<1>3. ASSUME NEW fetched \in SUBSET live, StartRun(fetched) PROVE IInv'
  BY <1>3 DEF StartRun, TypeOK
<1>4. ASSUME NEW p \in batch, Consume(p) PROVE IInv'
  BY <1>4, ConsumeKeepsIInv
<1>5. CASE Drain
  BY <1>5 DEF Drain
<1>6. CASE FinishRun
  <2>1. Cardinality(Stored(jobs)) = newTotal + new
    BY <1>6 DEF FinishRun
  <2>2. ~open' /\ saved' = jobs /\ jobs' = jobs /\ newTotal' = newTotal + new
    BY <1>6 DEF FinishRun
  <2>3. newTotal' + 0 = newTotal'
    BY <2>2 DEF TypeOK
  <2>4. QED
    BY <2>1, <2>2, <2>3
<1>7. CASE KillRun
  <2>1. ~open' /\ saved' = saved /\ jobs' = saved /\ newTotal' = newTotal
    BY <1>7 DEF KillRun
  <2>2. newTotal + 0 = newTotal
    BY DEF TypeOK
  <2>3. QED
    BY <2>1, <2>2
<1>8. CASE UNCHANGED vars
  BY <1>8 DEF vars
<1>9. QED
  BY <1>1, <1>2, <1>3, <1>4, <1>5, <1>6, <1>7, <1>8 DEF Next

\* The invariant behind the two theorems below.
THEOREM StoreInvariant == Spec => []IInv
<1>1. Init => IInv
  <2> SUFFICES ASSUME Init PROVE IInv
    OBVIOUS
  <2>1. Stored(jobs) = {} /\ Stored(saved) = {}
    BY DEF Init, EmptyTable, Stored
  <2>2. QED
    BY <2>1, FS_EmptySet
       DEF Init, IInv, NewCountsRows, OpenExtendsSaved
<1>2. QED
  BY <1>1, TypeCorrect, IInvInductive, PTL DEF Spec

\* The run log's jobs_new adds up to the number of rows, through kills,
\* reposts and redelivered runs.
THEOREM NewJobsAddUp == Spec => []NewCountsRows
BY StoreInvariant, PTL DEF IInv

\* No step takes a committed row away or moves its first_seen_at.
THEOREM CommittedRowsStay == Spec => RowsArePermanent
<1>1. IInv /\ [Next]_vars =>
        [\A f \in Stored(saved) : f \in Stored(saved') /\ saved'[f].first = saved[f].first]_vars
  <2> SUFFICES ASSUME IInv, Next
               PROVE  \A f \in Stored(saved) :
                        f \in Stored(saved') /\ saved'[f].first = saved[f].first
    OBVIOUS
  <2>1. saved' = saved \/ saved' = jobs
    BY DEF Next, Publish, Withdraw, StartRun, Consume, Drain, FinishRun, KillRun
  <2>2. QED
    BY <2>1 DEF IInv, OpenExtendsSaved
<1>2. QED
  BY <1>1, StoreInvariant, PTL DEF Spec, RowsArePermanent

-----------------------------------------------------------------------------
(* What a row says was sighted together.                                   *)

\* The source id and the verdict of every row of a table were each sighted
\* with its content.
Sourced(tbl) ==
    \A f \in Stored(tbl) :
        /\ \E p \in history : p.fp = f /\ p.sid = tbl[f].sid
        /\ \E p \in history : p.fp = f /\ p.verdict = tbl[f].verdict

\* The last sighting of a content that succeeded in the current run is what its
\* row says.
LastSightingWins ==
    \A i \in DOMAIN log :
        (/\ log[i] \notin failed
         /\ \A j \in DOMAIN log : log[j].fp = log[i].fp => j <= i)
        => /\ jobs[log[i].fp] # NoRow
           /\ jobs[log[i].fp].verdict = log[i].verdict
           /\ jobs[log[i].fp].last = run

\* A kill brings the committed table back, so it has to be sourced as well.
SightingInv == Sourced(jobs) /\ Sourced(saved) /\ LastSightingWins

LEMMA ConsumeKeepsSightings ==
    ASSUME TypeOK, SightingInv, NEW p \in batch, Consume(p)
    PROVE  SightingInv'
<1>1. p \in Posting /\ p.fp \in Fingerprint /\ run \in Nat /\ jobs \in Table
  BY DEF TypeOK, Posting
<1>2. /\ jobs' = Sighted(jobs, p, run)
      /\ history' = history \cup {p}
      /\ log' = Append(log, p)
      /\ UNCHANGED <<saved, run>>
      /\ failed' = IF Fails(jobs, p) THEN failed \cup {p} ELSE failed
  BY DEF Consume
<1>3. /\ \A f \in Fingerprint \ {p.fp} : jobs'[f] = jobs[f]
      /\ Fails(jobs, p) => jobs' = jobs
      /\ ~Fails(jobs, p) =>
           /\ jobs'[p.fp] # NoRow
           /\ jobs'[p.fp].verdict = p.verdict
           /\ jobs'[p.fp].last = run
           /\ jobs'[p.fp].sid = p.sid
              \/ (jobs[p.fp] # NoRow /\ jobs'[p.fp].sid = jobs[p.fp].sid)
  BY <1>1, <1>2, SightedWrites
<1>4. Sourced(jobs)' /\ Sourced(saved)'
  <2>1. ASSUME NEW f \in Stored(jobs'), f # p.fp \/ Fails(jobs, p)
        PROVE  /\ \E q \in history' : q.fp = f /\ q.sid = jobs'[f].sid
               /\ \E q \in history' : q.fp = f /\ q.verdict = jobs'[f].verdict
    <3>1. f \in Stored(jobs) /\ jobs'[f] = jobs[f]
      BY <1>3, <2>1 DEF Stored
    <3>2. QED
      BY <1>2, <3>1 DEF SightingInv, Sourced
  <2>2. ASSUME ~Fails(jobs, p)
        PROVE  /\ \E q \in history' : q.fp = p.fp /\ q.sid = jobs'[p.fp].sid
               /\ \E q \in history' : q.fp = p.fp /\ q.verdict = jobs'[p.fp].verdict
    <3>1. CASE jobs'[p.fp].sid = p.sid
      BY <1>2, <1>3, <2>2, <3>1
    <3>2. CASE jobs[p.fp] # NoRow /\ jobs'[p.fp].sid = jobs[p.fp].sid
      <4>1. p.fp \in Stored(jobs)
        BY <1>1, <3>2 DEF Stored
      <4>2. \E q \in history : q.fp = p.fp /\ q.sid = jobs[p.fp].sid
        BY <4>1 DEF SightingInv, Sourced
      <4>3. QED
        BY <1>2, <1>3, <2>2, <3>2, <4>2
    <3>3. QED
      BY <1>3, <2>2, <3>1, <3>2
  <2>3. Sourced(jobs)'
    BY <2>1, <2>2 DEF Sourced
  <2>4. Sourced(saved)'
    BY <1>2 DEF SightingInv, Sourced
  <2>5. QED
    BY <2>3, <2>4
<1>5. /\ Len(log) \in Nat /\ DOMAIN log = 1 .. Len(log)
      /\ DOMAIN log' = 1 .. (Len(log) + 1)
      /\ \A i \in 1 .. Len(log) : log'[i] = log[i] /\ log[i] \in Posting
      /\ log'[Len(log) + 1] = p
  BY <1>1, <1>2 DEF TypeOK
<1>6. ASSUME NEW i \in DOMAIN log', log'[i] \notin failed',
             \A j \in DOMAIN log' : log'[j].fp = log'[i].fp => j <= i
      PROVE  /\ jobs'[log'[i].fp] # NoRow
             /\ jobs'[log'[i].fp].verdict = log'[i].verdict
             /\ jobs'[log'[i].fp].last = run'
  <2>1. CASE i = Len(log) + 1
    BY <1>2, <1>3, <1>5, <1>6, <2>1
  <2>2. CASE i # Len(log) + 1
    <3>1. i \in 1 .. Len(log)
      BY <1>5, <2>2
    <3>2. log[i].fp # p.fp
      <4>1. Len(log) + 1 \in DOMAIN log' /\ ~(Len(log) + 1 <= i)
        BY <1>5, <3>1
      <4>2. QED
        BY <1>5, <1>6, <3>1, <4>1
    <3>3. log[i] \notin failed
      BY <1>2, <1>5, <1>6, <3>1
    <3>4. \A j \in DOMAIN log : log[j].fp = log[i].fp => j <= i
      BY <1>5, <1>6, <3>1
    <3>5. /\ jobs[log[i].fp] # NoRow
          /\ jobs[log[i].fp].verdict = log[i].verdict
          /\ jobs[log[i].fp].last = run
      BY <1>5, <3>1, <3>3, <3>4 DEF SightingInv, LastSightingWins
    <3>6. log[i].fp \in Fingerprint
      BY <1>5, <3>1 DEF Posting
    <3>7. QED
      BY <1>2, <1>3, <1>5, <3>1, <3>2, <3>5, <3>6
  <2>3. QED
    BY <2>1, <2>2
<1>7. QED
  BY <1>4, <1>6 DEF SightingInv, LastSightingWins

\* The invariant behind the next theorem and the last one.
THEOREM SightingsKept == Spec => []SightingInv
<1>1. Init => SightingInv
  BY DEF Init, SightingInv, Sourced, LastSightingWins, Stored, EmptyTable
<1>2. TypeOK /\ SightingInv /\ [Next]_vars => SightingInv'
  <2> SUFFICES ASSUME TypeOK, SightingInv, [Next]_vars PROVE SightingInv'
    OBVIOUS
  <2>1. ASSUME NEW p \in batch, Consume(p) PROVE SightingInv'
    BY <2>1, ConsumeKeepsSightings
  <2>2. ASSUME NEW fetched \in SUBSET live, StartRun(fetched) PROVE SightingInv'
    BY <2>2 DEF StartRun, SightingInv, Sourced, LastSightingWins
  <2>3. CASE KillRun
    BY <2>3 DEF KillRun, SightingInv, Sourced, LastSightingWins
  <2>4. CASE FinishRun
    BY <2>4 DEF FinishRun, SightingInv, Sourced, LastSightingWins
  <2>5. CASE UNCHANGED <<log, failed, jobs, saved, run, history>>
    BY <2>5 DEF SightingInv, Sourced, LastSightingWins
  <2>6. QED
    BY <2>1, <2>2, <2>3, <2>4, <2>5 DEF Next, Publish, Withdraw, Drain, vars
<1>3. QED
  BY <1>1, <1>2, TypeCorrect, PTL DEF Spec

\* A row never mixes two postings, and the last sighting of its content in the
\* run decides its verdict, through every kill, repost and collision.
THEOREM RowsAreTheirSightings == Spec => []RowsFollowTheirSightings
<1>1. SightingInv => RowsFollowTheirSightings
  BY DEF SightingInv, Sourced, LastSightingWins, RowsFollowTheirSightings
<1>2. QED
  BY <1>1, SightingsKept, PTL

-----------------------------------------------------------------------------
(* A run that is delivered again.                                          *)

\* Every nonempty set of naturals has a least element.
LEMMA LeastNumber ==
    ASSUME NEW S, S \subseteq Nat, S # {}
    PROVE  \E m \in S : \A k \in S : m <= k
<1>1. \E m \in S : \A k \in S : ~(<<k, m>> \in OpToRel(<, Nat))
  BY NatLessThanWellFounded, WFMin
<1>2. PICK m \in S : \A k \in S : ~(<<k, m>> \in OpToRel(<, Nat))
  BY <1>1
<1>3. ASSUME NEW k \in S PROVE m <= k
  <2>1. <<k, m>> \in Nat \X Nat
    OBVIOUS
  <2>2. ~(k < m)
    BY <1>2, <2>1 DEF OpToRel
  <2>3. QED
    BY <2>2
<1>4. QED
  BY <1>3

\* R lists the tables that the first m sightings of the run, delivered again,
\* leave behind one after the other.
Delivers(R, m) ==
    R = [n \in 0..m |-> IF n = 0 THEN jobs ELSE Sighted(R[n - 1], log[n], run + 1)]

\* A delivery can be continued by one sighting.
LEMMA DeliverOneMore ==
    ASSUME NEW m \in Nat, NEW R, Delivers(R, m)
    PROVE  \E T : Delivers(T, m + 1)
<1> DEFINE T == [n \in 0..(m + 1) |->
                    IF n = m + 1 THEN Sighted(R[m], log[m + 1], run + 1) ELSE R[n]]
<1>1. ASSUME NEW n \in 0..(m + 1)
      PROVE  T[n] = IF n = 0 THEN jobs ELSE Sighted(T[n - 1], log[n], run + 1)
  <2>1. CASE n = m + 1
    <3>1. n # 0 /\ n - 1 = m /\ m \in 0..(m + 1) /\ m # m + 1
      BY <2>1
    <3>2. T[n - 1] = R[m]
      BY <3>1
    <3>3. T[n] = Sighted(R[m], log[m + 1], run + 1)
      BY <2>1
    <3>4. QED
      BY <2>1, <3>1, <3>2, <3>3
  <2>2. CASE n # m + 1
    <3>1. n \in 0..m
      BY <2>2
    <3>2. T[n] = R[n]
      BY <2>2
    <3>3. R[n] = IF n = 0 THEN jobs ELSE Sighted(R[n - 1], log[n], run + 1)
      BY <3>1 DEF Delivers
    <3>4. n # 0 => n - 1 \in 0..(m + 1) /\ n - 1 # m + 1
      BY <3>1
    <3>5. n # 0 => T[n - 1] = R[n - 1]
      BY <3>4
    <3>6. QED
      BY <3>2, <3>3, <3>5
  <2>3. QED
    BY <2>1, <2>2
<1>2. T = [n \in 0..(m + 1) |-> T[n]]
  OBVIOUS
<1> HIDE DEF T
<1>3. T = [n \in 0..(m + 1) |-> IF n = 0 THEN jobs ELSE Sighted(T[n - 1], log[n], run + 1)]
  BY <1>1, <1>2
<1>4. QED
  BY <1>3 DEF Delivers

\* The recursion of Redelivered is one that a function satisfies.
LEMMA RedeliveredSteps ==
    ASSUME TypeOK
    PROVE  /\ Redelivered[0] = jobs
           /\ \A n \in 1..Len(log) :
                 Redelivered[n] = Sighted(Redelivered[n - 1], log[n], run + 1)
<1> DEFINE Stuck == {m \in Nat : ~\E R : Delivers(R, m)}
<1>1. \E R : Delivers(R, 0)
  <2> DEFINE R == [n \in 0..0 |-> jobs]
  <2>1. R = [n \in 0..0 |-> IF n = 0 THEN jobs ELSE Sighted(R[n - 1], log[n], run + 1)]
    OBVIOUS
  <2>2. QED
    BY <2>1 DEF Delivers
<1>2. Stuck = {}
  <2> SUFFICES ASSUME Stuck # {} PROVE FALSE
    OBVIOUS
  <2>1. PICK m \in Stuck : \A k \in Stuck : m <= k
    BY LeastNumber
  <2>2. m \in Nat /\ m # 0 /\ m - 1 \in Nat /\ ~(m <= m - 1)
    BY <1>1, <2>1
  <2>3. \E R : Delivers(R, m - 1)
    BY <2>1, <2>2
  <2>4. \E R : Delivers(R, (m - 1) + 1)
    BY <2>2, <2>3, DeliverOneMore
  <2>5. (m - 1) + 1 = m
    BY <2>2
  <2>6. QED
    BY <2>1, <2>4, <2>5
<1>3. Len(log) \in Nat
  BY DEF TypeOK
<1>4. \E R : Delivers(R, Len(log))
  BY <1>2, <1>3
<1>5. Delivers(Redelivered, Len(log))
  BY <1>4 DEF Delivers, Redelivered
<1>6. \A n \in 0..Len(log) :
        Redelivered[n] = IF n = 0 THEN jobs ELSE Sighted(Redelivered[n - 1], log[n], run + 1)
  BY <1>5 DEF Delivers
<1>7. 0 \in 0..Len(log)
  BY <1>3
<1>8. Redelivered[0] = jobs
  BY <1>6, <1>7
<1>9. ASSUME NEW n \in 1..Len(log)
      PROVE  Redelivered[n] = Sighted(Redelivered[n - 1], log[n], run + 1)
  <2>1. n \in 0..Len(log) /\ n # 0
    BY <1>3
  <2>2. QED
    BY <1>6, <2>1
<1>10. QED
  BY <1>8, <1>9

\* Of the sightings of one content in a run there is a last one.
LEMMA LastSighting ==
    ASSUME TypeOK, NEW i \in DOMAIN log
    PROVE  \E k \in DOMAIN log :
              /\ log[k].fp = log[i].fp
              /\ \A j \in DOMAIN log : log[j].fp = log[i].fp => j <= k
<1> DEFINE same == {j \in DOMAIN log : log[j].fp = log[i].fp}
           bounds == {k \in Nat : \A j \in same : j <= k}
<1>1. Len(log) \in Nat /\ DOMAIN log = 1..Len(log)
  BY DEF TypeOK
<1>2. Len(log) \in bounds
  BY <1>1
<1>3. PICK k \in bounds : \A b \in bounds : k <= b
  BY <1>2, LeastNumber
<1>4. i \in same /\ i <= k /\ k \in Nat /\ k # 0
  BY <1>1, <1>3
<1>5. k \in same
  <2> SUFFICES ASSUME k \notin same PROVE FALSE
    OBVIOUS
  <2>1. k - 1 \in Nat /\ ~(k <= k - 1)
    BY <1>4
  <2>2. ASSUME NEW j \in same PROVE j <= k - 1
    <3>1. j \in Nat /\ j <= k /\ j # k
      BY <1>1, <1>3
    <3>2. QED
      BY <1>4, <3>1
  <2>3. k - 1 \in bounds
    BY <2>1, <2>2
  <2>4. QED
    BY <1>3, <2>1, <2>3
<1>6. QED
  BY <1>3, <1>5

\* After n sightings of the second delivery: the same rows, as old as they
\* were, and each with its verdict unless its content is still to come.
Resembles(tbl, n) ==
    /\ tbl \in Table
    /\ Stored(tbl) = Stored(jobs)
    /\ \A f \in Stored(jobs) :
         /\ tbl[f].first = jobs[f].first
         /\ \/ tbl[f].verdict = jobs[f].verdict
            \/ \E i \in (n + 1)..Len(log) : log[i].fp = f

LEMMA DeliveryResembles ==
    ASSUME TypeOK, LastSightingWins, failed = {}, NEW n \in 0..Len(log), n # Len(log),
           NEW tbl, Resembles(tbl, n)
    PROVE  /\ Resembles(Sighted(tbl, log[n + 1], run + 1), n + 1)
           /\ ~Fails(tbl, log[n + 1])
<1> DEFINE p == log[n + 1]
           next == Sighted(tbl, p, run + 1)
<1>1. Len(log) \in Nat /\ DOMAIN log = 1..Len(log) /\ n \in Nat /\ n + 1 \in DOMAIN log
  BY DEF TypeOK
<1>2. p \in Posting /\ p.fp \in Fingerprint /\ run + 1 \in Nat /\ tbl \in Table
  <2>1. log \in Seq(Posting) /\ run \in Nat
    BY DEF TypeOK
  <2>2. p \in Posting
    <3>1. \A i \in 1..Len(log) : log[i] \in Posting
      BY <2>1
    <3>2. QED
      BY ONLY <1>1, <3>1
  <2>3. p.fp \in Fingerprint
    BY <2>2 DEF Posting
  <2>4. tbl \in Table
    BY DEF Resembles
  <2>5. QED
    BY <2>1, <2>2, <2>3, <2>4
<1>3. PICK k \in DOMAIN log : /\ log[k].fp = p.fp
                              /\ \A j \in DOMAIN log : log[j].fp = p.fp => j <= k
  BY <1>1, LastSighting
<1>4. jobs[p.fp] # NoRow /\ jobs[p.fp].verdict = log[k].verdict
  BY <1>3 DEF LastSightingWins
<1>5. p.fp \in Stored(jobs) /\ p.fp \in Stored(tbl) /\ tbl[p.fp] # NoRow
  BY <1>2, <1>4 DEF Stored, Resembles
<1>6. ~Fails(tbl, p)
  BY <1>5 DEF Fails
<1>7. /\ next \in Table
      /\ Stored(next) = Stored(tbl)
      /\ \A f \in Stored(tbl) : next[f].first = tbl[f].first
  <2>1. next \in Table
    BY <1>2, SightedType
  <2>2. ~IsNew(tbl, p, run + 1)
    BY <1>5 DEF IsNew
  <2>3. QED
    BY <1>2, <2>1, <2>2, SightedRows
<1>8. /\ \A f \in Fingerprint \ {p.fp} : next[f] = tbl[f]
      /\ next[p.fp].verdict = p.verdict
  BY <1>2, <1>6, SightedWrites
<1> HIDE DEF next
<1>9. ASSUME NEW f \in Stored(jobs)
      PROVE  \/ next[f].verdict = jobs[f].verdict
             \/ \E i \in ((n + 1) + 1)..Len(log) : log[i].fp = f
  <2>1. CASE f = p.fp /\ k = n + 1
    BY <1>4, <1>8, <2>1
  <2>2. CASE f = p.fp /\ k # n + 1
    <3>1. n + 1 <= k
      BY <1>1, <1>3
    <3>2. k \in Nat /\ k <= Len(log)
      <4>1. k \in 1..Len(log)
        BY <1>1, <1>3
      <4>2. QED
        BY ONLY <1>1, <4>1
    <3>3. k \in ((n + 1) + 1)..Len(log)
      BY ONLY <1>1, <2>2, <3>1, <3>2
    <3>4. QED
      BY <1>3, <2>2, <3>3
  <2>3. CASE f # p.fp /\ tbl[f].verdict = jobs[f].verdict
    <3>1. f \in Fingerprint \ {p.fp}
      BY <2>3 DEF Stored
    <3>2. QED
      BY <1>8, <2>3, <3>1
  <2>4. CASE f # p.fp /\ \E i \in (n + 1)..Len(log) : log[i].fp = f
    <3>1. PICK i \in (n + 1)..Len(log) : log[i].fp = f
      BY <2>4
    <3>2. i # n + 1
      BY <2>4, <3>1
    <3>3. i \in ((n + 1) + 1)..Len(log)
      <4>1. i \in (n + 1)..Len(log)
        OBVIOUS
      <4>2. QED
        BY ONLY <1>1, <3>2, <4>1
    <3>4. QED
      BY <3>1, <3>3
  <2>5. QED
    BY <2>1, <2>2, <2>3, <2>4 DEF Resembles
<1>10. Resembles(next, n + 1)
  BY <1>7, <1>9 DEF Resembles
<1>11. QED
  BY <1>6, <1>10 DEF next

\* A run delivered twice leaves the jobs, verdicts and ages it left the first
\* time; whether it also leaves the source ids is another matter.
LEMMA SecondDelivery ==
    ASSUME TypeOK, LastSightingWins
    PROVE  RunTwiceSameJobs
<1> SUFFICES ASSUME failed = {}
             PROVE  /\ Judged(Redelivered[Len(log)]) = Judged(jobs)
                    /\ \A n \in DOMAIN log : ~Fails(Redelivered[n - 1], log[n])
  BY DEF RunTwiceSameJobs
<1> DEFINE wrong == {n \in 0..Len(log) : ~Resembles(Redelivered[n], n)}
<1>1. Len(log) \in Nat /\ DOMAIN log = 1..Len(log)
  BY DEF TypeOK
<1>2. Resembles(Redelivered[0], 0)
  BY RedeliveredSteps DEF Resembles, TypeOK
<1>3. wrong = {}
  <2> SUFFICES ASSUME wrong # {} PROVE FALSE
    OBVIOUS
  <2>1. wrong \subseteq Nat
    BY <1>1
  <2>2. PICK m \in wrong : \A k \in wrong : m <= k
    BY <2>1, LeastNumber
  <2>3. m \in 1..Len(log)
    BY <1>1, <1>2, <2>2
  <2>4. m - 1 \in 0..Len(log) /\ m - 1 # Len(log) /\ (m - 1) + 1 = m /\ ~(m <= m - 1)
    BY <1>1, <2>3
  <2>5. Resembles(Redelivered[m - 1], m - 1)
    BY <2>2, <2>4
  <2>6. Resembles(Sighted(Redelivered[m - 1], log[(m - 1) + 1], run + 1), (m - 1) + 1)
    BY <2>4, <2>5, DeliveryResembles
  <2>7. Resembles(Redelivered[m], m)
    BY <2>3, <2>4, <2>6, RedeliveredSteps
  <2>8. QED
    BY <2>2, <2>7
<1>4. Resembles(Redelivered[Len(log)], Len(log))
  BY <1>1, <1>3
<1>5. \A i \in (Len(log) + 1)..Len(log) : FALSE
  BY <1>1
<1>6. ASSUME NEW f \in Stored(jobs)
      PROVE  /\ Redelivered[Len(log)][f].verdict = jobs[f].verdict
             /\ Redelivered[Len(log)][f].first = jobs[f].first
  BY <1>4, <1>5 DEF Resembles
<1>7. Judged(Redelivered[Len(log)]) = Judged(jobs)
  BY <1>4, <1>6 DEF Judged, Resembles
<1>8. ASSUME NEW n \in DOMAIN log PROVE ~Fails(Redelivered[n - 1], log[n])
  <2>1. n - 1 \in 0..Len(log) /\ n - 1 # Len(log) /\ (n - 1) + 1 = n
    BY <1>1
  <2>2. Resembles(Redelivered[n - 1], n - 1)
    BY <1>3, <2>1
  <2>3. ~Fails(Redelivered[n - 1], log[(n - 1) + 1])
    BY <2>1, <2>2, DeliveryResembles
  <2>4. QED
    BY <2>1, <2>3
<1>9. QED
  BY <1>7, <1>8

\* A cron delivered twice does no harm, however postings collided in it.
THEOREM RedeliveryIsHarmless == Spec => []RunTwiceSameJobs
<1>1. TypeOK /\ SightingInv => RunTwiceSameJobs
  BY SecondDelivery DEF SightingInv
<1>2. QED
  BY <1>1, TypeCorrect, SightingsKept, PTL
=============================================================================

------------------------------ MODULE JobTable ------------------------------
(***************************************************************************)
(* The jobs table and the two statements that write a sighting into it     *)
(* (migrations/001_initial.sql, pipeline/store.py).  A row is never        *)
(* deleted and its fingerprint is never updated, so the table is a         *)
(* function from fingerprints and a row's job_id is its fingerprint here.  *)
(* Constant-level operators only: JobStore and DiscoverRun share them.     *)
(***************************************************************************)
EXTENDS Naturals

CONSTANTS Fingerprint,  \* content hashes (company, title, city)
          SourceId,     \* (source, source_job_id) pairs
          Verdict,      \* everything else a sighting refreshes, verdict first
          NoRow         \* the value of the table where there is no row

\* One sighting, as the consumer hands it to upsert_job.
Posting == [fp : Fingerprint, sid : SourceId, verdict : Verdict]

Row == [sid : SourceId, verdict : Verdict, first : Nat, last : Nat]

Table == [Fingerprint -> Row \cup {NoRow}]

ASSUME NoRowAssumption == NoRow \notin Row

EmptyTable == [f \in Fingerprint |-> NoRow]

Stored(tbl) == {f \in Fingerprint : tbl[f] # NoRow}

-----------------------------------------------------------------------------
\* The plausible slips the mutants try.
UpsertResettingFirst(tbl, p, now) ==
    [tbl EXCEPT ![p.fp] =
        [sid |-> p.sid, verdict |-> p.verdict, first |-> now, last |-> now]]

UpsertSwapped(tbl, p, now) ==
    [tbl EXCEPT ![p.fp] =
        [sid |-> p.verdict, verdict |-> p.sid, first |-> now, last |-> now]]

ResolveBySourceId(tbl, p, now) ==
    [f \in Fingerprint |->
        IF tbl[f] # NoRow /\ tbl[f].sid = p.sid
        THEN [tbl[f] EXCEPT !.verdict = p.verdict, !.last = now]
        ELSE tbl[f]]

IsNewByClock(tbl, p, now) == tbl[p.fp] = NoRow \/ tbl[p.fp].first = now

Never(tbl, p) == FALSE

-----------------------------------------------------------------------------
\* UNIQUE(source, source_job_id), the key beside UNIQUE(fingerprint): writing p
\* would give its source id to two rows, psycopg's UniqueViolation, which ON
\* CONFLICT (fingerprint) does not absorb.
Collides(tbl, p) ==
    \E f \in Stored(tbl) \ {p.fp} : tbl[f].sid = p.sid

\* _UPSERT_JOB: insert, or refresh everything but first_seen_at.
Upsert(tbl, p, now) ==
    [tbl EXCEPT ![p.fp] =
        [sid     |-> p.sid,
         verdict |-> p.verdict,
         first   |-> IF tbl[p.fp] = NoRow THEN now ELSE tbl[p.fp].first,
         last    |-> now]]

\* The fallback UPDATE ... WHERE fingerprint: verdict and last_seen_at only,
\* "leave the source ids alone".
Resolve(tbl, p, now) == [tbl EXCEPT ![p.fp].verdict = p.verdict, ![p.fp].last = now]

\* xmax = 0: the statement inserted.
IsNew(tbl, p, now) == tbl[p.fp] = NoRow

\* The fallback matched no row, so row["job_id"] subscripts None.
Fails(tbl, p) == Collides(tbl, p) /\ tbl[p.fp] = NoRow

\* upsert_job as a whole: the table it leaves behind.
Sighted(tbl, p, now) ==
    IF ~Collides(tbl, p) THEN Upsert(tbl, p, now)
    ELSE IF tbl[p.fp] # NoRow THEN Resolve(tbl, p, now)
    ELSE tbl
=============================================================================

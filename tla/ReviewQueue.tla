---------------------------- MODULE ReviewQueue ----------------------------
(***************************************************************************)
(* The review queue and the tracker: queue_page, queue_facets, set_status, *)
(* funnel_counts and weekly_conversion (store.py, migration 004), with the *)
(* pages that call them (web/queue.py, web/detail.py, web/tracker.py).     *)
(*                                                                         *)
(* A reader walks the queue page by page, each page a query of its own by  *)
(* LIMIT and OFFSET.  In between, jobs are scored, judged and filtered,    *)
(* employers are screened, and other tabs move jobs through the funnel.    *)
(* jobs.closed_at is written nowhere in the code, so every job is live.    *)
(***************************************************************************)
EXTENDS Integers, Sequences, FiniteSets, SequencesExt

CONSTANTS Job,          \* job_id
          Employer,     \* employers as their place in the order of lower(name)
          Listing,      \* what each row of jobs says, as upsert_job stored it
          Points,       \* the scores a run may give
          Walks,        \* the filters a reader may pick (QueueFilters)
          PageSize,     \* PAGE_SIZE
          InitScores,   \* the scores a run may start from
          WeekLength,   \* days in a week
          Window,       \* weeks that weekly_conversion shows
          None,         \* NULL
          MaxChanges,   \* bound on changes to the tables
          MaxNow        \* bound on the clock

Statuses == {"queued", "applied", "responded", "interview", "rejected", "dismissed"}
Verdicts == {"allowed", "excluded", "flagged", "unknown"}

ListingRow == [employer : Employer, arrangement : {"remote", "hybrid", "onsite"},
               class : STRING, pay : Nat \cup {None}, posted : Int \cup {None}]

QueueFilters == [sort : {"score", "posted", "salary", "company"}, descending : BOOLEAN,
                 minScore : Nat, arrangements : SUBSET {"remote", "hybrid", "onsite"},
                 classes : SUBSET STRING, minPay : Nat, postedWithin : Nat,
                 companies : SUBSET Employer, judgedOnly : BOOLEAN, cap : Nat \ {0}]

AppRow == [status : Statuses, appliedAt : Nat \cup {None}]

ASSUME QueueAssumption ==
    /\ Job \subseteq Nat /\ IsFiniteSet(Job) /\ Employer \subseteq Nat /\ None \notin Int \cup AppRow
    /\ Listing \in [Job -> ListingRow]
    /\ Walks \subseteq QueueFilters
    /\ Points \subseteq Nat
    /\ PageSize \in Nat \ {0}
    /\ InitScores \subseteq [Job -> Nat \cup {None}]
    /\ WeekLength \in Nat \ {0} /\ Window \in Nat /\ MaxChanges \in Nat /\ MaxNow \in Nat

VARIABLES score,        \* scores.total_score; None for no row
          judged,       \* scores.judged_at IS NOT NULL
          filtered,     \* jobs.filtered_out
          verdict,      \* companies.sharia_verdict
          app,          \* the row of applications; None for no row
          walk,         \* the reader's filters, offset and last page
          now,          \* the day
          shown,        \* every job the walk has shown, in order (auxiliary)
          calm,         \* no change since the walk began (auxiliary)
          changes       \* changes so far (auxiliary)

tables == <<score, judged, filtered, verdict, app>>
vars == <<score, judged, filtered, verdict, app, walk, now, shown, calm, changes>>

Idle == [at |-> "idle"]
Walk == {Idle} \cup
    [at : {"listed", "page"}, filters : Walks, offset : Nat, more : BOOLEAN, offered : SUBSET Employer]

TypeOK ==
    /\ score \in [Job -> Nat \cup {None}]
    /\ judged \in [Job -> BOOLEAN]
    /\ filtered \in [Job -> BOOLEAN]
    /\ verdict \in [Employer -> Verdicts]
    /\ app \in [Job -> AppRow \cup {None}]
    \* the two CHECKs of migration 004
    /\ \A j \in Job : app[j] # None /\ app[j].appliedAt = None => app[j].status \in {"queued", "dismissed"}
    /\ walk \in Walk
    /\ now \in Nat
    /\ shown \in Seq(Job)
    /\ calm \in BOOLEAN
    /\ changes \in Nat

Init ==
    /\ score \in InitScores
    /\ judged = [j \in Job |-> FALSE]
    /\ filtered = [j \in Job |-> FALSE]
    /\ verdict = [e \in Employer |-> "unknown"]
    /\ app = [j \in Job |-> None]
    /\ walk = Idle
    /\ now = 0
    /\ shown = <<>>
    /\ calm = TRUE
    /\ changes = 0

---------------------------------------------------------------------------
(* queue_page *)

Status(j) == IF app[j] = None THEN "queued" ELSE app[j].status

\* What every view of the queue asks of a row: scored, not filtered out, not
\* excluded, and not acted on.
InQueue(j) ==
    /\ score[j] # None
    /\ ~filtered[j]
    /\ verdict[Listing[j].employer] # "excluded"
    /\ Status(j) = "queued"

\* A filter left empty narrows nothing.  A job that publishes no pay or no
\* date is kept by the filters on them.
Fits(f, j) ==
    /\ score[j] >= f.minScore
    /\ f.arrangements = {} \/ Listing[j].arrangement \in f.arrangements
    /\ f.classes = {} \/ Listing[j].class \in f.classes
    /\ f.minPay = 0 \/ Listing[j].pay = None \/ Listing[j].pay >= f.minPay
    /\ f.postedWithin = 0 \/ Listing[j].posted = None \/ Listing[j].posted >= now - f.postedWithin
    /\ f.companies = {} \/ Listing[j].employer \in f.companies
    /\ f.judgedOnly => judged[j]

Eligible(f) == {j \in Job : InQueue(j) /\ Fits(f, j)}

OfEmployer(jobs, e) == {j \in jobs : Listing[j].employer = e}

\* The first cap rows of each employer by score.  row_number() orders by the
\* score alone: which of two equal rows is within the cap may differ per query.
TopOfEachEmployer(jobs, cap) ==
    {kept \in SUBSET jobs :
        \A e \in Employer :
            LET of == OfEmployer(jobs, e)
                in == OfEmployer(kept, e)
            IN  /\ Cardinality(in) = IF Cardinality(of) < cap THEN Cardinality(of) ELSE cap
                /\ \A j \in in, k \in of \ in : score[j] >= score[k]}

\* A slip the mutants try: the cap first, and the filters on what it leaves.
CappedThenFiltered(f) ==
    {kept \cap Eligible(f) : kept \in TopOfEachEmployer({j \in Job : InQueue(j)}, f.cap)}

Kept(f) == TopOfEachEmployer(Eligible(f), f.cap)

\* a comes before b on a column, its NULLs last in either direction.
Ahead(a, b, descending) ==
    \/ a # None /\ b = None
    \/ a # None /\ b # None /\ IF descending THEN a > b ELSE a < b

\* The column of _SORTS that a reader picked.
SortKey(f, j) ==
    CASE f.sort = "posted" -> Listing[j].posted
      [] f.sort = "salary" -> Listing[j].pay
      [] f.sort = "company" -> Listing[j].employer
      [] OTHER -> score[j]

\* _SORTS.  Within an employer by score, and every ordering ends in job_id.
SortsBefore(f, i, j) ==
    \/ Ahead(SortKey(f, i), SortKey(f, j), f.descending)
    \/ /\ SortKey(f, i) = SortKey(f, j)
       /\ \/ f.sort = "company" /\ score[i] > score[j]
          \/ (f.sort = "company" => score[i] = score[j]) /\ i > j

\* Every result the query may return, before LIMIT and OFFSET.
Results(f) ==
    {rows \in UNION {SetToSeqs(kept) : kept \in Kept(f)} :
        \A m, n \in DOMAIN rows : m < n => ~SortsBefore(f, rows[n], rows[m])}

---------------------------------------------------------------------------
(* GET /: the page and then the facets, each a statement with a snapshot of  *)
(* its own.                                                                  *)

Slice(rows, offset, n) ==
    SubSeq(rows, offset + 1, IF offset + n < Len(rows) THEN offset + n ELSE Len(rows))

\* One row more than the page is asked for, to know whether there is a next.
ReadPage(f, offset) ==
    /\ \E rows \in Results(f) :
           /\ walk' = [at |-> "listed", filters |-> f, offset |-> offset, offered |-> {},
                       more |-> Len(Slice(rows, offset, PageSize + 1)) > PageSize]
           /\ shown' = IF calm THEN shown \o Slice(rows, offset, PageSize) ELSE <<>>
    /\ UNCHANGED <<tables, now, calm, changes>>

Open(f) == walk = Idle /\ ReadPage(f, 0)

\* queue_facets: the employers offered are those of the queue without filters.
ReadFacets ==
    /\ walk.at = "listed"
    /\ walk' = [walk EXCEPT !.at = "page", !.offered = {Listing[j].employer : j \in {k \in Job : InQueue(k)}}]
    /\ UNCHANGED <<tables, now, shown, calm, changes>>

\* The link carries every filter.
NextPage ==
    /\ walk.at = "page"
    /\ walk.more
    /\ ReadPage(walk.filters, walk.offset + PageSize)

Close ==
    /\ walk.at = "page"
    /\ walk' = Idle
    /\ shown' = <<>>
    /\ calm' = TRUE
    /\ UNCHANGED <<tables, now, changes>>

---------------------------------------------------------------------------
(* What changes under a reader *)

Change ==
    /\ changes < MaxChanges
    /\ changes' = changes + 1
    /\ calm' = (walk = Idle)
    /\ shown' = <<>>
    /\ UNCHANGED <<walk, now>>

\* A scoring run scores a job once, and judges it once at the same score.
Score(j, n) ==
    /\ score[j] = None
    /\ ~filtered[j]
    /\ score' = [score EXCEPT ![j] = n]
    /\ Change
    /\ UNCHANGED <<judged, filtered, verdict, app>>

Judge(j) ==
    /\ score[j] # None
    /\ ~judged[j]
    /\ ~filtered[j]
    /\ judged' = [judged EXCEPT ![j] = TRUE]
    /\ Change
    /\ UNCHANGED <<score, filtered, verdict, app>>

\* A discovery run or the reclassification script judges the posting anew.
Filter(j) ==
    /\ filtered' = [filtered EXCEPT ![j] = ~@]
    /\ Change
    /\ UNCHANGED <<score, judged, verdict, app>>

\* The screen decides on an employer, or the user does on the settings page.
Rule(e, v) ==
    /\ verdict[e] # v
    /\ verdict' = [verdict EXCEPT ![e] = v]
    /\ Change
    /\ UNCHANGED <<score, judged, filtered, app>>

\* Slips the mutants try: one stage dated, and the stamp without COALESCE.
OnlyAppliedIsDated(s) == s = "applied"

NeedsTimestamp(s) == s \notin {"queued", "dismissed"}

Restamped(old, status, stamp) ==
    [status |-> status,
     appliedAt |-> IF NeedsTimestamp(status) THEN stamp ELSE IF old = None THEN None ELSE old.appliedAt]

\* The row that set_status's upsert leaves.
Upserted(old, status, stamp) ==
    [status |-> status,
     appliedAt |-> IF old # None /\ old.appliedAt # None THEN old.appliedAt
                   ELSE IF NeedsTimestamp(status) THEN stamp ELSE None]

\* POST /job/{id}/status.  job_detail begins the transaction, maybe before
\* midnight, and now() is its begin; rows of jobs are never deleted, so what it
\* found still holds.  A write of the same row by another tab comes before or
\* after.
SetStatus(j, status, stamp) ==
    /\ stamp \in {now - 1, now} \cap Nat
    /\ app' = [app EXCEPT ![j] = Upserted(@, status, stamp)]
    /\ Change
    /\ UNCHANGED <<score, judged, filtered, verdict>>

Tick ==
    /\ now < MaxNow
    /\ now' = now + 1
    /\ calm' = (walk = Idle)
    /\ shown' = <<>>
    /\ UNCHANGED <<tables, walk, changes>>

Next ==
    \/ \E f \in Walks : Open(f)
    \/ ReadFacets \/ NextPage \/ Close
    \/ \E j \in Job, n \in Points : Score(j, n)
    \/ \E j \in Job : Judge(j) \/ Filter(j)
    \/ \E e \in Employer, v \in Verdicts : Rule(e, v)
    \/ \E j \in Job, status \in Statuses, stamp \in 0..now : SetStatus(j, status, stamp)
    \/ Tick

Spec == Init /\ [][Next]_vars

---------------------------------------------------------------------------
(* GET /tracker *)

Week(day) == day \div WeekLength

\* weekly_conversion: the applications of a week by the day of applying.
AppliedIn(week) ==
    {j \in Job : app[j] # None /\ app[j].appliedAt # None /\ Week(app[j].appliedAt) = week}

Conversion(week) ==
    [applied |-> Cardinality(AppliedIn(week)),
     responded |-> Cardinality({j \in AppliedIn(week) : app[j].status \in {"responded", "interview"}}),
     interviewed |-> Cardinality({j \in AppliedIn(week) : app[j].status = "interview"})]

WeeksShown == {w \in 0..Week(now) : w >= Week(now) - Window}

\* funnel_counts
FunnelCount(stage) == Cardinality({j \in Job : app[j] # None /\ app[j].status = stage})

---------------------------------------------------------------------------
(* Properties *)

\* No two equal rows compete for the last place of an employer.
CapDecides(f) == Cardinality(Kept(f)) = 1

\* "LIMIT/OFFSET paging silently repeats and skips them" is what the end of
\* every ordering is for (store.py:486), and the cap is "applied to the
\* filtered set, not before it" (store.py:563).  While nothing changes, a walk
\* shows jobs of the queue that fit its filters, each once and in its order,
\* of employers the page offers; at its end, an employer of a job it has not
\* shown filled its cap with jobs as good.  Rows that tie at the cap are left
\* out: see NoJobTwice.
WalkShowsTheQueue ==
    walk # Idle /\ calm /\ CapDecides(walk.filters) =>
        LET f == walk.filters
        IN  /\ ToSet(shown) \subseteq Eligible(f)
            /\ \A m, n \in DOMAIN shown : m < n => SortsBefore(f, shown[m], shown[n])
            /\ walk.at = "page" => {Listing[j].employer : j \in ToSet(shown)} \subseteq walk.offered
            /\ ~walk.more => \A j \in Eligible(f) \ ToSet(shown) :
                   Cardinality({i \in OfEmployer(ToSet(shown), Listing[j].employer) : score[i] >= score[j]}) >= f.cap

\* The answers that came to applications of weeks no longer shown.
AnsweredEarlier ==
    {j \in Job : /\ app[j] # None /\ app[j].status \in {"responded", "interview"}
                 /\ app[j].appliedAt # None /\ Week(app[j].appliedAt) \notin WeeksShown}

\* The answers of the weeks shown, each with its number in its week, and those
\* to older applications are as many as the funnel's.
TablesAgree ==
    LET answers == {a \in WeeksShown \X (1..Cardinality(Job)) : a[2] <= Conversion(a[1]).responded}
    IN  Cardinality(answers) + Cardinality(AnsweredEarlier)
            = FunnelCount("responded") + FunnelCount("interview")

\* "Overwriting it on a later transition would silently reset every one of
\* them" (store.py:716): whatever is clicked in whichever order, by how many
\* tabs, a week the tracker still shows never loses an application, and its
\* two tables agree on the answers that came.
WeeksKeepTheirApplications ==
    [][/\ \A w \in WeeksShown \cap WeeksShown' : AppliedIn(w) \subseteq AppliedIn(w)'
       /\ TablesAgree']_vars

\* "Every ordering ends in job_id.  Without it, rows tied on the sort key have
\* no defined order between queries, and LIMIT/OFFSET paging silently repeats
\* and skips them" (store.py:486): while nothing changes, no job is on two
\* pages.  The code does not keep this: the window that ranks the jobs of an
\* employer orders by the score alone.
NoJobTwice == walk # Idle /\ calm => IsInjective(shown)
=============================================================================

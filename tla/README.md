# Verification of job_hunt

TLA+ models of the pipeline behind this repository: a FastAPI application
(`api/index.py`) on Vercel whose two cron routes discover job postings
(`pipeline/run_discover.py`, every ten minutes) and score them
(`pipeline/run_score.py`, every fifteen), and whose web pages let one person
review, answer and track them, over one PostgreSQL database. Paths
below are relative to the repository's root, `src/` in `PROJECT.json`.

Everything hard about this system is in one fact that the code's comments and
its tests do not show. `connection()` says "Statements autocommit unless
wrapped in a transaction" (`pipeline/db.py:48`), but the pool is not opened
with autocommit, so **each cron delivery is one transaction** from `start_run`
to `finish_run`. The tests give each run an autocommit connection
(`tests/conftest.py`) and so never meet what follows from it: a kill that takes
back a whole run, row locks held for minutes, a statement of one coroutine
inside another's savepoint, a spend row that only its own run can see. The
models work at the level of statements and transactions for that reason. A web
request is one transaction too.

## 1. The system

| Part | State | Operations | Meets |
|---|---|---|---|
| Discovery run, `run_discover.py` | queue of 200, counters, `SourceConfig.errors`, deadline | `_produce` per source, `_consume`, `run` | adapters (generators), store, one shared connection |
| Adapters, `sources/*.py` | position in boards or pages, hosts that answered 403 | `fetch` | HTTP session |
| HTTP session, `http.py` | `http_cache` rows, last hit per host | `_request`, validators, backoff, turnstile | the run's connection |
| Job store, `store.py`, `001_initial.sql` | `jobs` (two unique keys), `companies`, `run_log` | `upsert_company`, `upsert_job`, `start_run`, `finish_run` | both crons, the web pages |
| Source scheduling, `store.py`, `002_source_state.sql` | `source_state` | `claim_source`, `record_source_result` | overlapping deliveries |
| Transactions, `db.py`, `api/index.py` | snapshot and row locks of PostgreSQL | begin, savepoint, commit, rollback, kill | everything |
| Scoring run, `run_score.py` | batch, candidates, counters, deadline | pass 1 `upsert_score`; pass 2 screen, judge, `upsert_score` | LLM, screen, store |
| LLM and judge, `llm.py`, `judge.py` | `llm_spend` | `assert_under_cap`, `call_structured`, `record_spend`, `judge_job` | Anthropic |
| Sharia screen, `filters/sharia.py` | `sharia_*` columns of `companies` | `screen_company`, `_store`, `set_sharia_override` | scoring, discovery, the user |
| Pre-filter and location, `filters/` | none | pure rules | discovery, `reclassify` |
| Normalisation, salary, text, `score.py` | none | pure functions | discovery, scoring |
| Answer bank and questions, `apply/`, `store.py`, `web/settings.py` | `answer_bank`, `unmapped_questions` | `upsert_answer`, `record_unmapped`, `resolve_all` | the user's tabs, the job page |
| Application tracker, `web/tracker.py`, `web/detail.py`, `store.py` | `applications` | `set_status`, `funnel_counts`, `weekly_conversion` | the user's tabs, the queue |
| Review queue page, `web/queue.py`, `store.py` | none of its own | filtered, capped, paged query | jobs, scores, companies |
| Scripts, `scripts/migrate.py`, `scripts/reclassify.py` | `schema_migrations`, `jobs` | apply files; recompute verdicts page by page | discovery |
| Settings, web shell, configuration, profile, registry, reports, fixtures, docs | none or read-only | rendering, reading | - |

What makes each part correct, and what is hard about it:

- **Discovery run.** Every job read gets exactly one fate and the run's report
  tells which; the run ends. Hard: a bounded queue between coroutines that share
  one connection, a sentinel, a deadline looked at by both sides, and producers'
  `http_cache` statements that can land between the consumer's `SAVEPOINT` and
  its `ROLLBACK TO`.
- **Job store.** A row never mixes two postings, rows permanent, `jobs_new`
  truthful, redelivery harmless. Hard: `ON CONFLICT` absorbs one of
  two unique keys, and sequences of edits and reposts meet every mix of both.
- **Source scheduling.** Overlapping, repeated and killed deliveries never work
  at the same time, keep a source's interval, never deadlock, and part a reply's
  validators from its jobs only where the reply was dropped on the budget or
  lost. Hard: validators are stored before the body is parsed.
- **Scoring run, LLM, screen.** A committed judgement or user ruling is never
  lost, the spend ceiling holds, everything ends. Hard: check, call and record
  are three steps; two kinds of transactions lock the same companies.
- **Pre-filter and location.** A posting is open to the best of its offices,
  a comma neither merges two offices nor splits one, the first rule that applies
  gives the reason. Hard: lists of cities, states and countries combine freely
  and each test of a place hides those after it.
- **Reclassification.** Every stored job is judged again by the edited rules and
  counted once, and no refresh is taken back. Hard: it pages by `OFFSET` in one
  transaction while discovery commits rows and holds locks.
- **HTTP session.** Requests to a host keep their distance whoever asks, a 304
  is about content that was received (with two exceptions, section 4), a call
  ends. Hard: the delay is computed under a lock that is released before the
  request, retries queue up again, and resources that differ in a parameter
  share one row of `http_cache`, dates included.
- **Answer bank.** The last accepted answer to a question is the one given, an
  answered question leaves the list of gaps. Hard: two unique keys of which
  `ON CONFLICT` names one, a look before the write, wordings that mean a key or
  are spelled like one, and a form that records gaps it found earlier.
- **Review queue.** A walk through the pages shows what the filters and the cap
  per employer let through, each job once. Hard: pages are separate queries
  while jobs are scored, filtered and acted on; a window ranks before the sort.
- **Tracker.** `applied_at` is set once, over any sequence of clicks, so that no
  week loses an application and both tables agree.

`PROJECT.json` lists every component with its status, and every hazard at the
line where it bites, with the property that covers it or the reason none does.

## 2. The modules

| Module | Models | State it keeps |
|---|---|---|
| `JobTable` | `upsert_job` as operators on a table from fingerprints to rows | - |
| `JobStore` | sequences of runs over that table while boards publish, edit, withdraw | open and committed table, run counters |
| `RunLedger` | **abstract**: what one discovery run promises about jobs it reads | fate of each job, what is reported |
| `DiscoverRun` | one run, statement by statement, over `JobTable` | producers, queue, consumer, connection, table |
| `CronRuns` | overlapping deliveries of discovery | clock, row locks, claims, validators, versions |
| `ScoreRun` | overlapping scoring runs beside discovery and a user | row locks, own and committed rows, ledger |
| `Screening` | the pre-filter and the location rules as operators | - |
| `Reclassify` | `reclassify.py` beside discovery runs, over `Screening` | page and offset, own and committed rows, locks |
| `PoliteHttp` | coroutines that share one `PoliteSession` | each call, locks, clocks, `http_cache`, servers |
| `FormQuestions` | the question catalog, templates and dates as operators | - |
| `AnswerBank` | tabs that save answers beside resolutions that record gaps | both tables, what each request has read |
| `ReviewQueue` | a reader of the queue and the tracker beside everything that changes them | scores, verdicts, applications, the walk |
| `*_proofs` | theorems and proofs about the module they extend | - |
| `MC*` | instances for TLC | - |

How they fit: `DiscoverRun` and `JobStore` extend `JobTable`, so both resolve
collisions with the same operators. `DiscoverRun` implements `RunLedger`
(property `LedgerSpec`, an `INSTANCE` under a refinement mapping from queue,
hands and sets to fates). `JobStore` runs one after another, which `CronRuns`
justifies (`RunsAreSerialised`); `CronRuns` treats a fetch as one reply, whose
inside is `DiscoverRun`'s subject. `ScoreRun` sees discovery as a transaction
that locks companies one by one, which is what `upsert_company` does in
`DiscoverRun`'s action `CompanyStored`. `Reclassify` sees discovery as a
transaction that inserts and refreshes rows of `jobs`, and judges rows with
`Screening`'s operators. `PoliteHttp` is the inside of `Request` in
`DiscoverRun` and `CronRuns`. `AnswerBank` takes what a wording means and what
the profile can fill from `FormQuestions`. `ReviewQueue` sees scoring, discovery,
the screen and the settings page as the rows they change.

### Code and model

`PROJECT.json` maps every definition to its lines; the main correspondences:

- `JobTable!Sighted` is `upsert_job`: `Collides` is the case in which the
  insert meets the other unique key, `Upsert` the `ON CONFLICT` update,
  `Resolve` the fallback `UPDATE`, `Fails` the case in which that matches no row
  and `row["job_id"]` raises. Both keys are the database's `UNIQUE` constraints
  (`001_initial.sql`): a table is a function from fingerprints, and `Collides` is
  the other constraint. They are assumed of PostgreSQL, not shown of the code.
- In `DiscoverRun` a step is one statement, one HTTP reply or one queue
  operation, because coroutines interleave at awaits and psycopg's connection
  lock lets one statement through at a time. `guarded` holds the validators
  written since the open savepoint, which `ROLLBACK TO` takes back; `txn`
  becomes `aborted` when a statement fails on the server. `TakeLate` is the drain.
  A 200 stores its validators (`Received`) and then its body decides: the board's
  jobs (`Answered`), no JSON (`NotJson`), JSON that is no board, which the adapter
  passes over (`PassedOver`) or fails on (`NoBoard`, which ends the source). The
  fallback `UPDATE` stands outside the savepoint and can fail too (`ResolveFails`).
- In `CronRuns` `Claim` is `INSERT ... ON CONFLICT DO UPDATE ... WHERE`, which
  locks the row whether or not the condition grants the claim. `start` is
  `now()`, constant in a transaction. A reply's jobs are stored (`Store`), drained
  after the deadline (`Drop`) or lost (`Lose`: the body is not JSON or no board, an
  entry is malformed, an upsert fails); its validators are kept in all three.
  `RequestFails` is a request without a 200, which writes nothing. `Commit`
  publishes what the run wrote, and `outcome` which of the three it was;
  `RollBack` (a kill, a raise) publishes nothing, and the requests stay made.
- In `ScoreRun` a row has a committed value and, while a transaction holds its
  lock, the value that transaction sees (`ScoreSeen`, `ScreenSeen`): PostgreSQL's
  READ COMMITTED. `Upserted` is the `COALESCE` merge. `bill` is the `llm_spend`
  rows of an open transaction; `CapReached` reads the committed sum and one's
  own. `InCycle` and `DeadlockVictim` are PostgreSQL's deadlock detection, which
  may pick any transaction of the cycle. After a failing statement run_score's
  handlers go on in an aborted transaction, where all later statements fail
  until `spend_today` or `top_unjudged` raises: one step in the model, because
  nothing of it is visible outside.
- In `Screening` a location is a sequence of strings (what `_SPLIT_RE`
  separates) of parts (what commas separate), and a part is a model value. A
  vocabulary gives, per section of `geography.yaml`, the parts in which one of
  its terms is found (`re.search`) and those that are one of its terms
  (`fullmatch`); which is how "new mexico" is a state in which a country is
  found, and "in-office" begins with a state code without being one. `PlaceClass` is
  `_place_class` test by test. Prefiltering every location of the instance with
  the repository's own `prefilter` over the strings its model values stand for
  gives the same reason and class each time.
- In `Reclassify` a table is a function from ids to rows of content and verdict;
  `Seen(t)` is what a statement of `t` reads under READ COMMITTED. A page is
  `LIMIT batch OFFSET offset` of the script's view by rank; its rows are judged
  in order, as they were read, and the `UPDATE` sets the verdict of the row as
  it is by then (`Rejudged`). `Upsert` is the refresh, or after a collision the
  fallback that sets the verdict only. `Judgement` is `Prefilter` per content
  and rules, written as a function so that TLC computes it once.

- In `PoliteHttp` a call is at the turnstile (`turn`), asleep in it (`pause`),
  waiting for a reply (`sent`) or for another attempt (`backoff`). `line` is an
  `asyncio.Lock`: its holder and its waiters, in order. `WaitTurn` is the code
  from the lock to the sleep, or to the request when nothing is left to wait
  for; `PassTurn` wakes up, sets `_last_hit` and lets go of the lock. `since` is
  `time.monotonic() - _last_hit`, counted no further than the delay. A row of
  `http_cache` is the content its validators came with and which of `ETag` and
  `Last-Modified` there were; an answer replaces both columns, or leaves the row
  alone when it has neither (`Stored`). `Unmodified` is the server: it compares the
  tag when one is sent, else the date, whatever resource the date came from.
  `Answered` stores the validators first; a caller has the content only if the
  body is JSON (`Garbled`).
- In `AnswerBank` `Look` is `upsert_answer` up to its `SELECT`, `Store` the
  `UPDATE` or the upsert, `_clear_unmapped` and the commit: a statement that
  meets an uncommitted row waits for its transaction, so nothing else can come
  between. `Violates` is a `UniqueViolation`, answered 500. A row's key never
  changes once it is set, and stands for `answer_id`. `Named` is the lookup in
  `resolve_all`'s dict of keys and wordings, `Source` where an answer comes from,
  and `Answers` the answers it may be: two rows share a name when a wording
  without a key is spelled like the key of another row (`Namesakes`), and which
  of them the dict keeps depends on categories, which are left out.
- In `FormQuestions` a wording is the set of keys whose patterns match it, and a
  template the set of its variables; `Catalog` has the catalog's order, which
  decides. `MCAnswerBank` computes what its wordings mean and what its profile
  fills with `MatchQuestion` and `FilledKeys`.
- In `ReviewQueue` `Results(f)` is every list of rows the query of `queue_page`
  may return: the filters, the window over each employer by score alone
  (`TopOfEachEmployer`), the order with its final `job_id`. `ReadPage` and
  `ReadFacets` are two statements with a snapshot each. `Upserted` is
  `set_status`'s upsert; `SetStatus` may stamp the day before, when its request
  began before midnight.

## 3. The runs

| Run | Question | Instance |
|---|---|---|
| `job_store` | Does the table stay right over edits, reposts, withdrawals, drains, kills? | 2 source ids, 3 contents, 2 verdicts, 2 runs |
| `job_store_edited` | Is every sighting stored? **No** | the same |
| `discover_run` | Is every job accounted for, does the run end, does it implement `RunLedger`? | an ATS with 2 boards, a feed with 2 pages, 3 jobs, queue of 1 |
| `cron_runs` | Do overlapping deliveries stay apart, in time, and free of deadlock? | 2 instances, 2 sources, clock to 4 |
| `cron_runs_refetch` | Is what was dropped on the budget fetched again? **No** | the same, no fairness needed |
| `score_run` | Are judgements, rulings and (serially) the ceiling kept, does everything end? | 2 runs, 1 discovery, 2 jobs of 2 employers, ceiling 1 |
| `score_run_cap` | Is the ceiling a ceiling? **No** | the same, batches of 1 |
| `reclassify` | Does paging skip no row, is the report true, do the rules keep their word, does everything end? | 10 parts, 1,816 contents, tables of 1 to 3 rows, 1 discovery run, batches of 1 |
| `polite_http` | Do requests keep their distance, is a 304 about received content, do calls end? | 2 coroutines, 1 host with a delay of 4 ticks, 2 resources in one row, tags or dates, 2 attempts |
| `answer_bank` | Is the last accepted answer given, does a question leave the list? | 2 tabs, 1 form, 2 keys, 4 wordings, 2 answers |
| `review_queue` | Does a walk show the queue, do weeks keep their applications? | 4 jobs of 2 employers, 6 sets of filters, pages of 1, 2 changes, clock to 2 |
| `review_queue_ties` | Is every job on one page? **No** | the same from equal scores, clock to 1 |

**Why these bounds are enough to be interesting.**

- `MaxRuns = 2` with three contents over two source ids reaches a first ingest
  and a second sighting in which a posting is edited to new content, edited onto
  another row, swapped or reposted, and a kill or drain of either. A third source
  id shows one thing more, `RunTwiceSameRows` of section 4, and with two verdicts
  takes too long; the run's properties are proved for any number.
- `QueueSize = 1` makes every `put`, the sentinel's too, wait for room. The
  start table makes one job collide and resolve, one collide and fail, one new.
- In `MCCronRuns` one source's interval (2) is longer than the budget (1) and
  as long as the ceiling (2); the other has none, so a delivery may fetch it
  each time. `MaxTime = 4` fits a run, a kill at the ceiling, and a second run
  inside the first one's interval. `MaxVersion` is 1 for the source with an
  interval and 2 for the other: a feed changes once between two fetches.
- In `MCScoreRun` one employer is on the blocklist, so both tiers of the screen
  are met and both companies are locked; `Cap = 1` with calls that cost 1 makes
  the ceiling bite at once, for the screen's call and for the judge's.
  `PerCompany` and `JudgeLimit` do not bind there; their part in the ranking is
  fixed by `Best`. `BatchSize` is 2 in `score_run` and 1, which needs a second
  batch, in `score_run_cap`.
- `MCReclassify` has a part for each thing the rules tell apart: a Bay Area
  city, one that shares its name with a city elsewhere (ambiguous after the
  edit, plain before), a state that is also a city, California's code and
  another state's, a state that contains a country's name, a country, a foreign
  city, the country-wide term, and a part that means nothing. Every location of
  one string of up to three parts and of two strings of one part, every header
  of up to two, every family of words and figure around the floor stands alone
  in the table once. Two tables have a discovery run beside the script that
  inserts or refreshes twice; in one it holds an id between two committed ones,
  so its commit shifts rows that were already read. Batches of 1 put a page
  boundary between any two rows. Three parts in one string are needed for a
  qualifier after a merged place, and nothing in `CommaPlaces` looks further
  back than the last place.
- In `MCPoliteHttp` both coroutines use one host, so each meets the other's lock,
  sleep, backoff and refusal; the resources share a row of `http_cache`. One of
  them is edited once, into a body that is not JSON; the other's date lies between
  the two, so a date can hide either from it. An answer carries a tag, a date or
  neither. A delay of 4 ticks gives the jitter a choice (3, 4 or 5),
  and a `Retry-After` of 9 is cut to the maximum of 2. Production has one
  producer per host; the code is written for more. Two attempts instead of three
  have a first, a last and a backoff between them.
- In `MCAnswerBank` one wording matches two entries; one is spelled like a key
  and matches none (an underscore is no boundary of a word); the profile fills one of the two questions, so the other is a gap until it is
  answered. Two tabs suffice for two saves of one row to
  meet; the form can read before either and record after both. `MaxSeen = 1`
  caps a counter that nothing compares.
- In `MCReviewQueue` three jobs share an employer, so caps of 1, 2 and 3 cut or
  do not; one table begins with all jobs scored and a tie between employers, the
  other with two to be scored, also into a tie at the cap (`review_queue_ties`
  begins with one), some jobs publish no pay or no date, and each order is walked. Two changes suffice
  to score and judge a job, to apply and go back, or to change two jobs under a
  page. A week of one day and a window of one week let a week end, an
  application fall into it afterwards, and the week leave the window by the last
  tick of the clock.

**Fairness.** `DiscoverRun` assumes weak fairness of each producer, of the
consumer and of `run`: the event loop resumes every coroutine that can run,
statements complete, requests time out and are retried a bounded number of
times (`http.py`). Nothing is assumed of the deadline. `CronRuns` needs strong
fairness of each run's next step: a claim is enabled and disabled as locks come
and go, and PostgreSQL's lock queue serves waiters in order, which is what
strong fairness says here. It is not assumed that the platform kills anything.
`ScoreRun` needs only weak fairness per transaction, of moving on or being the
deadlock's victim: there are finitely many transactions, calls answer or raise,
and PostgreSQL looks for deadlocks after `deadlock_timeout`. The same is assumed
in `Reclassify` of the script and of each discovery run. `PoliteHttp` assumes weak
fairness of each coroutine's next step and of time: the event loop resumes who
can go on, a lock serves its waiters in order, a request is answered or times
out after 30 seconds (`http.py:61`). The budget, kills, rulings, servers and
readers carry no fairness.

## 4. Where code and words disagree

Four runs state what a comment, docstring or design document says and TLC finds
it violated; `findings` in `PROJECT.json` quotes the lines.

1. `EverySightingStored`. A posting edited to content that matches no row
   collides with its own old row on the source id; the fallback matches nothing
   and raises. Every later run counts one error and the edit never arrives.
2. `NextRunRefetches`. Validators are stored when a reply arrives. If its jobs
   are then drained after the deadline, the next request is answered 304.
3. `CapIsACeiling`. Spend rows are written in the run's transaction: a rolled
   back run takes them back, and overlapping runs do not see each other's.
4. `NoJobTwice`. The comment over `_SORTS` says that every ordering ends in
   `job_id`, because otherwise paging repeats and skips rows; the window that
   applies the cap per employer orders by score alone. Equal jobs at the cap may
   be ranked differently by the query of the next page.

Seven more formulas stand in the modules beside their operators. TLC finds each
violated as well when it is put into the instance's `.cfg` (the first with
`Fingerprint = {f1, f2}`, three source ids and one verdict; the fourth with
one scoring run, one discovery run and batches of 1); they are told here and have no run.

- `JobStore!RunTwiceSameRows`. "run it twice, get the same rows" (`store.py:4`).
  A sighting that met its source id on another row was resolved onto its content's
  row and left that row's source id alone. If a later sighting of the run gave the
  other row a new source id, a second delivery no longer collides, and moves it.
- `DiscoverRun!QuietRunAskedEveryBoard`. A 403 ends a source with no error
  recorded, and JSON that is no board is passed over (`lever.py:70`), though
  `sources/base.py:19` gives `errors` the task of showing it.
- `CronRuns!FetchesAreSpaced`. A killed run's claim is rolled back, its requests
  are not: "seconds between fetches" (`sources/base.py:36`) are between claims.
- `ScoreRun!OnlyKillsLoseScores`. Discovery locks companies in posting order and
  keeps them; the screen locks in rank order. The victim's whole run is lost,
  beside a comment (`run_score.py:132`) that the scores already written stay.
- `Reclassify!StatesAreInTheUS`. `_place_class` looks for foreign terms first and
  finds "mexico" in "new mexico": jobs there are stored as outside the US.
- `AnswerBank!AnsweredOnceIsFilledIn`. `save_answer` never asks `match_question`,
  and the empty form of the settings page posts no key: a question of the
  catalog answered in his own words is stored under its wording, shown, and not
  filled in, although answering it once "moves it to source 1 forever"
  (`apply/answers.py:9`).
- `AnswerBank!NoRowIsHidden`. A wording saved without a key and spelled like one
  ("gender", "relocation") shares a name with the row of that key, and the dict
  of `resolve_all` keeps one of the two: an answer "accepted, saved, and then
  never shown" (`answers.py:193`).

Nor is a 304 always about content that was received, as "content unchanged"
(`http.py:193`) would have it. `NotModifiedMeansSeen` without its two exceptions
is violated in the `polite_http` instance: `If-Modified-Since` is sent from a row
that all pages of a feed share, so a later date of page 0 makes the server call
a page 1 unmodified that was never received; and a body that is not JSON has its
validators stored before it raises. With them the invariant says that nothing
else leads there: no retry, overload, refusal or other caller.

The passing runs say what does hold next to each: `RowsFollowTheirSightings`
for sightings that do not fail, `ValidatorsMatchRows` outside drained and lost
replies, `QuietRunIsComplete` up to boards that sent JSON which is no board,
`RunTwiceSameJobs` for the set of rows, their verdicts and their ages,
`ClaimsAreSpaced` for committed claims, `SerialRunsKeepCap` for runs that follow
one another, up to the charges whose rows were rolled back (`undone`) or that
never had any (`unanswered`), `OfficesDecide` for whatever classes the offices
have, `WalkShowsTheQueue` for walks without a tie at a cap, `StoredAnswerWins` for
answers saved under a key, up to a wording spelled like that key.

## 5. The theorems

TLAPS proves these for all values of the constants that satisfy the modules'
named assumptions (`FeedAssumption`, `SizeAssumption`, `OccurrenceAssumption`,
`CronAssumption`, `ScoreAssumption`, `ReclassifyAssumption`, `ScenarioAssumption`,
`NoneAssumption`, `BankAssumption`, `HttpAssumption`, `QueueAssumption`, and
JobTable's `NoRowAssumption`); TLC evaluates the assumptions in each run.
`OccurrenceAssumption` says that a board is one request and an item one raw job:
what is listed twice is two of them, possibly with the same posting.
`Vocabulary`, to which `ReclassifyAssumption` refers, says that a term found by
`fullmatch` is found by `search`.

| Module | Theorem | Inductive invariant and why it is needed |
|---|---|---|
| `JobStore_proofs` | `TypeCorrect`, `NewJobsAddUp`, `CommittedRowsStay`, `RowsAreTheirSightings`, `RedeliveryIsHarmless` | `IInv`: both keys (the schema's, which the other parts need), the count, finiteness of both tables (a cardinality says nothing of an infinite set), and: the open table extends the committed one, without which a commit could remove a row. `SightingInv`: the committed table is sourced as well as the open one, because a kill brings it back. `RedeliveryIsHarmless` goes through the second delivery sighting by sighting (`Resembles`: same rows, same ages, and each verdict right unless its content is still to come) |
| `DiscoverRun_proofs` | `TypesHold`, `NoJobIsLost`, `CollisionsAreConfined`, `QuietRunsAreComplete`, `ImplementsLedger` | `Positions` (a producer's state and its remaining boards), `Flow` (the sentinel is last and only there when all producers have ended), `TxnState` (which consumer states have a savepoint open), `Coverage` (every job read is settled, in a hand, in a rest or on the queue), `Traces` (whatever makes a producer stop early, or a job go unstored, is in the report), `Apart` (a job is in one of those places and once: the refinement needs it, since a step must change one fate at most) |
| `CronRuns_proofs` | `TypesHold`, `OneRunAtATime`, `NoWaitingCycle`, `ClaimsKeepTheirInterval`, `ValidatorsKeepUp` | `LocksHeld` (what a run has claimed it has locked), `StillDue` (a claim granted stays due until it commits, because its row is locked), `GotMatchesFate` (what a run received against what it did with it, a lost reply included) |
| `ScoreRun_proofs` | `TypesHold`, `JudgementsAreKept`, `RulingsAreKept`, `CapHoldsSerially` | `Places` (what the row at hand is in each state), `Drafts` (a holder's row is at least the committed one, and equal while nobody holds it; a ruling shows in both), `Ledger` (while runs do not overlap: charges = lost + committed + the one open bill, and a call is in flight only under the ceiling) |
| `Reclassify_proofs` | `TypesHold`, `ContentStays`, `OfficesDecided`, `EveryRowIsRejudged`, `ReportsMatchWrites`, `BayOfficesStayLocal` | `Fresh` (the sequence is ahead of every row, so an insert meets nobody's lock), `Kept` (what the script wrote are committed rows with their contents: without it a commit of an old page could bring an old content back), `Sighted` (the row a run is about to refresh is still there). `OfficesDecided` rests on the lemmas about `Strongest` and needs no more of the state than that contents are jobs. `Progress` is about the rows discovery has not touched: each is done, on the page, or still at a rank of at least `offset`, which a row keeps because ranks only grow as rows are committed. `BayOfficesStayLocal` follows the recursion of `CommaPlaces`: a place that is no longer the last one never changes |
| `PoliteHttp_proofs` | `TypeCorrect`, `NotModifiedIsSeen`, `RequestsKeepApart` | `PauseIsEnough` (who sleeps in the turnstile holds the lock, and the time gone by and the time left make up the delay less its jitter; the lock is what keeps another from setting the clock back), `ClocksAgree` (`_last_hit` is set exactly when a request leaves), `TagsAreSeen` (validators, tag or date, come from an answer that was received or was not JSON, in the table and in a call that has carried them through its retries) |
| `AnswerBank_proofs` | `TypeCorrect`, `StoredAnswersWin`, `AnsweredQuestionsLeave`, `StartDateIsRight`, `YearsAreRight` | `RowsUnique` (both keys of the table), `KeysMean` (a row's key is what its wording means, so an upsert by wording never takes a key from a row), `FoundStays` (the row a save has found is still there when it writes), `ToldIsStored`. Nothing is assumed of wordings that are spelled like keys. The two about dates are arithmetic and hold of no state; `YearsAreRight` says "within half a year" from half a year after the first start on, and "one" before |
| `ReviewQueue_proofs` | `TypeCorrect`, `WeeksKeep`, `WalksShowTheQueue` | `Dated` (nobody applied after today, so a week that ended gets no new members and a shown one loses none); the two tables agree because the answers of the weeks shown, numbered in their weeks, and those of the weeks gone by are in bijection with those of the funnel. `Walking` (what was shown is the beginning of one result, up to the end of the page): without a tie at a cap the kept set is determined, and the order is total, so the next page's query has the same result (`OneResult`) |

`OneRunAtATime` assumes at least one source: with none there is no row to lock.
`JobStore_proofs` begins with the lemmas about `Sighted` (its type, what it does
to the set of rows, that it keeps keys unique, that it writes one row).
Induction over a run or a list, where it is needed, is by the least counterexample
(`LeastNumber`), which no operator has to be passed to; the recursive functions
`Redelivered` and `CommaPlaces` are shown to exist in the same way.

Every invariant, every action property and the refinement that the passing runs
check is proved. **Only model-checked:** liveness (`RunEnds`, `DeliveredRunsEnd`,
`TransactionsEnd` of both scripts, `CallsEnd`), because the prover does not
reason about fairness or `ENABLED`; and the violations of section 4, which are
counterexamples.

## 6. What is left out, and what was abstracted

- In `DiscoverRun` and `JobStore`, `to_job`, the pre-filter and the fingerprint
  are a constant from raw jobs to postings; the blocklist's matching is the
  constant set `Listed`, by company although the description also counts;
  `total_score` is a constant ranking without ties.
- One day of the spend ledger; a call costs 1..`MaxCost`, and may cost something
  although it raised or its caller was killed.
- The order of pass 1 is open: `ORDER BY last_seen_at` ties for all jobs of one
  discovery run. A failure to embed is one of the raises `Kill` stands for.
- `consecutive_errors`, `last_fetch_ok_at` and the columns of `run_log` other
  than the counts, `budget_hit` and errors are written and never read to decide.
- `Screening` leaves the matching of patterns to its constants: `finds`, `terms`,
  the words in a title's head. The split at "|", ";", "or" and the header's 300
  characters are given with the location.
- `Reclassify` stores no unique keys (`JobTable` does): whether a sighting
  collides is open, and a discovery run does not wait for another's uncommitted
  fingerprint. Its instances have one discovery run.
- `PoliteHttp` leaves out `aclose` and cancelled calls (nothing cancels one), and
  the requests httpx sends by itself to follow a redirect
  (`follow_redirects=True`, `http.py:62`): they pass no turnstile, so
  `RequestsAreSpaced` is about the requests `_request` makes. Which addresses
  redirect is the servers' affair and nothing in the repository says it. The
  timeout of 30 seconds is httpx's, per operation: that a request ends is an
  assumption about servers that do not send a byte now and then for ever. A call that passed the check for blocked hosts still sends after a
  403 that another call got; that needs two callers on a host.
- `CronRuns` has a source for one URL whose server sends a tag; that a reply can
  also be unmodified by its date, or share its row, is `PoliteHttp`'s subject.
- `AnswerBank` leaves out the text of a template (a stored answer with a variable
  that has no value is shown as it is written, `answers.py:180`) and the category,
  so which of two rows of one name is given is open. A form's `INSERT`s are one
  step: they go in the catalog's order and share at most one row with a save's
  `DELETE`, so a save is before or after all of them. Two first saves
  of one question by two tabs may end in a 500 for one of them (`Violates`).
  `resolve_all` is called with `record_gaps=False` by the only page that calls it
  (`web/detail.py`), and `resolve_one` by nothing yet; recording gaps is modelled
  from the code, as what its default and its docstring provide for.
- `ReviewQueue` leaves out `jobs.closed_at`, which nothing writes, the parsing of
  query strings, and the link back. A walk that is disturbed may repeat or miss
  jobs, since `OFFSET` counts rows of another result: nothing is claimed of it.
  `weekly_conversion` counts an application that was dismissed later and
  `funnel_counts` does not, so the tables are compared on answers; the weekly table
  ends after its window and the funnel does not, so answers of weeks gone by
  (`AnsweredEarlier`) are counted apart. A score is
  given once; a judgement keeps it.
- The CLI's own claim order, and every part `PROJECT.json` calls `not_modelled`:
  normalisation, salary and score composition are pure functions over text and
  floating-point numbers, the rest is configuration, reports and scripts.

## 7. Plan

Built, in this order: `JobTable`/`JobStore`, `RunLedger`/`DiscoverRun`,
`CronRuns`, `ScoreRun`, `Screening`/`Reclassify`, `PoliteHttp`,
`FormQuestions`/`AnswerBank`, `ReviewQueue`, each with its proofs. Next:

1. What of liveness the prover can reach: a measure for each terminating
   component (`DiscoverRun`, `ScoreRun`, `Reclassify`) that its own steps lower
   and nobody's raise, so that fairness is all that is left to TLC.
2. `Prefilter` against a definition without an order: the reason given is that of
   the first rule that applies, and a class is stored whatever the reason.
3. Salary ranges and score composition as operators on integers, each against a
   reference definition.
4. More of `ScoreRun`: several days, candidates that are passed over for ever.

## 8. Running it

    tlc -workers 2 -config MCJobStore.cfg MCJobStore
    tlapm JobStore_proofs.tla

Runs named after a `.cfg` with a suffix (`MCJobStoreEdited.cfg`, ...) are
expected to report a violation. The longest run takes about three minutes,
the longest proof about a minute.

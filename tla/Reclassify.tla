----------------------------- MODULE Reclassify -----------------------------
(***************************************************************************)
(* scripts/reclassify.py: after the rules were edited, every stored job is *)
(* judged again, page by page, in one transaction beside discovery runs    *)
(* that insert and refresh rows of the same table (store.reclassify_jobs,  *)
(* store.upsert_job).  The script is run from a checkout with the edited   *)
(* rules; a deployment may have either.                                    *)
(*                                                                         *)
(* A statement sees what is committed and, over it, what its transaction   *)
(* wrote (READ COMMITTED); a row written stays locked to the end.  A row   *)
(* is its content, which the pre-filter reads, and the stored verdict.     *)
(***************************************************************************)
EXTENDS Screening

CONSTANTS Discovery,      \* discovery runs
          Script,         \* the transaction of reclassify.py
          Geography,      \* the vocabulary of the rules before and after the edit
          RulesOf,        \* the rules each discovery run was deployed with
          Content,        \* what boards say of a job
          Scenario,       \* tables and discovery runs to begin with
          Feed,           \* contents discovery finds on the boards
          MaxId,          \* bound on job_id
          Sightings,      \* how many more sightings each discovery run has
          Batch           \* --batch

Txn == Discovery \cup {Script}
Id == 1..MaxId

Rules == {"deployed", "edited"}

Row == [content : Content, verdict : Verdict]
IsTable(f) == DOMAIN f \subseteq Id /\ f \in [DOMAIN f -> Row]
Sighting == [id : Id, content : Content, collides : BOOLEAN]

NoRows == [id \in {} |-> None]

ASSUME ReclassifyAssumption ==
    /\ Geography \in [Rules -> Vocabulary]
    /\ RulesOf \in [Discovery -> Rules]
    /\ Content \subseteq Job /\ Feed \subseteq Content
    /\ Script \notin Discovery
    /\ Sightings \in [Discovery -> Nat]
    /\ MaxId \in Nat /\ Batch \in Nat \ {0}

ASSUME NoneAssumption == None \notin Sighting /\ None \notin Reason

\* A job_id comes from the sequence, and a row is one transaction's at a time.
ASSUME ScenarioAssumption ==
    \A s \in Scenario :
        /\ IsTable(s.rows)
        /\ s.pc \in [Discovery -> {"absent", "idle", "ingesting"}]
        /\ s.next \in Nat
        /\ \A id \in DOMAIN s.rows : id < s.next
        /\ \A d \in Discovery :
            /\ IsTable(s.own[d])
            /\ s.own[d] # NoRows => s.pc[d] = "ingesting"
            /\ \A id \in DOMAIN s.own[d] :
                id < s.next /\ \A e \in Discovery \ {d} : id \notin DOMAIN s.own[e]

\* prefilter, for every content and either rules.
Judgement == [r \in Rules |-> [c \in Content |-> Prefilter(Geography[r], c)]]

VARIABLES pc,             \* where each transaction is
          own,            \* the rows it wrote, as it sees them; it has them locked
          at,             \* a discovery run's sighting on its way to the table
          left,           \* sightings it may still make
          dry,            \* --dry-run
          offset,         \* OFFSET of the next page
          page,           \* rows the script read and has not yet judged, as it read them
          changes,        \* how often the script counted a job as re-judged
          nextId,         \* the sequence of job_id
          rows,           \* committed rows of jobs
          start,          \* the table when the script began (auxiliary)
          touched         \* rows discovery committed since then (auxiliary)

script == <<dry, offset, page, changes>>
feed == <<at, left>>
vars == <<pc, own, feed, script, nextId, rows, start, touched>>

Ended == {"committed", "failed", "killed"}
Active(t) == pc[t] \notin {"absent", "idle"} \cup Ended

Init ==
    /\ \E s \in Scenario :
        /\ rows = s.rows
        /\ own = [t \in Txn |-> IF t = Script THEN NoRows ELSE s.own[t]]
        /\ pc = [t \in Txn |-> IF t = Script THEN "idle" ELSE s.pc[t]]
        /\ nextId = s.next
    /\ at = [d \in Discovery |-> None]
    /\ left = Sightings
    /\ dry \in BOOLEAN
    /\ offset = 0
    /\ page = NoRows
    /\ changes = [id \in Id |-> 0]
    /\ start = NoRows
    /\ touched = {}

Goto(t, state) == pc' = [pc EXCEPT ![t] = state]

\* The table g with the rows of f in place of its own.
Over(f, g) ==
    [id \in (DOMAIN f) \cup (DOMAIN g) |-> IF id \in DOMAIN f THEN f[id] ELSE g[id]]

\* What a statement of t reads.
Seen(t) == Over(own[t], rows)

Holder(id) == {t \in Txn : id \in DOMAIN own[t]}

Write(t, id, row) == own' = [own EXCEPT ![t] = Over([k \in {id} |-> row], @)]

\* How many rows ORDER BY job_id puts before this one.
Rank(table, id) == Cardinality({k \in DOMAIN table : k < id})

\* LIMIT batch OFFSET offset.
PageOf(table) ==
    [id \in {id \in DOMAIN table : Rank(table, id) \in offset..(offset + Batch - 1)} |-> table[id]]

-----------------------------------------------------------------------------
\* The plausible slips the mutants try: judging only what was rejected, reading
\* on another connection, writing back the row that was read, an offset that
\* stays, a rollback that keeps its rows.
PageOfRejected(t) ==
    PageOf([id \in {id \in DOMAIN Seen(t) : Seen(t)[id].verdict.reason # None} |-> Seen(t)[id]])

PageOfCommitted(t) == PageOf(rows)

WholeRow(id, verdict) == [page[id] EXCEPT !.verdict = verdict]

SameOffset(n) == offset' = offset

RollBackKeeping(t, state) ==
    /\ at' = IF t = Script THEN at ELSE [at EXCEPT ![t] = None]
    /\ Goto(t, state)
    /\ UNCHANGED <<own, left, script, nextId, rows, start, touched>>

\* Rows are locked to the end of the transaction that wrote them.
CanWrite(t, id) == Holder(id) \subseteq {t}

-----------------------------------------------------------------------------
(* The script.                                                             *)

StartScript ==
    /\ pc[Script] = "idle"
    /\ start' = rows
    /\ Goto(Script, "reading")
    /\ UNCHANGED <<own, feed, script, nextId, rows, touched>>

\* closed_at is never set, so WHERE closed_at IS NULL drops nothing.
Page(t) == PageOf(Seen(t))

Advance(n) == offset' = offset + n

ReadPage ==
    /\ pc[Script] = "reading" /\ page = NoRows
    /\ page' = Page(Script)
    /\ Advance(Cardinality(DOMAIN page'))
    /\ Goto(Script, IF page' = NoRows THEN "finishing" ELSE "reading")
    /\ UNCHANGED <<own, feed, dry, changes, nextId, rows, start, touched>>

\* The three columns of the UPDATE, onto the row as it is by then.
Rejudged(id, verdict) == [Seen(Script)[id] EXCEPT !.verdict = verdict]

\* The row at hand, in the order of the page, is judged as it was read.
AtHand(id) ==
    /\ pc[Script] = "reading" /\ id \in DOMAIN page
    /\ \A k \in DOMAIN page : id <= k

NewVerdict(id) == Judgement["edited"][page[id].content]

Differs(id) == NewVerdict(id) # page[id].verdict

OffThePage(id) == page' = [k \in DOMAIN page \ {id} |-> page[k]]

LeaveAsItIs(id) ==
    /\ AtHand(id) /\ ~Differs(id)
    /\ OffThePage(id)
    /\ UNCHANGED <<pc, own, feed, dry, offset, changes, nextId, rows, start, touched>>

\* The UPDATE waits while another transaction has the row.
Rejudge(id) ==
    /\ AtHand(id) /\ Differs(id)
    /\ IF dry THEN UNCHANGED own
       ELSE CanWrite(Script, id) /\ Write(Script, id, Rejudged(id, NewVerdict(id)))
    /\ changes' = [changes EXCEPT ![id] = @ + 1]
    /\ OffThePage(id)
    /\ UNCHANGED <<pc, feed, dry, offset, nextId, rows, start, touched>>

ScriptStep == StartScript \/ ReadPage \/ \E id \in Id : LeaveAsItIs(id) \/ Rejudge(id)

-----------------------------------------------------------------------------
(* A discovery run.                                                        *)

Begin(d) ==
    /\ pc[d] = "idle"
    /\ Goto(d, "ingesting")
    /\ UNCHANGED <<own, feed, script, nextId, rows, start, touched>>

MaySight(d) == pc[d] = "ingesting" /\ left[d] > 0

\* A posting whose fingerprint is new: nextval and the insert.
Insert(d, c) ==
    /\ MaySight(d)
    /\ nextId \in Id
    /\ nextId' = nextId + 1
    /\ left' = [left EXCEPT ![d] = @ - 1]
    /\ Write(d, nextId, [content |-> c, verdict |-> Judgement[RulesOf[d]][c]])
    /\ UNCHANGED <<pc, at, script, rows, start, touched>>

\* A posting whose fingerprint is stored.  It refreshes the row or, when its
\* source id collides with another row's, the verdict only.
Sight(d, id, c, collides) ==
    /\ MaySight(d)
    /\ id \in DOMAIN Seen(d)
    /\ at' = [at EXCEPT ![d] = [id |-> id, content |-> c, collides |-> collides]]
    /\ left' = [left EXCEPT ![d] = @ - 1]
    /\ Goto(d, "upserting")
    /\ UNCHANGED <<own, script, nextId, rows, start, touched>>

Upsert(d) ==
    /\ pc[d] = "upserting"
    /\ CanWrite(d, at[d].id)
    /\ LET verdict == Judgement[RulesOf[d]][at[d].content]
           row == Seen(d)[at[d].id]
       IN  Write(d, at[d].id, [content |-> IF at[d].collides THEN row.content ELSE at[d].content,
                               verdict |-> verdict])
    /\ Goto(d, "ingesting")
    /\ at' = [at EXCEPT ![d] = None]
    /\ UNCHANGED <<left, script, nextId, rows, start, touched>>

Finish(d) ==
    /\ pc[d] = "ingesting"
    /\ Goto(d, "finishing")
    /\ UNCHANGED <<own, feed, script, nextId, rows, start, touched>>

-----------------------------------------------------------------------------
(* How transactions end.                                                   *)

Commit(t) ==
    /\ pc[t] = "finishing"
    /\ rows' = Seen(t)
    /\ touched' = IF t # Script /\ pc[Script] # "idle" THEN touched \cup DOMAIN own[t] ELSE touched
    /\ own' = [own EXCEPT ![t] = NoRows]
    /\ Goto(t, "committed")
    /\ UNCHANGED <<feed, script, nextId, start>>

RollBack(t, state) ==
    /\ own' = [own EXCEPT ![t] = NoRows]
    /\ at' = IF t = Script THEN at ELSE [at EXCEPT ![t] = None]
    /\ Goto(t, state)
    /\ UNCHANGED <<left, script, nextId, rows, start, touched>>

Kill(t) == Active(t) /\ RollBack(t, "killed")

\* Who has the row a transaction is waiting for.
WaitsFor(t) ==
    IF t = Script
    THEN UNION {Holder(id) \ {t} : id \in {k \in DOMAIN page : ~dry /\ AtHand(k) /\ Differs(k)}}
    ELSE IF pc[t] = "upserting" THEN Holder(at[t].id) \ {t} ELSE {}

InCycle(t) == \E S \in SUBSET Txn : t \in S /\ S = UNION {WaitsFor(s) : s \in S}

\* PostgreSQL fails one statement of a cycle.  The upsert has a savepoint: the
\* consumer counts an error and goes on.  The fallback UPDATE after a collision
\* and the script's UPDATE have none, and their transaction is lost.
SkipSighting(d) ==
    /\ InCycle(d)
    /\ at' = [at EXCEPT ![d] = None]
    /\ Goto(d, "ingesting")
    /\ UNCHANGED <<own, left, script, nextId, rows, start, touched>>

DeadlockVictim(t) ==
    /\ InCycle(t)
    /\ t # Script => at[t].collides
    /\ RollBack(t, "failed")

DiscoveryStep(d) ==
    \/ Begin(d)
    \/ \E c \in Feed : Insert(d, c)
    \/ \E c \in Feed, id \in Id, collides \in BOOLEAN : Sight(d, id, c, collides)
    \/ Upsert(d)
    \/ SkipSighting(d)
    \/ Finish(d)

EndStep(t) == Commit(t) \/ DeadlockVictim(t)

Next ==
    \/ ScriptStep
    \/ \E d \in Discovery : DiscoveryStep(d)
    \/ \E t \in Txn : EndStep(t) \/ Kill(t)

Spec == Init /\ [][Next]_vars

\* Statements complete, and PostgreSQL looks for deadlocks.
FairSpec ==
    /\ Spec
    /\ WF_vars(ScriptStep \/ EndStep(Script))
    /\ \A d \in Discovery : WF_vars(DiscoveryStep(d) \/ EndStep(d))
-----------------------------------------------------------------------------
\* Rows written are rows of a transaction under way, and only one has them.
TypeOK ==
    /\ pc \in [Txn -> {"absent", "idle", "reading", "ingesting", "upserting", "finishing"} \cup Ended]
    /\ own = [t \in Txn |-> own[t]]
    /\ \A t \in Txn : IsTable(own[t]) /\ (own[t] # NoRows => Active(t))
    /\ \A t \in Txn : \A id \in DOMAIN own[t] : Holder(id) = {t}
    /\ at \in [Discovery -> Sighting \cup {None}]
    /\ \A d \in Discovery : pc[d] = "upserting" <=> at[d] # None
    /\ left \in [Discovery -> Nat]
    /\ dry \in BOOLEAN /\ offset \in Nat /\ nextId \in Nat
    /\ changes \in [Id -> Nat]
    /\ IsTable(rows) /\ IsTable(page) /\ IsTable(start)
    /\ (DOMAIN page) \cup (DOMAIN start) \cup touched \subseteq DOMAIN rows

\* "No row shifts between pages" (store.py:322), though discovery inserts while
\* the script pages, with lower ids than those it has read when a transaction
\* commits late: once the script has committed, every job that was there when
\* it began carries the edited rules' verdict, unless discovery came after.
RowsRejudged ==
    pc[Script] = "committed" /\ ~dry =>
        \A id \in DOMAIN start \ touched : rows[id].verdict = Judgement["edited"][rows[id].content]

\* The report (reclassify.py:64, 80) counts a job once if its verdict changed and
\* not at all otherwise, also when inserts make a page repeat rows: a repeated
\* row is read with the verdict the script has just given it.
ReportMatchesWrites ==
    pc[Script] = "committed" /\ ~dry =>
        \A id \in DOMAIN start \ touched :
            changes[id] = IF rows[id].verdict = start[id].verdict THEN 0 ELSE 1

\* Rows stay, and what a board said of a job changes only by a discovery run:
\* the script, whose page may be older than the row, writes verdicts alone.
ContentIsDiscoverys ==
    [][\A id \in DOMAIN rows :
        /\ id \in DOMAIN rows'
        /\ rows'[id].content # rows[id].content =>
            \E d \in Discovery : pc'[d] # pc[d] /\ pc'[d] = "committed" /\ id \in DOMAIN own[d]]_vars

\* The script and the runs end, also when they wait for each other's rows.
TransactionsEnd == \A t \in Txn : Active(t) ~> pc[t] \in Ended

-----------------------------------------------------------------------------
(* What the rules decide, over the contents in the table.                  *)

\* The part names a Bay Area city and nothing else.
NamesTheBay(v, part) ==
    {s \in Section : part \in v.finds[s]} = {"bay_area"}

\* "San Francisco, New York is two offices, not one" (location.py:235): a Bay
\* Area city makes a posting local wherever it stands in the list and whatever
\* the other offices are, unless a country directly qualifies it.
BayOfficeIsLocal ==
    \A id \in DOMAIN rows, r \in Rules :
        LET v == Geography[r]
            location == rows[id].content.location
        IN  (\E i \in DOMAIN location : \E j \in DOMAIN location[i] :
                /\ NamesTheBay(v, location[i][j])
                /\ j < Len(location[i]) => location[i][j + 1] \notin v.terms["non_us_countries"])
            => Judgement[r][rows[id].content].class = "local"

\* The posting would be rejected for its location alone exactly when none of its
\* offices can be reached in its arrangement.
BestOfficeDecides(v, job) ==
    LET classes == {PlaceClass(v, p, TRUE) : p \in Places(v, job.location)}
        Reachable(c) == c \in {"local", "us_wide"} \/ (c = "us" /\ job.arrangement = "remote")
        acceptable == [job EXCEPT !.title = Target, !.salary = Unstated]
    IN  classes \ {"unknown"} # {} =>
            (Prefilter(v, acceptable).reason = None <=> \E c \in classes : Reachable(c))

\* "A posting open to several offices is open to the best of them"
\* (location.py:207), when some office is known at all.
OfficesDecide ==
    \A id \in DOMAIN rows, r \in Rules : BestOfficeDecides(Geography[r], rows[id].content)

\* "Presence means in the US" (geography.yaml:115): once the script is through, a
\* job with only American terms in its location is not one outside the US.  The
\* code does not keep this: the country in "new mexico" is found first.
StatesAreInTheUS ==
    pc[Script] = "committed" /\ ~dry =>
        \A id \in DOMAIN start \ touched :
            LET location == rows[id].content.location
                american == UNION {Geography["edited"].terms[s] : s \in Section \ Abroad}
            IN  location # <<>> /\ rows[id].content.header = <<>>
                /\ (\A i \in DOMAIN location : ToSet(location[i]) \subseteq american)
                => rows[id].verdict.class # "elsewhere"
=============================================================================

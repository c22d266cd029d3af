------------------------- MODULE Reclassify_proofs -------------------------
(***************************************************************************)
(* The script beside discovery runs, for every number of runs, table,      *)
(* vocabulary and batch size; and the location rules for every vocabulary. *)
(***************************************************************************)
EXTENDS Reclassify, FiniteSetTheorems, TLAPS

-----------------------------------------------------------------------------
(* What the rules return.                                                  *)

LEMMA ClassesListed == Class = {"local", "us_wide", "us", "elsewhere", "unknown"}
<1>1. DOMAIN Precedence = 1..5
  BY DEF Precedence
<1>2. \A i \in 1..5 : Precedence[i] \in {"local", "us_wide", "us", "elsewhere", "unknown"}
  BY DEF Precedence
<1>3. /\ Precedence[1] = "local" /\ Precedence[2] = "us_wide" /\ Precedence[3] = "us"
      /\ Precedence[4] = "elsewhere" /\ Precedence[5] = "unknown"
  BY DEF Precedence
<1>4. QED
  BY <1>1, <1>2, <1>3 DEF Class, ToSet

\* The least of a few numbers.
LEMMA MinOfSix ==
    ASSUME NEW S, S \subseteq 1..6, S # {}
    PROVE  Min(S) \in S /\ \A y \in S : Min(S) <= y
<1>1. \E x \in S : \A y \in S : x <= y
  <2>1. CASE 1 \in S
    BY <2>1
  <2>2. CASE 1 \notin S /\ 2 \in S
    BY <2>2
  <2>3. CASE {1, 2} \cap S = {} /\ 3 \in S
    BY <2>3
  <2>4. CASE {1, 2, 3} \cap S = {} /\ 4 \in S
    BY <2>4
  <2>5. CASE {1, 2, 3, 4} \cap S = {} /\ 5 \in S
    BY <2>5
  <2>6. CASE {1, 2, 3, 4, 5} \cap S = {}
    <3>1. \A x \in S : x \in 1..6 /\ x \notin {1, 2, 3, 4, 5}
      BY <2>6
    <3>2. \A x \in 1..6 : x \notin {1, 2, 3, 4, 5} => x = 6
      OBVIOUS
    <3>3. 6 \in S /\ \A x \in S : x = 6
      BY <3>1, <3>2
    <3>4. QED
      BY <3>3
  <2>7. QED
    BY <2>1, <2>2, <2>3, <2>4, <2>5, <2>6
<1>2. QED
  BY <1>1 DEF Min

\* The strongest of known classes is one of them, and none stands before it.
LEMMA StrongestFirst ==
    ASSUME NEW C, C \subseteq Class, C # {}
    PROVE  /\ Strongest(C) \in C
           /\ "local" \in C => Strongest(C) = "local"
           /\ "us_wide" \in C => Strongest(C) \in {"local", "us_wide"}
           /\ "us" \in C => Strongest(C) \in {"local", "us_wide", "us"}
           /\ "elsewhere" \in C => Strongest(C) # "unknown"
<1> DEFINE found == {i \in DOMAIN Precedence : Precedence[i] \in C}
<1>1. /\ DOMAIN Precedence = 1..5
      /\ Precedence[1] = "local" /\ Precedence[2] = "us_wide" /\ Precedence[3] = "us"
      /\ Precedence[4] = "elsewhere" /\ Precedence[5] = "unknown"
  BY DEF Precedence
<1>2. found # {} /\ found \subseteq 1..6
  <2>1. PICK c \in C : c \in Class
    OBVIOUS
  <2>2. \E i \in 1..5 : Precedence[i] = c
    BY <1>1, <2>1, ClassesListed
  <2>3. QED
    BY <1>1, <2>1, <2>2
<1>3. Min(found) \in found /\ \A y \in found : Min(found) <= y
  BY <1>2, MinOfSix
<1>4. Strongest(C) = Precedence[Min(found)]
  BY <1>2 DEF Strongest
<1> HIDE DEF found
<1>5. /\ Min(found) \in 1..5 /\ Precedence[Min(found)] \in C
      /\ "local" \in C => Min(found) <= 1
      /\ "us_wide" \in C => Min(found) <= 2
      /\ "us" \in C => Min(found) <= 3
      /\ "elsewhere" \in C => Min(found) <= 4
  BY <1>1, <1>3 DEF found
<1>6. Min(found) = 1 \/ Min(found) = 2 \/ Min(found) = 3 \/ Min(found) = 4 \/ Min(found) = 5
  BY <1>5
<1>7. QED
  BY <1>1, <1>4, <1>5, <1>6

LEMMA StrongestTyped == ASSUME NEW C, C \subseteq Class PROVE Strongest(C) \in Class
<1>1. CASE C = {}
  BY <1>1, ClassesListed DEF Strongest
<1>2. CASE C # {}
  BY <1>2, StrongestFirst
<1>3. QED
  BY <1>1, <1>2

LEMMA PlaceClassTyped == \A v, place, loose : PlaceClass(v, place, loose) \in Class
BY ClassesListed DEF PlaceClass

LEMMA LocationClassTyped == \A v, location, header : ClassifyLocation(v, location, header) \in Class
BY PlaceClassTyped, StrongestTyped DEF ClassifyLocation, Best

\* With a target title and no salary, only the location is left to decide.
LEMMA OnlyTheLocation ==
    ASSUME NEW v, NEW job, job.title = Target, job.salary = Unstated
    PROVE  Prefilter(v, job) =
               LET class == ClassifyLocation(v, job.location, job.header)
               IN  [reason |-> LocationVerdict(class, job.arrangement), class |-> class]
<1> DEFINE class == ClassifyLocation(v, job.location, job.header)
           rules == << <<"non_engineering" \in job.title.head, "title_not_target">>,
                       <<"management" \in job.title.head,      "management_role">>,
                       <<"seniority" \in job.title.head,       "seniority_mismatch">>,
                       <<~job.title.target,                    "title_not_target">>,
                       <<BelowFloor(job.salary),               "salary_below_floor">>,
                       <<TRUE, LocationVerdict(class, job.arrangement)>> >>
           apply == {i \in DOMAIN rules : rules[i][1]}
<1>1. /\ job.title.head = {} /\ job.title.target = TRUE
      /\ BelowFloor(job.salary) = FALSE
  BY DEF Target, Unstated, BelowFloor
<1>2. DOMAIN rules = 1..6
  OBVIOUS
<1>3. /\ ~rules[1][1] /\ ~rules[2][1] /\ ~rules[3][1] /\ ~rules[4][1] /\ ~rules[5][1]
      /\ rules[6][1] /\ rules[6][2] = LocationVerdict(class, job.arrangement)
  <2>1. /\ rules[1] = <<"non_engineering" \in job.title.head, "title_not_target">>
        /\ rules[2] = <<"management" \in job.title.head, "management_role">>
        /\ rules[3] = <<"seniority" \in job.title.head, "seniority_mismatch">>
        /\ rules[4] = <<~job.title.target, "title_not_target">>
        /\ rules[5] = <<BelowFloor(job.salary), "salary_below_floor">>
        /\ rules[6] = <<TRUE, LocationVerdict(class, job.arrangement)>>
    OBVIOUS
  <2> HIDE DEF rules, class
  <2>2. /\ ("non_engineering" \in job.title.head) = FALSE
        /\ ("management" \in job.title.head) = FALSE
        /\ ("seniority" \in job.title.head) = FALSE
        /\ (~job.title.target) = FALSE
    BY <1>1
  <2>3. /\ rules[1] = <<FALSE, "title_not_target">> /\ rules[2] = <<FALSE, "management_role">>
        /\ rules[3] = <<FALSE, "seniority_mismatch">> /\ rules[4] = <<FALSE, "title_not_target">>
    BY <2>1, <2>2, Zenon
  <2>4. ~rules[1][1] /\ ~rules[2][1] /\ ~rules[3][1] /\ ~rules[4][1]
    BY <2>3
  <2>5. ~rules[5][1]
    BY <1>1, <2>1
  <2>6. rules[6][1] /\ rules[6][2] = LocationVerdict(class, job.arrangement)
    BY <2>1
  <2>7. QED
    BY <2>4, <2>5, <2>6
<1>4. Prefilter(v, job) = [reason |-> rules[Min(apply)][2], class |-> class]
  BY DEF Prefilter
<1> HIDE DEF rules, class
<1>5. apply = {6}
  BY <1>2, <1>3
<1>6. Min(apply) = 6
  <2>1. {6} \subseteq 1..6 /\ {6} # {}
    OBVIOUS
  <2>2. Min({6}) \in {6}
    BY <2>1, MinOfSix
  <2>3. QED
    BY <1>5, <2>2
<1>7. QED
  BY <1>3, <1>4, <1>6 DEF class

\* "A posting open to several offices is open to the best of them"
\* (location.py:207), whatever the vocabulary and however many offices.
LEMMA BestOfficeWins ==
    ASSUME NEW v, NEW job \in Job
    PROVE  BestOfficeDecides(v, job)
<1> DEFINE C == {PlaceClass(v, p, TRUE) : p \in Places(v, job.location)}
           other == [job EXCEPT !.title = Target, !.salary = Unstated]
<1> SUFFICES ASSUME C \ {"unknown"} # {}
             PROVE  Prefilter(v, other).reason = None
                    <=> \E c \in C : c \in {"local", "us_wide"} \/ (c = "us" /\ job.arrangement = "remote")
  BY DEF BestOfficeDecides
<1> DEFINE class == ClassifyLocation(v, other.location, other.header)
<1>1. /\ other.title = Target /\ other.salary = Unstated
      /\ other.location = job.location /\ other.arrangement = job.arrangement
  BY DEF Job
<1>2. Prefilter(v, other).reason = LocationVerdict(class, job.arrangement)
  <2>1. Prefilter(v, other) = [reason |-> LocationVerdict(class, other.arrangement), class |-> class]
    BY <1>1, OnlyTheLocation
  <2>2. QED
    BY <1>1, <2>1
<1>3. C \subseteq Class /\ C # {}
  <2>1. C # {}
    OBVIOUS
  <2>2. C \subseteq Class
    <3>1. \A c \in C : \E p : c = PlaceClass(v, p, TRUE)
      OBVIOUS
    <3>2. \A p : PlaceClass(v, p, TRUE) \in Class
      BY PlaceClassTyped
    <3>3. QED
      BY <3>1, <3>2
  <2>3. QED
    BY <2>1, <2>2
<1>4. class = Strongest(C)
  <2>1. Best(v, other.location, TRUE) = Strongest(C)
    <3>1. C = {PlaceClass(v, p, TRUE) : p \in Places(v, other.location)}
      BY <1>1
    <3>2. QED
      BY <3>1 DEF Best
  <2>2. Strongest(C) # "unknown"
    <3>1. PICK c \in C : c \in {"local", "us_wide", "us", "elsewhere"}
      BY <1>3, ClassesListed
    <3>2. QED
      BY <1>3, <3>1, StrongestFirst
  <2>3. QED
    BY <2>1, <2>2 DEF ClassifyLocation
<1>5. /\ class \in C /\ class \in {"local", "us_wide", "us", "elsewhere"}
      /\ "local" \in C => class = "local"
      /\ "us_wide" \in C => class \in {"local", "us_wide"}
      /\ "us" \in C => class \in {"local", "us_wide", "us"}
  BY <1>3, <1>4, StrongestFirst, ClassesListed
<1> HIDE DEF class
<1>6. LocationVerdict(class, job.arrangement) = None
      <=> class \in {"local", "us_wide"} \/ (class = "us" /\ job.arrangement = "remote")
  BY <1>5, NoneAssumption DEF LocationVerdict, Reason
<1>7. QED
  BY <1>2, <1>5, <1>6

LEMMA PrefilterTyped == \A v, job : Prefilter(v, job) \in Verdict
<1> SUFFICES ASSUME NEW v, NEW job PROVE Prefilter(v, job) \in Verdict
  OBVIOUS
<1> DEFINE class == ClassifyLocation(v, job.location, job.header)
           rules == << <<"non_engineering" \in job.title.head, "title_not_target">>,
                       <<"management" \in job.title.head,      "management_role">>,
                       <<"seniority" \in job.title.head,       "seniority_mismatch">>,
                       <<~job.title.target,                    "title_not_target">>,
                       <<BelowFloor(job.salary),               "salary_below_floor">>,
                       <<TRUE, LocationVerdict(class, job.arrangement)>> >>
           apply == {i \in DOMAIN rules : rules[i][1]}
<1>1. Prefilter(v, job) = [reason |-> rules[Min(apply)][2], class |-> class]
  BY DEF Prefilter
<1>2. DOMAIN rules = 1..6 /\ rules[6][1]
  OBVIOUS
<1>3. class \in Class /\ LocationVerdict(class, job.arrangement) \in Reason \cup {None}
  BY LocationClassTyped DEF LocationVerdict, Reason
<1>4. \A i \in 1..6 : rules[i][2] \in Reason \cup {None}
  <2>1. /\ rules[1][2] = "title_not_target" /\ rules[2][2] = "management_role"
        /\ rules[3][2] = "seniority_mismatch" /\ rules[4][2] = "title_not_target"
        /\ rules[5][2] = "salary_below_floor"
        /\ rules[6][2] = LocationVerdict(class, job.arrangement)
    OBVIOUS
  <2> HIDE DEF rules, class
  <2>2. \A i \in 1..6 : i = 1 \/ i = 2 \/ i = 3 \/ i = 4 \/ i = 5 \/ i = 6
    OBVIOUS
  <2>3. QED
    BY <1>3, <2>1, <2>2 DEF Reason
<1> HIDE DEF rules, class
<1>5. Min(apply) \in 1..6
  <2>1. apply \subseteq 1..6 /\ apply # {}
    BY <1>2
  <2>2. QED
    BY <2>1, MinOfSix
<1>6. QED
  BY <1>1, <1>3, <1>4, <1>5 DEF Verdict

LEMMA JudgementTyped ==
    ASSUME NEW r \in Rules, NEW c \in Content
    PROVE  Judgement[r][c] \in Verdict
BY PrefilterTyped DEF Judgement

-----------------------------------------------------------------------------
(* Tables.                                                                 *)

LEMMA OverTables ==
    ASSUME NEW f, NEW g, IsTable(f), IsTable(g)
    PROVE  /\ IsTable(Over(f, g))
           /\ DOMAIN Over(f, g) = (DOMAIN f) \cup (DOMAIN g)
           /\ \A id \in DOMAIN f : Over(f, g)[id] = f[id]
           /\ \A id \in (DOMAIN g) \ (DOMAIN f) : Over(f, g)[id] = g[id]
BY DEF IsTable, Over

LEMMA NoRowsTable == IsTable(NoRows) /\ DOMAIN NoRows = {}
BY DEF IsTable, NoRows

LEMMA TablesFinite ==
    ASSUME NEW f, IsTable(f)
    PROVE  IsFiniteSet(DOMAIN f) /\ Cardinality(DOMAIN f) \in Nat
<1>1. IsFiniteSet(Id)
  BY ReclassifyAssumption, FS_Interval DEF Id
<1>2. QED
  BY <1>1, FS_Subset, FS_CardinalityType DEF IsTable

\* A page is a part of its table.
LEMMA PageOfTable ==
    ASSUME NEW f, IsTable(f)
    PROVE  /\ IsTable(PageOf(f))
           /\ DOMAIN PageOf(f) \subseteq DOMAIN f
           /\ \A id \in DOMAIN PageOf(f) : PageOf(f)[id] = f[id]
BY DEF IsTable, PageOf

\* A row with another verdict is a row of the same content.
LEMMA NewVerdictRow ==
    ASSUME NEW row \in Row, NEW v \in Verdict
    PROVE  /\ [row EXCEPT !.verdict = v] \in Row
           /\ [row EXCEPT !.verdict = v].content = row.content
BY DEF Row

-----------------------------------------------------------------------------
(* The inductive invariant.                                                *)

Control ==
    /\ pc \in [Txn -> {"absent", "idle", "reading", "ingesting", "upserting", "finishing"} \cup Ended]
    /\ at \in [Discovery -> Sighting \cup {None}]
    /\ \A d \in Discovery : pc[d] = "upserting" <=> at[d] # None
    /\ left \in [Discovery -> Nat]
    /\ dry \in BOOLEAN /\ offset \in Nat /\ nextId \in Nat
    /\ changes \in [Id -> Nat]

Tables ==
    /\ own = [t \in Txn |-> own[t]]
    /\ \A t \in Txn : IsTable(own[t])
    /\ IsTable(rows) /\ IsTable(page) /\ IsTable(start)
    /\ DOMAIN page \subseteq DOMAIN rows
    /\ DOMAIN start \subseteq DOMAIN rows
    /\ touched \subseteq DOMAIN rows

Locked ==
    /\ \A t \in Txn : own[t] # NoRows => Active(t)
    /\ \A t \in Txn : \A id \in DOMAIN own[t] : Holder(id) = {t}

LEMMA TypeParts == TypeOK <=> Control /\ Tables /\ Locked
BY DEF TypeOK, Control, Tables, Locked

\* The sequence is ahead of every row.
Fresh ==
    /\ \A id \in DOMAIN rows : id < nextId
    /\ \A t \in Txn : \A id \in DOMAIN own[t] : id < nextId

\* The script writes committed rows only, and not their contents.
Kept ==
    \A id \in DOMAIN own[Script] :
        id \in DOMAIN rows /\ own[Script][id].content = rows[id].content

\* The row a discovery run is about to write is still there.
Sighted == \A d \in Discovery : pc[d] = "upserting" => at[d].id \in DOMAIN Seen(d)

IInv == Control /\ Tables /\ Locked /\ Fresh /\ Kept /\ Sighted

LEMMA SeenTable ==
    ASSUME Tables, NEW t \in Txn
    PROVE  /\ IsTable(Seen(t))
           /\ DOMAIN Seen(t) = (DOMAIN own[t]) \cup (DOMAIN rows)
           /\ \A id \in DOMAIN own[t] : Seen(t)[id] = own[t][id]
           /\ \A id \in (DOMAIN rows) \ (DOMAIN own[t]) : Seen(t)[id] = rows[id]
BY OverTables DEF Tables, Seen

\* What the script sees of a committed row has the content committed.
LEMMA ScriptSees ==
    ASSUME Tables, Kept
    PROVE  /\ DOMAIN Seen(Script) = DOMAIN rows
           /\ \A id \in DOMAIN rows : Seen(Script)[id].content = rows[id].content
<1> Script \in Txn
  BY DEF Txn
<1>1. QED
  BY SeenTable DEF Kept

LEMMA InitEstablishesIInv == Init => IInv
<1> SUFFICES ASSUME Init PROVE IInv
  OBVIOUS
<1>1. PICK s \in Scenario :
        /\ rows = s.rows
        /\ own = [t \in Txn |-> IF t = Script THEN NoRows ELSE s.own[t]]
        /\ pc = [t \in Txn |-> IF t = Script THEN "idle" ELSE s.pc[t]]
        /\ nextId = s.next
  BY DEF Init
<1>2. /\ IsTable(s.rows) /\ s.next \in Nat
      /\ s.pc \in [Discovery -> {"absent", "idle", "ingesting"}]
      /\ \A id \in DOMAIN s.rows : id < s.next
      /\ \A d \in Discovery :
           /\ IsTable(s.own[d])
           /\ s.own[d] # NoRows => s.pc[d] = "ingesting"
           /\ \A id \in DOMAIN s.own[d] :
                id < s.next /\ \A e \in Discovery \ {d} : id \notin DOMAIN s.own[e]
  BY ScenarioAssumption
<1>3. /\ own[Script] = NoRows /\ pc[Script] = "idle"
      /\ \A d \in Discovery : d # Script /\ own[d] = s.own[d] /\ pc[d] = s.pc[d]
      /\ \A t \in Txn : t = Script \/ t \in Discovery
  BY <1>1, ReclassifyAssumption DEF Txn
<1>4. Control
  BY <1>1, <1>2, <1>3, ReclassifyAssumption DEF Init, Control, Txn
<1>5. Tables
  BY <1>1, <1>2, <1>3, NoRowsTable DEF Init, Tables
<1>6. Locked
  <2>1. \A t \in Txn : own[t] # NoRows => Active(t)
    BY <1>2, <1>3 DEF Active, Ended
  <2>2. ASSUME NEW t \in Txn, NEW id \in DOMAIN own[t] PROVE Holder(id) = {t}
    <3>1. t \in Discovery
      BY <1>3, NoRowsTable
    <3>2. \A u \in Txn : id \in DOMAIN own[u] => u = t
      BY <1>2, <1>3, <3>1, NoRowsTable
    <3>3. QED
      BY <3>2 DEF Holder
  <2>3. QED
    BY <2>1, <2>2 DEF Locked
<1>7. Fresh
  BY <1>1, <1>2, <1>3, NoRowsTable DEF Fresh
<1>8. Kept
  BY <1>3, NoRowsTable DEF Kept
<1>9. Sighted
  BY <1>2, <1>3 DEF Sighted
<1>10. QED
  BY <1>4, <1>5, <1>6, <1>7, <1>8, <1>9 DEF IInv

-----------------------------------------------------------------------------
(* Steps.                                                                  *)

\* A transaction that moves on, or begins, takes nobody else off.
LEMMA Moving ==
    ASSUME Control, NEW t \in Txn,
           NEW p \in {"reading", "ingesting", "upserting", "finishing"}, Goto(t, p)
    PROVE  /\ pc' \in [Txn -> {"absent", "idle", "reading", "ingesting", "upserting", "finishing"}
                             \cup Ended]
           /\ pc'[t] = p
           /\ \A u \in Txn \ {t} : pc'[u] = pc[u]
           /\ \A u \in Txn : Active(u) => Active(u)'
           /\ Active(t)'
BY DEF Control, Goto, Active, Ended

\* A step that leaves the tables alone, but for what the script has read.
LEMMA Looking ==
    ASSUME IInv, UNCHANGED <<own, rows, nextId, touched>>, Control',
           IsTable(page'), DOMAIN page' \subseteq DOMAIN rows,
           start' = start \/ start' = rows,
           \A t \in Txn : Active(t) => Active(t)',
           \A d \in Discovery : pc'[d] = "upserting" => at'[d].id \in DOMAIN Seen(d)
    PROVE  IInv'
<1>1. Tables'
  BY DEF IInv, Tables, IsTable
<1>2. Locked'
  BY DEF IInv, Locked, Holder
<1>3. Fresh' /\ Kept'
  BY DEF IInv, Fresh, Kept
<1>4. Sighted'
  BY DEF Sighted, Seen
<1>5. QED
  BY <1>1, <1>2, <1>3, <1>4 DEF IInv

\* A step that writes one row, which no other transaction has.
LEMMA Writing ==
    ASSUME IInv, NEW t \in Txn, NEW id \in Id, NEW row \in Row,
           Holder(id) \subseteq {t}, Write(t, id, row),
           UNCHANGED <<rows, start, touched>>, Control',
           IsTable(page'), DOMAIN page' \subseteq DOMAIN rows,
           \A u \in Txn : Active(u) => Active(u)', Active(t)',
           nextId <= nextId', id < nextId',
           t = Script => id \in DOMAIN rows /\ row.content = rows[id].content,
           \A d \in Discovery : pc'[d] = "upserting" => at'[d].id \in DOMAIN Seen(d)
    PROVE  IInv'
<1>1. /\ own' = [u \in Txn |-> own'[u]]
      /\ own'[t] = Over([k \in {id} |-> row], own[t])
      /\ \A u \in Txn \ {t} : own'[u] = own[u]
  BY DEF IInv, Tables, Write
<1>2. /\ IsTable(own'[t]) /\ DOMAIN own'[t] = {id} \cup DOMAIN own[t]
      /\ own'[t][id] = row
      /\ \A k \in (DOMAIN own[t]) \ {id} : own'[t][k] = own[t][k]
  <2>1. IsTable(own[t])
    BY DEF IInv, Tables
  <2>2. QED
    BY <1>1, <2>1 DEF IsTable, Over
<1>3. Tables'
  BY <1>1, <1>2 DEF IInv, Tables, IsTable
<1>4. Locked'
  <2>1. \A u \in Txn : own'[u] # NoRows => Active(u)'
    BY <1>1 DEF IInv, Locked
  <2>2. ASSUME NEW u \in Txn, NEW k \in DOMAIN own'[u]
        PROVE  {w \in Txn : k \in DOMAIN own'[w]} = {u}
    <3>1. CASE k = id
      BY <1>1, <1>2, <3>1 DEF Holder
    <3>2. CASE k # id
      <4>1. \A w \in Txn : k \in DOMAIN own'[w] <=> k \in DOMAIN own[w]
        BY <1>1, <1>2, <3>2
      <4>2. QED
        BY <4>1 DEF IInv, Locked, Holder
    <3>3. QED
      BY <3>1, <3>2
  <2>3. QED
    BY <2>1, <2>2 DEF Locked, Holder
<1>5. Fresh'
  <2>1. nextId \in Nat /\ nextId' \in Nat
    BY DEF IInv, Control
  <2>2. \A k \in DOMAIN rows : k < nextId'
    BY <2>1 DEF IInv, Fresh, Tables, IsTable, Id
  <2>3. ASSUME NEW u \in Txn, NEW k \in DOMAIN own'[u] PROVE k < nextId'
    <3>1. k = id \/ k \in DOMAIN own[u]
      BY <1>1, <1>2
    <3>2. IsTable(own[u])
      BY DEF IInv, Tables
    <3>3. QED
      BY <2>1, <3>1, <3>2 DEF IInv, Fresh, IsTable, Id
  <2>4. QED
    BY <2>2, <2>3 DEF Fresh
<1>6. Kept'
  <2>1. Script \in Txn
    BY DEF Txn
  <2>2. CASE t = Script
    BY <1>2, <2>2 DEF IInv, Kept
  <2>3. CASE t # Script
    BY <1>1, <2>1, <2>3 DEF IInv, Kept
  <2>4. QED
    BY <2>2, <2>3
<1>7. Sighted'
  <2>1. \A d \in Discovery : d \in Txn
    BY DEF Txn
  <2>2. ASSUME NEW d \in Discovery PROVE DOMAIN Seen(d) \subseteq DOMAIN Seen(d)'
    <3>1. DOMAIN Seen(d) = (DOMAIN own[d]) \cup (DOMAIN rows)
      BY <2>1, SeenTable DEF IInv
    <3>2. IsTable(own'[d]) /\ IsTable(rows')
      BY <1>3, <2>1 DEF Tables
    <3>3. DOMAIN Over(own'[d], rows') = (DOMAIN own'[d]) \cup (DOMAIN rows')
      BY <3>2, OverTables
    <3>4. DOMAIN own[d] \subseteq DOMAIN own'[d]
      BY <1>1, <1>2, <2>1
    <3>5. QED
      BY <3>1, <3>3, <3>4 DEF Seen
  <2>3. QED
    BY <2>2 DEF Sighted
<1>8. QED
  BY <1>3, <1>4, <1>5, <1>6, <1>7 DEF IInv

LEMMA ScriptStepKeepsIInv == ASSUME IInv, ScriptStep PROVE IInv'
<1> Script \in Txn /\ Script \notin Discovery
  BY ReclassifyAssumption DEF Txn
<1>1. Tables /\ IsTable(page) /\ IsTable(rows) /\ DOMAIN page \subseteq DOMAIN rows
  BY DEF IInv, Tables
<1>2. \A d \in Discovery : pc[d] = "upserting" => at[d].id \in DOMAIN Seen(d)
  BY DEF IInv, Sighted
<1>3. CASE StartScript
  <2>1. /\ pc' \in [Txn -> {"absent", "idle", "reading", "ingesting", "upserting", "finishing"}
                            \cup Ended]
        /\ \A d \in Discovery : pc'[d] = pc[d]
        /\ \A t \in Txn : Active(t) => Active(t)'
    BY <1>3, Moving DEF IInv, StartScript, Txn
  <2>2. Control'
    BY <1>3, <2>1 DEF IInv, Control, StartScript, feed, script
  <2>3. QED
    BY <1>1, <1>2, <1>3, <2>1, <2>2, Looking DEF StartScript, feed, script
<1>4. CASE ReadPage
  <2>1. /\ pc' \in [Txn -> {"absent", "idle", "reading", "ingesting", "upserting", "finishing"}
                            \cup Ended]
        /\ \A d \in Discovery : pc'[d] = pc[d]
        /\ \A t \in Txn : Active(t) => Active(t)'
    BY <1>4, Moving DEF IInv, ReadPage, Txn
  <2>2. page' = PageOf(Seen(Script)) /\ offset' = offset + Cardinality(DOMAIN page')
    BY <1>4 DEF ReadPage, Page, Advance
  <2>3. IsTable(page') /\ DOMAIN page' \subseteq DOMAIN rows
    BY <1>1, <2>2, SeenTable, ScriptSees, PageOfTable DEF IInv
  <2>4. Cardinality(DOMAIN page') \in Nat
    BY <2>3, TablesFinite
  <2>5. Control'
    BY <1>4, <2>1, <2>2, <2>4 DEF IInv, Control, ReadPage, feed
  <2>6. QED
    BY <1>2, <1>4, <2>1, <2>3, <2>5, Looking DEF ReadPage, feed
<1>5. ASSUME NEW id \in Id, LeaveAsItIs(id) \/ Rejudge(id)
      PROVE  IInv'
  <2>1. /\ id \in DOMAIN page /\ UNCHANGED <<pc, at, rows, nextId, start, touched>>
        /\ page' = [k \in DOMAIN page \ {id} |-> page[k]]
    BY <1>5 DEF LeaveAsItIs, Rejudge, AtHand, OffThePage, feed
  <2>2. IsTable(page') /\ DOMAIN page' \subseteq DOMAIN rows
    BY <1>1, <2>1 DEF IsTable
  <2>3. Control'
    <3>1. changes' \in [Id -> Nat] /\ UNCHANGED <<left, dry, offset>>
      BY <1>5 DEF LeaveAsItIs, Rejudge, IInv, Control, feed
    <3>2. QED
      BY <2>1, <3>1 DEF IInv, Control
  <2>4. \A t \in Txn : Active(t) <=> Active(t)'
    BY <2>1 DEF Active
  <2>5. CASE UNCHANGED own
    BY <1>2, <2>1, <2>2, <2>3, <2>4, <2>5, Looking
  <2>6. CASE own' # own
    <3>1. /\ Holder(id) \subseteq {Script} /\ pc[Script] = "reading"
          /\ Write(Script, id, Rejudged(id, NewVerdict(id)))
      BY <1>5, <2>6 DEF LeaveAsItIs, Rejudge, AtHand, CanWrite
    <3>2. /\ Seen(Script)[id] \in Row /\ Seen(Script)[id].content = rows[id].content
          /\ id \in DOMAIN rows
      <4>1. id \in DOMAIN rows
        BY <1>1, <2>1
      <4>2. IsTable(Seen(Script)) /\ DOMAIN Seen(Script) = DOMAIN rows
        BY <1>1, SeenTable, ScriptSees DEF IInv
      <4>3. QED
        BY <1>1, <4>1, <4>2, ScriptSees DEF IInv, IsTable
    <3>3. NewVerdict(id) \in Verdict
      <4>1. page[id].content \in Content
        BY <1>1, <2>1 DEF IsTable, Row
      <4>2. QED
        BY <4>1, JudgementTyped DEF NewVerdict, Rules
    <3>4. /\ Rejudged(id, NewVerdict(id)) \in Row
          /\ Rejudged(id, NewVerdict(id)).content = rows[id].content
      BY <3>2, <3>3, NewVerdictRow DEF Rejudged
    <3>5. Active(Script)'
      BY <2>1, <3>1 DEF Active, Ended
    <3>6. nextId \in Nat /\ nextId' = nextId /\ id < nextId
      BY <2>1, <3>2 DEF IInv, Control, Fresh
    <3>7. QED
      BY <1>2, <2>1, <2>2, <2>3, <2>4, <3>1, <3>2, <3>4, <3>5, <3>6, Writing
  <2>7. QED
    BY <2>5, <2>6
<1>6. QED
  BY <1>3, <1>4, <1>5 DEF ScriptStep

LEMMA DiscoveryStepKeepsIInv ==
    ASSUME IInv, NEW d \in Discovery, DiscoveryStep(d)
    PROVE  IInv'
<1> d \in Txn /\ Script \notin Discovery /\ d # Script
  BY ReclassifyAssumption DEF Txn
<1>1. Tables /\ IsTable(page) /\ IsTable(rows) /\ DOMAIN page \subseteq DOMAIN rows
  BY DEF IInv, Tables
<1>2. \A e \in Discovery : pc[e] = "upserting" => at[e].id \in DOMAIN Seen(e)
  BY DEF IInv, Sighted
<1>3. \A e \in Discovery : e \in Txn
  BY DEF Txn
<1>4. CASE Begin(d) \/ Finish(d)
  <2>1. PICK p \in {"ingesting", "finishing"} : Goto(d, p)
    BY <1>4 DEF Begin, Finish
  <2>2. UNCHANGED <<own, at, left, dry, offset, page, changes, nextId, rows, start, touched>>
    BY <1>4 DEF Begin, Finish, feed, script
  <2>3. pc[d] # "upserting"
    BY <1>4 DEF Begin, Finish
  <2>4. Control'
    BY <1>3, <2>1, <2>2, <2>3, Moving DEF IInv, Control
  <2>5. QED
    BY <1>1, <1>2, <1>3, <2>1, <2>2, <2>4, Moving, Looking DEF IInv
<1>5. ASSUME NEW c \in Feed, Insert(d, c) PROVE IInv'
  <2>1. /\ UNCHANGED <<pc, at, dry, offset, page, changes, rows, start, touched>>
        /\ pc[d] = "ingesting" /\ nextId \in Id /\ nextId' = nextId + 1
        /\ left[d] > 0 /\ left' = [left EXCEPT ![d] = @ - 1]
        /\ Write(d, nextId, [content |-> c, verdict |-> Judgement[RulesOf[d]][c]])
    BY <1>5 DEF Insert, MaySight, script
  <2>2. [content |-> c, verdict |-> Judgement[RulesOf[d]][c]] \in Row
    BY JudgementTyped, ReclassifyAssumption DEF Row
  <2>3. nextId \in Nat /\ nextId <= nextId' /\ nextId < nextId' /\ nextId' \in Nat
    BY <2>1 DEF IInv, Control
  <2>4. Control'
    BY <2>1, <2>3 DEF IInv, Control
  <2>5. Holder(nextId) \subseteq {d}
    BY <2>3 DEF IInv, Fresh, Holder
  <2>6. Active(d)' /\ \A t \in Txn : Active(t) => Active(t)'
    BY <2>1 DEF Active, Ended
  <2>7. QED
    BY <1>1, <1>2, <2>1, <2>2, <2>3, <2>4, <2>5, <2>6, Writing
<1>6. ASSUME NEW c \in Feed, NEW id \in Id, NEW collides \in BOOLEAN, Sight(d, id, c, collides)
      PROVE  IInv'
  <2>1. /\ UNCHANGED <<own, dry, offset, page, changes, nextId, rows, start, touched>>
        /\ pc[d] = "ingesting" /\ left[d] > 0 /\ left' = [left EXCEPT ![d] = @ - 1]
        /\ id \in DOMAIN Seen(d) /\ Goto(d, "upserting")
        /\ at' = [at EXCEPT ![d] = [id |-> id, content |-> c, collides |-> collides]]
    BY <1>6 DEF Sight, MaySight, script
  <2>2. [id |-> id, content |-> c, collides |-> collides] \in Sighting
    BY ReclassifyAssumption DEF Sighting
  <2>3. /\ at'[d] = [id |-> id, content |-> c, collides |-> collides]
        /\ \A e \in Discovery \ {d} : at'[e] = at[e]
    BY <2>1 DEF IInv, Control
  <2>4. Control'
    BY <1>3, <2>1, <2>2, <2>3, Moving, NoneAssumption DEF IInv, Control
  <2>5. \A e \in Discovery : pc'[e] = "upserting" => at'[e].id \in DOMAIN Seen(e)
    BY <1>2, <1>3, <2>1, <2>3, Moving DEF IInv
  <2>6. QED
    BY <1>1, <2>1, <2>4, <2>5, Moving, Looking DEF IInv
<1>7. CASE Upsert(d)
  <2> DEFINE verdict == Judgement[RulesOf[d]][at[d].content]
             row == [content |-> IF at[d].collides THEN Seen(d)[at[d].id].content
                                 ELSE at[d].content,
                     verdict |-> verdict]
  <2>1. /\ UNCHANGED <<left, dry, offset, page, changes, nextId, rows, start, touched>>
        /\ pc[d] = "upserting" /\ Goto(d, "ingesting") /\ at' = [at EXCEPT ![d] = None]
        /\ Holder(at[d].id) \subseteq {d} /\ Write(d, at[d].id, row)
    BY <1>7 DEF Upsert, CanWrite, script
  <2>2. at[d] \in Sighting /\ at[d].id \in DOMAIN Seen(d)
    BY <1>2, <2>1 DEF IInv, Control
  <2>3. IsTable(Seen(d)) /\ DOMAIN Seen(d) = (DOMAIN own[d]) \cup (DOMAIN rows)
    BY <1>1, SeenTable
  <2>4. at[d].id \in Id /\ at[d].content \in Content /\ Seen(d)[at[d].id] \in Row
    BY <2>2, <2>3 DEF Sighting, IsTable
  <2>5. row \in Row
    <3>1. verdict \in Verdict
      BY <2>4, JudgementTyped, ReclassifyAssumption
    <3>2. QED
      BY <2>4, <3>1 DEF Row
  <2> HIDE DEF row, verdict
  <2>6. nextId \in Nat /\ nextId' = nextId /\ at[d].id < nextId
    BY <2>1, <2>2, <2>3 DEF IInv, Control, Fresh
  <2>7. Control'
    BY <1>3, <2>1, Moving DEF IInv, Control
  <2>8. \A e \in Discovery : pc'[e] = "upserting" => at'[e].id \in DOMAIN Seen(e)
    BY <1>2, <1>3, <2>1, Moving DEF IInv, Control
  <2>9. (\A t \in Txn : Active(t) => Active(t)') /\ Active(d)'
    BY <2>1, Moving DEF IInv
  <2>10. QED
    BY <1>1, <2>1, <2>4, <2>5, <2>6, <2>7, <2>8, <2>9, Writing
<1>8. CASE SkipSighting(d)
  <2>1. /\ UNCHANGED <<own, left, dry, offset, page, changes, nextId, rows, start, touched>>
        /\ Goto(d, "ingesting") /\ at' = [at EXCEPT ![d] = None]
    BY <1>8 DEF SkipSighting, script
  <2>2. Control'
    BY <1>3, <2>1, Moving DEF IInv, Control
  <2>3. \A e \in Discovery : pc'[e] = "upserting" => at'[e].id \in DOMAIN Seen(e)
    BY <1>2, <1>3, <2>1, Moving DEF IInv, Control
  <2>4. QED
    BY <1>1, <2>1, <2>2, <2>3, Moving, Looking DEF IInv
<1>9. QED
  BY <1>4, <1>5, <1>6, <1>7, <1>8 DEF DiscoveryStep

\* A transaction that has ended has no rows, and nobody else is disturbed.
LEMMA Ending ==
    ASSUME IInv, NEW t \in Txn, NEW state \in Ended, Goto(t, state),
           own' = [own EXCEPT ![t] = NoRows],
           \A d \in Discovery \ {t} : at'[d] = at[d],
           t \in Discovery => at'[t] = None,
           at' \in [Discovery -> Sighting \cup {None}],
           IsTable(rows'), DOMAIN rows \subseteq DOMAIN rows',
           DOMAIN rows' \subseteq DOMAIN Seen(t),
           touched' \subseteq DOMAIN rows',
           t # Script => \A id \in DOMAIN own[Script] : rows'[id] = rows[id],
           UNCHANGED <<left, dry, offset, page, changes, nextId, start>>
    PROVE  IInv'
<1>1. /\ pc' \in [Txn -> {"absent", "idle", "reading", "ingesting", "upserting", "finishing"}
                         \cup Ended]
      /\ pc'[t] = state /\ \A u \in Txn \ {t} : pc'[u] = pc[u]
  BY DEF IInv, Control, Goto
<1>2. /\ own'[t] = NoRows /\ \A u \in Txn \ {t} : own'[u] = own[u]
      /\ own' = [u \in Txn |-> own'[u]]
  BY DEF IInv, Tables
<1>3. \A d \in Discovery : d \in Txn
  BY DEF Txn
<1>4. Control'
  <2>1. \A d \in Discovery : pc'[d] = "upserting" <=> at'[d] # None
    BY <1>1, <1>3 DEF IInv, Control, Ended
  <2>2. QED
    BY <1>1, <2>1 DEF IInv, Control
<1>5. Tables'
  BY <1>2, NoRowsTable DEF IInv, Tables
<1>6. Locked'
  <2>1. \A u \in Txn : own'[u] # NoRows => Active(u)'
    BY <1>1, <1>2 DEF IInv, Locked, Active
  <2>2. ASSUME NEW u \in Txn, NEW k \in DOMAIN own'[u]
        PROVE  {w \in Txn : k \in DOMAIN own'[w]} = {u}
    <3>1. u # t /\ k \in DOMAIN own[u]
      BY <1>2, NoRowsTable
    <3>2. {w \in Txn : k \in DOMAIN own[w]} = {u}
      BY <3>1 DEF IInv, Locked, Holder
    <3>3. QED
      BY <1>2, <3>1, <3>2, NoRowsTable
  <2>3. QED
    BY <2>1, <2>2 DEF Locked, Holder
<1>7. Fresh'
  <2>1. DOMAIN Seen(t) = (DOMAIN own[t]) \cup (DOMAIN rows)
    BY SeenTable DEF IInv
  <2>2. \A id \in DOMAIN rows' : id < nextId
    BY <2>1 DEF IInv, Fresh
  <2>3. QED
    BY <1>2, <2>2, NoRowsTable DEF IInv, Fresh
<1>8. Kept'
  <2>1. Script \in Txn
    BY DEF Txn
  <2>2. CASE t = Script
    BY <1>2, <2>2, NoRowsTable DEF Kept
  <2>3. CASE t # Script
    BY <1>2, <2>1, <2>3 DEF IInv, Kept
  <2>4. QED
    BY <2>2, <2>3
<1>9. Sighted'
  <2>1. ASSUME NEW d \in Discovery, pc'[d] = "upserting"
        PROVE  at'[d].id \in DOMAIN Seen(d)'
    <3>1. d # t /\ pc[d] = "upserting"
      BY <1>1, <1>3, <2>1 DEF Ended
    <3>2. at'[d].id \in (DOMAIN own[d]) \cup (DOMAIN rows)
      BY <1>3, <3>1, SeenTable DEF IInv, Sighted
    <3>3. IsTable(own'[d])
      BY <1>3, <1>5 DEF Tables
    <3>4. DOMAIN Over(own'[d], rows') = (DOMAIN own'[d]) \cup (DOMAIN rows')
      BY <3>3, OverTables
    <3>5. own'[d] = own[d]
      BY <1>2, <1>3, <3>1
    <3>6. QED
      BY <3>2, <3>4, <3>5 DEF Seen
  <2>2. QED
    BY <2>1 DEF Sighted
<1>10. QED
  BY <1>4, <1>5, <1>6, <1>7, <1>8, <1>9 DEF IInv

\* Two transactions have no row in common.
LEMMA Apart ==
    ASSUME Locked, NEW t \in Txn, NEW u \in Txn, t # u, NEW id \in DOMAIN own[t]
    PROVE  id \notin DOMAIN own[u]
<1>1. Holder(id) = {t}
  BY DEF Locked
<1>2. QED
  BY <1>1 DEF Holder

LEMMA CommitKeepsIInv == ASSUME IInv, NEW t \in Txn, Commit(t) PROVE IInv'
<1> Script \in Txn /\ Script \notin Discovery
  BY ReclassifyAssumption DEF Txn
<1>1. /\ pc[t] = "finishing" /\ rows' = Seen(t) /\ own' = [own EXCEPT ![t] = NoRows]
      /\ UNCHANGED <<at, left, dry, offset, page, changes, nextId, start>>
      /\ Goto(t, "committed") /\ touched' \subseteq touched \cup DOMAIN own[t]
  BY DEF Commit, feed, script
<1>2. /\ IsTable(Seen(t)) /\ DOMAIN Seen(t) = (DOMAIN own[t]) \cup (DOMAIN rows)
      /\ \A id \in (DOMAIN rows) \ (DOMAIN own[t]) : Seen(t)[id] = rows[id]
  BY SeenTable DEF IInv
<1>3. t \in Discovery => at'[t] = None
  BY <1>1 DEF IInv, Control
<1>4. touched' \subseteq DOMAIN rows'
  BY <1>1, <1>2 DEF IInv, Tables
<1>5. t # Script => \A id \in DOMAIN own[Script] : rows'[id] = rows[id]
  BY <1>1, <1>2, Apart DEF IInv, Kept
<1>6. at' \in [Discovery -> Sighting \cup {None}] /\ "committed" \in Ended
  BY <1>1 DEF IInv, Control, Ended
<1>7. QED
  BY <1>1, <1>2, <1>3, <1>4, <1>5, <1>6, Ending

LEMMA RollBackKeepsIInv ==
    ASSUME IInv, NEW t \in Txn, NEW state \in Ended, RollBack(t, state)
    PROVE  IInv'
<1> Script \in Txn /\ Script \notin Discovery
  BY ReclassifyAssumption DEF Txn
<1>1. /\ own' = [own EXCEPT ![t] = NoRows] /\ Goto(t, state)
      /\ at' = IF t = Script THEN at ELSE [at EXCEPT ![t] = None]
      /\ UNCHANGED <<left, dry, offset, page, changes, nextId, rows, start, touched>>
  BY DEF RollBack, script
<1>2. /\ at' \in [Discovery -> Sighting \cup {None}]
      /\ \A d \in Discovery \ {t} : at'[d] = at[d]
      /\ t \in Discovery => at'[t] = None
  BY <1>1 DEF IInv, Control
<1>3. DOMAIN Seen(t) = (DOMAIN own[t]) \cup (DOMAIN rows)
  BY SeenTable DEF IInv
<1>4. IsTable(rows') /\ touched' \subseteq DOMAIN rows' /\ rows' = rows
  BY <1>1 DEF IInv, Tables
<1>5. QED
  BY <1>1, <1>2, <1>3, <1>4, Ending

LEMMA StepKeepsIInv == IInv /\ [Next]_vars => IInv'
<1> SUFFICES ASSUME IInv, [Next]_vars PROVE IInv'
  OBVIOUS
<1>1. CASE ScriptStep
  BY <1>1, ScriptStepKeepsIInv
<1>2. ASSUME NEW d \in Discovery, DiscoveryStep(d) PROVE IInv'
  BY <1>2, DiscoveryStepKeepsIInv
<1>3. ASSUME NEW t \in Txn, EndStep(t) \/ Kill(t) PROVE IInv'
  <2>1. CASE Commit(t)
    BY <2>1, CommitKeepsIInv
  <2>2. CASE \E state \in Ended : RollBack(t, state)
    BY <2>2, RollBackKeepsIInv
  <2>3. QED
    BY <1>3, <2>1, <2>2 DEF EndStep, DeadlockVictim, Kill, Ended
<1>4. CASE UNCHANGED vars
  <2>1. UNCHANGED <<pc, own, at, left, dry, offset, page, changes, nextId, rows, start, touched>>
    BY <1>4 DEF vars, feed, script
  <2>2. Control' /\ Tables' /\ Fresh' /\ Kept'
    BY <2>1 DEF IInv, Control, Tables, Fresh, Kept
  <2>3. Locked'
    BY <2>1 DEF IInv, Locked, Active, Holder
  <2>4. Sighted'
    BY <2>1 DEF IInv, Sighted, Seen
  <2>5. QED
    BY <2>2, <2>3, <2>4 DEF IInv
<1>5. QED
  BY <1>1, <1>2, <1>3, <1>4 DEF Next

\* Every state is well typed: in particular a row is one transaction's at a
\* time, and only a transaction under way has rows.
THEOREM TypesHold == Spec => []TypeOK
<1>1. IInv => TypeOK
  BY TypeParts DEF IInv
<1>2. QED
  BY <1>1, InitEstablishesIInv, StepKeepsIInv, PTL DEF Spec

-----------------------------------------------------------------------------
(* What the script may never do.                                           *)

LEMMA ContentStep ==
    ASSUME IInv, [Next]_vars, NEW id \in DOMAIN rows
    PROVE  /\ id \in DOMAIN rows'
           /\ rows'[id].content # rows[id].content =>
                \E d \in Discovery : pc'[d] # pc[d] /\ pc'[d] = "committed" /\ id \in DOMAIN own[d]
<1> Script \in Txn /\ Script \notin Discovery
  BY ReclassifyAssumption DEF Txn
<1>1. ASSUME NEW t \in Txn, Commit(t)
      PROVE  /\ id \in DOMAIN rows'
             /\ rows'[id].content # rows[id].content =>
                  \E d \in Discovery : /\ pc'[d] # pc[d] /\ pc'[d] = "committed"
                                       /\ id \in DOMAIN own[d]
  <2>1. rows' = Seen(t) /\ pc[t] = "finishing" /\ pc'[t] = "committed"
    BY <1>1 DEF Commit, Goto, IInv, Control
  <2>2. /\ DOMAIN Seen(t) = (DOMAIN own[t]) \cup (DOMAIN rows)
        /\ id \notin DOMAIN own[t] => Seen(t)[id] = rows[id]
    BY SeenTable DEF IInv
  <2>3. CASE t = Script
    BY <2>1, <2>2, <2>3, ScriptSees DEF IInv
  <2>4. CASE t \in Discovery
    BY <2>1, <2>2, <2>4
  <2>5. QED
    BY <2>3, <2>4 DEF Txn
<1>2. CASE ~\E t \in Txn : Commit(t)
  <2>1. rows' = rows
    BY <1>2 DEF Next, vars, feed, script, ScriptStep, StartScript, ReadPage, LeaveAsItIs, Rejudge,
                DiscoveryStep, Begin, Insert, Sight, Upsert, SkipSighting, Finish,
                EndStep, DeadlockVictim, Kill, RollBack
  <2>2. QED
    BY <2>1
<1>3. QED
  BY <1>1, <1>2

\* Rows stay, and the script, whose page may be older than the row, never
\* overwrites what a board says of a job.
THEOREM ContentStays == Spec => ContentIsDiscoverys
<1>1. IInv /\ [Next]_vars =>
        [\A id \in DOMAIN rows :
            /\ id \in DOMAIN rows'
            /\ rows'[id].content # rows[id].content =>
                \E d \in Discovery : pc'[d] # pc[d] /\ pc'[d] = "committed" /\ id \in DOMAIN own[d]]_vars
  BY ContentStep
<1>2. QED
  BY <1>1, InitEstablishesIInv, StepKeepsIInv, PTL DEF Spec, ContentIsDiscoverys

\* The location rejects exactly when an office is known and none can be
\* reached, for every vocabulary and every job that can be in the table.
THEOREM OfficesDecided == Spec => []OfficesDecide
<1>1. IInv => OfficesDecide
  <2> SUFFICES ASSUME IInv PROVE OfficesDecide
    OBVIOUS
  <2>1. ASSUME NEW id \in DOMAIN rows PROVE rows[id].content \in Job
    BY ReclassifyAssumption DEF IInv, Tables, IsTable, Row
  <2>2. QED
    BY <2>1, BestOfficeWins DEF OfficesDecide
<1>2. QED
  BY <1>1, InitEstablishesIInv, StepKeepsIInv, PTL DEF Spec

-----------------------------------------------------------------------------
(* Ranks: what LIMIT and OFFSET count.                                     *)

\* A nonempty set of numbers has a least.
LEMMA LeastNumber ==
    ASSUME NEW S, S \subseteq Nat, S # {}
    PROVE  \E m \in S : \A k \in S : m <= k
<1>1. \E m \in S : \A k \in S : ~(<<k, m>> \in OpToRel(<, Nat))
  BY NatLessThanWellFounded, WFMin
<1>2. PICK m \in S : \A k \in S : ~(<<k, m>> \in OpToRel(<, Nat))
  BY <1>1
<1>3. ASSUME NEW k \in S PROVE m <= k
  <2>1. <<k, m>> \in Nat \X Nat
    OBVIOUS
  <2>2. ~(k < m)
    BY <1>2, <2>1 DEF OpToRel
  <2>3. QED
    BY <2>2
<1>4. QED
  BY <1>3

\* The rank of a number grows with the table, and is its own in a table.
LEMMA RanksGrow ==
    ASSUME NEW f, NEW g, IsTable(f), IsTable(g), DOMAIN f \subseteq DOMAIN g, NEW id \in Id
    PROVE  Rank(f, id) \in Nat /\ Rank(g, id) \in Nat /\ Rank(f, id) <= Rank(g, id)
<1> DEFINE below == {k \in DOMAIN f : k < id}
           more == {k \in DOMAIN g : k < id}
<1>1. IsFiniteSet(more)
  BY TablesFinite, FS_Subset
<1>2. IsFiniteSet(below) /\ Cardinality(below) <= Cardinality(more)
  BY <1>1, FS_Subset
<1>3. QED
  BY <1>1, <1>2, FS_CardinalityType DEF Rank

LEMMA RanksDiffer ==
    ASSUME NEW f, IsTable(f), NEW k \in DOMAIN f, NEW id \in DOMAIN f, k < id
    PROVE  Rank(f, k) < Rank(f, id)
<1> DEFINE below == {j \in DOMAIN f : j < k}
           more == {j \in DOMAIN f : j < id}
<1>1. k \in Int /\ id \in Int /\ \A j \in DOMAIN f : j \in Int
  BY DEF IsTable, Id
<1>2. IsFiniteSet(more)
  BY TablesFinite, FS_Subset
<1>3. below \subseteq more /\ k \in more /\ k \notin below
  BY <1>1
<1>4. IsFiniteSet(below) /\ Cardinality(below) <= Cardinality(more)
      /\ Cardinality(below) # Cardinality(more)
  BY <1>2, <1>3, FS_Subset
<1>5. Cardinality(below) \in Nat /\ Cardinality(more) \in Nat
  BY <1>2, <1>4, FS_CardinalityType
<1>6. QED
  BY <1>4, <1>5 DEF Rank

\* A page has no more rows than the batch.
LEMMA PagesAreShort ==
    ASSUME NEW f, IsTable(f), offset \in Nat
    PROVE  IsFiniteSet(DOMAIN PageOf(f)) /\ Cardinality(DOMAIN PageOf(f)) <= Batch
<1> DEFINE S == DOMAIN PageOf(f)
           T == offset..(offset + Batch - 1)
           rank == [id \in S |-> Rank(f, id)]
<1>1. S = {id \in DOMAIN f : Rank(f, id) \in T}
  BY DEF PageOf
<1>2. \A id \in S : id \in DOMAIN f /\ id \in Int /\ Rank(f, id) \in T
  BY <1>1 DEF IsTable, Id
<1>3. ASSUME NEW k \in S, NEW id \in S, rank[k] = rank[id] PROVE k = id
  <2>1. Rank(f, k) = Rank(f, id) /\ Rank(f, k) \in Int
    BY <1>2, <1>3
  <2>2. ~(k < id) /\ ~(id < k)
    BY <1>2, <2>1, RanksDiffer
  <2>3. QED
    BY <1>2, <2>2
<1>4. rank \in Injection(S, T)
  BY <1>2, <1>3 DEF Injection, IsInjective
<1>5. IsFiniteSet(T) /\ Cardinality(T) = Batch
  <2>1. offset \in Int /\ offset + Batch - 1 \in Int /\ ~(offset > offset + Batch - 1)
    BY ReclassifyAssumption
  <2>2. QED
    BY <2>1, FS_Interval, ReclassifyAssumption
<1> HIDE DEF S, T, rank
<1>6. IsFiniteSet(S) /\ Cardinality(S) <= Batch
  BY <1>4, <1>5, FS_Injection
<1>7. QED
  BY <1>6 DEF S

\* An empty page is the end of the table.
LEMMA EmptyPageIsTheEnd ==
    ASSUME NEW f, IsTable(f), offset \in Nat, DOMAIN PageOf(f) = {}, NEW id \in DOMAIN f
    PROVE  Rank(f, id) < offset
<1> DEFINE beyond == {k \in DOMAIN f : Rank(f, k) >= offset}
<1>1. \A k \in DOMAIN f : k \in Nat /\ k \in Id /\ Rank(f, k) \in Nat
  BY RanksGrow DEF IsTable, Id
<1>2. ASSUME beyond # {} PROVE FALSE
  <2>1. beyond \subseteq Nat
    BY <1>1
  <2>2. PICK m \in beyond : \A k \in beyond : m <= k
    BY <1>2, <2>1, LeastNumber
  <2>3. m \in DOMAIN f /\ m \in Nat /\ Rank(f, m) \in Nat /\ Rank(f, m) >= offset
    BY <1>1, <2>2
  <2> DEFINE below == {k \in DOMAIN f : k < m}
             rank == [k \in below |-> Rank(f, k)]
  <2>4. ASSUME NEW k \in below PROVE k \in DOMAIN f /\ k \in Nat /\ Rank(f, k) \in 0..(offset - 1)
    <3>1. k \in DOMAIN f /\ k \in Nat /\ Rank(f, k) \in Nat /\ ~(m <= k)
      BY <1>1, <2>3
    <3>2. k \notin beyond
      BY <2>2, <3>1
    <3>3. QED
      BY <3>1, <3>2
  <2>5. ASSUME NEW k \in below, NEW j \in below, rank[k] = rank[j] PROVE k = j
    <3>1. Rank(f, k) = Rank(f, j) /\ Rank(f, k) \in Int
      BY <2>4, <2>5
    <3>2. ~(k < j) /\ ~(j < k)
      BY <2>4, <3>1, RanksDiffer
    <3>3. QED
      BY <2>4, <3>2
  <2>6. rank \in Injection(below, 0..(offset - 1))
    BY <2>4, <2>5 DEF Injection, IsInjective
  <2>7. IsFiniteSet(0..(offset - 1)) /\ Cardinality(0..(offset - 1)) = offset
    <3>1. offset - 1 \in Int /\ (0 > offset - 1 => offset = 0)
      OBVIOUS
    <3>2. QED
      BY <3>1, FS_Interval
  <2> HIDE DEF rank, below
  <2>8. Cardinality(below) <= offset
    BY <2>6, <2>7, FS_Injection
  <2>9. Rank(f, m) <= offset
    BY <2>8 DEF Rank, below
  <2>10. Rank(f, m) \in offset..(offset + Batch - 1)
    BY <2>3, <2>9, ReclassifyAssumption
  <2>11. m \in DOMAIN PageOf(f)
    BY <2>3, <2>10 DEF PageOf
  <2>12. QED
    BY <2>11
<1>3. QED
  BY <1>1, <1>2

-----------------------------------------------------------------------------
(* What the script has done so far to the rows discovery left alone.       *)

Untouched == (DOMAIN start) \ touched

Paging == pc[Script] \in {"reading", "finishing"}

\* The stored verdict is the one of the edited rules.
Judged(id) == Seen(Script)[id].verdict = Judgement["edited"][Seen(Script)[id].content]

\* The row is the one there was, and the page has it as the script sees it.
AsFound(id) ==
    /\ rows[id] = start[id]
    /\ id \in DOMAIN page => page[id] = Seen(Script)[id]

\* The script has written the row once, with a new verdict, or not at all.
Counted(id) ==
    IF id \in DOMAIN own[Script]
    THEN Judged(id) /\ own[Script][id].verdict # start[id].verdict /\ changes[id] = 1
    ELSE changes[id] = 0

\* The row is done, at hand, or on a later page: new rows only move it back.
Covered(id) ==
    \/ Judged(id)
    \/ id \in DOMAIN page
    \/ pc[Script] = "reading" /\ Rank(rows, id) >= offset

Done(id) ==
    /\ rows[id].verdict = Judgement["edited"][rows[id].content]
    /\ changes[id] = IF rows[id].verdict = start[id].verdict THEN 0 ELSE 1

Stages == pc[Script] \in {"idle", "reading", "finishing"} \cup Ended

Unstarted ==
    pc[Script] = "idle" =>
        /\ touched = {} /\ page = NoRows /\ offset = 0 /\ start = NoRows /\ own[Script] = NoRows
        /\ \A id \in Id : changes[id] = 0

Emptied == pc[Script] = "finishing" => page = NoRows

Followed ==
    ~dry => \A id \in Untouched :
        /\ Paging => AsFound(id) /\ Counted(id) /\ Covered(id)
        /\ pc[Script] = "committed" => Done(id)

Progress == Stages /\ Unstarted /\ Emptied /\ Followed

LEMMA InitEstablishesProgress == Init => Progress
<1> SUFFICES ASSUME Init PROVE Progress
  OBVIOUS
<1>1. Script \in Txn
  BY DEF Txn
<1>2. own[Script] = NoRows /\ pc[Script] = "idle"
  BY <1>1 DEF Init
<1>3. \A id \in Id : changes[id] = 0
  BY DEF Init
<1>4. touched = {} /\ page = NoRows /\ offset = 0 /\ start = NoRows
  BY DEF Init
<1>5. Untouched = {}
  BY <1>4, NoRowsTable DEF Untouched
<1>6. QED
  BY <1>2, <1>3, <1>4, <1>5 DEF Progress, Stages, Unstarted, Emptied, Followed

\* A step of another transaction that commits nothing.
LEMMA Beside ==
    ASSUME Progress, pc'[Script] = pc[Script], own'[Script] = own[Script],
           UNCHANGED <<dry, offset, page, changes, rows, start, touched>>
    PROVE  Progress'
<1>1. Seen(Script)' = Seen(Script)
  BY DEF Seen
<1>2. Untouched' = Untouched
  BY DEF Untouched
<1>3. \A id : /\ Judged(id)' <=> Judged(id)
              /\ AsFound(id)' <=> AsFound(id)
  BY <1>1 DEF Judged, AsFound
<1>4. \A id : /\ Counted(id)' <=> Counted(id)
              /\ Covered(id)' <=> Covered(id)
              /\ Done(id)' <=> Done(id)
  BY <1>3 DEF Counted, Covered, Done, Rank
<1>5. Followed'
  BY <1>2, <1>3, <1>4 DEF Progress, Followed, Paging
<1>6. QED
  BY <1>5 DEF Progress, Stages, Unstarted, Emptied

LEMMA StartKeepsProgress == ASSUME IInv, Progress, StartScript PROVE Progress'
<1> Script \in Txn
  BY DEF Txn
<1>1. /\ pc[Script] = "idle" /\ pc'[Script] = "reading" /\ start' = rows
      /\ UNCHANGED <<own, dry, offset, page, changes, rows, touched>>
  BY DEF StartScript, Goto, script, IInv, Control
<1>2. /\ touched = {} /\ page = NoRows /\ offset = 0 /\ own[Script] = NoRows
      /\ \A id \in Id : changes[id] = 0
  BY <1>1 DEF Progress, Unstarted
<1>3. Untouched' = DOMAIN rows
  BY <1>1, <1>2 DEF Untouched
<1>4. ASSUME NEW id \in DOMAIN rows PROVE AsFound(id)' /\ Counted(id)' /\ Covered(id)'
  <2>1. id \in Id /\ id \notin DOMAIN page /\ id \notin DOMAIN own[Script]
    BY <1>2, NoRowsTable DEF IInv, Tables, IsTable
  <2>2. Rank(rows, id) \in Nat
    BY <2>1, RanksGrow DEF IInv, Tables
  <2>3. Rank(rows, id)' = Rank(rows, id)
    BY <1>1 DEF Rank
  <2>4. AsFound(id)'
    BY <1>1, <2>1 DEF AsFound
  <2>5. Counted(id)'
    BY <1>1, <1>2, <2>1 DEF Counted
  <2>6. Covered(id)'
    BY <1>1, <1>2, <2>2, <2>3 DEF Covered
  <2>7. QED
    BY <2>4, <2>5, <2>6
<1>5. Followed'
  BY <1>1, <1>3, <1>4 DEF Followed
<1>6. QED
  BY <1>1, <1>5 DEF Progress, Stages, Unstarted, Emptied

LEMMA ReadKeepsProgress == ASSUME IInv, Progress, ReadPage PROVE Progress'
<1> Script \in Txn
  BY DEF Txn
<1> DEFINE table == Seen(Script)
<1>1. /\ pc[Script] = "reading" /\ page = NoRows /\ page' = PageOf(table)
      /\ offset' = offset + Cardinality(DOMAIN page')
      /\ pc'[Script] = IF page' = NoRows THEN "finishing" ELSE "reading"
      /\ UNCHANGED <<own, dry, changes, rows, start, touched>>
  BY DEF ReadPage, Page, Advance, Goto, IInv, Control
<1>2. IsTable(table) /\ DOMAIN table = DOMAIN rows /\ IsTable(rows) /\ offset \in Nat
  BY SeenTable, ScriptSees DEF IInv, Tables, Control
<1>3. Seen(Script)' = table
  BY <1>1 DEF Seen
<1> HIDE DEF table
<1>4. /\ DOMAIN page' = {id \in DOMAIN rows : Rank(rows, id) \in offset..(offset + Batch - 1)}
      /\ \A id \in DOMAIN page' : page'[id] = table[id]
  BY <1>1, <1>2 DEF PageOf, Rank
<1>5. Cardinality(DOMAIN page') \in Nat /\ Cardinality(DOMAIN page') <= Batch
  BY <1>1, <1>2, PagesAreShort, FS_CardinalityType
<1>6. ASSUME NEW id \in Untouched, ~dry PROVE AsFound(id)' /\ Counted(id)' /\ Covered(id)'
  <2>1. AsFound(id) /\ Counted(id) /\ Covered(id)
    BY <1>1, <1>6 DEF Progress, Followed, Paging
  <2>2. id \in DOMAIN rows /\ id \in Id
    BY DEF Untouched, IInv, Tables, IsTable
  <2>3. Judged(id)' <=> Judged(id)
    BY <1>3 DEF Judged, table
  <2>4. AsFound(id)'
    BY <1>1, <1>3, <1>4, <2>1 DEF AsFound, table
  <2>5. Counted(id)'
    BY <1>1, <2>1, <2>3 DEF Counted
  <2>6. Rank(rows, id) \in Nat /\ Rank(rows, id)' = Rank(rows, id)
    BY <1>1, <1>2, <2>2, RanksGrow DEF Rank
  <2>7. Covered(id)'
    <3>1. CASE Judged(id)
      BY <2>3, <3>1 DEF Covered
    <3>2. CASE ~Judged(id)
      <4>1. Rank(rows, id) >= offset
        BY <1>1, <2>1, <3>2, NoRowsTable DEF Covered
      <4>2. CASE id \in DOMAIN page'
        BY <4>2 DEF Covered
      <4>3. CASE id \notin DOMAIN page'
        <5>1. Rank(rows, id) >= offset + Batch
          BY <1>2, <1>4, <2>2, <2>6, <4>1, <4>3, ReclassifyAssumption
        <5>2. Rank(rows, id) >= offset'
          BY <1>1, <1>2, <1>5, <2>6, <5>1, ReclassifyAssumption
        <5>3. page' # NoRows
          <6>1. ASSUME page' = NoRows PROVE FALSE
            <7>1. DOMAIN PageOf(table) = {} /\ id \in DOMAIN table
              BY <1>1, <1>2, <2>2, <6>1, NoRowsTable
            <7>2. Rank(table, id) < offset
              BY <1>2, <7>1, EmptyPageIsTheEnd
            <7>3. Rank(table, id) = Rank(rows, id)
              BY <1>2 DEF Rank
            <7>4. QED
              BY <1>2, <2>6, <4>1, <7>2, <7>3
          <6>2. QED
            BY <6>1
        <5>4. QED
          BY <1>1, <2>6, <5>2, <5>3 DEF Covered
      <4>4. QED
        BY <4>2, <4>3
    <3>3. QED
      BY <3>1, <3>2
  <2>8. QED
    BY <2>4, <2>5, <2>7
<1>7. Untouched' = Untouched
  BY <1>1 DEF Untouched
<1>8. Followed'
  BY <1>1, <1>6, <1>7 DEF Followed
<1>9. QED
  BY <1>1, <1>8 DEF Progress, Stages, Unstarted, Emptied

\* A row that is judged already is only taken off the page.
LEMMA LeaveKeepsProgress ==
    ASSUME IInv, Progress, NEW id \in Id, LeaveAsItIs(id)
    PROVE  Progress'
<1>1. /\ pc[Script] = "reading" /\ id \in DOMAIN page /\ ~Differs(id)
      /\ page' = [k \in DOMAIN page \ {id} |-> page[k]]
      /\ UNCHANGED <<pc, own, dry, offset, changes, rows, start, touched>>
  BY DEF LeaveAsItIs, AtHand, OffThePage
<1>2. Seen(Script)' = Seen(Script) /\ Untouched' = Untouched
  BY <1>1 DEF Seen, Untouched
<1>3. ASSUME NEW k \in Untouched, ~dry PROVE AsFound(k)' /\ Counted(k)' /\ Covered(k)'
  <2>1. AsFound(k) /\ Counted(k) /\ Covered(k)
    BY <1>1, <1>3 DEF Progress, Followed, Paging
  <2>2. Judged(k)' <=> Judged(k)
    BY <1>2 DEF Judged
  <2>3. AsFound(k)'
    BY <1>1, <1>2, <2>1 DEF AsFound
  <2>4. Counted(k)'
    BY <1>1, <2>1, <2>2 DEF Counted
  <2>5. Covered(k)'
    <3>1. CASE k = id
      <4>1. Judged(k)
        BY <1>1, <2>1, <3>1 DEF AsFound, Judged, Differs, NewVerdict
      <4>2. QED
        BY <2>2, <4>1 DEF Covered
    <3>2. CASE k # id
      <4>1. k \in DOMAIN page' <=> k \in DOMAIN page
        BY <1>1, <3>2
      <4>2. QED
        BY <1>1, <2>1, <2>2, <4>1 DEF Covered, Rank
    <3>3. QED
      BY <3>1, <3>2
  <2>6. QED
    BY <2>3, <2>4, <2>5
<1>4. Followed'
  BY <1>1, <1>2, <1>3 DEF Followed
<1>5. QED
  BY <1>1, <1>4 DEF Progress, Stages, Unstarted, Emptied

\* A row is re-judged as it was read, which is as the script sees it: it has
\* not been written before, and is counted for the first time.
LEMMA RejudgeKeepsProgress ==
    ASSUME IInv, Progress, NEW id \in Id, Rejudge(id)
    PROVE  Progress'
<1> Script \in Txn
  BY DEF Txn
<1>1. /\ pc[Script] = "reading" /\ id \in DOMAIN page /\ Differs(id)
      /\ page' = [k \in DOMAIN page \ {id} |-> page[k]]
      /\ changes' = [changes EXCEPT ![id] = @ + 1]
      /\ UNCHANGED <<pc, dry, offset, rows, start, touched>>
  BY DEF Rejudge, AtHand, OffThePage
<1>2. /\ changes'[id] = changes[id] + 1
      /\ \A k \in Id \ {id} : changes'[k] = changes[k]
  BY <1>1 DEF IInv, Control
<1>3. Untouched' = Untouched
  BY <1>1 DEF Untouched
<1>4. CASE dry
  BY <1>1, <1>4 DEF Progress, Stages, Unstarted, Emptied, Followed
<1>5. CASE ~dry
  <2> DEFINE row == Rejudged(id, NewVerdict(id))
  <2>1. own'[Script] = Over([k \in {id} |-> row], own[Script])
    BY <1>5 DEF Rejudge, Write, IInv, Tables
  <2>2. /\ Seen(Script)[id] \in Row /\ id \in DOMAIN rows
        /\ NewVerdict(id) \in Verdict /\ page[id].content \in Content
    <3>1. id \in DOMAIN rows /\ IsTable(page)
      BY <1>1 DEF IInv, Tables
    <3>2. IsTable(Seen(Script)) /\ DOMAIN Seen(Script) = DOMAIN rows
      BY SeenTable, ScriptSees DEF IInv
    <3>3. page[id].content \in Content
      BY <1>1, <3>1 DEF IsTable, Row
    <3>4. QED
      BY <3>1, <3>2, <3>3, JudgementTyped DEF IsTable, NewVerdict, Rules
  <2>3. /\ row.content = Seen(Script)[id].content /\ row.verdict = NewVerdict(id)
        /\ row \in Row
    BY <2>2 DEF Rejudged, Row
  <2> HIDE DEF row
  <2>4. /\ DOMAIN own'[Script] = {id} \cup DOMAIN own[Script]
        /\ own'[Script][id] = row
        /\ \A k \in (DOMAIN own[Script]) \ {id} : own'[Script][k] = own[Script][k]
    BY <2>1 DEF Over
  <2>5. /\ Seen(Script)'[id] = row
        /\ \A k \in DOMAIN rows : k # id => Seen(Script)'[k] = Seen(Script)[k]
    <3>1. Tables'
      BY ScriptStepKeepsIInv DEF IInv, ScriptStep
    <3>2. IsTable(own'[Script]) /\ IsTable(rows) /\ IsTable(own[Script])
      BY <3>1 DEF IInv, Tables
    <3>3. Seen(Script)' = Over(own'[Script], rows)
      BY <1>1 DEF Seen
    <3>4. /\ \A k \in DOMAIN own'[Script] : Over(own'[Script], rows)[k] = own'[Script][k]
          /\ \A k \in (DOMAIN rows) \ (DOMAIN own'[Script]) :
               Over(own'[Script], rows)[k] = rows[k]
      BY <3>2, OverTables
    <3>5. /\ \A k \in DOMAIN own'[Script] : Seen(Script)'[k] = own'[Script][k]
          /\ \A k \in (DOMAIN rows) \ (DOMAIN own'[Script]) : Seen(Script)'[k] = rows[k]
      BY <3>3, <3>4, Zenon
    <3>6. /\ \A k \in DOMAIN own[Script] : Seen(Script)[k] = own[Script][k]
          /\ \A k \in (DOMAIN rows) \ (DOMAIN own[Script]) : Seen(Script)[k] = rows[k]
      BY SeenTable DEF IInv
    <3>7. QED
      BY <2>4, <3>5, <3>6
  <2>6. ASSUME NEW k \in Untouched PROVE AsFound(k)' /\ Counted(k)' /\ Covered(k)'
    <3>1. AsFound(k) /\ Counted(k) /\ Covered(k) /\ k \in DOMAIN rows /\ k \in Id
      BY <1>1, <1>5, <2>6 DEF Progress, Followed, Paging, Untouched, IInv, Tables, IsTable
    <3>2. AsFound(k)'
      BY <1>1, <2>5, <3>1 DEF AsFound
    <3>3. CASE k = id
      <4>1. page[id] = Seen(Script)[id] /\ rows[id] = start[id]
        BY <1>1, <3>1, <3>3 DEF AsFound
      <4>2. Judged(id)'
        BY <2>3, <2>5, <4>1 DEF Judged, NewVerdict
      <4>3. id \notin DOMAIN own[Script]
        BY <1>1, <3>1, <3>3, <4>1 DEF Counted, Judged, Differs, NewVerdict
      <4>4. Seen(Script)[id] = rows[id]
        BY <2>2, <4>3, SeenTable DEF IInv
      <4>5. own'[Script][id].verdict # start[id].verdict
        BY <1>1, <2>3, <2>4, <4>1, <4>4 DEF Differs
      <4>6. changes'[id] = 1
        BY <1>2, <3>1, <3>3, <4>3 DEF Counted
      <4>7. Counted(id)'
        BY <1>1, <2>4, <4>2, <4>5, <4>6 DEF Counted
      <4>8. QED
        BY <3>2, <3>3, <4>2, <4>7 DEF Covered
    <3>4. CASE k # id
      <4>1. Judged(k)' <=> Judged(k)
        BY <2>5, <3>1, <3>4 DEF Judged
      <4>2. Counted(k)'
        BY <1>1, <1>2, <2>4, <3>1, <3>4, <4>1 DEF Counted
      <4>3. k \in DOMAIN page' <=> k \in DOMAIN page
        BY <1>1, <3>4
      <4>4. Covered(k)'
        BY <1>1, <3>1, <4>1, <4>3 DEF Covered, Rank
      <4>5. QED
        BY <3>2, <4>2, <4>4
    <3>5. QED
      BY <3>3, <3>4
  <2>7. Followed'
    BY <1>1, <1>3, <2>6 DEF Followed
  <2>8. QED
    BY <1>1, <2>7 DEF Progress, Stages, Unstarted, Emptied
<1>6. QED
  BY <1>4, <1>5

\* What another transaction commits are rows discovery touched, and rows that
\* push the others back.
LEMMA CommitBeside ==
    ASSUME IInv, Progress, NEW d \in Discovery, Commit(d)
    PROVE  Progress'
<1> Script \in Txn /\ d \in Txn /\ d # Script
  BY ReclassifyAssumption DEF Txn
<1>1. /\ rows' = Seen(d) /\ pc'[Script] = pc[Script] /\ own'[Script] = own[Script]
      /\ touched' = IF pc[Script] # "idle" THEN touched \cup DOMAIN own[d] ELSE touched
      /\ UNCHANGED <<dry, offset, page, changes, start>>
  BY DEF Commit, Goto, script, IInv, Control, Tables
<1>2. /\ IsTable(rows') /\ DOMAIN rows' = (DOMAIN own[d]) \cup (DOMAIN rows)
      /\ \A k \in (DOMAIN rows) \ (DOMAIN own[d]) : rows'[k] = rows[k]
  BY <1>1, SeenTable DEF IInv
<1>3. CASE pc[Script] = "idle"
  <2>1. Untouched' = {}
    BY <1>1, <1>3, NoRowsTable DEF Progress, Unstarted, Untouched
  <2>2. QED
    BY <1>1, <1>3, <2>1 DEF Progress, Stages, Unstarted, Emptied, Followed
<1>4. CASE pc[Script] # "idle"
  <2>1. ASSUME NEW k \in Untouched'
        PROVE  /\ k \in Untouched /\ k \in DOMAIN rows /\ k \in Id
               /\ rows'[k] = rows[k] /\ Seen(Script)'[k] = Seen(Script)[k]
    <3>1. k \in DOMAIN start /\ k \notin touched /\ k \notin DOMAIN own[d]
      BY <1>1, <1>4 DEF Untouched
    <3>2. k \in DOMAIN rows /\ k \in Id
      BY <3>1 DEF IInv, Tables, IsTable
    <3>3. rows'[k] = rows[k]
      BY <1>2, <3>1, <3>2
    <3>4. Seen(Script)'[k] = Seen(Script)[k]
      <4>1. Seen(Script)' = Over(own[Script], rows')
        BY <1>1 DEF Seen
      <4>2. IsTable(own[Script]) /\ IsTable(rows)
        BY DEF IInv, Tables
      <4>3. /\ \A j \in DOMAIN own[Script] : Over(own[Script], rows')[j] = own[Script][j]
            /\ \A j \in (DOMAIN rows') \ (DOMAIN own[Script]) :
                 Over(own[Script], rows')[j] = rows'[j]
        BY <1>2, <4>2, OverTables
      <4>4. /\ \A j \in DOMAIN own[Script] : Seen(Script)[j] = own[Script][j]
            /\ \A j \in (DOMAIN rows) \ (DOMAIN own[Script]) : Seen(Script)[j] = rows[j]
        BY SeenTable DEF IInv
      <4>5. QED
        BY <1>2, <3>2, <3>3, <4>1, <4>3, <4>4
    <3>5. QED
      BY <3>1, <3>2, <3>3, <3>4 DEF Untouched
  <2>2. ASSUME NEW k \in Untouched', ~dry, Paging
        PROVE  AsFound(k)' /\ Counted(k)' /\ Covered(k)'
    <3>1. AsFound(k) /\ Counted(k) /\ Covered(k)
      BY <2>1, <2>2 DEF Progress, Followed
    <3>2. Judged(k)' <=> Judged(k)
      BY <2>1 DEF Judged
    <3>3. AsFound(k)'
      BY <1>1, <2>1, <3>1 DEF AsFound
    <3>4. Counted(k)'
      BY <1>1, <3>1, <3>2 DEF Counted
    <3>5. Covered(k)'
      <4>1. IsTable(rows) /\ DOMAIN rows \subseteq DOMAIN rows' /\ k \in Id
        BY <1>2, <2>1 DEF IInv, Tables
      <4>2. /\ Rank(rows, k) \in Nat /\ Rank(rows', k) \in Nat
            /\ Rank(rows, k) <= Rank(rows', k)
        BY <1>2, <4>1, RanksGrow
      <4>3. Rank(rows, k)' = Rank(rows', k) /\ offset \in Nat
        BY DEF Rank, IInv, Control
      <4>4. Rank(rows, k) >= offset => Rank(rows', k) >= offset
        BY <4>2, <4>3
      <4>5. QED
        BY <1>1, <3>1, <3>2, <4>3, <4>4 DEF Covered
    <3>6. QED
      BY <3>3, <3>4, <3>5
  <2>3. ASSUME NEW k \in Untouched', ~dry, pc[Script] = "committed" PROVE Done(k)'
    <3>1. Done(k)
      BY <2>1, <2>3 DEF Progress, Followed
    <3>2. QED
      BY <1>1, <2>1, <3>1 DEF Done
  <2>4. Followed'
    BY <1>1, <2>2, <2>3 DEF Followed, Paging
  <2>5. QED
    BY <1>1, <1>4, <2>4 DEF Progress, Stages, Unstarted, Emptied
<1>5. QED
  BY <1>3, <1>4

LEMMA ScriptCommits == ASSUME IInv, Progress, Commit(Script) PROVE Progress'
<1> Script \in Txn
  BY DEF Txn
<1>1. /\ pc[Script] = "finishing" /\ pc'[Script] = "committed" /\ rows' = Seen(Script)
      /\ UNCHANGED <<dry, changes, start, touched>>
  BY DEF Commit, Goto, script, IInv, Control
<1>2. page = NoRows
  BY <1>1 DEF Progress, Emptied
<1>3. Untouched' = Untouched
  BY <1>1 DEF Untouched
<1>4. ASSUME NEW id \in Untouched, ~dry PROVE Done(id)'
  <2>1. AsFound(id) /\ Counted(id) /\ Covered(id) /\ id \in DOMAIN rows
    BY <1>1, <1>4 DEF Progress, Followed, Paging, Untouched, IInv, Tables
  <2>2. Judged(id)
    BY <1>1, <1>2, <2>1, NoRowsTable DEF Covered
  <2>3. /\ id \in DOMAIN own[Script] => Seen(Script)[id] = own[Script][id]
        /\ id \notin DOMAIN own[Script] => Seen(Script)[id] = rows[id]
    BY <2>1, SeenTable DEF IInv
  <2>4. changes[id] = IF Seen(Script)[id].verdict = start[id].verdict THEN 0 ELSE 1
    BY <2>1, <2>3 DEF AsFound, Counted
  <2>5. QED
    BY <1>1, <2>2, <2>4 DEF Done, Judged
<1>5. Followed'
  BY <1>1, <1>3, <1>4 DEF Followed, Paging
<1>6. QED
  BY <1>1, <1>5 DEF Progress, Stages, Unstarted, Emptied, Ended

LEMMA RollBackKeepsProgress ==
    ASSUME IInv, Progress, NEW t \in Txn, NEW state \in {"failed", "killed"}, RollBack(t, state)
    PROVE  Progress'
<1> Script \in Txn
  BY DEF Txn
<1>1. /\ UNCHANGED <<dry, offset, page, changes, rows, start, touched>>
      /\ t # Script => pc'[Script] = pc[Script] /\ own'[Script] = own[Script]
      /\ t = Script => pc'[Script] = state
  BY DEF RollBack, Goto, script, IInv, Control, Tables
<1>2. CASE t # Script
  BY <1>1, <1>2, Beside
<1>3. CASE t = Script
  <2>1. pc'[Script] \in {"failed", "killed"}
    BY <1>1, <1>3
  <2>2. Followed'
    BY <2>1 DEF Followed, Paging
  <2>3. QED
    BY <2>1, <2>2 DEF Progress, Stages, Unstarted, Emptied, Ended
<1>4. QED
  BY <1>2, <1>3

LEMMA StepKeepsProgress == IInv /\ Progress /\ [Next]_vars => Progress'
<1> SUFFICES ASSUME IInv, Progress, [Next]_vars PROVE Progress'
  OBVIOUS
<1> Script \in Txn /\ Script \notin Discovery
  BY ReclassifyAssumption DEF Txn
<1>1. CASE ScriptStep
  BY <1>1, StartKeepsProgress, ReadKeepsProgress, LeaveKeepsProgress, RejudgeKeepsProgress
     DEF ScriptStep
<1>2. ASSUME NEW d \in Discovery, DiscoveryStep(d) PROVE Progress'
  <2>1. /\ pc'[Script] = pc[Script] /\ own'[Script] = own[Script]
        /\ UNCHANGED <<dry, offset, page, changes, rows, start, touched>>
    BY <1>2 DEF DiscoveryStep, Begin, Insert, Sight, Upsert, SkipSighting, Finish, Goto, Write,
                script, IInv, Control, Tables
  <2>2. QED
    BY <2>1, Beside
<1>3. ASSUME NEW t \in Txn, EndStep(t) \/ Kill(t) PROVE Progress'
  <2>1. CASE Commit(t)
    BY <2>1, CommitBeside, ScriptCommits DEF Txn
  <2>2. CASE RollBack(t, "failed") \/ RollBack(t, "killed")
    BY <2>2, RollBackKeepsProgress
  <2>3. QED
    BY <1>3, <2>1, <2>2 DEF EndStep, DeadlockVictim, Kill
<1>4. CASE UNCHANGED vars
  BY <1>4, Beside DEF vars, script
<1>5. QED
  BY <1>1, <1>2, <1>3, <1>4 DEF Next

\* Once the script has committed, every job that was there when it began and
\* that no discovery run wrote since carries the verdict of the edited rules,
\* whatever was inserted between two pages (store.py:322).
THEOREM EveryRowIsRejudged == Spec => []RowsRejudged
<1>1. IInv /\ Progress => RowsRejudged
  BY DEF Progress, Followed, RowsRejudged, Untouched, Done
<1>2. IInv /\ Progress /\ [Next]_vars => IInv' /\ Progress'
  BY StepKeepsIInv, StepKeepsProgress
<1>3. QED
  BY <1>1, <1>2, InitEstablishesIInv, InitEstablishesProgress, PTL DEF Spec

\* The report (reclassify.py:64, 80) counts such a job once if its verdict
\* changed and not at all otherwise, however often pages repeated it.
THEOREM ReportsMatchWrites == Spec => []ReportMatchesWrites
<1>1. IInv /\ Progress => ReportMatchesWrites
  BY DEF Progress, Followed, ReportMatchesWrites, Untouched, Done
<1>2. IInv /\ Progress /\ [Next]_vars => IInv' /\ Progress'
  BY StepKeepsIInv, StepKeepsProgress
<1>3. QED
  BY <1>1, <1>2, InitEstablishesIInv, InitEstablishesProgress, PTL DEF Spec

-----------------------------------------------------------------------------
(* The commas of a location.                                               *)

\* A turn of _comma_places takes a list of places to a list of places.
LEMMA AttachTyped ==
    ASSUME NEW v, NEW places \in Seq(Seq(Part)), NEW part \in Part
    PROVE  Attach(v, places, part) \in Seq(Seq(Part))
<1>1. <<part>> \in Seq(Part)
  OBVIOUS
<1>2. Append(places, <<part>>) \in Seq(Seq(Part))
  BY <1>1
<1>3. ASSUME places # <<>>
      PROVE  Append(Front(places), Append(Last(places), part)) \in Seq(Seq(Part))
  <2>1. Len(places) \in Nat \ {0} /\ Last(places) \in Seq(Part)
    BY <1>3 DEF Last
  <2>2. Append(Last(places), part) \in Seq(Part)
    BY <2>1
  <2>3. Front(places) \in Seq(Seq(Part))
    BY <2>1 DEF Front
  <2>4. QED
    BY <2>2, <2>3
<1>4. QED
  BY <1>2, <1>3 DEF Attach

\* It appends a place or extends the last one: no other changes.
LEMMA AttachKeeps ==
    ASSUME NEW v, NEW places \in Seq(Seq(Part)), NEW part \in Part,
           NEW k \in 1..Len(places), k < Len(places)
    PROVE  /\ k \in 1..Len(Attach(v, places, part))
           /\ k < Len(Attach(v, places, part))
           /\ Attach(v, places, part)[k] = places[k]
<1> DEFINE longer == Attach(v, places, part)
           merged == Append(Last(places), part)
<1>1. Len(places) \in Nat /\ <<part>> \in Seq(Part)
  OBVIOUS
<1>2. CASE longer = Append(places, <<part>>)
  BY <1>1, <1>2
<1>3. CASE longer = Append(Front(places), merged)
  <2>1. /\ Front(places) \in Seq(Seq(Part))
        /\ Len(Front(places)) = Len(places) - 1
        /\ \A i \in 1..(Len(places) - 1) : Front(places)[i] = places[i]
    BY <1>1 DEF Front
  <2>2. merged \in Seq(Part)
    <3>1. Last(places) \in Seq(Part)
      BY <1>1 DEF Last
    <3>2. QED
      BY <3>1
  <2>3. k \in 1..(Len(places) - 1)
    BY <1>1
  <2> HIDE DEF merged
  <2>4. /\ Len(longer) = Len(places)
        /\ \A i \in 1..(Len(places) - 1) : longer[i] = Front(places)[i]
    BY <1>1, <1>3, <2>1, <2>2
  <2>5. QED
    BY <2>1, <2>3, <2>4
<1>4. QED
  BY <1>2, <1>3 DEF Attach

\* R lists the places found in the first m parts, one more part at a time.
Joins(v, parts, R, m) ==
    R = [n \in 0..m |-> IF n = 0 THEN <<>> ELSE Attach(v, R[n - 1], parts[n])]

LEMMA JoinOneMore ==
    ASSUME NEW v, NEW parts, NEW m \in Nat, NEW R, Joins(v, parts, R, m)
    PROVE  \E T : Joins(v, parts, T, m + 1)
<1> DEFINE T == [n \in 0..(m + 1) |->
                    IF n = m + 1 THEN Attach(v, R[m], parts[m + 1]) ELSE R[n]]
<1>1. ASSUME NEW n \in 0..(m + 1)
      PROVE  T[n] = IF n = 0 THEN <<>> ELSE Attach(v, T[n - 1], parts[n])
  <2>1. CASE n = m + 1
    <3>1. n # 0 /\ n - 1 = m /\ m \in 0..(m + 1) /\ m # m + 1
      BY <2>1
    <3>2. T[n - 1] = R[m]
      BY <3>1
    <3>3. T[n] = Attach(v, R[m], parts[m + 1])
      BY <2>1
    <3>4. QED
      BY <2>1, <3>1, <3>2, <3>3
  <2>2. CASE n # m + 1
    <3>1. n \in 0..m
      BY <2>2
    <3>2. T[n] = R[n]
      BY <2>2
    <3>3. R[n] = IF n = 0 THEN <<>> ELSE Attach(v, R[n - 1], parts[n])
      BY <3>1 DEF Joins
    <3>4. n # 0 => n - 1 \in 0..(m + 1) /\ n - 1 # m + 1
      BY <3>1
    <3>5. n # 0 => T[n - 1] = R[n - 1]
      BY <3>4
    <3>6. QED
      BY <3>2, <3>3, <3>5
  <2>3. QED
    BY <2>1, <2>2
<1>2. T = [n \in 0..(m + 1) |-> T[n]]
  OBVIOUS
<1> HIDE DEF T
<1>3. T = [n \in 0..(m + 1) |-> IF n = 0 THEN <<>> ELSE Attach(v, T[n - 1], parts[n])]
  BY <1>1, <1>2
<1>4. QED
  BY <1>3 DEF Joins

\* The recursion of CommaPlaces is one that a function satisfies.
LEMMA PlacesStep ==
    ASSUME NEW v, NEW parts \in Seq(Part)
    PROVE  \E R : /\ CommaPlaces(v, parts) = R[Len(parts)]
                  /\ R[0] = <<>>
                  /\ \A n \in 1..Len(parts) : R[n] = Attach(v, R[n - 1], parts[n])
<1> DEFINE Stuck == {m \in Nat : ~\E R : Joins(v, parts, R, m)}
           R == CHOOSE R : Joins(v, parts, R, Len(parts))
<1>1. \E T : Joins(v, parts, T, 0)
  <2> DEFINE T == [n \in 0..0 |-> <<>>]
  <2>1. T = [n \in 0..0 |-> IF n = 0 THEN <<>> ELSE Attach(v, T[n - 1], parts[n])]
    OBVIOUS
  <2>2. QED
    BY <2>1 DEF Joins
<1>2. Stuck = {}
  <2> SUFFICES ASSUME Stuck # {} PROVE FALSE
    OBVIOUS
  <2>1. PICK m \in Stuck : \A k \in Stuck : m <= k
    BY LeastNumber
  <2>2. m \in Nat /\ m # 0 /\ m - 1 \in Nat /\ ~(m <= m - 1)
    BY <1>1, <2>1
  <2>3. \E T : Joins(v, parts, T, m - 1)
    BY <2>1, <2>2
  <2>4. \E T : Joins(v, parts, T, (m - 1) + 1)
    BY <2>2, <2>3, JoinOneMore
  <2>5. (m - 1) + 1 = m
    BY <2>2
  <2>6. QED
    BY <2>1, <2>4, <2>5
<1>3. Len(parts) \in Nat
  OBVIOUS
<1>4. Joins(v, parts, R, Len(parts))
  BY <1>2, <1>3
<1>5. CommaPlaces(v, parts) = R[Len(parts)]
  BY DEF CommaPlaces, Joins
<1> HIDE DEF R
<1>6. \A n \in 0..Len(parts) : R[n] = IF n = 0 THEN <<>> ELSE Attach(v, R[n - 1], parts[n])
  BY <1>4 DEF Joins
<1>7. R[0] = <<>>
  BY <1>3, <1>6
<1>8. ASSUME NEW n \in 1..Len(parts) PROVE R[n] = Attach(v, R[n - 1], parts[n])
  <2>1. n \in 0..Len(parts) /\ n # 0
    BY <1>3
  <2>2. QED
    BY <1>6, <2>1
<1>9. QED
  BY <1>5, <1>7, <1>8

\* A Bay Area city that no country qualifies is a place of its own.
LEMMA BayStandsAlone ==
    ASSUME NEW v \in Vocabulary, NEW parts \in Seq(Part), NEW j \in 1..Len(parts),
           NamesTheBay(v, parts[j]),
           j < Len(parts) => parts[j + 1] \notin v.terms["non_us_countries"]
    PROVE  <<parts[j]>> \in ToSet(CommaPlaces(v, parts))
<1> DEFINE bay == parts[j]
<1>1. PICK R : /\ CommaPlaces(v, parts) = R[Len(parts)]
               /\ R[0] = <<>>
               /\ \A n \in 1..Len(parts) : R[n] = Attach(v, R[n - 1], parts[n])
  BY PlacesStep
<1>2. Len(parts) \in Nat /\ j \in Nat /\ 1 <= j /\ j <= Len(parts) /\ j - 1 \in 0..Len(parts)
  OBVIOUS
<1>3. \A n \in 1..Len(parts) : parts[n] \in Part
  OBVIOUS
<1>4. ASSUME NEW n \in 0..Len(parts) PROVE R[n] \in Seq(Seq(Part))
  <2> DEFINE wrong == {m \in 0..Len(parts) : R[m] \notin Seq(Seq(Part))}
  <2> SUFFICES ASSUME wrong # {} PROVE FALSE
    OBVIOUS
  <2>1. wrong \subseteq Nat
    BY <1>2
  <2>2. PICK m \in wrong : \A k \in wrong : m <= k
    BY <2>1, LeastNumber
  <2>3. <<>> \in Seq(Seq(Part))
    OBVIOUS
  <2>4. m \in 1..Len(parts) /\ m - 1 \in 0..Len(parts) /\ ~(m <= m - 1)
    <3>1. m \in 0..Len(parts) /\ R[m] \notin Seq(Seq(Part))
      BY <2>2
    <3>2. m # 0
      BY <1>1, <2>3, <3>1
    <3>3. QED
      BY ONLY <1>2, <3>1, <3>2
  <2>5. R[m - 1] \in Seq(Seq(Part))
    BY <2>2, <2>4
  <2>6. R[m] \in Seq(Seq(Part))
    <3>1. parts[m] \in Part
      BY <1>3, <2>4
    <3>2. Attach(v, R[m - 1], parts[m]) \in Seq(Seq(Part))
      BY <2>5, <3>1, AttachTyped
    <3>3. R[m] = Attach(v, R[m - 1], parts[m])
      BY <1>1, <2>4
    <3>4. QED
      BY <3>2, <3>3
  <2>7. QED
    BY <2>2, <2>6
<1>5. /\ {s \in Section : bay \in v.finds[s]} = {"bay_area"}
      /\ \A s \in Section : v.terms[s] \subseteq v.finds[s]
  BY DEF NamesTheBay, Vocabulary
<1>6. ~IsQualifier(v, bay)
  <2>1. \A s \in Section \ {"bay_area"} : bay \notin v.terms[s]
    BY <1>5
  <2>2. {"us_state_codes", "us_states", "us_wide", "non_us_countries"} \subseteq Section \ {"bay_area"}
    BY DEF Section
  <2>3. QED
    BY <2>1, <2>2 DEF IsQualifier, IsUsQualifier
<1> DEFINE k == Len(R[j - 1]) + 1
<1>7. R[j] = Append(R[j - 1], <<bay>>)
  BY <1>1, <1>2, <1>6 DEF Attach
<1>8. k \in Nat /\ Len(R[j]) = k /\ k \in 1..Len(R[j]) /\ R[j][k] = <<bay>>
  <2>1. R[j - 1] \in Seq(Seq(Part)) /\ <<bay>> \in Seq(Part)
    BY <1>2, <1>3, <1>4
  <2>2. QED
    BY <1>7, <2>1
<1> HIDE DEF k
<1>9. ASSUME j < Len(parts)
      PROVE  k \in 1..Len(R[j + 1]) /\ k < Len(R[j + 1]) /\ R[j + 1][k] = <<bay>>
  <2>1. j + 1 \in 1..Len(parts) /\ (j + 1) - 1 = j /\ j \in 0..Len(parts)
    BY <1>2, <1>9
  <2> DEFINE part == parts[j + 1]
  <2>2. R[j + 1] = Attach(v, R[j], part) /\ R[j] \in Seq(Seq(Part)) /\ part \in Part
    BY <1>1, <1>3, <1>4, <2>1
  <2>3. Last(R[j]) = <<bay>>
    BY <1>8 DEF Last
  <2>4. IsUsQualifier(v, part) => Contradicts(v, <<bay>>, part)
    <3>1. bay \in v.finds["bay_area"]
      BY <1>5
    <3>2. 1 \in DOMAIN <<bay>> /\ <<bay>>[1] = bay
      OBVIOUS
    <3>3. QED
      BY <3>1, <3>2 DEF Contradicts
  <2>5. part \notin v.terms["non_us_countries"]
    BY <1>9
  <2>6. R[j + 1] = Append(R[j], <<part>>)
    BY <2>2, <2>3, <2>4, <2>5 DEF Attach, IsQualifier
  <2>7. <<part>> \in Seq(Part)
    BY <2>2
  <2> HIDE DEF part
  <2>8. QED
    BY <1>8, <2>2, <2>6, <2>7
<1>10. ASSUME NEW n \in (j + 1)..Len(parts)
       PROVE  k \in 1..Len(R[n]) /\ k < Len(R[n]) /\ R[n][k] = <<bay>>
  <2> DEFINE Keeps(m) == k \in 1..Len(R[m]) /\ k < Len(R[m]) /\ R[m][k] = <<bay>>
             lost == {m \in (j + 1)..Len(parts) : ~Keeps(m)}
  <2> SUFFICES ASSUME lost # {} PROVE FALSE
    OBVIOUS
  <2>1. lost \subseteq Nat
    BY <1>2
  <2>2. PICK m \in lost : \A i \in lost : m <= i
    BY <2>1, LeastNumber
  <2>3. m \in (j + 1)..Len(parts) /\ j < Len(parts)
    BY <1>2, <2>2
  <2>4. m # j + 1
    BY <1>9, <2>2, <2>3
  <2>5. /\ m - 1 \in (j + 1)..Len(parts) /\ ~(m <= m - 1)
        /\ m \in 1..Len(parts) /\ m - 1 \in 0..Len(parts)
    BY <1>2, <2>3, <2>4
  <2>6. Keeps(m - 1)
    BY <2>2, <2>5
  <2>7. R[m] = Attach(v, R[m - 1], parts[m]) /\ R[m - 1] \in Seq(Seq(Part)) /\ parts[m] \in Part
    BY <1>1, <1>3, <1>4, <2>5
  <2>8. Keeps(m)
    <3>1. k \in 1..Len(R[m - 1]) /\ k < Len(R[m - 1]) /\ R[m - 1][k] = <<bay>>
      BY <2>6
    <3>2. /\ k \in 1..Len(Attach(v, R[m - 1], parts[m]))
          /\ k < Len(Attach(v, R[m - 1], parts[m]))
          /\ Attach(v, R[m - 1], parts[m])[k] = R[m - 1][k]
      BY ONLY <2>7, <3>1, AttachKeeps
    <3>3. QED
      BY <2>7, <3>1, <3>2
  <2>9. QED
    BY <2>2, <2>8
<1>11. Len(parts) = j \/ Len(parts) \in (j + 1)..Len(parts)
  BY <1>2
<1>12. k \in 1..Len(R[Len(parts)]) /\ R[Len(parts)][k] = <<bay>>
  BY <1>8, <1>10, <1>11
<1>13. Len(parts) \in 0..Len(parts)
  BY <1>2
<1>14. R[Len(parts)] \in Seq(Seq(Part))
  BY <1>4, <1>13
<1>15. k \in DOMAIN R[Len(parts)]
  BY <1>12, <1>14
<1>16. QED
  BY <1>1, <1>12, <1>15 DEF ToSet

\* Alone, a Bay Area city is local.
LEMMA BayAloneIsLocal ==
    ASSUME NEW v \in Vocabulary, NEW bay \in Part, NamesTheBay(v, bay)
    PROVE  PlaceClass(v, <<bay>>, TRUE) = "local"
<1> DEFINE place == <<bay>>
<1>1. DOMAIN place = {1} /\ place[1] = bay
  OBVIOUS
<1>2. \A s \in Section : bay \in v.finds[s] <=> s = "bay_area"
  BY DEF NamesTheBay, Section
<1>3. bay \notin v.terms["us_state_codes"]
  <2>1. "us_state_codes" \in Section /\ "us_state_codes" # "bay_area"
    BY DEF Section
  <2>2. v.terms["us_state_codes"] \subseteq v.finds["us_state_codes"]
    BY <2>1 DEF Vocabulary
  <2>3. QED
    BY <1>2, <2>1, <2>2
<1> HIDE DEF place
<1>4. ~Mentions(v, Abroad, place, TRUE)
  BY <1>1, <1>2 DEF Mentions, Abroad, Section
<1>5. ~InOtherState(v, place)
  <2>1. bay \notin v.finds["us_states"]
    BY <1>2 DEF Section
  <2>2. QED
    BY <1>1, <1>3, <2>1 DEF InOtherState, HasCode
<1>6. ~Mentions(v, {"us_cities"}, place, TRUE)
  BY <1>1, <1>2 DEF Mentions, Section
<1>7. Mentions(v, {"bay_area"}, place, TRUE)
  BY <1>1, <1>2 DEF Mentions, Section
<1>8. PlaceClass(v, place, TRUE) = "local"
  BY <1>4, <1>5, <1>6, <1>7 DEF PlaceClass
<1>9. QED
  BY <1>8 DEF place

\* Whatever the other offices are, the posting is local.
LEMMA BayOfficeWins ==
    ASSUME NEW v \in Vocabulary, NEW job \in Job,
           NEW i \in DOMAIN job.location, NEW j \in DOMAIN job.location[i],
           NamesTheBay(v, job.location[i][j]),
           j < Len(job.location[i]) => job.location[i][j + 1] \notin v.terms["non_us_countries"]
    PROVE  Prefilter(v, job).class = "local"
<1> DEFINE parts == job.location[i]
           C == {PlaceClass(v, p, TRUE) : p \in Places(v, job.location)}
<1>1. job.location \in Seq(Seq(Part))
  BY DEF Job
<1>2. parts \in Seq(Part)
  BY <1>1
<1>3. j \in 1..Len(parts) /\ parts[j] \in Part
  BY <1>2
<1>4. <<parts[j]>> \in ToSet(CommaPlaces(v, parts))
  BY <1>2, <1>3, BayStandsAlone
<1>5. <<parts[j]>> \in Places(v, job.location)
  BY <1>4 DEF Places
<1>6. "local" \in C
  BY <1>3, <1>5, BayAloneIsLocal
<1>7. C \subseteq Class
  BY PlaceClassTyped
<1>8. Strongest(C) = "local"
  BY <1>6, <1>7, StrongestFirst
<1>9. ClassifyLocation(v, job.location, job.header) = "local"
  BY <1>8 DEF ClassifyLocation, Best
<1>10. QED
  BY <1>9 DEF Prefilter

\* "San Francisco, New York is two offices, not one" (location.py:235), for
\* every vocabulary and lists of any length, in every state of the table.
THEOREM BayOfficesStayLocal == Spec => []BayOfficeIsLocal
<1>1. TypeOK => BayOfficeIsLocal
  <2> SUFFICES ASSUME TypeOK, NEW id \in DOMAIN rows, NEW r \in Rules,
                      NEW i \in DOMAIN rows[id].content.location,
                      NEW j \in DOMAIN rows[id].content.location[i],
                      NamesTheBay(Geography[r], rows[id].content.location[i][j]),
                      j < Len(rows[id].content.location[i]) =>
                          rows[id].content.location[i][j + 1]
                              \notin Geography[r].terms["non_us_countries"]
               PROVE  Judgement[r][rows[id].content].class = "local"
    BY DEF BayOfficeIsLocal
  <2>1. rows[id].content \in Content /\ rows[id].content \in Job
    BY ReclassifyAssumption DEF TypeOK, IsTable, Row
  <2>2. Geography[r] \in Vocabulary
    BY ReclassifyAssumption
  <2>3. Prefilter(Geography[r], rows[id].content).class = "local"
    BY <2>1, <2>2, BayOfficeWins
  <2>4. QED
    BY <2>1, <2>3 DEF Judgement
<1>2. QED
  BY <1>1, TypesHold, PTL
=============================================================================

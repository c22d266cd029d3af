-------------------------- MODULE AnswerBank_proofs --------------------------
(***************************************************************************)
(* Proofs about AnswerBank for any catalog, any wordings and any number of *)
(* tabs: the types, that a stored answer wins, and that what is answered   *)
(* is off the list of open questions.  The argument is that a save never   *)
(* takes a key from a row: what a row is found by, it keeps.               *)
(***************************************************************************)
EXTENDS AnswerBank, FormQuestions, TLAPS

\* Both unique keys of the table.
RowsUnique ==
    \A row, other \in bank :
        row.question = other.question \/ (row.key # None /\ row.key = other.key) => row = other

\* A row's key is what its wording means.
KeysMean == \A row \in bank : row.key # None => MeansKey[row.question] = row.key

\* A save that found a row of its key finds one still.
FoundStays ==
    \A t \in Tab : save[t] # Idle /\ save[t].found =>
        save[t].post.key # None /\ KeyRows(bank, save[t].post.key) # {}

\* What was accepted last for a key is in its row.
ToldIsStored == \A k \in Key : told[k] # None => \E row \in bank : row.key = k /\ row.answer = told[k]

BankInv == TypeOK /\ RowsUnique /\ KeysMean /\ FoundStays /\ ToldIsStored

---------------------------------------------------------------------------
(* One save *)

\* What a tab is about to write when it is not idle.
LEMMA SaveIsPosted ==
    ASSUME TypeOK, NEW t \in Tab, save[t] # Idle
    PROVE  /\ save[t].post \in Posted
           /\ save[t].answer \in Answer
           /\ save[t].found \in BOOLEAN
  BY DEF TypeOK, SaveState

LEMMA PostedKeys ==
    ASSUME NEW p \in Posted
    PROVE  /\ p.question \in Text
           /\ p.key \in Key \cup {None}
           /\ p.key # None => MeansKey[p.question] = p.key
  BY BankAssumption DEF Posted

\* The new row is a row, means its key, and keeps the key of any row it
\* replaces.
LEMMA NewRowKeepsKeys ==
    ASSUME BankInv, NEW t \in Tab, save[t] # Idle,
           NEW old, old = Overwritten(save[t]),
           NEW row, row = NewRow(save[t], old)
    PROVE  /\ old \subseteq bank
           /\ row \in Row
           /\ row.key # None => MeansKey[row.question] = row.key
           /\ \A r \in old : r.key # None => row.key = r.key
           /\ save[t].post.key # None => row.key = save[t].post.key
           /\ row.key # None => row.key = save[t].post.key \/ \E r \in old : r.key = row.key
           /\ row.question = save[t].post.question
           /\ row.answer = save[t].answer
<1> DEFINE p == save[t].post
<1>1. /\ p \in Posted /\ p.question \in Text /\ p.key \in Key \cup {None}
      /\ p.key # None => MeansKey[p.question] = p.key
      /\ save[t].answer \in Answer /\ save[t].found \in BOOLEAN
  BY SaveIsPosted, PostedKeys DEF BankInv
<1>2. old \subseteq bank /\ bank \subseteq Row
  BY DEF Overwritten, KeyRows, TextRows, BankInv, TypeOK
<1>3. row.question = p.question /\ row.answer = save[t].answer
  BY DEF NewRow
<1>4. CASE save[t].found
  <2>1. old = KeyRows(bank, p.key) /\ old # {} /\ p.key # None
    BY <1>4 DEF Overwritten, BankInv, FoundStays
  <2>2. \A r \in old : r.key = p.key
    BY <2>1 DEF KeyRows
  <2>3. row.key = p.key
    <3>1. row.key = (CHOOSE r \in old : TRUE).key
      BY <1>4, <2>1 DEF NewRow
    <3> QED
      BY <3>1, <2>1, <2>2
  <2>4. row \in Row
    BY <2>3, <1>1 DEF NewRow, Row
  <2> QED
    BY <1>1, <1>2, <1>3, <2>1, <2>2, <2>3, <2>4
<1>5. CASE ~save[t].found
  <2>1. old = TextRows(bank, p.question)
    BY <1>5 DEF Overwritten
  <2>2. \A r \in old : r.question = p.question /\ r \in bank
    BY <2>1 DEF TextRows
  <2>3. \A r, other \in old : r = other
    BY <2>2 DEF BankInv, RowsUnique
  <2>4. CASE old # {} /\ p.key = None
    <3>1. PICK r \in old : TRUE
      BY <2>4
    <3>2. row.key = r.key
      <4>1. row.key = (CHOOSE x \in old : TRUE).key
        BY <2>4 DEF NewRow
      <4> QED
        BY <4>1, <3>1, <2>3
    <3>3. r \in Row /\ r \in bank /\ r.question = p.question
      BY <2>2, <3>1, <1>2
    <3>4. row.key \in Key \cup {None}
      BY <3>2, <3>3 DEF Row
    <3>5. row \in Row
      BY <3>4, <1>1 DEF NewRow, Row
    <3>6. row.key # None => MeansKey[row.question] = row.key
      BY <3>2, <3>3, <1>3 DEF BankInv, KeysMean
    <3> QED
      BY <1>2, <1>3, <2>3, <2>4, <3>1, <3>2, <3>5, <3>6
  <2>5. CASE ~(old # {} /\ p.key = None)
    <3>1. row.key = p.key
      BY <1>5, <2>5 DEF NewRow
    <3>2. row \in Row
      BY <3>1, <1>1 DEF NewRow, Row
    <3>3. \A r \in old : r.key # None => row.key = r.key
      BY <2>2, <2>5, <3>1, <1>1 DEF BankInv, KeysMean
    <3> QED
      BY <1>1, <1>2, <1>3, <3>1, <3>2, <3>3
  <2> QED
    BY <2>4, <2>5
<1> QED
  BY <1>1, <1>4, <1>5

\* What a save that is not refused leaves.
LEMMA Saved ==
    ASSUME NEW t \in Tab, Store(t), ~Violates(NewRow(save[t], Overwritten(save[t])), Overwritten(save[t]))
    PROVE  /\ bank' = (bank \ Overwritten(save[t])) \cup {NewRow(save[t], Overwritten(save[t]))}
           /\ seen' = [q \in Text |-> IF q \in Cleared(save[t].post) THEN 0 ELSE seen[q]]
           /\ told' = [k \in Key |-> IF k = NewRow(save[t], Overwritten(save[t])).key
                                     THEN NewRow(save[t], Overwritten(save[t])).answer ELSE told[k]]
           /\ late' = late \ Cleared(save[t].post)
  BY DEF Store

LEMMA Refused ==
    ASSUME NEW t \in Tab, Store(t), Violates(NewRow(save[t], Overwritten(save[t])), Overwritten(save[t]))
    PROVE  UNCHANGED <<bank, seen, told, late>>
  BY DEF Store

LEMMA SaveToIdle ==
    ASSUME NEW t \in Tab, Store(t)
    PROVE  save[t] # Idle /\ save' = [save EXCEPT ![t] = Idle] /\ form' = form
  BY DEF Store

---------------------------------------------------------------------------
(* Types *)

LEMMA TypeStep ==
    ASSUME BankInv, [Next]_vars
    PROVE  TypeOK'
<1> USE BankAssumption
<1>1. ASSUME NEW t \in Tab, NEW p \in Posted, NEW a \in Answer, Look(t, p, a) PROVE TypeOK'
  <2>1. (p.key # None /\ KeyRows(bank, p.key) # {}) \in BOOLEAN
    OBVIOUS
  <2>2. PICK found \in BOOLEAN :
            save' = [save EXCEPT ![t] = [at |-> "looked", post |-> p, answer |-> a, found |-> found]]
    BY <1>1, <2>1 DEF Look
  <2>3. [at |-> "looked", post |-> p, answer |-> a, found |-> found] \in SaveState
    BY DEF SaveState
  <2> QED
    BY <1>1, <2>2, <2>3 DEF Look, BankInv, TypeOK
<1>2. ASSUME NEW t \in Tab, Store(t) PROVE TypeOK'
  <2> DEFINE old == Overwritten(save[t])
             row == NewRow(save[t], old)
  <2>1. save' \in [Tab -> SaveState] /\ form' \in [Form -> FormState]
    BY <1>2, SaveToIdle DEF BankInv, TypeOK, SaveState
  <2>2. CASE Violates(row, old)
    BY <1>2, <2>1, <2>2, Refused DEF BankInv, TypeOK
  <2>3. CASE ~Violates(row, old)
    <3>1. row \in Row
      BY <1>2, SaveToIdle, NewRowKeepsKeys
    <3>2. row.answer \in Answer
      BY <3>1 DEF Row
    <3>3. bank' \subseteq Row /\ seen' \in [Text -> Nat] /\ told' \in [Key -> Answer \cup {None}]
      BY <1>2, <2>3, <3>1, <3>2, Saved DEF BankInv, TypeOK
    <3> QED
      BY <1>2, <2>1, <2>3, <3>3, Saved DEF BankInv, TypeOK
  <2> QED
    BY <2>2, <2>3
<1>3. ASSUME NEW f \in Form, ReadBank(f) PROVE TypeOK'
  <2>1. [at |-> "read", gaps |-> Gaps(bank)] \in FormState
    BY DEF FormState, Gaps
  <2> QED
    BY <1>3, <2>1 DEF ReadBank, BankInv, TypeOK
<1>4. ASSUME NEW f \in Form, RecordGaps(f) PROVE TypeOK'
  BY <1>4 DEF RecordGaps, BankInv, TypeOK, FormState
<1>5. ASSUME NEW q \in Text, RecordUnknown(q) PROVE TypeOK'
  BY <1>5 DEF RecordUnknown, BankInv, TypeOK
<1>6. CASE UNCHANGED vars
  BY <1>6 DEF vars, BankInv, TypeOK
<1> QED
  BY <1>1, <1>2, <1>3, <1>4, <1>5, <1>6 DEF Next

---------------------------------------------------------------------------
(* The rows after a save *)

LEMMA StoreKeepsRows ==
    ASSUME BankInv, NEW t \in Tab, Store(t)
    PROVE  (RowsUnique /\ KeysMean /\ FoundStays /\ ToldIsStored)'
<1> DEFINE old == Overwritten(save[t])
           row == NewRow(save[t], old)
<1>1. /\ old \subseteq bank
      /\ row \in Row
      /\ row.key # None => MeansKey[row.question] = row.key
      /\ \A r \in old : r.key # None => row.key = r.key
  BY SaveToIdle, NewRowKeepsKeys
<1>2. save[t] # Idle /\ save' = [save EXCEPT ![t] = Idle]
  BY SaveToIdle
<1>3. CASE Violates(row, old)
  <2>1. bank' = bank /\ told' = told
    BY <1>3, Refused
  <2>2. (RowsUnique /\ KeysMean /\ ToldIsStored)'
    BY <2>1 DEF BankInv, RowsUnique, KeysMean, ToldIsStored
  <2>3. FoundStays'
    BY <1>2, <2>1 DEF BankInv, TypeOK, FoundStays, KeyRows
  <2> QED
    BY <2>2, <2>3
<1>4. CASE ~Violates(row, old)
  <2>1. /\ bank' = (bank \ old) \cup {row}
        /\ told' = [k \in Key |-> IF k = row.key THEN row.answer ELSE told[k]]
    BY <1>4, Saved
  <2>2. RowsUnique'
    BY <1>1, <1>4, <2>1 DEF BankInv, RowsUnique, Violates
  <2>3. KeysMean'
    BY <1>1, <2>1 DEF BankInv, KeysMean
  <2>4. \A k \in Key : \A r \in bank : r.key = k => \E new \in bank' : new.key = k /\ (k # row.key => new = r)
    BY <1>1, <2>1, BankAssumption
  <2>5. ToldIsStored'
    <3> SUFFICES ASSUME NEW k \in Key, told'[k] # None
                 PROVE  \E r \in bank' : r.key = k /\ r.answer = told'[k]
      BY DEF ToldIsStored
    <3>1. CASE k = row.key
      BY <2>1, <3>1
    <3>2. CASE k # row.key
      <4>1. told'[k] = told[k]
        BY <2>1, <3>2
      <4>2. PICK r \in bank : r.key = k /\ r.answer = told[k]
        BY <4>1 DEF BankInv, ToldIsStored
      <4> QED
        BY <2>4, <3>2, <4>1, <4>2
    <3> QED
      BY <3>1, <3>2
  <2>6. FoundStays'
    <3> SUFFICES ASSUME NEW u \in Tab, save'[u] # Idle, save'[u].found
                 PROVE  save'[u].post.key # None /\ KeyRows(bank', save'[u].post.key) # {}
      BY DEF FoundStays
    <3>1. u # t /\ save'[u] = save[u]
      BY <1>2 DEF BankInv, TypeOK
    <3>2. save[u].post.key # None /\ KeyRows(bank, save[u].post.key) # {}
      BY <3>1 DEF BankInv, FoundStays
    <3>3. PICK r \in bank : r.key = save[u].post.key
      BY <3>2 DEF KeyRows
    <3>4. save[u].post.key \in Key
      BY <3>1, <3>2, SaveIsPosted, PostedKeys DEF BankInv
    <3>5. \E new \in bank' : new.key = save[u].post.key
      BY <2>4, <3>3, <3>4
    <3> QED
      BY <3>1, <3>2, <3>5 DEF KeyRows
  <2> QED
    BY <2>2, <2>3, <2>5, <2>6
<1> QED
  BY <1>3, <1>4

LEMMA LookKeepsRows ==
    ASSUME BankInv, NEW t \in Tab, NEW p \in Posted, NEW a \in Answer, Look(t, p, a)
    PROVE  (RowsUnique /\ KeysMean /\ FoundStays /\ ToldIsStored)'
<1>1. bank' = bank /\ told' = told
  BY DEF Look
<1>2. FoundStays'
  <2> SUFFICES ASSUME NEW u \in Tab, save'[u] # Idle, save'[u].found
               PROVE  save'[u].post.key # None /\ KeyRows(bank', save'[u].post.key) # {}
    BY DEF FoundStays
  <2>1. CASE u = t
    <3>1. save'[t].post = p /\ (save'[t].found <=> p.key # None /\ KeyRows(bank, p.key) # {})
      BY DEF Look, BankInv, TypeOK
    <3> QED
      BY <1>1, <2>1, <3>1
  <2>2. CASE u # t
    <3>1. save'[u] = save[u]
      BY <2>2 DEF Look, BankInv, TypeOK
    <3> QED
      BY <1>1, <3>1 DEF BankInv, FoundStays
  <2> QED
    BY <2>1, <2>2
<1> QED
  BY <1>1, <1>2 DEF BankInv, RowsUnique, KeysMean, ToldIsStored

LEMMA InvStep == BankInv /\ [Next]_vars => BankInv'
<1> SUFFICES ASSUME BankInv, [Next]_vars PROVE BankInv'
  OBVIOUS
<1>1. TypeOK'
  BY TypeStep
<1>2. ASSUME bank' = bank, told' = told, save' = save
      PROVE  (RowsUnique /\ KeysMean /\ FoundStays /\ ToldIsStored)'
  BY <1>2 DEF BankInv, RowsUnique, KeysMean, FoundStays, ToldIsStored, KeyRows
<1>3. (RowsUnique /\ KeysMean /\ FoundStays /\ ToldIsStored)'
  <2>1. ASSUME NEW f \in Form, ReadBank(f) \/ RecordGaps(f) PROVE bank' = bank /\ told' = told /\ save' = save
    BY <2>1 DEF ReadBank, RecordGaps
  <2>2. ASSUME NEW q \in Text, RecordUnknown(q) PROVE bank' = bank /\ told' = told /\ save' = save
    BY <2>2 DEF RecordUnknown
  <2>3. CASE UNCHANGED vars
    BY <1>2, <2>3 DEF vars
  <2> QED
    BY <1>2, <2>1, <2>2, <2>3, LookKeepsRows, StoreKeepsRows DEF Next
<1> QED
  BY <1>1, <1>3 DEF BankInv

LEMMA InitInv == Init => BankInv
  BY BankAssumption
  DEF Init, BankInv, TypeOK, RowsUnique, KeysMean, FoundStays, ToldIsStored, SaveState, FormState

LEMMA Invariance == Spec => []BankInv
<1> QED
  BY InitInv, InvStep, PTL DEF Spec

\* The types of every reachable state.
THEOREM TypeCorrect == Spec => []TypeOK
<1>1. BankInv => TypeOK
  BY DEF BankInv
<1> QED
  BY Invariance, <1>1, PTL

\* Whatever was last accepted for a question is what resolve_all answers it
\* with, unless a wording saved without a key is spelled like the question's
\* (answers.py:5, answers.py:170).
THEOREM StoredAnswersWin == Spec => []StoredAnswerWins
<1>1. BankInv => StoredAnswerWins
  <2> SUFFICES ASSUME BankInv, NEW k \in Key, told[k] # None
               PROVE  /\ told[k] \in Answers(bank, k)
                      /\ \A row \in Named(bank, k) :
                             row.answer = told[k] \/ row \in Namesakes(bank, k)
    BY DEF StoredAnswerWins, Answers
  <2>1. PICK row \in bank : row.key = k /\ row.answer = told[k]
    BY DEF BankInv, ToldIsStored
  <2>2. k # None
    BY BankAssumption
  <2>3. row \in Named(bank, k)
    BY <2>1, <2>2 DEF Named, NameOf
  <2>4. ASSUME NEW other \in Named(bank, k), other.key # None PROVE other = row
    BY <2>1, <2>2, <2>4 DEF Named, NameOf, BankInv, RowsUnique
  <2>5. ASSUME NEW other \in Named(bank, k), other.key = None PROVE other \in Namesakes(bank, k)
    BY <2>5 DEF Named, NameOf, Namesakes
  <2>6. told[k] \in Answers(bank, k)
    BY <2>1, <2>3 DEF Answers
  <2> QED
    BY <2>1, <2>4, <2>5, <2>6
<1> QED
  BY Invariance, <1>1, PTL

---------------------------------------------------------------------------
(* The list of open questions *)

LEMMA ListStep == BankInv /\ AnsweredIsOffTheList /\ [Next]_vars => AnsweredIsOffTheList'
<1> SUFFICES ASSUME BankInv, AnsweredIsOffTheList, [Next]_vars,
                    NEW q \in Text, seen'[q] > 0, KeyRows(bank', MeansKey[q]) # {}, MeansKey[q] # None
             PROVE  q \in late'
  BY DEF AnsweredIsOffTheList
<1>1. CASE UNCHANGED <<bank, seen, late>>
  BY <1>1 DEF AnsweredIsOffTheList
<1>2. ASSUME NEW t \in Tab, Store(t) PROVE q \in late'
  <2> DEFINE old == Overwritten(save[t])
             row == NewRow(save[t], old)
  <2>1. CASE Violates(row, old)
    BY <2>1, <1>2, <1>1, Refused
  <2>2. CASE ~Violates(row, old)
    <3>1. /\ bank' = (bank \ old) \cup {row}
          /\ seen' = [x \in Text |-> IF x \in Cleared(save[t].post) THEN 0 ELSE seen[x]]
          /\ late' = late \ Cleared(save[t].post)
      BY <1>2, <2>2, Saved
    <3>2. q \notin Cleared(save[t].post) /\ seen[q] > 0
      BY <3>1
    <3>3. /\ old \subseteq bank
          /\ row.key # None => row.key = save[t].post.key \/ \E r \in old : r.key = row.key
      BY <1>2, SaveToIdle, NewRowKeepsKeys
    <3>4. MeansKey[q] # save[t].post.key
      BY <3>2 DEF Cleared
    <3>5. PICK r \in bank' : r.key = MeansKey[q]
      BY DEF KeyRows
    <3>6. \E x \in bank : x.key = MeansKey[q]
      BY <3>1, <3>3, <3>4, <3>5
    <3> QED
      BY <3>1, <3>2, <3>6 DEF AnsweredIsOffTheList, KeyRows
  <2> QED
    BY <2>1, <2>2
<1>3. ASSUME NEW f \in Form, RecordGaps(f) PROVE q \in late'
  <2> DEFINE asked == {Canonical[k] : k \in form[f].gaps}
  <2>1. /\ seen' = [x \in Text |-> IF x \in asked THEN seen[x] + 1 ELSE seen[x]]
        /\ late' = late \cup {x \in asked : KeyRows(bank, MeansKey[x]) # {}}
        /\ bank' = bank
    BY <1>3 DEF RecordGaps
  <2>2. CASE q \in asked
    BY <2>1, <2>2
  <2>3. CASE q \notin asked
    BY <2>1, <2>3 DEF AnsweredIsOffTheList
  <2> QED
    BY <2>2, <2>3
<1>4. ASSUME NEW x \in Text, RecordUnknown(x) PROVE q \in late'
  BY <1>4 DEF RecordUnknown, AnsweredIsOffTheList, BankInv, TypeOK
<1>5. ASSUME NEW t \in Tab, NEW p \in Posted, NEW a \in Answer, Look(t, p, a) PROVE q \in late'
  BY <1>1, <1>5 DEF Look
<1>6. ASSUME NEW f \in Form, ReadBank(f) PROVE q \in late'
  BY <1>1, <1>6 DEF ReadBank
<1> QED
  BY <1>1, <1>2, <1>3, <1>4, <1>5, <1>6 DEF Next, vars

\* An answered question is listed as open only by a form that had read the bank
\* before (store.py:798).
THEOREM AnsweredQuestionsLeave == Spec => []AnsweredIsOffTheList
<1>1. Init => AnsweredIsOffTheList
  BY DEF Init, AnsweredIsOffTheList, KeyRows
<1> QED
  BY Invariance, ListStep, <1>1, PTL DEF Spec

---------------------------------------------------------------------------
(* Dates *)

\* On whatever day an application is prepared, {{start_date}} is the first
\* Monday after two weeks' notice (answers.py:83).
THEOREM StartDateIsRight == StartIsAMondayAfterNotice
<1> SUFFICES ASSUME NEW today \in Int
             PROVE  /\ Weekday(StartDate(today)) = 0
                    /\ StartDate(today) \in (today + NoticeDays) .. (today + NoticeDays + 6)
  BY DEF StartIsAMondayAfterNotice
<1> DEFINE target == today + 14
<1>1. StartDate(today) = target + ((7 - (target % 7)) % 7)
  BY DEF StartDate, Weekday, NoticeDays
<1>2. target % 7 \in 0..6
  OBVIOUS
<1>3. (7 - (target % 7)) % 7 \in 0..6
  OBVIOUS
<1>4. (target + ((7 - (target % 7)) % 7)) % 7 = 0
  OBVIOUS
<1> QED
  BY <1>1, <1>3, <1>4 DEF Weekday, NoticeDays

\* The years of experience that an application states are those since the first
\* role, rounded, from half a year after it began, and one before (answers.py:89).
THEOREM YearsAreRight == YearsAreRounded
<1> SUFFICES ASSUME NEW first \in Int, NEW today \in Int
             PROVE  LET years == YearsSince(first, today)
                        eighths == 8 * (today - first)
                    IN  /\ eighths >= 1461 => /\ 2922 * years - 1461 <= eighths
                                              /\ eighths <= 2922 * years + 1461
                        /\ eighths < 1461 => years = 1
  BY DEF YearsAreRounded
<1> DEFINE eighths == 8 * (today - first)
           quotient == (eighths + 1461) \div 2922
<1>1. quotient \in Int /\ 2922 * quotient <= eighths + 1461 /\ eighths + 1461 < 2922 * quotient + 2922
  OBVIOUS
<1>2. YearsSince(first, today) = IF quotient < 1 THEN 1 ELSE quotient
  BY DEF YearsSince
<1>3. eighths \in Int
  OBVIOUS
<1> HIDE DEF quotient, eighths
<1>4. CASE quotient < 1
  <2>1. eighths < 1461 /\ YearsSince(first, today) = 1
    BY <1>1, <1>2, <1>3, <1>4
  <2> QED
    BY <1>3, <2>1 DEF eighths
<1>5. CASE quotient >= 1
  <2>1. /\ YearsSince(first, today) = quotient
        /\ eighths >= 1461
        /\ 2922 * quotient - 1461 <= eighths /\ eighths <= 2922 * quotient + 1461
    BY <1>1, <1>2, <1>3, <1>5
  <2> QED
    BY <1>3, <2>1 DEF eighths
<1> QED
  BY <1>1, <1>4, <1>5

=============================================================================

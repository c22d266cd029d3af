----------------------------- MODULE AnswerBank -----------------------------
(***************************************************************************)
(* The answers to form questions: answer_bank and unmapped_questions       *)
(* (store.py, migrations 004 and 006), the settings page that fills them   *)
(* (web/settings.py) and resolve_all (apply/answers.py), which gives every *)
(* catalog question its answer from the bank, the profile or not at all.   *)
(*                                                                         *)
(* A request is one READ COMMITTED transaction.  A save reads             *)
(* (upsert_answer's SELECT) and then writes, clears the gap and commits;   *)
(* a resolution that records gaps reads the bank and later writes.  A      *)
(* statement that meets another's uncommitted row waits for its end, so    *)
(* from its first write on a transaction is one step: the INSERTs of a     *)
(* form's gaps go in catalog order and share at most one row with the      *)
(* DELETE of a save, so nothing tells them from one step.                  *)
(***************************************************************************)
EXTENDS Integers

CONSTANTS Key,          \* keys of the catalog's questions
          Text,         \* wordings of questions, one spelled like a key perhaps
          Canonical,    \* Question.canonical of each key
          MeansKey,     \* match_question of each wording; None outside the catalog
          Filled,       \* keys whose template the profile can fill
          Answer,
          Tab,          \* requests that save an answer
          Form,         \* resolutions with record_gaps
          None,         \* NULL: no key, no answer
          MaxSeen       \* bound on seen_count

ASSUME BankAssumption ==
    /\ None \notin Key /\ None \notin Answer
    /\ Canonical \in [Key -> Text]
    /\ MeansKey \in [Text -> Key \cup {None}]
    /\ \A k \in Key : MeansKey[Canonical[k]] = k
    /\ Filled \subseteq Key
    /\ MaxSeen \in Nat

VARIABLES bank,         \* the rows of answer_bank; none is ever deleted
          seen,         \* seen_count of each unmapped question; 0 for no row
          save,         \* what each tab is about to write
          form,         \* the gaps each resolution found, until it records them
          told,         \* the answer last accepted for each key (auxiliary)
          late          \* gaps recorded for a key answered since the read (auxiliary)

vars == <<bank, seen, save, form, told, late>>

Row == [question : Text, answer : Answer, key : Key \cup {None}]

\* What the settings page posts: a wording, with the key of its question from
\* the list of gaps, or without one from the empty form.
Posted == {p \in [question : Text, key : Key \cup {None}] : p.key \in {None, MeansKey[p.question]}}

Idle == [at |-> "idle"]

SaveState == {Idle} \cup
    [at : {"looked"}, post : Posted, answer : Answer, found : BOOLEAN]

FormState == {Idle} \cup [at : {"read"}, gaps : SUBSET Key]

TypeOK ==
    /\ bank \subseteq Row
    /\ seen \in [Text -> Nat]
    /\ save \in [Tab -> SaveState]
    /\ form \in [Form -> FormState]
    /\ told \in [Key -> Answer \cup {None}]
    /\ late \subseteq Text

Init ==
    /\ bank = {}
    /\ seen = [q \in Text |-> 0]
    /\ save = [t \in Tab |-> Idle]
    /\ form = [f \in Form |-> Idle]
    /\ told = [k \in Key |-> None]
    /\ late = {}

---------------------------------------------------------------------------
(* Resolving *)

KeyRows(rows, k) == {row \in rows : row.key = k}
TextRows(rows, q) == {row \in rows : row.question = q}

\* The dict of resolve_all has a row under its key, or under its wording.
NameOf(row) == IF row.key # None THEN row.key ELSE row.question

Named(rows, k) == {row \in rows : NameOf(row) = k}

\* Where a catalog question gets its answer: the bank, the profile, nowhere.
Source(rows, k) ==
    IF Named(rows, k) # {} THEN "bank" ELSE IF k \in Filled THEN "profile" ELSE "missing"

\* The answers it may get from the bank.  Of two rows of one name the dict keeps
\* the later by category and wording, and the category is left out.
Answers(rows, k) == {row.answer : row \in Named(rows, k)}

Gaps(rows) == {k \in Key : Source(rows, k) = "missing"}

\* A wording that is spelled like the key and was saved without one.
Namesakes(rows, k) == {row \in rows : row.key = None /\ row.question = k}

---------------------------------------------------------------------------
(* Saving: upsert_answer.  A blank question or answer is refused before the *)
(* database is asked.                                                       *)

Look(t, p, a) ==
    /\ save[t] = Idle
    /\ LET found == p.key # None /\ KeyRows(bank, p.key) # {}
       IN  save' = [save EXCEPT ![t] = [at |-> "looked", post |-> p, answer |-> a, found |-> found]]
    /\ UNCHANGED <<bank, seen, form, told, late>>

\* The rows that UPDATE ... WHERE answer_id or INSERT ... ON CONFLICT (question)
\* overwrites.  A row keeps the key it has, so the key stands for answer_id.
Overwritten(s) ==
    IF s.found THEN KeyRows(bank, s.post.key) ELSE TextRows(bank, s.post.question)

\* The slips the mutants try: a wording for a key, an upsert that erases the key
\* set earlier, a gap cleared by its wording alone.
KeyAsText(s, old) == [question |-> s.post.question, answer |-> s.answer, key |-> s.post.question]
KeyErased(s, old) ==
    [question |-> s.post.question, answer |-> s.answer,
     key |-> IF s.found THEN (CHOOSE row \in old : TRUE).key ELSE s.post.key]
ClearedByText(p) == {p.question}

\* The update leaves the key alone, the upsert keeps one that was set earlier.
NewRow(s, old) ==
    [question |-> s.post.question,
     answer |-> s.answer,
     key |-> IF old # {} /\ (s.found \/ s.post.key = None)
             THEN (CHOOSE row \in old : TRUE).key ELSE s.post.key]

\* Either unique key is held by another row: psycopg raises UniqueViolation,
\* the request is answered 500 and its transaction rolled back.
Violates(row, old) ==
    \E other \in bank \ old :
        \/ other.question = row.question
        \/ row.key # None /\ other.key = row.key

\* _clear_unmapped.  A gap was recorded with the key of its wording.
Cleared(p) == {p.question} \cup {q \in Text : MeansKey[q] # None /\ MeansKey[q] = p.key}

Store(t) ==
    /\ save[t] # Idle
    /\ save' = [save EXCEPT ![t] = Idle]
    /\ LET old == Overwritten(save[t])
           row == NewRow(save[t], old)
       IN  IF Violates(row, old)
           THEN UNCHANGED <<bank, seen, told, late>>
           ELSE /\ bank' = (bank \ old) \cup {row}
                /\ seen' = [q \in Text |-> IF q \in Cleared(save[t].post) THEN 0 ELSE seen[q]]
                /\ told' = [k \in Key |-> IF k = row.key THEN row.answer ELSE told[k]]
                /\ late' = late \ Cleared(save[t].post)
    /\ UNCHANGED form

---------------------------------------------------------------------------
(* Recording gaps: resolve_all with record_gaps, and the caller of          *)
(* resolve_one that notes a question the catalog does not know.             *)

ReadBank(f) ==
    /\ form[f] = Idle
    /\ Gaps(bank) # {}
    /\ form' = [form EXCEPT ![f] = [at |-> "read", gaps |-> Gaps(bank)]]
    /\ UNCHANGED <<bank, seen, save, told, late>>

RecordGaps(f) ==
    /\ form[f] # Idle
    /\ LET asked == {Canonical[k] : k \in form[f].gaps}
       IN  /\ \A q \in asked : seen[q] < MaxSeen
           /\ seen' = [q \in Text |-> IF q \in asked THEN seen[q] + 1 ELSE seen[q]]
           /\ late' = late \cup {q \in asked : KeyRows(bank, MeansKey[q]) # {}}
    /\ form' = [form EXCEPT ![f] = Idle]
    /\ UNCHANGED <<bank, save, told>>

RecordUnknown(q) ==
    /\ MeansKey[q] = None
    /\ seen[q] < MaxSeen
    /\ seen' = [seen EXCEPT ![q] = @ + 1]
    /\ UNCHANGED <<bank, save, form, told, late>>

Next ==
    \/ \E t \in Tab : \E p \in Posted, a \in Answer : Look(t, p, a)
    \/ \E t \in Tab : Store(t)
    \/ \E f \in Form : ReadBank(f) \/ RecordGaps(f)
    \/ \E q \in Text : RecordUnknown(q)

Spec == Init /\ [][Next]_vars

---------------------------------------------------------------------------
(* Properties *)

\* "Always wins.  He is allowed to disagree with the profile and the
\* disagreement must stick" (answers.py:5): whatever two tabs save and under
\* whichever wording, what was last accepted for a question is in the bank under
\* its name, and only the answer to a wording that is spelled like the key and
\* has none can be given in its place.
StoredAnswerWins ==
    \A k \in Key : told[k] # None =>
        /\ told[k] \in Answers(bank, k)
        /\ Answers(bank, k) \subseteq {told[k]} \cup {row.answer : row \in Namesakes(bank, k)}

\* "The question is answered now, so every phrasing of it is no longer a gap"
\* (store.py:798): an answered question is on the list only if a form that had
\* read the bank before the answer was saved recorded it since.
AnsweredIsOffTheList ==
    \A q \in Text : seen[q] > 0 /\ KeyRows(bank, MeansKey[q]) # {} /\ MeansKey[q] # None => q \in late

\* "Answering it once moves it to source 1 forever" (answers.py:9), "filled in
\* on every job from then on" (settings.html): a question whose own wording is
\* in the bank is answered from there.  The code does not keep this: the form
\* of the settings page saves a wording without looking for its key.
AnsweredOnceIsFilledIn ==
    \A k \in Key : TextRows(bank, Canonical[k]) # {} => Source(bank, k) = "bank"

\* "An answer he typed himself is accepted, saved, and then never shown"
\* (answers.py:193) is what the code does not want: no row is hidden behind
\* another.  It does not keep this either, for a wording spelled like a key:
\* the two rows have one name, and the dict keeps one of them.
NoRowIsHidden == \A row, other \in bank : NameOf(row) = NameOf(other) => row = other
=============================================================================

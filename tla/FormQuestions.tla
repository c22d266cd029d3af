--------------------------- MODULE FormQuestions ---------------------------
(***************************************************************************)
(* The catalog of form questions (apply/questions.py) and the templates    *)
(* that answer them from the profile (apply/answers.py): which entry a     *)
(* wording means, which variables have a value, which templates can be     *)
(* filled, and the two answers that are computed from the day of asking.   *)
(*                                                                         *)
(* A wording is the set of keys whose patterns match it, a template the    *)
(* set of variables in it.  A day is an integer, and day 0 is a Monday.    *)
(***************************************************************************)
EXTENDS Integers, Sequences

\* A question that is the user's to decide has no template.  An empty template
\* is filled as little as one with a variable that nothing fills.
NoTemplate == {"nothing"}

Question(key, category, template) == [key |-> key, category |-> category, template |-> template]

\* QUESTIONS, in catalog order.
Contact == <<
    Question("full_name", "contact", {"full_name"}),
    Question("email", "contact", {"email"}),
    Question("phone", "contact", {"phone"}),
    Question("location", "contact", {"city", "state"})>>

Eligibility == <<
    Question("work_authorization", "eligibility", {"work_authorization"}),
    Question("sponsorship", "eligibility", {}),
    Question("clearance", "eligibility", {"work_authorization"})>>

Logistics == <<
    Question("start_date", "logistics", {"start_date"}),
    Question("salary_expectation", "logistics", {"salary_target"}),
    Question("years_experience", "logistics", {"years_experience"}),
    Question("relocation", "logistics", NoTemplate),
    Question("referral", "logistics", NoTemplate)>>

Links == <<
    Question("linkedin", "links", {"linkedin"}),
    Question("github", "links", {"github"}),
    Question("portfolio", "links", {"website"})>>

SelfIdentification == <<
    Question("gender", "self_identification", NoTemplate),
    Question("race", "self_identification", NoTemplate),
    Question("veteran_status", "self_identification", NoTemplate),
    Question("disability_status", "self_identification", NoTemplate)>>

Catalog == Contact \o Eligibility \o Logistics \o Links \o SelfIdentification

\* match_question: the first entry in catalog order of those a wording matches.
MatchQuestion(matches, none) ==
    LET found == SelectSeq(Catalog, LAMBDA q : q.key \in matches)
    IN  IF found = <<>> THEN none ELSE Head(found).key

---------------------------------------------------------------------------
(* Dates *)

NoticeDays == 14

Weekday(day) == day % 7

\* The first Monday on or after the day the notice ends.
StartDate(today) ==
    LET target == today + NoticeDays
    IN  target + ((7 - Weekday(target)) % 7)

\* Whole years between two days, at least one.  A year is 365.25 days, and no
\* number of days is half way between two years.
YearsSince(first, today) ==
    LET years == (8 * (today - first) + 1461) \div 2922
    IN  IF years < 1 THEN 1 ELSE years

\* Years since the earliest dated role.
YearsExperience(starts, today) ==
    YearsSince(CHOOSE day \in starts : \A other \in starts : day <= other, today)

---------------------------------------------------------------------------
(* Templates *)

IdentityFields == {"full_name", "email", "phone", "city", "state", "work_authorization",
                   "linkedin", "github", "website"}

\* The variables with a value: what the profile's identity gives, the home of
\* the settings, and what is computed.  Years need a role with a date.
Variables(identity, home, starts) ==
    (identity \cap IdentityFields)
        \cup (home \cap {"city", "state"})
        \cup {"start_date", "today", "salary_target", "salary_floor"}
        \cup (IF starts # {} THEN {"years_experience"} ELSE {})

\* render: a template with one unfilled variable renders as empty.
Renders(template, values) == template \subseteq values

\* The questions the profile can answer.
FilledKeys(values) ==
    {Catalog[i].key : i \in {j \in DOMAIN Catalog : Renders(Catalog[j].template, values)}}

---------------------------------------------------------------------------
(* Properties *)

\* "Two weeks from today, rolled to the next Monday" (answers.py:59): a start
\* date is a Monday, and the notice is given in full but never by a week more.
StartIsAMondayAfterNotice ==
    \A today \in Int :
        /\ Weekday(StartDate(today)) = 0
        /\ StartDate(today) \in (today + NoticeDays) .. (today + NoticeDays + 6)

\* "Derived rather than stored so it cannot go stale" (answers.py:92): from half
\* a year after the first role's start, the years of experience are within half
\* a year of the truth on every day.  Before that, and for a start that is still
\* to come, they are one: the answer never claims "zero years" (answers.py:94).
YearsAreRounded ==
    \A first, today \in Int :
        LET years == YearsSince(first, today)
            eighths == 8 * (today - first)      \* of a day; a year has 2922
        IN  /\ eighths >= 1461 => /\ 2922 * years - 1461 <= eighths
                                  /\ eighths <= 2922 * years + 1461
            /\ eighths < 1461 => years = 1
=============================================================================

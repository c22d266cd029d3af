----------------------------- MODULE Screening -----------------------------
(***************************************************************************)
(* The pre-filter (filters/prefilter.py) and the location screen it ends   *)
(* with (filters/location.py).  A location is a sequence of strings        *)
(* separated by "|", ";", "or" and the like, each a sequence of parts      *)
(* separated by commas.  A part is a model value; a vocabulary             *)
(* (geography.yaml) says which sections it has a term of (finds) and of    *)
(* which it is a term, alone (terms): re.search and re.fullmatch.          *)
(***************************************************************************)
EXTENDS Naturals, Sequences, SequencesExt, FiniteSets

CONSTANTS Part,           \* what stands between two separators
          California,     \* parts in which "california" is found
          CaCode,         \* the part "ca"
          Loose,          \* parts whose terms are all ordinary words (_LOOSE)
          SalaryFloor,    \* settings.salary_floor
          None            \* no reason, no figure

Section == {"bay_area", "bay_area_ambiguous", "us_wide", "anywhere", "us_states",
            "us_state_codes", "us_cities", "non_us_countries", "non_us_cities"}

\* What is a term is also found: fullmatch against search.
Vocabulary ==
    {v \in [finds : [Section -> SUBSET Part], terms : [Section -> SUBSET Part]] :
        \A s \in Section : v.terms[s] \subseteq v.finds[s]}

Abroad == {"non_us_countries", "non_us_cities"}                 \* NON_US
Wide == {"us_wide", "anywhere"}                                 \* US_WIDE_TERMS | ANYWHERE

\* _PRECEDENCE, most permissive first.
Precedence == <<"local", "us_wide", "us", "elsewhere", "unknown">>
Class == ToSet(Precedence)

Arrangement == {"remote", "hybrid", "onsite"}

Reason == {"title_not_target", "management_role", "seniority_mismatch", "salary_below_floor",
           "location_outside_area", "remote_outside_us"}

\* The plausible slips the mutants try: commas that always join, the weakest
\* class of several.
NeverContradicts(v, place, part) == FALSE

Weakest(classes) ==
    LET found == {i \in DOMAIN Precedence : Precedence[i] \in classes}
    IN  IF found = {} THEN "unknown" ELSE Precedence[Max(found)]

-----------------------------------------------------------------------------
(* Commas join and separate.                                               *)

\* _is_us_qualifier and _is_qualifier: the part is only a state or a country.
IsUsQualifier(v, part) ==
    part \in UNION {v.terms[s] : s \in {"us_state_codes", "us_states", "us_wide"}}

IsQualifier(v, part) == IsUsQualifier(v, part) \/ part \in v.terms["non_us_countries"]

\* A US state never qualifies a Bay Area city.
Contradicts(v, place, part) ==
    IsUsQualifier(v, part) /\ \E i \in DOMAIN place : place[i] \in v.finds["bay_area"]

\* One turn of _comma_places: a qualifier goes to the place before it, anything
\* else is a place of its own.
Attach(v, places, part) ==
    IF places # <<>> /\ IsQualifier(v, part) /\ ~Contradicts(v, Last(places), part)
    THEN Append(Front(places), Append(Last(places), part))
    ELSE Append(places, <<part>>)

\* _comma_places, as a recursive function: a fold could not be proved about.
CommaPlaces(v, parts) ==
    LET places[n \in 0..Len(parts)] ==
            IF n = 0 THEN <<>> ELSE Attach(v, places[n - 1], parts[n])
    IN  places[Len(parts)]

-----------------------------------------------------------------------------
(* From a place to a class.                                                *)

\* A term of one of the sections is found in the place.  In a description the
\* ordinary words do not count; states and US cities have none.
Mentions(v, sections, place, loose) ==
    \E i \in DOMAIN place :
        /\ \E s \in sections : place[i] \in v.finds[s]
        /\ loose \/ place[i] \notin Loose

\* A state code counts after a comma or as the whole place.
HasCode(codes, place) == \E i \in DOMAIN place : place[i] \in codes /\ (i > 1 \/ Len(place) = 1)

InOtherState(v, place) ==
    \/ \E i \in DOMAIN place : place[i] \in v.finds["us_states"] \ California
    \/ HasCode(v.terms["us_state_codes"] \ {CaCode}, place)

InCalifornia(place) == (\E i \in DOMAIN place : place[i] \in California) \/ HasCode({CaCode}, place)

\* _place_class: the order is precedence.
PlaceClass(v, place, loose) ==
    IF Mentions(v, Abroad, place, loose) THEN "elsewhere"
    ELSE IF InOtherState(v, place) \/ Mentions(v, {"us_cities"}, place, TRUE) THEN "us"
    ELSE IF \/ Mentions(v, {"bay_area"}, place, loose)
            \/ InCalifornia(place) /\ Mentions(v, {"bay_area_ambiguous"}, place, TRUE)
         THEN "local"
    ELSE IF Mentions(v, Wide, place, loose) THEN "us_wide"
    ELSE IF InCalifornia(place) THEN "us"
    ELSE "unknown"

\* The offices a location names.
Places(v, location) ==
    UNION {ToSet(CommaPlaces(v, location[i])) : i \in DOMAIN location}

\* The end of _best: the first class of _PRECEDENCE that was found.
Strongest(classes) ==
    LET found == {i \in DOMAIN Precedence : Precedence[i] \in classes}
    IN  IF found = {} THEN "unknown" ELSE Precedence[Min(found)]

Best(v, location, loose) == Strongest({PlaceClass(v, p, loose) : p \in Places(v, location)})

\* The field, and only if it says nothing the header of the description.
ClassifyLocation(v, location, header) ==
    LET stated == Best(v, location, TRUE)
    IN  IF stated # "unknown" THEN stated ELSE Best(v, header, FALSE)

LocationVerdict(class, arrangement) ==
    IF class = "elsewhere"
    THEN IF arrangement = "remote" THEN "remote_outside_us" ELSE "location_outside_area"
    ELSE IF class = "us" /\ arrangement # "remote" THEN "location_outside_area"
    ELSE None

-----------------------------------------------------------------------------
(* The pre-filter.                                                         *)

\* head: the families of words found in the part of the title that names the
\* role; target: a target pattern is found in the title.
Title == [head : SUBSET {"non_engineering", "management", "seniority"}, target : BOOLEAN]

Salary == [source : {"none", "parsed", "structured"}, min : Nat \cup {None}, max : Nat \cup {None}]

\* A title in the target families, and no salary.
Target == [head |-> {}, target |-> TRUE]
Unstated == [source |-> "none", min |-> None, max |-> None]

Job == [title : Title, location : Seq(Seq(Part)), header : Seq(Seq(Part)),
        arrangement : Arrangement, salary : Salary]

\* salary_source is "none", or there may be figures.
Ceiling(salary) == IF salary.max # None THEN salary.max ELSE salary.min

BelowFloor(salary) ==
    salary.source # "none" /\ Ceiling(salary) # None /\ Ceiling(salary) < SalaryFloor

\* The rules in order; the first that applies gives the reason.
Prefilter(v, job) ==
    LET class == ClassifyLocation(v, job.location, job.header)
        rules == << <<"non_engineering" \in job.title.head, "title_not_target">>,
                    <<"management" \in job.title.head,      "management_role">>,
                    <<"seniority" \in job.title.head,       "seniority_mismatch">>,
                    <<~job.title.target,                    "title_not_target">>,
                    <<BelowFloor(job.salary),               "salary_below_floor">>,
                    <<TRUE, LocationVerdict(class, job.arrangement)>> >>
        first == Min({i \in DOMAIN rules : rules[i][1]})
    IN  [reason |-> rules[first][2], class |-> class]

Verdict == [reason : Reason \cup {None}, class : Class]
=============================================================================

---------------------------- MODULE MCReclassify ----------------------------
(* One posting at a time, for every location of up to three parts, and       *)
(* tables of two rows beside a discovery run.                                *)
EXTENDS Reclassify, TLC

CONSTANTS sf, dublin, newyork, ca, tx, newmexico, canada, london, us, office,
          d

\* What geography.yaml's terms find in the parts.  The edit is one that file's
\* comments tell of: "dublin" used to be an unambiguous Bay Area city.
Named(s, bay, ambiguous) ==
    CASE s = "bay_area" -> bay
      [] s = "bay_area_ambiguous" -> ambiguous
      [] s = "us_wide" -> {us}
      [] s = "us_states" -> {newyork, newmexico}
      [] s = "us_state_codes" -> {ca, tx}
      [] s = "us_cities" -> {newyork}
      [] s = "non_us_countries" -> {canada}
      [] s = "non_us_cities" -> {london}
      [] OTHER -> {}

\* re.search finds the country in "new mexico" and the code in "in-office".
VocabularyWith(bay, ambiguous) ==
    [terms |-> [s \in Section |-> Named(s, bay, ambiguous)],
     finds |-> [s \in Section |-> Named(s, bay, ambiguous) \cup
                    (CASE s = "non_us_countries" -> {newmexico}
                       [] s = "us_state_codes" -> {office}
                       [] OTHER -> {})]]

MCGeography ==
    [r \in Rules |-> IF r = "deployed" THEN VocabularyWith({sf, dublin}, {})
                     ELSE VocabularyWith({sf}, {dublin})]

MCRulesOf == [r \in Discovery |-> "deployed"]

Parts == {sf, dublin, newyork, ca, tx, newmexico, canada, london, us, office}

Posted(location, header, arrangement) ==
    [title |-> Target, location |-> location, header |-> header,
     arrangement |-> arrangement, salary |-> Unstated]

Lists(n) == UNION {[1..k -> Parts] : k \in 1..n}

Stated == {Posted(<<l>>, <<>>, "onsite") : l \in Lists(3)}

Offices == {Posted(<<k, l>>, <<>>, a) : k \in Lists(1), l \in Lists(1), a \in {"remote", "hybrid"}}

Silent == {Posted(l, <<h>>, "onsite") : l \in {<<>>, << <<dublin>> >>}, h \in Lists(2)}

Figures == {None, SalaryFloor - 1, SalaryFloor}

Titled == {[Posted(<< <<l>> >>, <<>>, "onsite") EXCEPT
                !.title = [head |-> h, target |-> t],
                !.salary = [source |-> IF m = None /\ n = None THEN "none" ELSE "parsed", min |-> m, max |-> n]] :
              l \in {sf, tx}, h \in SUBSET {"non_engineering", "management", "seniority"},
              t \in BOOLEAN, m \in Figures, n \in Figures}

MCContent == Stated \cup Offices \cup Silent \cup Titled

AsDeployed(c) == [content |-> c, verdict |-> Prefilter(MCGeography["deployed"], c)]

\* Bare "Dublin" is what the edit is about.
Bare == Posted(<< <<dublin>> >>, <<>>, "onsite")
Qualified == Posted(<< <<dublin, canada>> >>, <<>>, "onsite")
MCFeed == {Bare, Qualified}

MCSightings == [r \in Discovery |-> 2]

\* One row and nobody else; or rows 1 and 3, and the run that has inserted 2.
MCScenario ==
    {[rows |-> 1 :> AsDeployed(c), next |-> 2, own |-> d :> NoRows, pc |-> d :> "absent"] :
        c \in MCContent} \cup
    {[rows |-> 1 :> AsDeployed(Bare) @@ 3 :> AsDeployed(Bare), next |-> 4,
      own |-> d :> (2 :> AsDeployed(Bare)), pc |-> d :> "ingesting"],
     [rows |-> 1 :> AsDeployed(Qualified) @@ 2 :> AsDeployed(Bare), next |-> 3,
      own |-> d :> NoRows, pc |-> d :> "idle"]}
=============================================================================

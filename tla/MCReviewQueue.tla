---------------------------- MODULE MCReviewQueue ----------------------------
(* Three jobs of one employer and one of another, not all of them scored at   *)
(* first or, where ties are looked for, scored alike; some publish no pay or  *)
(* no date.  A page holds one job, so that a walk takes several.              *)
EXTENDS ReviewQueue

MCListing == <<
    [employer |-> 1, arrangement |-> "remote", class |-> "us", pay |-> 3, posted |-> None],
    [employer |-> 1, arrangement |-> "hybrid", class |-> "bay", pay |-> None, posted |-> 0],
    [employer |-> 1, arrangement |-> "remote", class |-> "bay", pay |-> 1, posted |-> 0],
    [employer |-> 2, arrangement |-> "remote", class |-> "us", pay |-> 3, posted |-> -1]>>

All == [sort |-> "score", descending |-> TRUE, minScore |-> 0, arrangements |-> {}, classes |-> {},
        minPay |-> 0, postedWithin |-> 0, companies |-> {}, judgedOnly |-> FALSE, cap |-> 3]

MCWalks ==
    {All,
     [All EXCEPT !.cap = 2],
     [All EXCEPT !.sort = "salary", !.arrangements = {"remote"}, !.cap = 1],
     [All EXCEPT !.sort = "posted", !.descending = FALSE, !.minPay = 2],
     [All EXCEPT !.sort = "company", !.descending = FALSE, !.minScore = 1, !.postedWithin = 1],
     [All EXCEPT !.companies = {1}, !.classes = {"bay"}, !.judgedOnly = TRUE]}

MCScores == {<<2, 1, 3, 2>>, <<None, 3, 0, None>>}

MCTies == {<<2, 2, 2, 1>>}
=============================================================================

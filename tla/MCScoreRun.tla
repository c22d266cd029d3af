----------------------------- MODULE MCScoreRun -----------------------------
(* Two deliveries and a discovery run over two employers, one of them on the *)
(* blocklist.                                                                *)
EXTENDS ScoreRun

CONSTANTS j1, j2, c1, c2

MCCompanyOf == [j \in Job |-> IF j = j1 THEN c1 ELSE c2]

MCRank == [j \in Job |-> IF j = j1 THEN 2 ELSE 1]
=============================================================================

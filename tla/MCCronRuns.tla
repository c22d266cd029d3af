----------------------------- MODULE MCCronRuns -----------------------------
(* Two sources, one with an interval longer than a run and one that every   *)
(* delivery may fetch.                                                      *)
EXTENDS CronRuns

CONSTANTS ats, remotive

MCRank == [s \in Source |-> IF s = ats THEN 0 ELSE 1]

MCInterval == [s \in Source |-> IF s = remotive THEN 2 ELSE 0]

MCMaxVersion == [s \in Source |-> IF s = remotive THEN 1 ELSE 2]
=============================================================================

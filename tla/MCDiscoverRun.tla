--------------------------- MODULE MCDiscoverRun ---------------------------
(* An ATS with two boards and a feed of two pages.  Job j1 is new; j2 was   *)
(* edited to content that matches no row (the failing collision); j3        *)
(* carries the source id of one row and the content of another (the         *)
(* resolved collision).                                                     *)
EXTENDS DiscoverRun

CONSTANTS ats, feedSource, b1, b2, b3, b4, j1, j2, j3, f1, f2, f3, f4, s1, s2, s3, pass

MCBoardsOf == [s \in Source |-> IF s = ats THEN <<b1, b2>> ELSE <<b4, b3>>]

MCItemsOf == [b \in Board |-> CASE b = b1 -> <<j1, j2>> [] b = b3 -> <<j3>> [] OTHER -> <<>>]

Post(f, s) == [fp |-> f, sid |-> s, verdict |-> pass]

MCPostingOf ==
    [i \in Item |-> CASE i = j1 -> Post(f1, s1) [] i = j2 -> Post(f2, s2) [] i = j3 -> Post(f4, s2)]

OldRow(s) == [sid |-> s, verdict |-> pass, first |-> 0, last |-> 0]

MCStartTables ==
    {[f \in Fingerprint |-> CASE f = f3 -> OldRow(s2) [] f = f4 -> OldRow(s3) [] OTHER -> NoRow]}
=============================================================================

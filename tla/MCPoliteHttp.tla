---------------------------- MODULE MCPoliteHttp ----------------------------
(* Two coroutines on one host, and two resources that differ in a parameter *)
(* only; one is edited once, into a page that is no JSON, and the other is  *)
(* dated between.  A delay of four ticks leaves the jitter a choice.        *)
EXTENDS PoliteHttp

MCHostOf == [r \in Resource |-> "algolia"]
MCUrlOf == [r \in Resource |-> "search"]
MCMaxVersion == [r \in Resource |-> IF r = "page0" THEN 1 ELSE 0]
MCModifiedAt == [r \in Resource |-> IF r = "page0" THEN [v \in 0..1 |-> 2 * v] ELSE [v \in {0} |-> 1]]
MCGarbled == {[of |-> "page0", version |-> 1]}
MCOffers == {{}, {"ETag"}, {"Last-Modified"}}
MCDelayFor == [h \in Host |-> 4]
=============================================================================

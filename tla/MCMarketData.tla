----------------------------- MODULE MCMarketData -----------------------------
(* Two loads of the compute thread, one after the other: the threads of    *)
(* the first may still be at work when the second starts.                  *)
EXTENDS MarketData, TLC

MCLoads == {"first", "second"}
MCThreadOf == [L \in MCLoads |-> "compute"]
MCOwnerOf == [L \in MCLoads |-> "r"]
MCSymbolsOf == ("first" :> {"a", "b"}) @@ ("second" :> {"a"})
MCWindowOf == ("first" :> {1, 2}) @@ ("second" :> {2, 3})

Entry(w) == [meta |-> w, csv |-> IF w = None THEN {} ELSE w]
\* An empty cache, or one that has what the first load asks of "a".
Cache(w) == [k \in {"yahoo", "akshare"} \X {"a", "b"} |->
               Entry(IF k[2] = "a" THEN w ELSE None)]
MCBefore == {<<"yahoo", Cache(None)>>, <<"yahoo", Cache({1, 2})>>,
             <<"akshare", Cache({1, 2})>>}
=============================================================================

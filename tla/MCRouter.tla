------------------------------ MODULE MCRouter ------------------------------
(* Instances of Router for TLC: two strategies, one bucket, two assets.    *)
EXTENDS RouterInvariant, TLC

CONSTANTS e1, e2, e3, e4, e5, s1, s2, x, y, noSlug, b

MCStrategies == {s1, s2}
MCOneStrategy == {s1}
MCAssets     == {x, y}
MCBuckets    == {b}
MCBucketOf   == [s \in MCStrategies |-> b]
MCOneBucketOf == [s \in MCOneStrategy |-> b]
MCNone       == <<>>
(* A budget that is not whole cents when a cent is two units.              *)
MCOddBudget  == [s \in {s1} |-> 11]
MCPeriods    == {"daily"}
MCDrawdownCap   == [p \in MCPeriods |-> 1]

(* BTC-USDT, and a prediction market whose first word makes it tracked.    *)
MCLower == [w \in {"BTC", "USDT", "eth", "bitcoin", "above", "will"} |->
              CASE w = "BTC" -> "btc" [] w = "USDT" -> "usdt" [] OTHER -> w]
MCUpper == [w \in DOMAIN MCLower |->
              CASE w = "eth" -> "ETH" [] w = "bitcoin" -> "BITCOIN"
                [] w = "above" -> "ABOVE" [] w = "will" -> "WILL" [] OTHER -> w]
MCSlugPrefixes == {"will", "the"}
MCAssetClass   == [a \in MCAssets |-> IF a = x THEN "crypto" ELSE "predictions"]
MCWords        == [a \in MCAssets |-> IF a = x THEN <<"BTC", "USDT">> ELSE <<"eth", "above">>]
Payload(js, n, v, st) == [json |-> js, number |-> n, value |-> v, stamp |-> st]
MCLpPayloads ==
  [a \in MCAssets |->
     IF a = x THEN {Payload("object", "finite", 200, "fresh")}
              ELSE {Payload("object", "finite", 200, "stale"),
                    Payload("other", "none", 0, "unusable")}]
MCFreshPayloads == [a \in MCAssets |-> {Payload("object", "finite", 200, "fresh")}]

(* Two markets on one underlying, one of which is worded as a question.    *)
MCPredictions  == [a \in MCAssets |-> "predictions"]
MCQuestion     == [a \in MCAssets |-> IF a = x THEN <<"will", "bitcoin">> ELSE <<"bitcoin", "above">>]

MCBucketMax     == [k \in {b} |-> 4]
MCBucketTotal   == [k \in {b} |-> 20]

Alpha(s, slug, a, dir) == [strategy |-> s, slug |-> slug, asset |-> a,
                         direction |-> dir, hint |-> 0, confidence |-> 100]

(* A strategy fires twice on one asset; another, which may scale in, shares *)
(* the asset's cluster with it and goes on to a second asset.              *)
MCSequence == [e \in {e1, e2, e3, e4, e5} |->
                 CASE e = e1 -> Alpha(s1, s1, x, "long")
                   [] e = e2 -> [Alpha(s1, s1, x, "long") EXCEPT !.confidence = 50]
                   [] e = e3 -> Alpha(s2, s2, x, "long")
                   [] OTHER  -> Alpha(s2, s2, y, "long")]
(* Its last two alphas are alike.                                          *)
MCLastAlike == Permutations({e4, e5})
(* One strategy opens on two assets, and closes one without a slug.        *)
MCRaces == [e \in {e1, e2, e3} |->
              CASE e = e1 -> Alpha(s1, s1, x, "long")
                [] e = e2 -> Alpha(s1, s1, y, "short")
                [] OTHER  -> Alpha(s1, noSlug, x, "flat")]
(* Two openings of one position.                                           *)
MCSame    == [e \in {e1, e2} |-> Alpha(s1, s1, x, "long")]
(* An opening on each of two markets.                                      *)
MCMarkets == [e \in {e1, e2} |-> Alpha(IF e = e1 THEN s1 ELSE s2,
                                       IF e = e1 THEN s1 ELSE s2,
                                       IF e = e1 THEN x ELSE y, "long")]

=============================================================================

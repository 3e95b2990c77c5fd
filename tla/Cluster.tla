------------------------------ MODULE Cluster ------------------------------
(***************************************************************************)
(* Concentration clusters: preflight.py maps an asset to a cluster, and    *)
(* turns the cluster back into the filter with which Postgres sums its     *)
(* open positions.  The two need not agree on which assets belong.         *)
(*                                                                         *)
(* An asset is its class and its words, the parts between dashes, in the   *)
(* case the producer wrote them.  LIKE's wildcards in a word are left out. *)
(***************************************************************************)
EXTENDS Preflight

CONSTANTS
  AssetClass,    \* alpha.asset_class of an asset
  Words,         \* the words of an asset, a sequence
  Lower, Upper,  \* str.lower and str.upper, by word
  SlugPrefixes   \* _SLUG_PREFIXES

ASSUME ClusterAssumption ==
  /\ AssetClass \in [Assets -> {"stocks", "crypto", "predictions", "forex", "other"}]
  /\ DOMAIN Words = Assets
  /\ \A a \in Assets : Words[a] \in Seq(DOMAIN Lower \cap DOMAIN Upper)

DeriveVenue(a) ==
  CASE AssetClass[a] = "stocks"      -> "alpaca"
    [] AssetClass[a] = "crypto"      -> "binance"
    [] AssetClass[a] = "predictions" -> "polymarket"
    [] AssetClass[a] = "forex"       -> "oanda"
    [] OTHER                         -> "unknown"

UpperCase(ws) == [k \in DOMAIN ws |-> Upper[ws[k]]]

(* The first word of a slug that is no prefix word, or its last word.      *)
SemanticWord(ws) ==
  Lower[ws[Min({k \in DOMAIN ws : k = Len(ws) \/ Lower[ws[k]] \notin SlugPrefixes})]]

(* cluster_for: the kind of the cluster, and its head as words.            *)
ClusterOf(a) ==
  LET ws == Words[a]
  IN  IF ws = <<>> THEN <<DeriveVenue(a), <<"?">>>>
      ELSE CASE DeriveVenue(a) = "polymarket" -> <<"poly", <<SemanticWord(ws)>>>>
             [] DeriveVenue(a) = "binance"    -> <<"crypto", <<Upper[ws[1]]>>>>
             [] DeriveVenue(a) = "alpaca"     -> <<"stocks", UpperCase(ws)>>
             [] OTHER                         -> <<DeriveVenue(a), UpperCase(ws)>>

(* The kinds cluster_sql_filter can expand, and the venue it filters by.   *)
FilterVenue == [poly |-> "polymarket", crypto |-> "binance", stocks |-> "alpaca"]
Guarded(c)  == c[1] \in DOMAIN FilterVenue

(* The assets the filter selects: the head itself and, but for stocks, any *)
(* asset that starts with the head and a dash.  None for other kinds.      *)
FilterAssetsExactOnly(c) ==
  {a \in Assets : Guarded(c) /\ DeriveVenue(a) = FilterVenue[c[1]] /\ Words[a] = c[2]}
FilterAssets(c) ==
  {a \in Assets :
     /\ Guarded(c)
     /\ DeriveVenue(a) = FilterVenue[c[1]]
     /\ \/ Words[a] = c[2]
        \/ c[1] # "stocks" /\ Len(Words[a]) > 1 /\ <<Words[a][1]>> = c[2]}

=============================================================================

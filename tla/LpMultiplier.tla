---------------------------- MODULE LpMultiplier ----------------------------
(***************************************************************************)
(* lp_multiplier.py: the Liquidity Pulse multiplier of an asset, out of    *)
(* the payload the engine left in Redis.  A payload is                     *)
(*   json    "missing" (no key, or Redis failed), "malformed", "object",   *)
(*           or "other": valid JSON that is no object                      *)
(*   number  what its multiplier is: "finite", "nan" or "none" (text)      *)
(*   value   the finite one, in hundredths; 100 when the field is missing  *)
(*   stamp   "fresh", "stale", or "unusable": no timestamp, or no number   *)
(***************************************************************************)
EXTENDS Integers, FiniteSetsExt

Payloads == [json: {"missing", "malformed", "object", "other"},
             number: {"finite", "nan", "none"}, value: Int,
             stamp: {"fresh", "stale", "unusable"}]

(* Sizes are left alone.                                                   *)
Neutral == 100

(* .get on what is not a dict raises AttributeError, which nothing catches *)
(* before the loop does.                                                   *)
Raises(p) == p.json = "other"

(* A comparison with NaN is false, so min(2.0, nan) is 2.0.                *)
Clamp(p) == IF p.number = "nan" THEN 200 ELSE Max({50, Min({200, p.value})})

(* parse_multiplier_payload; an unusable timestamp passes for a fresh one. *)
ParseIgnoringAge(p) ==
  IF p.json = "object" /\ p.number # "none" THEN Clamp(p) ELSE Neutral
ParseMultiplier(p) ==
  IF p.json = "object" /\ p.number # "none" /\ p.stamp # "stale" THEN Clamp(p) ELSE Neutral

=============================================================================

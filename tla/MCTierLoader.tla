---------------------------- MODULE MCTierLoader ----------------------------
(* Instances of TierLoader for TLC. *)
EXTENDS TierLoader, TLC

\* Two tiers with assets and one without, as Tier 3 is.
ThreeSizes == ("tier1" :> 2) @@ ("tier2" :> 2) @@ ("tier3" :> 0)

ThreeTiers == DOMAIN ThreeSizes
=============================================================================

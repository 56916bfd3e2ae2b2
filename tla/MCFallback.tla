----------------------------- MODULE MCFallback -----------------------------
(***************************************************************************)
(* Two tiers and two tasks: enough for a call begun before a breaker       *)
(* opened to come back while another probes the tier.                      *)
(***************************************************************************)
EXTENDS Fallback
=============================================================================

------------------------- MODULE MCLimitsHydration --------------------------
(* One node, two runs of it; a beacon every three ticks, a retry after two. *)
EXTENDS LimitsHydration
=============================================================================

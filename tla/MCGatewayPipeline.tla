------------------------ MODULE MCGatewayPipeline ------------------------
(* TLC instance of GatewayPipeline: two routes; a permission that a token     *)
(* naming the organization has, and one without it (uuid.Nil, which is what   *)
(* Login issues) has not; policies that use it, the limiter or both.          *)
EXTENDS GatewayPipeline, TLC

MCClaims  == {"nil", "org"}
MCPerms   == {"read"}
MCGranted == {<<"org", "read">>}
MCRules   == {[perm |-> NoPerm, limited |-> TRUE],
              [perm |-> "read", limited |-> FALSE],
              [perm |-> "read", limited |-> TRUE]}

GatewaySymmetry == Permutations(Calls) \cup Permutations(Requests) \cup Permutations(Routes)
=============================================================================

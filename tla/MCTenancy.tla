----------------------------- MODULE MCTenancy -----------------------------
(* TLC instance of Tenancy: an organization with a workspace, both with slug    *)
(* "a"; a slug spelt in two ways, and another one.                             *)
EXTENDS Tenancy, TLC

MCOld    == {"o1", "w1"}
MCNames  == {"a", "A", "b"}
MCFolded == [n \in MCNames |-> IF n = "A" THEN "a" ELSE n]
MCSeed   ==
    {[id |-> "o1", kind |-> "org", scope |-> None, slug |-> "a", status |-> "active"],
     [id |-> "w1", kind |-> "workspace", scope |-> "o1", slug |-> "a", status |-> "active"]}

TenancySymmetry == Permutations(Calls)
=============================================================================

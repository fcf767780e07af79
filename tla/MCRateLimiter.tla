--------------------------- MODULE MCRateLimiter ---------------------------
(* TLC instance of RateLimiter.  The faulty requests, the other requests, the *)
(* apps and the endpoints are each interchangeable model values of the cfg.   *)
EXTENDS RateLimiter, TLC

LimiterSymmetry ==
    Permutations(Faulty) \cup Permutations(Requests \ Faulty) \cup
    Permutations(Apps) \cup Permutations(Endpoints)
=============================================================================

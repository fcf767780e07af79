--------------------------- MODULE MCInProcessBus ---------------------------
(* TLC instance of InProcessBus: two of the topics of topics.go and two        *)
(* handlers.  No symmetry: the run checks liveness.                            *)
EXTENDS InProcessBus

MCTopics   == {"iam", "tenant"}
MCHandlers == {"log", "audit"}
=============================================================================

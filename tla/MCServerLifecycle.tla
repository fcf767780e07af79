-------------------------- MODULE MCServerLifecycle --------------------------
(* TLC instance of ServerLifecycle: two requests that write, one probe of      *)
(* readiness, two of the three topics, a bus that two events fill.  No         *)
(* symmetry: the run checks liveness.                                          *)
EXTENDS ServerLifecycle

MCTopics == {"iam", "tenant"}
=============================================================================

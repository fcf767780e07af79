--------------------------- MODULE MCKafkaConsumer ---------------------------
(* TLC instance of KafkaConsumer: two partitions, of which other writers may    *)
(* put messages that are no envelope into the second.                           *)
EXTENDS KafkaConsumer

MCPartitions == {"p0", "p1"}
MCForeign    == {"p1"}
=============================================================================

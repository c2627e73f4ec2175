------------------------------ MODULE MCKafkaLag ------------------------------
(* The instances of MCWikiConsumer under the eyes of the kafka_lag check. *)
EXTENDS MCWikiConsumer, KafkaLag

=============================================================================

----------------------------- MODULE MCJetStream -----------------------------
(* Small instances of JetStreamConsumer for TLC. *)
EXTENDS JetStreamConsumer

CONSTANTS m1, m2, w1, w2, w3

\* js_live: w1 is set up as docs/guide/patterns/
\* pull-consumer.md wants it, with RetryAck and WithManualAck.  js_safe: w1
\* forgets WithManualAck, so that middleware and subscriber both settle; w2
\* leaves it to the subscriber; w3 has AutoAck and WithManualAck.
MCWrapped == [w \in Workers |->
  CASE w = w1 -> "RetryAck"
    [] w = w2 -> "none"
    [] w = w3 -> "AutoAck"]
=============================================================================

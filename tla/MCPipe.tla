------------------------------- MODULE MCPipe -------------------------------
(* A small instance of Pipe for TLC: one message of two items, delivered up *)
(* to two times.                                                            *)
EXTENDS Pipe

CONSTANT m1

MCItems == [m \in Messages |-> 2]
MCMaxDeliver == [m \in Messages |-> 2]
MCCalls == Messages \X (1 .. 2) \X (1 .. 2)
=============================================================================

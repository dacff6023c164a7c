---------------------------- MODULE MCChannelBus ----------------------------
(* Small instances of ChannelBus for TLC. *)
EXTENDS ChannelBus

CONSTANTS p1, p2, s1, s2, s3, r1, r2, x, y

\* Every session on subject x, except s2 where there is a y.
MCSubjectOf == [s \in Sessions |-> IF s = s2 /\ y \in Subjects THEN y ELSE x]

\* s1 and s2 are Subscribe calls of r1, s3 is one of r2.
MCOwner == [s \in Sessions |-> IF s = s3 THEN r2 ELSE r1]

\* r1's channels are buffered, r2's are not.
MCBufSize == [r \in Subscribers |-> IF r = r1 THEN 1 ELSE 0]
=============================================================================

-------------------------- MODULE MCInMemoryBroker --------------------------
(***************************************************************************)
(* Instances of InMemoryBroker: which generators share a consumer group.   *)
(***************************************************************************)
EXTENDS InMemoryBroker, TLC

CONSTANTS g1, g2, s1, s2, s3

\* Two generators of one group, which can replace each other, and one alone.
MCGroupOf == s1 :> g1 @@ s2 :> g1 @@ s3 :> g2
=============================================================================

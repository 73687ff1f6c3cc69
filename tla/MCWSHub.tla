------------------------------- MODULE MCWSHub -------------------------------
(***************************************************************************)
(* Instances of WSHub for TLC.                                             *)
(***************************************************************************)
EXTENDS WSHub, TLC

CONSTANTS docTopic, docPlain, cacheEvent

\* A document event for every topic, a document event without topics (what
\* worker.go publishes) and a cache event.
MCTopicsOf == [m \in Msgs |-> IF m = docTopic THEN Topics ELSE {}]
MCKindOf   == [m \in Msgs |-> IF m = cacheEvent THEN "cache" ELSE "indexed"]

ClientSymmetry == Permutations(Clients)
===============================================================================

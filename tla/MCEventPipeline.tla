-------------------------- MODULE MCEventPipeline --------------------------
(* Two calls that carry one key, racing or one the other's retry, and a third *)
(* with a key of its own, through batches of two.                             *)
EXTENDS EventPipeline

CONSTANTS c1, c2, c3, k1, k2

MCCalls == {c1, c2, c3}
MCKeys == {k1, k2}
MCKeyOf == [c \in MCCalls |-> IF c = c3 THEN k2 ELSE k1]

TwoCalls == {c1, c3}
TwoKeyOf == [c \in TwoCalls |-> IF c = c3 THEN k2 ELSE k1]
=============================================================================

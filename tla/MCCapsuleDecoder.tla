-------------------------- MODULE MCCapsuleDecoder --------------------------
(***************************************************************************)
(* Instance of CapsuleDecoder for TLC: payloads of two bytes that look like *)
(* nothing or like a sync pair.                                            *)
(***************************************************************************)
EXTENDS CapsuleDecoder

SomeLooks == {Plain, [i \in 1 .. Payload |-> IF i = 1 THEN "sync1" ELSE "sync2"]}
=============================================================================

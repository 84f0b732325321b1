---------------------------- MODULE MCSafeQueue ----------------------------
(***************************************************************************)
(* Instances of SafeQueue for TLC.                                         *)
(***************************************************************************)
EXTENDS SafeQueue

\* One limited queue and one without a limit.
Limits == [q \in Queues |-> IF q = "a" THEN 1 ELSE 0]

\* Every call with two locks takes that of "a" before that of "b".
OneWay == {<<"a", "b">>, <<"b", "b">>}
=============================================================================

--------------------------- MODULE RecursiveLock ---------------------------
(***************************************************************************)
(* What a recursive mutex promises: a thread may take it as often as it    *)
(* likes while no other thread has it, and gives it back as often.         *)
(***************************************************************************)
EXTENDS Naturals

CONSTANT Threads

VARIABLE hold  \* how often each thread has it

Init == hold = [t \in Threads |-> 0]

Acquire(t) ==
  /\ \A u \in Threads \ {t} : hold[u] = 0
  /\ hold' = [hold EXCEPT ![t] = @ + 1]

Release(t) ==
  /\ hold[t] > 0
  /\ hold' = [hold EXCEPT ![t] = @ - 1]

Next == \E t \in Threads : Acquire(t) \/ Release(t)

Spec == Init /\ [][Next]_hold
=============================================================================

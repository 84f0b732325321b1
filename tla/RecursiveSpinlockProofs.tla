---------------------- MODULE RecursiveSpinlockProofs ----------------------
(***************************************************************************)
(* recursive_spinlock_t excludes, for any number of threads and any depth  *)
(* of nesting: IInv is inductive and implies what the runs check.          *)
(***************************************************************************)
EXTENDS RecursiveSpinlock, TLAPS

\* A lock just constructed satisfies the invariant.
LEMMA InitIInv == Init => IInv
BY ThreadsAssumption
DEF Init, IInv, TypeOK, Labels, FlagForOne, OwnerIsInside, CounterIsDepth, DepthFitsLabel, Inside

\* The step of a thread that is not inside leaves whoever is undisturbed:
\* it enters the lock's code, or spins there.
LEMMA OutsideStep ==
  ASSUME IInv, NEW t \in Threads,
         Enter(t) \/ (TestAndSet(t) /\ lock_flag = "set") \/ LoadOwner(t)
  PROVE  IInv'
<1>1. /\ UNCHANGED <<owner_thread_id, recursive_counter, depth>>
      /\ lock_flag' = lock_flag
  BY DEF Enter, TestAndSet, LoadOwner
<1>2. PICK label \in Labels : pc' = [pc EXCEPT ![t] = label]
  BY DEF Enter, TestAndSet, LoadOwner, Goto, Labels
<1>3. TypeOK'
  BY <1>1, <1>2 DEF IInv, TypeOK, Enter, TestAndSet, LoadOwner
<1>4. \A u \in Threads : Inside(u)' <=> Inside(u)
  BY <1>1, <1>2 DEF IInv, TypeOK, Labels, OwnerIsInside, Inside, Enter, TestAndSet, LoadOwner, Goto
<1>. QED
  BY <1>1, <1>2, <1>3, <1>4
  DEF IInv, TypeOK, Labels, FlagForOne, OwnerIsInside, CounterIsDepth, DepthFitsLabel, Inside,
      Enter, TestAndSet, LoadOwner, Goto

\* The thread that finds the flag clear is the only one inside.
LEMMA TakeStep ==
  ASSUME IInv, NEW t \in Threads, TestAndSet(t), lock_flag = "clear"
  PROVE  IInv'
<1>1. \A u \in Threads : ~Inside(u)
  BY DEF IInv, FlagForOne
<1>2. \A u \in Threads : Inside(u)' <=> u = t
  BY <1>1 DEF IInv, TypeOK, TestAndSet, Goto, Inside
<1>3. recursive_counter = 0 /\ depth[t] = 0
  BY <1>1 DEF IInv, TypeOK, CounterIsDepth, Inside
<1>4. TypeOK'
  BY DEF IInv, TypeOK, TestAndSet, Goto, Labels
<1>. QED
  BY <1>1, <1>2, <1>3, <1>4, ThreadsAssumption
  DEF IInv, TypeOK, FlagForOne, OwnerIsInside, CounterIsDepth, DepthFitsLabel, TestAndSet, Goto

\* The thread inside stays the only one until it clears the flag: what it
\* does to the owner, the counter and its own depth, nobody else sees.
LEMMA InsideStep ==
  ASSUME IInv, NEW t \in Threads,
         StoreOwner(t) \/ Increment(t) \/ Leave(t) \/ Decrement(t) \/ ClearOwner(t)
  PROVE  IInv'
<1>1. Inside(t) /\ lock_flag' = lock_flag /\ lock_flag = "set"
  BY DEF IInv, FlagForOne, Inside, StoreOwner, Increment, Leave, Decrement, ClearOwner
<1>2. recursive_counter = depth[t] /\ depth[t] \in Nat /\ \A u \in Threads : Inside(u) => u = t
  BY <1>1 DEF IInv, TypeOK, FlagForOne, CounterIsDepth
<1>3. /\ \A u \in Threads \ {t} : pc'[u] = pc[u] /\ depth'[u] = depth[u]
      /\ \A u \in Threads \ {t} : ~Inside(u)'
  <2>1. \A u \in Threads \ {t} : pc'[u] = pc[u] /\ depth'[u] = depth[u]
    BY DEF IInv, TypeOK, StoreOwner, Increment, Leave, Decrement, ClearOwner, Goto
  <2>. QED BY <2>1, <1>2 DEF Inside
<1>4. TypeOK'
  <2>1. CASE StoreOwner(t) \/ Leave(t) \/ ClearOwner(t)
    BY <2>1 DEF IInv, TypeOK, Labels, StoreOwner, Leave, ClearOwner, Goto
  <2>2. CASE Increment(t)
    <3>1. depth[t] + 1 \in 0 .. MaxDepth
      BY <2>2, ThreadsAssumption DEF IInv, TypeOK, DepthFitsLabel, Increment
    <3>. QED BY <2>2, <3>1, <1>2 DEF IInv, TypeOK, Labels, Increment, Goto
  <2>3. CASE Decrement(t)
    <3>1. depth[t] - 1 \in 0 .. MaxDepth
      BY <2>3, ThreadsAssumption DEF IInv, TypeOK, DepthFitsLabel, Decrement
    <3>. QED BY <2>3, <3>1, <1>2 DEF IInv, TypeOK, Labels, Decrement, Goto
  <2>. QED BY <2>1, <2>2, <2>3
<1>5. Inside(t)' /\ recursive_counter' = depth'[t]
  BY <1>2 DEF IInv, TypeOK, DepthFitsLabel, Inside, StoreOwner, Increment, Leave, Decrement, ClearOwner, Goto
<1>6. owner_thread_id' = t <=> pc'[t] \notin {"store_owner", "clear_flag"}
  BY <1>1, ThreadsAssumption
  DEF IInv, TypeOK, OwnerIsInside, StoreOwner, Increment, Leave, Decrement, ClearOwner, Goto
<1>7. \A u \in Threads \ {t} : owner_thread_id' # u
  BY <1>2, ThreadsAssumption
  DEF IInv, OwnerIsInside, StoreOwner, Increment, Leave, Decrement, ClearOwner
<1>8. DepthFitsLabel'
  <2>1. /\ pc'[t] = "decrement" => depth'[t] > 0
        /\ pc'[t] \in {"store_owner", "clear_owner", "clear_flag"} => depth'[t] = 0
        /\ pc'[t] \in {"test_and_set", "store_owner", "load_owner", "increment"} =>
             depth'[t] < MaxDepth
    <3>1. CASE StoreOwner(t) \/ Increment(t)
      BY <3>1 DEF IInv, TypeOK, DepthFitsLabel, StoreOwner, Increment, Goto
    <3>2. CASE Leave(t) \/ ClearOwner(t)
      BY <3>2 DEF IInv, TypeOK, DepthFitsLabel, Leave, ClearOwner, Goto
    <3>3. CASE Decrement(t)
      BY <3>3, <1>2 DEF IInv, TypeOK, Decrement, Goto
    <3>. QED BY <3>1, <3>2, <3>3
  <2>. QED BY <2>1, <1>3 DEF IInv, DepthFitsLabel
<1>. QED
  BY <1>1, <1>3, <1>4, <1>5, <1>6, <1>7, <1>8
  DEF IInv, FlagForOne, OwnerIsInside, CounterIsDepth

\* The thread that clears the flag leaves nobody inside, and a counter of 0.
LEMMA GiveStep ==
  ASSUME IInv, NEW t \in Threads, ClearFlag(t)
  PROVE  IInv'
<1>1. Inside(t) /\ depth[t] = 0 /\ recursive_counter = 0 /\ \A u \in Threads : Inside(u) => u = t
  BY DEF IInv, FlagForOne, CounterIsDepth, DepthFitsLabel, Inside, ClearFlag
<1>2. \A u \in Threads : ~Inside(u)'
  BY <1>1 DEF IInv, TypeOK, Inside, ClearFlag, Goto
<1>3. \A u \in Threads : owner_thread_id' # u
  BY <1>1 DEF IInv, OwnerIsInside, ClearFlag
<1>4. TypeOK'
  BY DEF IInv, TypeOK, Labels, ClearFlag, Goto
<1>. QED
  BY <1>1, <1>2, <1>3, <1>4
  DEF IInv, TypeOK, FlagForOne, OwnerIsInside, CounterIsDepth, DepthFitsLabel, ClearFlag, Goto

\* The invariant is inductive.
THEOREM LockInductive == Spec => []IInv
<1>1. IInv /\ [Next]_vars => IInv'
  <2>. SUFFICES ASSUME IInv, [Next]_vars PROVE IInv'
    OBVIOUS
  <2>1. ASSUME NEW t \in Threads, Enter(t) \/ Leave(t) \/ Step(t) PROVE IInv'
    <3>1. TestAndSet(t) => lock_flag \in {"clear", "set"}
      BY DEF IInv, TypeOK
    <3>. QED BY <2>1, <3>1, OutsideStep, TakeStep, InsideStep, GiveStep DEF Step
  <2>2. CASE UNCHANGED vars
    BY <2>2 DEF vars, IInv, TypeOK, FlagForOne, OwnerIsInside, CounterIsDepth, DepthFitsLabel, Inside
  <2>. QED BY <2>1, <2>2 DEF Next
<1>. QED BY <1>1, InitIInv, PTL DEF Spec

\* Every variable keeps its type: the counter never leaves 0 .. MaxDepth.
THEOREM LockTypes == Spec => []TypeOK
<1>1. IInv => TypeOK BY DEF IInv
<1>. QED BY <1>1, LockInductive, PTL

\* The lock excludes, its counter is accessed by one thread at a time, and
\* the asserts of unlock() hold.
THEOREM LockExcludes == Spec => [](Exclusive /\ CounterIsPrivate /\ UnlockAsserts)
<1>1. IInv => Exclusive
  BY DEF IInv, TypeOK, FlagForOne, Inside, Exclusive
<1>2. IInv => CounterIsPrivate
  BY DEF IInv, FlagForOne, Inside, CounterIsPrivate
<1>3. IInv => UnlockAsserts
  <2>. SUFFICES ASSUME IInv, NEW t \in Threads, pc[t] = "decrement"
                PROVE  owner_thread_id = t /\ recursive_counter > 0
    BY DEF UnlockAsserts
  <2>1. Inside(t) /\ depth[t] > 0 BY DEF Inside, IInv, DepthFitsLabel
  <2>. QED BY <2>1 DEF IInv, OwnerIsInside, CounterIsDepth
<1>. QED BY <1>1, <1>2, <1>3, LockInductive, PTL

\* The spinlock implements a recursive mutex: the increment of the counter is
\* the acquisition, its decrement the release.
THEOREM LockRefinement == Spec => ImplementsLock
<1>1. Init => Lock!Init
  BY DEF Init, Lock!Init
<1>2. IInv /\ [Next]_vars => [Lock!Next]_depth
  <2>. SUFFICES ASSUME IInv, Next PROVE Lock!Next \/ UNCHANGED depth
    BY DEF vars
  <2>1. PICK t \in Threads : Enter(t) \/ Leave(t) \/ Step(t)
    BY DEF Next
  <2>2. CASE Increment(t)
    <3>1. Inside(t) /\ \A u \in Threads \ {t} : ~Inside(u)
      BY <2>2 DEF IInv, FlagForOne, Inside, Increment
    <3>2. ASSUME NEW u \in Threads \ {t} PROVE depth[u] = 0
      <4>1. depth[u] \in 0 .. MaxDepth /\ ~(depth[u] > 0)
        BY <3>1 DEF IInv, TypeOK, Inside
      <4>. QED BY <4>1, ThreadsAssumption
    <3>. QED BY <2>2, <3>2 DEF Increment, Lock!Next, Lock!Acquire
  <2>3. CASE Decrement(t)
    BY <2>3 DEF IInv, DepthFitsLabel, Decrement, Lock!Next, Lock!Release
  <2>. QED
    BY <2>1, <2>2, <2>3
    DEF Step, Enter, Leave, TestAndSet, StoreOwner, LoadOwner, ClearOwner, ClearFlag
<1>. QED BY <1>1, <1>2, LockInductive, PTL DEF Spec, ImplementsLock, Lock!Spec
=============================================================================

------------------------- MODULE RecursiveSpinlock -------------------------
(***************************************************************************)
(* recursive_spinlock_t of helpers/spinlock.h, the lock of the renderer    *)
(* (mthread_config.h): an atomic flag, an atomic owner and a counter that  *)
(* is neither.  A step is one access to one of the three.                  *)
(***************************************************************************)
EXTENDS Naturals

CONSTANTS
  Threads,
  NoThread,  \* the id of no thread, thread_id_t()
  MaxDepth   \* how often a thread nests its locks

ASSUME ThreadsAssumption == NoThread \notin Threads /\ MaxDepth \in Nat

VARIABLES
  lock_flag, owner_thread_id, recursive_counter,
  pc,     \* the next access of each thread; outside the lock's code, "idle"
  call,   \* which of lock() and try_lock() is in progress
  depth   \* how often each thread was told it has the lock, less its unlocks

vars == <<lock_flag, owner_thread_id, recursive_counter, pc, call, depth>>

Init ==
  /\ lock_flag = "clear" /\ owner_thread_id = NoThread /\ recursive_counter = 0
  /\ pc = [t \in Threads |-> "idle"]
  /\ call = [t \in Threads |-> "lock"]
  /\ depth = [t \in Threads |-> 0]

Goto(t, label) == pc' = [pc EXCEPT ![t] = label]

-----------------------------------------------------------------------------
(* lock() and try_lock().                                                  *)

Enter(t) ==
  /\ pc[t] = "idle" /\ depth[t] < MaxDepth
  /\ \E c \in {"lock", "try_lock"} : call' = [call EXCEPT ![t] = c]
  /\ Goto(t, "test_and_set")
  /\ UNCHANGED <<lock_flag, owner_thread_id, recursive_counter, depth>>

TestAndSet(t) ==
  /\ pc[t] = "test_and_set"
  /\ lock_flag' = "set"
  /\ Goto(t, IF lock_flag = "clear" THEN "store_owner" ELSE "load_owner")
  /\ UNCHANGED <<owner_thread_id, recursive_counter, call, depth>>

\* (mutant) the owner is not stored
StoreOwner_Skipped(t) ==
  /\ pc[t] = "store_owner"
  /\ Goto(t, "increment")
  /\ UNCHANGED <<lock_flag, owner_thread_id, recursive_counter, call, depth>>

StoreOwner(t) ==
  /\ pc[t] = "store_owner"
  /\ owner_thread_id' = t
  /\ Goto(t, "increment")
  /\ UNCHANGED <<lock_flag, recursive_counter, call, depth>>

\* (mutant) no owner yet counts as this thread
LoadOwner_NoneIsMine(t) ==
  /\ pc[t] = "load_owner"
  /\ Goto(t, IF owner_thread_id \in {t, NoThread} THEN "increment"
             ELSE IF call[t] = "lock" THEN "test_and_set" ELSE "idle")
  /\ UNCHANGED <<lock_flag, owner_thread_id, recursive_counter, call, depth>>

\* Someone else's: try_lock returns false, lock goes round again.
LoadOwner(t) ==
  /\ pc[t] = "load_owner"
  /\ Goto(t, IF owner_thread_id = t THEN "increment"
             ELSE IF call[t] = "lock" THEN "test_and_set" ELSE "idle")
  /\ UNCHANGED <<lock_flag, owner_thread_id, recursive_counter, call, depth>>

Increment(t) ==
  /\ pc[t] = "increment"
  /\ recursive_counter' = recursive_counter + 1
  /\ depth' = [depth EXCEPT ![t] = @ + 1]
  /\ Goto(t, "idle")
  /\ UNCHANGED <<lock_flag, owner_thread_id, call>>

-----------------------------------------------------------------------------
(* unlock().                                                               *)

Leave(t) ==
  /\ pc[t] = "idle" /\ depth[t] > 0
  /\ Goto(t, "decrement")
  /\ UNCHANGED <<lock_flag, owner_thread_id, recursive_counter, call, depth>>

\* (mutant) the lock is given up with the first of the nested unlocks
Decrement_GivesUp(t) ==
  /\ pc[t] = "decrement"
  /\ recursive_counter' = recursive_counter - 1
  /\ depth' = [depth EXCEPT ![t] = @ - 1]
  /\ Goto(t, "clear_owner")
  /\ UNCHANGED <<lock_flag, owner_thread_id, call>>

Decrement(t) ==
  /\ pc[t] = "decrement"
  /\ recursive_counter' = recursive_counter - 1
  /\ depth' = [depth EXCEPT ![t] = @ - 1]
  /\ Goto(t, IF recursive_counter = 1 THEN "clear_owner" ELSE "idle")
  /\ UNCHANGED <<lock_flag, owner_thread_id, call>>

ClearOwner(t) ==
  /\ pc[t] = "clear_owner"
  /\ owner_thread_id' = NoThread
  /\ Goto(t, "clear_flag")
  /\ UNCHANGED <<lock_flag, recursive_counter, call, depth>>

\* (mutant) the flag is left set
ClearFlag_Skipped(t) ==
  /\ pc[t] = "clear_flag"
  /\ Goto(t, "idle")
  /\ UNCHANGED <<lock_flag, owner_thread_id, recursive_counter, call, depth>>

ClearFlag(t) ==
  /\ pc[t] = "clear_flag"
  /\ lock_flag' = "clear"
  /\ Goto(t, "idle")
  /\ UNCHANGED <<owner_thread_id, recursive_counter, call, depth>>

-----------------------------------------------------------------------------
\* The steps inside the lock's code: they wait for nothing.
Step(t) ==
  \/ TestAndSet(t) \/ StoreOwner(t) \/ LoadOwner(t) \/ Increment(t)
  \/ Decrement(t) \/ ClearOwner(t) \/ ClearFlag(t)

Next == \E t \in Threads : Enter(t) \/ Leave(t) \/ Step(t)

Spec == Init /\ [][Next]_vars

\* A thread inside lock() or unlock() goes on; nobody has to lock or unlock.
FairSpec == Spec /\ \A t \in Threads : WF_vars(Step(t))

-----------------------------------------------------------------------------
(* What must hold.                                                         *)

Labels == {"idle", "test_and_set", "store_owner", "load_owner", "increment",
           "decrement", "clear_owner", "clear_flag"}

TypeOK ==
  /\ lock_flag \in {"clear", "set"}
  /\ owner_thread_id \in Threads \cup {NoThread}
  /\ recursive_counter \in 0 .. MaxDepth
  /\ pc \in [Threads -> Labels]
  /\ call \in [Threads -> {"lock", "try_lock"}]
  /\ depth \in [Threads -> 0 .. MaxDepth]

\* A thread between a successful try_lock and the end of its last unlock.
Inside(t) ==
  depth[t] > 0 \/ pc[t] \in {"store_owner", "increment", "decrement",
                             "clear_owner", "clear_flag"}

\* The lock excludes: no two threads have been told that it is theirs.
Exclusive == \A t, u \in Threads : depth[t] > 0 /\ depth[u] > 0 => t = u

\* recursive_counter is no atomic: two threads never get to it together.
CounterIsPrivate ==
  \A t, u \in Threads :
    pc[t] \in {"increment", "decrement"} /\ pc[u] \in {"increment", "decrement"} => t = u

\* spinlock.h:76-77, the asserts of unlock().
UnlockAsserts ==
  \A t \in Threads :
    pc[t] = "decrement" => owner_thread_id = t /\ recursive_counter > 0

\* A lock() in progress does not leave the lock unused for ever: some thread
\* gets it, though not this one, because nothing makes the spinning fair.
SomebodyGetsIt ==
  \A t \in Threads :
    pc[t] = "test_and_set" /\ call[t] = "lock" ~> \E u \in Threads : depth[u] > 0

\* The flag, the owner and the counter implement a recursive mutex.
Lock == INSTANCE RecursiveLock WITH hold <- depth

ImplementsLock == Lock!Spec

-----------------------------------------------------------------------------
(* The inductive invariant.                                                *)

\* The flag is set for exactly one thread, and clear for nobody.
FlagForOne ==
  /\ \A t, u \in Threads : Inside(t) /\ Inside(u) => t = u
  /\ \A t \in Threads : Inside(t) => lock_flag = "set"

\* The owner is the thread inside, from its store to its clearing.
OwnerIsInside ==
  \A t \in Threads :
    owner_thread_id = t <=> Inside(t) /\ pc[t] \notin {"store_owner", "clear_flag"}

\* The counter is the depth of the thread inside, and 0 for nobody.
CounterIsDepth ==
  /\ \A t \in Threads : Inside(t) => recursive_counter = depth[t]
  /\ (\A t \in Threads : ~Inside(t)) => recursive_counter = 0

\* Where a thread may be with the lock and without it.
DepthFitsLabel ==
  \A t \in Threads :
    /\ pc[t] = "decrement" => depth[t] > 0
    /\ pc[t] \in {"store_owner", "clear_owner", "clear_flag"} => depth[t] = 0
    /\ pc[t] \in {"test_and_set", "store_owner", "load_owner", "increment"} =>
         depth[t] < MaxDepth

IInv == TypeOK /\ FlagForOne /\ OwnerIsInside /\ CounterIsDepth /\ DepthFitsLabel
=============================================================================

----------------------------- MODULE SafeQueue -----------------------------
(***************************************************************************)
(* SafeQueue (helpers/safequeue.h): a queue behind a mutex, with a         *)
(* condition variable for the threads that pop it while it is empty.       *)
(*                                                                         *)
(* A critical section of one mutex is one step, taken while the mutex is   *)
(* free.  The operations on two queues lock one after the other, and a     *)
(* waiting pop sleeps between two sections: these take several steps.  The *)
(* move assignment takes the contents of a queue without the mutex of that *)
(* queue: it is a step of its own, before or after every section there; to *)
(* meet one in the middle is a data race, for which nothing holds.         *)
(* Items are numbered in the order in which they came into the queues.     *)
(***************************************************************************)
EXTENDS Naturals, Sequences, FiniteSets

CONSTANTS
  Threads, Queues,
  Limit,      \* m_max_num_items of every queue, 0 for none
  Pairs,      \* <<this, sq>> of the swaps and copy assignments the program makes
  MaxOut,     \* bound: the items of a plain queue that is swapped in
  MaxCalls    \* bound: the calls made in all

ASSUME SafeQueueAssumption ==
  /\ IsFiniteSet(Threads)
  /\ Limit \in [Queues -> Nat]
  /\ Pairs \subseteq Queues \X Queues
  /\ MaxOut \in Nat /\ MaxCalls \in Nat

VARIABLES
  m_queue,
  m_mutex,    \* the threads that hold each mutex between two steps
  asleep,     \* the threads inside m_condition.wait, by queue
  woken,      \* those notified, or woken for no reason, that want the mutex back
  second,     \* what a thread that holds one mutex is about to do with two
  pushed,     \* items that came in, the number of the last one
  calls

vars == <<m_queue, m_mutex, asleep, woken, second, pushed, calls>>

NoCall == [op |-> "none"]
TwoQueues == [op : {"swap", "assign"}, this : Queues, sq : Queues]

Init ==
  /\ m_queue = [q \in Queues |-> <<>>]
  /\ m_mutex = [q \in Queues |-> {}]
  /\ asleep = [q \in Queues |-> {}] /\ woken = [q \in Queues |-> {}]
  /\ second = [t \in Threads |-> NoCall]
  /\ pushed = 0 /\ calls = 0

-----------------------------------------------------------------------------
\* A thread between two calls makes another one.
Begins(t) ==
  /\ calls < MaxCalls /\ calls' = calls + 1
  /\ second[t] = NoCall
  /\ \A q \in Queues : t \notin asleep[q] \cup woken[q]

Free(q) == m_mutex[q] = {}

NotifyOne(q) ==
  IF asleep[q] = {}
    THEN UNCHANGED <<asleep, woken>>
    ELSE \E t \in asleep[q] : /\ asleep' = [asleep EXCEPT ![q] = @ \ {t}]
                              /\ woken' = [woken EXCEPT ![q] = @ \cup {t}]

\* notify_all, for each of the queues Q.
NotifyAll(Q) ==
  /\ asleep' = [q \in Queues |-> IF q \in Q THEN {} ELSE asleep[q]]
  /\ woken' = [q \in Queues |-> IF q \in Q THEN woken[q] \cup asleep[q] ELSE woken[q]]

\* (mutant) the item is appended without the mutex
Push_Unlocked(t, q) ==
  /\ Begins(t)
  /\ m_queue' = [m_queue EXCEPT ![q] = Append(@, pushed + 1)]
  /\ pushed' = pushed + 1
  /\ NotifyOne(q)
  /\ UNCHANGED <<m_mutex, second>>

\* (mutant) the item is put in front
Push_Front(t, q) ==
  /\ Begins(t) /\ Free(q)
  /\ m_queue' = [m_queue EXCEPT ![q] = <<pushed + 1>> \o @]
  /\ pushed' = pushed + 1
  /\ NotifyOne(q)
  /\ UNCHANGED <<m_mutex, second>>

\* (mutant) only a push on an empty queue wakes a waiter
Push_NotifiesFirst(t, q) ==
  /\ Begins(t) /\ Free(q)
  /\ m_queue' = [m_queue EXCEPT ![q] = Append(@, pushed + 1)]
  /\ pushed' = pushed + 1
  /\ IF m_queue[q] = <<>> THEN NotifyOne(q) ELSE UNCHANGED <<asleep, woken>>
  /\ UNCHANGED <<m_mutex, second>>

Push(t, q) ==
  /\ Begins(t) /\ Free(q)
  /\ IF Limit[q] > 0 /\ Len(m_queue[q]) > Limit[q]
       THEN UNCHANGED <<m_queue, pushed, asleep, woken>>
       ELSE /\ m_queue' = [m_queue EXCEPT ![q] = Append(@, pushed + 1)]
            /\ pushed' = pushed + 1
            /\ NotifyOne(q)
  /\ UNCHANGED <<m_mutex, second>>

TakeFront(q) == m_queue' = [m_queue EXCEPT ![q] = Tail(@)]

\* pop, move_pop: the predicate is tested before the first sleep.
Pop(t, q) ==
  /\ Begins(t) /\ Free(q)
  /\ IF m_queue[q] = <<>>
       THEN asleep' = [asleep EXCEPT ![q] = @ \cup {t}] /\ UNCHANGED m_queue
       ELSE TakeFront(q) /\ UNCHANGED asleep
  /\ UNCHANGED <<m_mutex, woken, second, pushed>>

\* The waiter has the mutex back, and tests the predicate again.
Resume(t, q) ==
  /\ t \in woken[q] /\ Free(q)
  /\ woken' = [woken EXCEPT ![q] = @ \ {t}]
  /\ IF m_queue[q] = <<>>
       THEN asleep' = [asleep EXCEPT ![q] = @ \cup {t}] /\ UNCHANGED m_queue
       ELSE TakeFront(q) /\ UNCHANGED asleep
  /\ UNCHANGED <<m_mutex, second, pushed, calls>>

\* A condition variable may wake a thread for no reason.
SpuriousWakeup(t, q) ==
  /\ t \in asleep[q]
  /\ asleep' = [asleep EXCEPT ![q] = @ \ {t}]
  /\ woken' = [woken EXCEPT ![q] = @ \cup {t}]
  /\ UNCHANGED <<m_queue, m_mutex, second, pushed, calls>>

TryPop(t, q) ==
  /\ Begins(t) /\ Free(q)
  /\ IF m_queue[q] = <<>> THEN UNCHANGED m_queue ELSE TakeFront(q)
  /\ UNCHANGED <<m_mutex, asleep, woken, second, pushed>>

Clear(t, q) ==
  /\ Begins(t) /\ Free(q)
  /\ m_queue' = [m_queue EXCEPT ![q] = <<>>]
  /\ UNCHANGED <<m_mutex, asleep, woken, second, pushed>>

NonEmpty(Q) == {q \in Q : m_queue'[q] # <<>>}

\* swap(queue_t&): the contents go to a plain queue of the caller's, and what
\* that one held, items of the caller's own, comes in.
SwapOut(t, q, n) ==
  /\ Begins(t) /\ Free(q)
  /\ m_queue' = [m_queue EXCEPT ![q] = [i \in 1 .. n |-> pushed + i]]
  /\ pushed' = pushed + n
  /\ NotifyAll(NonEmpty({q}))
  /\ UNCHANGED <<m_mutex, second>>

\* operator=(SafeQueue&&): the mutex of this only.  A deque that was moved from
\* is empty; one moved to itself is, or keeps what it has.
MoveAssign(t, this, sq) ==
  /\ Begins(t) /\ Free(this)
  /\ \/ this # sq /\ m_queue' = [m_queue EXCEPT ![this] = m_queue[sq], ![sq] = <<>>]
     \/ this = sq /\ m_queue' = [m_queue EXCEPT ![this] = <<>>]
     \/ this = sq /\ UNCHANGED m_queue
  /\ NotifyAll(NonEmpty({this}))
  /\ UNCHANGED <<m_mutex, second, pushed>>

\* (mutant) lock1 is not waited for
LockFirst_NoWait(t, call) ==
  /\ Begins(t) /\ call.this # call.sq
  /\ m_mutex' = [m_mutex EXCEPT ![call.this] = @ \cup {t}]
  /\ second' = [second EXCEPT ![t] = call]
  /\ UNCHANGED <<m_queue, asleep, woken, pushed>>

\* swap(SafeQueue&) and operator=(const SafeQueue&): lock1, on this.
LockFirst(t, call) ==
  /\ Begins(t) /\ call.this # call.sq /\ Free(call.this)
  /\ m_mutex' = [m_mutex EXCEPT ![call.this] = @ \cup {t}]
  /\ second' = [second EXCEPT ![t] = call]
  /\ UNCHANGED <<m_queue, asleep, woken, pushed>>

\* (mutant) only the waiters of `this' are told
LockSecond_TellsThis(t) ==
  LET call == second[t] IN
    /\ call # NoCall /\ Free(call.sq)
    /\ m_queue' = [m_queue EXCEPT ![call.this] = m_queue[call.sq],
                     ![call.sq] = IF call.op = "swap" THEN m_queue[call.this] ELSE @]
    /\ NotifyAll(NonEmpty({call.this}))
    /\ m_mutex' = [m_mutex EXCEPT ![call.this] = @ \ {t}]
    /\ second' = [second EXCEPT ![t] = NoCall]
    /\ UNCHANGED <<pushed, calls>>

\* lock2, on sq; the contents; the waiters; both mutexes released.
LockSecond(t) ==
  LET call == second[t] IN
    /\ call # NoCall /\ Free(call.sq)
    /\ m_queue' = [m_queue EXCEPT ![call.this] = m_queue[call.sq],
                     ![call.sq] = IF call.op = "swap" THEN m_queue[call.this] ELSE @]
    /\ NotifyAll(NonEmpty(IF call.op = "swap" THEN {call.this, call.sq} ELSE {call.this}))
    /\ m_mutex' = [m_mutex EXCEPT ![call.this] = @ \ {t}]
    /\ second' = [second EXCEPT ![t] = NoCall]
    /\ UNCHANGED <<pushed, calls>>

TwoQueueCalls == {call \in TwoQueues : <<call.this, call.sq>> \in Pairs}

\* Everything the program asked for is done, or waits for a push.
Done ==
  /\ calls = MaxCalls /\ \A t \in Threads : second[t] = NoCall
  /\ \A q \in Queues : woken[q] = {}
  /\ UNCHANGED vars

Next ==
  \/ \E t \in Threads, q \in Queues :
       \/ Push(t, q) \/ Pop(t, q) \/ TryPop(t, q) \/ Clear(t, q)
       \/ Resume(t, q) \/ SpuriousWakeup(t, q)
       \/ \E n \in 0 .. MaxOut : SwapOut(t, q, n)
       \/ \E sq \in Queues : MoveAssign(t, q, sq)
  \/ \E t \in Threads : LockSecond(t) \/ \E call \in TwoQueueCalls : LockFirst(t, call)
  \/ Done

Spec == Init /\ [][Next]_vars

\* A thread that was woken, or holds a mutex, is run.  The mutex promises no
\* more than that: fairness is weak, and nothing makes a thread call.
FairSpec ==
  /\ Spec
  /\ \A t \in Threads : WF_vars(\E q \in Queues : Resume(t, q)) /\ WF_vars(LockSecond(t))

-----------------------------------------------------------------------------
TypeOK ==
  /\ m_queue \in [Queues -> Seq(Nat)]
  /\ m_mutex \in [Queues -> SUBSET Threads]
  /\ \A q \in Queues : \A t, u \in m_mutex[q] : t = u
  /\ asleep \in [Queues -> SUBSET Threads] /\ woken \in [Queues -> SUBSET Threads]
  /\ second \in [Threads -> TwoQueues \cup {NoCall}]
  /\ pushed \in Nat /\ calls \in Nat

\* safequeue.h:70,86,248,251,260,274,287: while a pop sleeps, every item there
\* is has a thread of its own on its way to it, whatever was swapped, assigned,
\* moved, stolen or cleared in the meantime.
NoLostWakeup ==
  \A q \in Queues : asleep[q] # {} => Len(m_queue[q]) <= Cardinality(woken[q])

\* Every queue holds its items in the order in which they came in, and none
\* twice.
InOrder ==
  \A q \in Queues : \A i \in 1 .. Len(m_queue[q]) :
    /\ m_queue[q][i] <= pushed
    /\ \A j \in 1 .. i - 1 : m_queue[q][j] < m_queue[q][i]

\* The contents of one queue are those of another now, and it is empty.
MovedAway(q) ==
  m_queue'[q] = <<>> /\ \E this \in Queues \ {q} : m_queue'[this] = m_queue[q]

\* safequeue.h:243,268,284: between the two locks of a swap or an assignment the
\* first queue stays as it is, or is moved away as a whole: only operator=(&&)
\* does not ask for its mutex, and it neither splits the contents nor adds.
HeldContents ==
  [][\A q \in Queues : m_mutex[q] # {} /\ m_mutex'[q] # {} =>
       m_queue'[q] = m_queue[q] \/ MovedAway(q)]_vars

\* A queue with items does not keep threads waiting in pop: either the items
\* or the waiters go.
PopServed ==
  \A q \in Queues :
    (m_queue[q] # <<>> /\ asleep[q] \cup woken[q] # {})
      ~> (m_queue[q] = <<>> \/ asleep[q] \cup woken[q] = {})

-----------------------------------------------------------------------------
(* The inductive invariant behind NoLostWakeup, InOrder and HeldContents.  *)

\* A thread that sleeps was not woken.
WaitersApart == \A q \in Queues : asleep[q] \cap woken[q] = {}

\* A thread between its two locks holds the first.
FirstHeld == \A t \in Threads : second[t] # NoCall => t \in m_mutex[second[t].this]

IInv == TypeOK /\ WaitersApart /\ FirstHeld /\ NoLostWakeup /\ InOrder
=============================================================================

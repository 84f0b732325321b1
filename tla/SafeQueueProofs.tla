-------------------------- MODULE SafeQueueProofs --------------------------
(***************************************************************************)
(* The safety of SafeQueue for any threads, queues, limits and calls: IInv *)
(* is inductive.                                                           *)
(***************************************************************************)
EXTENDS SafeQueue, FiniteSetTheorems, TLAPS

\* What happened to the waiters of one queue, as far as NoLostWakeup cares.
Kept(q) == asleep'[q] = asleep[q] /\ woken'[q] = woken[q]

\* A set of waiters is finite, and its size a number.
LEMMA WaitersFinite ==
  ASSUME TypeOK, NEW q \in Queues
  PROVE  /\ IsFiniteSet(woken[q]) /\ Cardinality(woken[q]) \in Nat
         /\ Len(m_queue[q]) \in Nat /\ m_queue[q] \in Seq(Nat)
<1>1. woken[q] \subseteq Threads /\ m_queue[q] \in Seq(Nat)
  BY DEF TypeOK
<1>2. IsFiniteSet(woken[q])
  BY <1>1, SafeQueueAssumption, FS_Subset DEF SafeQueueAssumption
<1>. QED BY <1>1, <1>2, FS_CardinalityType

\* What a thread adds to a set of waiters it was not in, and takes from one
\* that it was in, is one.
LEMMA WaiterCounts ==
  ASSUME TypeOK, NEW q \in Queues, NEW t
  PROVE  /\ t \notin woken[q] =>
              Cardinality(woken[q] \cup {t}) = Cardinality(woken[q]) + 1
         /\ t \in woken[q] =>
              Cardinality(woken[q] \ {t}) = Cardinality(woken[q]) - 1
<1>. QED BY WaitersFinite, FS_AddElement, FS_RemoveElement

\* A queue that keeps its waiters and gains no item stays served.
LEMMA ServedStays ==
  ASSUME TypeOK, NoLostWakeup, NEW q \in Queues, Kept(q),
         Len(m_queue'[q]) \in Nat, Len(m_queue'[q]) <= Len(m_queue[q])
  PROVE  asleep'[q] # {} => Len(m_queue'[q]) <= Cardinality(woken'[q])
BY WaitersFinite DEF Kept, NoLostWakeup

\* An item more is answered by a waiter more, if any sleeps.
LEMMA NotifyOneServes ==
  ASSUME TypeOK, WaitersApart, NoLostWakeup, NEW q \in Queues, NotifyOne(q),
         Len(m_queue'[q]) = Len(m_queue[q]) + 1
  PROVE  asleep'[q] # {} => Len(m_queue'[q]) <= Cardinality(woken'[q])
<1>1. CASE asleep[q] = {}
  BY <1>1 DEF NotifyOne
<1>2. CASE asleep[q] # {}
  <2>1. PICK t \in asleep[q] : woken'[q] = woken[q] \cup {t}
    BY <1>2 DEF NotifyOne, TypeOK
  <2>2. t \notin woken[q]
    BY DEF WaitersApart
  <2>3. Cardinality(woken'[q]) = Cardinality(woken[q]) + 1
    BY <2>1, <2>2, WaiterCounts
  <2>4. Len(m_queue[q]) <= Cardinality(woken[q])
    BY <1>2 DEF NoLostWakeup
  <2>. QED BY <2>3, <2>4, WaitersFinite
<1>. QED BY <1>1, <1>2

\* notify_one and notify_all move threads from asleep to woken, and keep the
\* types; notify_one leaves the other queues' waiters alone.
LEMMA NotifyTypes ==
  ASSUME TypeOK, NEW q \in Queues, NEW Q, NotifyOne(q) \/ NotifyAll(Q)
  PROVE  /\ asleep' \in [Queues -> SUBSET Threads] /\ woken' \in [Queues -> SUBSET Threads]
         /\ \A r \in Queues : asleep'[r] \subseteq asleep[r]
         /\ \A r \in Queues : asleep'[r] \cup woken'[r] = asleep[r] \cup woken[r]
         /\ WaitersApart => WaitersApart'
         /\ NotifyOne(q) => \A r \in Queues \ {q} : Kept(r)
<1>1. CASE NotifyOne(q)
  <2>1. CASE asleep[q] = {}
    BY <1>1, <2>1 DEF NotifyOne, TypeOK, Kept, WaitersApart
  <2>2. CASE asleep[q] # {}
    <3>1. PICK t \in asleep[q] : /\ asleep' = [asleep EXCEPT ![q] = @ \ {t}]
                                 /\ woken' = [woken EXCEPT ![q] = @ \cup {t}]
      BY <1>1, <2>2 DEF NotifyOne
    <3>2. t \in Threads
      BY DEF TypeOK
    <3>. QED BY <3>1, <3>2 DEF TypeOK, Kept, WaitersApart
  <2>. QED BY <2>1, <2>2
<1>2. CASE NotifyAll(Q)
  <2>1. asleep' \in [Queues -> SUBSET Threads] /\ woken' \in [Queues -> SUBSET Threads]
    BY <1>2 DEF NotifyAll, TypeOK
  <2>2. \A r \in Queues : \/ asleep'[r] = {} /\ woken'[r] = woken[r] \cup asleep[r]
                          \/ asleep'[r] = asleep[r] /\ woken'[r] = woken[r]
    BY <1>2 DEF NotifyAll
  <2>3. NotifyOne(q) => \A r \in Queues \ {q} : Kept(r)
    BY DEF NotifyOne, TypeOK, Kept
  <2>. QED BY <2>1, <2>2, <2>3 DEF WaitersApart
<1>. QED BY <1>1, <1>2

-----------------------------------------------------------------------------
\* One thread more, or less, among the waiters of a queue keeps their type.
LEMMA WaitersType ==
  ASSUME NEW f \in [Queues -> SUBSET Threads], NEW q \in Queues, NEW t \in Threads
  PROVE  /\ [f EXCEPT ![q] = @ \cup {t}] \in [Queues -> SUBSET Threads]
         /\ [f EXCEPT ![q] = @ \ {t}] \in [Queues -> SUBSET Threads]
OBVIOUS

\* No step leaves the types.
LEMMA TypeStep ==
  ASSUME TypeOK, Next
  PROVE  TypeOK'
<1>. USE DEF TypeOK, Begins
<1>. USE SafeQueueAssumption DEF SafeQueueAssumption
<1>f. ASSUME NEW q \in Queues, m_queue[q] # <<>>, TakeFront(q)
      PROVE  m_queue' \in [Queues -> Seq(Nat)]
  BY <1>f DEF TakeFront
<1>1. ASSUME NEW t \in Threads, NEW q \in Queues, Push(t, q) PROVE TypeOK'
  <2>1. CASE Limit[q] > 0 /\ Len(m_queue[q]) > Limit[q]
    BY <1>1, <2>1 DEF Push
  <2>2. CASE ~(Limit[q] > 0 /\ Len(m_queue[q]) > Limit[q])
    <3>1. NotifyOne(q) /\ m_queue' = [m_queue EXCEPT ![q] = Append(@, pushed + 1)]
          /\ pushed' = pushed + 1 /\ calls' = calls + 1 /\ UNCHANGED <<m_mutex, second>>
      BY <1>1, <2>2 DEF Push
    <3>2. asleep' \in [Queues -> SUBSET Threads] /\ woken' \in [Queues -> SUBSET Threads]
      BY <3>1, NotifyTypes
    <3>3. m_queue' \in [Queues -> Seq(Nat)]
      BY <3>1
    <3>. QED BY <3>1, <3>2, <3>3
  <2>. QED BY <2>1, <2>2
<1>2. ASSUME NEW t \in Threads, NEW q \in Queues, Pop(t, q) PROVE TypeOK'
  <2>1. m_queue' \in [Queues -> Seq(Nat)]
    BY <1>2, <1>f DEF Pop
  <2>2. asleep' \in [Queues -> SUBSET Threads]
    <3>1. asleep' = asleep \/ asleep' = [asleep EXCEPT ![q] = @ \cup {t}]
      BY <1>2, Zenon DEF Pop
    <3>2. [asleep EXCEPT ![q] = @ \cup {t}] \in [Queues -> SUBSET Threads]
      BY WaitersType
    <3>3. asleep \in [Queues -> SUBSET Threads]
      OBVIOUS
    <3>. HIDE DEF TypeOK
    <3>. QED BY <3>1, <3>2, <3>3, Zenon
  <2>3. calls' \in Nat /\ UNCHANGED <<m_mutex, woken, second, pushed>>
    BY <1>2 DEF Pop
  <2>. QED BY <2>1, <2>2, <2>3
<1>3. ASSUME NEW t \in Threads, NEW q \in Queues, TryPop(t, q) PROVE TypeOK'
  <2>1. m_queue' \in [Queues -> Seq(Nat)]
    BY <1>3, <1>f DEF TryPop
  <2>. QED BY <1>3, <2>1 DEF TryPop
<1>4. ASSUME NEW t \in Threads, NEW q \in Queues, Clear(t, q) PROVE TypeOK'
  <2>1. <<>> \in Seq(Nat)
    OBVIOUS
  <2>. QED BY <1>4, <2>1 DEF Clear
<1>5. ASSUME NEW t \in Threads, NEW q \in Queues, Resume(t, q) PROVE TypeOK'
  <2>1. m_queue' \in [Queues -> Seq(Nat)]
    BY <1>5, <1>f DEF Resume
  <2>2. asleep' \in [Queues -> SUBSET Threads] /\ woken' \in [Queues -> SUBSET Threads]
    <3>1. /\ asleep' = asleep \/ asleep' = [asleep EXCEPT ![q] = @ \cup {t}]
          /\ woken' = [woken EXCEPT ![q] = @ \ {t}]
      BY <1>5, Zenon DEF Resume
    <3>2. /\ [asleep EXCEPT ![q] = @ \cup {t}] \in [Queues -> SUBSET Threads]
          /\ [woken EXCEPT ![q] = @ \ {t}] \in [Queues -> SUBSET Threads]
      BY WaitersType
    <3>3. asleep \in [Queues -> SUBSET Threads]
      OBVIOUS
    <3>. HIDE DEF TypeOK
    <3>. QED BY <3>1, <3>2, <3>3, Zenon
  <2>3. UNCHANGED <<m_mutex, second, pushed, calls>>
    BY <1>5 DEF Resume
  <2>. QED BY <2>1, <2>2, <2>3
<1>6. ASSUME NEW t \in Threads, NEW q \in Queues, SpuriousWakeup(t, q) PROVE TypeOK'
  BY <1>6 DEF SpuriousWakeup
<1>7. ASSUME NEW t \in Threads, LockSecond(t) PROVE TypeOK'
  <2>. DEFINE call == second[t]
  <2>1. call \in TwoQueues /\ call.this \in Queues /\ call.sq \in Queues
    BY <1>7 DEF LockSecond, TwoQueues
  <2>2. m_queue' \in [Queues -> Seq(Nat)]
    BY <1>7, <2>1 DEF LockSecond
  <2>3. asleep' \in [Queues -> SUBSET Threads] /\ woken' \in [Queues -> SUBSET Threads]
    BY <1>7, <2>1, NotifyTypes DEF LockSecond
  <2>4. /\ m_mutex' = [m_mutex EXCEPT ![call.this] = @ \ {t}]
        /\ second' = [second EXCEPT ![t] = NoCall] /\ UNCHANGED <<pushed, calls>>
    BY <1>7 DEF LockSecond
  <2>5. m_mutex' \in [Queues -> SUBSET Threads]
        /\ \A q \in Queues : \A u, v \in m_mutex'[q] : u = v
    BY <2>1, <2>4
  <2>. QED BY <2>2, <2>3, <2>4, <2>5
<1>8. ASSUME NEW t \in Threads, NEW call \in TwoQueueCalls, LockFirst(t, call) PROVE TypeOK'
  <2>1. call \in TwoQueues /\ call.this \in Queues
    BY DEF TwoQueueCalls, TwoQueues
  <2>2. m_mutex' \in [Queues -> SUBSET Threads]
        /\ \A q \in Queues : \A u, v \in m_mutex'[q] : u = v
    BY <1>8, <2>1 DEF LockFirst, Free
  <2>3. second' \in [Threads -> TwoQueues \cup {NoCall}]
    BY <1>8, <2>1 DEF LockFirst
  <2>4. calls' \in Nat /\ UNCHANGED <<m_queue, asleep, woken, pushed>>
    BY <1>8 DEF LockFirst
  <2>. QED BY <2>2, <2>3, <2>4
<1>9. CASE Done
  BY <1>9 DEF Done, vars
<1>10. ASSUME NEW t \in Threads, NEW q \in Queues, NEW n \in 0 .. MaxOut, SwapOut(t, q, n)
       PROVE  TypeOK'
  <2>. DEFINE out == [i \in 1 .. n |-> pushed + i]
  <2>1. n \in Nat /\ out \in Seq(Nat)
    OBVIOUS
  <2>2. m_queue' = [m_queue EXCEPT ![q] = out] /\ pushed' = pushed + n /\ calls' = calls + 1
        /\ UNCHANGED <<m_mutex, second>> /\ NotifyAll(NonEmpty({q}))
    BY <1>10 DEF SwapOut
  <2>. HIDE DEF out
  <2>3. asleep' \in [Queues -> SUBSET Threads] /\ woken' \in [Queues -> SUBSET Threads]
    BY <2>2, NotifyTypes
  <2>4. m_queue' \in [Queues -> Seq(Nat)]
    BY <2>1, <2>2
  <2>5. pushed' \in Nat /\ calls' \in Nat
    BY <2>1, <2>2
  <2>. QED BY <2>2, <2>3, <2>4, <2>5
<1>11. ASSUME NEW t \in Threads, NEW q \in Queues, NEW sq \in Queues, MoveAssign(t, q, sq)
       PROVE  TypeOK'
  <2>1. m_queue' \in [Queues -> Seq(Nat)]
    BY <1>11, <<>> \in Seq(Nat) DEF MoveAssign
  <2>2. asleep' \in [Queues -> SUBSET Threads] /\ woken' \in [Queues -> SUBSET Threads]
    BY <1>11, NotifyTypes DEF MoveAssign
  <2>. QED BY <1>11, <2>1, <2>2 DEF MoveAssign
<1>. QED BY <1>1, <1>2, <1>3, <1>4, <1>5, <1>6, <1>7, <1>8, <1>9, <1>10, <1>11 DEF Next

\* No step lets a thread sleep that was woken.
LEMMA ApartStep ==
  ASSUME TypeOK, WaitersApart, Next
  PROVE  WaitersApart'
<1>. USE DEF TypeOK, Begins, WaitersApart
<1>u. ASSUME UNCHANGED <<asleep, woken>> PROVE WaitersApart'
  BY <1>u
<1>1. ASSUME NEW t \in Threads, NEW q \in Queues, Push(t, q) PROVE WaitersApart'
  BY <1>1, <1>u, NotifyTypes DEF Push
<1>2. ASSUME NEW t \in Threads, NEW q \in Queues, Pop(t, q) PROVE WaitersApart'
  <2>1. t \notin woken[q]
    BY <1>2 DEF Pop
  <2>2. woken' = woken /\ (asleep' = asleep \/ asleep' = [asleep EXCEPT ![q] = @ \cup {t}])
    BY <1>2, Zenon DEF Pop
  <2>3. CASE asleep' = asleep
    BY <2>2, <2>3, <1>u
  <2>4. CASE asleep' = [asleep EXCEPT ![q] = @ \cup {t}]
    BY <2>1, <2>2, <2>4
  <2>. QED BY <2>2, <2>3, <2>4
<1>3. ASSUME NEW t \in Threads, NEW q \in Queues, TryPop(t, q) \/ Clear(t, q) PROVE WaitersApart'
  BY <1>3, <1>u DEF TryPop, Clear
<1>4. ASSUME NEW t \in Threads, NEW q \in Queues, Resume(t, q) PROVE WaitersApart'
  BY <1>4 DEF Resume
<1>5. ASSUME NEW t \in Threads, NEW q \in Queues, SpuriousWakeup(t, q) PROVE WaitersApart'
  BY <1>5 DEF SpuriousWakeup
<1>6. ASSUME NEW t \in Threads, LockSecond(t) PROVE WaitersApart'
  <2>1. second[t].this \in Queues
    BY <1>6 DEF LockSecond, TwoQueues
  <2>. QED BY <1>6, <2>1, NotifyTypes DEF LockSecond
<1>7. ASSUME NEW t \in Threads, NEW call \in TwoQueueCalls, LockFirst(t, call) PROVE WaitersApart'
  BY <1>7, <1>u DEF LockFirst
<1>8. CASE Done
  BY <1>8, <1>u DEF Done, vars
<1>9. ASSUME NEW t \in Threads, NEW q \in Queues, NEW n, SwapOut(t, q, n) PROVE WaitersApart'
  BY <1>9, NotifyTypes DEF SwapOut
<1>10. ASSUME NEW t \in Threads, NEW q \in Queues, NEW sq, MoveAssign(t, q, sq) PROVE WaitersApart'
  BY <1>10, NotifyTypes DEF MoveAssign
<1>. QED BY <1>1, <1>2, <1>3, <1>4, <1>5, <1>6, <1>7, <1>8, <1>9, <1>10 DEF Next

-----------------------------------------------------------------------------
\* A queue loses its front, and no more.
LEMMA FrontGone ==
  ASSUME TypeOK, NEW q \in Queues, m_queue[q] # <<>>, TakeFront(q)
  PROVE  /\ Len(m_queue'[q]) = Len(m_queue[q]) - 1
         /\ \A i \in 1 .. Len(m_queue'[q]) : m_queue'[q][i] = m_queue[q][i + 1]
         /\ \A r \in Queues \ {q} : m_queue'[r] = m_queue[r]
<1>1. m_queue'[q] = Tail(m_queue[q]) /\ \A r \in Queues \ {q} : m_queue'[r] = m_queue[r]
  BY DEF TakeFront, TypeOK
<1>2. m_queue[q] \in Seq(Nat)
  BY DEF TypeOK
<1>. QED BY <1>1, <1>2

\* No step leaves items to threads that sleep.
LEMMA WakeupStep ==
  ASSUME TypeOK, WaitersApart, NoLostWakeup, Next
  PROVE  NoLostWakeup'
<1>. DEFINE Served(q) == asleep'[q] # {} => Len(m_queue'[q]) <= Cardinality(woken'[q])
<1>0. (\A q \in Queues : Served(q)) => NoLostWakeup'
  BY DEF NoLostWakeup
<1>u. ASSUME NEW r \in Queues, m_queue'[r] = m_queue[r], Kept(r) PROVE Served(r)
  BY <1>u, ServedStays, WaitersFinite
<1>. HIDE DEF Served
<1>1. ASSUME NEW t \in Threads, NEW q \in Queues, Push(t, q), NEW r \in Queues PROVE Served(r)
  <2>1. CASE Limit[q] > 0 /\ Len(m_queue[q]) > Limit[q]
    BY <1>1, <2>1, <1>u DEF Push, Kept
  <2>2. CASE ~(Limit[q] > 0 /\ Len(m_queue[q]) > Limit[q])
    <3>1. NotifyOne(q) /\ m_queue' = [m_queue EXCEPT ![q] = Append(@, pushed + 1)]
      BY <1>1, <2>2 DEF Push
    <3>2. CASE r = q
      <4>1. m_queue[q] \in Seq(Nat) /\ m_queue'[q] = Append(m_queue[q], pushed + 1)
        BY <3>1 DEF TypeOK
      <4>2. Len(m_queue'[q]) = Len(m_queue[q]) + 1
        BY <4>1
      <4>. QED BY <3>1, <3>2, <4>2, NotifyOneServes DEF Served
    <3>3. CASE r # q
      <4>1. m_queue'[r] = m_queue[r]
        BY <3>1, <3>3 DEF TypeOK
      <4>. QED BY <3>1, <3>3, <4>1, <1>u, NotifyTypes
    <3>. QED BY <3>2, <3>3
  <2>. QED BY <2>1, <2>2
<1>2. ASSUME NEW q \in Queues, m_queue[q] # <<>>, TakeFront(q), UNCHANGED <<asleep, woken>>,
             NEW r \in Queues
      PROVE  Served(r)
  <2>1. CASE r = q
    BY <1>2, <2>1, FrontGone, ServedStays, WaitersFinite DEF Kept, Served
  <2>2. CASE r # q
    BY <1>2, <2>2, FrontGone, <1>u DEF Kept
  <2>. QED BY <2>1, <2>2
<1>3. ASSUME NEW q \in Queues, m_queue[q] = <<>>, m_queue' = m_queue, NEW t,
             asleep' = [asleep EXCEPT ![q] = @ \cup {t}],
             woken' = woken \/ woken' = [woken EXCEPT ![q] = @ \ {t}],
             NEW r \in Queues
      PROVE  Served(r)
  <2>1. CASE r = q
    <3>1. Len(m_queue'[q]) = 0
      BY <1>3
    <3>2. woken'[q] = woken[q] \/ woken'[q] = woken[q] \ {t}
      BY <1>3 DEF TypeOK
    <3>3. Cardinality(woken'[q]) \in Nat
      BY <3>2, WaitersFinite, FS_RemoveElement, FS_CardinalityType
    <3>. QED BY <2>1, <3>1, <3>3 DEF Served
  <2>2. CASE r # q
    BY <1>3, <2>2, <1>u DEF TypeOK, Kept
  <2>. QED BY <2>1, <2>2
<1>4. ASSUME NEW t \in Threads, NEW q \in Queues, Pop(t, q), NEW r \in Queues PROVE Served(r)
  BY <1>4, <1>2, <1>3 DEF Pop
<1>5. ASSUME NEW t \in Threads, NEW q \in Queues, TryPop(t, q), NEW r \in Queues PROVE Served(r)
  BY <1>5, <1>2, <1>u DEF TryPop, Kept
<1>6. ASSUME NEW t \in Threads, NEW q \in Queues, Clear(t, q), NEW r \in Queues PROVE Served(r)
  <2>1. CASE r = q
    <3>1. Len(m_queue'[q]) = 0
      BY <1>6 DEF Clear, TypeOK
    <3>. QED BY <1>6, <2>1, <3>1, WaitersFinite DEF Clear, Served
  <2>2. CASE r # q
    BY <1>6, <2>2, <1>u DEF Clear, TypeOK, Kept
  <2>. QED BY <2>1, <2>2
<1>7. ASSUME NEW t \in Threads, NEW q \in Queues, Resume(t, q), NEW r \in Queues PROVE Served(r)
  <2>1. CASE m_queue[q] = <<>>
    BY <1>7, <2>1, <1>3 DEF Resume
  <2>2. CASE m_queue[q] # <<>>
    <3>1. t \in woken[q] /\ TakeFront(q) /\ asleep' = asleep
          /\ woken' = [woken EXCEPT ![q] = @ \ {t}]
      BY <1>7, <2>2 DEF Resume
    <3>2. CASE r = q
      <4>1. Len(m_queue'[q]) = Len(m_queue[q]) - 1
        BY <2>2, <3>1, FrontGone
      <4>2. Cardinality(woken'[q]) = Cardinality(woken[q]) - 1
        BY <3>1, WaiterCounts DEF TypeOK
      <4>. QED BY <3>1, <3>2, <4>1, <4>2, WaitersFinite DEF NoLostWakeup, Served
    <3>3. CASE r # q
      BY <2>2, <3>1, <3>3, FrontGone, <1>u DEF TypeOK, Kept
    <3>. QED BY <3>2, <3>3
  <2>. QED BY <2>1, <2>2
<1>8. ASSUME NEW t \in Threads, NEW q \in Queues, SpuriousWakeup(t, q), NEW r \in Queues
      PROVE  Served(r)
  <2>1. t \in asleep[q] /\ m_queue' = m_queue /\ asleep' = [asleep EXCEPT ![q] = @ \ {t}]
        /\ woken' = [woken EXCEPT ![q] = @ \cup {t}]
    BY <1>8 DEF SpuriousWakeup
  <2>2. CASE r = q
    <3>1. Cardinality(woken'[q]) = Cardinality(woken[q]) + 1
      BY <2>1, WaiterCounts DEF TypeOK, WaitersApart
    <3>2. Len(m_queue[q]) <= Cardinality(woken[q])
      BY <2>1 DEF NoLostWakeup
    <3>. QED BY <2>1, <2>2, <3>1, <3>2, WaitersFinite DEF Served
  <2>3. CASE r # q
    BY <2>1, <2>3, <1>u DEF TypeOK, Kept
  <2>. QED BY <2>2, <2>3
<1>9. ASSUME NEW t \in Threads, LockSecond(t), NEW r \in Queues PROVE Served(r)
  <2>. DEFINE call == second[t]
  <2>. DEFINE Q == IF call.op = "swap" THEN {call.this, call.sq} ELSE {call.this}
  <2>1. call.this \in Queues /\ call.sq \in Queues /\ NotifyAll(NonEmpty(Q))
        /\ m_queue' = [m_queue EXCEPT ![call.this] = m_queue[call.sq],
                         ![call.sq] = IF call.op = "swap" THEN m_queue[call.this] ELSE @]
    BY <1>9 DEF LockSecond, TypeOK, TwoQueues
  <2>2. CASE r \in NonEmpty(Q)
    BY <2>1, <2>2 DEF NotifyAll, Served
  <2>3. CASE r \in Q /\ r \notin NonEmpty(Q)
    <3>1. Kept(r) /\ m_queue'[r] = <<>> /\ Len(m_queue'[r]) = 0
      BY <2>1, <2>3 DEF NotifyAll, NonEmpty, Kept
    <3>. QED BY <3>1, WaitersFinite DEF Kept, Served
  <2>4. CASE r \notin Q
    <3>1. Kept(r)
      BY <2>1, <2>4 DEF NotifyAll, NonEmpty, Kept
    <3>2. m_queue'[r] = m_queue[r]
      BY <2>1, <2>4 DEF TypeOK
    <3>. QED BY <3>1, <3>2, <1>u
  <2>. QED BY <2>2, <2>3, <2>4
<1>10. ASSUME NEW t \in Threads, NEW call \in TwoQueueCalls, LockFirst(t, call), NEW r \in Queues
       PROVE  Served(r)
  BY <1>10, <1>u DEF LockFirst, Kept
<1>11. ASSUME Done, NEW r \in Queues PROVE Served(r)
  BY <1>11, <1>u DEF Done, vars, Kept
<1>12. ASSUME NEW q \in Queues, NotifyAll(NonEmpty({q})), NEW r \in Queues,
              \/ r = q
              \/ r # q /\ m_queue'[r] = m_queue[r]
              \/ r # q /\ m_queue'[r] = <<>>
       PROVE  Served(r)
  <2>1. CASE r = q /\ m_queue'[q] # <<>>
    BY <1>12, <2>1 DEF NotifyAll, NonEmpty, Served
  <2>2. CASE m_queue'[r] = <<>>
    <3>1. Kept(r) /\ Len(m_queue'[r]) = 0
      BY <1>12, <2>2 DEF NotifyAll, NonEmpty, Kept
    <3>. QED BY <3>1, WaitersFinite DEF Kept, Served
  <2>3. CASE r # q /\ m_queue'[r] = m_queue[r]
    BY <1>12, <2>3, <1>u DEF NotifyAll, NonEmpty, Kept
  <2>. QED BY <1>12, <2>1, <2>2, <2>3
<1>13. ASSUME NEW t \in Threads, NEW q \in Queues, NEW n, SwapOut(t, q, n), NEW r \in Queues
       PROVE  Served(r)
  <2>1. NotifyAll(NonEmpty({q})) /\ (r # q => m_queue'[r] = m_queue[r])
    BY <1>13 DEF SwapOut, TypeOK
  <2>. QED BY <2>1, <1>12
<1>14. ASSUME NEW t \in Threads, NEW q \in Queues, NEW sq \in Queues, MoveAssign(t, q, sq),
              NEW r \in Queues
       PROVE  Served(r)
  <2>1. NotifyAll(NonEmpty({q})) /\ (r # q => m_queue'[r] = m_queue[r] \/ m_queue'[r] = <<>>)
    BY <1>14 DEF MoveAssign, TypeOK
  <2>. QED BY <2>1, <1>12
<1>. QED
  BY <1>0, <1>1, <1>4, <1>5, <1>6, <1>7, <1>8, <1>9, <1>10, <1>11, <1>13, <1>14 DEF Next

-----------------------------------------------------------------------------
\* No step takes items out of their order.
LEMMA OrderStep ==
  ASSUME TypeOK, InOrder, Next
  PROVE  InOrder'
<1>. DEFINE Sorted(q) ==
       \A i \in 1 .. Len(m_queue'[q]) :
         /\ m_queue'[q][i] <= pushed'
         /\ \A j \in 1 .. i - 1 : m_queue'[q][j] < m_queue'[q][i]
<1>0. (\A q \in Queues : Sorted(q)) => InOrder'
  BY DEF InOrder
<1>u. ASSUME NEW r \in Queues, NEW q \in Queues, m_queue'[r] = m_queue[q], pushed' = pushed
      PROVE  Sorted(r)
  BY <1>u DEF InOrder
<1>e. ASSUME NEW r \in Queues, m_queue'[r] = <<>> PROVE Sorted(r)
  <2>1. Len(m_queue'[r]) = 0
    BY <1>e
  <2>. QED BY <2>1
<1>. HIDE DEF Sorted
<1>1. ASSUME NEW t \in Threads, NEW q \in Queues, Push(t, q), NEW r \in Queues PROVE Sorted(r)
  <2>1. CASE Limit[q] > 0 /\ Len(m_queue[q]) > Limit[q]
    BY <1>1, <2>1, <1>u DEF Push
  <2>2. CASE ~(Limit[q] > 0 /\ Len(m_queue[q]) > Limit[q])
    <3>1. m_queue' = [m_queue EXCEPT ![q] = Append(@, pushed + 1)] /\ pushed' = pushed + 1
      BY <1>1, <2>2 DEF Push
    <3>t. m_queue[r] \in Seq(Nat) /\ pushed \in Nat
      BY DEF TypeOK
    <3>2. CASE r = q
      <4>1. m_queue'[r] = Append(m_queue[r], pushed + 1)
        BY <3>1, <3>2 DEF TypeOK
      <4>2. /\ Len(m_queue'[r]) = Len(m_queue[r]) + 1 /\ Len(m_queue[r]) \in Nat
            /\ m_queue'[r][Len(m_queue[r]) + 1] = pushed + 1
            /\ \A i \in 1 .. Len(m_queue[r]) : m_queue'[r][i] = m_queue[r][i]
        BY <4>1, <3>t
      <4>3. ASSUME NEW i \in 1 .. Len(m_queue'[r])
            PROVE  /\ m_queue'[r][i] <= pushed'
                   /\ \A j \in 1 .. i - 1 : m_queue'[r][j] < m_queue'[r][i]
        <5>1. \A j \in 1 .. Len(m_queue[r]) : m_queue[r][j] \in Nat /\ m_queue[r][j] <= pushed
          BY <3>t DEF InOrder
        <5>2. CASE i = Len(m_queue[r]) + 1
          BY <5>1, <5>2, <4>2, <3>1, <3>t
        <5>3. CASE i # Len(m_queue[r]) + 1
          <6>1. i \in 1 .. Len(m_queue[r])
            BY <5>3, <4>2
          <6>2. \A j \in 1 .. i - 1 : j \in 1 .. Len(m_queue[r]) /\ m_queue[r][j] < m_queue[r][i]
            BY <6>1, <4>2 DEF InOrder
          <6>. QED BY <5>1, <6>1, <6>2, <4>2, <3>1, <3>t
        <5>. QED BY <5>2, <5>3
      <4>. QED BY <4>3 DEF Sorted
    <3>3. CASE r # q
      <4>1. m_queue'[r] = m_queue[r]
        BY <3>1, <3>3 DEF TypeOK
      <4>2. \A i \in 1 .. Len(m_queue[r]) : m_queue[r][i] \in Nat
        BY <3>t
      <4>. QED BY <3>1, <3>t, <4>1, <4>2 DEF InOrder, Sorted
    <3>. QED BY <3>2, <3>3
  <2>. QED BY <2>1, <2>2
<1>2. ASSUME NEW q \in Queues, m_queue[q] # <<>>, TakeFront(q), pushed' = pushed, NEW r \in Queues
      PROVE  Sorted(r)
  <2>1. CASE r = q
    <3>1. m_queue[q] \in Seq(Nat) /\ Len(m_queue[q]) \in Nat
      BY DEF TypeOK
    <3>2. \A i \in 1 .. Len(m_queue'[q]) :
            i + 1 \in 1 .. Len(m_queue[q]) /\ m_queue'[q][i] = m_queue[q][i + 1]
      BY <1>2, <3>1, FrontGone
    <3>3. ASSUME NEW i \in 1 .. Len(m_queue'[q])
          PROVE  /\ m_queue'[q][i] <= pushed'
                 /\ \A j \in 1 .. i - 1 : m_queue'[q][j] < m_queue'[q][i]
      <4>1. Len(m_queue'[q]) \in Nat
        BY <1>2, <3>1, FrontGone
      <4>2. m_queue[q][i + 1] <= pushed
            /\ \A j \in 1 .. (i + 1) - 1 : m_queue[q][j] < m_queue[q][i + 1]
        BY <3>2 DEF InOrder
      <4>3. ASSUME NEW j \in 1 .. i - 1 PROVE m_queue'[q][j] < m_queue'[q][i]
        <5>1. j \in 1 .. Len(m_queue'[q]) /\ j + 1 \in 1 .. (i + 1) - 1
          BY <4>1
        <5>. QED BY <5>1, <4>2, <3>2
      <4>. QED BY <1>2, <3>2, <4>2, <4>3
    <3>. QED BY <2>1, <3>3 DEF Sorted
  <2>2. CASE r # q
    BY <1>2, <2>2, FrontGone, <1>u
  <2>. QED BY <2>1, <2>2
<1>3. ASSUME NEW t \in Threads, NEW q \in Queues, Pop(t, q) \/ TryPop(t, q) \/ Resume(t, q),
             NEW r \in Queues
      PROVE  Sorted(r)
  <2>1. CASE m_queue[q] = <<>>
    BY <1>3, <2>1, <1>u DEF Pop, TryPop, Resume
  <2>2. CASE m_queue[q] # <<>>
    BY <1>3, <2>2, <1>2 DEF Pop, TryPop, Resume
  <2>. QED BY <2>1, <2>2
<1>4. ASSUME NEW t \in Threads, NEW q \in Queues, Clear(t, q), NEW r \in Queues PROVE Sorted(r)
  <2>1. CASE r = q
    BY <1>4, <2>1, <1>e DEF Clear, TypeOK
  <2>2. CASE r # q
    BY <1>4, <2>2, <1>u DEF Clear, TypeOK
  <2>. QED BY <2>1, <2>2
<1>5. ASSUME NEW t \in Threads, NEW q \in Queues, SpuriousWakeup(t, q), NEW r \in Queues
      PROVE  Sorted(r)
  BY <1>5, <1>u DEF SpuriousWakeup
<1>6. ASSUME NEW t \in Threads, LockSecond(t), NEW r \in Queues PROVE Sorted(r)
  <2>. DEFINE call == second[t]
  <2>1. call.this \in Queues /\ call.sq \in Queues /\ pushed' = pushed
        /\ m_queue' = [m_queue EXCEPT ![call.this] = m_queue[call.sq],
                         ![call.sq] = IF call.op = "swap" THEN m_queue[call.this] ELSE @]
    BY <1>6 DEF LockSecond, TypeOK, TwoQueues
  <2>2. \E q \in Queues : m_queue'[r] = m_queue[q]
    BY <2>1 DEF TypeOK
  <2>. QED BY <2>1, <2>2, <1>u
<1>7. ASSUME NEW t \in Threads, NEW call \in TwoQueueCalls, LockFirst(t, call), NEW r \in Queues
      PROVE  Sorted(r)
  BY <1>7, <1>u DEF LockFirst
<1>8. ASSUME Done, NEW r \in Queues PROVE Sorted(r)
  BY <1>8, <1>u DEF Done, vars
<1>9. ASSUME NEW t \in Threads, NEW q \in Queues, NEW n \in 0 .. MaxOut, SwapOut(t, q, n),
             NEW r \in Queues
      PROVE  Sorted(r)
  <2>1. n \in Nat /\ pushed \in Nat /\ pushed' = pushed + n
    BY <1>9, SafeQueueAssumption DEF SwapOut, SafeQueueAssumption, TypeOK
  <2>2. CASE r = q
    <3>1. m_queue'[r] = [i \in 1 .. n |-> pushed + i]
      BY <1>9, <2>2 DEF SwapOut, TypeOK
    <3>2. Len(m_queue'[r]) = n
      BY <2>1, <3>1
    <3>. QED BY <2>1, <3>1, <3>2 DEF Sorted
  <2>3. CASE r # q
    <3>1. m_queue'[r] = m_queue[r] /\ m_queue[r] \in Seq(Nat)
      BY <1>9, <2>3 DEF SwapOut, TypeOK
    <3>2. \A i \in 1 .. Len(m_queue[r]) : m_queue[r][i] \in Nat
      BY <3>1
    <3>. QED BY <2>1, <3>1, <3>2 DEF InOrder, Sorted
  <2>. QED BY <2>2, <2>3
<1>10. ASSUME NEW t \in Threads, NEW q \in Queues, NEW sq \in Queues, MoveAssign(t, q, sq),
              NEW r \in Queues
       PROVE  Sorted(r)
  <2>1. m_queue'[r] = <<>> \/ \E p \in Queues : m_queue'[r] = m_queue[p]
    BY <1>10 DEF MoveAssign, TypeOK
  <2>2. pushed' = pushed
    BY <1>10 DEF MoveAssign
  <2>. QED BY <2>1, <2>2, <1>u, <1>e
<1>. QED BY <1>0, <1>1, <1>3, <1>4, <1>5, <1>6, <1>7, <1>8, <1>9, <1>10 DEF Next

-----------------------------------------------------------------------------
\* A mutex taken for two queues is kept until both were locked.
LEMMA FirstStep ==
  ASSUME TypeOK, FirstHeld, Next
  PROVE  FirstHeld'
<1>. USE DEF TypeOK, FirstHeld
<1>u. ASSUME UNCHANGED <<m_mutex, second>> PROVE FirstHeld'
  BY <1>u
<1>1. ASSUME NEW t \in Threads, NEW q \in Queues,
             \/ Push(t, q) \/ Pop(t, q) \/ TryPop(t, q) \/ Clear(t, q)
             \/ Resume(t, q) \/ SpuriousWakeup(t, q)
      PROVE  FirstHeld'
  BY <1>1, <1>u DEF Push, Pop, TryPop, Clear, Resume, SpuriousWakeup
<1>2. ASSUME NEW t \in Threads, NEW call \in TwoQueueCalls, LockFirst(t, call)
      PROVE  FirstHeld'
  <2>1. call.this \in Queues
    BY DEF TwoQueueCalls, TwoQueues
  <2>2. /\ m_mutex' = [m_mutex EXCEPT ![call.this] = m_mutex[call.this] \cup {t}]
        /\ second' = [second EXCEPT ![t] = call]
    BY <1>2 DEF LockFirst
  <2>3. \A q \in Queues : m_mutex[q] \subseteq m_mutex'[q]
    BY <2>1, <2>2
  <2>4. second'[t] = call /\ t \in m_mutex'[call.this]
    BY <2>1, <2>2
  <2>5. ASSUME NEW u \in Threads, u # t, second[u] # NoCall
        PROVE  second'[u] = second[u] /\ u \in m_mutex'[second[u].this]
    <3>1. second[u].this \in Queues
      BY <2>5 DEF TwoQueues
    <3>. QED BY <2>2, <2>3, <2>5, <3>1
  <2>. QED BY <2>2, <2>4, <2>5
<1>3. ASSUME NEW t \in Threads, LockSecond(t) PROVE FirstHeld'
  <2>1. second[t].this \in Queues
    BY <1>3 DEF LockSecond, TwoQueues
  <2>2. /\ m_mutex' = [m_mutex EXCEPT ![second[t].this] = m_mutex[second[t].this] \ {t}]
        /\ second' = [second EXCEPT ![t] = NoCall]
    BY <1>3 DEF LockSecond
  <2>3. second'[t] = NoCall
    BY <2>2
  <2>4. ASSUME NEW u \in Threads, u # t, second[u] # NoCall
        PROVE  second'[u] = second[u] /\ u \in m_mutex'[second[u].this]
    <3>1. second[u].this \in Queues
      BY <2>4 DEF TwoQueues
    <3>. QED BY <2>1, <2>2, <2>4, <3>1
  <2>. QED BY <2>2, <2>3, <2>4
<1>4. CASE Done
  BY <1>4, <1>u DEF Done, vars
<1>5. ASSUME NEW t \in Threads, NEW q \in Queues, NEW n, SwapOut(t, q, n) PROVE FirstHeld'
  BY <1>5, <1>u DEF SwapOut
<1>6. ASSUME NEW t \in Threads, NEW q \in Queues, NEW sq, MoveAssign(t, q, sq) PROVE FirstHeld'
  BY <1>6, <1>u DEF MoveAssign
<1>. QED BY <1>1, <1>2, <1>3, <1>4, <1>5, <1>6 DEF Next

\* Who changes a queue found its mutex free, gives up its own, or moves the
\* queue away.
LEMMA HeldStep ==
  ASSUME TypeOK, FirstHeld, Next, NEW q \in Queues, m_mutex[q] # {}, m_mutex'[q] # {}
  PROVE  m_queue'[q] = m_queue[q] \/ MovedAway(q)
<1>. USE DEF TypeOK
<1>1. ASSUME NEW t \in Threads, NEW r \in Queues,
             Push(t, r) \/ Pop(t, r) \/ TryPop(t, r) \/ Clear(t, r) \/ Resume(t, r)
      PROVE  m_queue'[q] = m_queue[q]
  <2>1. r # q
    BY <1>1 DEF Push, Pop, TryPop, Clear, Resume, Free
  <2>2. m_queue' = m_queue \/ \E s : m_queue' = [m_queue EXCEPT ![r] = s]
    BY <1>1 DEF Push, Pop, TryPop, Clear, Resume, TakeFront
  <2>. QED BY <2>1, <2>2
<1>2. ASSUME NEW t \in Threads, NEW r \in Queues, SpuriousWakeup(t, r)
      PROVE  m_queue'[q] = m_queue[q]
  BY <1>2 DEF SpuriousWakeup
<1>3. ASSUME NEW t \in Threads, NEW call \in TwoQueueCalls, LockFirst(t, call)
      PROVE  m_queue'[q] = m_queue[q]
  BY <1>3 DEF LockFirst
<1>4. ASSUME NEW t \in Threads, LockSecond(t)
      PROVE  m_queue'[q] = m_queue[q]
  <2>. DEFINE this == second[t].this
              sq == second[t].sq
  <2>1. this \in Queues /\ sq \in Queues /\ t \in m_mutex[this]
    BY <1>4 DEF LockSecond, TwoQueues, FirstHeld
  <2>2. m_mutex[sq] = {} /\ m_mutex' = [m_mutex EXCEPT ![this] = m_mutex[this] \ {t}]
    BY <1>4 DEF LockSecond, Free
  <2>3. \E a, b : m_queue' = [m_queue EXCEPT ![this] = a, ![sq] = b]
    BY <1>4 DEF LockSecond
  <2>. HIDE DEF this, sq
  <2>4. m_mutex[this] = {t}
    BY <2>1
  <2>5. q # this
    BY <2>1, <2>2, <2>4
  <2>6. q # sq
    BY <2>2
  <2>. QED BY <2>1, <2>3, <2>5, <2>6
<1>5. CASE Done
  BY <1>5 DEF Done, vars
<1>6. ASSUME NEW t \in Threads, NEW r \in Queues, NEW n, SwapOut(t, r, n)
      PROVE  m_queue'[q] = m_queue[q]
  <2>1. r # q
    BY <1>6 DEF SwapOut, Free
  <2>. QED BY <1>6, <2>1 DEF SwapOut
<1>7. ASSUME NEW t \in Threads, NEW r \in Queues, NEW sq \in Queues, MoveAssign(t, r, sq)
      PROVE  m_queue'[q] = m_queue[q] \/ MovedAway(q)
  <2>1. r # q
    BY <1>7 DEF MoveAssign, Free
  <2>2. CASE sq = q
    BY <1>7, <2>1, <2>2 DEF MoveAssign, MovedAway
  <2>3. CASE sq # q
    BY <1>7, <2>1, <2>3 DEF MoveAssign
  <2>. QED BY <2>2, <2>3
<1>. QED BY <1>1, <1>2, <1>3, <1>4, <1>5, <1>6, <1>7 DEF Next

-----------------------------------------------------------------------------
\* The invariant is inductive.
THEOREM QueueInductive == Spec => []IInv
<1>1. Init => IInv
  <2>. SUFFICES ASSUME Init PROVE IInv
    OBVIOUS
  <2>1. TypeOK
    BY DEF Init, TypeOK
  <2>2. WaitersApart /\ FirstHeld /\ NoLostWakeup /\ InOrder
    BY DEF Init, WaitersApart, FirstHeld, NoLostWakeup, InOrder
  <2>. QED BY <2>1, <2>2 DEF IInv
<1>2. IInv /\ [Next]_vars => IInv'
  <2>. SUFFICES ASSUME IInv, [Next]_vars PROVE IInv'
    OBVIOUS
  <2>1. CASE Next
    BY <2>1, TypeStep, ApartStep, FirstStep, WakeupStep, OrderStep DEF IInv
  <2>2. CASE UNCHANGED vars
    BY <2>2 DEF vars, IInv, TypeOK, WaitersApart, FirstHeld, NoLostWakeup, InOrder
  <2>. QED BY <2>1, <2>2
<1>. QED BY <1>1, <1>2, PTL DEF Spec

\* No item waits while every thread that pops its queue sleeps: as many were
\* woken as there are items, for any threads, queues and limits.
THEOREM WakeupsSuffice == Spec => []NoLostWakeup
BY QueueInductive, PTL DEF IInv

\* Items stay in the order in which they came in, through swaps, assignments
\* and moves.
THEOREM QueuesInOrder == Spec => []InOrder
BY QueueInductive, PTL DEF IInv

\* Between the two locks of a swap or an assignment the first queue keeps its
\* contents, or a move assignment takes them away whole: nothing else comes
\* between.
THEOREM HeldContentsKept == Spec => HeldContents
<1>1. IInv /\ [Next]_vars =>
        [\A q \in Queues : m_mutex[q] # {} /\ m_mutex'[q] # {} =>
           m_queue'[q] = m_queue[q] \/ MovedAway(q)]_vars
  BY HeldStep DEF IInv
<1>. QED BY <1>1, QueueInductive, PTL DEF Spec, HeldContents
=============================================================================

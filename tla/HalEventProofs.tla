--------------------------- MODULE HalEventProofs ---------------------------
(***************************************************************************)
(* An event of the hardware abstraction layer never leaves a thread asleep *)
(* beside a signal that nobody is coming for, for any number of threads    *)
(* that wait: the flag is only found set with sleepers when the thread that*)
(* set() released has not had the mutex yet.                               *)
(***************************************************************************)
EXTENDS HalEvent, TLAPS

EventInv == EventTypeOK /\ NoSleeperMissed

LEMMA EventInitInv == EventInit => EventInv
BY DEF EventInit, EventInv, EventTypeOK, NoSleeperMissed, Results

\* set() raises the flag on POSIX only beside a thread it releases, or with
\* nobody asleep; on Win32 the signal goes to the sleeper itself.
LEMMA SetKeeps ==
  ASSUME EventInv, SetEvent, PlatformFixed
  PROVE  EventInv'
<1> USE DEF EventInv, EventTypeOK, NoSleeperMissed, PlatformFixed, posix, Results
<1>1. CASE posix /\ (signalled \/ Asleep = {})
  BY <1>1 DEF SetEvent, PosixSet, Asleep, Woken
<1>2. CASE posix /\ ~signalled /\ Asleep # {}
  <2>1. PICK w \in Asleep : Moves(w, "woken")
    BY <1>2 DEF SetEvent, PosixSet
  <2>2. w \in Woken'
    BY <2>1 DEF Moves, Asleep, Woken
  <2>. QED
    BY <1>2, <2>1, <2>2 DEF SetEvent, PosixSet, Moves, Asleep
<1>3. CASE ~posix /\ Asleep = {}
  BY <1>3 DEF SetEvent, WinSet, Asleep
<1>4. CASE ~posix /\ Asleep # {}
  BY <1>4 DEF SetEvent, WinSet, Moves, Asleep
<1>. QED
  BY <1>1, <1>2, <1>3, <1>4

\* A wait that begins or resumes takes the signal; the other steps of wait()
\* add no sleeper and take no thread from its way to the mutex.
LEMMA WaitKeeps ==
  ASSUME EventInv, PlatformFixed, NEW w \in Waiters,
         EnterWait(w) \/ EventStep(w) \/ LeaveWait(w)
  PROVE  EventInv'
<1> USE DEF EventInv, EventTypeOK, NoSleeperMissed, PlatformFixed, posix, Results
<1>1. CASE EnterWait(w)
  BY <1>1 DEF EnterWait, Moves
<1>2. CASE Reacquire(w)
  BY <1>2 DEF Reacquire, Moves
<1>3. CASE SpuriousWake(w)
  <2>1. w \in Woken'
    BY <1>3 DEF SpuriousWake, Moves, Woken
  <2>. QED
    BY <1>3, <2>1 DEF SpuriousWake, Moves
<1>4. CASE TimeOut(w) \/ LeaveWait(w)
  <2>1. Asleep' \subseteq Asleep /\ Woken \subseteq Woken'
    BY <1>4 DEF TimeOut, LeaveWait, Moves, Asleep, Woken
  <2>. QED
    BY <1>4, <2>1 DEF TimeOut, LeaveWait, Moves
<1>. QED
  BY <1>1, <1>2, <1>3, <1>4 DEF EventStep

LEMMA EventStepInv == EventInv /\ [EventNext]_<<os, kind, eventVars>> => EventInv'
<1> SUFFICES ASSUME EventInv, [EventNext]_<<os, kind, eventVars>>
             PROVE  EventInv'
  OBVIOUS
<1>1. CASE EventNext
  BY <1>1, SetKeeps, WaitKeeps DEF EventNext
<1>2. CASE UNCHANGED <<os, kind, eventVars>>
  BY <1>2 DEF eventVars, EventInv, EventTypeOK, NoSleeperMissed, posix, Asleep, Woken
<1>. QED
  BY <1>1, <1>2

(***************************************************************************)
(* Event of hal/event.h, whatever its callers do: while it is signalled    *)
(* and a thread sleeps in wait(), on POSIX one that was released is on its *)
(* way to the signal, and on Win32 there is no such state.                 *)
(***************************************************************************)
THEOREM SignalIsNeverMissed == EventSpec => []NoSleeperMissed
<1>1. EventSpec => []EventInv
  BY EventInitInv, EventStepInv, PTL DEF EventSpec
<1>. QED
  BY <1>1, PTL DEF EventInv
=============================================================================

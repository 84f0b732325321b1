------------------------------ MODULE HalEvent ------------------------------
(***************************************************************************)
(* rp::hal::Event (hal/event.h), auto-reset and not signalled at first,    *)
(* as the driver creates it.  On Linux and macOS it is a flag under a      *)
(* mutex and a condition variable; what runs under the mutex is one step,  *)
(* and a thread that the condition variable released is `woken' until it   *)
(* has the mutex again.  On Win32 it is an event of the kernel.            *)
(*                                                                         *)
(* wait() takes one of the results ok, timeout and aborted: the last is    *)
(* the assertion of a debug build.                                         *)
(***************************************************************************)
EXTENDS Platform

CONSTANT Waiters   \* the threads that may call wait()

VARIABLES
  signalled,  \* _is_signalled, or the state of the kernel's event
  waiter      \* where each thread is: out, asleep, woken or a result

eventVars == <<signalled, waiter>>

Results == {"ok", "timeout", "aborted"}
Asleep == {w \in Waiters : waiter[w] = "asleep"}
Woken == {w \in Waiters : waiter[w] = "woken"}

EventTypeOK ==
  /\ signalled \in BOOLEAN
  /\ waiter \in [Waiters -> {"out", "asleep", "woken"} \cup Results]

EventInit ==
  /\ signalled = FALSE
  /\ waiter = [w \in Waiters |-> "out"]

Moves(w, place) == waiter' = [waiter EXCEPT ![w] = place]

\* (mutant) the flag is raised and nobody told
PosixSet_Silent == signalled' = TRUE /\ UNCHANGED waiter

\* set(): pthread_cond_signal only when the flag was clear; it releases one
\* of the sleepers, if there is one, and is forgotten otherwise.
PosixSet ==
  /\ signalled' = TRUE
  /\ IF signalled \/ Asleep = {} THEN UNCHANGED waiter
     ELSE \E w \in Asleep : Moves(w, "woken")

\* set(): SetEvent hands the signal to a sleeper or keeps it.
WinSet ==
  IF Asleep = {} THEN signalled' = TRUE /\ UNCHANGED waiter
  ELSE /\ signalled' = FALSE
       /\ \E w \in Asleep : Moves(w, "ok")

SetEvent == IF posix THEN PosixSet ELSE WinSet

\* wait() up to the point where the thread sleeps, or all of it when the
\* event is signalled.
EnterWait(w) ==
  /\ waiter[w] = "out"
  /\ signalled' = FALSE
  /\ Moves(w, IF signalled THEN "ok" ELSE "asleep")

\* pthread_cond_wait may return without a signal.
SpuriousWake(w) ==
  /\ posix /\ waiter[w] = "asleep"
  /\ Moves(w, "woken")
  /\ UNCHANGED signalled

\* The rest of wait() under the mutex.  The flag is not tested again: it is
\* asserted, and a release build (NDEBUG) takes it for granted.
Reacquire(w) ==
  /\ waiter[w] = "woken"
  /\ signalled' = FALSE
  /\ \/ Moves(w, "ok")
     \/ ~signalled /\ Moves(w, "aborted")

TimeOut(w) ==
  /\ waiter[w] = "asleep"
  /\ Moves(w, "timeout")
  /\ UNCHANGED signalled

\* The caller goes on with the result.
LeaveWait(w) ==
  /\ waiter[w] \in Results
  /\ Moves(w, "out")
  /\ UNCHANGED signalled

EventStep(w) == SpuriousWake(w) \/ Reacquire(w) \/ TimeOut(w)

EventNext ==
  /\ \/ SetEvent
     \/ \E w \in Waiters : EnterWait(w) \/ EventStep(w) \/ LeaveWait(w)
  /\ PlatformFixed

EventSpec == PlatformInit /\ EventInit /\ [][EventNext]_<<os, kind, eventVars>>

(***************************************************************************)
(* The event of set() in hal/event.h is never lost on a sleeping thread:   *)
(* while it is signalled and a thread sleeps, one that was released is on  *)
(* its way to take the signal; on Win32 nobody sleeps on a signalled event.*)
(***************************************************************************)
NoSleeperMissed ==
  signalled /\ Asleep # {} => posix /\ Woken # {}
=============================================================================

---------------------------- MODULE ByteChannel ----------------------------
(***************************************************************************)
(* What the driver relies on when it reads from its channel: the bytes     *)
(* come in order, one reader at a time waits for a number of them, and     *)
(* takes from the front when the wait was granted, which a channel over a  *)
(* serial port does once there are as many as were asked for and one over  *)
(* TCP with the first.                                                     *)
(***************************************************************************)
EXTENDS Naturals, Sequences

CONSTANTS Readers, Bytes, Needs

VARIABLES
  whole,    \* TRUE for a channel that grants a wait only in full
  queue,    \* the bytes received and not taken
  gone,     \* the other end is gone
  reading   \* per reader: idle, waiting or ready, and how much it asked for

vars == <<whole, queue, gone, reading>>

Idle == [at |-> "idle", need |-> 0]
Phase(r, at, need) == reading' = [reading EXCEPT ![r] = [at |-> at, need |-> need]]

Init ==
  /\ whole \in BOOLEAN /\ queue = <<>> /\ gone = FALSE
  /\ reading = [r \in Readers |-> Idle]

Arrive ==
  /\ \E b \in Bytes : queue' = Append(queue, b)
  /\ UNCHANGED <<whole, gone, reading>>

Leave == ~gone /\ gone' = TRUE /\ UNCHANGED <<whole, queue, reading>>

Enough(need) == IF whole THEN Len(queue) >= need ELSE queue # <<>> \/ gone

\* A wait for what is there already is granted at once.
Wait(r) ==
  /\ reading = [x \in Readers |-> Idle]
  /\ \E need \in Needs :
       \/ Phase(r, "waiting", need)
       \/ Enough(need) /\ Phase(r, "ready", need)
  /\ UNCHANGED <<whole, queue, gone>>

Grant(r) ==
  /\ reading[r].at = "waiting" /\ Enough(reading[r].need)
  /\ Phase(r, "ready", reading[r].need)
  /\ UNCHANGED <<whole, queue, gone>>

GiveUp(r) ==
  /\ reading[r].at = "waiting"
  /\ Phase(r, "idle", 0)
  /\ UNCHANGED <<whole, queue, gone>>

\* All that was asked for; what is there of it over TCP, and anything down
\* to nothing once the device is gone.
Take(r) ==
  /\ reading[r].at = "ready"
  /\ \E n \in 0 .. reading[r].need :
       /\ n <= Len(queue)
       /\ n = reading[r].need \/ gone \/ (~whole /\ n > 0)
       /\ queue' = SubSeq(queue, n + 1, Len(queue))
  /\ Phase(r, "idle", 0)
  /\ UNCHANGED <<whole, gone>>

\* A flush, a purge or a new connection: only while nobody counts on the
\* bytes that are there.
Drop ==
  /\ reading = [r \in Readers |-> Idle]
  /\ queue' = <<>>
  /\ UNCHANGED <<whole, gone, reading>>

Next == Arrive \/ Leave \/ Drop \/ \E r \in Readers : Wait(r) \/ Grant(r) \/ GiveUp(r) \/ Take(r)

Spec == Init /\ [][Next]_vars
=============================================================================

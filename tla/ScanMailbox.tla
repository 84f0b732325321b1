---------------------------- MODULE ScanMailbox ----------------------------
(***************************************************************************)
(* What the driver's scan cache promises, without threads, lock or event:  *)
(* a box that holds at most one complete scan.  A new scan replaces one    *)
(* nobody took; a scan is taken at most once, up to the taker's capacity.  *)
(***************************************************************************)
EXTENDS Naturals, Sequences

CONSTANTS Node, Capacity

VARIABLES box, taken

Scan == {s \in Seq(Node) : /\ s # <<>> /\ s[1].sync
                           /\ \A i \in 2 .. Len(s) : ~s[i].sync}

Init == box = <<>> /\ taken = <<>>

Put == /\ box' \in Scan
       /\ UNCHANGED taken

Take == /\ box # <<>>
        /\ taken' = SubSeq(box, 1, IF Capacity < Len(box) THEN Capacity ELSE Len(box))
        /\ box' = <<>>

\* The taker lets go of what it took.
Forget == taken' = <<>> /\ UNCHANGED box

\* The driver is replaced by a new one.
Renew == box' = <<>> /\ UNCHANGED taken

Next == Put \/ Take \/ Forget \/ Renew

Spec == Init /\ [][Next]_<<box, taken>>
=============================================================================

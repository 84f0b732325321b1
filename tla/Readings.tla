------------------------------ MODULE Readings ------------------------------
(***************************************************************************)
(* From the nodes of a grabbed scan to the readings on the screen:         *)
(* ascendScanData_ of rplidar_driver.cpp, which LidarDeviceWrapper::       *)
(* readOnce calls, and the filter and the sorts of the reader thread in    *)
(* lidarcontainer.cpp.                                                     *)
(*                                                                         *)
(* Angles are whole degrees and distances whole millimetres, where the     *)
(* code has 1/16384 of a right angle and quarters of a millimetre; a full  *)
(* turn is 0 again in the 16 bits of a node's angle.  Sorting leaves equal *)
(* readings in any order.                                                  *)
(***************************************************************************)
EXTENDS Integers, SequencesExt

FullTurn == 360
Nodes == [angle : 0 .. FullTurn - 1, dist : Nat]
Values == [angle : Int, dist : Nat]
MinDist == 200
MaxDist == 600
HalfFOV == 30

(***************************************************************************)
(* std::sort, over those of the nodes that are kept: the orders in which   *)
(* none comes after one that it precedes.                                  *)
(***************************************************************************)
Orders(nodes, kept, Precedes(_, _)) ==
  {order \in Bijection(1 .. Cardinality(kept), kept) :
     \A i, j \in DOMAIN order : i < j => ~Precedes(nodes[order[j]], nodes[order[i]])}

Arranged(nodes, order) == [i \in DOMAIN order |-> nodes[order[i]]]

Sorted(nodes, kept, Precedes(_, _)) ==
  {Arranged(nodes, order) : order \in Orders(nodes, kept, Precedes)}

AngleLess(a, b) == a.angle < b.angle
ByAngle(nodes, kept) == Sorted(nodes, kept, AngleLess)

Farther(a, b) == a.dist > b.dist
ByDistance(nodes, kept) == Sorted(nodes, kept, Farther)

(***************************************************************************)
(* ascendScanData_.  Nodes with distance 0 were not measured: they get the *)
(* angles between or beyond those that were, and all are put in the order  *)
(* of their angles.  A scan without any measured node is left as it is.    *)
(***************************************************************************)
Measured(nodes) == {i \in DOMAIN nodes : nodes[i].dist # 0}
Step(nodes) == FullTurn \div Len(nodes)
Turned(node, angle) == [node EXCEPT !.angle = angle % FullTurn]

TuneHead(nodes) ==
  LET first == Min(Measured(nodes))
  IN  [i \in DOMAIN nodes |->
         IF i < first THEN Turned(nodes[i], Max({0, nodes[first].angle - (first - i) * Step(nodes)}))
         ELSE nodes[i]]

TuneTail(nodes) ==
  LET last == Max(Measured(nodes))
  IN  [i \in DOMAIN nodes |->
         IF i > last THEN Turned(nodes[i], nodes[last].angle + (i - last) * Step(nodes))
         ELSE nodes[i]]

\* (mutant) measured nodes too get the angle of their place
FillInvalid_All(nodes) ==
  [i \in DOMAIN nodes |->
     IF i > 1 THEN Turned(nodes[i], nodes[1].angle + (i - 1) * Step(nodes)) ELSE nodes[i]]

FillInvalid(nodes) ==
  [i \in DOMAIN nodes |->
     IF i > 1 /\ nodes[i].dist = 0 THEN Turned(nodes[i], nodes[1].angle + (i - 1) * Step(nodes))
     ELSE nodes[i]]

Ascend(nodes) ==
  IF Measured(nodes) = {} THEN {nodes}
  ELSE ByAngle(FillInvalid(TuneTail(TuneHead(nodes))), DOMAIN nodes)

(***************************************************************************)
(* The reader thread: what is too near, too far or to the side goes, the   *)
(* angles left of the middle get negative, and the farthest comes first.   *)
(***************************************************************************)
CanSee(v) ==
  /\ v.dist > MinDist /\ v.dist < MaxDist
  /\ v.angle < HalfFOV \/ v.angle > FullTurn - HalfFOV

LeftNegative(v) == IF v.angle >= 270 THEN [v EXCEPT !.angle = @ - FullTurn] ELSE v

Visible(readings) == {i \in DOMAIN readings : CanSee(readings[i])}
LeftSigned(readings) == [i \in DOMAIN readings |-> LeftNegative(readings[i])]

Shown(readings) ==
  UNION {ByDistance(left, DOMAIN left) : left \in ByAngle(LeftSigned(readings), Visible(readings))}

-----------------------------------------------------------------------------
(***************************************************************************)
(* What the screen is to show of a scan, whatever the way there: each node *)
(* that was measured in view, once, at its own angle to the left or right  *)
(* of the middle, the farthest first so that the near ones are drawn over  *)
(* it.                                                                     *)
(***************************************************************************)
Signed(angle) == IF angle > 180 THEN angle - FullTurn ELSE angle
InView(nodes) ==
  {i \in DOMAIN nodes : /\ nodes[i].dist \in MinDist + 1 .. MaxDist - 1
                        /\ Signed(nodes[i].angle) \in 1 - HalfFOV .. HalfFOV - 1}
Reading(node) == [node EXCEPT !.angle = Signed(@)]

ShowsScan(shown, nodes) ==
  /\ \E place \in [DOMAIN shown -> InView(nodes)] :
       /\ {place[i] : i \in DOMAIN shown} = InView(nodes)
       /\ Len(shown) = Cardinality(InView(nodes))
       /\ \A i \in DOMAIN shown : shown[i] = Reading(nodes[place[i]])
  /\ \A i, j \in DOMAIN shown : i < j => shown[i].dist >= shown[j].dist

\* The circle in n pieces: the nodes have one in each piece that the scan has
\* one in.
Piece(node, n) == (node.angle * n) \div FullTurn
DividesTheCircle(nodes, scan, n) ==
  \A i \in DOMAIN scan : \E j \in DOMAIN nodes : Piece(nodes[j], n) = Piece(scan[i], n)
=============================================================================

---------------------------- MODULE MCLidarReader ----------------------------
(***************************************************************************)
(* LidarReader for TLC: the rates the wrapper tries when none is given, a  *)
(* health check every few reads, and scans of up to four nodes, by which a *)
(* full turn divides.                                                      *)
(***************************************************************************)
EXTENDS LidarReader

DefaultBauds == <<115200, 256000>>

Node(angle, dist) == [angle |-> angle, dist |-> dist]

Distances == {<<0, 0, 0>>, <<300, 0, 300>>, <<0, 300, 300>>, <<300, 300, 0>>}

\* Nodes measured and not, at the head, in the middle and at the tail; angles
\* out of order and past a full turn; the borders of the view.
MCScans ==
  { <<Node(350, d[1]), Node(20, d[2]), Node(340, d[3])>> : d \in Distances } \cup
  { <<Node(0, 0), Node(20, 300), Node(340, 500), Node(0, 0)>>,
    <<Node(0, 0), Node(0, 0), Node(355, 599), Node(5, 201)>>,
    <<Node(29, 400), Node(331, 400), Node(30, 400), Node(330, 400)>>,
    <<Node(100, 300), Node(15, 0), Node(345, 250), Node(0, 700)>> }
MCDensities == {2, 4}

\* A scan with a measurement in each quarter of the circle.
Quarters == { <<Node(0, 300), Node(90, 300), Node(180, 300), Node(270, 300)>> }
=============================================================================

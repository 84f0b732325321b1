--------------------------- MODULE MCScanSession ---------------------------
(***************************************************************************)
(* Instances of ScanSession for TLC: which calls the application makes and *)
(* what the link does to the measurements.                                 *)
(***************************************************************************)
EXTENDS ScanSession

\* The calls of the application's reader (LidarDeviceWrapper), the direct
\* start of a scan and the destruction of the driver.
SessionCalls == {"connect", "query", "motor", "stop", "startScanNormal", "startScanExpress",
                 "grab", "delete"}
StartCalls == {"connect", "query", "startScan", "startScan17", "startScanOld", "startScanExpress", "stop"}
GrabCalls == {"connect", "startScanNormal", "grab", "stop"}
IntervalCalls == {"connect", "startScanNormal", "interval", "intervalAll", "stop"}

\* Everything the driver offers.
AllCalls == SessionCalls \cup StartCalls \cup IntervalCalls \cup {"reset", "modes", "modesOld"}

Ideal == {}
Lossy == {"lose", "silent"}
Faulty == {"lose", "junk", "silent"}
Silent == {"silent"}
=============================================================================

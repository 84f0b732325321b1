----------------------------- MODULE LidarReader -----------------------------
(***************************************************************************)
(* The reader thread of LidarContainer and the LidarDeviceWrapper it owns: *)
(* connecting over the list of baud rates, scanning, the periodic health   *)
(* check with its reconnection, the readings handed to the drawer, and the *)
(* end of the thread when the container is destroyed.                      *)
(*                                                                         *)
(* A step is one call of the driver or one access to what the threads      *)
(* share.  The driver is seen as its caller sees it: whether it is         *)
(* connected, scanning, and has a scan waiting to be grabbed (the box of   *)
(* ScanMailbox, which ScanSession implements).                             *)
(***************************************************************************)
EXTENDS Readings

CONSTANTS
  Bauds,       \* the rates init tries, in order
  DeviceBaud,  \* the rate of the device
  EachReads,   \* do_health_check_each_N_reads
  Scans,       \* the scans the driver may publish
  Densities    \* the values of scanDensity: how many nodes are asked for

ASSUME ReaderAssumption ==
  /\ Bauds \in Seq(Nat) /\ \E i \in DOMAIN Bauds : Bauds[i] = DeviceBaud
  /\ EachReads \in Nat \ {0, 1}
  /\ Scans \subseteq Seq(Nodes) /\ Densities \subseteq Nat

VARIABLES
  rpc, goal,      \* where the reader is, and what it runs init or cleanup for
  attempt,        \* the index in Bauds
  counter,        \* of the iterations since the last check
  lastRead,       \* what the last readOnce returned
  unchecked,      \* how many reads since the health was last asked for
  drv,            \* the driver object, and what a connected one's link does
  port,           \* the serial port is open
  tofKnown,       \* _isTofLidar was initialised, by a getDeviceInfo
  scanning, box,  \* the driver caches scans; it has one
  device,         \* the state of the device
  spinning,       \* its motor turns
  published,      \* the scan that was read and is not shown yet, as it was published
  asked, grabbed, \* how many nodes of it were asked for, and those that came
  valuesLock, lastToDraw,
  dpc,            \* where the drawer is
  need2stop

driver == <<drv, port, tofKnown, scanning, box, spinning>>
reading == <<published, asked, grabbed>>
screen == <<reading, valuesLock, lastToDraw, dpc>>
pacing == <<counter, lastRead, unchecked>>
vars   == <<rpc, goal, attempt, pacing, driver, device, screen, need2stop>>

Init ==
  /\ rpc = "cleanup" /\ goal = "construct" /\ attempt = 1
  /\ counter = 0 /\ lastRead = "none" /\ unchecked = 0
  /\ drv = "null" /\ port = FALSE /\ tofKnown = FALSE /\ scanning = FALSE /\ box = FALSE
  /\ device \in {"gone", "ill", "noisy", "good"} /\ spinning \in BOOLEAN
  /\ published = <<>> /\ asked = 0 /\ grabbed = <<>>
  /\ valuesLock = "free" /\ lastToDraw = <<>> /\ dpc = "away"
  /\ need2stop = FALSE

Goto(label) == rpc' = label

\* Whether a command over a connected link may be answered, and may not be.
MayAnswer == drv = "live" /\ device # "gone"
MayFail == drv # "live" \/ device \in {"gone", "noisy"}

Connected == drv \in {"live", "dead"}

-----------------------------------------------------------------------------
(* LidarDeviceWrapper::cleanup.                                            *)

StopScan ==
  /\ rpc = "cleanup"
  /\ IF drv = "null" THEN Goto("reset") ELSE Goto("stopMotor")
  /\ scanning' = FALSE
  /\ UNCHANGED <<goal, attempt, pacing, drv, port, tofKnown, box, spinning,
                 device, screen, need2stop>>

\* An _isTofLidar nobody wrote yet may make stopMotor do nothing.
MotorStops ==
  spinning' \in IF ~MayAnswer THEN {spinning}
                ELSE IF tofKnown THEN {FALSE} ELSE {FALSE, spinning}

StopMotor ==
  /\ rpc = "stopMotor"
  /\ MotorStops
  /\ Goto("reset")
  /\ UNCHANGED <<goal, attempt, pacing, drv, port, tofKnown, scanning, box,
                 device, screen, need2stop>>

\* (mutant) the driver is forgotten, not destroyed: the port stays open
Reset_LeaksPort ==
  /\ rpc = "reset"
  /\ drv' = "null" /\ tofKnown' = FALSE /\ scanning' = FALSE /\ box' = FALSE
  /\ attempt' = 1
  /\ Goto(IF goal = "destroy" THEN "done" ELSE "alloc")
  /\ UNCHANGED <<goal, pacing, port, spinning, device, screen, need2stop>>

\* drv.reset(): the destructor of the driver closes the port.
Reset ==
  /\ rpc = "reset"
  /\ drv' = "null" /\ port' = FALSE /\ tofKnown' = FALSE /\ scanning' = FALSE /\ box' = FALSE
  /\ attempt' = 1
  /\ Goto(IF goal = "destroy" THEN "done" ELSE "alloc")
  /\ UNCHANGED <<goal, pacing, spinning, device, screen, need2stop>>

-----------------------------------------------------------------------------
(* LidarDeviceWrapper::init, after its cleanup.                            *)

\* A new driver replaces the one of the rate before, which is destroyed.
Alloc ==
  /\ rpc = "alloc"
  /\ drv' = "unconnected" /\ port' = FALSE /\ tofKnown' = FALSE
  /\ scanning' = FALSE /\ box' = FALSE
  /\ Goto("connect")
  /\ UNCHANGED <<goal, attempt, pacing, spinning, device, screen, need2stop>>

\* No memory: the exception ends the process, std::exit(255).
AllocThrows ==
  /\ rpc = "alloc"
  /\ Goto("exit")
  /\ UNCHANGED <<goal, attempt, pacing, driver, device, screen, need2stop>>

\* The loop over the rates goes on, or ends with the health of the last
\* driver if that one is connected.
NextBaud(health) ==
  IF attempt < Len(Bauds) THEN attempt' = attempt + 1 /\ Goto("alloc")
                          ELSE UNCHANGED attempt /\ Goto(health)

Connect ==
  /\ rpc = "connect"
  /\ IF device = "gone" \/ port
       THEN NextBaud("startMotor") /\ UNCHANGED <<drv, port, spinning>>
       ELSE /\ port' = TRUE
            /\ drv' = IF Bauds[attempt] = DeviceBaud THEN "live" ELSE "dead"
            /\ spinning' \in {FALSE, spinning}
            /\ Goto("getDeviceInfo") /\ UNCHANGED attempt
  /\ UNCHANGED <<goal, pacing, tofKnown, scanning, box, device, screen, need2stop>>

GetDeviceInfo ==
  /\ rpc = "getDeviceInfo"
  /\ \/ MayAnswer /\ tofKnown' = TRUE /\ Goto("getHealth") /\ UNCHANGED attempt
     \/ MayFail /\ NextBaud("getHealth") /\ UNCHANGED tofKnown
  /\ UNCHANGED <<goal, pacing, drv, port, scanning, box, spinning, device, screen, need2stop>>

\* What init makes of the health is printed, and returned to no avail.
GetHealth ==
  /\ rpc = "getHealth"
  /\ Goto("startMotor")
  /\ UNCHANGED <<goal, attempt, pacing, driver, device, screen, need2stop>>

-----------------------------------------------------------------------------
(* LidarDeviceWrapper::runScan.                                            *)

StartMotor ==
  /\ rpc = "startMotor"
  /\ spinning' \in IF ~MayAnswer THEN {spinning}
                   ELSE IF tofKnown THEN {TRUE} ELSE {TRUE, spinning}
  /\ Goto("startScan")
  /\ UNCHANGED <<goal, attempt, pacing, drv, port, tofKnown, scanning, box,
                 device, screen, need2stop>>

\* startScan stops a scan under way and asks for the device's information
\* before it starts another.
ScanStarts ==
  /\ rpc = "startScan" /\ MayAnswer
  /\ tofKnown' = TRUE /\ scanning' = TRUE
  /\ Goto(IF goal = "construct" THEN "loop" ELSE "readOnce")
  /\ UNCHANGED <<goal, attempt, pacing, drv, port, box, spinning, device, screen, need2stop>>

\* The device answers and the operating system refuses the caching thread, or
\* a device in error refuses the scan; or there is no answer.  runScan does
\* not look at the result.
ScanFails ==
  /\ rpc = "startScan"
  /\ scanning' = FALSE
  /\ \/ MayAnswer /\ tofKnown' = TRUE
     \/ MayFail /\ UNCHANGED tofKnown
  /\ Goto(IF goal = "construct" THEN "loop" ELSE "readOnce")
  /\ UNCHANGED <<goal, attempt, pacing, drv, port, box, spinning, device, screen, need2stop>>

StartScan == ScanStarts \/ ScanFails

-----------------------------------------------------------------------------
(* The loop of the thread.                                                 *)

\* (mutant) the thread ends without destroying the device
Loop_NoCleanup ==
  /\ rpc = "loop"
  /\ IF need2stop
       THEN goal' = "destroy" /\ Goto("done") /\ UNCHANGED counter
       ELSE /\ counter' = (counter % EachReads) + 1
            /\ goal' = "read"
            /\ Goto(IF counter' = EachReads THEN "testHealth" ELSE "readOnce")
  /\ UNCHANGED <<attempt, lastRead, unchecked, driver, device, screen, need2stop>>

\* (mutant) the request to stop is looked at only before a check
Loop_StopsAtCheck ==
  /\ rpc = "loop"
  /\ IF need2stop /\ counter = EachReads - 1 /\ lastRead = "scan"
       THEN goal' = "destroy" /\ Goto("cleanup") /\ UNCHANGED counter
       ELSE /\ counter' = (counter % EachReads) + 1
            /\ goal' = "read"
            /\ Goto(IF counter' = EachReads THEN "testHealth" ELSE "readOnce")
  /\ UNCHANGED <<attempt, lastRead, unchecked, driver, device, screen, need2stop>>

\* counter stands for the code's counter modulo EachReads, 0 as EachReads.
Loop ==
  /\ rpc = "loop"
  /\ IF need2stop
       THEN goal' = "destroy" /\ Goto("cleanup") /\ UNCHANGED counter
       ELSE /\ counter' = (counter % EachReads) + 1
            /\ goal' = "read"
            /\ Goto(IF counter' = EachReads THEN "testHealth" ELSE "readOnce")
  /\ UNCHANGED <<attempt, lastRead, unchecked, driver, device, screen, need2stop>>

\* (mutant) a device that fails the check is not connected to again
TestHealth_NoReinit ==
  /\ rpc = "testHealth"
  /\ unchecked' = 0
  /\ scanning' = FALSE
  /\ Goto("startMotor")
  /\ UNCHANGED <<goal, attempt, counter, lastRead, drv, port, tofKnown, box, spinning,
                 device, screen, need2stop>>

\* getHealth stops the scan; the device is well, or is connected to again.
TestHealth ==
  /\ rpc = "testHealth"
  /\ unchecked' = 0
  /\ scanning' = FALSE
  /\ \/ MayAnswer /\ device # "ill" /\ Goto("startMotor")
     \/ (MayFail \/ device = "ill") /\ Goto("cleanup")
  /\ UNCHANGED <<goal, attempt, counter, lastRead, drv, port, tofKnown, box, spinning,
                 device, screen, need2stop>>

\* grabScanDataHq hands over the first n nodes of a scan, or all.
FirstOf(scan, n) == SubSeq(scan, 1, Min({n, Len(scan)}))
Grabs == {FirstOf(scan, density) : scan \in Scans, density \in Densities}

\* What readOnce and the thread may make of it.
Pictures == [nodes \in Grabs |-> UNION {Shown(readings) : readings \in Ascend(nodes)}]

ReadScan ==
  /\ rpc = "readOnce" /\ box
  /\ box' = FALSE
  /\ published' \in Scans /\ asked' \in Densities
  /\ grabbed' = FirstOf(published', asked')
  /\ lastRead' = "scan" /\ unchecked' = unchecked + 1
  /\ Goto("lock")
  /\ UNCHANGED <<goal, attempt, counter, drv, port, tofKnown, scanning, spinning,
                 device, valuesLock, lastToDraw, dpc, need2stop>>

\* (mutant) the next iteration is one past the check
ReadEmpty_OneLate ==
  /\ rpc = "readOnce"
  /\ lastRead' = "empty" /\ unchecked' = unchecked + 1
  /\ counter' = EachReads
  /\ Goto("lock")
  /\ UNCHANGED <<goal, attempt, driver, device, screen, need2stop>>

\* The time is up, or the event of a scan already taken ended the wait.
ReadEmpty ==
  /\ rpc = "readOnce"
  /\ lastRead' = "empty" /\ unchecked' = unchecked + 1
  /\ counter' = EachReads - 1
  /\ Goto("lock")
  /\ UNCHANGED <<goal, attempt, driver, device, screen, need2stop>>

\* (mutant) the readings are written without the lock
Lock_NoWait ==
  /\ rpc = "lock"
  /\ valuesLock' = "reader"
  /\ Goto("write")
  /\ UNCHANGED <<goal, attempt, pacing, driver, device, reading, lastToDraw, dpc, need2stop>>

Lock ==
  /\ rpc = "lock" /\ valuesLock = "free"
  /\ valuesLock' = "reader"
  /\ Goto("write")
  /\ UNCHANGED <<goal, attempt, pacing, driver, device, reading, lastToDraw, dpc, need2stop>>

\* Of a scan, what is in view is shown: there may be nothing in view.
Write ==
  /\ rpc = "write"
  /\ lastToDraw' \in IF lastRead = "scan" THEN Pictures[grabbed] ELSE {<<>>}
  /\ published' = <<>> /\ asked' = 0 /\ grabbed' = <<>>
  /\ valuesLock' = "free"
  /\ Goto("loop")
  /\ UNCHANGED <<goal, attempt, pacing, driver, device, dpc, need2stop>>

ReaderStep ==
  \/ StopScan \/ StopMotor \/ Reset \/ Alloc \/ AllocThrows \/ Connect
  \/ GetDeviceInfo \/ GetHealth \/ StartMotor \/ StartScan
  \/ Loop \/ TestHealth \/ ReadScan \/ ReadEmpty \/ Lock \/ Write

-----------------------------------------------------------------------------
(* The drawer, the owner of the container, the driver and the device.      *)

DrawLock ==
  /\ dpc = "away" /\ ~need2stop /\ rpc # "exit" /\ valuesLock = "free"
  /\ valuesLock' = "drawer" /\ dpc' = "copy"
  /\ UNCHANGED <<rpc, goal, attempt, pacing, driver, device, reading, lastToDraw, need2stop>>

DrawCopy ==
  /\ dpc = "copy"
  /\ valuesLock' = "free" /\ dpc' = "away"
  /\ UNCHANGED <<rpc, goal, attempt, pacing, driver, device, reading, lastToDraw, need2stop>>

\* ~LidarContainer, once nobody draws any more.
Stop ==
  /\ ~need2stop /\ dpc = "away" /\ rpc # "exit"
  /\ need2stop' = TRUE
  /\ UNCHANGED <<rpc, goal, attempt, pacing, driver, device, screen>>

\* The caching thread of the driver publishes a scan of a turning motor.
Publish ==
  /\ scanning /\ spinning /\ ~box /\ MayAnswer
  /\ box' = TRUE
  /\ UNCHANGED <<rpc, goal, attempt, pacing, drv, port, tofKnown, scanning, spinning,
                 device, screen, need2stop>>

\* It gives up when the device falls silent.
ScanEnds ==
  /\ scanning /\ MayFail
  /\ scanning' = FALSE
  /\ UNCHANGED <<rpc, goal, attempt, pacing, drv, port, tofKnown, box, spinning,
                 device, screen, need2stop>>

\* The device is unplugged and plugged in, fails and gets well; a link does
\* not survive the plug.
DeviceChanges ==
  /\ device' \in {"gone", "ill", "noisy", "good"} \ {device}
  /\ drv' = IF device' = "gone" /\ drv = "live" THEN "dead" ELSE drv
  /\ spinning' = (spinning /\ device' # "gone")
  /\ UNCHANGED <<rpc, goal, attempt, pacing, port, tofKnown, scanning, box, screen, need2stop>>

Next ==
  \/ ReaderStep
  \/ DrawLock \/ DrawCopy \/ Stop \/ Publish \/ ScanEnds \/ DeviceChanges

Spec == Init /\ [][Next]_vars

(***************************************************************************)
(* Fairness.  Threads run, and every driver call returns (CallReturns of   *)
(* ScanSession).  The drawer sleeps between frames, so the reader's spin   *)
(* on valuesLock ends.  A grab waits for two seconds and a revolution      *)
(* takes a tenth of one, so a scan that can be published and grabbed again *)
(* and again is.  The operating system does not refuse a thread for ever.  *)
(***************************************************************************)
FairSpec ==
  /\ Spec
  /\ WF_vars(ReaderStep) /\ WF_vars(DrawCopy)
  /\ SF_vars(Lock) /\ SF_vars(Publish) /\ SF_vars(ReadScan) /\ SF_vars(ScanStarts)

-----------------------------------------------------------------------------
(* What must hold.                                                         *)

ControlTypes ==
  /\ rpc \in {"cleanup", "stopMotor", "reset", "alloc", "connect", "getDeviceInfo",
              "getHealth", "startMotor", "startScan", "loop", "testHealth", "readOnce",
              "lock", "write", "done", "exit"}
  /\ goal \in {"construct", "read", "destroy"} /\ attempt \in DOMAIN Bauds
  /\ counter \in 0 .. EachReads /\ unchecked \in 0 .. EachReads
  /\ lastRead \in {"none", "scan", "empty"} /\ need2stop \in BOOLEAN

LinkTypes ==
  /\ drv \in {"null", "unconnected", "dead", "live"}
  /\ port \in BOOLEAN /\ tofKnown \in BOOLEAN /\ scanning \in BOOLEAN /\ box \in BOOLEAN
  /\ device \in {"gone", "ill", "noisy", "good"} /\ spinning \in BOOLEAN

ScreenTypes ==
  /\ valuesLock \in {"free", "reader", "drawer"} /\ dpc \in {"away", "copy"}
  /\ published \in Seq(Nodes) /\ asked \in Nat /\ grabbed \in Seq(Nodes)
  /\ lastToDraw \in Seq(Values)

TypeOK == ControlTypes /\ LinkTypes /\ ScreenTypes

\* lidarcontainer.cpp:40 and 84: the health is asked for every EachReads
\* reads, and before the read that follows an empty one.
HealthCheckDue ==
  rpc = "readOnce" => unchecked < EachReads /\ (lastRead = "empty" => unchecked = 0)

\* Whatever fails on the way, an open port belongs to a driver the wrapper
\* still holds: it can be closed, and opened again.
PortOwned == port <=> Connected

\* The drawer never copies the readings while the reader writes them.
NoTornReadings == ~(rpc = "write" /\ dpc = "copy")

\* lidarcontainer.cpp:58, rplidar_driver.cpp:1841 and 1944: what comes on the
\* screen is, of the first `asked' nodes of the scan that was published, or of
\* all if there are no more, each that was measured in view, once and at its own
\* angle; the angles that ascendScanData makes up for nodes that were not
\* measured, and the order it brings them in, never put a reading there, move
\* one or lose one, and an empty read takes them all away.
DrawsTheScan ==
  [][rpc = "write" /\ rpc' # rpc =>
       IF lastRead = "scan" THEN ShowsScan(lastToDraw', FirstOf(published, asked))
                            ELSE lastToDraw' = <<>>]_vars

\* lidardevicewrapper.h:38: a read is one full circle divided into count
\* pieces, so it has a node in each piece in which the scan has any.
FullCircle ==
  rpc = "lock" /\ lastRead = "scan" => DividesTheCircle(grabbed, published, asked)

\* A thread that was asked to stop leaves no driver, no open port and no scan
\* that is cached; of the motor it promises nothing.
StopsClean == rpc = "done" => need2stop /\ ~port /\ ~scanning /\ drv = "null"

\* Once the device stays well, scans come in again for ever: after whatever
\* failed before, the reader finds its way back by itself.
Recovers ==
  <>[](device = "good" /\ ~need2stop /\ rpc # "exit") => []<>(rpc = "lock" /\ lastRead = "scan")

\* The destruction of the container ends, whatever the thread was doing.
ShutdownCompletes == need2stop ~> rpc \in {"done", "exit"}
=============================================================================

---------------------------- MODULE ScanSession ----------------------------
(***************************************************************************)
(* The scan session of the RPLIDAR driver (RPlidarDriverImplCommon in      *)
(* sdk/src/rplidar_driver.cpp): the one application thread that calls the  *)
(* API, the background thread that caches the measurements (_cachethread), *)
(* and what they share: _isScanning, _cachethread's handle, _lock,         *)
(* _dataEvt, the published scan and the buffer of the interval calls.      *)
(*                                                                         *)
(* An API call is the sequence of the stages it executes (Program), held   *)
(* in `rest' until it returns; a stage that runs under an AutoLocker takes *)
(* two steps, so that the background thread is seen blocked in between.    *)
(* Only the order of the calls and of the shared accesses is modelled: a   *)
(* measurement is the revolution it was taken in and its start bit.        *)
(***************************************************************************)
EXTENDS Naturals, Sequences

CONSTANTS
  Calls,       \* the API calls the application makes
  Revs,        \* revolutions are numbered modulo Revs
  RevLen,      \* measurements in one revolution
  BatchMax,    \* capacity of local_buf, 128 in the code
  ScanCap,     \* capacity of local_scan, MAX_SCAN_NODES in the code
  IntervalCap, \* capacity of the interval buffer, MAX_SCAN_NODES as well
  ClientCap,   \* capacity of the caller's nodebuffer
  LinkFaults   \* which of "lose", "junk", "silent" the serial link may do

ASSUME SizesAssumption ==
  /\ Revs \in Nat \ {0} /\ RevLen \in Nat \ {0}
  /\ BatchMax \in Nat \ {0} /\ ClientCap \in Nat \ {0}
  /\ ScanCap \in Nat \ {0, 1} /\ IntervalCap \in Nat \ {0, 1}

Node == [rev : 0 .. Revs - 1, sync : BOOLEAN]

(***************************************************************************)
(* The API as programs over stages.  "disable" and "join" are the two      *)
(* statements of _disableDataGrabbing; "exchange" sends a command and      *)
(* waits for its answer under _lock, "probe" is one whose result the       *)
(* caller ignores and "send" one without an answer.                        *)
(***************************************************************************)
Disable == <<"disable", "join">>
\* (mutant) a query that leaves the background thread running
Query_NoJoin == <<"exchange">>

Query == Disable \o <<"exchange">>
Stop == Disable \o <<"send">>
Motor == <<"send">>
Reset == <<"send">>
CheckMotorCtrlSupport == Disable \o <<"probe">>
\* The device is asked what it is, and its answer ignored; that it cannot say
\* its sample rates is up to the caller.
SampleDuration(rates) == Disable \o Disable \o <<"probe", rates>>
GetSampleDuration == SampleDuration("probe")
CheckExpressScanSupported == Query \o GetSampleDuration
GetTypicalScanMode == Query \o <<"exchange">>
ScanModeConf == <<"exchange", "exchange", "exchange", "exchange">>
StartScanNormal == <<"check">> \o Stop \o <<"enter">>
\* The type of the answer is asked for, of firmware that can say it.
StartScanExpress == <<"check">> \o Stop \o Query \o <<"probe", "enterExpress">>
StartExpressLegacy == <<"check">> \o Stop \o Query \o <<"enterExpress">>
\* The number of modes, and what the driver asks of each.
GetAllSupportedScanModes == Query \o <<"exchange">> \o ScanModeConf
AllSupportedLegacy == Query \o SampleDuration("exchange") \o CheckExpressScanSupported

\* startScan as the application calls it, without outUsedScanMode; firmware
\* before 1.24 has no typical mode, and before 1.17 no express scan.
Program == [
  connect          |-> <<"open">> \o CheckMotorCtrlSupport \o Motor,
  query            |-> Query,
  motor            |-> Motor,
  reset            |-> Reset,
  stop             |-> Stop,
  startScanNormal  |-> StartScanNormal,
  startScanExpress |-> StartScanExpress,
  startScan        |-> Query \o GetTypicalScanMode \o StartScanExpress,
  startScan17      |-> Query \o CheckExpressScanSupported \o StartExpressLegacy,
  startScanOld     |-> Query \o Query \o StartScanNormal,
  modes            |-> GetAllSupportedScanModes,
  modesOld         |-> AllSupportedLegacy,
  grab             |-> <<"wait", "test", "consume">>,
  interval         |-> <<"scanning", "shift", "remaining">>,
  intervalAll      |-> <<"drain">>,
  delete           |-> Stop \o <<"close">> ]

ASSUME CallsAssumption == Calls \subseteq DOMAIN Program

Stages == {"open", "disable", "join", "exchange", "probe", "send", "check",
           "enter", "enterExpress", "wait", "test", "consume", "scanning", "shift",
           "remaining", "drain", "close"}

\* The stages during which the caller holds _lock.
Locked == {"open", "exchange", "probe", "send", "enter", "enterExpress"}

\* The stages during which the caller reads the channel for an answer.
Replies == {"exchange", "probe", "enter", "enterExpress"}

\* A place in the device's stream: the revolution and the measurement in it.
Wire == [rev : 0 .. Revs - 1, idx : 0 .. RevLen - 1]

VARIABLES
  rest,        \* the stages left of the API call in progress
  res,         \* what the last call returned
  nodebuffer,  \* the caller's buffer, as a grab filled it; new with every call
  isConnected, isScanning,
  handle,      \* _cachethread.getHandle() # 0
  lock,        \* the holder of _lock
  dataEvt,     \* _dataEvt is signalled (it resets itself)
  cached,      \* the published scan: _cached_scan_node_hq_buf and its count
  interval,    \* the count of nodes held for the interval calls
  cpc,         \* where the background thread is
  buf, limit, got, pos,  \* local_buf, count, recvNodeCount, pos
  scan,        \* local_scan up to scan_count
  decoder,     \* what the thread decodes: single nodes, HQ capsules, or capsules
               \* that need one before them, the first or with one held
  wire         \* the next measurement to come out of the channel

client == <<rest, res, nodebuffer>>
shared == <<isConnected, isScanning, handle, lock, dataEvt, cached, interval>>
cache  == <<cpc, buf, limit, got, pos, scan, decoder, wire>>
vars   == <<client, shared, cache>>

NoRes == [api |-> "none", code |-> "OK", count |-> 0, stored |-> 0, elapsed |-> FALSE]

\* local_buf when there is no thread to have one.
NoStack == [i \in 1 .. BatchMax |-> [rev |-> 0, sync |-> FALSE]]

Codes == {"OK", "ALREADY_DONE", "TIMEOUT", "FAIL", "REMAINING"}

Results == [api : {"none", "control", "grab", "interval"}, code : Codes,
            count : Nat, stored : Nat, elapsed : BOOLEAN]

Init ==
  /\ rest = <<>> /\ res = NoRes /\ nodebuffer = <<>>
  /\ isConnected = FALSE /\ isScanning = FALSE /\ handle = FALSE
  /\ lock = "none" /\ dataEvt = FALSE /\ cached = <<>> /\ interval = 0
  /\ cpc = "none" /\ limit = BatchMax /\ got = 0 /\ pos = 1 /\ scan = <<>>
  /\ buf = NoStack /\ decoder = "nodes"
  /\ wire = [rev |-> 0, idx |-> 0]

-----------------------------------------------------------------------------
(* The application thread.                                                 *)

At(stage) == rest # <<>> /\ Head(rest) = stage

Continue == rest' = Tail(rest) /\ UNCHANGED res

Return(r) == rest' = <<>> /\ res' = r

Result(code) == [NoRes EXCEPT !.api = "control", !.code = code]

\* A command stage is over: the next one, or the return of RESULT_OK.
Advance == IF Len(rest) > 1 THEN Continue ELSE Return(Result("OK"))

\* An unconnected driver refuses everything but connect, its destruction
\* and the calls that only read the cache.
Call(api) ==
  /\ rest = <<>>
  /\ IF isConnected THEN api # "connect"
                    ELSE api \in {"connect", "grab", "interval", "intervalAll"}
  /\ rest' = Program[api]
  /\ res' = NoRes /\ nodebuffer' = <<>>
  /\ UNCHANGED <<shared, cache>>

AcquireLock ==
  /\ rest # <<>> /\ Head(rest) \in Locked
  /\ lock = "none"
  /\ lock' = "client"
  /\ UNCHANGED <<client, isConnected, isScanning, handle, dataEvt, cached, interval, cache>>

\* _sendCommand, with the wait for a correct answer or without one.
CommandDone ==
  /\ lock = "client"
  /\ \/ At("send") \/ At("exchange") \/ At("probe")
  /\ lock' = "none"
  /\ Advance
  /\ UNCHANGED <<nodebuffer, isConnected, isScanning, handle, dataEvt, cached, interval, cache>>

\* No answer in time, or not the one asked for: the call gives up.
CommandFail ==
  /\ lock = "client"
  /\ \/ At("exchange") \/ At("enter") \/ At("enterExpress") \/ At("open")
  /\ lock' = "none"
  /\ Return(Result("FAIL"))
  /\ UNCHANGED <<nodebuffer, isConnected, isScanning, handle, dataEvt, cached, interval, cache>>

OpenDone ==
  /\ lock = "client" /\ At("open")
  /\ lock' = "none" /\ isConnected' = TRUE
  /\ Continue
  /\ UNCHANGED <<nodebuffer, isScanning, handle, dataEvt, cached, interval, cache>>

\* (mutant) the flag is not lowered before the join
DisableScanning_KeepsFlag ==
  /\ At("disable")
  /\ Continue
  /\ UNCHANGED <<nodebuffer, shared, cache>>

DisableScanning ==
  /\ At("disable")
  /\ isScanning' = FALSE
  /\ Continue
  /\ UNCHANGED <<nodebuffer, isConnected, handle, lock, dataEvt, cached, interval, cache>>

\* (mutant) the handle is dropped without waiting for the thread
Join_NoWait ==
  /\ At("join")
  /\ handle' = FALSE
  /\ Continue
  /\ UNCHANGED <<nodebuffer, isConnected, isScanning, lock, dataEvt, cached, interval, cache>>

\* Thread::join: waits for the thread to end, closes and clears the handle.
Join ==
  /\ At("join")
  /\ IF handle
       THEN /\ cpc = "exited" /\ cpc' = "none"
            /\ handle' = FALSE
            /\ buf' = NoStack /\ scan' = <<>> /\ limit' = BatchMax /\ decoder' = "nodes"
       ELSE UNCHANGED <<handle, cpc, buf, scan, limit, decoder>>
  /\ Continue
  /\ UNCHANGED <<nodebuffer, isConnected, isScanning, lock, dataEvt, cached, interval,
                 got, pos, wire>>

CheckScanning ==
  /\ At("check")
  /\ IF isScanning THEN Return(Result("ALREADY_DONE")) ELSE Continue
  /\ UNCHANGED <<nodebuffer, shared, cache>>

\* The scan was confirmed: the flag is raised and the thread created, with
\* whatever its stack holds in local_buf.  The first capsule of a scan says
\* that it is the first, which drops any capsule held from before.
EnterScan ==
  /\ lock = "client"
  /\ \/ At("enter") /\ decoder' = "nodes"
     \/ At("enterExpress") /\ decoder' \in {"first", "hq"}
  /\ lock' = "none" /\ isScanning' = TRUE /\ handle' = TRUE
  /\ cpc' = "discard" /\ limit' = BatchMax /\ got' = 0 /\ pos' = 1 /\ scan' = <<>>
  /\ IF At("enter") THEN buf' \in [1 .. BatchMax -> Node] ELSE buf' = NoStack
  /\ Return(Result("OK"))
  /\ UNCHANGED <<nodebuffer, isConnected, dataEvt, cached, interval, wire>>

\* The operating system refuses the thread: the flag stays raised.
EnterWithoutThread ==
  /\ lock = "client"
  /\ \/ At("enter") \/ At("enterExpress")
  /\ lock' = "none" /\ isScanning' = TRUE /\ handle' = FALSE
  /\ Return(Result("FAIL"))
  /\ UNCHANGED <<nodebuffer, isConnected, dataEvt, cached, interval, cache>>

\* The destructor's last act; the application allocates a new driver.
Close ==
  /\ At("close")
  /\ isConnected' = FALSE /\ isScanning' = FALSE /\ handle' = FALSE
  /\ lock' = "none" /\ dataEvt' = FALSE /\ cached' = <<>> /\ interval' = 0
  /\ Return(NoRes)
  /\ UNCHANGED <<nodebuffer, cache>>

-----------------------------------------------------------------------------
(* grabScanDataHq: the wait, the unlocked test of the count, the copy.     *)

GrabResult(code, count, stored, elapsed) ==
  [api |-> "grab", code |-> code, count |-> count, stored |-> stored, elapsed |-> elapsed]

WaitElapses ==
  /\ At("wait") /\ ~dataEvt
  /\ Return(GrabResult("TIMEOUT", 0, 0, TRUE))
  /\ UNCHANGED <<nodebuffer, shared, cache>>

WaitSignalled ==
  /\ At("wait") /\ dataEvt
  /\ dataEvt' = FALSE
  /\ Continue
  /\ UNCHANGED <<nodebuffer, isConnected, isScanning, handle, lock, cached, interval, cache>>

TestCached ==
  /\ At("test")
  /\ IF cached = <<>> THEN Return(GrabResult("TIMEOUT", ClientCap, 0, FALSE)) ELSE Continue
  /\ UNCHANGED <<nodebuffer, shared, cache>>

Smaller(m, n) == IF m < n THEN m ELSE n

\* (mutant) the count is not reset
Consume_KeepsScan ==
  /\ At("consume") /\ lock = "none"
  /\ LET size_to_copy == Smaller(ClientCap, Len(cached)) IN
       /\ nodebuffer' = SubSeq(cached, 1, size_to_copy)
       /\ Return(GrabResult("OK", size_to_copy, size_to_copy, FALSE))
  /\ UNCHANGED <<shared, cache>>

Consume ==
  /\ At("consume") /\ lock = "none"
  /\ LET size_to_copy == Smaller(ClientCap, Len(cached)) IN
       /\ nodebuffer' = SubSeq(cached, 1, size_to_copy)
       /\ Return(GrabResult("OK", size_to_copy, size_to_copy, FALSE))
  /\ cached' = <<>>
  /\ UNCHANGED <<isConnected, isScanning, handle, lock, dataEvt, interval, cache>>

-----------------------------------------------------------------------------
(* getScanDataWithIntervalHq and getScanDataWithInterval.                  *)

IntervalResult(code, count, stored) ==
  [api |-> "interval", code |-> code, count |-> count, stored |-> stored, elapsed |-> FALSE]

IntervalScanning ==
  /\ At("scanning")
  /\ rest' = IF isScanning THEN Tail(rest) ELSE <<"remaining">>
  /\ res' = IntervalResult("OK", 0, 0)
  /\ UNCHANGED <<nodebuffer, shared, cache>>

\* (mutant) the nodes that did not fit are dropped
IntervalShift_DropsRest ==
  /\ At("shift") /\ lock = "none"
  /\ IF interval = 0
       THEN Return(IntervalResult("TIMEOUT", ClientCap, 0))
       ELSE LET size_to_copy == Smaller(interval, ClientCap) IN
            /\ rest' = Tail(rest)
            /\ res' = IntervalResult("OK", size_to_copy, size_to_copy)
  /\ interval' = 0
  /\ UNCHANGED <<nodebuffer, isConnected, isScanning, handle, lock, dataEvt, cached, cache>>

IntervalShift ==
  /\ At("shift") /\ lock = "none"
  /\ IF interval = 0
       THEN /\ Return(IntervalResult("TIMEOUT", ClientCap, 0))
            /\ UNCHANGED interval
       ELSE LET size_to_copy == Smaller(interval, ClientCap) IN
            /\ interval' = interval - size_to_copy
            /\ rest' = Tail(rest)
            /\ res' = IntervalResult("OK", size_to_copy, size_to_copy)
  /\ UNCHANGED <<nodebuffer, isConnected, isScanning, handle, lock, dataEvt, cached, cache>>

\* The count is read again, after _lock was released.
IntervalRemaining ==
  /\ At("remaining")
  /\ Return([res EXCEPT !.code = IF interval > 0 THEN "REMAINING" ELSE "OK"])
  /\ UNCHANGED <<nodebuffer, shared, cache>>

\* The deprecated call copies everything, whatever the caller's capacity.
IntervalDrain ==
  /\ At("drain") /\ lock = "none"
  /\ IF interval = 0 THEN Return(IntervalResult("TIMEOUT", ClientCap, 0))
                     ELSE Return(IntervalResult("OK", interval, interval))
  /\ interval' = 0
  /\ UNCHANGED <<nodebuffer, isConnected, isScanning, handle, lock, dataEvt, cached, cache>>

\* The steps that wait for _lock.
ClientLocks == AcquireLock \/ Consume \/ IntervalShift \/ IntervalDrain

ClientStep ==
  \/ AcquireLock \/ CommandDone \/ CommandFail \/ OpenDone
  \/ DisableScanning \/ Join \/ CheckScanning \/ EnterScan \/ EnterWithoutThread \/ Close
  \/ WaitElapses \/ WaitSignalled \/ TestCached \/ Consume
  \/ IntervalScanning \/ IntervalShift \/ IntervalRemaining \/ IntervalDrain

-----------------------------------------------------------------------------
(* The device: one measurement after another, revolution after revolution. *)

\* The measurement n places further on, and the place itself.
NodeAt(n) == [rev  |-> (wire.rev + (wire.idx + n) \div RevLen) % Revs,
              sync |-> (wire.idx + n) % RevLen = 0]

WireSkips(n) ==
  wire' = [rev |-> (wire.rev + (wire.idx + n) \div RevLen) % Revs,
           idx |-> (wire.idx + n) % RevLen]

-----------------------------------------------------------------------------
(* The background thread: _cacheScanData when the scan is answered with    *)
(* single nodes.  The first batch is discarded.                            *)

Receiving == decoder = "nodes" /\ cpc \in {"discard", "receive"}

\* _waitScanData returns: the batch is thrown away, or gone through.
BatchReady ==
  /\ cpc' = IF cpc = "discard" THEN "loop" ELSE "node"
  /\ got' = 0 /\ pos' = 1

ReceiveNode ==
  /\ Receiving
  /\ buf' = [buf EXCEPT ![got + 1] = NodeAt(0)]
  /\ WireSkips(1)
  /\ IF got + 1 = limit THEN BatchReady ELSE got' = got + 1 /\ UNCHANGED <<cpc, pos>>
  /\ UNCHANGED <<client, shared, limit, scan, decoder>>

\* Damaged bytes: _waitNode drops them while it looks for the next node.
LoseNode ==
  /\ Receiving /\ "lose" \in LinkFaults
  /\ WireSkips(1)
  /\ UNCHANGED <<client, shared, cpc, buf, limit, got, pos, scan, decoder>>

\* (mutant) `count' is not lowered
BatchExpires_KeepsCount ==
  /\ Receiving /\ got > 0
  /\ BatchReady
  /\ UNCHANGED <<client, shared, buf, limit, scan, decoder, wire>>

\* The time is up between two nodes: `count' is lowered, for good.
BatchExpires ==
  /\ Receiving /\ got > 0
  /\ limit' = got
  /\ BatchReady
  /\ UNCHANGED <<client, shared, buf, scan, decoder, wire>>

\* The time is up inside _waitNode: `count' is not touched, so that what
\* local_buf still holds from before is gone through again.
BatchJunk ==
  /\ Receiving /\ "junk" \in LinkFaults
  /\ BatchReady
  /\ UNCHANGED <<client, shared, buf, limit, scan, decoder, wire>>

\* The channel delivers nothing: the first time is ignored, the next ends
\* the thread.
LinkSilent ==
  /\ Receiving /\ "silent" \in LinkFaults
  /\ IF cpc = "discard"
       THEN BatchReady /\ UNCHANGED isScanning
       ELSE cpc' = "exited" /\ isScanning' = FALSE /\ got' = 0 /\ UNCHANGED pos
  /\ UNCHANGED <<client, isConnected, handle, lock, dataEvt, cached, interval,
                 buf, limit, scan, decoder, wire>>

-----------------------------------------------------------------------------
(* Capsules: _cacheCapsuledScanData, _cacheUltraCapsuledScanData and       *)
(* _cacheHqScanData.  A capsule comes whole or not at all; but for HQ, its *)
(* measurements come out with the capsule that follows.                    *)

Capsules == decoder # "nodes" /\ cpc \in {"discard", "receive"}

DiscardCapsule ==
  /\ Capsules /\ cpc = "discard"
  /\ cpc' = "loop"
  /\ WireSkips(BatchMax)
  /\ UNCHANGED <<client, shared, buf, limit, got, pos, scan, decoder>>

HoldCapsule ==
  /\ Capsules /\ cpc = "receive" /\ decoder = "first"
  /\ decoder' = "held" /\ cpc' = "loop"
  /\ UNCHANGED <<client, shared, buf, limit, got, pos, scan, wire>>

\* Start bits are set by the angle (_getSyncBitByAngle): after a loss, late,
\* at the first measurement of a capsule, or not at all.
Starts ==
  {[i \in 1 .. BatchMax |-> NodeAt(i - 1).sync]} \cup
  {[i \in 1 .. BatchMax |-> i = 1 /\ late] :
     late \in IF "lose" \in LinkFaults /\ decoder = "held" THEN BOOLEAN ELSE {}}

DecodeCapsule ==
  /\ Capsules /\ cpc = "receive" /\ decoder \in {"held", "hq"}
  /\ \E starts \in Starts :
       buf' = [i \in 1 .. BatchMax |-> [rev |-> NodeAt(i - 1).rev, sync |-> starts[i]]]
  /\ WireSkips(BatchMax)
  /\ cpc' = "node"
  /\ UNCHANGED <<client, shared, limit, got, pos, scan, decoder>>

\* A damaged capsule drops the one that is held as well.
DamageCapsule ==
  /\ Capsules /\ "lose" \in LinkFaults
  /\ WireSkips(IF decoder = "held" THEN 2 * BatchMax ELSE BatchMax)
  /\ decoder' = IF decoder = "held" THEN "first" ELSE decoder
  /\ cpc' = "loop"
  /\ UNCHANGED <<client, shared, buf, limit, got, pos, scan>>

\* Nothing comes in time: unlike a scan of single nodes, this one goes on,
\* and keeps the capsule it holds.
AwaitCapsule ==
  /\ Capsules /\ "silent" \in LinkFaults
  /\ cpc' = "loop"
  /\ UNCHANGED <<client, shared, buf, limit, got, pos, scan, decoder, wire>>

-----------------------------------------------------------------------------
(* What the four threads do alike.                                         *)

CacheLoop ==
  /\ cpc = "loop"
  /\ IF isScanning THEN cpc' = "receive" /\ UNCHANGED isScanning
                   ELSE cpc' = "exited" /\ isScanning' = FALSE
  /\ UNCHANGED <<client, isConnected, handle, lock, dataEvt, cached, interval,
                 buf, limit, got, pos, scan, decoder, wire>>

\* (mutant) a scan that does not begin with its start counts as complete
Complete_Partial == buf[pos].sync /\ scan # <<>>

\* Does the revolution under way end here, and did it begin with its start?
Complete == buf[pos].sync /\ scan # <<>> /\ scan[1].sync

\* The last slot is never counted: local_scan keeps ScanCap - 1 nodes.
AppendCapped(s, n) == IF Len(s) < ScanCap - 1 THEN Append(s, n) ELSE s

\* (mutant) scan_count is not reset at a start that publishes nothing
Assemble_NoReset ==
  /\ cpc = "node" /\ ~Complete
  /\ scan' = AppendCapped(scan, buf[pos])
  /\ cpc' = "interval"
  /\ UNCHANGED <<client, shared, buf, limit, got, pos, decoder, wire>>

Assemble ==
  /\ cpc = "node" /\ ~Complete
  /\ scan' = AppendCapped(IF buf[pos].sync THEN <<>> ELSE scan, buf[pos])
  /\ cpc' = "interval"
  /\ UNCHANGED <<client, shared, buf, limit, got, pos, decoder, wire>>

\* A complete revolution is published: copy and count, then the event.
Publish ==
  /\ cpc = "node" /\ Complete /\ lock = "none"
  /\ lock' = "cache"
  /\ cached' = scan
  /\ cpc' = "signal"
  /\ UNCHANGED <<client, isConnected, isScanning, handle, dataEvt, interval,
                 buf, limit, got, pos, scan, decoder, wire>>

\* (mutant) the event is not set
Signal_Silent ==
  /\ cpc = "signal"
  /\ lock' = "none"
  /\ scan' = <<buf[pos]>>
  /\ cpc' = "interval"
  /\ UNCHANGED <<client, isConnected, isScanning, handle, dataEvt, cached, interval,
                 buf, limit, got, pos, decoder, wire>>

Signal ==
  /\ cpc = "signal"
  /\ dataEvt' = TRUE /\ lock' = "none"
  /\ scan' = <<buf[pos]>>
  /\ cpc' = "interval"
  /\ UNCHANGED <<client, isConnected, isScanning, handle, cached, interval,
                 buf, limit, got, pos, decoder, wire>>

KeepInterval ==
  /\ cpc = "interval" /\ lock = "none"
  /\ interval' = Smaller(interval + 1, IntervalCap - 1)
  /\ IF pos < limit THEN pos' = pos + 1 /\ cpc' = "node"
                    ELSE pos' = 1 /\ cpc' = "loop"
  /\ UNCHANGED <<client, isConnected, isScanning, handle, lock, dataEvt, cached,
                 buf, limit, got, scan, decoder, wire>>

ReceiveReturns ==
  \/ ReceiveNode \/ BatchExpires \/ BatchJunk \/ LinkSilent
  \/ DiscardCapsule \/ HoldCapsule \/ DecodeCapsule \/ DamageCapsule \/ AwaitCapsule

CacheLocks == Publish \/ KeepInterval

CacheStep ==
  \/ ReceiveReturns \/ LoseNode \/ CacheLoop
  \/ Assemble \/ Publish \/ Signal \/ KeepInterval

-----------------------------------------------------------------------------
Next == (\E api \in Calls : Call(api)) \/ ClientStep \/ CacheStep

Spec == Init /\ [][Next]_vars

(***************************************************************************)
(* Fairness.  The scheduler runs every thread; a Win32 mutex is granted in *)
(* the order it was asked for, so a waiter that finds it free again and    *)
(* again gets it; every wait on the channel ends by its timeout.  Nothing  *)
(* makes the application call, and nothing makes the link lose data.       *)
(***************************************************************************)
FairSpec ==
  /\ Spec
  /\ WF_vars(ClientStep) /\ SF_vars(ClientLocks)
  /\ WF_vars(ReceiveReturns \/ CacheLoop \/ Assemble \/ Signal) /\ SF_vars(CacheLocks)

-----------------------------------------------------------------------------
(* What must hold.                                                         *)

TypeOK ==
  /\ rest \in Seq(Stages)
  /\ res \in Results
  /\ nodebuffer \in Seq(Node)
  /\ isConnected \in BOOLEAN /\ isScanning \in BOOLEAN /\ handle \in BOOLEAN
  /\ lock \in {"none", "client", "cache"} /\ dataEvt \in BOOLEAN
  /\ cached \in Seq(Node) /\ interval \in 0 .. IntervalCap - 1
  /\ cpc \in {"none", "discard", "loop", "receive", "node", "signal", "interval", "exited"}
  /\ buf \in [1 .. BatchMax -> Node]
  /\ limit \in 1 .. BatchMax /\ got \in 0 .. limit - 1 /\ pos \in 1 .. limit
  /\ scan \in Seq(Node) /\ Len(scan) < ScanCap
  /\ decoder \in {"nodes", "first", "held", "hq"} /\ wire \in Wire

\* Starts with its start bit, and holds no second one.
IsScan(s) == s # <<>> /\ s[1].sync /\ \A i \in 2 .. Len(s) : ~s[i].sync

\* Only the thread that was given _lock is between lock() and unlock().
LockHeld ==
  /\ lock = "client" => rest # <<>> /\ Head(rest) \in Locked
  /\ lock = "cache" <=> cpc = "signal"

\* While the caller reads the answer to a command off the channel, no
\* background thread reads measurements off it: the two would eat each
\* other's bytes.  No lock ensures it, only the joins before.
OneReader ==
  lock = "client" /\ Head(rest) \in Replies => cpc = "none"

\* A background thread is always one the driver can still join, of a driver
\* that was not destroyed: there is never a second one, or a lost one.
ThreadOwned == cpc # "none" => handle /\ isConnected

\* A scan that waits to be grabbed is announced: the event is set, or about
\* to be, or the caller has taken it and is on its way to the scan.
NoLostWakeup ==
  cached # <<>> => dataEvt \/ cpc = "signal" \/ At("test") \/ At("consume")

\* What is published begins at the start of a revolution and ends before the
\* next start that was seen.
PublishedScan == cached # <<>> => IsScan(cached)

\* A grab that succeeds returns at least the first node of such a scan.
GrabbedScan ==
  res.api = "grab" /\ res.code = "OK" =>
    /\ IsScan(nodebuffer) /\ Len(nodebuffer) = res.stored
    /\ res.count = res.stored /\ res.stored <= ClientCap

\* rplidar_driver.h:272, in part: no two nodes of a published scan come from
\* different revolutions.
SameRevolution ==
  \A i, j \in DOMAIN cached : cached[i].rev = cached[j].rev

\* rplidar_driver.h:272 in full: a published scan is exactly one complete
\* revolution, cut only by the capacity of local_scan.
CompleteRevolution ==
  cached # <<>> => SameRevolution /\ Len(cached) = Smaller(RevLen, ScanCap - 1)

\* rplidar_driver.h:282: RESULT_OPERATION_TIMEOUT means that the duration the
\* caller allows went by without a scan.
TimeoutElapsed == res.api = "grab" /\ res.code = "TIMEOUT" => res.elapsed

\* rplidar_driver.h:229: entering the scan mode creates a background thread,
\* so a caller told that it is done already has one.
AlreadyDoneHasThread == res.code = "ALREADY_DONE" => handle

\* Every node that leaves the interval buffer of a living driver was handed
\* to the caller, who is told so.
IntervalDelivered ==
  [][interval' < interval =>
       \/ ~isConnected'
       \/ res'.api = "interval" /\ res'.stored = interval - interval']_vars

\* Every API call returns: no call waits for ever for the lock, for the event
\* or for the end of the background thread.
CallReturns == rest # <<>> ~> rest = <<>>

\* A caller that keeps grabbing gets every published scan or a newer one.
GrabDelivers == []<>At("wait") => (cached # <<>> ~> cached = <<>>)

-----------------------------------------------------------------------------
(* The abstraction.                                                        *)

Mailbox == INSTANCE ScanMailbox
             WITH Capacity <- ClientCap, box <- cached, taken <- nodebuffer

\* The session implements the one-scan mailbox: a publication is a Put, a
\* successful grab a Take, a new call forgets, a new driver renews, and every
\* other step of either thread leaves both ends alone.
ImplementsMailbox == Mailbox!Spec

-----------------------------------------------------------------------------
(* The inductive invariant behind LockHeld, OneReader, ThreadOwned,        *)
(* NoLostWakeup, PublishedScan and GrabbedScan.                            *)

\* Whatever needs the background thread gone comes after a join, or the
\* thread is gone already.
JoinedFirst ==
  \A i \in 1 .. Len(rest) :
    rest[i] \in Replies \cup {"close"} =>
      cpc = "none" \/ \E j \in 1 .. i - 1 : rest[j] = "join"

\* Only a connected driver is about to start a scan.
EnterConnected == \A i \in 1 .. Len(rest) : rest[i] \in {"enter", "enterExpress"} => isConnected

\* The stages of a grab belong to no other call, and follow each other.
GrabShape ==
  \A i \in 1 .. Len(rest) :
    /\ rest[i] = "wait" => i < Len(rest) /\ rest[i + 1] = "test"
    /\ rest[i] = "test" => i < Len(rest) /\ rest[i + 1] = "consume"
    /\ rest[i] = "consume" => IF i = 1 THEN cached # <<>> ELSE rest[i - 1] = "test"

\* No start bit inside the scan under way.
ScanOpen == \A i \in 2 .. Len(scan) : ~scan[i].sync

\* The result of a grab is that of the last call, which has returned.
GrabReturned == rest # <<>> => res.api # "grab"

IInv ==
  /\ TypeOK /\ LockHeld /\ ThreadOwned /\ GrabReturned
  /\ JoinedFirst /\ EnterConnected /\ GrabShape
  /\ NoLostWakeup /\ ScanOpen /\ PublishedScan /\ GrabbedScan
=============================================================================

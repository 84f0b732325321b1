----------------------------- MODULE DriverLink -----------------------------
(***************************************************************************)
(* The driver above its channel: RPlidarDriverSerial and RPlidarDriverTCP  *)
(* (rplidar_driver.cpp from line 2226), SerialChannelDevice and            *)
(* TCPChannelDevice, and the loops that read bytes, _waitResponseHeader    *)
(* and _waitNode, over the ports, sockets, threads and events of the three *)
(* platforms.  One application thread calls the driver; the thread that    *)
(* startScan creates reads measurements from the same channel.             *)
(*                                                                         *)
(* An answer's header is three bytes here (two to synchronise on and the   *)
(* type, with which the size goes), its payload and a measurement are two. *)
(* What a scan contains is ScanSession's business: a measurement may or    *)
(* may not complete one.                                                   *)
(***************************************************************************)
EXTENDS HalEvent, HalThread, SerialPort, StreamSocket, SequencesExt

CONSTANTS
  MaxCalls,   \* calls the application makes before it disposes of the driver
  MaxNodes,   \* measurements the device sends
  MaxFaults,  \* stray bytes, errors of the line and unplugged devices ...
  FirstFault, \* ... from this call on
  MaxBacklog, \* bytes of earlier answers behind which the device still answers
  PortNumber  \* the port the application names

ASSUME LinkAssumption == PortNumber \in Nat /\ MaxCalls \in Nat /\ "client" \in Waiters

VARIABLES
  connected,  \* _isConnected
  scanning,   \* _isScanning
  cached,     \* _cached_scan_node_hq_count is not 0
  client,     \* the stages to come of the call, and the call if it has an answer
  cacher,     \* where the caching thread is: off, discard, test, read
  rd,         \* each thread in _waitResponseHeader, _waitNode or the payload
  dev,        \* the device: bytes on the line, streaming, sent, gone
  answer,     \* the exchange under way: the request whose answer it hears,
              \* the payload it took, and whether an older answer was there
  calls, faults,
  closed,     \* the TCP driver was disconnected
  deleted,    \* DisposeDriver was called
  crashed     \* no, or what ended the process

linkVars == <<connected, scanning, cached, client, cacher, rd, dev, answer,
              calls, faults, closed, deleted, crashed>>
vars == <<os, kind, eventVars, cachethread, port, table, rx, sock, linkVars>>

\* What actions leave alone together.
platform == <<os, kind>>
hal == <<eventVars, cachethread>>
channel == <<port, table, rx, sock>>
flags == <<connected, scanning, cached>>
ends == <<closed, deleted, crashed>>

Readers == {"client", "cacher"}

Byte(b, req) == [b |-> b, req |-> req]
Types == {"check", "health", "scan"}
Size(goal) == IF goal = "header" THEN 3 ELSE 2
Payload(req) == <<Byte("p1", req), Byte("p2", req)>>
Reply(type, req) ==
  <<Byte("A5", req), Byte("5A", req), Byte(type, req)>>
  \o (IF type = "scan" THEN <<>> ELSE Payload(req))
Node == <<Byte("n1", 0), Byte("n2", 0)>>
CommandSize == 2

(***************************************************************************)
(* The bytes a parser keeps at each position; it starts again at one it    *)
(* does not, and that one is lost.  The types have the values of           *)
(* rplidar_cmd.h: 0xFF, 0x06 and 0x81.                                     *)
(***************************************************************************)
HeaderKeeps(pos, b) == (pos = 0 => b = "A5") /\ (pos = 1 => b = "5A")
NodeKeeps(pos, b) ==
  /\ pos = 0 => b \in {"n1", "A5", "5A", "health", "scan"}
  /\ pos = 1 => b \in {"n2", "A5", "scan", "check"}

Keeps(goal, pos, b) == IF goal = "header" THEN HeaderKeeps(pos, b) ELSE NodeKeeps(pos, b)

\* `last' is the last byte of a header, `missed' that a header began where the
\* parser expected its second byte.
ParseByte(goal, at, byte) ==
  IF Keeps(goal, at.pos, byte.b)
  THEN [pos |-> at.pos + 1, last |-> IF at.pos = 2 THEN byte ELSE at.last, missed |-> at.missed]
  ELSE [pos |-> 0, last |-> at.last,
        missed |-> at.missed \/ (goal = "header" /\ at.pos = 1 /\ byte.b = "A5")]

Parse(goal, start, bytes) ==
  FoldLeft(LAMBDA at, byte : ParseByte(goal, at, byte), start, bytes)

-----------------------------------------------------------------------------
Alive == crashed = "no"
Idle == client.rest = <<>>
At(stage) == Alive /\ client.rest # <<>> /\ Head(client.rest) = stage
Proceed(rest) ==
  client' = [call |-> IF rest = <<>> THEN "none" ELSE client.call, rest |-> rest]
Advance == Proceed(Tail(client.rest))
Return == Proceed(<<>>)

out == [at |-> "out", goal |-> "header", got |-> [pos |-> 0, last |-> Byte("none", 0), missed |-> FALSE],
        watch |-> {}]
Reading(goal) == [out EXCEPT !.at = "loop", !.goal = goal]
Need(r) == Size(rd[r].goal) - rd[r].got.pos
Enter(r, round) == [rd EXCEPT ![r].at = round.at, ![r].watch = round.watch]
Place(r, at) == [rd EXCEPT ![r].at = at, ![r].watch = {}]

NoAnswer == [stale |-> FALSE, heard |-> 0, data |-> <<>>]

\* There is a channel that bytes can come in through.
Linked == IF kind = "serial" THEN port.opened ELSE sock.peer # NoPeer

Init ==
  /\ PlatformInit /\ EventInit /\ ThreadInit
  /\ port = NewPort /\ rx = <<>>
  /\ IF kind = "serial" THEN sock = NullSocket ELSE sock \in CreateSocket
  /\ table = IF sock.ref = "live" THEN Opened(NothingOpen, {"socket"}) ELSE NothingOpen
  /\ connected = FALSE /\ scanning = FALSE /\ cached = FALSE
  /\ client = [call |-> "none", rest |-> <<>>] /\ cacher = "off"
  /\ rd = [r \in Readers |-> out]
  /\ dev = [line |-> <<>>, streaming |-> FALSE, sent |-> 0, gone |-> FALSE]
  /\ answer = NoAnswer /\ calls = 0 /\ faults = 0
  /\ closed = FALSE /\ deleted = FALSE /\ crashed = "no"

-----------------------------------------------------------------------------
(***************************************************************************)
(* The calls.  One that its guard turns back (not connected, connected     *)
(* already, scanning already) changes nothing and is left out.             *)
(***************************************************************************)
Exchange == <<"disable", "join", "ask", "header", "payload">>
Stop == <<"disable", "join", "tell">>
Disconnect == Stop \o (IF kind = "tcp" THEN <<"close">> ELSE <<>>)

Plan(call) ==
  CASE call = "connect"    -> <<"open">> \o Exchange
    [] call = "query"      -> Exchange
    [] call = "start"      -> Stop \o <<"ask", "header", "create">>
    [] call = "stop"       -> Stop
    [] call = "grab"       -> <<"wait", "take">>
    [] call = "disconnect" -> Disconnect
    [] call = "delete"     -> (IF connected THEN Disconnect ELSE <<>>) \o <<"destroy">>

Accepts(call) ==
  CASE call = "connect" -> ~connected
    [] call \in {"query", "disconnect"} -> connected
    [] call = "start" -> connected /\ ~scanning
    [] call \in {"stop", "grab"} -> TRUE
    [] call = "delete" -> TRUE

Exchanging == {"connect", "query", "start"}
Expected(call) ==
  CASE call = "connect" -> "check" [] call = "query" -> "health" [] call = "start" -> "scan"

Call(call) ==
  /\ Alive /\ Idle /\ ~deleted
  /\ call = "delete" \/ calls < MaxCalls
  /\ Accepts(call)
  /\ client' = [call |-> IF call \in Exchanging THEN call ELSE "none", rest |-> Plan(call)]
  /\ calls' = calls + 1
  /\ UNCHANGED <<platform, hal, channel, flags, cacher, rd, dev, answer, faults, ends>>

-----------------------------------------------------------------------------
(***************************************************************************)
(* The stages of the application's thread.                                 *)
(***************************************************************************)
Crash(reason) ==
  /\ crashed' = reason
  /\ UNCHANGED <<platform, hal, channel, flags, client, cacher, rd, dev, answer, calls,
                 faults, closed, deleted>>

\* A member function of the socket object is called through NULL.
NoSocket == kind = "tcp" /\ sock.ref = "null"

OpenSerial ==
  /\ At("open") /\ kind = "serial"
  /\ \E o \in OpenPort(port, table) :
       /\ port' = o.port /\ table' = o.table
       /\ connected' = o.ok
       /\ IF o.ok THEN Advance /\ rx' = <<>> ELSE Return /\ UNCHANGED rx
  /\ UNCHANGED <<platform, hal, sock, scanning, cached, cacher, rd, dev, answer, calls,
                 faults, ends>>

OpenTCP ==
  /\ At("open") /\ kind = "tcp" /\ ~NoSocket
  /\ \E name \in Names : \E c \in ConnectSocket(sock, Address(name, PortNumber)) :
       /\ sock' = c.sock
       /\ connected' = (c.result = "ok")
       /\ IF c.result = "ok" THEN Advance ELSE Return
  /\ UNCHANGED <<platform, hal, port, table, rx, scanning, cached, cacher, rd, dev, answer,
                 calls, faults, ends>>

\* (mutant) the thread is not told to stop
Disable_KeepsFlag ==
  /\ At("disable")
  /\ Advance
  /\ UNCHANGED <<platform, hal, channel, flags, cacher, rd, dev, answer, calls, faults, ends>>

\* _disableDataGrabbing(): the flag first, then the join.
Disable ==
  /\ At("disable")
  /\ scanning' = FALSE /\ Advance
  /\ UNCHANGED <<platform, hal, channel, connected, cached, cacher, rd, dev, answer, calls,
                 faults, ends>>

\* (mutant) the thread is not waited for
Join_Skipped ==
  /\ At("join")
  /\ Advance
  /\ UNCHANGED <<platform, hal, channel, flags, cacher, rd, dev, answer, calls, faults, ends>>

\* To join a thread that was joined before may do anything; the usual C
\* libraries find out and return an error, or read freed memory.
Join ==
  /\ At("join") /\ JoinReturns
  /\ cachethread' = JoinedThread
  /\ Advance
  /\ UNCHANGED <<platform, eventVars, channel, flags, cacher, rd, dev, answer, calls, faults,
                 ends>>

\* _sendCommand(): how much of the command leaves; its result is not that
\* of the channel.
Sent == IF kind = "tcp" THEN SendSocket(dev.gone, CommandSize)
        ELSE IF dev.gone THEN {0} ELSE SendPort(port, CommandSize)

\* stop(): a device that hears it streams no more.
Tell ==
  /\ At("tell")
  /\ IF connected
     THEN /\ ~NoSocket
          /\ \E n \in Sent : dev' = [dev EXCEPT !.streaming = @ /\ n < CommandSize]
          /\ Advance
     ELSE Return /\ UNCHANGED dev
  /\ UNCHANGED <<platform, hal, channel, flags, cacher, rd, answer, calls, faults, ends>>

\* The socket is connected to the local host: nothing there answers as the
\* device would.
Elsewhere == kind = "tcp" /\ sock.peer.host = "any"

\* A request; the device answers one that arrived whole, or is too busy to.
\* What is left of earlier answers is not flushed.
Ask ==
  /\ At("ask") /\ ~NoSocket
  /\ \E n \in Sent :
       dev' \in {dev} \cup
         (IF n < CommandSize \/ Elsewhere \/ Len(rx \o dev.line) > MaxBacklog THEN {}
          ELSE {[dev EXCEPT !.line = @ \o Reply(Expected(client.call), calls),
                            !.streaming = client.call = "start"]})
  /\ answer' = [NoAnswer EXCEPT !.stale = \E i \in DOMAIN (rx \o dev.line) :
                                            (rx \o dev.line)[i].b = "A5"]
  /\ rd' = [rd EXCEPT !["client"] = Reading("header")]
  /\ Advance
  /\ UNCHANGED <<platform, hal, channel, flags, cacher, calls, faults, ends>>

\* The member functions that would be called on the NULL socket: connect,
\* send and dispose.
UseNull ==
  /\ NoSocket
  /\ At("open") \/ At("ask") \/ (At("tell") /\ connected) \/ At("close")
  /\ Crash("nullSocket")

JoinAgain == At("join") /\ StaleJoin /\ Crash("staleJoin")

Header ==
  /\ At("header") /\ rd["client"].at \in {"ok", "fail"}
  /\ LET got == rd["client"].got
         good == rd["client"].at = "ok" /\ got.last.b = Expected(client.call)
         more == good /\ client.rest[2] = "payload"
     IN  /\ answer' = IF more THEN [answer EXCEPT !.heard = got.last.req] ELSE NoAnswer
         /\ rd' = [rd EXCEPT !["client"] = IF more THEN Reading("payload") ELSE out]
         /\ IF good THEN Advance ELSE Return
  /\ UNCHANGED <<platform, hal, channel, flags, cacher, dev, calls, faults, ends>>

PayloadRead ==
  /\ At("payload") /\ rd["client"].at \in {"ok", "fail"}
  /\ answer' = NoAnswer
  /\ rd' = [rd EXCEPT !["client"] = out]
  /\ Advance
  /\ UNCHANGED <<platform, hal, channel, flags, cacher, dev, calls, faults, ends>>

\* The flag is set before the thread is asked for.
Create ==
  /\ At("create")
  /\ scanning' = TRUE
  /\ \E granted \in BOOLEAN :
       /\ cachethread' = CreatedThread(granted)
       /\ cacher' = IF granted THEN "discard" ELSE cacher
       /\ rd' = IF granted THEN [rd EXCEPT !["cacher"] = Reading("node")] ELSE rd
  /\ Advance
  /\ UNCHANGED <<platform, eventVars, channel, connected, cached, dev, answer, calls, faults,
                 ends>>

\* grabScanDataHq().
Grab ==
  /\ At("wait") /\ EnterWait("client")
  /\ UNCHANGED <<platform, cachethread, channel, linkVars>>

GrabWoken ==
  /\ At("wait") /\ LeaveWait("client")
  /\ IF waiter["client"] = "ok" THEN Advance ELSE Return
  /\ crashed' = IF waiter["client"] = "aborted" THEN "eventAssert" ELSE crashed
  /\ UNCHANGED <<platform, cachethread, channel, flags, cacher, rd, dev, answer, calls,
                 faults, closed, deleted>>

GrabTakes ==
  /\ At("take")
  /\ cached' = FALSE /\ Advance
  /\ UNCHANGED <<platform, hal, channel, connected, scanning, cacher, rd, dev, answer, calls,
                 faults, ends>>

Silent == [dev EXCEPT !.line = <<>>, !.streaming = FALSE]

\* TCPChannelDevice::close(); _isConnected stays as it is.
CloseTCP ==
  /\ At("close") /\ ~NoSocket
  /\ sock' = DisposeSocket(sock) /\ table' = Closed(table, {"socket"})
  /\ rx' = <<>> /\ dev' = Silent
  /\ closed' = TRUE /\ Advance
  /\ UNCHANGED <<platform, hal, port, flags, cacher, rd, answer, calls, faults, deleted,
                 crashed>>

\* The rest of the destructor.  The serial port is closed by the channel and
\* once more by its own destructor; the TCP driver leaves its channel alone.
Destroy ==
  /\ At("destroy")
  /\ IF kind = "serial"
     THEN LET shut == ClosePort(port, table)
              freed == ClosePort(shut.port, shut.table)
          IN  port' = freed.port /\ table' = freed.table /\ rx' = <<>> /\ dev' = Silent
     ELSE UNCHANGED <<port, table, rx, dev>>
  /\ deleted' = TRUE /\ Advance
  /\ UNCHANGED <<platform, hal, sock, flags, cacher, rd, answer, calls, faults, closed, crashed>>

-----------------------------------------------------------------------------
(***************************************************************************)
(* The readers: _waitResponseHeader and _waitNode loop over a wait for     *)
(* what is missing and a read of it, the payload is one wait and one read. *)
(* A wait that is not granted fails the header and the node; the loops     *)
(* also end when their own time is over.                                   *)
(***************************************************************************)
Restless(r) == Alive /\ rd[r].at = "loop"

\* The wait begins.
CheckReader(r) ==
  /\ Restless(r)
  /\ rd' = IF kind = "serial" THEN Enter(r, CheckPort(port, Need(r), Len(rx), dev.gone))
           ELSE Place(r, "wait")
  /\ UNCHANGED <<platform, hal, channel, flags, client, cacher, dev, answer, calls, faults,
                 ends>>

ArmReader(r) ==
  /\ Alive /\ rd[r].at = "arm"
  /\ \E round \in WinArm(rd[r].watch, dev.gone) : rd' = Enter(r, round)
  /\ UNCHANGED <<platform, hal, channel, flags, client, cacher, dev, answer, calls, faults,
                 ends>>

\* The operating system reports the channel readable.
WakeReader(r) ==
  /\ Alive /\ rd[r].at = "wait"
  /\ \E round \in IF kind = "serial"
                  THEN SelectPort(port, Need(r), Len(rx), dev.gone, rd[r].watch)
                  ELSE IF Readable(Len(rx), dev.gone) THEN {Round("ready", {})} ELSE {} :
       IF round.at = "aborted" THEN crashed' = "fdSet" /\ UNCHANGED rd
       ELSE rd' = Enter(r, round) /\ UNCHANGED crashed
  /\ UNCHANGED <<platform, hal, channel, flags, client, cacher, dev, answer, calls, faults,
                 closed, deleted>>

ReaderTimesOut(r) ==
  /\ Alive /\ rd[r].at = "wait"
  /\ IF kind = "serial" THEN PortTimesOut(Len(rx), dev.gone, rd[r].watch)
     ELSE ~Readable(Len(rx), dev.gone)
  /\ rd' = Place(r, "fail")
  /\ UNCHANGED <<platform, hal, channel, flags, client, cacher, dev, answer, calls, faults,
                 ends>>

\* The time of _waitResponseHeader, for which it is the same as a wait that
\* failed, or of _waitNode.
TimeOver(r) ==
  /\ Restless(r) /\ rd[r].goal # "payload"
  /\ rd' = Place(r, IF r = "cacher" THEN "late" ELSE "fail")
  /\ UNCHANGED <<platform, hal, channel, flags, client, cacher, dev, answer, calls, faults,
                 ends>>

\* recvdata(); a serial port that was unplugged has nothing more to read.
Received(r) ==
  IF kind = "serial" THEN {RecvPort(port, IF dev.gone THEN 0 ELSE Len(rx), Need(r))}
  ELSE RecvSocket(Len(rx), Need(r))

\* What was read goes through the parser; of the payload nobody looks at how
\* much it was.
TakeReader(r) ==
  /\ Alive /\ rd[r].at = "ready"
  /\ \E n \in Received(r) :
       LET taken == SubSeq(rx, 1, n)
           got == Parse(rd[r].goal, rd[r].got, taken)
       IN  /\ rx' = SubSeq(rx, n + 1, Len(rx))
           /\ IF rd[r].goal = "payload"
              THEN rd' = Place(r, "ok") /\ answer' = [answer EXCEPT !.data = taken]
              ELSE /\ rd' = [Place(r, IF got.pos = Size(rd[r].goal) THEN "ok" ELSE "loop")
                               EXCEPT ![r].got = got]
                   /\ UNCHANGED answer
  /\ UNCHANGED <<platform, hal, port, table, sock, flags, client, cacher, dev, calls, faults,
                 ends>>

ReaderStep(r) == CheckReader(r) \/ ArmReader(r) \/ WakeReader(r) \/ ReaderTimesOut(r) \/ TakeReader(r)

(***************************************************************************)
(* The caching thread, _cacheScanData().  The buffer that one call of      *)
(* _waitScanData fills is one measurement here.                            *)
(***************************************************************************)
CacherEnds ==
  /\ cacher' = "off" /\ scanning' = FALSE
  /\ cachethread' = [cachethread EXCEPT !.state = "ended"]
  /\ rd' = [rd EXCEPT !["cacher"] = out]

\* The first batch is thrown away, and so is its result.
CacherDiscards ==
  /\ Alive /\ cacher = "discard" /\ rd["cacher"].at \in {"ok", "fail", "late"}
  /\ cacher' = "test" /\ rd' = [rd EXCEPT !["cacher"] = out]
  /\ UNCHANGED <<platform, hal, channel, flags, client, dev, answer, calls, faults, ends>>

CacherTests ==
  /\ Alive /\ cacher = "test"
  /\ IF scanning
     THEN /\ cacher' = "read" /\ rd' = [rd EXCEPT !["cacher"] = Reading("node")]
          /\ UNCHANGED <<scanning, cachethread>>
     ELSE CacherEnds
  /\ UNCHANGED <<platform, eventVars, channel, connected, cached, client, dev, answer, calls,
                 faults, ends>>

\* Only a time-out is passed over; a scan that got complete is published.
CacherReads ==
  /\ Alive /\ cacher = "read"
  /\ \/ /\ rd["cacher"].at = "fail" /\ CacherEnds
        /\ UNCHANGED <<eventVars, cached>>
     \/ /\ rd["cacher"].at \in {"ok", "late"}
        /\ cacher' = "test" /\ rd' = [rd EXCEPT !["cacher"] = out]
        /\ UNCHANGED <<scanning, cachethread>>
        /\ \/ UNCHANGED <<eventVars, cached>>
           \/ rd["cacher"].at = "ok" /\ cached' = TRUE /\ SetEvent
  /\ UNCHANGED <<platform, channel, connected, client, dev, answer, calls, faults, ends>>

(***************************************************************************)
(* The device and the line.  Bytes arrive one at a time, or not; a reader  *)
(* that waits on Win32 is told of each.  What comes, or fails, while       *)
(* nobody reads or sends is delivered when the next stage that could       *)
(* notice begins.                                                          *)
(***************************************************************************)
Listening == \E r \in Readers : rd[r].at \in {"loop", "arm", "wait", "ready"}

Arrives(byte) ==
  /\ rx' = Append(rx, byte)
  /\ rd' = [r \in Readers |->
              IF rd[r].at = "arm" THEN [rd[r] EXCEPT !.watch = {"new"}]
              ELSE IF rd[r].watch = {"armed"} THEN [rd[r] EXCEPT !.watch = {"fired"}]
              ELSE rd[r]]

Deliver ==
  /\ Alive /\ Linked /\ dev.line # <<>>
  /\ Listening
  /\ Arrives(Head(dev.line))
  /\ dev' = [dev EXCEPT !.line = Tail(@)]
  /\ UNCHANGED <<platform, hal, port, table, sock, flags, client, cacher, answer, calls,
                 faults, ends>>

Measure ==
  /\ Alive /\ dev.streaming /\ dev.sent < MaxNodes
  /\ dev' = [dev EXCEPT !.line = @ \o Node, !.sent = @ + 1]
  /\ UNCHANGED <<platform, hal, channel, flags, client, cacher, rd, answer, calls, faults, ends>>

Fault ==
  /\ Alive /\ Linked /\ ~dev.gone
  /\ calls >= FirstFault /\ faults < MaxFaults /\ faults' = faults + 1

\* Noise on the line, or a byte that happens to look like the start of an
\* answer.
Stray ==
  /\ Fault /\ Listening
  /\ Arrives(Byte("A5", 0))
  /\ UNCHANGED <<platform, hal, port, table, sock, flags, client, cacher, dev, answer, calls,
                 ends>>

\* The error is found, and what was received dropped, by the wait.
LineError ==
  /\ Fault /\ os = "win32" /\ kind = "serial" /\ rx # <<>>
  /\ \E r \in Readers : rd[r].at = "loop"
  /\ rx' = WinRxQueue(TRUE, rx)
  /\ UNCHANGED <<platform, hal, port, table, sock, flags, client, cacher, rd, dev, answer,
                 calls, ends>>

Unplug ==
  /\ Fault /\ (Listening \/ At("ask") \/ At("tell"))
  /\ dev' = [Silent EXCEPT !.gone = TRUE]
  /\ UNCHANGED <<platform, hal, channel, flags, client, cacher, rd, answer, calls, ends>>

-----------------------------------------------------------------------------
ClientStep ==
  \/ OpenSerial \/ OpenTCP \/ Disable \/ Join \/ Tell \/ Ask \/ Header \/ PayloadRead \/ Create
  \/ Grab \/ GrabWoken \/ GrabTakes \/ CloseTCP \/ Destroy \/ UseNull \/ JoinAgain

EventSteps ==
  /\ Alive /\ EventStep("client")
  /\ UNCHANGED <<platform, cachethread, channel, linkVars>>

CacherStep == CacherDiscards \/ CacherTests \/ CacherReads

Next ==
  \/ \E call \in {"connect", "query", "start", "stop", "grab", "disconnect", "delete"} : Call(call)
  \/ ClientStep \/ EventSteps \/ CacherStep
  \/ \E r \in Readers : ReaderStep(r) \/ TimeOver(r)
  \/ Deliver \/ Measure \/ Stray \/ LineError \/ Unplug

\* The operating system runs every thread that can run and ends every wait
\* whose time is over; the clock that the loops read goes on.  Nothing is
\* assumed of the device.
Fairness ==
  /\ WF_vars(ClientStep) /\ WF_vars(EventSteps) /\ WF_vars(CacherStep)
  /\ \A r \in Readers : WF_vars(ReaderStep(r)) /\ SF_vars(TimeOver(r))

Spec == Init /\ [][Next]_vars /\ Fairness

-----------------------------------------------------------------------------
(***************************************************************************)
(* An exchange (getHealth and its like, rplidar_driver.cpp:188) that       *)
(* returns RESULT_OK heard the header of the answer to its own request and *)
(* took all of its payload.  The exceptions are stray bytes, errors and a  *)
(* device unplugged; the rest of an earlier answer that was given up,      *)
(* which nobody flushes; and over TCP the first part of the payload only.  *)
(* A header that began and was passed over (line 170) needs a stray byte   *)
(* before it, too.                                                         *)
(***************************************************************************)
ExchangeSound ==
  \/ faults > 0
  \/ /\ ~rd["client"].got.missed
     /\ At("payload") /\ rd["client"].at = "ok" /\ ~answer.stale =>
          /\ answer.heard = calls
          /\ IF kind = "serial" THEN answer.data = Payload(calls)
             ELSE answer.data # <<>> /\ IsPrefix(answer.data, Payload(calls))

(***************************************************************************)
(* A driver that is connected has its channel: the serial port is open     *)
(* even after disconnect() (rplidar_driver.cpp:2242), the socket is        *)
(* connected until then, and to the address that was named unless the name *)
(* was not a number, which takes a program on Linux or macOS to its own    *)
(* host (SocketAddress of net_socket.cpp).                                 *)
(***************************************************************************)
ConnectedMeansOpen ==
  connected /\ ~deleted /\ ~closed =>
    IF kind = "serial" THEN port.opened /\ port.fd = "port"
    ELSE /\ sock.ref = "live" /\ sock.peer.port = PortNumber % PortBits
         /\ sock.peer.host = "device" \/ (sock.peer.host = "any" /\ posix)

(***************************************************************************)
(* What the driver opens it closes, once.  After DisposeDriver nothing is  *)
(* left but the socket of a TCP driver that never was connected, and only  *)
(* macOS loses its standard input, by a driver that never tried to connect *)
(* (raw_serial::_init).  What is gone is used again in two ways only: a    *)
(* thread joined twice on Linux and macOS, and the NULL socket of a TCP    *)
(* driver after disconnect() or for want of a socket.                      *)
(***************************************************************************)
ReleasedOnce ==
  /\ \A d \in Descriptors : table[d] \in {0, 1}
  /\ table["stdin"] = 0 => os = "macOS" /\ deleted
  /\ deleted => /\ \A d \in {"port", "pipeRead", "pipeWrite"} : table[d] = 0
                /\ table["socket"] = 1 => ~connected
  /\ crashed = "staleJoin" => posix
  /\ crashed = "nullSocket" => kind = "tcp" /\ (closed \/ ~connected)

(***************************************************************************)
(* Every call returns, whatever the device does and whether or not it is   *)
(* there, with one exception: on Linux and macOS a frame that stops in the *)
(* middle keeps the serial wait going (net_serial.cpp, waitfordata), which *)
(* holds up the caller, or the thread that the caller joins.               *)
(***************************************************************************)
HeldByFragment ==
  /\ kind = "serial" /\ posix
  /\ \E r \in Readers : rd[r].at = "wait" /\ rx # <<>> /\ Len(rx) < Need(r)
CallsEnd == []<>(Idle \/ ~Alive) \/ <>[]HeldByFragment

(***************************************************************************)
(* The bytes of the channel go to one reader at a time, in order, and as   *)
(* many at once as it waited for: the two read loops, the joins that keep  *)
(* them apart and the waits of all platforms implement ByteChannel.        *)
(***************************************************************************)
Phases == [r \in Readers |->
  IF rd[r].at \in {"wait", "arm"} THEN [at |-> "waiting", need |-> Need(r)]
  ELSE IF rd[r].at = "ready" THEN [at |-> "ready", need |-> Need(r)]
  ELSE [at |-> "idle", need |-> 0]]

Channel == INSTANCE ByteChannel WITH
  Bytes <- [b : {"A5", "5A", "p1", "p2", "n1", "n2"} \cup Types, req : 0 .. MaxCalls + 1],
  Needs <- 1 .. 3, whole <- kind = "serial", queue <- rx, gone <- dev.gone, reading <- Phases

ImplementsByteChannel == Channel!Spec
=============================================================================

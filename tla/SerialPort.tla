----------------------------- MODULE SerialPort -----------------------------
(***************************************************************************)
(* rp::arch::net::raw_serial, the serial port of each platform             *)
(* (arch/linux, arch/macOS and arch/win32/net_serial.cpp).  The object     *)
(* holds the descriptor of the port and, on Linux, both ends of the pipe   *)
(* that cancelOperation() writes to; `table' counts what the process has   *)
(* open, so that a descriptor closed twice, never or by mistake shows.     *)
(*                                                                         *)
(* Every operation is the set of the outcomes it may have.  The termios    *)
(* settings and the overlapped structures are left out: what counts of     *)
(* them is that each may fail.                                             *)
(***************************************************************************)
EXTENDS Platform, Integers

VARIABLES
  port,   \* the raw_serial object: opened, the descriptor it holds, has a pipe
  table,  \* how many descriptors of each sort the process has open
  rx      \* the bytes the operating system has received and nobody read

Descriptors == {"stdin", "port", "pipeRead", "pipeWrite", "socket"}

NothingOpen == [d \in Descriptors |-> IF d = "stdin" THEN 1 ELSE 0]
Opened(t, ds) == [d \in Descriptors |-> IF d \in ds THEN t[d] + 1 ELSE t[d]]
Closed(t, ds) == [d \in Descriptors |-> IF d \in ds THEN t[d] - 1 ELSE t[d]]

(***************************************************************************)
(* Construction.  macOS's _init() sets serial_fd to 0, which is the        *)
(* standard input, where the others set it to an invalid value.            *)
(***************************************************************************)
LinuxInit == [opened |-> FALSE, fd |-> "none", pipe |-> FALSE]
MacInit == [opened |-> FALSE, fd |-> "stdin", pipe |-> FALSE]
WinInit == [opened |-> FALSE, fd |-> "none", pipe |-> FALSE]

NewPort ==
  CASE os = "linux" -> LinuxInit
    [] os = "macOS" -> MacInit
    [] os = "win32" -> WinInit

\* (mutant) the pipe is forgotten
LinuxClose_KeepsPipe(p, t) ==
  [ port |-> [opened |-> FALSE, fd |-> "none", pipe |-> FALSE],
    table |-> Closed(t, {p.fd} \ {"none"}) ]

(***************************************************************************)
(* close().  CloseHandle on the invalid handle of a port that is not open  *)
(* does nothing on Win32.                                                  *)
(***************************************************************************)
LinuxClose(p, t) ==
  [ port  |-> [opened |-> FALSE, fd |-> "none", pipe |-> FALSE],
    table |-> Closed(t, ({p.fd} \ {"none"})
                        \cup (IF p.pipe THEN {"pipeRead", "pipeWrite"} ELSE {})) ]
MacClose(p, t) ==
  [ port  |-> [p EXCEPT !.opened = FALSE, !.fd = "none"],
    table |-> Closed(t, {p.fd} \ {"none"}) ]
WinClose(p, t) ==
  [ port  |-> [p EXCEPT !.opened = FALSE, !.fd = "none"],
    table |-> Closed(t, {p.fd} \ {"none"}) ]

ClosePort(p, t) ==
  CASE os = "linux" -> LinuxClose(p, t)
    [] os = "macOS" -> MacClose(p, t)
    [] os = "win32" -> WinClose(p, t)

(***************************************************************************)
(* open(): what was open is closed first; the system may refuse the port,  *)
(* or a setting of it, after which it is closed again.  On Linux a pipe    *)
(* that cannot be made is left out and the port counts as open all the     *)
(* same.                                                                   *)
(***************************************************************************)
Outcome(s, ok) == [port |-> s.port, table |-> s.table, ok |-> ok]
HasPort(s, fd) == [port |-> [s.port EXCEPT !.fd = fd],
                   table |-> IF fd = "port" THEN Opened(s.table, {"port"}) ELSE s.table]
Afresh(p, t) == IF p.opened THEN ClosePort(p, t) ELSE [port |-> p, table |-> t]

\* (mutant) open() goes on after a setting was refused and the port closed
LinuxOpen_GoesOn(p, t) ==
  LET got == HasPort(Afresh(p, t), "port")
  IN  {Outcome(LinuxClose(got.port, got.table), TRUE)}

LinuxOpen(p, t) ==
  LET refused == HasPort(Afresh(p, t), "none")
      got == HasPort(Afresh(p, t), "port")
      ready(piped) ==
        [ port  |-> [got.port EXCEPT !.opened = TRUE, !.pipe = piped],
          table |-> Opened(got.table, IF piped THEN {"pipeRead", "pipeWrite"} ELSE {}) ]
  IN  {Outcome(refused, FALSE), Outcome(LinuxClose(got.port, got.table), FALSE)}
      \cup {Outcome(ready(piped), TRUE) : piped \in BOOLEAN}

MacOpen(p, t) ==
  LET refused == HasPort(Afresh(p, t), "none")
      got == HasPort(Afresh(p, t), "port")
      ready == [got EXCEPT !.port.opened = TRUE]
  IN  {Outcome(refused, FALSE), Outcome(MacClose(got.port, got.table), FALSE),
       Outcome(ready, TRUE)}

WinOpen(p, t) ==
  LET refused == HasPort(Afresh(p, t), "none")
      got == HasPort(Afresh(p, t), "port")
      ready == [got EXCEPT !.port.opened = TRUE]
  IN  {Outcome(refused, FALSE), Outcome(WinClose(got.port, got.table), FALSE),
       Outcome(ready, TRUE)}

OpenPort(p, t) ==
  CASE os = "linux" -> LinuxOpen(p, t)
    [] os = "macOS" -> MacOpen(p, t)
    [] os = "win32" -> WinOpen(p, t)

(***************************************************************************)
(* senddata(): how much of n reaches the line.  The descriptors do not     *)
(* block, and an error of write ends the loop with what was written; on    *)
(* Win32 one overlapped write is started and its end not waited for.       *)
(***************************************************************************)
LinuxSend(p, n) == IF p.opened THEN 0 .. n ELSE {0}
MacSend(p, n) == IF p.opened THEN 0 .. n ELSE {0}
WinSend(p, n) == IF p.opened THEN {0, n} ELSE {0}

SendPort(p, n) ==
  CASE os = "linux" -> LinuxSend(p, n)
    [] os = "macOS" -> MacSend(p, n)
    [] os = "win32" -> WinSend(p, n)

\* recvdata(): how much of n is read at once of what was received; an error
\* of the read counts as nothing.
LinuxRecv(p, there, n) == IF p.opened THEN Least(there, n) ELSE 0
MacRecv(p, there, n) == IF p.opened THEN Least(there, n) ELSE 0
WinRecv(p, there, n) == IF p.opened THEN Least(there, n) ELSE 0

RecvPort(p, there, n) ==
  CASE os = "linux" -> LinuxRecv(p, there, n)
    [] os = "macOS" -> MacRecv(p, there, n)
    [] os = "win32" -> WinRecv(p, there, n)

(***************************************************************************)
(* waitfordata(), from one state of the wait to the next.  `watch' is what *)
(* it waits on: the members of the set given to select, which select       *)
(* leaves in it for the next round only if they were ready, or the event   *)
(* armed on Win32.  `there' is how many bytes were received and `gone'     *)
(* that the device was unplugged, which makes the port readable and        *)
(* FIONREAD fail.                                                          *)
(***************************************************************************)
Round(at, watch) == [at |-> at, watch |-> watch]

\* Before the first select: FIONREAD, or ClearCommError.
LinuxCheck(p, need, there, gone) ==
  IF ~p.opened \/ gone THEN Round("fail", {})
  ELSE IF there >= need THEN Round("ready", {})
  ELSE Round("wait", {"port"} \cup (IF p.pipe THEN {"pipe"} ELSE {}))
MacCheck(p, need, there, gone) ==
  IF ~p.opened \/ gone THEN Round("fail", {})
  ELSE IF there >= need THEN Round("ready", {})
  ELSE Round("wait", {"port"})
\* rxqueue_count() does not look at whether ClearCommError failed, as it may
\* once the device is gone, and then answers with a COMSTAT that nobody wrote.
\* Only the outcome that is the number of bytes received is modelled.
WinCheck(p, need, there, gone) ==
  IF ~p.opened THEN Round("fail", {})
  ELSE IF there >= need THEN Round("ready", {})
  ELSE Round("arm", {})

CheckPort(p, need, there, gone) ==
  CASE os = "linux" -> LinuxCheck(p, need, there, gone)
    [] os = "macOS" -> MacCheck(p, need, there, gone)
    [] os = "win32" -> WinCheck(p, need, there, gone)

\* WaitCommEvent is armed after the queue was looked at, and the mask set
\* anew just before: whether a byte that came in between (`new') fires the
\* event is up to the driver of the port.
WinArm(watch, gone) ==
  IF gone THEN {Round("fail", {})}
  ELSE {Round("wait", {"armed"})} \cup (IF watch = {"new"} THEN {Round("wait", {"fired"})} ELSE {})

\* (mutant) readable is taken for enough
PosixReady_Any(need, there, gone) ==
  IF gone THEN Round("fail", {}) ELSE Round("ready", {})

\* select returns: with too few bytes the loop calls it again with the set
\* it left, so that the pipe is in it for the first call only.  FD_ISSET is
\* asked about the pipe even if there is none (-1): undefined, an abort where
\* the library checks the index.  The pipe itself never becomes readable: the
\* one caller of cancelOperation is the destructor of the driver, which has
\* joined the thread that reads.
PosixReady(need, there, gone) ==
  IF gone THEN Round("fail", {})
  ELSE IF there >= need THEN Round("ready", {})
  ELSE Round("wait", {"port"})
LinuxSelect(p, need, there, gone) ==
  IF there = 0 /\ ~gone THEN {}
  ELSE {PosixReady(need, there, gone)}
       \cup (IF p.pipe THEN {} ELSE {Round("aborted", {})})
MacSelect(p, need, there, gone) ==
  IF there = 0 /\ ~gone THEN {} ELSE {PosixReady(need, there, gone)}
\* The event fired: ClearCommError tells how many bytes there are, and too
\* few of them go round the loop.
WinSelect(p, need, there, gone, watch) ==
  IF gone THEN {Round("fail", {})}
  ELSE IF watch # {"fired"} THEN {}
  ELSE IF there >= need THEN {Round("ready", {})}
  ELSE {Round("arm", {})}

SelectPort(p, need, there, gone, watch) ==
  CASE os = "linux" -> LinuxSelect(p, need, there, gone)
    [] os = "macOS" -> MacSelect(p, need, there, gone)
    [] os = "win32" -> WinSelect(p, need, there, gone, watch)

\* The time-out ends a select that finds nothing, and WaitForSingleObject
\* while the event did not fire; a select that returns at once does not use
\* its time up.
LinuxTimesOut(there, gone) == there = 0 /\ ~gone
MacTimesOut(there, gone) == there = 0 /\ ~gone
WinTimesOut(gone, watch) == ~gone /\ watch = {"armed"}

PortTimesOut(there, gone, watch) ==
  CASE os = "linux" -> LinuxTimesOut(there, gone)
    [] os = "macOS" -> MacTimesOut(there, gone)
    [] os = "win32" -> WinTimesOut(gone, watch)

\* rxqueue_count() on Win32: what was received is thrown away when the line
\* reported an error.
WinRxQueue(damaged, received) == IF damaged THEN <<>> ELSE received
=============================================================================

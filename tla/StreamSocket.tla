---------------------------- MODULE StreamSocket ----------------------------
(***************************************************************************)
(* rp::net::SocketAddress and rp::arch::net::StreamSocketImpl, the TCP     *)
(* client of each platform (arch/linux, arch/macOS, arch/win32             *)
(* net_socket.cpp), as TCPChannelDevice uses them.  The socket object and  *)
(* its descriptor live and die together; what the operating system answers *)
(* is the set of the outcomes of an operation.                             *)
(***************************************************************************)
EXTENDS Platform, Integers

VARIABLE
  sock  \* _binded_socket: ref null or live, and the address it is connected to

Families == {"INET", "INET6"}

\* Names the application may give: one in numbers, which inet_pton and
\* WSAStringToAddress understand, and one that only a resolver would.
Names == {"numeric", "hostName"}
Hosts == {"any", "device"}
HostOf(name, otherwise) == IF name = "numeric" THEN "device" ELSE otherwise

(***************************************************************************)
(* SocketAddress.  An address that was not understood is left as it was,   *)
(* and nobody looks at the result of setAddressFromString; the port is 16  *)
(* bits wide and kept when the address changes.                            *)
(***************************************************************************)
PortBits == 65536
Blank == [family |-> "INET", host |-> "any", port |-> 0]

LinuxAddressType(a) == IF a.family \in Families THEN a.family ELSE "INET"
LinuxGetPort(a) == IF LinuxAddressType(a) \in Families THEN a.port ELSE 0
LinuxSetPort(a, p) ==
  IF LinuxAddressType(a) \in Families THEN [a EXCEPT !.port = p % PortBits] ELSE a
LinuxFromString(a, name, type) ==
  LET parsed == [a EXCEPT !.family = type, !.host = HostOf(name, a.host)]
  IN  IF type \in Families THEN LinuxSetPort(parsed, LinuxGetPort(a)) ELSE a
LinuxAddress(name, p) == LinuxSetPort(LinuxFromString(Blank, name, "INET"), p)

MacSetPort(a, p) == [a EXCEPT !.port = p % PortBits]
MacFromString(a, name, type) ==
  [MacSetPort(a, a.port) EXCEPT !.family = type, !.host = HostOf(name, a.host)]
MacAddress(name, p) == MacSetPort(MacFromString(Blank, name, "INET"), p)

\* _inet_pton: WSAStringToAddress, 1 or -1.
WinPton(name, host) == [host |-> HostOf(name, host), ans |-> IF name = "numeric" THEN 1 ELSE -1]
WinSetPort(a, p) == [a EXCEPT !.port = p % PortBits]
WinFromString(a, name, type) ==
  WinSetPort([a EXCEPT !.family = type, !.host = WinPton(name, a.host).host], a.port)
WinAddress(name, p) == WinSetPort(WinFromString(Blank, name, "INET"), p)

Address(name, p) ==
  CASE os = "linux" -> LinuxAddress(name, p)
    [] os = "macOS" -> MacAddress(name, p)
    [] os = "win32" -> WinAddress(name, p)

(***************************************************************************)
(* CreateSocket() and the constructor.  NULL when the system has no socket *)
(* (on Win32 also when WSAStartup failed).                                 *)
(***************************************************************************)
NoPeer == [family |-> "INET", host |-> "none", port |-> 0]
NullSocket == [ref |-> "null", peer |-> NoPeer]
LinuxStreamSocket == [ref |-> "live", peer |-> NoPeer]
MacStreamSocket == [ref |-> "live", peer |-> NoPeer]
WinStreamSocket == [ref |-> "live", peer |-> NoPeer]

LinuxCreateSocket(granted) == IF granted THEN LinuxStreamSocket ELSE NullSocket
MacCreateSocket(granted) == IF granted THEN MacStreamSocket ELSE NullSocket
WinCreateSocket(started, granted) ==
  IF started /\ granted THEN WinStreamSocket ELSE NullSocket

CreateSocket ==
  CASE os = "linux" -> {LinuxCreateSocket(granted) : granted \in BOOLEAN}
    [] os = "macOS" -> {MacCreateSocket(granted) : granted \in BOOLEAN}
    [] os = "win32" -> {WinCreateSocket(st, gr) : st \in BOOLEAN, gr \in BOOLEAN}

(***************************************************************************)
(* connect(): the address 0.0.0.0 is the local host on Linux and macOS and *)
(* an error on Win32.  Every result but RESULT_OK leaves the socket as it  *)
(* was, to be connected again.                                             *)
(***************************************************************************)
Connected(s, a) == [sock |-> [s EXCEPT !.peer = a], result |-> "ok"]
NotConnected(s, result) == [sock |-> s, result |-> result]
ConnectErrors == {"notSupported", "timeout", "fail"}

LinuxConnect(s, a) == {Connected(s, a)} \cup {NotConnected(s, e) : e \in ConnectErrors}
MacConnect(s, a) == {Connected(s, a)} \cup {NotConnected(s, e) : e \in ConnectErrors}
WinConnect(s, a) ==
  {NotConnected(s, e) : e \in ConnectErrors}
  \cup (IF a.host = "any" THEN {} ELSE {Connected(s, a)})

ConnectSocket(s, a) ==
  CASE os = "linux" -> LinuxConnect(s, a)
    [] os = "macOS" -> MacConnect(s, a)
    [] os = "win32" -> WinConnect(s, a)

(***************************************************************************)
(* send(): how much of n leaves, once the peer is gone nothing.  A short   *)
(* count is an error of send() on Linux and macOS; on Win32 the call is    *)
(* asserted to take all of it or fail.                                     *)
(***************************************************************************)
LinuxSocketSend(gone, n) == IF gone THEN {0} ELSE 0 .. n
MacSocketSend(gone, n) == IF gone THEN {0} ELSE 0 .. n
WinSocketSend(gone, n) == IF gone THEN {0} ELSE {0, n}

SendSocket(gone, n) ==
  CASE os = "linux" -> LinuxSocketSend(gone, n)
    [] os = "macOS" -> MacSocketSend(gone, n)
    [] os = "win32" -> WinSocketSend(gone, n)

\* recv(): at least one byte of those that are there, up to n; none from a
\* peer that closed, or when recv fails, which sets recv_len to 0 as well.
LinuxSocketRecv(there, n) == IF there = 0 THEN {0} ELSE 1 .. Least(there, n)
MacSocketRecv(there, n) == IF there = 0 THEN {0} ELSE 1 .. Least(there, n)
WinSocketRecv(there, n) == IF there = 0 THEN {0} ELSE 1 .. Least(there, n)

RecvSocket(there, n) ==
  CASE os = "linux" -> LinuxSocketRecv(there, n)
    [] os = "macOS" -> MacSocketRecv(there, n)
    [] os = "win32" -> WinSocketRecv(there, n)

\* waitforData(): select on the one descriptor, readable with the first byte
\* and for ever once the peer has closed.
LinuxReadable(there, gone) == there > 0 \/ gone
MacReadable(there, gone) == there > 0 \/ gone
WinReadable(there, gone) == there > 0 \/ gone

Readable(there, gone) ==
  CASE os = "linux" -> LinuxReadable(there, gone)
    [] os = "macOS" -> MacReadable(there, gone)
    [] os = "win32" -> WinReadable(there, gone)

\* dispose() and the destructor, which closes the descriptor; the caller
\* forgets the object.
LinuxDispose(s) == NullSocket
MacDispose(s) == NullSocket
WinDispose(s) == NullSocket

DisposeSocket(s) ==
  CASE os = "linux" -> LinuxDispose(s)
    [] os = "macOS" -> MacDispose(s)
    [] os = "win32" -> WinDispose(s)
=============================================================================

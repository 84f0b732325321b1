-------------------------- MODULE DriverLinkProofs --------------------------
(***************************************************************************)
(* What holds of the driver above its channel, on every platform and for   *)
(* any number of calls, measurements and faults.                           *)
(*                                                                         *)
(* LinkInv: a driver that is connected has its channel, and what was       *)
(* opened is closed once.  It relates the object of the port to the        *)
(* descriptors of the process, and the state of the driver to the stages   *)
(* the call in progress still has to go through.                           *)
(*                                                                         *)
(* ControlInv and ReadInv: one thread reads at a time, the client only     *)
(* after it joined the caching thread, so every step is one of ByteChannel *)
(* or leaves the channel alone.                                            *)
(*                                                                         *)
(* StreamInv: the bytes received, followed by those on the line, hold the  *)
(* answer to the request at the place of the parser that waits for it, so  *)
(* an exchange that succeeds took its own answer.                          *)
(***************************************************************************)
EXTENDS DriverLink, HalEventProofs, SequenceTheorems, TLAPS

-----------------------------------------------------------------------------
(* The serial port and the descriptors it accounts for.                    *)

\* The port object of each platform, in the middle of open() too ...
PortObject(p) ==
  /\ p \in [opened : BOOLEAN, fd : {"none", "stdin", "port"}, pipe : BOOLEAN]
  /\ p.pipe => os = "linux"
  /\ p.fd = "stdin" => os = "macOS"

\* ... and between calls: it counts as open when it holds a port, and has a
\* pipe only then.
PortOK(p) ==
  /\ PortObject(p)
  /\ p.opened <=> p.fd = "port"
  /\ p.pipe => p.opened

\* The descriptors open in the process are those the object holds.
Accounts(p, t) ==
  /\ t \in [Descriptors -> {0, 1}]
  /\ t["port"] = 1 <=> p.fd = "port"
  /\ t["pipeRead"] = 1 <=> p.pipe
  /\ t["pipeWrite"] = 1 <=> p.pipe
  /\ p.fd = "stdin" => t["stdin"] = 1

\* close() leaves nothing of the port, takes the standard input only from an
\* object that holds it, and leaves other descriptors alone.
LEMMA CloseAccounts ==
  ASSUME os \in Systems, NEW p, NEW t, PortObject(p), Accounts(p, t)
  PROVE  LET c == ClosePort(p, t)
         IN  /\ PortOK(c.port) /\ Accounts(c.port, c.table) /\ c.port.fd = "none"
             /\ c.table["socket"] = t["socket"]
             /\ p.fd # "stdin" => c.table["stdin"] = t["stdin"]
<1> DEFINE gone == ({p.fd} \ {"none"}) \cup (IF p.pipe THEN {"pipeRead", "pipeWrite"} ELSE {})
           c == ClosePort(p, t)
<1>1. /\ PortOK(c.port) /\ c.port.fd = "none" /\ ~c.port.pipe
      /\ c.table = Closed(t, gone)
  <2>1. CASE os = "linux"
    BY <2>1 DEF ClosePort, LinuxClose, PortOK, PortObject
  <2>2. CASE os # "linux"
    <3>1. ~p.pipe
      BY <2>2 DEF PortObject
    <3>2. gone = {p.fd} \ {"none"}
      BY <3>1
    <3>3. c.port = [p EXCEPT !.opened = FALSE, !.fd = "none"] /\ c.table = Closed(t, gone)
      BY <2>2, <3>2 DEF ClosePort, MacClose, WinClose, Systems
    <3>4. PortOK(c.port) /\ c.port.fd = "none" /\ ~c.port.pipe
      BY <3>1, <3>3 DEF PortOK, PortObject
    <3>. QED
      BY <3>3, <3>4
  <2>. QED
    BY <2>1, <2>2
<1>2. \A d \in Descriptors : c.table[d] = IF d \in gone THEN t[d] - 1 ELSE t[d]
  BY <1>1 DEF Closed
<1>3. \A d \in gone : d \in Descriptors /\ t[d] = 1
  BY DEF PortObject, Accounts, Descriptors
<1>4. c.table \in [Descriptors -> {0, 1}]
  BY <1>1, <1>2, <1>3 DEF Closed, Accounts
<1>5. c.table["port"] = 0
  BY <1>2, <1>3 DEF PortObject, Accounts, Descriptors
<1>6. c.table["pipeRead"] = 0 /\ c.table["pipeWrite"] = 0
  BY <1>2, <1>3 DEF PortObject, Accounts, Descriptors
<1>7. c.table["socket"] = t["socket"] /\ (p.fd # "stdin" => c.table["stdin"] = t["stdin"])
  BY <1>2 DEF PortObject, Descriptors
<1>. QED
  BY <1>1, <1>4, <1>5, <1>6, <1>7 DEF Accounts

\* open() ends with a port that is held and counts as open, or with neither.
LEMMA OpenAccounts ==
  ASSUME os \in Systems, NEW p, NEW t, PortOK(p), Accounts(p, t), NEW o \in OpenPort(p, t)
  PROVE  /\ PortOK(o.port) /\ Accounts(o.port, o.table)
         /\ o.ok \in BOOLEAN /\ (o.ok => o.port.opened)
         /\ o.table["socket"] = t["socket"] /\ o.table["stdin"] = t["stdin"]
<1> DEFINE a == Afresh(p, t)
           refused == HasPort(a, "none")
           got == HasPort(a, "port")
           shut == ClosePort(got.port, got.table)
           pipe(piped) == IF piped THEN {"pipeRead", "pipeWrite"} ELSE {}
<1>1. /\ PortOK(a.port) /\ Accounts(a.port, a.table) /\ a.port.fd # "port"
      /\ a.table["socket"] = t["socket"] /\ a.table["stdin"] = t["stdin"]
  BY CloseAccounts DEF Afresh, PortOK, PortObject
<1>2. /\ PortOK(refused.port) /\ Accounts(refused.port, refused.table)
      /\ refused.table = a.table
  BY <1>1 DEF HasPort, PortOK, PortObject, Accounts
<1>3. /\ PortObject(got.port) /\ got.port.fd = "port" /\ ~got.port.opened /\ ~got.port.pipe
  BY <1>1 DEF HasPort, PortOK, PortObject
<1>4. /\ Accounts(got.port, got.table)
      /\ got.table["socket"] = t["socket"] /\ got.table["stdin"] = t["stdin"]
  <2>1. got.table = Opened(a.table, {"port"})
    BY DEF HasPort
  <2>2. a.table["port"] = 0 /\ a.table["pipeRead"] = 0 /\ a.table["pipeWrite"] = 0
    BY <1>1 DEF Accounts, PortOK, Descriptors
  <2>. QED
    BY <1>1, <1>3, <2>1, <2>2 DEF Accounts, Opened, Descriptors
<1>5. /\ PortOK(shut.port) /\ Accounts(shut.port, shut.table)
      /\ shut.table["socket"] = t["socket"] /\ shut.table["stdin"] = t["stdin"]
  BY <1>3, <1>4, CloseAccounts
<1>6. ASSUME NEW piped \in BOOLEAN, piped => os = "linux",
             o.port = [got.port EXCEPT !.opened = TRUE, !.pipe = piped],
             o.table = Opened(got.table, pipe(piped))
      PROVE  /\ PortOK(o.port) /\ Accounts(o.port, o.table) /\ o.port.opened
             /\ o.table["socket"] = t["socket"] /\ o.table["stdin"] = t["stdin"]
  <2>1. PortOK(o.port) /\ o.port.opened /\ o.port.fd = "port" /\ (o.port.pipe <=> piped)
    BY <1>3, <1>6 DEF PortOK, PortObject
  <2>2. \A d \in Descriptors : o.table[d] = IF d \in pipe(piped) THEN got.table[d] + 1 ELSE got.table[d]
    BY <1>6 DEF Opened
  <2>3. got.table["pipeRead"] = 0 /\ got.table["pipeWrite"] = 0 /\ got.table["port"] = 1
    BY <1>3, <1>4 DEF Accounts, Descriptors
  <2>4. /\ o.table["port"] = 1
        /\ o.table["socket"] = t["socket"] /\ o.table["stdin"] = t["stdin"]
    BY <1>4, <2>2, <2>3 DEF Descriptors
  <2>5. CASE piped
    BY <1>4, <1>6, <2>1, <2>2, <2>3, <2>4, <2>5 DEF Accounts, Descriptors, Opened
  <2>6. CASE ~piped
    BY <1>4, <1>6, <2>1, <2>2, <2>3, <2>4, <2>6 DEF Accounts, Descriptors, Opened
  <2>. QED
    BY <2>1, <2>4, <2>5, <2>6
<1>7. CASE os = "linux"
  <2>1. \/ o = Outcome(refused, FALSE)
        \/ o = Outcome(LinuxClose(got.port, got.table), FALSE)
        \/ \E piped \in BOOLEAN :
             o = Outcome([port |-> [got.port EXCEPT !.opened = TRUE, !.pipe = piped],
                          table |-> Opened(got.table, pipe(piped))], TRUE)
    BY <1>7 DEF OpenPort, LinuxOpen
  <2>2. CASE o = Outcome(refused, FALSE)
    BY <1>1, <1>2, <2>2 DEF Outcome
  <2>3. CASE o = Outcome(LinuxClose(got.port, got.table), FALSE)
    BY <1>5, <1>7, <2>3 DEF Outcome, ClosePort
  <2>4. ASSUME NEW piped \in BOOLEAN,
               o = Outcome([port |-> [got.port EXCEPT !.opened = TRUE, !.pipe = piped],
                            table |-> Opened(got.table, pipe(piped))], TRUE)
        PROVE  /\ o.port = [got.port EXCEPT !.opened = TRUE, !.pipe = piped]
               /\ o.table = Opened(got.table, pipe(piped)) /\ o.ok = TRUE
    BY <2>4, Zenon DEF Outcome
  <2>. QED
    BY <1>6, <1>7, <2>1, <2>2, <2>3, <2>4
<1>8. CASE os # "linux"
  <2>1. \/ o = Outcome(refused, FALSE)
        \/ o = Outcome(shut, FALSE)
        \/ o = Outcome([got EXCEPT !.port.opened = TRUE], TRUE)
    BY <1>8 DEF OpenPort, MacOpen, WinOpen, ClosePort, Systems
  <2>2. CASE o = Outcome(refused, FALSE)
    BY <1>1, <1>2, <2>2 DEF Outcome
  <2>3. CASE o = Outcome(shut, FALSE)
    BY <1>5, <2>3 DEF Outcome
  <2>4. CASE o = Outcome([got EXCEPT !.port.opened = TRUE], TRUE)
    <3>1. o.port = [got.port EXCEPT !.opened = TRUE] /\ o.table = got.table /\ o.ok = TRUE
      BY <2>4 DEF Outcome, HasPort
    <3>2. PortOK(o.port) /\ o.port.opened /\ o.port.fd = "port" /\ ~o.port.pipe
      BY <1>3, <3>1 DEF PortOK, PortObject
    <3>. QED
      BY <1>3, <1>4, <3>1, <3>2 DEF Accounts
  <2>. QED
    BY <2>1, <2>2, <2>3, <2>4
<1>. QED
  BY <1>7, <1>8

-----------------------------------------------------------------------------
(* The stages of a call.                                                   *)

Stages == {"open", "disable", "join", "tell", "ask", "header", "payload", "create",
           "wait", "take", "close", "destroy"}

Has(s, stage) == \E i \in 1 .. Len(s) : s[i] = stage

\* The driver is destroyed last, and a call that destroys it opens nothing.
Orderly(s) ==
  /\ s \in Seq(Stages)
  /\ \A i \in 1 .. Len(s) : s[i] = "destroy" => i = Len(s)
  /\ Has(s, "destroy") => ~Has(s, "open")

\* A call that has returned.
LEMMA NoStages == Orderly(<<>>) /\ \A stage : ~Has(<<>>, stage)
BY DEF Orderly, Has

\* A stage further on, only what was done is gone.
LEMMA NextStage ==
  ASSUME NEW s, Orderly(s), s # <<>>
  PROVE  /\ Orderly(Tail(s))
         /\ \A stage : Has(Tail(s), stage) => Has(s, stage)
         /\ \A stage : Has(s, stage) /\ Head(s) # stage => Has(Tail(s), stage)
         /\ Head(s) = "destroy" => Tail(s) = <<>>
<1> DEFINE left == Tail(s)
           n == Len(s)
<1>1. /\ s \in Seq(Stages) /\ n \in Nat \ {0} /\ Head(s) = s[1]
      /\ left \in Seq(Stages) /\ Len(left) = n - 1
      /\ \A i \in 1 .. n - 1 : left[i] = s[i + 1]
  BY DEF Orderly
<1>2. \A i \in 1 .. n : s[i] = "destroy" => i = n
  BY DEF Orderly
<1>3. \A stage : Has(s, stage) <=> \E i \in 1 .. n : s[i] = stage
  BY DEF Has
<1>. HIDE DEF left, n
<1>4. ASSUME NEW stage, Has(left, stage) PROVE Has(s, stage)
  <2>1. PICK i \in 1 .. n - 1 : left[i] = stage
    BY <1>1, <1>4 DEF Has
  <2>2. i + 1 \in 1 .. n /\ s[i + 1] = stage
    BY <1>1, <2>1
  <2>. QED
    BY <1>3, <2>2
<1>5. ASSUME NEW stage, Has(s, stage), s[1] # stage
      PROVE  Has(left, stage)
  <2>1. PICK i \in 1 .. n : s[i] = stage
    BY <1>3, <1>5
  <2>2. i - 1 \in 1 .. n - 1 /\ (i - 1) + 1 = i
    BY <1>1, <1>5, <2>1
  <2>3. left[i - 1] = s[(i - 1) + 1]
    BY <1>1, <2>2
  <2>4. i - 1 \in 1 .. Len(left) /\ left[i - 1] = stage
    BY <1>1, <2>1, <2>2, <2>3
  <2>. QED
    BY <2>4, Zenon DEF Has
<1>6. ASSUME s[1] = "destroy" PROVE left = <<>>
  <2>1. 1 = n
    BY <1>1, <1>2, <1>6
  <2>2. left \in Seq(Stages) /\ Len(left) = 0
    BY <1>1, <2>1, 1 - 1 = 0
  <2>. QED
    BY <2>2
<1>7. \A i \in 1 .. Len(left) : left[i] = "destroy" => i = Len(left)
  BY <1>1, <1>2
<1>8. Orderly(left)
  BY <1>1, <1>4, <1>7 DEF Orderly
<1>. QED
  BY <1>1, <1>4, <1>5, <1>6, <1>8, Zenon DEF left

\* Two parts one after the other.
LEMMA HasEither ==
  ASSUME NEW s \in Seq(Stages), NEW t \in Seq(Stages), NEW stage
  PROVE  Has(s \o t, stage) <=> Has(s, stage) \/ Has(t, stage)
<1>1. /\ s \o t \in Seq(Stages) /\ Len(s \o t) = Len(s) + Len(t)
      /\ \A i \in 1 .. Len(s) : (s \o t)[i] = s[i]
      /\ \A i \in 1 .. Len(t) : (s \o t)[Len(s) + i] = t[i]
  OBVIOUS
<1>2. ASSUME Has(s \o t, stage) PROVE Has(s, stage) \/ Has(t, stage)
  <2>1. PICK i \in 1 .. Len(s) + Len(t) : (s \o t)[i] = stage
    BY <1>1, <1>2 DEF Has
  <2>2. CASE i <= Len(s)
    BY <1>1, <2>1, <2>2 DEF Has
  <2>3. CASE i > Len(s)
    <3>1. i - Len(s) \in 1 .. Len(t) /\ Len(s) + (i - Len(s)) = i
      BY <2>3
    <3>. QED
      BY <1>1, <2>1, <3>1 DEF Has
  <2>. QED
    BY <2>2, <2>3
<1>3. ASSUME Has(s, stage) PROVE Has(s \o t, stage)
  BY <1>1, <1>3 DEF Has
<1>4. ASSUME Has(t, stage) PROVE Has(s \o t, stage)
  <2>1. PICK i \in 1 .. Len(t) : t[i] = stage
    BY <1>4 DEF Has
  <2>. QED
    BY <1>1, <2>1 DEF Has
<1>. QED
  BY <1>2, <1>3, <1>4

\* A call put together of two orderly parts.
LEMMA OrderlyJoin ==
  ASSUME NEW s, NEW t, Orderly(s), Orderly(t), ~Has(s, "destroy"),
         Has(t, "destroy") => ~Has(s, "open")
  PROVE  Orderly(s \o t)
<1>1. /\ s \in Seq(Stages) /\ t \in Seq(Stages)
      /\ s \o t \in Seq(Stages) /\ Len(s \o t) = Len(s) + Len(t)
      /\ \A i \in 1 .. Len(s) : (s \o t)[i] = s[i]
      /\ \A i \in 1 .. Len(t) : (s \o t)[Len(s) + i] = t[i]
  BY DEF Orderly
<1>2. ASSUME NEW i \in 1 .. Len(s \o t), (s \o t)[i] = "destroy"
      PROVE  i = Len(s \o t)
  <2>1. i > Len(s)
    BY <1>1, <1>2 DEF Has
  <2>2. i - Len(s) \in 1 .. Len(t) /\ Len(s) + (i - Len(s)) = i
    BY <1>1, <2>1
  <2>. QED
    BY <1>1, <1>2, <2>2 DEF Orderly
<1>3. Has(s \o t, "destroy") => ~Has(s \o t, "open")
  BY <1>1, HasEither DEF Orderly
<1>. QED
  BY <1>1, <1>2, <1>3 DEF Orderly

Close == <<"close">>
Open == <<"open">>
Begin == <<"ask", "header", "create">>
Take == <<"wait", "take">>
End == <<"destroy">>

\* The parts the calls are made of.
LEMMA Pieces ==
  /\ \A s \in {Exchange, Stop, Begin, Take, Close, Open, End} : Orderly(s)
  /\ \A s \in {Exchange, Stop, Begin, Take, Close, Open} : ~Has(s, "destroy")
  /\ \A s \in {Exchange, Stop, Begin, Take, Close, End} : ~Has(s, "open")
  /\ \A s \in {Exchange, Stop, Begin, Take, Open, End} : ~Has(s, "close")
  /\ Has(Close, "close")
<1>1. /\ Orderly(Exchange) /\ ~Has(Exchange, "destroy") /\ ~Has(Exchange, "open")
      /\ ~Has(Exchange, "close")
  BY DEF Exchange, Orderly, Has, Stages
<1>2. /\ Orderly(Stop) /\ ~Has(Stop, "destroy") /\ ~Has(Stop, "open") /\ ~Has(Stop, "close")
  BY DEF Stop, Orderly, Has, Stages
<1>3. /\ Orderly(Close) /\ ~Has(Close, "destroy") /\ Has(Close, "close") /\ ~Has(Close, "open")
  BY DEF Close, Orderly, Has, Stages
<1>4. Orderly(Open) /\ ~Has(Open, "destroy") /\ ~Has(Open, "close")
  BY DEF Open, Orderly, Has, Stages
<1>5. /\ Orderly(Begin) /\ ~Has(Begin, "destroy") /\ ~Has(Begin, "open") /\ ~Has(Begin, "close")
  BY DEF Begin, Orderly, Has, Stages
<1>6. /\ Orderly(Take) /\ ~Has(Take, "destroy") /\ ~Has(Take, "open") /\ ~Has(Take, "close")
  BY DEF Take, Orderly, Has, Stages
<1>7. Orderly(End) /\ ~Has(End, "open") /\ ~Has(End, "close")
  BY DEF End, Orderly, Has, Stages
<1>. QED
  BY <1>1, <1>2, <1>3, <1>4, <1>5, <1>6, <1>7, Zenon

Made == {"connect", "query", "start", "stop", "grab", "disconnect", "delete"}

\* Every call is orderly; sockets are closed over TCP only, and before a
\* driver that is connected is destroyed.
LEMMA PlansOrderly ==
  ASSUME NEW call \in Made
  PROVE  /\ Orderly(Plan(call))
         /\ Has(Plan(call), "close") => kind = "tcp"
         /\ Has(Plan(call), "destroy") /\ connected /\ kind = "tcp" => Has(Plan(call), "close")
<1> DEFINE Parts == {Exchange, Stop, Begin, Take, Close, Open, End}
<1>1. \A s \in Parts : s \in Seq(Stages)
  BY Pieces DEF Orderly
<1>2. ASSUME NEW s \in Parts, NEW t \in Parts, ~Has(s, "destroy"), ~Has(s, "open") \/ ~Has(t, "destroy")
      PROVE  /\ Orderly(s \o t)
             /\ \A stage : Has(s \o t, stage) <=> Has(s, stage) \/ Has(t, stage)
  BY <1>1, <1>2, Pieces, OrderlyJoin, HasEither
<1>3. /\ Orderly(Disconnect) /\ ~Has(Disconnect, "destroy") /\ ~Has(Disconnect, "open")
      /\ kind = "tcp" <=> Has(Disconnect, "close")
  <2>1. CASE kind = "tcp"
    <3>1. Disconnect = Stop \o Close
      BY <2>1 DEF Disconnect, Close
    <3>. QED
      BY <1>2, <2>1, <3>1, Pieces, Zenon
  <2>2. CASE kind # "tcp"
    <3>1. Disconnect = Stop
      BY <1>1, <2>2 DEF Disconnect
    <3>. QED
      BY <2>2, <3>1, Pieces, Zenon
  <2>. QED
    BY <2>1, <2>2
<1>4. CASE call = "connect"
  <2>1. Plan(call) = Open \o Exchange
    BY <1>4 DEF Plan, Open
  <2>. QED
    BY <1>2, <2>1, Pieces, Zenon
<1>5. CASE call = "start"
  <2>1. Plan(call) = Stop \o Begin
    BY <1>5 DEF Plan, Begin
  <2>. QED
    BY <1>2, <2>1, Pieces, Zenon
<1>6. CASE call \in {"query", "stop", "grab", "disconnect"}
  <2>1. Plan(call) \in {Exchange, Stop, Take, Disconnect}
    BY <1>6 DEF Plan, Take
  <2>. QED
    BY <1>3, <2>1, Pieces, Zenon
<1>7. CASE call = "delete" /\ connected
  <2>1. Plan(call) = Disconnect \o End
    BY <1>7 DEF Plan, End
  <2>2. Orderly(Disconnect \o End)
    BY <1>3, Pieces, OrderlyJoin
  <2>3. Has(Disconnect \o End, "close") <=> kind = "tcp"
    BY <1>1, <1>3, Pieces, HasEither DEF Orderly
  <2>. QED
    BY <2>1, <2>2, <2>3, Zenon
<1>8. CASE call = "delete" /\ ~connected
  <2>1. Plan(call) = End
    BY <1>1, <1>8 DEF Plan, End
  <2>. QED
    BY <1>8, <2>1, Pieces, Zenon
<1>. QED
  BY <1>4, <1>5, <1>6, <1>7, <1>8 DEF Made

-----------------------------------------------------------------------------
(* The socket.                                                             *)

Peers == [family : Families, host : Hosts \cup {"none"}, port : Nat]
SockOK(s) == s \in [ref : {"null", "live"}, peer : Peers]

\* CreateSocket() of any platform.
LEMMA NewSockets ==
  ASSUME os \in Systems
  PROVE  SockOK(NullSocket) /\ \A s \in CreateSocket : SockOK(s)
<1>1. SockOK(NullSocket) /\ SockOK(LinuxStreamSocket) /\ SockOK(MacStreamSocket) /\ SockOK(WinStreamSocket)
  BY DEF SockOK, Peers, Families, Hosts, NullSocket, NoPeer, LinuxStreamSocket,
         MacStreamSocket, WinStreamSocket
<1>. QED
  BY <1>1 DEF CreateSocket, LinuxCreateSocket, MacCreateSocket, WinCreateSocket, Systems

\* The address keeps 16 bits of the port, and the host that was named if it
\* was named in numbers.
LEMMA AddressNamed ==
  ASSUME os \in Systems, NEW name \in Names
  PROVE  /\ Address(name, PortNumber) \in Peers
         /\ Address(name, PortNumber).port = PortNumber % PortBits
         /\ Address(name, PortNumber).host \in Hosts
<1>1. PortNumber % PortBits \in Nat
  BY LinkAssumption DEF PortBits
<1>2. HostOf(name, "any") \in Hosts
  BY DEF HostOf, Hosts
<1>3. Blank \in Peers /\ Blank.host = "any" /\ Blank.family \in Families
  BY DEF Blank, Peers, Families, Hosts
<1>4. \A n \in Nat : n % PortBits \in Nat
  BY DEF PortBits
<1>5. CASE os = "linux"
  <2>. DEFINE m == LinuxFromString(Blank, name, "INET")
  <2>1. m \in Peers /\ m.host = HostOf(name, "any")
    BY <1>2, <1>3, <1>4 DEF LinuxFromString, Peers, LinuxSetPort, LinuxGetPort, LinuxAddressType, Families
  <2>. HIDE DEF m
  <2>. DEFINE a == LinuxSetPort(m, PortNumber)
  <2>2. a \in Peers /\ a.host = HostOf(name, "any") /\ a.port = PortNumber % PortBits
    BY <1>1, <2>1 DEF LinuxSetPort, LinuxAddressType, Peers
  <2>3. Address(name, PortNumber) = a
    BY <1>5 DEF Address, LinuxAddress, m
  <2>. QED
    BY <1>2, <2>2, <2>3
<1>6. CASE os = "macOS"
  <2>. DEFINE m == MacFromString(Blank, name, "INET")
  <2>1. m \in Peers /\ m.host = HostOf(name, "any")
    BY <1>2, <1>3, <1>4 DEF MacFromString, Peers, MacSetPort, Families
  <2>. HIDE DEF m
  <2>. DEFINE a == MacSetPort(m, PortNumber)
  <2>2. a \in Peers /\ a.host = HostOf(name, "any") /\ a.port = PortNumber % PortBits
    BY <1>1, <2>1 DEF MacSetPort, Peers
  <2>3. Address(name, PortNumber) = a
    BY <1>6 DEF Address, MacAddress, m
  <2>. QED
    BY <1>2, <2>2, <2>3
<1>7. CASE os = "win32"
  <2>. DEFINE m == WinFromString(Blank, name, "INET")
  <2>1. m \in Peers /\ m.host = HostOf(name, "any")
    BY <1>2, <1>3, <1>4 DEF WinFromString, WinPton, Peers, WinSetPort, Families
  <2>. HIDE DEF m
  <2>. DEFINE a == WinSetPort(m, PortNumber)
  <2>2. a \in Peers /\ a.host = HostOf(name, "any") /\ a.port = PortNumber % PortBits
    BY <1>1, <2>1 DEF WinSetPort, Peers
  <2>3. Address(name, PortNumber) = a
    BY <1>7 DEF Address, WinAddress, m
  <2>. QED
    BY <1>2, <2>2, <2>3
<1>. QED
  BY <1>5, <1>6, <1>7 DEF Systems

\* connect() takes the address or leaves the socket as it was; 0.0.0.0 is an
\* error on Win32.
LEMMA ConnectTakes ==
  ASSUME os \in Systems, NEW s, SockOK(s), NEW a \in Peers, NEW c \in ConnectSocket(s, a)
  PROVE  /\ SockOK(c.sock) /\ c.sock.ref = s.ref
         /\ c.result = "ok" => c.sock.peer = a /\ (a.host = "any" => posix)
<1>1. \/ c = Connected(s, a) /\ (a.host = "any" => posix)
      \/ \E e \in ConnectErrors : c = NotConnected(s, e)
  BY DEF ConnectSocket, LinuxConnect, MacConnect, WinConnect, Systems, posix
<1>2. CASE c = Connected(s, a) /\ (a.host = "any" => posix)
  BY <1>2 DEF Connected, SockOK
<1>3. ASSUME NEW e \in ConnectErrors, c = NotConnected(s, e)
      PROVE  c.sock = s /\ c.result # "ok"
  BY <1>3 DEF NotConnected, ConnectErrors
<1>. QED
  BY <1>1, <1>2, <1>3

-----------------------------------------------------------------------------
(* The invariant.                                                          *)

PlatformOK == os \in Systems /\ kind \in Kinds
FlagsOK == connected \in BOOLEAN /\ closed \in BOOLEAN /\ deleted \in BOOLEAN

\* Only the channel of the driver's kind is ever used, and the table tells
\* what its object holds.
ChannelInv ==
  /\ PortOK(port) /\ Accounts(port, table) /\ SockOK(sock)
  /\ table["socket"] = 1 <=> sock.ref = "live"
  /\ table["stdin"] = 0 => os = "macOS" /\ deleted
  /\ IF kind = "serial" THEN sock.ref = "null" ELSE port.fd # "port"

\* A call that will destroy a driver connected over TCP has its socket yet to
\* close; nothing is left to do, and nothing open, after it.
CallInv ==
  /\ Orderly(client.rest)
  /\ deleted => client.rest = <<>> /\ port.fd # "port" /\ (connected => sock.ref = "null")
  /\ Has(client.rest, "destroy") /\ connected /\ kind = "tcp" =>
       Has(client.rest, "close") \/ sock.ref = "null"
  /\ Has(client.rest, "close") => kind = "tcp"

\* On Win32 a handle is cleared by the join.
ThreadInv ==
  /\ cachethread \in [handle : BOOLEAN, state : {"none", "running", "ended", "joined"}]
  /\ cachethread.handle /\ cachethread.state = "joined" => posix

CrashInv ==
  /\ crashed = "staleJoin" => posix
  /\ crashed = "nullSocket" => kind = "tcp" /\ (closed \/ ~connected)

LinkInv ==
  PlatformOK /\ FlagsOK /\ ChannelInv /\ CallInv /\ ThreadInv /\ CrashInv /\ ConnectedMeansOpen

core == <<os, kind, port, table, sock, connected, closed, deleted>>

\* The parts that depend on the channel and the flags alone.
LEMMA CoreKept ==
  ASSUME LinkInv, UNCHANGED core
  PROVE  PlatformOK' /\ FlagsOK' /\ ChannelInv' /\ ConnectedMeansOpen'
<1> USE DEF LinkInv, core
<1>1. PlatformOK'
  BY DEF PlatformOK
<1>2. FlagsOK'
  BY DEF FlagsOK
<1>3. ChannelInv'
  BY DEF ChannelInv, PortOK, PortObject, Accounts, SockOK
<1>4. ConnectedMeansOpen'
  BY DEF ConnectedMeansOpen, posix
<1>. QED
  BY <1>1, <1>2, <1>3, <1>4

\* A step that leaves the call alone as well.
LEMMA CallKept ==
  ASSUME LinkInv, UNCHANGED <<core, client>>
  PROVE  CallInv'
BY DEF LinkInv, core, CallInv

\* A stage that neither closes nor destroys is done, or the call returns.
LEMMA StageDone ==
  ASSUME LinkInv, UNCHANGED core, client.rest # <<>>,
         Head(client.rest) \notin {"close", "destroy"},
         client'.rest = Tail(client.rest) \/ client'.rest = <<>>
  PROVE  CallInv'
<1> USE DEF LinkInv
<1>1. ~deleted
  BY DEF CallInv
<1>2. CASE client'.rest = Tail(client.rest)
  <2>1. /\ Orderly(client'.rest)
        /\ Has(client'.rest, "destroy") => Has(client.rest, "destroy")
        /\ Has(client.rest, "close") <=> Has(client'.rest, "close")
    BY <1>2, NextStage DEF CallInv
  <2>. QED
    BY <1>1, <2>1 DEF CallInv, core
<1>3. CASE client'.rest = <<>>
  BY <1>1, <1>3, NoStages DEF CallInv, core
<1>. QED
  BY <1>2, <1>3

\* What ended the process.
LEMMA CrashKept ==
  ASSUME LinkInv, UNCHANGED <<core, crashed>>
  PROVE  CrashInv'
BY DEF LinkInv, CrashInv, core, posix

\* The thread's handle and its state.
LEMMA ThreadKept ==
  ASSUME LinkInv, UNCHANGED <<core, cachethread>>
  PROVE  ThreadInv'
BY DEF LinkInv, ThreadInv, core, posix

\* The driver as CreateDriver leaves it.
LEMMA LinkInitInv == Init => LinkInv
<1> SUFFICES ASSUME Init PROVE LinkInv
  OBVIOUS
<1>1. PlatformOK
  BY DEF Init, PlatformInit, PlatformOK
<1>2. FlagsOK
  BY DEF Init, FlagsOK
<1>3. PortOK(NewPort) /\ NewPort.fd # "port" /\ ~NewPort.pipe
  BY <1>1 DEF PlatformOK, NewPort, LinuxInit, MacInit, WinInit, PortOK, PortObject, Systems
<1>4. SockOK(sock) /\ (kind = "serial" => sock.ref = "null")
  BY <1>1, NewSockets DEF Init, PlatformOK, NullSocket
<1>5. /\ table \in [Descriptors -> {0, 1}]
      /\ table["port"] = 0 /\ table["pipeRead"] = 0 /\ table["pipeWrite"] = 0
      /\ table["stdin"] = 1 /\ (table["socket"] = 1 <=> sock.ref = "live")
  BY DEF Init, NothingOpen, Opened, Descriptors
<1>6. ChannelInv
  BY <1>1, <1>3, <1>4, <1>5 DEF Init, ChannelInv, Accounts, PlatformOK, Kinds
<1>7. CallInv
  BY NoStages DEF Init, CallInv
<1>8. ThreadInv
  BY DEF Init, ThreadInit, ThreadInv
<1>9. CrashInv /\ ConnectedMeansOpen
  BY DEF Init, CrashInv, ConnectedMeansOpen
<1>. QED
  BY <1>1, <1>2, <1>6, <1>7, <1>8, <1>9 DEF LinkInv

-----------------------------------------------------------------------------
(* One step per action.                                                    *)

\* What readers, device, line and event do is none of the invariant's.
Aside == UNCHANGED <<core, client, cachethread, crashed>>

\* Such a step keeps the invariant whole.
LEMMA AsideKept == LinkInv /\ Aside => LinkInv'
<1> SUFFICES ASSUME LinkInv, Aside PROVE LinkInv'
  OBVIOUS
<1>1. UNCHANGED <<core, client>> /\ UNCHANGED <<core, crashed>> /\ UNCHANGED <<core, cachethread>>
  BY DEF Aside
<1>2. UNCHANGED core
  BY DEF Aside
<1>. QED
  BY <1>1, <1>2, CoreKept, CallKept, CrashKept, ThreadKept DEF LinkInv

\* The readers' own steps.
LEMMA ReadersAside ==
  ASSUME NEW r \in Readers,
         CheckReader(r) \/ ArmReader(r) \/ ReaderTimesOut(r) \/ TakeReader(r) \/ TimeOver(r)
  PROVE  Aside
<1> USE DEF Aside, core, platform, hal, channel, flags, ends
<1>1. CASE CheckReader(r) \/ ArmReader(r)
  BY <1>1 DEF CheckReader, ArmReader
<1>2. CASE ReaderTimesOut(r) \/ TimeOver(r)
  BY <1>2 DEF ReaderTimesOut, TimeOver
<1>3. CASE TakeReader(r)
  BY <1>3 DEF TakeReader
<1>. QED
  BY <1>1, <1>2, <1>3

\* The device, its line, the event, and a measurement thrown away.
LEMMA LineAside ==
  ASSUME Deliver \/ Measure \/ Stray \/ LineError \/ Unplug \/ EventSteps \/ Grab \/ CacherDiscards
  PROVE  Aside
<1> USE DEF Aside, core, platform, hal, channel, flags, ends
<1>1. CASE Deliver \/ Measure
  BY <1>1 DEF Deliver, Measure
<1>2. CASE Stray \/ LineError \/ Unplug
  BY <1>2 DEF Stray, LineError, Unplug
<1>3. CASE EventSteps \/ Grab
  BY <1>3 DEF EventSteps, Grab, linkVars
<1>4. CASE CacherDiscards
  BY <1>4 DEF CacherDiscards
<1>. QED
  BY <1>1, <1>2, <1>3, <1>4

\* select on a pipe that is not there may end the process.
LEMMA WakeKept ==
  ASSUME LinkInv, NEW r \in Readers, WakeReader(r)
  PROVE  LinkInv'
<1>1. UNCHANGED <<core, client, cachethread>> /\ crashed' \in {crashed, "fdSet"}
  BY DEF WakeReader, core, platform, hal, channel, flags
<1>2. UNCHANGED core /\ UNCHANGED <<core, client>> /\ UNCHANGED <<core, cachethread>>
  BY <1>1
<1>3. CrashInv'
  BY <1>1, <1>2 DEF LinkInv, CrashInv, core, posix
<1>. QED
  BY <1>2, <1>3, CoreKept, CallKept, ThreadKept DEF LinkInv

\* What is left of the call.
LEMMA Proceeds ==
  /\ Advance => client'.rest = Tail(client.rest)
  /\ Return => client'.rest = <<>>
<1>1. ASSUME NEW s, Proceed(s) PROVE client'.rest = s
  BY <1>1 DEF Proceed
<1>. QED
  BY <1>1, Zenon DEF Advance, Return

\* Stages that change neither the channel nor the driver's flags.
LEMMA StagesKept ==
  ASSUME LinkInv, Disable \/ Tell \/ Ask \/ Header \/ PayloadRead \/ GrabTakes
  PROVE  LinkInv'
<1> USE DEF core, platform, hal, channel, flags, ends
<1>1. /\ UNCHANGED core /\ UNCHANGED <<core, cachethread>> /\ UNCHANGED <<core, crashed>>
      /\ client.rest # <<>> /\ Head(client.rest) \notin {"close", "destroy"}
      /\ client'.rest = Tail(client.rest) \/ client'.rest = <<>>
  <2> USE Proceeds DEF At
  <2>1. CASE Disable
    BY <2>1 DEF Disable
  <2>2. CASE Tell
    <3>1. Advance \/ Return
      BY <2>2 DEF Tell
    <3>2. UNCHANGED core /\ UNCHANGED cachethread /\ UNCHANGED crashed
      BY <2>2 DEF Tell
    <3>3. client.rest # <<>> /\ Head(client.rest) = "tell"
      BY <2>2 DEF Tell
    <3>. QED
      BY <3>1, <3>2, <3>3
  <2>3. CASE Ask
    <3>1. Advance
      BY <2>3 DEF Ask
    <3>2. UNCHANGED core /\ UNCHANGED cachethread /\ UNCHANGED crashed
      BY <2>3 DEF Ask
    <3>3. client.rest # <<>> /\ Head(client.rest) = "ask"
      BY <2>3 DEF Ask
    <3>. QED
      BY <3>1, <3>2, <3>3
  <2>4. CASE Header
    BY <2>4 DEF Header
  <2>5. CASE PayloadRead
    BY <2>5 DEF PayloadRead
  <2>6. CASE GrabTakes
    BY <2>6 DEF GrabTakes
  <2>. QED
    BY <2>1, <2>2, <2>3, <2>4, <2>5, <2>6
<1>. QED
  BY <1>1, CoreKept, StageDone, ThreadKept, CrashKept DEF LinkInv

\* The assertion of the event ends the process.
LEMMA GrabWokenKept ==
  ASSUME LinkInv, GrabWoken
  PROVE  LinkInv'
<1>1. /\ UNCHANGED core /\ UNCHANGED <<core, cachethread>>
      /\ client.rest # <<>> /\ Head(client.rest) \notin {"close", "destroy"}
      /\ client'.rest = Tail(client.rest) \/ client'.rest = <<>>
      /\ crashed' \in {crashed, "eventAssert"}
  <2>1. Advance \/ Return
    BY DEF GrabWoken
  <2>2. UNCHANGED core /\ UNCHANGED <<core, cachethread>>
    BY DEF GrabWoken, core, platform, hal, channel, flags
  <2>3. client.rest # <<>> /\ Head(client.rest) = "wait"
    BY DEF GrabWoken, At
  <2>4. crashed' \in {crashed, "eventAssert"}
    BY DEF GrabWoken
  <2>. QED
    BY <2>1, <2>2, <2>3, <2>4, Proceeds
<1>2. CrashInv'
  BY <1>1 DEF LinkInv, CrashInv, core, posix
<1>. QED
  BY <1>1, <1>2, CoreKept, StageDone, ThreadKept DEF LinkInv

\* A new call begins with an orderly plan.
LEMMA CallBegins ==
  ASSUME LinkInv, NEW call \in Made, Call(call)
  PROVE  LinkInv'
<1>1. /\ UNCHANGED core /\ UNCHANGED <<core, cachethread>> /\ UNCHANGED <<core, crashed>>
      /\ ~deleted /\ client'.rest = Plan(call)
  BY DEF Call, core, platform, hal, channel, flags, ends
<1>2. CallInv'
  BY <1>1, PlansOrderly DEF CallInv, core
<1>. QED
  BY <1>1, <1>2, CoreKept, ThreadKept, CrashKept DEF LinkInv

\* The thread's object: created, joined, ended.
LEMMA CreateKept ==
  ASSUME LinkInv, Create
  PROVE  LinkInv'
<1>1. /\ UNCHANGED core /\ UNCHANGED <<core, crashed>>
      /\ client.rest # <<>> /\ Head(client.rest) \notin {"close", "destroy"}
      /\ client'.rest = Tail(client.rest)
  BY DEF Create, At, Advance, Proceed, core, platform, channel, ends
<1>2. ThreadInv'
  <2>1. PICK granted \in BOOLEAN : cachethread' = CreatedThread(granted)
    BY DEF Create
  <2>2. CreatedThread(granted) = [handle |-> granted, state |-> IF granted THEN "running" ELSE "none"]
    BY DEF CreatedThread, LinuxCreate, MacCreate, WinCreate, LinkInv, PlatformOK, Systems
  <2>. QED
    BY <2>1, <2>2 DEF ThreadInv
<1>. QED
  BY <1>1, <1>2, CoreKept, StageDone, CrashKept DEF LinkInv

\* join() clears the handle on Win32 only.
LEMMA JoinKept ==
  ASSUME LinkInv, Join
  PROVE  LinkInv'
<1>1. /\ UNCHANGED core /\ UNCHANGED <<core, crashed>>
      /\ client.rest # <<>> /\ Head(client.rest) \notin {"close", "destroy"}
      /\ client'.rest = Tail(client.rest)
  BY DEF Join, At, Advance, Proceed, core, platform, channel, flags, ends
<1>2. ThreadInv'
  BY <1>1 DEF Join, JoinedThread, LinuxJoined, MacJoined, WinJoined, LinkInv, PlatformOK,
              ThreadInv, Systems, posix, core
<1>. QED
  BY <1>1, <1>2, CoreKept, StageDone, CrashKept DEF LinkInv

\* The caching thread ends, and its handle stays.
LEMMA CacherKept ==
  ASSUME LinkInv, CacherTests \/ CacherReads
  PROVE  LinkInv'
<1>1. /\ UNCHANGED core /\ UNCHANGED <<core, client>> /\ UNCHANGED <<core, crashed>>
      /\ cachethread' \in {cachethread, [cachethread EXCEPT !.state = "ended"]}
  <2> USE DEF CacherEnds, core, platform, channel, ends
  <2>1. CASE CacherTests
    BY <2>1 DEF CacherTests
  <2>2. CASE CacherReads
    BY <2>2 DEF CacherReads
  <2>. QED
    BY <2>1, <2>2
<1>2. ThreadInv'
  BY <1>1 DEF LinkInv, ThreadInv, posix, core
<1>. QED
  BY <1>1, <1>2, CoreKept, CallKept, CrashKept DEF LinkInv

\* A thread is joined twice on Linux and macOS only, as Win32 forgets it.
LEMMA StaleJoinKept ==
  ASSUME LinkInv, JoinAgain
  PROVE  LinkInv'
<1>1. UNCHANGED <<core, client, cachethread>> /\ crashed' = "staleJoin" /\ StaleJoin
  BY DEF JoinAgain, Crash, core, platform, hal, channel, flags
<1>2. UNCHANGED core /\ UNCHANGED <<core, client>> /\ UNCHANGED <<core, cachethread>>
  BY <1>1
<1>3. CrashInv'
  BY <1>1, <1>2 DEF LinkInv, ThreadInv, CrashInv, StaleJoin, core, posix
<1>. QED
  BY <1>2, <1>3, CoreKept, CallKept, ThreadKept DEF LinkInv

\* A driver that is connected and was not disconnected has its socket.
LEMMA UseNullKept ==
  ASSUME LinkInv, UseNull
  PROVE  LinkInv'
<1>1. UNCHANGED <<core, client, cachethread>> /\ crashed' = "nullSocket" /\ NoSocket
  BY DEF UseNull, Crash, core, platform, hal, channel, flags
<1>2. UNCHANGED core /\ UNCHANGED <<core, client>> /\ UNCHANGED <<core, cachethread>>
  BY <1>1
<1>3. client.rest # <<>>
  BY DEF UseNull, At
<1>4. kind = "tcp" /\ (closed \/ ~connected)
  BY <1>1, <1>3 DEF LinkInv, CallInv, FlagsOK, ConnectedMeansOpen, NoSocket
<1>5. CrashInv'
  BY <1>1, <1>2, <1>4 DEF CrashInv, core
<1>. QED
  BY <1>2, <1>5, CoreKept, CallKept, ThreadKept DEF LinkInv

\* connect() over the serial port.
LEMMA OpenSerialKept ==
  ASSUME LinkInv, OpenSerial
  PROVE  LinkInv'
<1> USE DEF LinkInv
<1>1. PICK o \in OpenPort(port, table) :
        /\ port' = o.port /\ table' = o.table /\ connected' = o.ok
        /\ client'.rest = Tail(client.rest) \/ client'.rest = <<>>
  <2>1. PICK o \in OpenPort(port, table) :
          /\ port' = o.port /\ table' = o.table /\ connected' = o.ok
          /\ Advance \/ Return
    BY DEF OpenSerial
  <2>. QED
    BY <2>1, Proceeds
<1>2. /\ Alive /\ client.rest # <<>> /\ Head(client.rest) = "open" /\ kind = "serial"
      /\ UNCHANGED <<os, kind, sock, closed, deleted, crashed, cachethread>>
  BY DEF OpenSerial, At, platform, hal, ends
<1>3. /\ PortOK(o.port) /\ Accounts(o.port, o.table)
      /\ o.ok \in BOOLEAN /\ (o.ok => o.port.opened)
      /\ o.table["socket"] = table["socket"] /\ o.table["stdin"] = table["stdin"]
  BY OpenAccounts DEF PlatformOK, ChannelInv
<1>4. PlatformOK' /\ FlagsOK'
  BY <1>1, <1>2, <1>3 DEF PlatformOK, FlagsOK
<1>5. ChannelInv'
  <2>1. PortOK(port)' /\ Accounts(port, table)'
    BY <1>1, <1>2, <1>3 DEF PortOK, PortObject, Accounts
  <2>. QED
    BY <1>1, <1>2, <1>3, <2>1 DEF ChannelInv, SockOK
<1>6. ConnectedMeansOpen'
  BY <1>1, <1>2, <1>3 DEF ConnectedMeansOpen, PortOK
<1>7. CallInv'
  <2>1. ~deleted /\ Has(client.rest, "open")
    <3>1. Head(client.rest) = client.rest[1] /\ 1 \in 1 .. Len(client.rest)
      BY <1>2 DEF CallInv, Orderly
    <3>. QED
      BY <1>2, <3>1 DEF CallInv, Has
  <2>2. /\ ~Has(client'.rest, "destroy") /\ Orderly(client'.rest)
        /\ Has(client'.rest, "close") => kind = "tcp"
    BY <1>1, <1>2, <2>1, NextStage, NoStages DEF CallInv, Orderly
  <2>. QED
    BY <1>2, <2>1, <2>2 DEF CallInv
<1>8. ThreadInv' /\ CrashInv'
  BY <1>2 DEF ThreadInv, CrashInv, Alive, posix
<1>. QED
  BY <1>4, <1>5, <1>6, <1>7, <1>8

\* connect() over TCP.
LEMMA OpenTCPKept ==
  ASSUME LinkInv, OpenTCP
  PROVE  LinkInv'
<1> USE DEF LinkInv
<1>0. PICK name \in Names : \E c \in ConnectSocket(sock, Address(name, PortNumber)) :
          /\ sock' = c.sock /\ connected' = (c.result = "ok")
          /\ Advance \/ Return
  BY DEF OpenTCP
<1>1. PICK c \in ConnectSocket(sock, Address(name, PortNumber)) :
        /\ sock' = c.sock /\ connected' = (c.result = "ok")
        /\ client'.rest = Tail(client.rest) \/ client'.rest = <<>>
  BY <1>0, Proceeds
<1>2. /\ Alive /\ client.rest # <<>> /\ Head(client.rest) = "open" /\ kind = "tcp" /\ ~NoSocket
      /\ UNCHANGED <<os, kind, port, table, closed, deleted, crashed, cachethread>>
  BY DEF OpenTCP, At, platform, hal, ends
<1>. DEFINE a == Address(name, PortNumber)
<1>3. a \in Peers /\ a.port = PortNumber % PortBits /\ a.host \in Hosts
  BY AddressNamed DEF PlatformOK
<1>4. /\ SockOK(c.sock) /\ c.sock.ref = sock.ref
      /\ c.result = "ok" => c.sock.peer = a /\ (a.host = "any" => posix)
  BY <1>3, ConnectTakes DEF PlatformOK, ChannelInv
<1>5. sock.ref = "live"
  BY <1>2 DEF NoSocket, ChannelInv, SockOK
<1>. HIDE DEF a
<1>6. PlatformOK' /\ FlagsOK'
  BY <1>1, <1>2 DEF PlatformOK, FlagsOK
<1>7. ChannelInv'
  <2>1. PortOK(port)' /\ Accounts(port, table)' /\ SockOK(sock)'
    BY <1>1, <1>2, <1>4 DEF ChannelInv, PortOK, PortObject, Accounts, SockOK
  <2>. QED
    BY <1>1, <1>2, <1>4, <2>1 DEF ChannelInv
<1>8. ConnectedMeansOpen'
  <2>. SUFFICES ASSUME c.result = "ok"
                PROVE  /\ sock'.ref = "live" /\ sock'.peer.port = PortNumber % PortBits
                       /\ sock'.peer.host = "device" \/ (sock'.peer.host = "any" /\ posix')
    BY <1>1, <1>2 DEF ConnectedMeansOpen
  <2>. QED
    BY <1>1, <1>2, <1>3, <1>4, <1>5 DEF Hosts, posix
<1>9. CallInv'
  <2>1. ~deleted /\ Has(client.rest, "open")
    <3>1. Head(client.rest) = client.rest[1] /\ 1 \in 1 .. Len(client.rest)
      BY <1>2 DEF CallInv, Orderly
    <3>. QED
      BY <1>2, <3>1 DEF CallInv, Has
  <2>2. /\ ~Has(client'.rest, "destroy") /\ Orderly(client'.rest)
        /\ Has(client'.rest, "close") => kind = "tcp"
    BY <1>1, <1>2, <2>1, NextStage, NoStages DEF CallInv, Orderly
  <2>. QED
    BY <1>2, <2>1, <2>2 DEF CallInv
<1>10. ThreadInv' /\ CrashInv'
  BY <1>2 DEF ThreadInv, CrashInv, Alive, posix
<1>. QED
  BY <1>6, <1>7, <1>8, <1>9, <1>10

\* disconnect() over TCP: the socket is closed, once, and gone.
LEMMA CloseTCPKept ==
  ASSUME LinkInv, CloseTCP
  PROVE  LinkInv'
<1> USE DEF LinkInv
<1>1. /\ Alive /\ client.rest # <<>> /\ Head(client.rest) = "close" /\ ~NoSocket
      /\ client'.rest = Tail(client.rest)
      /\ sock' = DisposeSocket(sock) /\ table' = Closed(table, {"socket"}) /\ closed' = TRUE
      /\ UNCHANGED <<os, kind, port, connected, deleted, crashed, cachethread>>
  BY Proceeds DEF CloseTCP, At, platform, hal, flags
<1>2. sock' = NullSocket
  BY <1>1 DEF DisposeSocket, LinuxDispose, MacDispose, WinDispose, PlatformOK, Systems
<1>3. ~deleted
  BY <1>1 DEF CallInv
<1>9. Has(client.rest, "close")
  <2>1. Head(client.rest) = client.rest[1] /\ 1 \in 1 .. Len(client.rest)
    BY <1>1 DEF CallInv, Orderly
  <2>. QED
    BY <1>1, <2>1 DEF Has
<1>4. PlatformOK' /\ FlagsOK'
  BY <1>1 DEF PlatformOK, FlagsOK
<1>5. ChannelInv'
  <2>1. sock.ref = "live" /\ table["socket"] = 1 /\ kind = "tcp"
    BY <1>1, <1>9 DEF NoSocket, ChannelInv, SockOK, CallInv
  <2>2. /\ table' \in [Descriptors -> {0, 1}] /\ table'["socket"] = 0
        /\ \A d \in Descriptors \ {"socket"} : table'[d] = table[d]
    <3>1. table \in [Descriptors -> {0, 1}]
      BY DEF ChannelInv, Accounts
    <3>2. /\ table' = [d \in Descriptors |-> IF d \in {"socket"} THEN table[d] - 1 ELSE table[d]]
          /\ "socket" \in Descriptors
      BY <1>1, Zenon DEF Closed, Descriptors
    <3>. QED
      BY <2>1, <3>1, <3>2
  <2>3. PortOK(port)' /\ Accounts(port, table)'
    BY <1>1, <2>2 DEF ChannelInv, PortOK, PortObject, Accounts, Descriptors
  <2>4. SockOK(sock)' /\ sock'.ref = "null"
    BY <1>2, NewSockets DEF PlatformOK, SockOK, NullSocket
  <2>5. table'["stdin"] = table["stdin"]
    BY <2>2 DEF Descriptors
  <2>. QED
    BY <1>1, <2>1, <2>2, <2>3, <2>4, <2>5 DEF ChannelInv
<1>6. ConnectedMeansOpen'
  BY <1>1 DEF ConnectedMeansOpen
<1>7. CallInv'
  <2>1. Orderly(client'.rest) /\ (Has(client'.rest, "close") => kind = "tcp")
    BY <1>1, NextStage DEF CallInv
  <2>. QED
    BY <1>1, <1>2, <1>3, <2>1 DEF CallInv, NullSocket
<1>8. ThreadInv' /\ CrashInv'
  BY <1>1 DEF ThreadInv, CrashInv, Alive, posix
<1>. QED
  BY <1>4, <1>5, <1>6, <1>7, <1>8

\* The destructor.
LEMMA DestroyKept ==
  ASSUME LinkInv, Destroy
  PROVE  LinkInv'
<1> USE DEF LinkInv
<1>1. /\ Alive /\ client.rest # <<>> /\ Head(client.rest) = "destroy"
      /\ client'.rest = Tail(client.rest) /\ deleted' = TRUE
      /\ UNCHANGED <<os, kind, sock, connected, closed, crashed, cachethread>>
  BY Proceeds DEF Destroy, At, platform, hal, flags
<1>. DEFINE shut == ClosePort(port, table)
            freed == ClosePort(shut.port, shut.table)
<1>2. IF kind = "serial" THEN port' = freed.port /\ table' = freed.table
      ELSE UNCHANGED <<port, table>>
  BY DEF Destroy
<1>3. client'.rest = <<>>
  BY <1>1, NextStage DEF CallInv
<1>4. PlatformOK' /\ FlagsOK'
  BY <1>1 DEF PlatformOK, FlagsOK
<1>5. /\ PortOK(port') /\ Accounts(port', table') /\ port'.fd # "port"
      /\ table'["socket"] = table["socket"]
      /\ table'["stdin"] = 0 => os = "macOS"
  <2>1. CASE kind = "serial"
    <3>1. /\ PortOK(shut.port) /\ Accounts(shut.port, shut.table) /\ shut.port.fd = "none"
          /\ shut.table["socket"] = table["socket"]
          /\ port.fd # "stdin" => shut.table["stdin"] = table["stdin"]
      BY CloseAccounts DEF PlatformOK, ChannelInv, PortOK
    <3>. HIDE DEF shut
    <3>2. /\ PortOK(freed.port) /\ Accounts(freed.port, freed.table) /\ freed.port.fd = "none"
          /\ freed.table["socket"] = shut.table["socket"]
          /\ freed.table["stdin"] = shut.table["stdin"]
      BY <3>1, CloseAccounts DEF PlatformOK, PortOK
    <3>3. port.fd = "stdin" => os = "macOS"
      BY DEF ChannelInv, PortOK, PortObject
    <3>. HIDE DEF freed
    <3>. QED
      BY <1>2, <2>1, <3>1, <3>2, <3>3 DEF ChannelInv
  <2>2. CASE kind # "serial"
    BY <1>2, <2>2 DEF ChannelInv
  <2>. QED
    BY <2>1, <2>2
<1>6. ChannelInv'
  <2>1. PortOK(port)' /\ Accounts(port, table)' /\ SockOK(sock)'
    BY <1>1, <1>5 DEF ChannelInv, PortOK, PortObject, Accounts, SockOK
  <2>. QED
    BY <1>1, <1>5, <2>1 DEF ChannelInv
<1>7. ConnectedMeansOpen'
  BY <1>1 DEF ConnectedMeansOpen
<1>8. CallInv'
  <2>1. connected => sock.ref = "null"
    <3>1. Has(client.rest, "destroy") /\ ~Has(client.rest, "close")
      <4>1. /\ client.rest \in Seq(Stages) /\ Len(client.rest) \in Nat \ {0}
            /\ Head(client.rest) = client.rest[1] /\ 1 \in 1 .. Len(client.rest)
        BY <1>1 DEF CallInv, Orderly
      <4>2. 1 = Len(client.rest)
        BY <1>1, <4>1 DEF CallInv, Orderly
      <4>. QED
        BY <1>1, <4>1, <4>2 DEF Has
    <3>. QED
      BY <3>1 DEF CallInv, ChannelInv, PlatformOK, Kinds
  <2>. QED
    BY <1>1, <1>3, <1>5, <2>1, NoStages DEF CallInv
<1>9. ThreadInv' /\ CrashInv'
  BY <1>1 DEF ThreadInv, CrashInv, Alive, posix
<1>. QED
  BY <1>4, <1>6, <1>7, <1>8, <1>9

\* Every step keeps the invariant.
LEMMA LinkStep == LinkInv /\ [Next]_vars => LinkInv'
<1> SUFFICES ASSUME LinkInv, [Next]_vars PROVE LinkInv'
  OBVIOUS
<1>1. CASE \E call \in Made : Call(call)
  BY <1>1, CallBegins
<1>2. CASE ClientStep
  BY <1>2, OpenSerialKept, OpenTCPKept, StagesKept, JoinKept, CreateKept, LineAside, AsideKept,
     GrabWokenKept, CloseTCPKept, DestroyKept, UseNullKept, StaleJoinKept DEF ClientStep
<1>3. CASE EventSteps
  BY <1>3, LineAside, AsideKept
<1>4. CASE CacherStep
  BY <1>4, LineAside, AsideKept, CacherKept DEF CacherStep
<1>5. CASE \E r \in Readers : ReaderStep(r) \/ TimeOver(r)
  BY <1>5, ReadersAside, AsideKept, WakeKept DEF ReaderStep
<1>6. CASE Deliver \/ Measure \/ Stray \/ LineError \/ Unplug
  BY <1>6, LineAside, AsideKept
<1>7. CASE UNCHANGED vars
  BY <1>7, AsideKept DEF vars, linkVars, Aside, core
<1>. QED
  BY <1>1, <1>2, <1>3, <1>4, <1>5, <1>6, <1>7 DEF Next, Made

\* The invariant holds throughout.
LEMMA LinkInductive == Spec => []LinkInv
BY LinkInitInv, LinkStep, PTL DEF Spec

(***************************************************************************)
(* A driver that is connected, and was not disconnected, has an open       *)
(* serial port or a socket connected to the port that was named, and to    *)
(* another host than the one named on Linux and macOS only (the connect()  *)
(* and disconnect() of rplidar_driver.cpp over open() and connect() of     *)
(* arch).                                                                  *)
(***************************************************************************)
THEOREM ConnectionIsOpen == Spec => []ConnectedMeansOpen
<1>1. LinkInv => ConnectedMeansOpen
  BY DEF LinkInv
<1>. QED
  BY <1>1, LinkInductive, PTL

(***************************************************************************)
(* No descriptor is closed twice or by mistake but macOS's standard input, *)
(* nothing is left open by DisposeDriver but the socket of a driver that   *)
(* never was connected, and a driver uses what is gone in the two ways     *)
(* that ReleasedOnce names only.                                           *)
(***************************************************************************)
THEOREM EverythingReleased == Spec => []ReleasedOnce
<1>1. ASSUME LinkInv PROVE ReleasedOnce
  <2> USE <1>1 DEF LinkInv
  <2>1. \A d \in Descriptors : table[d] \in {0, 1}
    BY DEF ChannelInv, Accounts
  <2>2. table["stdin"] = 0 => os = "macOS" /\ deleted
    BY DEF ChannelInv
  <2>3. ASSUME deleted
        PROVE  /\ \A d \in {"port", "pipeRead", "pipeWrite"} : table[d] = 0
               /\ table["socket"] = 1 => ~connected
    <3>1. port.fd # "port" /\ ~port.pipe
      BY <2>3 DEF CallInv, ChannelInv, PortOK
    <3>2. table["port"] # 1 /\ table["pipeRead"] # 1 /\ table["pipeWrite"] # 1
      BY <3>1 DEF ChannelInv, Accounts
    <3>3. table["socket"] = 1 => ~connected
      BY <2>3 DEF CallInv, ChannelInv
    <3>. QED
      BY <2>1, <3>2, <3>3 DEF Descriptors
  <2>. QED
    BY <2>1, <2>2, <2>3 DEF ReleasedOnce, CrashInv
<1>. QED
  BY <1>1, LinkInductive, PTL

-----------------------------------------------------------------------------
(* The event, as the driver uses it.                                       *)

\* Every step of the driver is a step of its event, or none.
LEMMA EventUses == [Next]_vars => [EventNext]_<<os, kind, eventVars>>
<1> SUFFICES ASSUME [Next]_vars PROVE [EventNext]_<<os, kind, eventVars>>
  OBVIOUS
<1>. DEFINE Still == UNCHANGED <<os, kind, eventVars>>
<1> USE DEF platform, hal
<1>1. ASSUME NEW call \in Made, Call(call) PROVE Still
  BY <1>1 DEF Call
<1>2. CASE Grab
  BY <1>2, LinkAssumption DEF Grab, EventNext, PlatformFixed
<1>3. CASE GrabWoken
  BY <1>3, LinkAssumption DEF GrabWoken, EventNext, PlatformFixed
<1>4. CASE EventSteps
  BY <1>4, LinkAssumption DEF EventSteps, EventNext, PlatformFixed
<1>5. CASE CacherReads
  <2>1. UNCHANGED <<os, kind>> /\ (UNCHANGED eventVars \/ SetEvent)
    BY <1>5 DEF CacherReads
  <2>. QED
    BY <2>1 DEF EventNext, PlatformFixed
<1>6. CASE OpenSerial \/ OpenTCP \/ Disable \/ Join \/ Tell
  BY <1>6 DEF OpenSerial, OpenTCP, Disable, Join, Tell
<1>7. CASE Ask \/ Header \/ PayloadRead \/ Create \/ GrabTakes
  BY <1>7 DEF Ask, Header, PayloadRead, Create, GrabTakes
<1>8. CASE CloseTCP \/ Destroy \/ UseNull \/ JoinAgain
  BY <1>8 DEF CloseTCP, Destroy, UseNull, JoinAgain, Crash
<1>9. CASE CacherDiscards \/ CacherTests
  BY <1>9 DEF CacherDiscards, CacherTests
<1>10. ASSUME NEW r \in Readers, ReaderStep(r) \/ TimeOver(r) PROVE Still
  BY <1>10 DEF ReaderStep, CheckReader, ArmReader, WakeReader, ReaderTimesOut, TakeReader, TimeOver
<1>11. CASE Deliver \/ Measure \/ Stray \/ LineError \/ Unplug
  BY <1>11 DEF Deliver, Measure, Stray, LineError, Unplug
<1>12. CASE UNCHANGED vars
  BY <1>12 DEF vars
<1>. QED
  BY <1>1, <1>2, <1>3, <1>4, <1>5, <1>6, <1>7, <1>8, <1>9, <1>10, <1>11, <1>12
     DEF Next, ClientStep, CacherStep, Made

(***************************************************************************)
(* The driver uses its event as HalEvent describes (grabScanDataHq waits,  *)
(* _cacheScanData sets), so whoever grabs is not left asleep beside a scan *)
(* that was announced.                                                     *)
(***************************************************************************)
THEOREM DriverUsesEvent == Spec => EventSpec
<1>1. Init => PlatformInit /\ EventInit
  BY DEF Init
<1>. QED
  BY <1>1, EventUses, PTL DEF Spec, EventSpec

(***************************************************************************)
(* NoSleeperMissed of the driver that runs, on every platform.             *)
(***************************************************************************)
THEOREM GrabberIsNotMissed == Spec => []NoSleeperMissed
BY DriverUsesEvent, SignalIsNeverMissed, PTL

-----------------------------------------------------------------------------
(* One reader at a time.                                                   *)

\* The stages that count on nobody else reading come after a join.
Alone == {"open", "ask", "header", "payload", "create", "close", "destroy"}
Joined(s) == \A i \in 1 .. Len(s) : s[i] \in Alone => \E j \in 1 .. i - 1 : s[j] = "join"

\* The channel is opened first, after a request comes its answer, after a
\* header the next stage, and nothing after a thread was created.
Ordered(s) ==
  \A i \in 1 .. Len(s) :
    /\ s[i] = "open" => i = 1
    /\ s[i] = "ask" => i < Len(s) /\ s[i + 1] = "header"
    /\ s[i] = "header" => i < Len(s)
    /\ s[i] = "create" => i = Len(s)

\* What the stages to come suppose: of the driver's flag, of the call, and a
\* plan that destroys the driver is not given up.
Supposed ==
  /\ Ordered(client.rest)
  /\ Has(client.rest, "open") => ~connected
  /\ Has(client.rest, "create") => connected
  /\ Has(client.rest, "ask") \/ Has(client.rest, "header") => client.call \in Exchanging
  /\ Has(client.rest, "payload") => client.call \in {"connect", "query"}
  /\ Has(client.rest, "destroy") =>
       /\ ~Has(client.rest, "header") /\ ~Has(client.rest, "wait")
       /\ Has(client.rest, "tell") => connected

\* The call that destroys the driver is one more than there may be of others.
Counted ==
  /\ calls \in Nat
  /\ calls <= IF deleted \/ Has(client.rest, "destroy") THEN MaxCalls + 1 ELSE MaxCalls

\* A thread that has not ended can be joined, on a driver that is connected.
Owned ==
  /\ cacher \in {"off", "discard", "test", "read"}
  /\ cacher # "off" => cachethread.handle /\ Running /\ connected /\ Joined(client.rest)

ControlInv == Supposed /\ Counted /\ Owned

\* A stage further on.
LEMMA NextOrdered ==
  ASSUME NEW s \in Seq(Stages), s # <<>>, Ordered(s)
  PROVE  /\ Ordered(Tail(s))
         /\ Head(s) = "ask" => Tail(s) # <<>> /\ Head(Tail(s)) = "header"
         /\ Head(s) = "header" => Tail(s) # <<>> /\ Head(Tail(s)) = s[2]
         /\ Head(s) = "create" => Tail(s) = <<>>
         /\ ~Has(Tail(s), "open")
<1> DEFINE left == Tail(s)
           n == Len(s)
<1>1. /\ n \in Nat \ {0} /\ Head(s) = s[1] /\ left \in Seq(Stages) /\ Len(left) = n - 1
      /\ \A i \in 1 .. n - 1 : left[i] = s[i + 1]
  OBVIOUS
<1>2. \A i \in 1 .. n :
        /\ s[i] = "open" => i = 1
        /\ s[i] = "ask" => i < n /\ s[i + 1] = "header"
        /\ s[i] = "header" => i < n
        /\ s[i] = "create" => i = n
  BY DEF Ordered
<1>3. left # <<>> => Head(left) = left[1]
  BY <1>1
<1>. HIDE DEF left, n
<1>4. \A i \in 1 .. n - 1 : (left[i] = "ask" => i < n - 1 /\ left[i + 1] = "header")
                            /\ (left[i] = "header" => i < n - 1)
                            /\ (left[i] = "create" => i = n - 1)
  <2> TAKE i \in 1 .. n - 1
  <2>1. i + 1 \in 1 .. n /\ left[i] = s[i + 1]
    BY <1>1
  <2>2. CASE left[i] = "ask"
    <3>1. i + 1 < n /\ s[(i + 1) + 1] = "header"
      BY <1>2, <2>1, <2>2
    <3>2. i + 1 \in 1 .. n - 1
      BY <1>1, <3>1
    <3>3. left[i + 1] = s[(i + 1) + 1]
      BY <1>1, <3>2
    <3>. QED
      BY <1>1, <2>2, <3>1, <3>2, <3>3
  <2>3. CASE left[i] # "ask"
    BY <1>1, <1>2, <2>1, <2>3
  <2>. QED
    BY <2>2, <2>3
<1>5. \A i \in 1 .. n - 1 : left[i] # "open"
  <2> TAKE i \in 1 .. n - 1
  <2>1. i + 1 \in 1 .. n /\ left[i] = s[i + 1] /\ i + 1 # 1
    BY <1>1
  <2>. QED
    BY <1>2, <2>1
<1>6. Ordered(left) /\ ~Has(left, "open")
  BY <1>1, <1>4, <1>5 DEF Ordered, Has
<1>7. ASSUME s[1] = "ask" PROVE left # <<>> /\ Head(left) = "header"
  <2>1. 1 < n /\ s[1 + 1] = "header"
    BY <1>1, <1>2, <1>7
  <2>2. 1 \in 1 .. n - 1 /\ left[1] = s[1 + 1]
    BY <1>1, <2>1
  <2>. QED
    BY <1>1, <1>3, <2>1, <2>2
<1>8. ASSUME s[1] = "create" PROVE left = <<>>
  <2>1. 1 = n
    BY <1>1, <1>2, <1>8
  <2>. QED
    BY <1>1, <2>1
<1>9. ASSUME s[1] = "header" PROVE left # <<>> /\ Head(left) = s[2]
  <2>1. 1 < n
    BY <1>1, <1>2, <1>9
  <2>2. 1 \in 1 .. n - 1 /\ left[1] = s[1 + 1]
    BY <1>1, <2>1
  <2>. QED
    BY <1>1, <1>3, <2>1, <2>2
<1>. QED
  BY <1>1, <1>6, <1>7, <1>8, <1>9, Zenon DEF left

\* Without a join before it the first stage is none that counts on nobody reading.
LEMMA NextJoined ==
  ASSUME NEW s \in Seq(Stages), s # <<>>, Joined(s)
  PROVE  /\ Head(s) \notin Alone
         /\ Head(s) # "join" => Joined(Tail(s))
<1> DEFINE left == Tail(s)
           n == Len(s)
<1>1. /\ n \in Nat \ {0} /\ Head(s) = s[1] /\ left \in Seq(Stages) /\ Len(left) = n - 1
      /\ \A i \in 1 .. n - 1 : left[i] = s[i + 1]
  OBVIOUS
<1>2. \A i \in 1 .. n : s[i] \in Alone => \E j \in 1 .. i - 1 : s[j] = "join"
  BY DEF Joined
<1>. HIDE DEF left, n
<1>3. s[1] \notin Alone
  BY <1>1, <1>2
<1>4. ASSUME s[1] # "join", NEW i \in 1 .. n - 1, left[i] \in Alone
      PROVE  \E j \in 1 .. i - 1 : left[j] = "join"
  <2>1. i + 1 \in 1 .. n /\ s[i + 1] \in Alone
    BY <1>1, <1>4
  <2>2. PICK j \in 1 .. (i + 1) - 1 : s[j] = "join"
    BY <1>2, <2>1
  <2>3. j - 1 \in 1 .. n - 1 /\ j - 1 \in 1 .. i - 1 /\ (j - 1) + 1 = j
    BY <1>1, <1>4, <2>2
  <2>4. left[j - 1] = "join"
    BY <1>1, <2>2, <2>3
  <2>. QED
    BY <2>3, <2>4
<1>5. s[1] # "join" => Joined(left)
  BY <1>1, <1>4 DEF Joined
<1>. QED
  BY <1>1, <1>3, <1>5, Zenon DEF left

\* Two parts one after the other.
LEMMA JoinedEither ==
  ASSUME NEW s \in Seq(Stages), NEW t \in Seq(Stages), Joined(s), Has(s, "join") \/ Joined(t)
  PROVE  Joined(s \o t)
<1>1. /\ s \o t \in Seq(Stages) /\ Len(s \o t) = Len(s) + Len(t)
      /\ Len(s) \in Nat /\ Len(t) \in Nat
      /\ \A i \in 1 .. Len(s) : (s \o t)[i] = s[i]
      /\ \A i \in 1 .. Len(t) : (s \o t)[Len(s) + i] = t[i]
  OBVIOUS
<1> SUFFICES ASSUME NEW i \in 1 .. Len(s \o t), (s \o t)[i] \in Alone
             PROVE  \E j \in 1 .. i - 1 : (s \o t)[j] = "join"
  BY DEF Joined
<1>2. CASE i <= Len(s)
  <2>1. i \in 1 .. Len(s) /\ s[i] \in Alone
    BY <1>1, <1>2
  <2>2. PICK j \in 1 .. i - 1 : s[j] = "join"
    BY <2>1 DEF Joined
  <2>. QED
    BY <1>1, <1>2, <2>2
<1>3. CASE i > Len(s) /\ Has(s, "join")
  <2>1. PICK j \in 1 .. Len(s) : s[j] = "join"
    BY <1>3 DEF Has
  <2>. QED
    BY <1>1, <1>3, <2>1
<1>4. CASE i > Len(s) /\ Joined(t)
  <2> DEFINE m == i - Len(s)
  <2>1. m \in 1 .. Len(t) /\ Len(s) + m = i
    BY <1>1, <1>4
  <2>2. t[m] \in Alone
    BY <1>1, <2>1
  <2>3. PICK j \in 1 .. m - 1 : t[j] = "join"
    BY <1>4, <2>1, <2>2 DEF Joined
  <2>4. j \in 1 .. Len(t) /\ Len(s) + j \in 1 .. i - 1
    BY <1>1, <1>4, <2>1, <2>3
  <2>. QED
    BY <1>1, <2>3, <2>4
<1>. QED
  BY <1>1, <1>2, <1>3, <1>4

\* Two parts of a plan in order.
LEMMA OrderedBoth ==
  ASSUME NEW s \in Seq(Stages), NEW t \in Seq(Stages), Ordered(s), Ordered(t),
         ~Has(s, "create"), ~Has(t, "open")
  PROVE  Ordered(s \o t)
<1>1. /\ s \o t \in Seq(Stages) /\ Len(s \o t) = Len(s) + Len(t)
      /\ Len(s) \in Nat /\ Len(t) \in Nat
      /\ \A i \in 1 .. Len(s) : (s \o t)[i] = s[i]
      /\ \A i \in 1 .. Len(t) : (s \o t)[Len(s) + i] = t[i]
  OBVIOUS
<1> SUFFICES ASSUME NEW i \in 1 .. Len(s \o t)
             PROVE  /\ (s \o t)[i] = "open" => i = 1
                    /\ (s \o t)[i] = "ask" => i < Len(s \o t) /\ (s \o t)[i + 1] = "header"
                    /\ (s \o t)[i] = "create" => i = Len(s \o t)
  BY DEF Ordered
<1>2. CASE i <= Len(s)
  <2>1. i \in 1 .. Len(s) /\ (s \o t)[i] = s[i] /\ s[i] # "create"
    BY <1>1, <1>2 DEF Has
  <2>2. (s[i] = "open" => i = 1) /\ (s[i] = "ask" => i < Len(s) /\ s[i + 1] = "header")
    BY <2>1 DEF Ordered
  <2>3. i < Len(s) => (s \o t)[i + 1] = s[i + 1]
    BY <1>1, <2>1
  <2>. QED
    BY <1>1, <2>1, <2>2, <2>3
<1>3. CASE i > Len(s)
  <2> DEFINE m == i - Len(s)
  <2>1. m \in 1 .. Len(t) /\ Len(s) + m = i /\ Len(s) + (m + 1) = i + 1
    BY <1>1, <1>3
  <2>2. (s \o t)[i] = t[m]
    BY <1>1, <2>1
  <2>3. /\ t[m] # "open"
        /\ t[m] = "ask" => m < Len(t) /\ t[m + 1] = "header"
        /\ t[m] = "create" => m = Len(t)
    BY <2>1 DEF Ordered, Has
  <2>4. m < Len(t) => (s \o t)[i + 1] = t[m + 1]
    <3> SUFFICES ASSUME m < Len(t) PROVE (s \o t)[Len(s) + (m + 1)] = t[m + 1]
      BY <2>1
    <3>1. m + 1 \in 1 .. Len(t)
      BY <1>1, <2>1
    <3> HIDE DEF m
    <3>. QED
      BY <1>1, <3>1
  <2> HIDE DEF m
  <2>. QED
    BY <1>1, <2>1, <2>2, <2>3, <2>4
<1>. QED
  BY <1>1, <1>2, <1>3

\* The stages of the parts, in their order.
LEMMA Parts ==
  /\ \A stage : Has(Exchange, stage) <=> stage \in {"disable", "join", "ask", "header", "payload"}
  /\ \A stage : Has(Stop, stage) <=> stage \in {"disable", "join", "tell"}
  /\ \A stage : Has(Begin, stage) <=> stage \in {"ask", "header", "create"}
  /\ \A stage : Has(Take, stage) <=> stage \in {"wait", "take"}
  /\ \A stage : Has(Close, stage) <=> stage = "close"
  /\ \A stage : Has(Open, stage) <=> stage = "open"
  /\ \A stage : Has(End, stage) <=> stage = "destroy"
  /\ \A s \in {Exchange, Stop, Begin, Take, Close, Open, End} : Ordered(s)
  /\ Joined(Exchange) /\ Joined(Stop) /\ Joined(Take)
<1>1. Ordered(Exchange) /\ Joined(Exchange)
  BY DEF Exchange, Ordered, Joined, Alone
<1>2. \A stage : Has(Exchange, stage) <=> stage \in {"disable", "join", "ask", "header", "payload"}
  BY DEF Exchange, Has
<1>3. Ordered(Stop) /\ Joined(Stop)
  BY DEF Stop, Ordered, Joined, Alone
<1>4. \A stage : Has(Stop, stage) <=> stage \in {"disable", "join", "tell"}
  BY DEF Stop, Has
<1>5. Ordered(Begin)
  BY DEF Begin, Ordered
<1>6. \A stage : Has(Begin, stage) <=> stage \in {"ask", "header", "create"}
  BY DEF Begin, Has
<1>7. Ordered(Take) /\ Joined(Take) /\ \A stage : Has(Take, stage) <=> stage \in {"wait", "take"}
  BY DEF Take, Ordered, Has, Joined, Alone
<1>8. /\ Ordered(Close) /\ \A stage : Has(Close, stage) <=> stage = "close"
      /\ Ordered(Open) /\ \A stage : Has(Open, stage) <=> stage = "open"
      /\ Ordered(End) /\ \A stage : Has(End, stage) <=> stage = "destroy"
  BY DEF Close, Open, End, Ordered, Has
<1>. QED
  BY <1>1, <1>2, <1>3, <1>4, <1>5, <1>6, <1>7, <1>8, Zenon

\* What the plan of a call supposes: that of a driver that is connected
\* joins before it reads.
LEMMA PlansSuppose ==
  ASSUME NEW call \in Made, Accepts(call), connected \in BOOLEAN
  PROVE  /\ Ordered(Plan(call))
         /\ connected => Joined(Plan(call))
         /\ Has(Plan(call), "open") => ~connected
         /\ Has(Plan(call), "create") => connected
         /\ Has(Plan(call), "ask") \/ Has(Plan(call), "header") => call \in Exchanging
         /\ Has(Plan(call), "payload") => call \in {"connect", "query"}
         /\ Has(Plan(call), "destroy") =>
              /\ call = "delete" /\ ~Has(Plan(call), "header") /\ ~Has(Plan(call), "wait")
              /\ Has(Plan(call), "tell") => connected
         /\ call = "delete" => Has(Plan(call), "destroy")
<1> DEFINE Each == {Exchange, Stop, Begin, Take, Close, Open, End}
           S == {Exchange, Stop}
<1>1. \A s \in Each : s \in Seq(Stages) /\ Ordered(s)
  BY Pieces, Parts, Zenon DEF Orderly
<1>2. ASSUME NEW s \in Seq(Stages), NEW t \in Each, Ordered(s),
             ~Has(s, "create"), ~Has(t, "open")
      PROVE  /\ Ordered(s \o t) /\ s \o t \in Seq(Stages)
             /\ \A stage : Has(s \o t, stage) <=> Has(s, stage) \/ Has(t, stage)
             /\ Joined(s) /\ Has(s, "join") => Joined(s \o t)
  BY <1>1, <1>2, OrderedBoth, HasEither, JoinedEither
<1>3. /\ Ordered(Disconnect) /\ Disconnect \in Seq(Stages) /\ Joined(Disconnect)
      /\ \A stage : Has(Disconnect, stage) =>
                       stage \in {"disable", "join", "tell", "close"}
      /\ Has(Disconnect, "join")
  <2>1. CASE kind = "tcp"
    <3>1. Disconnect = Stop \o Close
      BY <2>1 DEF Disconnect, Close
    <3>2. ~Has(Stop, "create") /\ Has(Stop, "join")
      BY Parts
    <3>3. /\ Stop \in Seq(Stages) /\ Ordered(Stop) /\ Joined(Stop)
          /\ Close \in Each /\ ~Has(Close, "open")
      BY <1>1, Parts
    <3>. QED
      BY <1>2, <3>1, <3>2, <3>3, Parts
  <2>2. CASE kind # "tcp"
    <3>1. Disconnect = Stop
      BY <1>1, <2>2 DEF Disconnect
    <3>2. Stop \in Seq(Stages) /\ Ordered(Stop) /\ Joined(Stop)
      BY <1>1, Parts
    <3>. QED
      BY <3>1, <3>2, Parts
  <2>. QED
    BY <2>1, <2>2
<1>4. CASE call = "connect"
  <2>1. Plan(call) = Open \o Exchange /\ ~connected
    BY <1>4 DEF Plan, Open, Accepts
  <2>2. /\ Open \in Seq(Stages) /\ Ordered(Open) /\ ~Has(Open, "create")
        /\ Exchange \in Each /\ ~Has(Exchange, "open")
    BY <1>1, Parts
  <2>3. Ordered(Plan(call)) /\ \A stage : Has(Plan(call), stage) <=> Has(Open, stage) \/ Has(Exchange, stage)
    BY <1>2, <2>1, <2>2
  <2>. QED
    BY <1>4, <2>1, <2>3, Parts DEF Exchanging
<1>5. CASE call = "start"
  <2>1. Plan(call) = Stop \o Begin /\ connected
    BY <1>5 DEF Plan, Begin, Accepts
  <2>2. /\ Stop \in Seq(Stages) /\ Ordered(Stop) /\ ~Has(Stop, "create")
        /\ Begin \in Each /\ ~Has(Begin, "open")
        /\ Joined(Stop) /\ Has(Stop, "join")
    BY <1>1, Parts
  <2>3. Ordered(Plan(call)) /\ Joined(Plan(call))
        /\ \A stage : Has(Plan(call), stage) <=> Has(Stop, stage) \/ Has(Begin, stage)
    BY <1>2, <2>1, <2>2
  <2>. QED
    BY <1>5, <2>1, <2>3, Parts DEF Exchanging
<1>6. CASE call = "query"
  <2>1. Plan(call) = Exchange
    BY <1>6 DEF Plan
  <2>. QED
    BY <1>1, <1>6, <2>1, Parts DEF Exchanging
<1>7. CASE call \in {"stop", "grab"}
  <2>1. Plan(call) \in {Stop, Take}
    BY <1>7 DEF Plan, Take
  <2>. QED
    BY <1>1, <1>7, <2>1, Parts
<1>8. CASE call = "disconnect"
  <2>1. Plan(call) = Disconnect
    BY <1>8 DEF Plan
  <2>. QED
    BY <1>3, <1>8, <2>1
<1>9. CASE call = "delete" /\ connected
  <2>1. Plan(call) = Disconnect \o End
    BY <1>9 DEF Plan, End
  <2>2. End \in Each /\ ~Has(End, "open") /\ ~Has(Disconnect, "create")
    BY <1>3, Parts
  <2>3. Ordered(Plan(call)) /\ Joined(Plan(call))
        /\ \A stage : Has(Plan(call), stage) <=> Has(Disconnect, stage) \/ Has(End, stage)
    BY <1>2, <1>3, <2>1, <2>2
  <2>. QED
    BY <1>3, <1>9, <2>3, Parts
<1>10. CASE call = "delete" /\ ~connected
  <2>1. Plan(call) = End
    BY <1>1, <1>10 DEF Plan, End
  <2>. QED
    BY <1>1, <1>10, <2>1, Parts
<1>. QED
  BY <1>4, <1>5, <1>6, <1>7, <1>8, <1>9, <1>10 DEF Made

-----------------------------------------------------------------------------
(* The stages and the caching thread, step by step.                        *)

control == <<client, connected, deleted, calls, cacher, cachethread>>

\* What these relate stays as it is.
LEMMA ControlKept ==
  ASSUME ControlInv, UNCHANGED control
  PROVE  ControlInv'
BY DEF ControlInv, Supposed, Counted, Owned, Running, control

\* The first stage is one of them.
LEMMA HasHead ==
  ASSUME NEW s \in Seq(Stages), s # <<>>
  PROVE  Has(s, Head(s))
<1>1. Head(s) = s[1] /\ 1 \in 1 .. Len(s)
  OBVIOUS
<1>. QED
  BY <1>1 DEF Has

\* Who is at a stage that needs the channel for itself has it.
LEMMA AloneIsOff ==
  ASSUME LinkInv, ControlInv, client.rest # <<>>, Head(client.rest) \in Alone
  PROVE  cacher = "off"
BY NextJoined DEF LinkInv, CallInv, Orderly, ControlInv, Owned

\* A stage is done and the next comes, or the call returns early.
Onward ==
  /\ client.rest # <<>>
  /\ \/ client'.rest = Tail(client.rest)
     \/ client'.rest = <<>> /\ ~Has(client.rest, "destroy")
  /\ client'.rest # <<>> => client'.call = client.call

\* Advance, or a call that returns early, goes on with the stages.
LEMMA Proceeding ==
  ASSUME client.rest # <<>>, Advance \/ (Return /\ ~Has(client.rest, "destroy"))
  PROVE  Onward
<1>1. ASSUME NEW s, Proceed(s) PROVE client'.rest = s /\ (s # <<>> => client'.call = client.call)
  BY <1>1 DEF Proceed
<1>2. CASE Advance
  BY <1>1, <1>2 DEF Advance, Onward
<1>3. CASE Return /\ ~Has(client.rest, "destroy")
  BY <1>1, <1>3 DEF Return, Onward
<1>. QED
  BY <1>2, <1>3

\* What is left supposes what it supposed before.
LEMMA OnwardSupposes ==
  ASSUME LinkInv, ControlInv, Onward
  PROVE  /\ Ordered(client'.rest)
         /\ \A stage : Has(client'.rest, stage) => Has(client.rest, stage) /\ client'.call = client.call
         /\ Has(client.rest, "destroy") /\ Head(client.rest) # "destroy" => Has(client'.rest, "destroy")
         /\ Joined(client.rest) /\ Head(client.rest) # "join" => Joined(client'.rest)
<1>1. client.rest \in Seq(Stages) /\ Orderly(client.rest) /\ Ordered(client.rest)
  BY DEF LinkInv, CallInv, Orderly, ControlInv, Supposed
<1>2. Joined(<<>>) /\ Ordered(<<>>) /\ \A stage : ~Has(<<>>, stage)
  BY DEF Joined, Ordered, Has
<1>3. CASE client'.rest = Tail(client.rest)
  <2>1. \A stage : Has(client'.rest, stage) => client'.rest # <<>>
    BY <1>2
  <2>. QED
    BY <1>1, <1>3, <2>1, NextStage, NextOrdered, NextJoined DEF Onward
<1>4. CASE client'.rest = <<>> /\ ~Has(client.rest, "destroy")
  BY <1>2, <1>4
<1>. QED
  BY <1>3, <1>4 DEF Onward

\* Stages that change nothing else of these.
LEMMA ControlOnward ==
  ASSUME LinkInv, ControlInv, Onward, Head(client.rest) \notin {"join", "destroy"},
         UNCHANGED <<connected, deleted, calls, cacher, cachethread>>
  PROVE  ControlInv'
<1>1. Supposed'
  BY OnwardSupposes DEF ControlInv, Supposed
<1>2. Counted'
  BY OnwardSupposes DEF ControlInv, Counted
<1>3. Owned'
  BY OnwardSupposes DEF ControlInv, Owned, Running
<1>. QED
  BY <1>1, <1>2, <1>3 DEF ControlInv

\* The driver as it is created.
LEMMA ControlInit == Init => ControlInv
<1> SUFFICES ASSUME Init PROVE ControlInv
  OBVIOUS
<1>1. client.rest = <<>> /\ cacher = "off" /\ calls = 0 /\ ~deleted
  BY DEF Init
<1>2. Ordered(<<>>) /\ \A stage : ~Has(<<>>, stage)
  BY DEF Ordered, Has
<1>3. 0 <= MaxCalls
  BY LinkAssumption
<1>. QED
  BY <1>1, <1>2, <1>3 DEF ControlInv, Supposed, Counted, Owned

\* A call begins.
LEMMA CallControl ==
  ASSUME LinkInv, ControlInv, NEW call \in Made, Call(call)
  PROVE  ControlInv'
<1>1. /\ Accepts(call) /\ client.rest = <<>> /\ ~deleted /\ (call = "delete" \/ calls < MaxCalls)
      /\ client'.call = (IF call \in Exchanging THEN call ELSE "none") /\ client'.rest = Plan(call)
      /\ calls' = calls + 1
      /\ UNCHANGED <<connected, deleted, cacher, cachethread>>
  BY DEF Call, Idle, platform, hal, flags, ends
<1>2. connected \in BOOLEAN
  BY DEF LinkInv, FlagsOK
<1>3. /\ Ordered(Plan(call))
      /\ connected => Joined(Plan(call))
      /\ Has(Plan(call), "open") => ~connected
      /\ Has(Plan(call), "create") => connected
      /\ Has(Plan(call), "ask") \/ Has(Plan(call), "header") => call \in Exchanging
      /\ Has(Plan(call), "payload") => call \in {"connect", "query"}
      /\ Has(Plan(call), "destroy") =>
              /\ call = "delete" /\ ~Has(Plan(call), "header") /\ ~Has(Plan(call), "wait")
              /\ Has(Plan(call), "tell") => connected
      /\ call = "delete" => Has(Plan(call), "destroy")
  BY <1>1, <1>2, PlansSuppose
<1>4. Supposed'
  BY <1>1, <1>3 DEF Supposed, Exchanging
<1>5. ~Has(client.rest, "destroy")
  BY <1>1 DEF Has
<1>6. Counted'
  BY <1>1, <1>3, <1>5, LinkAssumption DEF ControlInv, Counted
<1>7. Owned'
  BY <1>1, <1>3 DEF ControlInv, Owned, Running
<1>. QED
  BY <1>4, <1>6, <1>7 DEF ControlInv

\* connect(): nobody reads on a driver that is not connected.
LEMMA OpenControl ==
  ASSUME LinkInv, ControlInv, OpenSerial \/ OpenTCP
  PROVE  ControlInv'
<1>1. /\ client.rest # <<>> /\ Head(client.rest) = "open"
      /\ Advance \/ Return
      /\ UNCHANGED <<deleted, calls, cacher, cachethread>>
  <2>1. CASE OpenSerial
    BY <2>1 DEF OpenSerial, At, platform, hal, ends
  <2>2. CASE OpenTCP
    BY <2>2 DEF OpenTCP, At, platform, hal, ends
  <2>. QED
    BY <2>1, <2>2
<1>2. client.rest \in Seq(Stages) /\ Orderly(client.rest)
  BY DEF LinkInv, CallInv, Orderly
<1>3. Has(client.rest, "open") /\ ~Has(client.rest, "destroy") /\ cacher = "off"
  BY <1>1, <1>2, HasHead, AloneIsOff DEF Orderly, Alone
<1>4. Onward
  BY <1>1, <1>3, Proceeding
<1>5. ~Has(client.rest, "create")
  BY <1>3 DEF ControlInv, Supposed
<1>6. ~Has(client'.rest, "open")
  <2>1. client'.rest \in {Tail(client.rest), <<>>}
    BY <1>4 DEF Onward
  <2>. QED
    BY <1>1, <1>2, <2>1, NextOrdered, NoStages DEF ControlInv, Supposed
<1>7. Supposed'
  BY <1>3, <1>4, <1>5, <1>6, OnwardSupposes DEF ControlInv, Supposed
<1>8. Counted'
  BY <1>1, <1>3, <1>4, OnwardSupposes DEF ControlInv, Counted
<1>9. Owned'
  BY <1>1, <1>3 DEF ControlInv, Owned
<1>. QED
  BY <1>7, <1>8, <1>9 DEF ControlInv

\* The stages that change nothing of these but the call itself.
LEMMA StagesControl ==
  ASSUME LinkInv, ControlInv,
         Disable \/ Tell \/ Ask \/ Header \/ PayloadRead \/ GrabWoken \/ GrabTakes \/ CloseTCP
  PROVE  /\ Onward /\ Head(client.rest) \notin {"join", "destroy"}
         /\ UNCHANGED <<connected, deleted, calls, cacher, cachethread>>
         /\ ControlInv'
<1>. USE DEF platform, hal, channel, flags, ends
<1>. DEFINE Same == UNCHANGED <<connected, deleted, calls, cacher, cachethread>>
<1>1. client.rest # <<>> => Has(client.rest, Head(client.rest))
  BY HasHead DEF LinkInv, CallInv, Orderly
<1>2. Onward /\ Head(client.rest) \notin {"join", "destroy"} /\ Same
  <2>1. CASE Disable
    <3>1. client.rest # <<>> /\ Head(client.rest) = "disable" /\ Advance /\ Same
      BY <2>1 DEF Disable, At
    <3>. QED
      BY <3>1, Proceeding
  <2>2. CASE Tell
    <3>1. /\ client.rest # <<>> /\ Head(client.rest) = "tell" /\ Same
          /\ IF connected THEN Advance ELSE Return
      BY <2>2 DEF Tell, At
    <3>2. Has(client.rest, "destroy") => connected
      BY <1>1, <3>1 DEF ControlInv, Supposed
    <3>. QED
      BY <3>1, <3>2, Proceeding
  <2>3. CASE Ask \/ PayloadRead
    <3>1. client.rest # <<>> /\ Head(client.rest) \in {"ask", "payload"} /\ Advance /\ Same
      BY <2>3 DEF Ask, PayloadRead, At
    <3>. QED
      BY <3>1, Proceeding
  <2>4. CASE Header
    <3>1. client.rest # <<>> /\ Head(client.rest) = "header" /\ Same
      BY <2>4 DEF Header, At
    <3>2. Advance \/ Return
      BY <2>4 DEF Header
    <3>3. ~Has(client.rest, "destroy")
      BY <1>1, <3>1 DEF ControlInv, Supposed
    <3>. QED
      BY <3>1, <3>2, <3>3, Proceeding
  <2>5. CASE GrabWoken
    <3>1. client.rest # <<>> /\ Head(client.rest) = "wait" /\ Same
      BY <2>5 DEF GrabWoken, At
    <3>2. Advance \/ Return
      BY <2>5 DEF GrabWoken
    <3>3. ~Has(client.rest, "destroy")
      BY <1>1, <3>1 DEF ControlInv, Supposed
    <3>. QED
      BY <3>1, <3>2, <3>3, Proceeding
  <2>6. CASE GrabTakes \/ CloseTCP
    <3>1. client.rest # <<>> /\ Head(client.rest) \in {"take", "close"} /\ Advance /\ Same
      BY <2>6 DEF GrabTakes, CloseTCP, At
    <3>. QED
      BY <3>1, Proceeding
  <2>. QED
    BY <2>1, <2>2, <2>3, <2>4, <2>5, <2>6
<1>. QED
  BY <1>2, ControlOnward

\* The join lets the caller go on when the thread has ended.
LEMMA JoinControl ==
  ASSUME LinkInv, ControlInv, Join
  PROVE  ControlInv'
<1>1. /\ client.rest # <<>> /\ Head(client.rest) = "join" /\ Advance /\ JoinReturns
      /\ UNCHANGED <<connected, deleted, calls, cacher>>
  BY DEF Join, At, platform, flags, ends
<1>2. cacher = "off"
  BY <1>1 DEF JoinReturns, ControlInv, Owned
<1>3. Onward
  BY <1>1, Proceeding
<1>. QED
  BY <1>1, <1>2, <1>3, OnwardSupposes DEF ControlInv, Supposed, Counted, Owned

\* The thread is created on a connected driver, as the last stage.
LEMMA CreateControl ==
  ASSUME LinkInv, ControlInv, Create
  PROVE  ControlInv'
<1>1. /\ client.rest # <<>> /\ Head(client.rest) = "create" /\ Advance
      /\ client'.rest = Tail(client.rest)
      /\ UNCHANGED <<connected, deleted, calls>>
  BY Proceeds DEF Create, At, platform, channel, ends
<1>2. PICK granted \in BOOLEAN :
        cachethread' = CreatedThread(granted) /\ cacher' = IF granted THEN "discard" ELSE cacher
  BY DEF Create
<1>3. CreatedThread(granted) = [handle |-> granted, state |-> IF granted THEN "running" ELSE "none"]
  BY DEF CreatedThread, LinuxCreate, MacCreate, WinCreate, LinkInv, PlatformOK, Systems
<1>4. client.rest \in Seq(Stages)
  BY DEF LinkInv, CallInv, Orderly
<1>5. connected /\ cacher = "off" /\ client'.rest = <<>>
  BY <1>1, <1>4, HasHead, AloneIsOff, NextOrdered DEF ControlInv, Supposed, Alone
<1>6. Onward
  BY <1>1, Proceeding
<1>7. Joined(client'.rest)
  BY <1>5 DEF Joined
<1>8. Owned'
  BY <1>1, <1>2, <1>3, <1>5, <1>7 DEF Owned, Running
<1>. QED
  BY <1>1, <1>6, <1>8, OnwardSupposes DEF ControlInv, Supposed, Counted

\* The destructor ends the last call.
LEMMA DestroyControl ==
  ASSUME LinkInv, ControlInv, Destroy
  PROVE  ControlInv'
<1>1. /\ client.rest # <<>> /\ Head(client.rest) = "destroy" /\ Advance
      /\ deleted' = TRUE /\ UNCHANGED <<connected, calls, cacher, cachethread>>
  BY DEF Destroy, At, platform, hal, flags
<1>2. Onward
  BY <1>1, Proceeding
<1>3. cacher = "off"
  BY <1>1, AloneIsOff DEF Alone
<1>4. calls <= MaxCalls + 1
  BY LinkAssumption DEF ControlInv, Counted
<1>. QED
  BY <1>1, <1>2, <1>3, <1>4, OnwardSupposes DEF ControlInv, Supposed, Counted, Owned

\* The caching thread goes on, or ends.
LEMMA CacherControl ==
  ASSUME LinkInv, ControlInv, CacherStep
  PROVE  ControlInv'
<1>1. /\ UNCHANGED <<client, connected, deleted, calls>>
      /\ \/ cacher' \in {"test", "read"} /\ cacher # "off" /\ UNCHANGED cachethread
         \/ cacher' = "off"
  <2>. USE DEF platform, hal, channel, flags, ends, CacherEnds
  <2>1. CASE CacherDiscards
    BY <2>1 DEF CacherDiscards
  <2>2. CASE CacherTests
    BY <2>2 DEF CacherTests
  <2>3. CASE CacherReads
    BY <2>3 DEF CacherReads
  <2>. QED
    BY <2>1, <2>2, <2>3 DEF CacherStep
<1>. QED
  BY <1>1 DEF ControlInv, Supposed, Counted, Owned, Running

\* What the readers, the device and the event do is not of the calls.
LEMMA RestControl ==
  ASSUME \/ Grab \/ EventSteps \/ UseNull \/ JoinAgain
         \/ \E r \in Readers : ReaderStep(r) \/ TimeOver(r)
         \/ Deliver \/ Measure \/ Stray \/ LineError \/ Unplug
  PROVE  UNCHANGED control
<1>. USE DEF control, platform, hal, channel, flags, ends
<1>1. CASE Grab \/ EventSteps
  BY <1>1 DEF Grab, EventSteps, linkVars
<1>2. CASE UseNull \/ JoinAgain
  BY <1>2 DEF UseNull, JoinAgain, Crash
<1>3. ASSUME NEW r \in Readers, ReaderStep(r) \/ TimeOver(r) PROVE UNCHANGED control
  <2>1. CASE CheckReader(r) \/ ArmReader(r)
    BY <2>1 DEF CheckReader, ArmReader
  <2>2. CASE WakeReader(r)
    BY <2>2 DEF WakeReader
  <2>3. CASE ReaderTimesOut(r) \/ TimeOver(r)
    BY <2>3 DEF ReaderTimesOut, TimeOver
  <2>4. CASE TakeReader(r)
    BY <2>4 DEF TakeReader
  <2>. QED
    BY <1>3, <2>1, <2>2, <2>3, <2>4 DEF ReaderStep
<1>4. CASE Deliver \/ Measure
  BY <1>4 DEF Deliver, Measure
<1>5. CASE Stray \/ LineError \/ Unplug
  BY <1>5 DEF Stray, LineError, Unplug
<1>. QED
  BY <1>1, <1>2, <1>3, <1>4, <1>5

\* Every step keeps them.
LEMMA ControlStep == LinkInv /\ ControlInv /\ [Next]_vars => ControlInv'
<1> SUFFICES ASSUME LinkInv, ControlInv, [Next]_vars PROVE ControlInv'
  OBVIOUS
<1>1. CASE \E call \in Made : Call(call)
  BY <1>1, CallControl
<1>2. CASE ClientStep
  BY <1>2, OpenControl, StagesControl, JoinControl, CreateControl, DestroyControl, RestControl,
     ControlKept DEF ClientStep
<1>3. CASE CacherStep
  BY <1>3, CacherControl
<1>4. CASE \/ EventSteps \/ Deliver \/ Measure \/ Stray \/ LineError \/ Unplug
           \/ \E r \in Readers : ReaderStep(r) \/ TimeOver(r)
  BY <1>4, RestControl, ControlKept
<1>5. CASE UNCHANGED vars
  BY <1>5, ControlKept DEF vars, linkVars, control
<1>. QED
  BY <1>1, <1>2, <1>3, <1>4, <1>5 DEF Next, Made

-----------------------------------------------------------------------------
(* The readers.                                                            *)

Letters == [b : {"A5", "5A", "p1", "p2", "n1", "n2"} \cup Types, req : 0 .. MaxCalls + 1]
Parsers == [pos : 0 .. 3, last : Letters \cup {Byte("none", 0)}, missed : BOOLEAN]
Watches == SUBSET {"port", "pipe", "armed", "fired", "new"}
Goals == {"header", "payload", "node"}
Waits == {"arm", "wait", "ready"}
Busy == Waits \cup {"loop"}
ReaderStates ==
  [at : Busy \cup {"out", "ok", "fail", "late"}, goal : Goals, got : Parsers, watch : Watches]

\* What is there of the `need' bytes that a wait was for.
Enough(need) == IF kind = "serial" THEN Len(rx) >= need ELSE rx # <<>> \/ dev.gone

\* A reader that reads misses something; what it was granted is there.
Placed(x) ==
  /\ x \in ReaderStates
  /\ x.at = "out" => x = out
  /\ x.at \in Busy => x.got.pos < Size(x.goal)
  /\ x.goal = "payload" => x.got.pos = 0
Granted(x) ==
  /\ x.at \in Waits /\ kind = "serial" => port.opened
  /\ x.at = "ready" => Enough(Size(x.goal) - x.got.pos)

\* Who reads is at a stage that does.
AtStage(x) == x.at # "out" => client.rest # <<>> /\ Head(client.rest) = x.goal
InLoop(x) == x.at # "out" => x.goal = "node" /\ cacher \in {"discard", "read"}

Places ==
  /\ rd \in [Readers -> ReaderStates]
  /\ \A r \in Readers : Placed(rd[r]) /\ Granted(rd[r])
  /\ AtStage(rd["client"]) /\ InLoop(rd["cacher"])

LineOK ==
  /\ rx \in Seq(Letters)
  /\ dev \in [line : Seq(Letters), streaming : BOOLEAN, sent : Nat, gone : BOOLEAN]

ReadInv == Places /\ LineOK

-----------------------------------------------------------------------------
(* The parsers.                                                            *)

\* A reader misses three bytes at the most, so a read goes through the parser
\* in three steps at the most.
After(goal, start, bytes, n) ==
  LET one == ParseByte(goal, start, bytes[1])
      two == ParseByte(goal, one, bytes[2])
  IN  IF n = 0 THEN start ELSE IF n = 1 THEN one ELSE IF n = 2 THEN two
      ELSE ParseByte(goal, two, bytes[3])

\* A parser over at most three bytes, one after the other.
LEMMA ParseFew ==
  ASSUME NEW goal, NEW start, NEW bytes, NEW n \in 0 .. 3, DOMAIN bytes = 1 .. n
  PROVE  Parse(goal, start, bytes) = After(goal, start, bytes, n)
<1> DEFINE P(at, i) == ParseByte(goal, at, bytes[i])
           A(s) == IF 1 \in s THEN P(start, 1) ELSE start
           B(s) == IF 2 \in s THEN P(A(s), 2) ELSE A(s)
           C(s) == IF 3 \in s THEN P(B(s), 3) ELSE B(s)
           S == 1 .. n
           Is(f) == f = [s \in SUBSET S |-> IF s = {} THEN start ELSE P(f[s \ {Max(s)}], Max(s))]
<1>1. \A s \in SUBSET S : s # {} =>
        /\ Max(s) \in s /\ \A y \in s : Max(s) >= y
  <2> TAKE s \in SUBSET S
  <2> HAVE s # {}
  <2>1. \E x \in s : \A y \in s : x >= y
    <3>1. CASE 3 \in s
      BY <3>1
    <3>2. CASE 3 \notin s /\ 2 \in s
      BY <3>2
    <3>3. CASE 3 \notin s /\ 2 \notin s
      <4>1. \A y \in s : y = 1
        BY <3>3
      <4>2. PICK x \in s : TRUE
        OBVIOUS
      <4>. QED
        BY <4>1, <4>2
    <3>. QED
      BY <3>1, <3>2, <3>3
  <2>. QED
    BY <2>1 DEF Max
<1>2. \A s \in SUBSET S : s # {} =>
        Max(s) = IF 3 \in s THEN 3 ELSE IF 2 \in s THEN 2 ELSE 1
  <2> TAKE s \in SUBSET S
  <2> HAVE s # {}
  <2> DEFINE m == Max(s)
  <2>1. m \in s /\ \A y \in s : m >= y
    BY <1>1
  <2> HIDE DEF m
  <2>2. m = IF 3 \in s THEN 3 ELSE IF 2 \in s THEN 2 ELSE 1
    BY <2>1
  <2>. QED
    BY <2>2 DEF m
<1> HIDE DEF P
<1>3. \A s \in SUBSET S : C(s) = IF s = {} THEN start ELSE P(C(s \ {Max(s)}), Max(s))
  <2> TAKE s \in SUBSET S
  <2>1. CASE s = {}
    BY <2>1
  <2>2. CASE 3 \in s
    <3>1. Max(s) = 3 /\ s # {}
      BY <1>2, <2>2
    <3> DEFINE r == s \ {3}
    <3>2. 3 \notin r /\ (2 \in r <=> 2 \in s) /\ (1 \in r <=> 1 \in s)
      OBVIOUS
    <3> HIDE DEF r
    <3>3. C(r) = B(s) /\ C(s) = P(B(s), 3)
      BY <2>2, <3>2
    <3>. QED
      BY <3>1, <3>3 DEF r
  <2>3. CASE 3 \notin s /\ 2 \in s
    <3>1. Max(s) = 2 /\ s # {}
      BY <1>2, <2>3
    <3> DEFINE r == s \ {2}
    <3>2. 3 \notin r /\ 2 \notin r /\ (1 \in r <=> 1 \in s)
      BY <2>3
    <3> HIDE DEF r
    <3>3. C(r) = A(s) /\ C(s) = P(A(s), 2)
      BY <2>3, <3>2
    <3>. QED
      BY <3>1, <3>3 DEF r
  <2>4. CASE 3 \notin s /\ 2 \notin s /\ s # {}
    <3>1. Max(s) = 1 /\ 1 \in s
      BY <1>1, <1>2, <2>4
    <3> DEFINE r == s \ {1}
    <3>2. 3 \notin r /\ 2 \notin r /\ 1 \notin r
      BY <2>4
    <3> HIDE DEF r
    <3>3. C(r) = start /\ C(s) = P(start, 1)
      BY <2>4, <3>1, <3>2
    <3>. QED
      BY <2>4, <3>1, <3>3 DEF r
  <2>. QED
    BY <2>1, <2>2, <2>3, <2>4
<1>4. \E f : Is(f)
  <2> DEFINE f == [s \in SUBSET S |-> C(s)]
  <2>1. \A s \in SUBSET S : C(s) = IF s = {} THEN start ELSE P(f[s \ {Max(s)}], Max(s))
    <3> HIDE DEF C
    <3>. QED
      BY <1>3
  <2> HIDE DEF C
  <2>2. Is(f)
    BY <2>1
  <2>. QED
    BY <2>2
<1> DEFINE fold == CHOOSE f : Is(f)
<1>5. Is(fold)
  BY <1>4
<1>6. Parse(goal, start, bytes) = fold[S]
  BY DEF Parse, FoldLeft, MapThenFoldSet, P
<1> HIDE DEF fold
<1>7. \A s \in SUBSET S : fold[s] = IF s = {} THEN start ELSE P(fold[s \ {Max(s)}], Max(s))
  BY <1>5
<1> HIDE DEF Is
<1>8. fold[{}] = start
  BY <1>7
<1>9. n >= 1 => fold[{1}] = P(start, 1)
  <2>1. n >= 1 => {1} \in SUBSET S /\ Max({1}) = 1 /\ {1} \ {1} = {} /\ {1} # {}
    BY <1>2
  <2>. QED
    BY <1>7, <1>8, <2>1
<1>10. n >= 2 => fold[{1, 2}] = P(P(start, 1), 2)
  <2>1. n >= 2 => {1, 2} \in SUBSET S /\ Max({1, 2}) = 2 /\ {1, 2} \ {2} = {1} /\ {1, 2} # {}
    BY <1>2
  <2>2. n >= 2 => fold[{1, 2}] = P(fold[{1}], 2)
    BY <1>7, <2>1
  <2>. QED
    BY <1>9, <2>2
<1>11. n >= 3 => fold[{1, 2, 3}] = P(P(P(start, 1), 2), 3)
  <2>1. n >= 3 => {1, 2, 3} \in SUBSET S /\ Max({1, 2, 3}) = 3 /\ {1, 2, 3} \ {3} = {1, 2} /\ {1, 2, 3} # {}
    BY <1>2
  <2>2. n >= 3 => fold[{1, 2, 3}] = P(fold[{1, 2}], 3)
    BY <1>7, <2>1
  <2>. QED
    BY <1>10, <2>2
<1>12. /\ n \in {0, 1, 2, 3}
       /\ n = 0 => S = {}
       /\ n = 1 => S = {1}
       /\ n = 2 => S = {1, 2}
       /\ n = 3 => S = {1, 2, 3}
  OBVIOUS
<1> HIDE DEF S
<1>13. CASE n = 0
  BY <1>6, <1>8, <1>12, <1>13 DEF After
<1>14. CASE n = 1
  BY <1>6, <1>9, <1>12, <1>14 DEF After, P
<1>15. CASE n = 2
  BY <1>6, <1>10, <1>12, <1>15 DEF After, P
<1>16. CASE n = 3
  BY <1>6, <1>11, <1>12, <1>16 DEF After, P
<1>. QED
  BY <1>12, <1>13, <1>14, <1>15, <1>16

\* What a byte, and what was read, makes of a parser.
LEMMA ParseByteType ==
  ASSUME NEW goal \in {"header", "node"}, NEW at \in Parsers, at.pos < Size(goal), NEW byte \in Letters
  PROVE  /\ ParseByte(goal, at, byte) \in Parsers
         /\ ParseByte(goal, at, byte).pos <= at.pos + 1
<1>1. Size(goal) \in 2 .. 3
  BY DEF Size
<1>2. at.pos + 1 \in 0 .. 3
  BY <1>1 DEF Parsers
<1>3. CASE Keeps(goal, at.pos, byte.b)
  <2>1. ParseByte(goal, at, byte) =
          [pos |-> at.pos + 1, last |-> IF at.pos = 2 THEN byte ELSE at.last, missed |-> at.missed]
    BY <1>3 DEF ParseByte
  <2>. QED
    BY <1>2, <2>1 DEF Parsers
<1>4. CASE ~Keeps(goal, at.pos, byte.b)
  <2>. DEFINE m == at.missed \/ (goal = "header" /\ at.pos = 1 /\ byte.b = "A5")
  <2>1. ParseByte(goal, at, byte) = [pos |-> 0, last |-> at.last, missed |-> m]
    BY <1>4 DEF ParseByte
  <2>2. m \in BOOLEAN
    BY DEF Parsers
  <2>. HIDE DEF m
  <2>3. at.pos >= 0 /\ at.last \in Letters \cup {Byte("none", 0)}
    BY DEF Parsers
  <2>. QED
    BY <1>2, <2>1, <2>2, <2>3 DEF Parsers
<1>. QED
  BY <1>3, <1>4

\* A parser that misses that many bytes ends where one may be.
LEMMA ParseType ==
  ASSUME NEW goal \in {"header", "node"}, NEW at \in Parsers, NEW bytes \in Seq(Letters),
         Len(bytes) + at.pos <= Size(goal)
  PROVE  /\ Parse(goal, at, bytes) \in Parsers
         /\ Parse(goal, at, bytes).pos <= Size(goal)
<1> DEFINE n == Len(bytes)
           one == ParseByte(goal, at, bytes[1])
           two == ParseByte(goal, one, bytes[2])
           three == ParseByte(goal, two, bytes[3])
<1>1. /\ Size(goal) \in 2 .. 3 /\ at.pos \in 0 .. 3 /\ n \in 0 .. 3
      /\ DOMAIN bytes = 1 .. n /\ \A i \in 1 .. n : bytes[i] \in Letters
  <2>1. Size(goal) \in 2 .. 3
    BY DEF Size
  <2>2. at.pos \in 0 .. 3
    BY DEF Parsers
  <2>3. n \in Nat /\ DOMAIN bytes = 1 .. n /\ \A i \in 1 .. n : bytes[i] \in Letters
    OBVIOUS
  <2>4. n + at.pos <= Size(goal)
    OBVIOUS
  <2>. HIDE DEF n
  <2>. QED
    BY <2>1, <2>2, <2>3, <2>4
<1>2. Parse(goal, at, bytes) =
        IF n = 0 THEN at ELSE IF n = 1 THEN one ELSE IF n = 2 THEN two ELSE three
  <2>. HIDE DEF n
  <2>1. Parse(goal, at, bytes) = After(goal, at, bytes, n)
    BY <1>1, ParseFew
  <2>. QED
    BY <2>1 DEF After
<1>3. \A x \in Parsers : x.pos \in 0 .. 3
  BY DEF Parsers
<1>8. n + at.pos <= Size(goal)
  OBVIOUS
<1>. HIDE DEF n, one, two, three
<1>4. ASSUME n >= 1 PROVE one \in Parsers /\ one.pos <= at.pos + 1
  <2>1. bytes[1] \in Letters /\ at.pos < Size(goal)
    BY <1>1, <1>4, <1>8
  <2>. QED
    BY <2>1, ParseByteType DEF one
<1>5. ASSUME n >= 2 PROVE two \in Parsers /\ two.pos <= at.pos + 2
  <2>1. bytes[2] \in Letters /\ one \in Parsers /\ one.pos < Size(goal) /\ one.pos <= at.pos + 1
    BY <1>1, <1>3, <1>4, <1>5, <1>8
  <2>2. two \in Parsers /\ two.pos <= one.pos + 1
    BY <2>1, ParseByteType DEF two
  <2>. QED
    BY <1>1, <1>3, <2>1, <2>2
<1>6. ASSUME n >= 3 PROVE three \in Parsers /\ three.pos <= at.pos + 3
  <2>1. bytes[3] \in Letters /\ two \in Parsers /\ two.pos < Size(goal) /\ two.pos <= at.pos + 2
    BY <1>1, <1>3, <1>5, <1>6, <1>8
  <2>2. three \in Parsers /\ three.pos <= two.pos + 1
    BY <2>1, ParseByteType DEF three
  <2>. QED
    BY <1>1, <1>3, <2>1, <2>2
<1>. QED
  BY <1>1, <1>2, <1>3, <1>4, <1>5, <1>6, <1>8

\* What a wait comes to.
LEMMA CheckRounds ==
  ASSUME os \in Systems, NEW p, NEW need, NEW there, NEW gone, NEW c, c = CheckPort(p, need, there, gone)
  PROVE  /\ c.at \in {"fail", "ready", "wait", "arm"} /\ c.watch \in Watches
         /\ c.at # "fail" => p.opened
         /\ c.at = "ready" => there >= need
<1> USE DEF Round, Watches
<1>1. CASE os = "linux"
  BY <1>1 DEF CheckPort, LinuxCheck
<1>2. CASE os = "macOS"
  BY <1>2 DEF CheckPort, MacCheck
<1>3. CASE os = "win32"
  BY <1>3 DEF CheckPort, WinCheck
<1>. QED
  BY <1>1, <1>2, <1>3 DEF Systems

\* What a wait that is told of the port comes to.
LEMMA SelectRounds ==
  ASSUME os \in Systems, NEW p, NEW need, NEW there, NEW gone, NEW watch,
         NEW s \in SelectPort(p, need, there, gone, watch)
  PROVE  /\ s.at \in {"fail", "ready", "wait", "arm", "aborted"} /\ s.watch \in Watches
         /\ s.at = "ready" => there >= need
<1> USE DEF Round, Watches
<1>1. CASE os = "linux"
  BY <1>1 DEF SelectPort, LinuxSelect, PosixReady
<1>2. CASE os = "macOS"
  BY <1>2 DEF SelectPort, MacSelect, PosixReady
<1>3. CASE os = "win32"
  BY <1>3 DEF SelectPort, WinSelect
<1>. QED
  BY <1>1, <1>2, <1>3 DEF Systems

\* What a wait on Win32 begins with.
LEMMA ArmRounds ==
  \A watch, gone : \A a \in WinArm(watch, gone) : a.at \in {"fail", "wait"} /\ a.watch \in Watches
BY DEF WinArm, Round, Watches

\* A reader that moves and parses nothing.
Moved(x, at, watch) == [at |-> at, goal |-> x.goal, got |-> x.got, watch |-> watch]

\* A reader's place changes, its goal and its parser do not.
LEMMA MovedIs ==
  ASSUME NEW x \in ReaderStates, NEW a, NEW w
  PROVE  [[x EXCEPT !.at = a] EXCEPT !.watch = w] = Moved(x, a, w)
<1> DEFINE K == {"at", "goal", "got", "watch"}
           y == [x EXCEPT !.at = a]
           z == [y EXCEPT !.watch = w]
           f == [k \in K |-> IF k = "watch" THEN w ELSE IF k = "at" THEN a ELSE x[k]]
<1>1. DOMAIN x = K /\ x = [k \in K |-> x[k]]
  BY DEF ReaderStates
<1>2. y = [k \in K |-> IF k = "at" THEN a ELSE x[k]]
  BY <1>1
<1> HIDE DEF y
<1>3. z = f
  BY <1>2
<1>4. f = Moved(x, a, w)
  BY DEF Moved
<1>. QED
  BY <1>3, <1>4 DEF y

\* Enter and Place move one reader.
LEMMA EnterMoves ==
  ASSUME Places, NEW r \in Readers, NEW round, NEW at
  PROVE  /\ Enter(r, round) = [rd EXCEPT ![r] = Moved(rd[r], round.at, round.watch)]
         /\ Place(r, at) = [rd EXCEPT ![r] = Moved(rd[r], at, {})]
<1>1. rd[r] \in ReaderStates /\ rd \in [Readers -> ReaderStates]
  BY DEF Places
<1>2. ASSUME NEW a, NEW w
      PROVE  [rd EXCEPT ![r].at = a, ![r].watch = w] = [rd EXCEPT ![r] = Moved(rd[r], a, w)]
  <2>1. [[rd[r] EXCEPT !.at = a] EXCEPT !.watch = w] = Moved(rd[r], a, w)
    BY <1>1, MovedIs
  <2>2. [rd EXCEPT ![r].at = a, ![r].watch = w] = [rd EXCEPT ![r] = [[rd[r] EXCEPT !.at = a] EXCEPT !.watch = w]]
    BY <1>1
  <2>. QED
    BY <2>1, <2>2
<1>. QED
  BY <1>2 DEF Enter, Place

\* A wait begins, goes on, is granted or is given up.
Turn(r, at, watch) ==
  /\ rd' = [rd EXCEPT ![r] = Moved(rd[r], at, watch)]
  /\ rd[r].at \in {"loop", "arm", "wait"}
  /\ at \in Waits \cup {"fail", "late"} /\ watch \in Watches
  /\ at \in Waits /\ kind = "serial" => port.opened
  /\ at = "ready" => Enough(Need(r))

Beside == <<os, kind, port, rx, dev, client, cacher, answer, faults, calls>>

\* The steps of a reader but the read itself are such turns.
LEMMA ReadersTurn ==
  ASSUME LinkInv, ReadInv, NEW r \in Readers,
         CheckReader(r) \/ ArmReader(r) \/ WakeReader(r) \/ ReaderTimesOut(r) \/ TimeOver(r)
  PROVE  UNCHANGED Beside /\ (rd' = rd \/ \E at, watch : Turn(r, at, watch))
<1>. USE DEF Beside, platform, hal, channel, flags
<1>1. Places /\ os \in Systems
  BY DEF ReadInv, LinkInv, PlatformOK
<1>2. rd[r].at \in Waits /\ kind = "serial" => port.opened
  BY <1>1 DEF Places, Granted
<1>3. {} \in Watches
  BY DEF Watches
<1>4. Len(rx) \in Nat /\ (Len(rx) > 0 <=> rx # <<>>)
  BY DEF ReadInv, LineOK
<1>5. CASE CheckReader(r)
  <2>1. UNCHANGED Beside /\ rd[r].at = "loop"
    BY <1>5 DEF CheckReader, Restless
  <2>2. CASE kind = "serial"
    <3> DEFINE c == CheckPort(port, Need(r), Len(rx), dev.gone)
    <3>1. /\ c.at \in {"fail", "ready", "wait", "arm"} /\ c.watch \in Watches
          /\ c.at # "fail" => port.opened
          /\ c.at = "ready" => Len(rx) >= Need(r)
      BY <1>1, CheckRounds
    <3>2. rd' = [rd EXCEPT ![r] = Moved(rd[r], c.at, c.watch)]
      BY <1>1, <1>5, <2>2, EnterMoves DEF CheckReader
    <3> HIDE DEF c
    <3>3. Turn(r, c.at, c.watch)
      BY <2>1, <2>2, <3>1, <3>2 DEF Turn, Waits, Enough
    <3>. QED
      BY <2>1, <3>3
  <2>3. CASE kind # "serial"
    <3>1. rd' = [rd EXCEPT ![r] = Moved(rd[r], "wait", {})]
      BY <1>1, <1>5, <2>3, EnterMoves DEF CheckReader
    <3>2. Turn(r, "wait", {})
      BY <1>3, <2>1, <2>3, <3>1 DEF Turn, Waits
    <3>. QED
      BY <2>1, <3>2
  <2>. QED
    BY <2>2, <2>3
<1>6. CASE ArmReader(r)
  <2>1. UNCHANGED Beside /\ rd[r].at = "arm"
    BY <1>6 DEF ArmReader
  <2>2. PICK round \in WinArm(rd[r].watch, dev.gone) : rd' = Enter(r, round)
    BY <1>6 DEF ArmReader
  <2>3. round.at \in {"fail", "wait"} /\ round.watch \in Watches
    BY ArmRounds
  <2>4. rd' = [rd EXCEPT ![r] = Moved(rd[r], round.at, round.watch)]
    BY <1>1, <2>2, EnterMoves
  <2>5. Turn(r, round.at, round.watch)
    BY <1>2, <2>1, <2>3, <2>4 DEF Turn, Waits
  <2>. QED
    BY <2>1, <2>5
<1>7. CASE WakeReader(r)
  <2>1. UNCHANGED Beside /\ rd[r].at = "wait"
    BY <1>7 DEF WakeReader
  <2>2. CASE rd' # rd
    <3> DEFINE Rounds == IF kind = "serial"
                         THEN SelectPort(port, Need(r), Len(rx), dev.gone, rd[r].watch)
                         ELSE IF Readable(Len(rx), dev.gone) THEN {Round("ready", {})} ELSE {}
    <3>1. PICK round \in Rounds : round.at # "aborted" /\ rd' = Enter(r, round)
      BY <1>7, <2>2 DEF WakeReader
    <3>2. /\ round.at \in Waits \cup {"fail"} /\ round.watch \in Watches
          /\ round.at = "ready" => Enough(Need(r))
      <4>1. CASE kind = "serial"
        <5>1. round \in SelectPort(port, Need(r), Len(rx), dev.gone, rd[r].watch)
          BY <3>1, <4>1
        <5>2. /\ round.at \in {"fail", "ready", "wait", "arm", "aborted"} /\ round.watch \in Watches
              /\ round.at = "ready" => Len(rx) >= Need(r)
          BY <1>1, <5>1, SelectRounds
        <5>. QED
          BY <3>1, <4>1, <5>2 DEF Waits, Enough
      <4>2. CASE kind # "serial"
        <5>1. round = Round("ready", {}) /\ Readable(Len(rx), dev.gone)
          BY <3>1, <4>2
        <5>2. rx # <<>> \/ dev.gone
          BY <1>1, <1>4, <5>1 DEF Readable, LinuxReadable, MacReadable, WinReadable, Systems
        <5>. QED
          BY <1>3, <4>2, <5>1, <5>2 DEF Waits, Round, Enough
      <4>. QED
        BY <4>1, <4>2
    <3>4. rd' = [rd EXCEPT ![r] = Moved(rd[r], round.at, round.watch)]
      BY <1>1, <3>1, EnterMoves
    <3>5. Turn(r, round.at, round.watch)
      BY <1>2, <2>1, <3>2, <3>4 DEF Turn, Waits
    <3>. QED
      BY <2>1, <3>5
  <2>. QED
    BY <2>1, <2>2
<1>8. CASE ReaderTimesOut(r)
  <2>1. UNCHANGED Beside /\ rd[r].at = "wait" /\ rd' = Place(r, "fail")
    BY <1>8 DEF ReaderTimesOut
  <2>2. rd' = [rd EXCEPT ![r] = Moved(rd[r], "fail", {})]
    BY <1>1, <2>1, EnterMoves
  <2>3. Turn(r, "fail", {})
    BY <1>3, <2>1, <2>2 DEF Turn, Waits
  <2>. QED
    BY <2>1, <2>3
<1>9. CASE TimeOver(r)
  <2> DEFINE late == IF r = "cacher" THEN "late" ELSE "fail"
  <2>1. UNCHANGED Beside /\ rd[r].at = "loop" /\ rd' = Place(r, late)
    BY <1>9 DEF TimeOver, Restless
  <2>2. rd' = [rd EXCEPT ![r] = Moved(rd[r], late, {})] /\ late \in {"fail", "late"}
    BY <1>1, <2>1, EnterMoves
  <2> HIDE DEF late
  <2>3. Turn(r, late, {})
    BY <1>3, <2>1, <2>2 DEF Turn, Waits
  <2>. QED
    BY <2>1, <2>3
<1>. QED
  BY <1>5, <1>6, <1>7, <1>8, <1>9

\* A reader that moves is where it may be.
LEMMA TurnPlaces ==
  ASSUME ReadInv, NEW r \in Readers, NEW at, NEW watch, Turn(r, at, watch), UNCHANGED Beside
  PROVE  ReadInv'
<1> DEFINE x == rd[r]
           y == Moved(x, at, watch)
<1>1. /\ rd \in [Readers -> ReaderStates] /\ x \in ReaderStates
      /\ \A q \in Readers : Placed(rd[q]) /\ Granted(rd[q])
      /\ AtStage(rd["client"]) /\ InLoop(rd["cacher"])
  BY DEF ReadInv, Places
<1>2. y \in ReaderStates /\ Placed(y)
  <2>1. x.goal \in Goals /\ x.got \in Parsers /\ x.at \in Busy /\ x.at # "out" /\ at # "out"
    BY <1>1 DEF ReaderStates, Turn, Busy, Waits
  <2>2. y \in ReaderStates
    BY <2>1 DEF Moved, ReaderStates, Turn, Busy
  <2>3. x.got.pos < Size(x.goal) /\ (x.goal = "payload" => x.got.pos = 0)
    BY <1>1, <2>1 DEF Placed
  <2>. QED
    BY <2>1, <2>2, <2>3 DEF Placed, Moved
<1>3. rd' \in [Readers -> ReaderStates] /\ rd'[r] = y /\ \A q \in Readers : q # r => rd'[q] = rd[q]
  <2> HIDE DEF y
  <2>1. rd' = [rd EXCEPT ![r] = y]
    BY DEF Turn, y
  <2>. QED
    BY <1>1, <1>2, <2>1
<1>4. y.at = at /\ y.goal = x.goal /\ y.got = x.got /\ x.at # "out"
  BY DEF Moved, Turn
<1> HIDE DEF y
<1>5. \A q \in Readers : Placed(rd[q])'
  BY <1>1, <1>2, <1>3 DEF Placed, out
<1>6. \A q \in Readers : Granted(rd[q])'
  BY <1>1, <1>3, <1>4 DEF Granted, Turn, Need, Enough, Beside
<1>7. AtStage(rd["client"])' /\ InLoop(rd["cacher"])'
  <2>1. CASE r = "client"
    BY <1>1, <1>3, <1>4, <2>1 DEF AtStage, InLoop, Beside, Readers
  <2>2. CASE r = "cacher"
    BY <1>1, <1>3, <1>4, <2>2 DEF AtStage, InLoop, Beside, Readers
  <2>. QED
    BY <2>1, <2>2 DEF Readers
<1>. QED
  BY <1>3, <1>5, <1>6, <1>7 DEF ReadInv, Places, LineOK, Beside

-----------------------------------------------------------------------------
(* The channel the readers share.                                          *)

\* A reader as the channel sees it.
Missing(x) == Size(x.goal) - x.got.pos
PhaseOf(x) ==
  IF x.at \in {"wait", "arm"} THEN [at |-> "waiting", need |-> Missing(x)]
  ELSE IF x.at = "ready" THEN [at |-> "ready", need |-> Missing(x)]
  ELSE [at |-> "idle", need |-> 0]

\* The phases that the channel sees, reader by reader.
LEMMA PhaseIs ==
  /\ Phases = [q \in Readers |-> PhaseOf(rd[q])]
  /\ Phases' = [q \in Readers |-> PhaseOf(rd'[q])]
BY DEF Phases, PhaseOf, Need, Missing

\* The client reads at its stages, which the caching thread is off for.
LEMMA OneReads ==
  ASSUME LinkInv, ControlInv, ReadInv
  PROVE  /\ rd["client"].at = "out" \/ rd["cacher"].at = "out"
         /\ client.rest # <<>> /\ Head(client.rest) \in Alone \ {"header", "payload"} =>
              rd["client"].at = "out" /\ rd["cacher"].at = "out"
<1>1. AtStage(rd["client"]) /\ InLoop(rd["cacher"]) /\ rd["client"].goal \in Goals
  BY DEF ReadInv, Places, ReaderStates, Readers
<1>2. client.rest # <<>> => Head(client.rest) \in Stages
  BY DEF LinkInv, CallInv, Orderly
<1>3. rd["client"].at # "out" =>
        client.rest # <<>> /\ Head(client.rest) \in {"header", "payload"}
  BY <1>1, <1>2 DEF AtStage, Goals, Stages
<1>4. client.rest # <<>> /\ Head(client.rest) \in Alone => rd["cacher"].at = "out"
  BY <1>1, AloneIsOff DEF InLoop
<1>. QED
  BY <1>3, <1>4 DEF Alone

\* For the channel nobody waits while a stage that does not read is on, or a
\* reader is between two waits.
LEMMA AllIdle ==
  ASSUME LinkInv, ControlInv, ReadInv,
         \/ client.rest # <<>> /\ Head(client.rest) \in Alone \ {"header", "payload"}
         \/ \E r \in Readers : rd[r].at = "loop"
  PROVE  Phases = [q \in Readers |-> Channel!Idle]
<1>1. \A q \in Readers : rd[q].at \in {"out", "loop"}
  BY OneReads DEF Readers
<1>. QED
  BY <1>1, PhaseIs DEF PhaseOf, Channel!Idle

\* A turn is a step of the channel: a wait begins, is granted or given up.
LEMMA TurnChannel ==
  ASSUME LinkInv, ControlInv, ReadInv, NEW r \in Readers, NEW at, NEW watch, Turn(r, at, watch),
         UNCHANGED Beside
  PROVE  [Channel!Next]_Channel!vars
<1> DEFINE x == rd[r]
           y == Moved(x, at, watch)
           need == Missing(x)
<1>1. /\ rd \in [Readers -> ReaderStates] /\ x \in ReaderStates /\ Placed(x)
      /\ x.at \in {"loop", "arm", "wait"} /\ at \in Waits \cup {"fail", "late"}
      /\ at = "ready" => Enough(need)
      /\ rd' = [rd EXCEPT ![r] = y]
  BY DEF ReadInv, Places, Turn, Need, Missing
<1>2. need \in 1 .. 3 /\ Missing(y) = need /\ y.at = at
  <2>1. x.got \in Parsers /\ x.goal \in Goals /\ x.got.pos < Size(x.goal)
    BY <1>1 DEF ReaderStates, Placed, Busy, Waits
  <2>2. x.got.pos \in 0 .. 3 /\ Size(x.goal) \in 2 .. 3
    BY <2>1 DEF Parsers, Size
  <2>. QED
    BY <2>1, <2>2 DEF Missing, Moved
<1> HIDE DEF y, need
<1>3. Phases[r] = PhaseOf(x) /\ Phases' = [Phases EXCEPT ![r] = PhaseOf(y)]
  BY <1>1, PhaseIs
<1>4. UNCHANGED <<kind = "serial", rx, dev.gone>>
  BY DEF Beside
<1> HIDE DEF x
<1>5. PhaseOf(x) = (IF x.at = "loop" THEN [at |-> "idle", need |-> 0] ELSE [at |-> "waiting", need |-> need])
  BY <1>1 DEF PhaseOf, need
<1>6. PhaseOf(y) = IF at \in {"wait", "arm"} THEN [at |-> "waiting", need |-> need]
                   ELSE IF at = "ready" THEN [at |-> "ready", need |-> need]
                   ELSE [at |-> "idle", need |-> 0]
  BY <1>2 DEF PhaseOf
<1>7. CASE Phases' = Phases
  BY <1>4, <1>7 DEF Channel!vars
<1>8. CASE x.at = "loop" /\ at \in Waits
  <2>1. Phases = [q \in Readers |-> Channel!Idle]
    BY <1>8, AllIdle DEF x
  <2>2. \/ Phases' = [Phases EXCEPT ![r] = [at |-> "waiting", need |-> need]]
        \/ Enough(need) /\ Phases' = [Phases EXCEPT ![r] = [at |-> "ready", need |-> need]]
    BY <1>1, <1>3, <1>6, <1>8 DEF Waits
  <2>3. Channel!Wait(r)
    BY <1>2, <1>4, <2>1, <2>2 DEF Channel!Wait, Channel!Phase, Channel!Enough, Enough
  <2>. QED
    BY <2>3 DEF Channel!Next
<1>9. CASE x.at # "loop" /\ at = "ready"
  <2>1. Channel!Grant(r)
    BY <1>1, <1>3, <1>4, <1>5, <1>6, <1>9
       DEF Channel!Grant, Channel!Phase, Channel!Enough, Enough
  <2>. QED
    BY <2>1 DEF Channel!Next
<1>10. CASE x.at # "loop" /\ at \in {"fail", "late"}
  <2>1. PhaseOf(y) = [at |-> "idle", need |-> 0]
    BY <1>6, <1>10
  <2>2. Phases[r].at = "waiting" /\ Phases' = [Phases EXCEPT ![r] = [at |-> "idle", need |-> 0]]
    BY <1>3, <1>5, <1>10, <2>1
  <2>3. Channel!GiveUp(r)
    BY <1>4, <2>2 DEF Channel!GiveUp, Channel!Phase
  <2>. QED
    BY <2>3 DEF Channel!Next
<1>11. CASE PhaseOf(y) = PhaseOf(x)
  <2>1. Phases' = Phases
    BY <1>3, <1>11, PhaseIs
  <2>. QED
    BY <1>7, <2>1
<1>. QED
  BY <1>1, <1>5, <1>6, <1>8, <1>9, <1>10, <1>11 DEF Waits

-----------------------------------------------------------------------------
\* A reader that took n bytes and parsed them, if it parses.
Taken(n) == SubSeq(rx, 1, n)
Heard(x, n) == IF x.goal = "payload" THEN x.got ELSE Parse(x.goal, x.got, Taken(n))
Parsed(x, n) ==
  [at |-> IF x.goal = "payload" \/ Heard(x, n).pos = Size(x.goal) THEN "ok" ELSE "loop",
   goal |-> x.goal, got |-> Heard(x, n), watch |-> {}]

\* The reader's record after a read, written out.
LEMMA ParsedIs ==
  ASSUME Places, NEW r \in Readers, NEW at, NEW got
  PROVE  [Place(r, at) EXCEPT ![r].got = got]
           = [rd EXCEPT ![r] = [at |-> at, goal |-> rd[r].goal, got |-> got, watch |-> {}]]
<1> DEFINE x == rd[r]
           y == Moved(x, at, {})
<1>1. rd \in [Readers -> ReaderStates] /\ Place(r, at) = [rd EXCEPT ![r] = y]
  BY EnterMoves DEF Places
<1>2. [y EXCEPT !.got = got] = [at |-> at, goal |-> x.goal, got |-> got, watch |-> {}]
  BY DEF Moved
<1> HIDE DEF y
<1>3. [[rd EXCEPT ![r] = y] EXCEPT ![r].got = got] = [rd EXCEPT ![r] = [y EXCEPT !.got = got]]
  BY <1>1
<1>. QED
  BY <1>1, <1>2, <1>3

\* How much a reader takes.
LEMMA Receives ==
  ASSUME LinkInv, ReadInv, NEW r \in Readers, rd[r].at = "ready", NEW n \in Received(r)
  PROVE  /\ n \in 0 .. Missing(rd[r]) /\ n <= Len(rx)
         /\ n = Missing(rd[r]) \/ dev.gone \/ (kind # "serial" /\ n > 0)
<1> DEFINE need == Missing(rd[r])
<1>1. need \in 1 .. 3 /\ Need(r) = need
  <2>1. /\ rd[r].got \in Parsers /\ rd[r].goal \in Goals /\ rd[r].got.pos < Size(rd[r].goal)
    BY DEF ReadInv, Places, Placed, ReaderStates, Busy, Waits
  <2>2. rd[r].got.pos \in 0 .. 3 /\ Size(rd[r].goal) \in 2 .. 3
    BY <2>1 DEF Parsers, Size
  <2>. QED
    BY <2>1, <2>2 DEF Missing, Need
<1> HIDE DEF need
<1>2. Granted(rd[r]) /\ os \in Systems /\ Len(rx) \in Nat /\ (rx # <<>> <=> Len(rx) > 0)
  BY DEF ReadInv, Places, LineOK, LinkInv, PlatformOK
<1>3. (kind = "serial" => port.opened) /\ Enough(need)
  BY <1>2 DEF Granted, Waits, need, Missing
<1>4. CASE kind = "serial"
  <2>1. n = Least(IF dev.gone THEN 0 ELSE Len(rx), need)
    BY <1>1, <1>2, <1>3, <1>4 DEF Received, RecvPort, LinuxRecv, MacRecv, WinRecv, Systems
  <2>. QED
    BY <1>1, <1>2, <1>3, <1>4, <2>1 DEF Least, Enough, need
<1>5. CASE kind # "serial"
  <2>1. n \in IF Len(rx) = 0 THEN {0} ELSE 1 .. Least(Len(rx), need)
    BY <1>1, <1>2, <1>5 DEF Received, RecvSocket, LinuxSocketRecv, MacSocketRecv, WinSocketRecv,
                            Systems
  <2>. QED
    BY <1>1, <1>2, <1>3, <1>5, <2>1 DEF Least, Enough, need
<1>. QED
  BY <1>4, <1>5

\* A read, as the channel, the parsers and the exchange see it.
Takes(r, n) ==
  /\ rd[r].at = "ready"
  /\ n \in 0 .. Missing(rd[r]) /\ n <= Len(rx)
  /\ n = Missing(rd[r]) \/ dev.gone \/ (kind # "serial" /\ n > 0)
  /\ rx' = SubSeq(rx, n + 1, Len(rx))
  /\ rd' = [rd EXCEPT ![r] = Parsed(rd[r], n)]
  /\ answer' = IF rd[r].goal = "payload" THEN [answer EXCEPT !.data = Taken(n)] ELSE answer

Besides == <<os, kind, port, dev, client, cacher, faults, calls>>

\* The read is such a step.
LEMMA ReaderTakes ==
  ASSUME LinkInv, ReadInv, NEW r \in Readers, TakeReader(r)
  PROVE  UNCHANGED Besides /\ \E n : Takes(r, n)
<1> DEFINE x == rd[r]
<1>1. UNCHANGED Besides /\ x.at = "ready" /\ Places
  BY DEF TakeReader, Besides, platform, hal, flags, ReadInv
<1>2. PICK n \in Received(r) :
        /\ rx' = SubSeq(rx, n + 1, Len(rx))
        /\ IF x.goal = "payload"
           THEN rd' = Place(r, "ok") /\ answer' = [answer EXCEPT !.data = Taken(n)]
           ELSE /\ rd' = [Place(r, IF Heard(x, n).pos = Size(x.goal) THEN "ok" ELSE "loop")
                            EXCEPT ![r].got = Heard(x, n)]
                /\ UNCHANGED answer
  BY DEF TakeReader, Taken, Heard
<1>3. /\ n \in 0 .. Missing(x) /\ n <= Len(rx)
      /\ n = Missing(x) \/ dev.gone \/ (kind # "serial" /\ n > 0)
  BY <1>1, Receives
<1>4. rd' = [rd EXCEPT ![r] = Parsed(x, n)]
  <2>1. CASE x.goal = "payload"
    <3>1. rd' = [rd EXCEPT ![r] = Moved(x, "ok", {})]
      BY <1>1, <1>2, <2>1, EnterMoves
    <3>2. Moved(x, "ok", {}) = Parsed(x, n)
      BY <2>1 DEF Moved, Parsed, Heard
    <3>. QED
      BY <3>1, <3>2
  <2>2. CASE x.goal # "payload"
    <3> DEFINE at == IF Heard(x, n).pos = Size(x.goal) THEN "ok" ELSE "loop"
               got == Heard(x, n)
    <3>1. rd' = [Place(r, at) EXCEPT ![r].got = got]
      BY <1>2, <2>2
    <3>2. [at |-> at, goal |-> x.goal, got |-> got, watch |-> {}] = Parsed(x, n)
      BY <2>2 DEF Parsed
    <3> HIDE DEF at, got
    <3>3. rd' = [rd EXCEPT ![r] = [at |-> at, goal |-> rd[r].goal, got |-> got, watch |-> {}]]
      BY <1>1, <3>1, ParsedIs
    <3>. QED
      BY <3>2, <3>3
  <2>. QED
    BY <2>1, <2>2
<1>5. Takes(r, n)
  BY <1>1, <1>2, <1>3, <1>4 DEF Takes
<1>. QED
  BY <1>1, <1>5

\* What the parser makes of it is a reader's state again.
LEMMA ParsedPlaced ==
  ASSUME LinkInv, ReadInv, NEW r \in Readers, NEW n, Takes(r, n)
  PROVE  /\ Parsed(rd[r], n) \in ReaderStates /\ Placed(Parsed(rd[r], n))
         /\ Parsed(rd[r], n).at \in {"ok", "loop"} /\ Parsed(rd[r], n).goal = rd[r].goal
<1> DEFINE x == rd[r]
           got == Heard(x, n)
<1>1. /\ x.got \in Parsers /\ x.goal \in Goals /\ x.got.pos < Size(x.goal)
      /\ x.goal = "payload" => x.got.pos = 0
  BY DEF ReadInv, Places, Placed, ReaderStates, Busy, Waits, Takes
<1>2. got \in Parsers /\ got.pos <= Size(x.goal)
  <2>1. CASE x.goal = "payload"
    BY <1>1, <2>1 DEF Heard, Size
  <2>2. CASE x.goal # "payload"
    <3>1. Taken(n) \in Seq(Letters) /\ Len(Taken(n)) = n
      BY DEF ReadInv, LineOK, Takes, Taken
    <3>2. n + x.got.pos <= Size(x.goal)
      BY <1>1 DEF Takes, Missing, Parsers, Size, Goals
    <3>3. x.goal \in {"header", "node"}
      BY <1>1, <2>2 DEF Goals
    <3>. QED
      BY <1>1, <2>2, <3>1, <3>2, <3>3, ParseType DEF Heard
  <2>. QED
    BY <2>1, <2>2
<1>3. got.pos \in 0 .. 3 /\ Size(x.goal) \in 2 .. 3 /\ (x.goal = "payload" => got.pos = 0)
  BY <1>1, <1>2 DEF Parsers, Size, Heard
<1> HIDE DEF got, x
<1>4. Parsed(x, n) = [at |-> IF x.goal = "payload" \/ got.pos = Size(x.goal) THEN "ok" ELSE "loop",
                      goal |-> x.goal, got |-> got, watch |-> {}]
  BY DEF Parsed, got
<1>5. Parsed(x, n) \in ReaderStates
  <2>1. \E at \in {"ok", "loop"} :
          Parsed(x, n) = [at |-> at, goal |-> x.goal, got |-> got, watch |-> {}]
    BY <1>4
  <2>2. {} \in Watches
    BY DEF Watches
  <2>. QED
    BY <1>1, <1>2, <2>1, <2>2 DEF ReaderStates, Busy
<1> DEFINE y == Parsed(x, n)
<1>6. /\ y.at \in {"ok", "loop"} /\ y.goal = x.goal /\ y.got = got
      /\ y.at = "loop" => got.pos # Size(x.goal)
  BY <1>4
<1> HIDE DEF y
<1>7. Placed(y)
  BY <1>2, <1>3, <1>5, <1>6 DEF Placed, Busy, Waits, y
<1>. QED
  BY <1>5, <1>6, <1>7 DEF x, y

\* Who read is where it may be, and the bytes left are bytes.
LEMMA TakesPlaces ==
  ASSUME LinkInv, ControlInv, ReadInv, NEW r \in Readers, NEW n, Takes(r, n), UNCHANGED Besides
  PROVE  ReadInv'
<1> DEFINE y == Parsed(rd[r], n)
<1>1. /\ rd \in [Readers -> ReaderStates] /\ rd[r].at = "ready"
      /\ \A q \in Readers : Placed(rd[q]) /\ (q # r => rd[q].at = "out")
  BY OneReads DEF ReadInv, Places, Takes, Readers
<1>2. y \in ReaderStates /\ Placed(y) /\ y.at \in {"ok", "loop"} /\ y.goal = rd[r].goal
  BY ParsedPlaced
<1> HIDE DEF y
<1>3. rd' = [rd EXCEPT ![r] = y]
  BY DEF Takes, y
<1>4. rd' \in [Readers -> ReaderStates] /\ rd'[r] = y /\ \A q \in Readers : q # r => rd'[q] = rd[q]
  BY <1>1, <1>2, <1>3
<1>5. \A q \in Readers : Placed(rd[q])' /\ Granted(rd[q])'
  BY <1>1, <1>2, <1>4 DEF Placed, Granted, Waits, out
<1>6. AtStage(rd["client"])' /\ InLoop(rd["cacher"])'
  <2>1. AtStage(rd["client"]) /\ InLoop(rd["cacher"])
    BY DEF ReadInv, Places
  <2>2. CASE r = "client"
    BY <1>1, <1>2, <1>4, <2>1, <2>2 DEF AtStage, InLoop, Besides, Readers
  <2>3. CASE r = "cacher"
    BY <1>1, <1>2, <1>4, <2>1, <2>3 DEF AtStage, InLoop, Besides, Readers
  <2>. QED
    BY <2>2, <2>3 DEF Readers
<1>7. LineOK'
  <2>1. rx \in Seq(Letters) /\ n \in Nat /\ rx' = SubSeq(rx, n + 1, Len(rx))
    BY DEF ReadInv, LineOK, Takes
  <2>2. rx' \in Seq(Letters)
    BY <2>1
  <2>. QED
    BY <2>2 DEF ReadInv, LineOK, Besides
<1>. QED
  BY <1>4, <1>5, <1>6, <1>7 DEF ReadInv, Places

\* For the channel it is a Take.
LEMMA TakesChannel ==
  ASSUME LinkInv, ControlInv, ReadInv, NEW r \in Readers, NEW n, Takes(r, n), UNCHANGED Besides
  PROVE  Channel!Next
<1> DEFINE y == Parsed(rd[r], n)
<1>1. rd \in [Readers -> ReaderStates] /\ y.at \in {"ok", "loop"}
  BY ParsedPlaced DEF ReadInv, Places
<1> HIDE DEF y
<1>2. rd' = [rd EXCEPT ![r] = y] /\ rd[r].at = "ready"
  BY DEF Takes, y
<1>3. PhaseOf(rd[r]) = [at |-> "ready", need |-> Missing(rd[r])] /\ PhaseOf(y) = [at |-> "idle", need |-> 0]
  BY <1>1, <1>2 DEF PhaseOf
<1>4. Phases[r] = PhaseOf(rd[r]) /\ Phases' = [Phases EXCEPT ![r] = PhaseOf(y)]
  BY <1>1, <1>2, PhaseIs
<1>5. Channel!Take(r)
  <2> DEFINE need == Missing(rd[r])
  <2>1. /\ n \in 0 .. need /\ n <= Len(rx) /\ rx' = SubSeq(rx, n + 1, Len(rx))
        /\ n = need \/ dev.gone \/ (~(kind = "serial") /\ n > 0)
        /\ UNCHANGED <<kind = "serial", dev.gone>>
    BY DEF Takes, Besides
  <2>2. Phases[r] = [at |-> "ready", need |-> need] /\ Channel!Phase(r, "idle", 0)
    BY <1>3, <1>4 DEF Channel!Phase
  <2> HIDE DEF need
  <2>3. Phases[r].at = "ready" /\ Phases[r].need = need
    BY <2>2
  <2>. QED
    BY <2>1, <2>2, <2>3 DEF Channel!Take
<1>. QED
  BY <1>5 DEF Channel!Next

-----------------------------------------------------------------------------
(* The stages and the readers.                                             *)

\* Where a reader begins, and where it is when it does not read.
LEMMA Readings ==
  /\ Placed(out) /\ out \in ReaderStates /\ out.at = "out"
  /\ \A goal \in Goals :
       /\ Placed(Reading(goal)) /\ Reading(goal) \in ReaderStates
       /\ Reading(goal).at = "loop" /\ Reading(goal).goal = goal
       /\ Reading(goal).got = [pos |-> 0, last |-> Byte("none", 0), missed |-> FALSE]
<1> DEFINE none == [pos |-> 0, last |-> Byte("none", 0), missed |-> FALSE]
<1>1. none \in Parsers /\ none.pos = 0
  BY DEF Parsers
<1> HIDE DEF none
<1>2. out = [at |-> "out", goal |-> "header", got |-> none, watch |-> {}]
  BY DEF out, none
<1>3. {} \in Watches
  BY DEF Watches
<1>4. out \in ReaderStates
  BY <1>1, <1>2, <1>3 DEF ReaderStates, Goals
<1>5. out.at = "out" /\ out.goal = "header" /\ Placed(out)
  BY <1>1, <1>2, <1>4 DEF Placed, Busy, Waits
<1>6. ASSUME NEW goal \in Goals
      PROVE  /\ Placed(Reading(goal)) /\ Reading(goal) \in ReaderStates
             /\ Reading(goal).at = "loop" /\ Reading(goal).goal = goal
             /\ Reading(goal).got = none
  <2>1. Reading(goal) = [at |-> "loop", goal |-> goal, got |-> none, watch |-> {}]
    <3> DEFINE y == [out EXCEPT !.at = "loop"]
    <3>1. y = [at |-> "loop", goal |-> "header", got |-> none, watch |-> {}]
      BY <1>2
    <3> HIDE DEF y
    <3>2. [y EXCEPT !.goal = goal] = [at |-> "loop", goal |-> goal, got |-> none, watch |-> {}]
      BY <3>1
    <3>. QED
      BY <3>2 DEF Reading, y
  <2>2. Reading(goal) \in ReaderStates
    BY <1>1, <1>3, <2>1 DEF ReaderStates, Busy
  <2>3. Size(goal) \in 2 .. 3
    BY DEF Size
  <2>. QED
    BY <1>1, <2>1, <2>2, <2>3 DEF Placed, Busy, Waits
<1>. QED
  BY <1>4, <1>5, <1>6 DEF none

\* While the caching thread runs the client does not read.
LEMMA CacherAlone ==
  ASSUME LinkInv, ControlInv, ReadInv, cacher # "off"
  PROVE  rd["client"].at = "out"
<1>1. AtStage(rd["client"]) /\ rd["client"].goal \in Goals
  BY DEF ReadInv, Places, ReaderStates, Readers
<1>2. client.rest # <<>> => Head(client.rest) \in Stages \ Alone
  BY AloneIsOff DEF LinkInv, CallInv, Orderly
<1>. QED
  BY <1>1, <1>2 DEF AtStage, Goals, Stages, Alone

\* The readers that were waited for and those that begin: none of them waits.
LEMMA Unread ==
  ASSUME ReadInv, rd' \in [Readers -> ReaderStates],
         \A q \in Readers : Placed(rd'[q]) /\ rd'[q].at \notin Waits /\ rd[q].at \notin Waits,
         AtStage(rd["client"])', InLoop(rd["cacher"])', LineOK', UNCHANGED <<kind, rx, dev.gone>>
  PROVE  ReadInv' /\ [Channel!Next]_Channel!vars
<1>1. \A q \in Readers : Granted(rd[q])'
  BY DEF Granted, Waits
<1>2. \A q \in Readers : Placed(rd[q])'
  BY DEF Placed, out
<1>3. Phases' = Phases
  BY PhaseIs DEF PhaseOf, Waits
<1>. QED
  BY <1>1, <1>2, <1>3 DEF ReadInv, Places, Channel!vars

\* Nothing of the readers or the channel changes.
LEMMA Undisturbed ==
  ASSUME ReadInv, UNCHANGED <<kind, port, rx, rd, dev.gone>>, AtStage(rd["client"])', InLoop(rd["cacher"])',
         LineOK'
  PROVE  ReadInv' /\ [Channel!Next]_Channel!vars
<1>1. \A q \in Readers : Granted(rd[q])' /\ Placed(rd[q])'
  BY DEF ReadInv, Places, Granted, Enough, Placed, out
<1>2. Phases' = Phases
  BY PhaseIs
<1>. QED
  BY <1>1, <1>2 DEF ReadInv, Places, Channel!vars

\* What was received is dropped while nobody reads.
LEMMA Dropped ==
  ASSUME LinkInv, ControlInv, ReadInv, UNCHANGED <<kind, rd, dev.gone>>, rx' = <<>>, LineOK',
         \/ client.rest # <<>> /\ Head(client.rest) \in Alone \ {"header", "payload"}
         \/ \E r \in Readers : rd[r].at = "loop",
         AtStage(rd["client"])', InLoop(rd["cacher"])'
  PROVE  ReadInv' /\ [Channel!Next]_Channel!vars
<1>1. \A q \in Readers : rd[q].at \in {"out", "loop"}
  BY OneReads DEF Readers
<1>2. \A q \in Readers : Granted(rd[q])' /\ Placed(rd[q])'
  BY <1>1 DEF ReadInv, Places, Granted, Placed, Waits, out
<1>3. Phases' = Phases
  BY PhaseIs
<1>4. Channel!Drop
  BY <1>3, AllIdle DEF Channel!Drop
<1>. QED
  BY <1>2, <1>4 DEF ReadInv, Places, Channel!Next

-----------------------------------------------------------------------------
\* A step keeps the readers' places and is one of the channel.
ChannelStep == ReadInv' /\ [Channel!Next]_Channel!vars

\* A reader that is told of a byte.
LEMMA WatchIs ==
  ASSUME NEW x \in ReaderStates, NEW w
  PROVE  [x EXCEPT !.watch = w] = Moved(x, x.at, w)
<1> DEFINE K == {"at", "goal", "got", "watch"}
<1>1. DOMAIN x = K /\ x = [k \in K |-> x[k]]
  BY DEF ReaderStates
<1>2. [x EXCEPT !.watch = w] = [k \in K |-> IF k = "watch" THEN w ELSE x[k]]
  BY <1>1
<1>3. [k \in K |-> IF k = "watch" THEN w ELSE x[k]] = Moved(x, x.at, w)
  BY DEF Moved
<1>. QED
  BY <1>2, <1>3

\* A byte that arrives.
LEMMA ArrivesReads ==
  ASSUME LinkInv, ReadInv, NEW byte \in Letters, Arrives(byte),
         UNCHANGED <<os, kind, port, client, cacher, dev.gone>>, dev'.line \in Seq(Letters),
         dev' \in [line : Seq(Letters), streaming : BOOLEAN, sent : Nat, gone : BOOLEAN]
  PROVE  ChannelStep
<1>1. /\ rd \in [Readers -> ReaderStates] /\ rx \in Seq(Letters) /\ rx' = Append(rx, byte)
      /\ \A q \in Readers : Placed(rd[q]) /\ Granted(rd[q])
      /\ AtStage(rd["client"]) /\ InLoop(rd["cacher"])
  BY DEF ReadInv, Places, LineOK, Arrives
<1>2. {"new"} \in Watches /\ {"fired"} \in Watches
  BY DEF Watches
<1>3. \A q \in Readers :
        \/ rd'[q] = rd[q]
        \/ \E w \in Watches : rd[q].at # "out" /\ rd'[q] = Moved(rd[q], rd[q].at, w)
  <2> TAKE q \in Readers
  <2>1. rd[q] \in ReaderStates /\ (rd[q].at = "out" => rd[q].watch = {})
    BY <1>1 DEF Placed, out
  <2>2. \A w : [rd[q] EXCEPT !.watch = w] = Moved(rd[q], rd[q].at, w)
    BY <2>1, WatchIs
  <2>3. rd'[q] = IF rd[q].at = "arm" THEN [rd[q] EXCEPT !.watch = {"new"}]
                 ELSE IF rd[q].watch = {"armed"} THEN [rd[q] EXCEPT !.watch = {"fired"}]
                 ELSE rd[q]
    BY DEF Arrives
  <2>. QED
    BY <1>2, <2>1, <2>2, <2>3
<1>4. \A q \in Readers :
        /\ rd'[q] \in ReaderStates
        /\ rd'[q].at = rd[q].at /\ rd'[q].goal = rd[q].goal /\ rd'[q].got = rd[q].got
        /\ rd[q].at = "out" => rd'[q] = rd[q]
  <2> TAKE q \in Readers
  <2>1. CASE rd'[q] = rd[q]
    BY <1>1, <2>1
  <2>2. ASSUME NEW w \in Watches, rd[q].at # "out", rd'[q] = Moved(rd[q], rd[q].at, w)
        PROVE  /\ rd'[q] \in ReaderStates /\ rd[q].at # "out"
               /\ rd'[q].at = rd[q].at /\ rd'[q].goal = rd[q].goal /\ rd'[q].got = rd[q].got
    <3>1. /\ rd[q].at \in Busy \cup {"out", "ok", "fail", "late"} /\ rd[q].goal \in Goals
          /\ rd[q].got \in Parsers
      BY <1>1 DEF ReaderStates
    <3>. QED
      BY <2>2, <3>1 DEF Moved, ReaderStates
  <2>. QED
    BY <1>3, <2>1, <2>2
<1>5. rd' \in [Readers -> ReaderStates]
  BY <1>4 DEF Arrives
<1>6. \A q \in Readers : rd[q].at = "out" => rd'[q] = out
  BY <1>1, <1>4 DEF Placed
<1>7. \A q \in Readers : Placed(rd[q])'
  BY <1>1, <1>4, <1>6 DEF Placed, out
<1>8. Len(rx') = Len(rx) + 1 /\ rx' # <<>> /\ rx' \in Seq(Letters) /\ Len(rx) \in Nat
  BY <1>1
<1>9. \A q \in Readers : Granted(rd[q])'
  <2> TAKE q \in Readers
  <2>1. rd[q].got \in Parsers /\ rd[q].got.pos \in 0 .. 3 /\ Size(rd[q].goal) \in 2 .. 3
    <3>1. rd[q].got \in Parsers
      BY <1>1 DEF ReaderStates
    <3>. QED
      BY <3>1 DEF Parsers, Size
  <2>. QED
    BY <1>1, <1>4, <1>8, <2>1 DEF Granted, Enough
<1>10. AtStage(rd["client"])' /\ InLoop(rd["cacher"])'
  BY <1>1, <1>4 DEF AtStage, InLoop, Readers
<1>11. Phases' = Phases
  <2>1. \A q \in Readers : PhaseOf(rd'[q]) = PhaseOf(rd[q])
    BY <1>4 DEF PhaseOf, Missing
  <2>. QED
    BY <2>1, PhaseIs
<1>12. Channel!Arrive
  BY <1>1, <1>11 DEF Channel!Arrive, Letters
<1>. QED
  BY <1>5, <1>7, <1>8, <1>9, <1>10, <1>12 DEF ChannelStep, ReadInv, Places, LineOK, Channel!Next

Lines == [line : Seq(Letters), streaming : BOOLEAN, sent : Nat, gone : BOOLEAN]

\* A device that says nothing more.
LEMMA SilentIs ==
  ASSUME dev \in Lines
  PROVE  Silent \in Lines /\ Silent.gone = dev.gone /\ Silent.line = <<>> /\ ~Silent.streaming
<1> DEFINE d == [dev EXCEPT !.line = <<>>]
<1>1. d \in Lines /\ d.gone = dev.gone /\ d.line = <<>>
  <2>1. <<>> \in Seq(Letters)
    OBVIOUS
  <2>. QED
    BY <2>1 DEF Lines
<1>2. Silent = [d EXCEPT !.streaming = FALSE]
  BY DEF Silent, Lines
<1> HIDE DEF d
<1>. QED
  BY <1>1, <1>2 DEF Lines

\* The device and the line.
LEMMA DeviceReads ==
  ASSUME LinkInv, ControlInv, ReadInv, Deliver \/ Measure \/ Stray \/ LineError \/ Unplug
  PROVE  ChannelStep
<1>. USE DEF platform, hal, channel, flags, ends
<1>1. /\ dev \in Lines /\ rx \in Seq(Letters) /\ dev.line \in Seq(Letters)
      /\ AtStage(rd["client"]) /\ InLoop(rd["cacher"])
  BY DEF ReadInv, LineOK, Places, Lines
<1>2. CASE Deliver
  <2>1. /\ dev.line # <<>> /\ Arrives(Head(dev.line)) /\ dev' = [dev EXCEPT !.line = Tail(dev.line)]
        /\ UNCHANGED <<os, kind, port, client, cacher>>
    BY <1>2 DEF Deliver
  <2>2. Head(dev.line) \in Letters /\ Tail(dev.line) \in Seq(Letters)
    BY <1>1, <2>1
  <2>3. dev' \in Lines /\ dev'.gone = dev.gone /\ dev'.line \in Seq(Letters)
    BY <1>1, <2>1, <2>2 DEF Lines
  <2>. QED
    BY <2>1, <2>2, <2>3, ArrivesReads DEF Lines
<1>3. CASE Measure
  <2>1. /\ dev' = [dev EXCEPT !.line = @ \o Node, !.sent = @ + 1]
        /\ UNCHANGED <<os, kind, port, rx, rd, client, cacher>>
    BY <1>3 DEF Measure
  <2>2. Byte("n1", 0) \in Letters /\ Byte("n2", 0) \in Letters
    BY LinkAssumption DEF Letters, Byte
  <2>3. dev.line \o Node \in Seq(Letters)
    BY <1>1, <2>2 DEF Node
  <2>4. dev' \in Lines /\ dev'.gone = dev.gone
    <3> DEFINE d == [dev EXCEPT !.line = dev.line \o Node]
    <3>1. d \in Lines /\ d.gone = dev.gone /\ d.sent = dev.sent
      BY <1>1, <2>3 DEF Lines
    <3>2. dev' = [d EXCEPT !.sent = d.sent + 1]
      BY <2>1, <3>1
    <3> HIDE DEF d
    <3>. QED
      BY <3>1, <3>2 DEF Lines
  <2>. QED
    BY <1>1, <2>1, <2>4, Undisturbed DEF LineOK, Lines, AtStage, InLoop, ChannelStep
<1>4. CASE Stray
  <2>1. Arrives(Byte("A5", 0)) /\ UNCHANGED <<os, kind, port, client, cacher, dev>>
    BY <1>4 DEF Stray
  <2>2. Byte("A5", 0) \in Letters
    BY LinkAssumption DEF Letters, Byte
  <2>. QED
    BY <1>1, <2>1, <2>2, ArrivesReads DEF Lines
<1>5. CASE LineError
  <2>1. /\ rx' = <<>> /\ UNCHANGED <<os, kind, port, client, cacher, dev, rd>>
        /\ \E r \in Readers : rd[r].at = "loop"
    BY <1>5 DEF LineError, WinRxQueue
  <2>2. LineOK' /\ AtStage(rd["client"])' /\ InLoop(rd["cacher"])'
    BY <1>1, <2>1 DEF LineOK, Lines, AtStage, InLoop
  <2>. QED
    BY <2>1, <2>2, Dropped DEF ChannelStep
<1>6. CASE Unplug
  <2>1. /\ ~dev.gone /\ dev' = [Silent EXCEPT !.gone = TRUE]
        /\ UNCHANGED <<os, kind, port, rx, rd, client, cacher>>
    BY <1>6 DEF Unplug, Fault
  <2>2. dev'.gone = TRUE /\ dev' \in Lines
    BY <1>1, <2>1, SilentIs DEF Lines
  <2>3. \A q \in Readers : Granted(rd[q])' /\ Placed(rd[q])'
    BY <2>1, <2>2 DEF ReadInv, Places, Granted, Enough, Placed, out
  <2>4. Phases' = Phases
    BY <2>1, PhaseIs
  <2>5. Channel!Leave
    BY <2>1, <2>2, <2>4 DEF Channel!Leave
  <2>6. LineOK' /\ AtStage(rd["client"])' /\ InLoop(rd["cacher"])'
    BY <1>1, <2>1, <2>2 DEF LineOK, Lines, AtStage, InLoop
  <2>. QED
    BY <2>1, <2>3, <2>5, <2>6 DEF ChannelStep, ReadInv, Places, Channel!Next
<1>. QED
  BY <1>2, <1>3, <1>4, <1>5, <1>6

-----------------------------------------------------------------------------
\* What a reply is made of are bytes of the channel.
LEMMA ReplyLetters ==
  ASSUME ControlInv, client.rest # <<>>, Head(client.rest) = "ask", LinkInv
  PROVE  Reply(Expected(client.call), calls) \in Seq(Letters)
<1>1. client.rest \in Seq(Stages)
  BY DEF LinkInv, CallInv, Orderly
<1>2. client.call \in Exchanging /\ calls \in 0 .. MaxCalls + 1
  <2>1. Has(client.rest, "ask")
    BY <1>1, HasHead
  <2>2. client.call \in Exchanging /\ calls \in Nat /\ calls <= MaxCalls + 1
    BY <2>1, LinkAssumption DEF ControlInv, Supposed, Counted
  <2>. QED
    BY <2>2
<1>3. Expected(client.call) \in Types
  BY <1>2 DEF Expected, Exchanging, Types
<1>4. \A b \in {"A5", "5A", "p1", "p2"} \cup Types : Byte(b, calls) \in Letters
  BY <1>2 DEF Byte, Letters
<1>5. <<Byte("A5", calls), Byte("5A", calls), Byte(Expected(client.call), calls)>> \in Seq(Letters)
  <2>1. /\ Byte("A5", calls) \in Letters /\ Byte("5A", calls) \in Letters
        /\ Byte(Expected(client.call), calls) \in Letters
    BY <1>3, <1>4
  <2>. QED
    BY <2>1
<1>6. Payload(calls) \in Seq(Letters) /\ <<>> \in Seq(Letters)
  BY <1>4 DEF Payload
<1>. QED
  BY <1>5, <1>6 DEF Reply

\* The stages that read nothing, and what goes on beside the readers.
LEMMA QuietReads ==
  ASSUME LinkInv, ControlInv, ReadInv,
         UNCHANGED <<kind, port, rx, rd, cacher, dev.gone, dev.line>>, dev' \in Lines,
         client.rest = <<>> \/ Head(client.rest) \notin {"header", "payload"} \/ UNCHANGED client
  PROVE  ChannelStep
<1>1. AtStage(rd["client"]) /\ InLoop(rd["cacher"]) /\ rd["client"].goal \in Goals /\ rx \in Seq(Letters)
  BY DEF ReadInv, Places, ReaderStates, Readers, LineOK
<1>2. client.rest # <<>> => Head(client.rest) # "node"
  BY DEF LinkInv, CallInv, Orderly, Stages
<1>3. AtStage(rd["client"])' /\ InLoop(rd["cacher"])'
  BY <1>1, <1>2 DEF AtStage, InLoop, Goals
<1>4. LineOK'
  BY <1>1 DEF LineOK, Lines
<1>. QED
  BY <1>3, <1>4, Undisturbed DEF ChannelStep

\* These are such steps.
LEMMA QuietStages ==
  ASSUME LinkInv, ControlInv, ReadInv,
         \/ \E call \in Made : Call(call)
         \/ OpenTCP \/ Disable \/ Join \/ Tell \/ Grab \/ GrabWoken \/ GrabTakes \/ UseNull \/ JoinAgain
         \/ EventSteps \/ UNCHANGED vars
  PROVE  ChannelStep
<1>. USE DEF platform, hal, channel, flags, ends
<1> DEFINE Quiet ==
             /\ UNCHANGED <<kind, port, rx, rd, cacher, dev.gone, dev.line>> /\ dev' \in Lines
             /\ client.rest = <<>> \/ Head(client.rest) \notin {"header", "payload"} \/ UNCHANGED client
<1> SUFFICES Quiet
  BY QuietReads
<1>1. dev \in Lines
  BY DEF ReadInv, LineOK, Lines
<1>2. ASSUME NEW call \in Made, Call(call) PROVE Quiet
  BY <1>1, <1>2 DEF Call, Idle
<1>3. CASE OpenTCP \/ Disable \/ Join \/ GrabWoken \/ GrabTakes
  BY <1>1, <1>3 DEF OpenTCP, Disable, Join, GrabWoken, GrabTakes, At
<1>4. CASE Tell
  <2>1. /\ UNCHANGED <<kind, port, rx, rd, cacher>> /\ Head(client.rest) = "tell"
        /\ dev' = dev \/ \E n : dev' = [dev EXCEPT !.streaming = @ /\ n < CommandSize]
    BY <1>4 DEF Tell, At
  <2>2. UNCHANGED <<dev.gone, dev.line>> /\ dev' \in Lines
    BY <1>1, <2>1 DEF Lines
  <2>. QED
    BY <2>1, <2>2
<1>5. CASE Grab \/ EventSteps
  BY <1>1, <1>5 DEF Grab, EventSteps, linkVars
<1>6. CASE UseNull \/ JoinAgain
  BY <1>1, <1>6 DEF UseNull, JoinAgain, Crash
<1>7. CASE UNCHANGED vars
  BY <1>1, <1>7 DEF vars, linkVars
<1>. QED
  BY <1>2, <1>3, <1>4, <1>5, <1>6, <1>7

\* The stages that open the channel, close it and destroy the driver.
LEMMA OpenReads ==
  ASSUME LinkInv, ControlInv, ReadInv, OpenSerial \/ CloseTCP \/ Destroy
  PROVE  ChannelStep
<1>. USE DEF platform, hal, flags, ends
<1>1. /\ client.rest # <<>> /\ Head(client.rest) \in {"open", "close", "destroy"}
      /\ UNCHANGED <<kind, rd, cacher>> /\ rx' \in {rx, <<>>} /\ dev' \in {dev, Silent}
  BY DEF OpenSerial, CloseTCP, Destroy, At
<1>2. dev \in Lines /\ rx \in Seq(Letters) /\ AtStage(rd["client"]) /\ InLoop(rd["cacher"])
  BY DEF ReadInv, LineOK, Lines, Places
<1>3. dev' \in Lines /\ dev'.gone = dev.gone
  BY <1>1, <1>2, SilentIs
<1>4. Head(client.rest) \in Alone \ {"header", "payload"}
  BY <1>1 DEF Alone
<1>5. rd["client"].at = "out" /\ rd["cacher"].at = "out"
  BY <1>1, <1>4, OneReads
<1>6. AtStage(rd["client"])' /\ InLoop(rd["cacher"])' /\ LineOK'
  <2>1. rx' \in Seq(Letters)
    <3>1. <<>> \in Seq(Letters)
      OBVIOUS
    <3>. QED
      BY <1>1, <1>2, <3>1
  <2>2. LineOK'
    BY <1>3, <2>1 DEF LineOK, Lines
  <2>. QED
    BY <1>1, <1>5, <2>2 DEF AtStage, InLoop
<1>7. CASE rx' = <<>>
  BY <1>1, <1>3, <1>4, <1>6, <1>7, Dropped DEF ChannelStep
<1>8. CASE rx' = rx
  <2>1. \A q \in Readers : Placed(rd'[q]) /\ rd'[q].at \notin Waits /\ rd[q].at \notin Waits
    BY <1>1, <1>5 DEF ReadInv, Places, Readers, Waits
  <2>2. rd' \in [Readers -> ReaderStates]
    BY <1>1 DEF ReadInv, Places
  <2>. QED
    BY <1>1, <1>3, <1>6, <1>8, <2>1, <2>2, Unread DEF ChannelStep
<1>. QED
  BY <1>1, <1>7, <1>8

\* A thread begins to read, goes on or is through with it.
LEMMA Reseated ==
  ASSUME ReadInv, NEW r \in Readers, NEW x \in {out} \cup {Reading(goal) : goal \in Goals},
         rd' = [rd EXCEPT ![r] = x], UNCHANGED <<kind, rx, dev.gone>>, dev' \in Lines,
         \A q \in Readers : rd[q].at \notin Waits,
         AtStage(rd["client"])', InLoop(rd["cacher"])'
  PROVE  ChannelStep
<1>1. rd \in [Readers -> ReaderStates] /\ rx \in Seq(Letters) /\ \A q \in Readers : Placed(rd[q])
  BY DEF ReadInv, LineOK, Places
<1>2. x \in ReaderStates /\ Placed(x) /\ x.at \in {"out", "loop"}
  BY Readings
<1>3. rd' \in [Readers -> ReaderStates]
  BY <1>1, <1>2
<1>4. \A q \in Readers : Placed(rd'[q]) /\ rd'[q].at \notin Waits
  BY <1>1, <1>2 DEF Waits
<1>5. LineOK'
  BY <1>1 DEF LineOK, Lines
<1>. QED
  BY <1>3, <1>4, <1>5, Unread DEF ChannelStep

\* Ask sends a request, and the client begins to read.
LEMMA AskReads ==
  ASSUME LinkInv, ControlInv, ReadInv, Ask
  PROVE  ChannelStep
<1>. USE DEF platform, hal, channel, flags, ends
<1> DEFINE reply == Reply(Expected(client.call), calls)
<1>1. /\ client.rest # <<>> /\ Head(client.rest) = "ask" /\ client'.rest = Tail(client.rest)
      /\ rd' = [rd EXCEPT !["client"] = Reading("header")]
      /\ UNCHANGED <<kind, rx, cacher>>
      /\ \/ dev' = dev
         \/ dev' = [dev EXCEPT !.line = @ \o reply, !.streaming = client.call = "start"]
  BY Proceeds DEF Ask, At
<1>2. dev \in Lines
  BY DEF ReadInv, LineOK, Lines
<1>3. reply \in Seq(Letters)
  BY <1>1, ReplyLetters
<1> HIDE DEF reply
<1>4. dev' \in Lines /\ dev'.gone = dev.gone
  <2>1. CASE dev' = dev
    BY <1>2, <2>1
  <2>2. CASE dev' = [dev EXCEPT !.line = @ \o reply, !.streaming = client.call = "start"]
    <3> DEFINE d == [dev EXCEPT !.line = dev.line \o reply]
    <3>1. d \in Lines /\ d.gone = dev.gone
      <4>1. dev.line \o reply \in Seq(Letters)
        BY <1>2, <1>3 DEF Lines
      <4>. QED
        BY <1>2, <4>1 DEF Lines
    <3>2. dev' = [d EXCEPT !.streaming = client.call = "start"]
      BY <2>2
    <3> HIDE DEF d
    <3>. QED
      BY <3>1, <3>2 DEF Lines
  <2>. QED
    BY <1>1, <2>1, <2>2
<1>5. rd["client"].at = "out" /\ rd["cacher"].at = "out"
  BY <1>1, OneReads DEF Alone
<1>6. client'.rest # <<>> /\ Head(client'.rest) = "header"
  BY <1>1, NextOrdered DEF ControlInv, Supposed, LinkInv, CallInv, Orderly
<1>7. AtStage(rd["client"])' /\ InLoop(rd["cacher"])'
  <2>1. /\ rd'["client"] = Reading("header") /\ rd'["cacher"] = rd["cacher"]
    BY <1>1 DEF ReadInv, Places, Readers
  <2>2. Reading("header").goal = "header"
    BY Readings DEF Goals
  <2>. QED
    BY <1>5, <1>6, <2>1, <2>2 DEF AtStage, InLoop
<1>. QED
  BY <1>1, <1>4, <1>5, <1>7, Reseated DEF Readers, Waits, Goals

\* Header and PayloadRead end a read, and Header may begin the next.
LEMMA HeaderReads ==
  ASSUME LinkInv, ControlInv, ReadInv, Header \/ PayloadRead
  PROVE  ChannelStep
<1>. USE DEF platform, hal, channel, flags, ends
<1>1. /\ client.rest # <<>> /\ client.rest \in Seq(Stages)
      /\ Head(client.rest) \in {"header", "payload"} /\ rd["client"].at \in {"ok", "fail"}
      /\ UNCHANGED <<kind, rx, cacher, dev>>
      /\ \/ rd' = [rd EXCEPT !["client"] = out]
         \/ /\ rd' = [rd EXCEPT !["client"] = Reading("payload")]
            /\ client.rest[2] = "payload" /\ client'.rest = Tail(client.rest)
            /\ Head(client.rest) = "header"
  <2>1. client.rest \in Seq(Stages)
    BY DEF LinkInv, CallInv, Orderly
  <2>2. CASE Header
    BY <2>1, <2>2, Proceeds DEF Header, At
  <2>3. CASE PayloadRead
    BY <2>1, <2>3 DEF PayloadRead, At
  <2>. QED
    BY <2>2, <2>3
<1>2. rd["cacher"].at = "out" /\ dev \in Lines /\ rd \in [Readers -> ReaderStates]
  BY <1>1, OneReads DEF ReadInv, LineOK, Lines, Places
<1>3. \A q \in Readers : rd[q].at \notin Waits
  BY <1>1, <1>2 DEF Readers, Waits
<1>4. CASE rd' = [rd EXCEPT !["client"] = out]
  <2>1. AtStage(rd["client"])' /\ InLoop(rd["cacher"])'
    BY <1>2, <1>4, Readings DEF AtStage, InLoop, Readers
  <2>. QED
    BY <1>1, <1>2, <1>3, <1>4, <2>1, Reseated DEF Readers
<1>5. CASE /\ rd' = [rd EXCEPT !["client"] = Reading("payload")]
           /\ client.rest[2] = "payload" /\ client'.rest = Tail(client.rest)
           /\ Head(client.rest) = "header"
  <2>1. Ordered(client.rest)
    BY DEF ControlInv, Supposed
  <2>2. client'.rest # <<>> /\ Head(client'.rest) = "payload"
    BY <1>1, <1>5, <2>1, NextOrdered
  <2>3. AtStage(rd["client"])' /\ InLoop(rd["cacher"])'
    BY <1>2, <1>5, <2>2, Readings DEF AtStage, InLoop, Readers, Goals
  <2>. QED
    BY <1>1, <1>2, <1>3, <1>5, <2>3, Reseated DEF Readers, Goals
<1>. QED
  BY <1>1, <1>4, <1>5

\* Create begins the caching thread's first read.
LEMMA CreateReads ==
  ASSUME LinkInv, ControlInv, ReadInv, Create
  PROVE  ChannelStep
<1>. USE DEF platform, hal, channel, flags, ends
<1>1. PICK granted \in BOOLEAN :
        /\ cacher' = IF granted THEN "discard" ELSE cacher
        /\ rd' = IF granted THEN [rd EXCEPT !["cacher"] = Reading("node")] ELSE rd
  BY DEF Create
<1>2. /\ client.rest # <<>> /\ Head(client.rest) = "create" /\ client'.rest = Tail(client.rest)
      /\ UNCHANGED <<kind, port, rx, dev>>
  BY Proceeds DEF Create, At
<1>3. rd["client"].at = "out" /\ rd["cacher"].at = "out"
  BY <1>2, OneReads DEF Alone
<1>4. dev \in Lines /\ rd \in [Readers -> ReaderStates]
  BY DEF ReadInv, LineOK, Lines, Places
<1>5. CASE granted
  <2>1. rd' = [rd EXCEPT !["cacher"] = Reading("node")] /\ cacher' = "discard"
    BY <1>1, <1>5
  <2>2. AtStage(rd["client"])' /\ InLoop(rd["cacher"])'
    BY <1>3, <1>4, <2>1, Readings DEF AtStage, InLoop, Readers, Goals
  <2>. QED
    BY <1>2, <1>3, <1>4, <2>1, <2>2, Reseated DEF Readers, Waits, Goals
<1>6. CASE ~granted
  BY <1>1, <1>2, <1>4, <1>6, QuietReads
<1>. QED
  BY <1>5, <1>6

\* The caching thread is through with a read, or begins one.
LEMMA CacherChannel ==
  ASSUME LinkInv, ControlInv, ReadInv, CacherStep
  PROVE  ChannelStep
<1>. USE DEF platform, hal, channel, flags, ends
<1>1. /\ cacher # "off" /\ UNCHANGED <<kind, rx, dev, client>>
      /\ rd["cacher"].at \in {"out", "ok", "fail", "late"}
      /\ \/ rd' = [rd EXCEPT !["cacher"] = out]
         \/ rd' = [rd EXCEPT !["cacher"] = Reading("node")] /\ cacher' = "read"
  <2>1. CASE CacherDiscards
    BY <2>1 DEF CacherDiscards
  <2>2. CASE CacherTests
    <3>1. rd["cacher"].at = "out"
      BY <2>2 DEF CacherTests, ReadInv, Places, InLoop
    <3>. QED
      BY <2>2, <3>1 DEF CacherTests, CacherEnds
  <2>3. CASE CacherReads
    BY <2>3 DEF CacherReads, CacherEnds
  <2>. QED
    BY <2>1, <2>2, <2>3 DEF CacherStep
<1>2. rd["client"].at = "out" /\ dev \in Lines /\ rd \in [Readers -> ReaderStates]
  BY <1>1, CacherAlone DEF ReadInv, LineOK, Lines, Places
<1>3. \A q \in Readers : rd[q].at \notin Waits
  BY <1>1, <1>2 DEF Readers, Waits
<1>4. AtStage(rd["client"])' /\ InLoop(rd["cacher"])'
  BY <1>1, <1>2, Readings DEF AtStage, InLoop, Readers, Goals
<1>. QED
  BY <1>1, <1>2, <1>3, <1>4, Reseated DEF Readers, Goals

\* Every step keeps the readers' places and is a step of the channel.
LEMMA ReadStep == LinkInv /\ ControlInv /\ ReadInv /\ [Next]_vars => ChannelStep
<1> SUFFICES ASSUME LinkInv, ControlInv, ReadInv, [Next]_vars PROVE ChannelStep
  OBVIOUS
<1>1. CASE (\E call \in Made : Call(call)) \/ EventSteps \/ UNCHANGED vars
  BY <1>1, QuietStages
<1>2. CASE ClientStep
  BY <1>2, QuietStages, OpenReads, AskReads, HeaderReads, CreateReads DEF ClientStep
<1>3. CASE CacherStep
  BY <1>3, CacherChannel
<1>4. ASSUME NEW r \in Readers, ReaderStep(r) \/ TimeOver(r)
      PROVE  ChannelStep
  <2>1. CASE TakeReader(r)
    BY <2>1, ReaderTakes, TakesPlaces, TakesChannel DEF ChannelStep
  <2>2. CASE ~TakeReader(r)
    <3>1. UNCHANGED Beside /\ (rd' = rd \/ \E at, watch : Turn(r, at, watch))
      BY <1>4, <2>2, ReadersTurn DEF ReaderStep
    <3>2. CASE rd' = rd
      <4>1. UNCHANGED <<kind, port, rx, rd, cacher, dev.gone, dev.line, client>> /\ dev' \in Lines
        BY <3>1, <3>2 DEF Beside, ReadInv, LineOK, Lines
      <4>. QED
        BY <4>1, QuietReads
    <3>3. ASSUME NEW at, NEW watch, Turn(r, at, watch)
          PROVE  ChannelStep
      BY <3>1, <3>3, TurnPlaces, TurnChannel DEF ChannelStep
    <3>. QED
      BY <3>1, <3>2, <3>3
  <2>. QED
    BY <2>1, <2>2
<1>5. CASE Deliver \/ Measure \/ Stray \/ LineError \/ Unplug
  BY <1>5, DeviceReads
<1>. QED
  BY <1>1, <1>2, <1>3, <1>4, <1>5 DEF Next, Made

\* The driver as CreateDriver leaves it: nobody reads.
LEMMA ReadInit == Init => ReadInv /\ Channel!Init
<1> SUFFICES ASSUME Init PROVE ReadInv /\ Channel!Init
  OBVIOUS
<1>1. /\ rd = [r \in Readers |-> out] /\ rx = <<>> /\ cacher = "off" /\ kind \in Kinds
      /\ dev = [line |-> <<>>, streaming |-> FALSE, sent |-> 0, gone |-> FALSE]
  BY DEF Init, PlatformInit
<1>2. /\ rd \in [Readers -> ReaderStates]
      /\ \A r \in Readers : Placed(rd[r]) /\ rd[r].at = "out"
  BY <1>1, Readings
<1>3. Places
  BY <1>2 DEF Places, Granted, AtStage, InLoop, Waits, Readers
<1>4. LineOK
  <2>1. <<>> \in Seq(Letters)
    OBVIOUS
  <2>. QED
    BY <1>1, <2>1 DEF LineOK
<1>5. Phases = [r \in Readers |-> Channel!Idle]
  BY <1>2, PhaseIs DEF PhaseOf, Channel!Idle
<1>. QED
  BY <1>1, <1>3, <1>4, <1>5 DEF ReadInv, Channel!Init

\* The invariant of the readers, with those it rests on.
LEMMA ReadersInv == Spec => [](LinkInv /\ ControlInv /\ ReadInv)
<1>1. Init => LinkInv /\ ControlInv /\ ReadInv
  BY LinkInitInv, ControlInit, ReadInit
<1>2. LinkInv /\ ControlInv /\ ReadInv /\ [Next]_vars => (LinkInv /\ ControlInv /\ ReadInv)'
  BY LinkStep, ControlStep, ReadStep DEF ChannelStep
<1>. QED
  BY <1>1, <1>2, PTL DEF Spec

\* Bytes go to one reader at a time, in order, and as many at once as it waited
\* for: whatever the platform, the channel, the calls and the faults.
THEOREM ChannelImplemented == Spec => ImplementsByteChannel
<1>1. Init => Channel!Init
  BY ReadInit
<1>2. LinkInv /\ ControlInv /\ ReadInv /\ [Next]_vars => [Channel!Next]_Channel!vars
  BY ReadStep DEF ChannelStep
<1>. QED
  BY <1>1, <1>2, ReadersInv, PTL DEF Spec, Channel!Spec, ImplementsByteChannel

-----------------------------------------------------------------------------
(* The bytes under way.                                                    *)

Stream == rx \o dev.line

\* A byte that begins an answer has the next one after it.
Whole(d) == \A i \in 1 .. Len(d) : d[i].b = "A5" => i < Len(d) /\ d[i + 1].b = "5A"
Silence(d) == \A i \in 1 .. Len(d) : d[i].b # "A5"

\* The reply s begins at place k, no other answer before; what is before the
\* first place was taken.
Begins(d, s, k) ==
  /\ \A i \in 1 .. Len(d) : i < k => d[i].b # "A5"
  /\ \A j \in 1 .. Len(s) : k + j > 1 => k + j - 1 <= Len(d) /\ d[k + j - 1] = s[j]

\* The parser of a header at its place, and the reply it waits for.
Synced(at, d) ==
  /\ ~at.missed
  /\ at.pos = 1 => d # <<>> /\ d[1].b = "5A"
Awaits(at, d, s) ==
  \/ at.pos = 0 /\ Silence(d)
  \/ \E k \in -2 .. Len(d) :
       /\ Begins(d, s, k)
       /\ IF at.pos = 0 THEN k > 0 ELSE k = 1 - at.pos
       /\ at.pos = 3 => at.last = s[3]

Own == Reply(Expected(client.call), calls)

\* Reading a header, and reading the payload after it.
Attends(x) ==
  x.goal = "header" /\ x.at \in Busy \cup {"ok"} =>
    /\ x.at = "ok" => x.got.pos = 3
    /\ Synced(x.got, Stream)
    /\ ~answer.stale => Awaits(x.got, Stream, Own)
Collects(x) ==
  x.goal = "payload" /\ ~answer.stale =>
    /\ answer.heard = calls
    /\ x.at \in Busy => Begins(Stream, Own, -2)
    /\ x.at = "ok" => IF kind = "serial" THEN answer.data = Payload(calls)
                      ELSE answer.data # <<>> /\ IsPrefix(answer.data, Payload(calls))

StreamInv ==
  /\ faults \in Nat
  /\ faults = 0 =>
       /\ ~dev.gone /\ Whole(Stream) /\ ~rd["client"].got.missed
       /\ Attends(rd["client"]) /\ Collects(rd["client"])

\* What is left of d when n bytes were taken.
Rest(d, n) == SubSeq(d, n + 1, Len(d))

\* What a sequence without its first bytes is; it breaks off no answer's start.
LEMMA Suffix ==
  ASSUME NEW d \in Seq(Letters), NEW n \in 0 .. Len(d)
  PROVE  /\ Rest(d, n) \in Seq(Letters) /\ Len(Rest(d, n)) = Len(d) - n
         /\ \A i \in 1 .. Len(Rest(d, n)) : Rest(d, n)[i] = d[i + n]
         /\ Whole(d) => Whole(Rest(d, n))
<1> DEFINE e == Rest(d, n)
<1>1. Len(d) \in Nat /\ n \in Nat /\ n <= Len(d)
  OBVIOUS
<1>2. e \in Seq(Letters) /\ Len(e) = Len(d) - n /\ \A i \in 1 .. Len(d) - n : e[i] = d[i + n]
  BY DEF Rest
<1> HIDE DEF e
<1>3. ASSUME Whole(d), NEW i \in 1 .. Len(e), e[i].b = "A5"
      PROVE  i < Len(e) /\ e[i + 1].b = "5A"
  <2>1. i + n \in 1 .. Len(d) /\ d[i + n].b = "A5"
    BY <1>1, <1>2, <1>3
  <2>2. i + n < Len(d) /\ d[(i + n) + 1].b = "5A"
    BY <1>3, <2>1 DEF Whole
  <2>3. i + 1 \in 1 .. Len(d) - n /\ (i + 1) + n = (i + n) + 1
    BY <1>1, <1>2, <2>2
  <2>. QED
    BY <1>1, <1>2, <2>2, <2>3
<1>4. Whole(d) => Whole(e)
  BY <1>3 DEF Whole
<1>. QED
  BY <1>2, <1>4 DEF e

\* What two sequences of bytes make.
LEMMA Extended ==
  ASSUME NEW d \in Seq(Letters), NEW e \in Seq(Letters)
  PROVE  /\ d \o e \in Seq(Letters) /\ Len(d \o e) = Len(d) + Len(e)
         /\ \A i \in 1 .. Len(d) : (d \o e)[i] = d[i]
         /\ \A i \in 1 .. Len(e) : (d \o e)[Len(d) + i] = e[i]
         /\ \A i \in 1 .. Len(d \o e) :
              i \in 1 .. Len(d) \/ (i - Len(d) \in 1 .. Len(e) /\ (d \o e)[i] = e[i - Len(d)])
         /\ Whole(d) /\ Whole(e) => Whole(d \o e)
         /\ Silence(d) /\ Silence(e) => Silence(d \o e)
<1> DEFINE f == d \o e
<1>1. /\ f \in Seq(Letters) /\ Len(f) = Len(d) + Len(e) /\ Len(d) \in Nat /\ Len(e) \in Nat
      /\ \A i \in 1 .. Len(d) : f[i] = d[i]
      /\ \A i \in 1 .. Len(e) : f[Len(d) + i] = e[i]
  OBVIOUS
<1> HIDE DEF f
<1>2. ASSUME NEW i \in 1 .. Len(f), i \notin 1 .. Len(d)
      PROVE  i - Len(d) \in 1 .. Len(e) /\ f[i] = e[i - Len(d)]
  <2>1. i - Len(d) \in 1 .. Len(e) /\ Len(d) + (i - Len(d)) = i
    BY <1>1, <1>2
  <2>. QED
    BY <1>1, <2>1
<1>3. ASSUME Whole(d), Whole(e), NEW i \in 1 .. Len(f), f[i].b = "A5"
      PROVE  i < Len(f) /\ f[i + 1].b = "5A"
  <2>1. CASE i \in 1 .. Len(d)
    <3>1. i < Len(d) /\ d[i + 1].b = "5A"
      BY <1>1, <1>3, <2>1 DEF Whole
    <3>2. i + 1 \in 1 .. Len(d)
      BY <1>1, <2>1, <3>1
    <3>. QED
      BY <1>1, <3>1, <3>2
  <2>2. CASE i \notin 1 .. Len(d)
    <3> DEFINE j == i - Len(d)
    <3>1. j \in 1 .. Len(e) /\ f[i] = e[j] /\ i = Len(d) + j
      BY <1>1, <1>2, <2>2
    <3> HIDE DEF j
    <3>2. j < Len(e) /\ e[j + 1].b = "5A"
      BY <1>3, <3>1 DEF Whole
    <3>3. j + 1 \in 1 .. Len(e) /\ Len(d) + (j + 1) = i + 1
      BY <1>1, <3>1, <3>2
    <3>4. f[i + 1] = e[j + 1]
      BY <1>1, <3>3
    <3>. QED
      BY <1>1, <3>1, <3>2, <3>4
  <2>. QED
    BY <2>1, <2>2
<1>4. Whole(d) /\ Whole(e) => Whole(f)
  BY <1>3 DEF Whole
<1>5. Silence(d) /\ Silence(e) => Silence(f)
  BY <1>1, <1>2 DEF Silence
<1>. QED
  BY <1>1, <1>2, <1>4, <1>5 DEF f

\* More bytes behind, none of which begins an answer.
LEMMA AwaitsMore ==
  ASSUME NEW at, NEW d \in Seq(Letters), NEW e \in Seq(Letters), NEW s, Silence(e)
  PROVE  /\ Synced(at, d) => Synced(at, d \o e)
         /\ Awaits(at, d, s) => Awaits(at, d \o e, s)
         /\ \A k \in -2 .. Len(d) : Begins(d, s, k) => Begins(d \o e, s, k)
<1> DEFINE f == d \o e
<1>1. /\ f \in Seq(Letters) /\ Len(f) = Len(d) + Len(e) /\ Len(d) \in Nat /\ Len(e) \in Nat
      /\ \A i \in 1 .. Len(d) : f[i] = d[i]
      /\ Silence(d) => Silence(f)
      /\ Len(s) \in Nat \/ TRUE
  BY Extended
<1> HIDE DEF f
<1>2. Synced(at, d) => Synced(at, f)
  <2>1. d # <<>> => 1 \in 1 .. Len(d) /\ f # <<>>
    BY <1>1
  <2>. QED
    BY <1>1, <2>1 DEF Synced
<1>3. ASSUME NEW k \in -2 .. Len(d), Begins(d, s, k)
      PROVE  Begins(f, s, k)
  <2>1. ASSUME NEW i \in 1 .. Len(f), i < k PROVE f[i].b # "A5"
    <3>1. i \in 1 .. Len(d)
      BY <1>1, <2>1
    <3>. QED
      BY <1>1, <1>3, <2>1, <3>1 DEF Begins
  <2>2. ASSUME NEW j \in 1 .. Len(s), k + j > 1
        PROVE  k + j - 1 <= Len(f) /\ f[k + j - 1] = s[j]
    <3>1. k + j - 1 <= Len(d) /\ d[k + j - 1] = s[j]
      BY <1>3, <2>2 DEF Begins
    <3>2. k + j - 1 \in 1 .. Len(d)
      BY <1>1, <2>2, <3>1
    <3>. QED
      BY <1>1, <3>1, <3>2
  <2>. QED
    BY <2>1, <2>2 DEF Begins
<1>4. Awaits(at, d, s) => Awaits(at, f, s)
  BY <1>1, <1>3 DEF Awaits
<1>. QED
  BY <1>2, <1>3, <1>4 DEF f

\* A reply in the line.
Answers(s) == Len(s) \in 3 .. 5 /\ s[1].b = "A5" /\ s[2].b = "5A"

\* The first byte goes through the parser.
LEMMA OneByte ==
  ASSUME NEW at \in Parsers, at.pos < 3, NEW d \in Seq(Letters), d # <<>>, Whole(d), Synced(at, d),
         NEW s, Answers(s)
  PROVE  LET e == Rest(d, 1)
             next == ParseByte("header", at, d[1])
         IN  /\ Synced(next, e) /\ Whole(e)
             /\ Awaits(at, d, s) => Awaits(next, e, s)
<1> DEFINE e == Rest(d, 1)
           next == ParseByte("header", at, d[1])
           kept == Keeps("header", at.pos, d[1].b)
<1>1. /\ e \in Seq(Letters) /\ Len(e) = Len(d) - 1 /\ Len(d) \in Nat /\ Len(d) >= 1
      /\ \A i \in 1 .. Len(e) : e[i] = d[i + 1]
      /\ Whole(e)
  <2>1. 1 \in 0 .. Len(d) /\ Len(d) \in Nat /\ Len(d) >= 1
    OBVIOUS
  <2>. QED
    BY <2>1, Suffix
<1>2. at.pos \in 0 .. 2
  BY DEF Parsers
<1>3. kept <=> (at.pos = 0 => d[1].b = "A5")
  <2>1. at.pos = 1 => d[1].b = "5A"
    BY DEF Synced
  <2>. QED
    BY <2>1 DEF Keeps, HeaderKeeps
<1>4. IF kept THEN next.pos = at.pos + 1 /\ next.missed = at.missed /\ (at.pos = 2 => next.last = d[1])
              ELSE next.pos = 0 /\ next.missed = at.missed /\ at.pos = 0
  <2>1. at.missed = FALSE
    BY DEF Synced, Parsers
  <2>2. CASE kept
    BY <1>2, <2>2 DEF ParseByte
  <2>3. CASE ~kept
    <3>1. at.pos = 0
      BY <1>3, <2>3
    <3>2. next = [pos |-> 0, last |-> at.last, missed |-> FALSE]
      <4>1. (at.missed \/ ("header" = "header" /\ at.pos = 1 /\ d[1].b = "A5")) = FALSE
        BY <2>1, <3>1
      <4>. QED
        BY <2>3, <4>1, Zenon DEF ParseByte
    <3> HIDE DEF next, kept
    <3>. QED
      BY <2>1, <2>3, <3>1, <3>2
  <2>. QED
    BY <2>2, <2>3
<1> HIDE DEF e, next, kept
<1>5. Synced(next, e)
  <2>1. ~next.missed
    BY <1>4 DEF Synced
  <2>2. ASSUME next.pos = 1 PROVE e # <<>> /\ e[1].b = "5A"
    <3>1. at.pos = 0 /\ d[1].b = "A5"
      BY <1>2, <1>3, <1>4, <2>2
    <3>2. 1 < Len(d) /\ d[1 + 1].b = "5A"
      BY <1>1, <3>1 DEF Whole
    <3>. QED
      BY <1>1, <3>2
  <2>. QED
    BY <2>1, <2>2 DEF Synced
<1>6. ASSUME NEW k \in -2 .. Len(d), Begins(d, s, k)
      PROVE  Begins(e, s, k - 1)
  <2>1. \A i \in 1 .. Len(e) : i < k - 1 => e[i].b # "A5"
    BY <1>1, <1>6 DEF Begins
  <2>2. ASSUME NEW j \in 1 .. Len(s), (k - 1) + j > 1
        PROVE  (k - 1) + j - 1 <= Len(e) /\ e[(k - 1) + j - 1] = s[j]
    <3>1. k + j - 1 <= Len(d) /\ d[k + j - 1] = s[j]
      BY <1>6, <2>2 DEF Begins, Answers
    <3>2. (k - 1) + j - 1 \in 1 .. Len(e) /\ ((k - 1) + j - 1) + 1 = k + j - 1
      BY <1>1, <2>2, <3>1 DEF Answers
    <3>. QED
      BY <1>1, <3>1, <3>2
  <2>. QED
    BY <2>1, <2>2 DEF Begins
<1>7. ASSUME at.pos = 0, Silence(d)
      PROVE  Awaits(next, e, s)
  <2>1. d[1].b # "A5" /\ Silence(e)
    BY <1>1, <1>7 DEF Silence
  <2>. QED
    BY <1>3, <1>4, <1>7, <2>1 DEF Awaits
<1>8. ASSUME NEW k \in -2 .. Len(d), Begins(d, s, k), IF at.pos = 0 THEN k > 0 ELSE k = 1 - at.pos
      PROVE  Awaits(next, e, s)
  <2>1. k - 1 \in -2 .. Len(e) /\ Begins(e, s, k - 1)
    BY <1>1, <1>2, <1>6, <1>8
  <2>2. IF next.pos = 0 THEN k - 1 > 0 ELSE k - 1 = 1 - next.pos
    <3>1. CASE at.pos = 0 /\ k = 1
      <4>1. d[1] = s[1]
        BY <1>8, <3>1 DEF Begins, Answers
      <4>. QED
        BY <1>3, <1>4, <3>1, <4>1 DEF Answers
    <3>2. CASE at.pos = 0 /\ k > 1
      <4>1. d[1].b # "A5"
        BY <1>1, <1>8, <3>2 DEF Begins
      <4>. QED
        BY <1>3, <1>4, <3>2, <4>1
    <3>3. CASE at.pos # 0
      BY <1>2, <1>3, <1>4, <1>8, <3>3
    <3>. QED
      BY <1>8, <3>1, <3>2, <3>3
  <2>3. ASSUME next.pos = 3 PROVE next.last = s[3]
    <3>1. at.pos = 2 /\ next.last = d[1] /\ k = -1
      BY <1>2, <1>4, <1>8, <2>3
    <3>. QED
      BY <1>8, <3>1 DEF Begins, Answers
  <2>. QED
    BY <2>1, <2>2, <2>3 DEF Awaits
<1>9. ASSUME Awaits(at, d, s) PROVE Awaits(next, e, s)
  BY <1>7, <1>8, <1>9 DEF Awaits
<1>. QED
  BY <1>1, <1>5, <1>9 DEF e, next

\* Sequences of bytes are the same when their bytes are.
LEMMA SameSeq ==
  ASSUME NEW s \in Seq(Letters), NEW t \in Seq(Letters), Len(s) = Len(t),
         \A i \in 1 .. Len(s) : s[i] = t[i]
  PROVE  s = t
BY SeqEqual

\* To take from the front of the bytes received is to take from all of them.
LEMMA Parted ==
  ASSUME NEW d \in Seq(Letters), NEW e \in Seq(Letters), NEW n \in 0 .. Len(d)
  PROVE  /\ Rest(d, n) \o e = Rest(d \o e, n)
         /\ SubSeq(d, 1, n) = SubSeq(d \o e, 1, n)
         /\ Rest(d, 0) = d
         /\ n < Len(d) => Rest(Rest(d, n), 1) = Rest(d, n + 1) /\ Rest(d, n)[1] = d[n + 1]
<1> DEFINE f == d \o e
<1>1. /\ f \in Seq(Letters) /\ Len(f) = Len(d) + Len(e) /\ Len(d) \in Nat /\ Len(e) \in Nat
      /\ \A i \in 1 .. Len(d) : f[i] = d[i]
      /\ \A i \in 1 .. Len(e) : f[Len(d) + i] = e[i]
      /\ \A i \in 1 .. Len(f) :
           i \in 1 .. Len(d) \/ (i - Len(d) \in 1 .. Len(e) /\ f[i] = e[i - Len(d)])
  BY Extended
<1> HIDE DEF f
<1>2. /\ Rest(d, n) \in Seq(Letters) /\ Len(Rest(d, n)) = Len(d) - n
      /\ \A i \in 1 .. Len(Rest(d, n)) : Rest(d, n)[i] = d[i + n]
  BY Suffix
<1>3. /\ Rest(f, n) \in Seq(Letters) /\ Len(Rest(f, n)) = Len(f) - n
      /\ \A i \in 1 .. Len(Rest(f, n)) : Rest(f, n)[i] = f[i + n]
  <2>1. n \in 0 .. Len(f)
    BY <1>1
  <2>. QED
    BY <1>1, <2>1, Suffix
<1>4. Rest(d, n) \o e = Rest(f, n)
  <2> DEFINE r == Rest(d, n)
             g == r \o e
  <2>1. /\ g \in Seq(Letters) /\ Len(g) = Len(r) + Len(e)
        /\ \A i \in 1 .. Len(r) : g[i] = r[i]
        /\ \A i \in 1 .. Len(g) :
             i \in 1 .. Len(r) \/ (i - Len(r) \in 1 .. Len(e) /\ g[i] = e[i - Len(r)])
    BY <1>2, Extended
  <2>2. ASSUME NEW i \in 1 .. Len(g)
        PROVE  g[i] = Rest(f, n)[i]
    <3> HIDE DEF g
    <3>1. Rest(f, n)[i] = f[i + n] /\ i + n \in 1 .. Len(f) /\ i \in Nat /\ Len(r) = Len(d) - n
      BY <1>1, <1>2, <1>3, <2>1, <2>2
    <3>2. CASE i \in 1 .. Len(r)
      <4>1. g[i] = d[i + n] /\ i + n \in 1 .. Len(d)
        BY <1>1, <1>2, <2>1, <3>2
      <4>. QED
        BY <1>1, <3>1, <4>1
    <3>3. CASE i \notin 1 .. Len(r)
      <4>1. i - Len(r) \in 1 .. Len(e) /\ g[i] = e[i - Len(r)]
        BY <2>1, <2>2, <3>3
      <4>2. i + n = Len(d) + (i - Len(r))
        BY <1>1, <3>1
      <4>3. f[i + n] = e[i - Len(r)]
        BY <1>1, <4>1, <4>2
      <4>. QED
        BY <3>1, <4>1, <4>3
    <3>. QED
      BY <3>2, <3>3
  <2>3. Len(g) = Len(Rest(f, n))
    BY <1>1, <1>2, <1>3, <2>1
  <2> HIDE DEF g
  <2>4. g = Rest(f, n)
    BY <1>3, <2>1, <2>2, <2>3, SameSeq
  <2>. QED
    BY <2>4 DEF g
<1>5. SubSeq(d, 1, n) = SubSeq(f, 1, n)
  <2> DEFINE s == SubSeq(d, 1, n)
             t == SubSeq(f, 1, n)
  <2>1. s \in Seq(Letters) /\ Len(s) = n /\ \A i \in 1 .. n : s[i] = d[i]
    OBVIOUS
  <2>2. t \in Seq(Letters) /\ Len(t) = n /\ \A i \in 1 .. n : t[i] = f[i]
    <3>1. n <= Len(f) /\ n \in Nat
      BY <1>1
    <3>. QED
      BY <1>1, <3>1
  <2> HIDE DEF s, t
  <2>3. s = t
    <3>1. \A i \in 1 .. n : i \in 1 .. Len(d)
      BY <1>1
    <3>. QED
      BY <1>1, <2>1, <2>2, <3>1, SameSeq
  <2>. QED
    BY <2>3 DEF s, t
<1>6. Rest(d, 0) = d
  BY DEF Rest
<1>7. ASSUME n < Len(d)
      PROVE  Rest(Rest(d, n), 1) = Rest(d, n + 1) /\ Rest(d, n)[1] = d[n + 1]
  <2> DEFINE r == Rest(d, n)
             m == n + 1
  <2>1. m \in 0 .. Len(d) /\ 1 \in 0 .. Len(r) /\ 1 \in 1 .. Len(r) /\ Len(r) = Len(d) - n
    BY <1>1, <1>2, <1>7
  <2>2. /\ Rest(r, 1) \in Seq(Letters) /\ Len(Rest(r, 1)) = Len(r) - 1
        /\ \A i \in 1 .. Len(Rest(r, 1)) : Rest(r, 1)[i] = r[i + 1]
    BY <1>2, <2>1, Suffix
  <2> HIDE DEF m
  <2>3. /\ Rest(d, m) \in Seq(Letters) /\ Len(Rest(d, m)) = Len(d) - m
        /\ \A i \in 1 .. Len(Rest(d, m)) : Rest(d, m)[i] = d[i + m]
    BY <2>1, Suffix
  <2>4. Len(Rest(r, 1)) = Len(Rest(d, m))
    BY <1>1, <2>1, <2>2, <2>3 DEF m
  <2>5. ASSUME NEW i \in 1 .. Len(Rest(r, 1))
        PROVE  Rest(r, 1)[i] = Rest(d, m)[i]
    <3>1. i + 1 \in 1 .. Len(r) /\ (i + 1) + n = i + m
      BY <1>1, <2>1, <2>2, <2>5 DEF m
    <3>2. r[i + 1] = d[(i + 1) + n]
      BY <1>2, <3>1
    <3>. QED
      BY <2>2, <2>3, <2>4, <2>5, <3>1, <3>2
  <2>6. Rest(r, 1) = Rest(d, m)
    BY <2>2, <2>3, <2>4, <2>5, SameSeq
  <2>7. r[1] = d[1 + n]
    BY <1>2, <2>1
  <2>. QED
    BY <1>1, <2>6, <2>7 DEF m
<1>. QED
  BY <1>4, <1>5, <1>6, <1>7 DEF f

\* As many bytes as the parser of a header misses.
LEMMA FewBytes ==
  ASSUME NEW at \in Parsers, NEW d \in Seq(Letters), NEW n \in 0 .. Len(d), n + at.pos <= 3,
         Whole(d), Synced(at, d), NEW s, Answers(s)
  PROVE  LET got == Parse("header", at, SubSeq(d, 1, n))
         IN  /\ Synced(got, Rest(d, n))
             /\ Awaits(at, d, s) => Awaits(got, Rest(d, n), s)
<1> DEFINE bytes == SubSeq(d, 1, n)
           got == Parse("header", at, bytes)
           Good(x, m) ==
             /\ x \in Parsers /\ x.pos <= at.pos + m
             /\ Synced(x, Rest(d, m)) /\ Whole(Rest(d, m))
             /\ Awaits(at, d, s) => Awaits(x, Rest(d, m), s)
           one == ParseByte("header", at, bytes[1])
           two == ParseByte("header", one, bytes[2])
           three == ParseByte("header", two, bytes[3])
<1>1. at.pos \in 0 .. 3 /\ n \in 0 .. 3 /\ Len(d) \in Nat /\ n <= Len(d)
  BY DEF Parsers
<1>2. DOMAIN bytes = 1 .. n /\ \A i \in 1 .. n : bytes[i] = d[i] /\ d[i] \in Letters
  BY <1>1
<1>3. got = After("header", at, bytes, n)
  BY <1>1, <1>2, ParseFew
<1>4. Good(at, 0)
  <2>1. Rest(d, 0) = d
    BY Parted
  <2>. QED
    BY <1>1, <2>1
<1>5. ASSUME NEW x, NEW m \in 0 .. 2, m < n, Good(x, m)
      PROVE  Good(ParseByte("header", x, bytes[m + 1]), m + 1)
  <2> DEFINE e == Rest(d, m)
             y == ParseByte("header", x, bytes[m + 1])
  <2>1. m \in 0 .. Len(d) /\ m < Len(d) /\ x \in Parsers /\ x.pos < 3 /\ x.pos <= at.pos + m
    <3>1. x \in Parsers /\ x.pos <= at.pos + m
      BY <1>5
    <3>2. x.pos \in 0 .. 3
      BY <3>1 DEF Parsers
    <3>. QED
      BY <1>1, <1>5, <3>1, <3>2
  <2>2. e \in Seq(Letters) /\ Len(e) = Len(d) - m
    BY <2>1, Suffix
  <2>3. e # <<>>
    BY <1>1, <2>1, <2>2
  <2>4. Rest(e, 1) = Rest(d, m + 1) /\ e[1] = d[m + 1]
    BY <2>1, Parted
  <2>5. bytes[m + 1] = d[m + 1] /\ d[m + 1] \in Letters
    <3>1. m + 1 \in 1 .. n
      BY <1>1, <1>5
    <3>. QED
      BY <1>2, <3>1
  <2>6. y = ParseByte("header", x, e[1])
    BY <2>4, <2>5
  <2> HIDE DEF e, y
  <2>7. /\ Synced(y, Rest(e, 1)) /\ Whole(Rest(e, 1))
        /\ Awaits(x, e, s) => Awaits(y, Rest(e, 1), s)
    BY <1>5, <2>1, <2>2, <2>3, <2>6, OneByte DEF e
  <2>8. y \in Parsers /\ y.pos <= x.pos + 1
    <3>1. x.pos < Size("header") /\ "header" \in {"header", "node"}
      BY <2>1 DEF Size
    <3>. QED
      BY <2>1, <2>5, <3>1, ParseByteType DEF y
  <2>9. y.pos <= at.pos + (m + 1)
    BY <1>1, <2>1, <2>8 DEF Parsers
  <2>. QED
    BY <1>5, <2>4, <2>7, <2>8, <2>9 DEF e, y
<1> HIDE DEF bytes
<1>6. n >= 1 => Good(one, 1)
  BY <1>1, <1>4, <1>5
<1>7. n >= 2 => Good(two, 2)
  BY <1>1, <1>5, <1>6
<1>8. n = 3 => Good(three, 3)
  BY <1>1, <1>5, <1>7
<1>9. Good(got, n)
  BY <1>1, <1>3, <1>4, <1>6, <1>7, <1>8 DEF After
<1>. QED
  BY <1>9 DEF bytes

-----------------------------------------------------------------------------
(* The exchange.                                                           *)

\* The client does not read at the other stages.
LEMMA ClientOut ==
  ASSUME LinkInv, ReadInv,
         \/ client.rest = <<>> \/ Head(client.rest) \notin {"header", "payload"}
         \/ rd["client"].at = "out"
  PROVE  rd["client"] = out
<1>1. AtStage(rd["client"]) /\ rd["client"].goal \in Goals /\ Placed(rd["client"])
  BY DEF ReadInv, Places, ReaderStates, Readers
<1>2. client.rest # <<>> => Head(client.rest) # "node"
  BY DEF LinkInv, CallInv, Orderly, Stages
<1>. QED
  BY <1>1, <1>2 DEF AtStage, Goals, Placed

\* The bytes received and on the line are bytes.
LEMMA StreamType ==
  ASSUME LineOK
  PROVE  /\ rx \in Seq(Letters) /\ dev.line \in Seq(Letters) /\ Stream \in Seq(Letters) /\ dev \in Lines
<1>1. rx \in Seq(Letters) /\ dev.line \in Seq(Letters) /\ dev \in Lines
  BY DEF LineOK, Lines
<1>. QED
  BY <1>1 DEF Stream

\* Three sequences of bytes make the same either way.
LEMMA Regrouped ==
  ASSUME NEW d \in Seq(Letters), NEW e \in Seq(Letters), NEW f \in Seq(Letters)
  PROVE  (d \o e) \o f = d \o (e \o f)
BY ConcatAssociative

\* A byte that comes in from the line.
LEMMA ByteMoves ==
  ASSUME NEW d \in Seq(Letters), NEW e \in Seq(Letters), e # <<>>
  PROVE  Append(d, Head(e)) \o Tail(e) = d \o e
<1> DEFINE h == <<Head(e)>>
<1>1. h \in Seq(Letters) /\ Tail(e) \in Seq(Letters) /\ e = h \o Tail(e)
  BY HeadTailProperties, SameSeq
<1>2. Append(d, Head(e)) = d \o h
  OBVIOUS
<1> HIDE DEF h
<1>. QED
  BY <1>1, <1>2, Regrouped

\* Where there is nothing no answer begins.
LEMMA NothingBegins == Whole(<<>>) /\ Silence(<<>>)
BY DEF Whole, Silence

\* A client that does not read attends to nothing.
LEMMA OutStream ==
  ASSUME StreamInv, UNCHANGED <<faults, dev.gone>>, rd'["client"] = out,
         faults = 0 => Whole(Stream')
  PROVE  StreamInv'
<1>1. out.at = "out" /\ out.goal = "header" /\ ~out.got.missed
  BY DEF out
<1>2. Attends(rd["client"])' /\ Collects(rd["client"])'
  BY <1>1 DEF Attends, Collects, Busy, Waits
<1>. QED
  BY <1>1, <1>2 DEF StreamInv

\* The client waits, or bytes come that begin no answer.
Lingers(x, y) ==
  /\ y.goal = x.goal /\ y.got = x.got
  /\ y.at = x.at \/ (x.at \in Busy /\ y.at \in Busy \cup {"fail", "late"})

\* Such a step keeps the exchange as it is.
LEMMA LingersStream ==
  ASSUME StreamInv, LineOK, UNCHANGED <<kind, answer, client, calls, faults, dev.gone>>,
         Lingers(rd["client"], rd'["client"]),
         NEW e \in Seq(Letters), Silence(e), Whole(e), Stream' = Stream \o e
  PROVE  StreamInv'
<1> DEFINE x == rd["client"]
           y == rd'["client"]
           d == Stream
           f == Stream'
<1>1. d \in Seq(Letters) /\ f = d \o e
  BY StreamType
<1>2. Own' = Own /\ Payload(calls)' = Payload(calls)
  BY DEF Own, Reply, Expected, Payload, Byte
<1>3. /\ faults' = faults /\ faults \in Nat /\ (answer.stale <=> answer'.stale)
      /\ answer'.heard = answer.heard /\ answer'.data = answer.data /\ calls' = calls /\ kind' = kind
  BY DEF StreamInv
<1>4. CASE faults # 0
  BY <1>3, <1>4 DEF StreamInv
<1>5. CASE faults = 0
  <2>1. ~dev'.gone /\ Whole(d) /\ ~x.got.missed /\ Attends(x) /\ Collects(x)
    BY <1>5 DEF StreamInv
  <2>2. Whole(f)
    BY <1>1, <2>1, Extended
  <2>3. /\ Synced(x.got, d) => Synced(x.got, f)
        /\ Awaits(x.got, d, Own) => Awaits(x.got, f, Own)
        /\ Begins(d, Own, -2) => Begins(f, Own, -2)
    <3>1. -2 \in -2 .. Len(d)
      BY <1>1
    <3>. QED
      BY <1>1, <3>1, AwaitsMore
  <2>4. Attends(rd["client"])'
    BY <1>2, <1>3, <2>1, <2>3 DEF Attends, Lingers, Busy, Waits
  <2>5. Collects(rd["client"])'
    BY <1>2, <1>3, <2>1, <2>3 DEF Collects, Lingers, Busy, Waits
  <2>. QED
    BY <1>3, <1>5, <2>1, <2>2, <2>4, <2>5 DEF StreamInv, Lingers
<1>. QED
  BY <1>4, <1>5

\* The same with no byte more.
LEMMA StillStream ==
  ASSUME StreamInv, LineOK, UNCHANGED <<kind, answer, client, calls, faults, dev.gone, Stream>>,
         Lingers(rd["client"], rd'["client"])
  PROVE  StreamInv'
<1>1. <<>> \in Seq(Letters) /\ Silence(<<>>) /\ Whole(<<>>)
  BY NothingBegins
<1>2. Stream' = Stream \o <<>>
  BY StreamType
<1>. QED
  BY <1>1, <1>2, LingersStream

\* After a fault nothing is claimed.
LEMMA FaultStream ==
  ASSUME StreamInv, Fault
  PROVE  StreamInv'
BY DEF StreamInv, Fault

\* What the line does.
LEMMA LineStream ==
  ASSUME LinkInv, ReadInv, StreamInv, Deliver \/ Measure \/ Stray \/ LineError \/ Unplug
  PROVE  StreamInv'
<1>. USE DEF platform, hal, channel, flags, ends
<1>1. /\ LineOK /\ rx \in Seq(Letters) /\ dev.line \in Seq(Letters) /\ dev \in Lines
      /\ rd \in [Readers -> ReaderStates]
  BY StreamType DEF ReadInv, Places
<1>2. CASE Deliver
  <2>1. /\ dev.line # <<>> /\ rx' = Append(rx, Head(dev.line)) /\ dev' = [dev EXCEPT !.line = Tail(dev.line)]
        /\ UNCHANGED <<kind, answer, client, calls, faults>>
    BY <1>2 DEF Deliver, Arrives
  <2>2. dev'.line = Tail(dev.line) /\ dev'.gone = dev.gone
    BY <1>1, <2>1 DEF Lines
  <2>3. Append(rx, Head(dev.line)) \o Tail(dev.line) = rx \o dev.line
    BY <1>1, <2>1, ByteMoves
  <2>4. Lingers(rd["client"], rd'["client"])
    BY <1>1, <1>2 DEF Deliver, Arrives, Lingers, ReaderStates, Readers
  <2>. QED
    BY <1>1, <2>1, <2>2, <2>3, <2>4, StillStream DEF Stream
<1>3. CASE Measure
  <2>1. /\ dev' = [dev EXCEPT !.line = @ \o Node, !.sent = @ + 1]
        /\ UNCHANGED <<kind, rx, rd, answer, client, calls, faults>>
    BY <1>3 DEF Measure
  <2>2. Node \in Seq(Letters) /\ Silence(Node) /\ Whole(Node)
    <3>1. Byte("n1", 0) \in Letters /\ Byte("n2", 0) \in Letters
      BY LinkAssumption DEF Letters, Byte
    <3>2. Node \in Seq(Letters)
      BY <3>1 DEF Node
    <3>3. Len(Node) = 2 /\ Node[1].b = "n1" /\ Node[2].b = "n2"
      BY DEF Node, Byte
    <3>4. \A i \in 1 .. Len(Node) : Node[i].b # "A5"
      BY <3>3
    <3>. QED
      BY <3>2, <3>4 DEF Silence, Whole
  <2>3. dev'.line = dev.line \o Node /\ dev'.gone = dev.gone
    BY <1>1, <2>1 DEF Lines
  <2>4. rx \o (dev.line \o Node) = (rx \o dev.line) \o Node
    BY <1>1, <2>2, Regrouped
  <2>5. Lingers(rd["client"], rd'["client"])
    BY <2>1 DEF Lingers
  <2>. QED
    BY <1>1, <2>1, <2>2, <2>3, <2>4, <2>5, LingersStream DEF Stream
<1>4. CASE Stray \/ LineError \/ Unplug
  BY <1>4, FaultStream DEF Stray, LineError, Unplug
<1>. QED
  BY <1>2, <1>3, <1>4

\* A wait that begins, is granted or is given up.
LEMMA TurnStream ==
  ASSUME ReadInv, StreamInv, NEW r \in Readers, UNCHANGED Beside,
         rd' = rd \/ \E at, watch : Turn(r, at, watch)
  PROVE  StreamInv'
<1>1. LineOK /\ rd \in [Readers -> ReaderStates] /\ "client" \in Readers
  BY DEF ReadInv, Places, Readers
<1>2. Lingers(rd["client"], rd'["client"])
  <2>1. CASE rd' = rd
    BY <2>1 DEF Lingers
  <2>2. ASSUME NEW at, NEW watch, Turn(r, at, watch)
        PROVE  Lingers(rd["client"], rd'["client"])
    <3>1. CASE r = "client"
      <4>1. rd'["client"] = Moved(rd["client"], at, watch)
        BY <1>1, <2>2, <3>1 DEF Turn
      <4>2. rd["client"].at \in Busy /\ at \in Busy \cup {"fail", "late"}
        BY <2>2, <3>1 DEF Turn, Busy, Waits
      <4>. QED
        BY <4>1, <4>2 DEF Moved, Lingers
    <3>2. CASE r # "client"
      <4>1. rd'["client"] = rd["client"]
        BY <1>1, <2>2, <3>2 DEF Turn
      <4>. QED
        BY <4>1 DEF Lingers
    <3>. QED
      BY <3>1, <3>2
  <2>. QED
    BY <2>1, <2>2
<1>. QED
  BY <1>1, <1>2, StillStream DEF Beside, Stream

\* An answer and its first bytes.
LEMMA ReplyIs ==
  ASSUME NEW type \in Types, NEW req
  PROVE  LET s == Reply(type, req)
         IN  /\ Len(s) = IF type = "scan" THEN 3 ELSE 5
             /\ s[1] = Byte("A5", req) /\ s[2] = Byte("5A", req) /\ s[3] = Byte(type, req)
             /\ type # "scan" => s[4] = Byte("p1", req) /\ s[5] = Byte("p2", req)
             /\ Whole(s) /\ Answers(s)
<1> DEFINE s == Reply(type, req)
<1>1. /\ Len(s) = IF type = "scan" THEN 3 ELSE 5
      /\ s[1] = Byte("A5", req) /\ s[2] = Byte("5A", req) /\ s[3] = Byte(type, req)
      /\ type # "scan" => s[4] = Byte("p1", req) /\ s[5] = Byte("p2", req)
  <2>1. CASE type = "scan"
    BY <2>1 DEF Reply
  <2>2. CASE type # "scan"
    BY <2>2 DEF Reply, Payload
  <2>. QED
    BY <2>1, <2>2
<1> HIDE DEF s
<1>2. Answers(s)
  BY <1>1 DEF Answers, Byte
<1>3. ASSUME NEW i \in 1 .. Len(s), s[i].b = "A5" PROVE i = 1
  <2>1. type # "A5"
    BY DEF Types
  <2>2. i \in {1, 2, 3} \/ (type # "scan" /\ i \in {4, 5})
    BY <1>1
  <2>. QED
    BY <1>1, <1>3, <2>1, <2>2 DEF Byte
<1>4. Whole(s)
  BY <1>1, <1>2, <1>3 DEF Whole, Answers
<1>. QED
  BY <1>1, <1>2, <1>4 DEF s

\* The answer that the client waits for.
LEMMA OwnIs ==
  ASSUME LinkInv, ControlInv, client.rest # <<>>, Head(client.rest) \in {"ask", "header", "payload"}
  PROVE  /\ Own = Reply(Expected(client.call), calls) /\ Expected(client.call) \in Types
         /\ Answers(Own) /\ Whole(Own) /\ Own[3].req = calls
         /\ Head(client.rest) = "payload" =>
              Len(Own) = 5 /\ Own[4] = Byte("p1", calls) /\ Own[5] = Byte("p2", calls)
<1>1. client.rest \in Seq(Stages)
  BY DEF LinkInv, CallInv, Orderly
<1>2. Has(client.rest, Head(client.rest))
  BY <1>1, HasHead
<1>3. /\ client.call \in Exchanging
      /\ Head(client.rest) = "payload" => client.call \in {"connect", "query"}
  BY <1>2 DEF ControlInv, Supposed, Exchanging
<1>4. /\ Expected(client.call) \in Types
      /\ Head(client.rest) = "payload" => Expected(client.call) # "scan"
  BY <1>3 DEF Expected, Exchanging, Types
<1>5. /\ Answers(Own) /\ Whole(Own) /\ Own[3] = Byte(Expected(client.call), calls)
      /\ Expected(client.call) # "scan" =>
           Len(Own) = 5 /\ Own[4] = Byte("p1", calls) /\ Own[5] = Byte("p2", calls)
  BY <1>4, ReplyIs DEF Own
<1>6. Own[3].req = calls
  BY <1>5 DEF Byte
<1>. QED
  BY <1>4, <1>5, <1>6 DEF Own

AnswerOK == answer \in [stale : BOOLEAN, heard : Nat, data : Seq(Letters)]

\* The payload, as far as it was read.
LEMMA PayloadTaken ==
  ASSUME NEW d \in Seq(Letters), NEW s, Begins(d, s, -2), NEW req,
         Len(s) = 5, s[4] = Byte("p1", req), s[5] = Byte("p2", req)
  PROVE  SubSeq(d, 1, 2) = Payload(req) /\ SubSeq(d, 1, 1) # <<>> /\ IsPrefix(SubSeq(d, 1, 1), Payload(req))
         /\ IsPrefix(SubSeq(d, 1, 2), Payload(req)) /\ SubSeq(d, 1, 2) # <<>>
<1>1. Len(d) \in Nat /\ Len(d) >= 2 /\ d[1] = Byte("p1", req) /\ d[2] = Byte("p2", req)
  <2>1. -2 + 4 - 1 <= Len(d) /\ d[-2 + 4 - 1] = s[4]
    BY DEF Begins
  <2>2. -2 + 5 - 1 <= Len(d) /\ d[-2 + 5 - 1] = s[5]
    BY DEF Begins
  <2>3. -2 + 4 - 1 = 1 /\ -2 + 5 - 1 = 2
    OBVIOUS
  <2>. QED
    BY <2>1, <2>2, <2>3
<1>2. SubSeq(d, 1, 2) = <<d[1], d[2]>> /\ SubSeq(d, 1, 1) = <<d[1]>>
  <2>1. /\ SubSeq(d, 1, 2) \in Seq(Letters) /\ Len(SubSeq(d, 1, 2)) = 2
        /\ \A i \in 1 .. 2 : SubSeq(d, 1, 2)[i] = d[i]
    BY <1>1
  <2>2. /\ SubSeq(d, 1, 1) \in Seq(Letters) /\ Len(SubSeq(d, 1, 1)) = 1
        /\ \A i \in 1 .. 1 : SubSeq(d, 1, 1)[i] = d[i]
    BY <1>1
  <2>3. d[1] \in Letters /\ d[2] \in Letters
    BY <1>1
  <2>4. <<d[1], d[2]>> \in Seq(Letters) /\ <<d[1]>> \in Seq(Letters)
    BY <2>3
  <2> DEFINE both == <<d[1], d[2]>>
             one == <<d[1]>>
  <2>5. /\ both \in Seq(Letters) /\ Len(both) = 2 /\ both[1] = d[1] /\ both[2] = d[2]
        /\ one \in Seq(Letters) /\ Len(one) = 1 /\ one[1] = d[1]
    BY <2>4
  <2> HIDE DEF both, one
  <2>6. SubSeq(d, 1, 2) = both
    <3>1. \A i \in 1 .. 2 : i = 1 \/ i = 2
      OBVIOUS
    <3>. QED
      BY <2>1, <2>5, <3>1, SameSeq
  <2>7. SubSeq(d, 1, 1) = one
    <3>1. \A i \in 1 .. 1 : i = 1
      OBVIOUS
    <3>. QED
      BY <2>2, <2>5, <3>1, SameSeq
  <2>. QED
    BY <2>6, <2>7 DEF both, one
<1> DEFINE p == Byte("p1", req)
           q == Byte("p2", req)
<1>3. Payload(req) = <<p, q>> /\ SubSeq(d, 1, 2) = <<p, q>> /\ SubSeq(d, 1, 1) = <<p>>
  BY <1>1, <1>2 DEF Payload
<1> HIDE DEF p, q
<1>4. IsPrefix(<<p>>, <<p, q>>) /\ IsPrefix(<<p, q>>, <<p, q>>) /\ <<p>> # <<>> /\ <<p, q>> # <<>>
  BY DEF IsPrefix
<1>. QED
  BY <1>3, <1>4

\* The client's read: a header's bytes go through the parser, which stays at its
\* place before the answer; the payload is what comes after the header.
LEMMA ClientTakes ==
  ASSUME LinkInv, ControlInv, ReadInv, StreamInv, AnswerOK, NEW n, Takes("client", n), UNCHANGED Besides
  PROVE  StreamInv'
<1> DEFINE x == rd["client"]
           y == rd'["client"]
           d == Stream
           e == Stream'
<1>1. /\ LineOK /\ rd \in [Readers -> ReaderStates] /\ x.at = "ready" /\ x \in ReaderStates /\ Placed(x)
      /\ AtStage(x) /\ x.goal \in Goals /\ x.got \in Parsers
      /\ rx \in Seq(Letters) /\ dev.line \in Seq(Letters) /\ d \in Seq(Letters)
  BY StreamType DEF ReadInv, Places, Readers, Takes, ReaderStates
<1>2. /\ n \in 0 .. Len(rx) /\ n \in 0 .. Missing(x)
      /\ n = Missing(x) \/ dev.gone \/ (kind # "serial" /\ n > 0)
      /\ rx' = Rest(rx, n)
      /\ answer' = IF x.goal = "payload" THEN [answer EXCEPT !.data = Taken(n)] ELSE answer
      /\ UNCHANGED <<kind, dev, client, calls, faults>>
  <2>1. n \in 0 .. Missing(x) /\ n <= Len(rx)
    BY DEF Takes
  <2>2. n \in 0 .. Len(rx)
    BY <1>1, <2>1
  <2>. QED
    BY <2>1, <2>2 DEF Takes, Rest, Besides
<1>3. e = Rest(d, n) /\ Taken(n) = SubSeq(d, 1, n) /\ n \in 0 .. Len(d)
  <2>1. n \in 0 .. Len(d)
    BY <1>1, <1>2, Extended DEF Stream
  <2>2. e = Rest(rx, n) \o dev.line
    BY <1>2 DEF Stream
  <2>3. /\ Rest(rx, n) \o dev.line = Rest(rx \o dev.line, n)
        /\ SubSeq(rx, 1, n) = SubSeq(rx \o dev.line, 1, n)
    BY <1>1, <1>2, Parted
  <2>. QED
    BY <2>1, <2>2, <2>3 DEF Stream, Taken
<1>4. y = Parsed(x, n)
  BY <1>1 DEF Takes, Readers
<1>5. /\ y.goal = x.goal /\ y.got = Heard(x, n) /\ y.at \in {"ok", "loop"}
      /\ y.at = "ok" <=> x.goal = "payload" \/ Heard(x, n).pos = Size(x.goal)
  BY <1>4 DEF Parsed
<1>6. client.rest # <<>> /\ Head(client.rest) = x.goal /\ x.goal \in {"header", "payload"}
  BY <1>1 DEF AtStage, Goals, LinkInv, CallInv, Orderly, Stages
<1>7. Answers(Own) /\ Own' = Own /\ Payload(calls)' = Payload(calls)
  BY <1>2, <1>6, OwnIs DEF Own, Reply, Expected, Payload, Byte
<1>8. /\ answer'.stale = answer.stale /\ answer'.heard = answer.heard
      /\ x.goal = "payload" => answer'.data = Taken(n)
  BY <1>2 DEF AnswerOK
<1>9. CASE faults # 0
  BY <1>2, <1>9 DEF StreamInv
<1>10. CASE faults = 0
  <2>1. faults' = 0 /\ ~dev'.gone /\ ~dev.gone /\ Whole(d) /\ ~x.got.missed /\ Attends(x) /\ Collects(x)
    BY <1>2, <1>10 DEF StreamInv
  <2>2. Whole(e)
    BY <1>1, <1>3, <2>1, Suffix
  <2>3. CASE x.goal = "header"
    <3>1. Synced(x.got, d) /\ (~answer.stale => Awaits(x.got, d, Own))
      BY <1>1, <2>1, <2>3 DEF Attends, Busy, Waits
    <3>2. n + x.got.pos <= 3
      <4>1. x.got.pos \in 0 .. 3 /\ Missing(x) = 3 - x.got.pos
        BY <1>1, <2>3 DEF Parsers, Missing, Size
      <4>. QED
        BY <1>2, <4>1
    <3>3. y.got = Parse("header", x.got, SubSeq(d, 1, n))
      BY <1>3, <1>5, <2>3 DEF Heard
    <3>4. Synced(y.got, e) /\ (Awaits(x.got, d, Own) => Awaits(y.got, e, Own))
      BY <1>1, <1>3, <1>7, <2>1, <3>1, <3>2, <3>3, FewBytes
    <3>5. y.goal = "header" /\ (y.at = "ok" => y.got.pos = 3)
      BY <1>5, <2>3 DEF Size
    <3>6. Attends(rd["client"])'
      BY <1>7, <1>8, <3>1, <3>4, <3>5 DEF Attends
    <3>7. Collects(rd["client"])'
      BY <3>5 DEF Collects
    <3>8. ~y.got.missed
      BY <3>4 DEF Synced
    <3>. QED
      BY <2>1, <2>2, <3>6, <3>7, <3>8 DEF StreamInv
  <2>4. CASE x.goal = "payload"
    <3>1. y.goal = "payload" /\ y.got = x.got /\ y.at = "ok"
      BY <1>5, <2>4 DEF Heard
    <3>2. Attends(rd["client"])'
      BY <3>1 DEF Attends
    <3>3. ASSUME ~answer.stale
          PROVE  IF kind = "serial" THEN Taken(n) = Payload(calls)
                 ELSE Taken(n) # <<>> /\ IsPrefix(Taken(n), Payload(calls))
      <4>1. Begins(d, Own, -2)
        BY <1>1, <2>1, <2>4, <3>3 DEF Collects, Busy, Waits
      <4>2. Len(Own) = 5 /\ Own[4] = Byte("p1", calls) /\ Own[5] = Byte("p2", calls)
        BY <1>6, <2>4, OwnIs
      <4>3. n \in 0 .. 2 /\ (n = 2 \/ (kind # "serial" /\ n > 0))
        <5>1. x.got.pos = 0 /\ Missing(x) = 2
          BY <1>1, <2>4 DEF Placed, Missing, Size
        <5>. QED
          BY <1>2, <2>1, <5>1
      <4>4. /\ SubSeq(d, 1, 2) = Payload(calls)
            /\ SubSeq(d, 1, 1) # <<>> /\ IsPrefix(SubSeq(d, 1, 1), Payload(calls))
            /\ IsPrefix(SubSeq(d, 1, 2), Payload(calls)) /\ SubSeq(d, 1, 2) # <<>>
        BY <1>1, <4>1, <4>2, PayloadTaken
      <4>5. n = 2 \/ (n = 1 /\ kind # "serial")
        BY <4>3
      <4>. QED
        BY <1>3, <4>4, <4>5
    <3>4. ASSUME ~answer.stale PROVE answer.heard = calls
      BY <2>1, <2>4, <3>4 DEF Collects
    <3>5. Collects(rd["client"])'
      BY <1>2, <1>7, <1>8, <2>4, <3>1, <3>3, <3>4 DEF Collects, Busy, Waits
    <3>. QED
      BY <2>1, <2>2, <3>1, <3>2, <3>5 DEF StreamInv
  <2>. QED
    BY <1>6, <2>3, <2>4
<1>. QED
  BY <1>9, <1>10

\* The caching thread's read: the client does not read then.
LEMMA CacherTakes ==
  ASSUME LinkInv, ControlInv, ReadInv, StreamInv, NEW n, Takes("cacher", n), UNCHANGED Besides
  PROVE  StreamInv'
<1>1. /\ LineOK /\ rd \in [Readers -> ReaderStates] /\ rd["client"].at = "out"
      /\ rx \in Seq(Letters) /\ dev.line \in Seq(Letters) /\ Stream \in Seq(Letters)
  BY StreamType, OneReads DEF ReadInv, Places, Takes
<1>2. rd["client"] = out /\ rd'["client"] = rd["client"]
  BY <1>1 DEF ReadInv, Places, Placed, Readers, Takes
<1>3. /\ n \in 0 .. Len(rx) /\ rx' = Rest(rx, n)
      /\ UNCHANGED <<faults, dev>>
  <2>1. n \in 0 .. Missing(rd["cacher"]) /\ n <= Len(rx)
    BY DEF Takes
  <2>. QED
    BY <1>1, <2>1 DEF Takes, Rest, Besides
<1>4. Stream' = Rest(Stream, n) /\ n \in 0 .. Len(Stream)
  <2>1. n \in 0 .. Len(Stream)
    BY <1>1, <1>3, Extended DEF Stream
  <2>2. Stream' = Rest(rx, n) \o dev.line
    BY <1>3 DEF Stream
  <2>3. Rest(rx, n) \o dev.line = Rest(rx \o dev.line, n)
    BY <1>1, <1>3, Parted
  <2>. QED
    BY <2>1, <2>2, <2>3 DEF Stream
<1>5. faults = 0 => Whole(Stream')
  BY <1>1, <1>4, Suffix DEF StreamInv
<1>. QED
  BY <1>2, <1>3, <1>5, OutStream

\* A request, and perhaps its answer.
LEMMA AskStream ==
  ASSUME LinkInv, ControlInv, ReadInv, StreamInv, Ask
  PROVE  StreamInv'
<1>. USE DEF platform, hal, channel, flags, ends
<1> DEFINE d == Stream
           y == rd'["client"]
           old == \E i \in DOMAIN d : d[i].b = "A5"
           reply == Reply(Expected(client.call), calls)
<1>1. /\ client.rest # <<>> /\ Head(client.rest) = "ask" /\ Advance
      /\ rd' = [rd EXCEPT !["client"] = Reading("header")]
      /\ UNCHANGED <<kind, rx, calls, faults>>
      /\ answer' = [NoAnswer EXCEPT !.stale = old]
      /\ \/ dev' = dev
         \/ dev' = [dev EXCEPT !.line = @ \o reply, !.streaming = client.call = "start"]
  BY DEF Ask, At, Stream
<1>2. /\ LineOK /\ rd \in [Readers -> ReaderStates] /\ dev \in Lines
      /\ rx \in Seq(Letters) /\ dev.line \in Seq(Letters) /\ d \in Seq(Letters)
  BY StreamType DEF ReadInv, Places
<1>3. y.at = "loop" /\ y.goal = "header" /\ y.got.pos = 0 /\ ~y.got.missed
  BY <1>1, <1>2, Readings DEF Readers, Goals
<1>4. answer'.stale <=> old
  BY <1>1 DEF NoAnswer
<1>5. ~old => Silence(d)
  BY <1>2 DEF Silence
<1>6. reply = Own /\ Own' = Own /\ Answers(Own) /\ Whole(Own) /\ Own \in Seq(Letters)
  <2>1. client'.call = client.call /\ calls' = calls
    <3>1. Tail(client.rest) # <<>>
      BY <1>1, NextOrdered DEF ControlInv, Supposed, LinkInv, CallInv, Orderly
    <3>2. ASSUME NEW s, s # <<>>, Proceed(s) PROVE client'.call = client.call
      BY <3>2 DEF Proceed
    <3>3. Proceed(Tail(client.rest))
      BY <1>1 DEF Advance
    <3>. QED
      BY <1>1, <3>1, <3>2, <3>3
  <2>2. Own' = Own
    BY <2>1 DEF Own, Reply, Expected, Payload, Byte
  <2>. QED
    BY <1>1, <2>2, OwnIs, ReplyLetters
<1>7. dev'.gone = dev.gone /\ (dev'.line = dev.line \/ dev'.line = dev.line \o Own)
  BY <1>1, <1>2, <1>6 DEF Lines
<1> HIDE DEF reply, old
<1>8. Stream' = d \/ Stream' = d \o Own
  <2>1. CASE dev'.line = dev.line
    BY <1>1, <2>1 DEF Stream
  <2>2. CASE dev'.line = dev.line \o Own
    <3>1. rx \o (dev.line \o Own) = (rx \o dev.line) \o Own
      BY <1>2, <1>6, Regrouped
    <3>2. Stream' = rx \o (dev.line \o Own)
      BY <1>1, <2>2 DEF Stream
    <3>. QED
      BY <3>1, <3>2 DEF Stream
  <2>. QED
    BY <1>7, <2>1, <2>2
<1>9. Whole(d) => Whole(Stream')
  BY <1>2, <1>6, <1>8, Extended
<1>10. ASSUME Silence(d) PROVE Awaits(y.got, Stream', Own)
  <2>1. CASE Stream' = d
    BY <1>3, <1>10, <2>1 DEF Awaits
  <2>2. CASE Stream' = d \o Own
    <3> DEFINE f == d \o Own
               k == Len(d) + 1
    <3>1. /\ Len(f) = Len(d) + Len(Own) /\ Len(d) \in Nat /\ Len(Own) \in Nat
          /\ \A i \in 1 .. Len(d) : f[i] = d[i]
          /\ \A i \in 1 .. Len(Own) : f[Len(d) + i] = Own[i]
      BY <1>2, <1>6, Extended
    <3> HIDE DEF f
    <3>2. k \in -2 .. Len(f) /\ k > 0
      BY <1>6, <3>1 DEF Answers
    <3>3. ASSUME NEW i \in 1 .. Len(f), i < k PROVE f[i].b # "A5"
      <4>1. i \in 1 .. Len(d)
        BY <3>1, <3>3
      <4>. QED
        BY <1>10, <3>1, <4>1 DEF Silence
    <3>4. ASSUME NEW j \in 1 .. Len(Own), k + j > 1
          PROVE  k + j - 1 <= Len(f) /\ f[k + j - 1] = Own[j]
      <4>1. k + j - 1 = Len(d) + j
        BY <3>1, <3>4
      <4>. QED
        BY <3>1, <4>1
    <3> HIDE DEF k
    <3>5. Begins(f, Own, k)
      BY <3>3, <3>4 DEF Begins
    <3>6. Awaits(y.got, f, Own)
      BY <1>3, <3>2, <3>5 DEF Awaits
    <3>. QED
      BY <2>2, <3>6 DEF f
  <2>. QED
    BY <1>8, <2>1, <2>2
<1>11. Attends(rd["client"])'
  <2>1. Synced(y.got, Stream')
    BY <1>3 DEF Synced
  <2>2. ~answer'.stale => Awaits(y.got, Stream', Own')
    BY <1>4, <1>5, <1>6, <1>10
  <2>. QED
    BY <1>3, <2>1, <2>2 DEF Attends
<1>12. Collects(rd["client"])'
  BY <1>3 DEF Collects
<1>. QED
  BY <1>1, <1>3, <1>7, <1>9, <1>11, <1>12 DEF StreamInv

\* The header that was read, and the payload that comes next.
LEMMA HeaderStream ==
  ASSUME LinkInv, ControlInv, ReadInv, StreamInv, AnswerOK, Header \/ PayloadRead
  PROVE  StreamInv'
<1>. USE DEF platform, hal, channel, flags, ends
<1> DEFINE x == rd["client"]
           y == rd'["client"]
           d == Stream
<1>1. /\ UNCHANGED <<kind, rx, dev, calls, faults>>
      /\ client.rest # <<>> /\ Head(client.rest) \in {"header", "payload"} /\ x.at \in {"ok", "fail"}
      /\ \/ rd' = [rd EXCEPT !["client"] = out]
         \/ /\ Head(client.rest) = "header" /\ x.at = "ok" /\ Advance /\ client.rest[2] = "payload"
            /\ rd' = [rd EXCEPT !["client"] = Reading("payload")]
            /\ answer' = [answer EXCEPT !.heard = x.got.last.req]
  BY DEF Header, PayloadRead, At
<1>2. rd \in [Readers -> ReaderStates] /\ AtStage(x) /\ Stream' = d
  BY <1>1 DEF ReadInv, Places, Stream
<1>3. CASE rd' = [rd EXCEPT !["client"] = out]
  <2>1. y = out
    BY <1>2, <1>3 DEF Readers
  <2>2. faults = 0 => Whole(Stream')
    BY <1>2 DEF StreamInv
  <2>. QED
    BY <1>1, <2>1, <2>2, OutStream
<1>4. CASE rd' # [rd EXCEPT !["client"] = out]
  <2>1. /\ y.at = "loop" /\ y.goal = "payload" /\ ~y.got.missed
        /\ x.goal = "header" /\ x.at = "ok"
    BY <1>1, <1>2, <1>4, Readings DEF Readers, Goals, AtStage
  <2>2. Own' = Own
    <3>1. Tail(client.rest) # <<>>
      BY <1>1, <1>4, NextOrdered DEF ControlInv, Supposed, LinkInv, CallInv, Orderly
    <3>2. ASSUME NEW s, s # <<>>, Proceed(s) PROVE client'.call = client.call
      BY <3>2 DEF Proceed
    <3>3. Proceed(Tail(client.rest))
      BY <1>1, <1>4 DEF Advance
    <3>4. client'.call = client.call
      BY <3>1, <3>2, <3>3
    <3>. QED
      BY <1>1, <3>4 DEF Own, Reply, Expected, Payload, Byte
  <2>3. answer'.stale = answer.stale /\ answer'.heard = x.got.last.req
    BY <1>1, <1>4 DEF AnswerOK
  <2>4. Answers(Own) /\ Own[3].req = calls
    BY <1>1, OwnIs
  <2>5. Attends(rd["client"])'
    BY <2>1 DEF Attends
  <2>6. ASSUME faults = 0, ~answer.stale
        PROVE  x.got.last.req = calls /\ Begins(d, Own, -2)
    <3>1. x.got.pos = 3 /\ Awaits(x.got, d, Own)
      BY <2>1, <2>6 DEF StreamInv, Attends
    <3>2. PICK k \in -2 .. Len(d) :
            /\ Begins(d, Own, k) /\ k = 1 - x.got.pos /\ x.got.last = Own[3]
      BY <3>1 DEF Awaits
    <3>3. k = -2
      BY <3>1, <3>2
    <3>. QED
      BY <2>4, <3>2, <3>3
  <2>7. faults = 0 => Collects(rd["client"])'
    BY <1>1, <1>2, <2>1, <2>2, <2>3, <2>6 DEF Collects
  <2>. QED
    BY <1>1, <1>2, <2>1, <2>5, <2>7 DEF StreamInv
<1>. QED
  BY <1>3, <1>4

\* What was received is dropped: what is on the line breaks off no answer's start.
LEMMA BackWhole ==
  ASSUME NEW d \in Seq(Letters), NEW e \in Seq(Letters), Whole(d \o e)
  PROVE  Whole(e)
<1> DEFINE f == d \o e
<1>1. /\ Len(f) = Len(d) + Len(e) /\ Len(d) \in Nat /\ Len(e) \in Nat
      /\ \A i \in 1 .. Len(e) : f[Len(d) + i] = e[i]
  BY Extended
<1>2. Whole(f)
  OBVIOUS
<1> HIDE DEF f
<1>3. ASSUME NEW i \in 1 .. Len(e), e[i].b = "A5"
      PROVE  i < Len(e) /\ e[i + 1].b = "5A"
  <2>1. Len(d) + i \in 1 .. Len(f) /\ f[Len(d) + i].b = "A5"
    BY <1>1, <1>3
  <2>2. Len(d) + i < Len(f) /\ f[(Len(d) + i) + 1].b = "5A"
    BY <1>2, <2>1 DEF Whole
  <2>3. i + 1 \in 1 .. Len(e) /\ (Len(d) + i) + 1 = Len(d) + (i + 1)
    BY <1>1, <1>3, <2>2
  <2>. QED
    BY <1>1, <1>3, <2>2, <2>3
<1>. QED
  BY <1>3 DEF Whole

\* The stages at which the client does not read.
LEMMA StagesStream ==
  ASSUME LinkInv, ControlInv, ReadInv, StreamInv,
         \/ \E call \in Made : Call(call)
         \/ OpenSerial \/ OpenTCP \/ Disable \/ Join \/ Tell \/ Create \/ GrabWoken \/ GrabTakes
         \/ CloseTCP \/ Destroy
  PROVE  StreamInv'
<1>. USE DEF platform, hal, channel, flags, ends
<1>1. /\ UNCHANGED <<kind, faults>>
      /\ client.rest = <<>> \/ Head(client.rest) \notin {"header", "payload"}
      /\ rd' = rd \/ rd' = [rd EXCEPT !["cacher"] = Reading("node")]
      /\ \/ rx' \in {rx, <<>>} /\ dev' = dev
         \/ rx' \in {rx, <<>>} /\ dev' = Silent /\ rx' = <<>>
         \/ rx' = rx /\ \E n : dev' = [dev EXCEPT !.streaming = @ /\ n < CommandSize]
  <2>1. ASSUME NEW call \in Made, Call(call)
        PROVE  UNCHANGED <<kind, faults, rd, rx, dev>> /\ client.rest = <<>>
    BY <2>1 DEF Call, Idle
  <2>2. CASE OpenSerial
    BY <2>2 DEF OpenSerial, At
  <2>3. CASE OpenTCP \/ Disable \/ Join \/ GrabWoken \/ GrabTakes
    BY <2>3 DEF OpenTCP, Disable, Join, GrabWoken, GrabTakes, At
  <2>4. CASE Tell
    BY <2>4 DEF Tell, At
  <2>5. CASE Create
    BY <2>5 DEF Create, At
  <2>6. CASE CloseTCP \/ Destroy
    BY <2>6 DEF CloseTCP, Destroy, At
  <2>. QED
    BY <2>1, <2>2, <2>3, <2>4, <2>5, <2>6
<1>2. /\ rd \in [Readers -> ReaderStates] /\ LineOK /\ dev \in Lines
      /\ rx \in Seq(Letters) /\ dev.line \in Seq(Letters)
  BY StreamType DEF ReadInv, Places
<1>3. rd'["client"] = out
  BY <1>1, <1>2, ClientOut DEF Readers
<1>4. dev'.gone = dev.gone /\ (dev'.line = dev.line \/ (dev'.line = <<>> /\ rx' = <<>>))
  <2>1. CASE dev' = dev
    BY <2>1
  <2>2. CASE dev' = Silent /\ rx' = <<>>
    BY <1>2, <2>2, SilentIs
  <2>3. ASSUME NEW n, dev' = [dev EXCEPT !.streaming = @ /\ n < CommandSize]
        PROVE  dev'.gone = dev.gone /\ dev'.line = dev.line
    BY <1>2, <2>3 DEF Lines
  <2>. QED
    BY <1>1, <2>1, <2>2, <2>3
<1>5. Stream' = Stream \/ Stream' = dev.line \/ Stream' = <<>>
  <2>1. <<>> \o dev.line = dev.line /\ <<>> \o <<>> = <<>>
    BY <1>2
  <2>2. CASE rx' = rx /\ dev'.line = dev.line
    BY <2>2 DEF Stream
  <2>3. CASE rx' = <<>>
    BY <1>4, <2>1, <2>3 DEF Stream
  <2>. QED
    BY <1>1, <1>4, <2>2, <2>3
<1>6. faults = 0 => Whole(Stream')
  <2>1. ASSUME faults = 0 PROVE Whole(Stream) /\ Whole(dev.line)
    BY <1>2, <2>1, BackWhole DEF StreamInv, Stream
  <2>. QED
    BY <1>5, <2>1, NothingBegins
<1>. QED
  BY <1>1, <1>3, <1>4, <1>6, OutStream

\* The others leave the client and the line alone.
LEMMA OthersStream ==
  ASSUME ReadInv, StreamInv,
         Grab \/ UseNull \/ JoinAgain \/ EventSteps \/ CacherStep \/ UNCHANGED vars
  PROVE  StreamInv'
<1>. USE DEF platform, hal, channel, flags, ends
<1>1. /\ UNCHANGED <<kind, rx, dev, answer, client, calls, faults>>
      /\ \/ rd' = rd \/ rd' = [rd EXCEPT !["cacher"] = out]
         \/ rd' = [rd EXCEPT !["cacher"] = Reading("node")]
  <2>1. CASE Grab \/ EventSteps
    BY <2>1 DEF Grab, EventSteps, linkVars
  <2>2. CASE UseNull \/ JoinAgain
    BY <2>2 DEF UseNull, JoinAgain, Crash
  <2>3. CASE CacherStep
    BY <2>3 DEF CacherStep, CacherDiscards, CacherTests, CacherReads, CacherEnds
  <2>4. CASE UNCHANGED vars
    BY <2>4 DEF vars, linkVars
  <2>. QED
    BY <2>1, <2>2, <2>3, <2>4
<1>2. rd \in [Readers -> ReaderStates] /\ LineOK
  BY DEF ReadInv, Places
<1>3. rd'["client"] = rd["client"]
  BY <1>1, <1>2 DEF Readers
<1>. QED
  BY <1>1, <1>2, <1>3, StillStream DEF Lingers, Stream

\* What an answer is made of.
LEMMA AnswerStep ==
  ASSUME LinkInv, ReadInv, AnswerOK, [Next]_vars
  PROVE  AnswerOK'
<1>. USE DEF platform, hal, channel, flags, ends
<1>1. NoAnswer \in [stale : BOOLEAN, heard : Nat, data : Seq(Letters)]
  <2>1. <<>> \in Seq(Letters)
    OBVIOUS
  <2>. QED
    BY <2>1 DEF NoAnswer
<1>2. ASSUME NEW call \in Made, Call(call) PROVE AnswerOK'
  BY <1>2 DEF Call, AnswerOK
<1>3. CASE OpenSerial \/ OpenTCP \/ Disable \/ Join \/ Tell \/ Create \/ GrabWoken \/ GrabTakes \/ CloseTCP
           \/ Destroy
  BY <1>3 DEF AnswerOK, OpenSerial, OpenTCP, Disable, Join, Tell, Create, GrabWoken, GrabTakes, CloseTCP, Destroy
<1>4. CASE Ask
  <2>1. \E old \in BOOLEAN : answer' = [NoAnswer EXCEPT !.stale = old]
    BY <1>4 DEF Ask
  <2>. QED
    BY <1>1, <2>1 DEF AnswerOK
<1>5. CASE Header
  <2>1. rd["client"].got.last.req \in Nat
    <3>1. rd["client"].got.last \in Letters \cup {Byte("none", 0)}
      BY DEF ReadInv, Places, Readers, ReaderStates, Parsers
    <3>. QED
      BY <3>1, LinkAssumption DEF Letters, Byte
  <2>2. answer' = NoAnswer \/ answer' = [answer EXCEPT !.heard = rd["client"].got.last.req]
    BY <1>5 DEF Header
  <2>. QED
    BY <1>1, <2>1, <2>2 DEF AnswerOK
<1>6. CASE PayloadRead
  BY <1>1, <1>6 DEF PayloadRead, AnswerOK
<1>7. CASE Grab \/ UseNull \/ JoinAgain \/ EventSteps \/ CacherStep \/ UNCHANGED vars
  BY <1>7 DEF Grab, UseNull, JoinAgain, EventSteps, CacherStep, CacherDiscards, CacherTests, CacherReads, Crash,
              vars, linkVars, AnswerOK
<1>8. ASSUME NEW r \in Readers, ReaderStep(r) \/ TimeOver(r) PROVE AnswerOK'
  <2>1. CASE TakeReader(r)
    <3>1. PICK n : Takes(r, n)
      BY <2>1, ReaderTakes
    <3>2. Taken(n) \in Seq(Letters)
      <4>1. rx \in Seq(Letters) /\ n \in 0 .. Missing(rd[r]) /\ n <= Len(rx)
        BY <3>1 DEF Takes, ReadInv, LineOK
      <4>2. SubSeq(rx, 1, n) \in Seq(Letters)
        BY <4>1
      <4>. QED
        BY <4>2 DEF Taken
    <3>3. answer' = answer \/ answer' = [answer EXCEPT !.data = Taken(n)]
      BY <3>1 DEF Takes
    <3>. QED
      BY <3>2, <3>3 DEF AnswerOK
  <2>2. CASE ~TakeReader(r)
    <3>1. answer' = answer
      BY <1>8, <2>2, ReadersTurn DEF ReaderStep, Beside
    <3>. QED
      BY <3>1 DEF AnswerOK
  <2>. QED
    BY <2>1, <2>2
<1>9. CASE Deliver \/ Measure \/ Stray \/ LineError \/ Unplug
  BY <1>9 DEF Deliver, Measure, Stray, LineError, Unplug, AnswerOK
<1>. QED
  BY <1>2, <1>3, <1>4, <1>5, <1>6, <1>7, <1>8, <1>9 DEF Next, ClientStep, Made

\* Every step keeps the exchange's invariant.
LEMMA StreamStep ==
  ASSUME LinkInv, ControlInv, ReadInv, StreamInv, AnswerOK, [Next]_vars
  PROVE  StreamInv'
<1>1. CASE (\E call \in Made : Call(call)) \/ EventSteps \/ CacherStep \/ UNCHANGED vars
  BY <1>1, StagesStream, OthersStream
<1>2. CASE ClientStep
  BY <1>2, StagesStream, OthersStream, AskStream, HeaderStream DEF ClientStep
<1>3. ASSUME NEW r \in Readers, ReaderStep(r) \/ TimeOver(r)
      PROVE  StreamInv'
  <2>1. CASE TakeReader(r)
    <3>1. UNCHANGED Besides /\ \E n : Takes(r, n)
      BY <2>1, ReaderTakes
    <3>. QED
      BY <3>1, ClientTakes, CacherTakes DEF Readers
  <2>2. CASE ~TakeReader(r)
    <3>1. UNCHANGED Beside /\ (rd' = rd \/ \E at, watch : Turn(r, at, watch))
      BY <1>3, <2>2, ReadersTurn DEF ReaderStep
    <3>. QED
      BY <3>1, TurnStream
  <2>. QED
    BY <2>1, <2>2
<1>4. CASE Deliver \/ Measure \/ Stray \/ LineError \/ Unplug
  BY <1>4, LineStream
<1>. QED
  BY <1>1, <1>2, <1>3, <1>4 DEF Next, Made

\* The driver as CreateDriver leaves it: nothing was asked.
LEMMA StreamInit == Init => StreamInv /\ AnswerOK
<1> SUFFICES ASSUME Init PROVE StreamInv /\ AnswerOK
  OBVIOUS
<1>1. /\ rd["client"] = out /\ faults = 0 /\ answer = NoAnswer
      /\ ~dev.gone /\ rx = <<>> /\ dev.line = <<>>
  BY DEF Init, Readers
<1>2. Stream = <<>> /\ <<>> \in Seq(Letters)
  BY <1>1 DEF Stream
<1>3. out.at = "out" /\ out.goal = "header" /\ ~out.got.missed
  BY DEF out
<1>4. Attends(rd["client"]) /\ Collects(rd["client"])
  BY <1>1, <1>3 DEF Attends, Collects, Busy, Waits
<1>. QED
  BY <1>1, <1>2, <1>3, <1>4, NothingBegins DEF StreamInv, AnswerOK, NoAnswer

\* An exchange that succeeds heard the answer to its own request and took its
\* payload, all of it on a serial port, and no header is passed over, as long
\* as there is no stray byte or error on the line and the device stays.
THEOREM ExchangesAreSound == Spec => []ExchangeSound
<1>1. ASSUME ReadInv, StreamInv PROVE ExchangeSound
  <2> DEFINE x == rd["client"]
  <2>1. CASE faults # 0
    BY <1>1, <2>1 DEF StreamInv, ExchangeSound
  <2>2. CASE faults = 0
    <3>1. ~x.got.missed /\ Collects(x) /\ AtStage(x)
      BY <1>1, <2>2 DEF StreamInv, ReadInv, Places
    <3>2. At("payload") /\ x.at = "ok" => x.goal = "payload"
      BY <3>1 DEF At, AtStage
    <3>. QED
      BY <3>1, <3>2 DEF ExchangeSound, Collects
  <2>. QED
    BY <2>1, <2>2
<1>2. Init => StreamInv /\ AnswerOK
  BY StreamInit
<1>3. LinkInv /\ ControlInv /\ ReadInv /\ StreamInv /\ AnswerOK /\ [Next]_vars => (StreamInv /\ AnswerOK)'
  BY StreamStep, AnswerStep
<1>. QED
  BY <1>1, <1>2, <1>3, ReadersInv, PTL DEF Spec
=============================================================================

------------------------- MODULE ScanSessionProofs -------------------------
(***************************************************************************)
(* The safety of ScanSession for every set of calls, every capacity and    *)
(* every link: IInv is inductive, and implies what the runs check.         *)
(***************************************************************************)
EXTENDS ScanSession, TLAPS

-----------------------------------------------------------------------------
(* The programs of the API calls.                                          *)

GrabStages == {"wait", "test", "consume"}

\* A program without grab stages, in which a join comes before everything
\* that needs the background thread gone.
JoinsFirst(s) ==
  /\ s \in Seq(Stages \ GrabStages)
  /\ \A i \in 1 .. Len(s) :
       s[i] \in Replies \cup {"close"} => \E j \in 1 .. i - 1 : s[j] = "join"

\* The same of one that does contain a join: anything may follow it.
Guards(s) == JoinsFirst(s) /\ \E j \in 1 .. Len(s) : s[j] = "join"

\* A guarding program stays one when any stages follow it.
LEMMA GuardsExtend ==
  ASSUME NEW s, NEW t, Guards(s), t \in Seq(Stages \ GrabStages)
  PROVE  Guards(s \o t)
<1> DEFINE st == s \o t
<1>1. s \in Seq(Stages \ GrabStages) BY DEF Guards, JoinsFirst
<1>2. st \in Seq(Stages \ GrabStages) /\ Len(st) = Len(s) + Len(t)
  BY <1>1
<1>3. \A i \in 1 .. Len(s) : st[i] = s[i]
  BY <1>1
<1>4. PICK k \in 1 .. Len(s) : s[k] = "join"
  BY DEF Guards
<1>5. st[k] = "join" /\ k \in 1 .. Len(st)
  BY <1>1, <1>2, <1>3, <1>4
<1>6. ASSUME NEW i \in 1 .. Len(st), st[i] \in Replies \cup {"close"}
      PROVE  \E j \in 1 .. i - 1 : st[j] = "join"
  <2>1. CASE i <= Len(s)
    <3>1. i \in 1 .. Len(s) /\ st[i] = s[i]
      BY <1>1, <1>3, <2>1
    <3>2. PICK j \in 1 .. i - 1 : s[j] = "join"
      BY <1>6, <3>1 DEF Guards, JoinsFirst
    <3>. QED BY <1>1, <1>3, <3>1, <3>2
  <2>2. CASE i > Len(s)
    BY <1>1, <1>2, <1>5, <1>4, <2>2
  <2>. QED BY <2>1, <2>2, <1>1, <1>2
<1>. QED BY <1>2, <1>5, <1>6 DEF Guards, JoinsFirst

\* A query joins the background thread before it reads its answer.
LEMMA QueryGuards == Guards(Query)
BY DEF Query, Disable, Guards, JoinsFirst, Stages, GrabStages, Replies

\* stop() joins the background thread, also where startScan calls it.
LEMMA StopGuards == Guards(Stop) /\ Guards(<<"check">> \o Stop)
BY DEF Stop, Disable, Guards, JoinsFirst, Stages, GrabStages, Replies

\* Every way to start a scan joins before it reads, and before it enters.
LEMMA StartGuards ==
  Guards(StartScanNormal) /\ Guards(StartScanExpress) /\ Guards(StartExpressLegacy)
<1>1. Guards(<<"check">> \o Stop \o <<"enter">>)
  BY StopGuards, GuardsExtend, <<"enter">> \in Seq(Stages \ GrabStages) DEF Stages, GrabStages
<1>2. Query \in Seq(Stages \ GrabStages)
  BY QueryGuards DEF Guards, JoinsFirst
<1>3. Guards(<<"check">> \o Stop \o Query)
  BY <1>2, StopGuards, GuardsExtend
<1>4. <<"probe", "enterExpress">> \in Seq(Stages \ GrabStages)
  BY DEF Stages, GrabStages
<1>5. Guards(<<"check">> \o Stop \o Query \o <<"probe", "enterExpress">>)
  BY <1>3, <1>4, GuardsExtend
<1>6. Guards(<<"check">> \o Stop \o Query \o <<"enterExpress">>)
  BY <1>3, GuardsExtend, <<"enterExpress">> \in Seq(Stages \ GrabStages) DEF Stages, GrabStages
<1>. QED BY <1>1, <1>5, <1>6 DEF StartScanNormal, StartScanExpress, StartExpressLegacy

\* Every API call but the grab joins the background thread before it needs
\* it gone, and the calls an unconnected driver accepts start no scan.
LEMMA ProgramsJoinFirst ==
  ASSUME NEW api \in DOMAIN Program, api # "grab"
  PROVE  /\ JoinsFirst(Program[api])
         /\ api \in {"connect", "interval", "intervalAll"} =>
              \A i \in 1 .. Len(Program[api]) :
                Program[api][i] \notin {"enter", "enterExpress"}
<1>. DEFINE Control == Seq(Stages \ GrabStages)
<1>1. ASSUME NEW s, Guards(s) PROVE JoinsFirst(s) /\ s \in Control
  BY <1>1 DEF Guards, JoinsFirst
<1>2. CASE api = "connect"
  BY <1>2 DEF Program, CheckMotorCtrlSupport, Motor, Disable, JoinsFirst, Stages, GrabStages, Replies
<1>3. CASE api = "query"
  BY <1>3, <1>1, QueryGuards DEF Program
<1>4. CASE api \in {"motor", "reset", "interval", "intervalAll"}
  <2>1. CASE api = "motor"
    BY <2>1 DEF Program, Motor, JoinsFirst, Stages, GrabStages, Replies
  <2>2. CASE api = "interval"
    BY <2>2 DEF Program, JoinsFirst, Stages, GrabStages, Replies
  <2>3. CASE api = "intervalAll"
    BY <2>3 DEF Program, JoinsFirst, Stages, GrabStages, Replies
  <2>4. CASE api = "reset"
    BY <2>4 DEF Program, Reset, JoinsFirst, Stages, GrabStages, Replies
  <2>. QED BY <1>4, <2>1, <2>2, <2>3, <2>4
<1>5. CASE api = "stop"
  BY <1>5, <1>1, StopGuards DEF Program
<1>6. CASE api = "startScanNormal"
  BY <1>6, <1>1, StartGuards DEF Program
<1>7. CASE api = "startScanExpress"
  BY <1>7, <1>1, StartGuards DEF Program
<1>8. CASE api = "startScan"
  <2>1. Guards(GetTypicalScanMode)
    BY QueryGuards, GuardsExtend, <<"exchange">> \in Control
    DEF GetTypicalScanMode, Stages, GrabStages
  <2>2. Guards(Query \o GetTypicalScanMode)
    BY <2>1, <1>1, QueryGuards, GuardsExtend
  <2>3. Guards(Query \o GetTypicalScanMode \o StartScanExpress)
    BY <2>2, <1>1, StartGuards, GuardsExtend
  <2>. QED BY <1>8, <1>1, <2>3 DEF Program
<1>s. GetSampleDuration \in Control /\ SampleDuration("exchange") \in Control
  BY DEF GetSampleDuration, SampleDuration, Disable, Stages, GrabStages
<1>x. Guards(CheckExpressScanSupported)
  BY <1>s, QueryGuards, GuardsExtend DEF CheckExpressScanSupported
<1>9. CASE api = "startScan17"
  <2>3. Guards(Query \o CheckExpressScanSupported)
    BY <1>x, <1>1, QueryGuards, GuardsExtend
  <2>4. Guards(Query \o CheckExpressScanSupported \o StartExpressLegacy)
    BY <2>3, <1>1, StartGuards, GuardsExtend
  <2>. QED BY <1>9, <1>1, <2>4 DEF Program
<1>11. CASE api = "startScanOld"
  <2>1. Guards(Query \o Query)
    BY <1>1, QueryGuards, GuardsExtend
  <2>2. Guards(Query \o Query \o StartScanNormal)
    BY <2>1, <1>1, StartGuards, GuardsExtend
  <2>. QED BY <1>11, <1>1, <2>2 DEF Program
<1>12. CASE api = "modes"
  <2>1. <<"exchange">> \in Control /\ ScanModeConf \in Control
    BY DEF ScanModeConf, Stages, GrabStages
  <2>2. Guards(Query \o <<"exchange">>)
    BY <2>1, QueryGuards, GuardsExtend
  <2>3. Guards(Query \o <<"exchange">> \o ScanModeConf)
    BY <2>1, <2>2, GuardsExtend
  <2>. QED BY <1>12, <1>1, <2>3 DEF Program, GetAllSupportedScanModes
<1>13. CASE api = "modesOld"
  <2>1. Guards(Query \o SampleDuration("exchange"))
    BY <1>s, QueryGuards, GuardsExtend
  <2>2. Guards(Query \o SampleDuration("exchange") \o CheckExpressScanSupported)
    BY <2>1, <1>x, <1>1, GuardsExtend
  <2>. QED BY <1>13, <1>1, <2>2 DEF Program, AllSupportedLegacy
<1>10. CASE api = "delete"
  <2>1. Guards(Stop \o <<"close">>)
    BY StopGuards, GuardsExtend, <<"close">> \in Control DEF Stages, GrabStages
  <2>. QED BY <1>10, <1>1, <2>1 DEF Program
<1>. QED
  BY <1>2, <1>3, <1>4, <1>5, <1>6, <1>7, <1>8, <1>9, <1>10, <1>11,
     <1>12, <1>13 DEF Program

-----------------------------------------------------------------------------
(* The inductive invariant holds at first.                                 *)

\* The empty sequence is a sequence over any set.
LEMMA EmptySeq == \A S : <<>> \in Seq(S) /\ Len(<<>>) = 0
OBVIOUS

\* What the calls return is a result.
LEMMA ResultTypes ==
  /\ NoRes \in Results
  /\ \A c \in Codes : Result(c) \in Results
  /\ \A c \in Codes, m, n \in Nat, e \in BOOLEAN : GrabResult(c, m, n, e) \in Results
  /\ \A c \in Codes, m, n \in Nat : IntervalResult(c, m, n) \in Results
  /\ \A r \in Results, c \in Codes : [r EXCEPT !.code = c] \in Results
<1>. "OK" \in Codes
  BY DEF Codes
<1>. QED BY DEF NoRes, Result, GrabResult, IntervalResult, Results

\* A measurement to come is a node, and the stream stays in its bounds.
LEMMA WireTypes ==
  ASSUME wire \in Wire, NEW n \in Nat
  PROVE  NodeAt(n) \in Node /\ (WireSkips(n) => wire' \in Wire)
<1>. USE SizesAssumption
<1>1. \A k \in Nat : k % Revs \in 0 .. Revs - 1 /\ k % RevLen \in 0 .. RevLen - 1
  OBVIOUS
<1>2. \A k \in Nat : k \div RevLen \in Nat
  OBVIOUS
<1>3. wire.rev \in Nat /\ wire.idx \in Nat
  BY DEF Wire
<1>0. \A a, b \in Nat : a + b \in Nat
  OBVIOUS
<1>4. wire.idx + n \in Nat
  BY <1>0, <1>3, Zenon
<1>7. wire.rev + (wire.idx + n) \div RevLen \in Nat
  BY <1>0, <1>2, <1>3, <1>4, Zenon
<1>5. /\ (wire.rev + (wire.idx + n) \div RevLen) % Revs \in 0 .. Revs - 1
      /\ (wire.idx + n) % RevLen \in 0 .. RevLen - 1
  BY <1>1, <1>4, <1>7, Zenon
<1>6. NodeAt(n) \in Node
  <2>1. NodeAt(n).rev \in 0 .. Revs - 1
    BY <1>5 DEF NodeAt
  <2>2. NodeAt(n) = [rev |-> NodeAt(n).rev, sync |-> (wire.idx + n) % RevLen = 0]
    BY DEF NodeAt
  <2>3. ((wire.idx + n) % RevLen = 0) \in BOOLEAN
    BY Zenon
  <2>4. \A r \in 0 .. Revs - 1, b \in BOOLEAN : [rev |-> r, sync |-> b] \in Node
    BY Zenon DEF Node
  <2>5. [rev |-> NodeAt(n).rev, sync |-> (wire.idx + n) % RevLen = 0] \in Node
    BY <2>1, <2>3, <2>4, Zenon
  <2>. QED BY <2>2, <2>5, Zenon
<1>. QED BY <1>5, <1>6 DEF WireSkips, Wire

\* The driver just allocated satisfies the invariant.
LEMMA InitIInv == Init => IInv
<1>. SUFFICES ASSUME Init PROVE IInv
  OBVIOUS
<1>. USE SizesAssumption
<1>1. TypeOK
  <2>1. NoStack \in [1 .. BatchMax -> Node]
    BY DEF NoStack, Node
  <2>2. [rev |-> 0, idx |-> 0] \in Wire
    BY DEF Wire
  <2>3. scan \in Seq(Node) /\ Len(scan) < ScanCap
    BY EmptySeq DEF Init
  <2>4. limit \in 1 .. BatchMax /\ got \in 0 .. limit - 1 /\ pos \in 1 .. limit
    BY DEF Init
  <2>5. rest \in Seq(Stages) /\ nodebuffer \in Seq(Node) /\ cached \in Seq(Node)
    BY EmptySeq DEF Init
  <2>6. res \in Results /\ buf \in [1 .. BatchMax -> Node] /\ wire \in Wire
        /\ decoder = "nodes"
    BY <2>1, <2>2, ResultTypes DEF Init
  <2>7. /\ isConnected \in BOOLEAN /\ isScanning \in BOOLEAN /\ handle \in BOOLEAN
        /\ lock = "none" /\ dataEvt \in BOOLEAN /\ cpc = "none"
    BY Zenon DEF Init
  <2>8. interval \in 0 .. IntervalCap - 1
    BY DEF Init
  <2>. QED BY <2>3, <2>4, <2>5, <2>6, <2>7, <2>8 DEF TypeOK
<1>2. LockHeld /\ ThreadOwned /\ GrabReturned
  BY DEF Init, LockHeld, ThreadOwned, GrabReturned
<1>3. JoinedFirst /\ EnterConnected /\ GrabShape
  BY DEF Init, JoinedFirst, EnterConnected, GrabShape
<1>4. NoLostWakeup /\ ScanOpen /\ PublishedScan /\ GrabbedScan
  BY DEF Init, NoLostWakeup, ScanOpen, PublishedScan, GrabbedScan, NoRes
<1>. QED BY <1>1, <1>2, <1>3, <1>4 DEF IInv

-----------------------------------------------------------------------------
(* Type correctness, one step per action.                                  *)

\* No step leaves the types.
LEMMA TypeStep == TypeOK /\ [Next]_vars => TypeOK'
<1>. SUFFICES ASSUME TypeOK, [Next]_vars PROVE TypeOK'
  OBVIOUS
<1>. USE SizesAssumption DEF TypeOK, client, shared, cache
<1>0. UNCHANGED vars => TypeOK'
  BY DEF vars
<1>1. ASSUME NEW api \in Calls, Call(api) PROVE TypeOK'
  <2>1. Program[api] \in Seq(Stages)
    <3>1. CASE api = "grab"
      BY <3>1 DEF Program, Stages
    <3>2. CASE api # "grab"
      BY <3>2, CallsAssumption, ProgramsJoinFirst DEF JoinsFirst
    <3>. QED BY <3>1, <3>2
  <2>. QED BY <1>1, <2>1, EmptySeq, ResultTypes DEF Call
<1>c. ASSUME rest # <<>>, Continue PROVE rest' \in Seq(Stages) /\ res' \in Results
  BY <1>c DEF Continue
<1>r. ASSUME NEW r \in Results, Return(r) PROVE rest' \in Seq(Stages) /\ res' \in Results
  BY <1>r DEF Return
<1>k. {"OK", "ALREADY_DONE", "TIMEOUT", "FAIL", "REMAINING"} \subseteq Codes
  BY DEF Codes
<1>2. ASSUME AcquireLock PROVE TypeOK'
  BY <1>2 DEF AcquireLock
<1>3. ASSUME CommandDone PROVE TypeOK'
  BY <1>3, <1>c, <1>r, <1>k, ResultTypes DEF CommandDone, Advance, At
<1>4. ASSUME CommandFail PROVE TypeOK'
  BY <1>4, <1>r, <1>k, ResultTypes DEF CommandFail
<1>5. ASSUME OpenDone PROVE TypeOK'
  BY <1>5, <1>c DEF OpenDone, At
<1>6. ASSUME DisableScanning PROVE TypeOK'
  BY <1>6, <1>c DEF DisableScanning, At
<1>7. ASSUME Join PROVE TypeOK'
  <2>1. NoStack \in [1 .. BatchMax -> Node]
    BY DEF NoStack, Node
  <2>2. CASE handle
    <3>1. rest' \in Seq(Stages) /\ res' \in Results
      BY <1>7, <1>c DEF Join, At
    <3>2. scan' = <<>> /\ buf' = NoStack /\ limit' = BatchMax /\ cpc' = "none"
          /\ decoder' = "nodes"
      BY <1>7, <2>2 DEF Join
    <3>3. scan' \in Seq(Node) /\ Len(scan') < ScanCap
      BY <3>2, EmptySeq
    <3>4. limit' \in 1 .. BatchMax /\ got' \in 0 .. limit' - 1 /\ pos' \in 1 .. limit'
      BY <1>7, <3>2 DEF Join
    <3>. QED BY <1>7, <2>1, <2>2, <3>1, <3>2, <3>3, <3>4 DEF Join
  <2>3. CASE ~handle
    BY <1>7, <1>c, <2>3 DEF Join, At
  <2>. QED BY <2>2, <2>3
<1>8. ASSUME CheckScanning PROVE TypeOK'
  BY <1>8, <1>c, <1>r, <1>k, ResultTypes DEF CheckScanning, At
<1>9. ASSUME EnterScan PROVE TypeOK'
  <2>1. limit' \in 1 .. BatchMax /\ got' \in 0 .. limit' - 1 /\ pos' \in 1 .. limit'
    BY <1>9 DEF EnterScan
  <2>2. scan' \in Seq(Node) /\ Len(scan') < ScanCap
    BY <1>9 DEF EnterScan
  <2>3. buf' \in [1 .. BatchMax -> Node] /\ decoder' \in {"nodes", "first", "held", "hq"}
    <3>1. NoStack \in [1 .. BatchMax -> Node]
      BY DEF NoStack, Node
    <3>2. CASE At("enter")
      BY <1>9, <3>2 DEF EnterScan, At
    <3>3. CASE ~At("enter")
      BY <1>9, <3>1, <3>3 DEF EnterScan
    <3>. QED BY <3>2, <3>3
  <2>. QED BY <1>9, <1>r, <1>k, ResultTypes, <2>1, <2>2, <2>3 DEF EnterScan
<1>10. ASSUME EnterWithoutThread PROVE TypeOK'
  BY <1>10, <1>r, <1>k, ResultTypes DEF EnterWithoutThread
<1>11. ASSUME Close PROVE TypeOK'
  <2>1. rest' \in Seq(Stages) /\ res' \in Results
    BY <1>11, <1>r, ResultTypes DEF Close
  <2>2. cached' \in Seq(Node) /\ interval' \in 0 .. IntervalCap - 1
    BY <1>11, EmptySeq DEF Close
  <2>. QED BY <1>11, <2>1, <2>2 DEF Close
<1>12. ASSUME WaitElapses PROVE TypeOK'
  BY <1>12, <1>r, <1>k, ResultTypes DEF WaitElapses
<1>13. ASSUME WaitSignalled PROVE TypeOK'
  BY <1>13, <1>c DEF WaitSignalled, At
<1>14. ASSUME TestCached PROVE TypeOK'
  <2>1. GrabResult("TIMEOUT", ClientCap, 0, FALSE) \in Results
    BY <1>k, ResultTypes
  <2>2. rest' \in Seq(Stages) /\ res' \in Results
    BY <1>14, <1>c, <1>r, <2>1 DEF TestCached, At
  <2>. QED BY <1>14, <2>2 DEF TestCached
<1>15. ASSUME Consume PROVE TypeOK'
  <2>. DEFINE k == Smaller(ClientCap, Len(cached))
  <2>1. k \in Nat /\ k <= Len(cached)
    BY DEF Smaller
  <2>2. nodebuffer' \in Seq(Node)
    BY <1>15, <2>1 DEF Consume
  <2>3. GrabResult("OK", k, k, FALSE) \in Results
    BY <1>k, ResultTypes, <2>1
  <2>4. Return(GrabResult("OK", k, k, FALSE))
    BY <1>15 DEF Consume
  <2>. QED BY <1>15, <1>r, <2>2, <2>3, <2>4, EmptySeq DEF Consume
<1>16. ASSUME IntervalScanning PROVE TypeOK'
  <2>1. rest' \in Seq(Stages)
    <3>1. Tail(rest) \in Seq(Stages)
      BY <1>16 DEF IntervalScanning, At
    <3>2. <<"remaining">> \in Seq(Stages)
      BY DEF Stages
    <3>. QED BY <1>16, <3>1, <3>2 DEF IntervalScanning
  <2>2. res' \in Results
    BY <1>16, <1>k, ResultTypes DEF IntervalScanning
  <2>. QED BY <1>16, <2>1, <2>2 DEF IntervalScanning
<1>17. ASSUME IntervalShift PROVE TypeOK'
  <2>1. CASE interval = 0
    BY <1>17, <2>1, <1>r, <1>k, ResultTypes DEF IntervalShift
  <2>2. CASE interval # 0
    <3>. DEFINE k == Smaller(interval, ClientCap)
    <3>1. k \in Nat /\ k <= interval
      BY DEF Smaller
    <3>2. rest' = Tail(rest) /\ interval' = interval - k /\ res' = IntervalResult("OK", k, k)
      BY <1>17, <2>2 DEF IntervalShift
    <3>4. rest' \in Seq(Stages)
      BY <1>17, <3>2 DEF IntervalShift, At
    <3>3. res' \in Results
      BY <3>1, <3>2, <1>k, ResultTypes
    <3>. QED BY <1>17, <3>1, <3>2, <3>3, <3>4 DEF IntervalShift
  <2>. QED BY <2>1, <2>2
<1>18. ASSUME IntervalRemaining PROVE TypeOK'
  <2>1. Return([res EXCEPT !.code = IF interval > 0 THEN "REMAINING" ELSE "OK"])
    BY <1>18 DEF IntervalRemaining
  <2>2. [res EXCEPT !.code = IF interval > 0 THEN "REMAINING" ELSE "OK"] \in Results
    BY <1>k, ResultTypes
  <2>. QED BY <1>18, <1>r, <2>1, <2>2 DEF IntervalRemaining
<1>19. ASSUME IntervalDrain PROVE TypeOK'
  <2>1. rest' \in Seq(Stages) /\ res' \in Results
    BY <1>19, <1>r, <1>k, ResultTypes DEF IntervalDrain
  <2>. QED BY <1>19, <2>1 DEF IntervalDrain
<1>20. ASSUME ReceiveNode PROVE TypeOK'
  <2>1. wire' \in Wire
    BY <1>20, WireTypes DEF ReceiveNode
  <2>2. buf' \in [1 .. BatchMax -> Node]
    BY <1>20, WireTypes DEF ReceiveNode
  <2>. QED BY <1>20, <2>1, <2>2 DEF ReceiveNode, BatchReady, Receiving
<1>21. ASSUME LoseNode PROVE TypeOK'
  BY <1>21, WireTypes DEF LoseNode
<1>22. ASSUME BatchExpires PROVE TypeOK'
  BY <1>22 DEF BatchExpires, BatchReady
<1>23. ASSUME BatchJunk PROVE TypeOK'
  BY <1>23 DEF BatchJunk, BatchReady
<1>24. ASSUME LinkSilent PROVE TypeOK'
  <2>1. CASE cpc = "discard"
    BY <1>24, <2>1 DEF LinkSilent, BatchReady
  <2>2. CASE cpc # "discard"
    <3>1. cpc' = "exited" /\ isScanning' = FALSE /\ got' = 0 /\ pos' = pos
      BY <1>24, <2>2 DEF LinkSilent
    <3>2. UNCHANGED <<client, isConnected, handle, lock, dataEvt, cached, interval,
                      buf, limit, scan, decoder, wire>>
      BY <1>24 DEF LinkSilent
    <3>3. got' \in 0 .. limit' - 1 /\ pos' \in 1 .. limit' /\ limit' \in 1 .. BatchMax
      BY <3>1, <3>2
    <3>4. interval' \in 0 .. IntervalCap - 1 /\ scan' \in Seq(Node) /\ Len(scan') < ScanCap
      BY <3>2
    <3>5. isScanning' \in BOOLEAN
      BY <3>1, Zenon
    <3>. QED BY <3>1, <3>2, <3>3, <3>4, <3>5
  <2>. QED BY <2>1, <2>2
<1>25. ASSUME CacheLoop PROVE TypeOK'
  BY <1>25 DEF CacheLoop
<1>26. ASSUME Assemble PROVE TypeOK'
  BY <1>26 DEF Assemble, AppendCapped
<1>27. ASSUME Publish PROVE TypeOK'
  BY <1>27 DEF Publish
<1>28. ASSUME Signal PROVE TypeOK'
  BY <1>28 DEF Signal
<1>29. ASSUME KeepInterval PROVE TypeOK'
  BY <1>29 DEF KeepInterval, Smaller
<1>30. ASSUME DiscardCapsule PROVE TypeOK'
  <2>1. wire' \in Wire
    BY <1>30, WireTypes DEF DiscardCapsule
  <2>. QED BY <1>30, <2>1 DEF DiscardCapsule
<1>31. ASSUME HoldCapsule PROVE TypeOK'
  BY <1>31 DEF HoldCapsule
<1>32. ASSUME DecodeCapsule PROVE TypeOK'
  <2>1. PICK starts \in Starts :
          buf' = [i \in 1 .. BatchMax |-> [rev |-> NodeAt(i - 1).rev, sync |-> starts[i]]]
    BY <1>32 DEF DecodeCapsule
  <2>2. \A i \in 1 .. BatchMax : NodeAt(i - 1) \in Node
    BY WireTypes
  <2>3. ASSUME NEW i \in 1 .. BatchMax PROVE starts[i] \in BOOLEAN
    <3>1. NodeAt(i - 1).sync \in BOOLEAN
      BY <2>2, Zenon DEF Node
    <3>2. CASE starts = [j \in 1 .. BatchMax |-> NodeAt(j - 1).sync]
      BY <3>1, <3>2, Zenon
    <3>3. CASE \E late \in BOOLEAN : starts = [j \in 1 .. BatchMax |-> j = 1 /\ late]
      BY <3>3, Zenon
    <3>. QED BY <3>2, <3>3, Zenon DEF Starts
  <2>4. ASSUME NEW i \in 1 .. BatchMax
        PROVE  [rev |-> NodeAt(i - 1).rev, sync |-> starts[i]] \in Node
    <3>1. NodeAt(i - 1).rev \in 0 .. Revs - 1
      BY <2>2 DEF Node
    <3>. QED BY <2>3, <3>1, Zenon DEF Node
  <2>5. buf' \in [1 .. BatchMax -> Node]
    BY <2>1, <2>4
  <2>6. wire' \in Wire
    BY <1>32, WireTypes DEF DecodeCapsule
  <2>. QED BY <1>32, <2>5, <2>6 DEF DecodeCapsule
<1>33. ASSUME DamageCapsule PROVE TypeOK'
  <2>1. wire' \in Wire
    <3>1. (IF decoder = "held" THEN 2 * BatchMax ELSE BatchMax) \in Nat
      OBVIOUS
    <3>. QED BY <1>33, <3>1, WireTypes DEF DamageCapsule
  <2>. QED BY <1>33, <2>1 DEF DamageCapsule
<1>34. ASSUME AwaitCapsule PROVE TypeOK'
  BY <1>34 DEF AwaitCapsule
<1>. QED
  BY <1>0, <1>1, <1>2, <1>3, <1>4, <1>5, <1>6, <1>7, <1>8, <1>9, <1>10, <1>11, <1>12,
     <1>13, <1>14, <1>15, <1>16, <1>17, <1>18, <1>19, <1>20, <1>21, <1>22, <1>23,
     <1>24, <1>25, <1>26, <1>27, <1>28, <1>29, <1>30, <1>31, <1>32, <1>33, <1>34
     DEF Next, ClientStep, ClientLocks, CacheStep, CacheLocks, ReceiveReturns

-----------------------------------------------------------------------------
(* How the stages of a call go by.                                         *)

\* An API call goes on with its next stage.
LEMMA Continued ==
  ASSUME rest \in Seq(Stages), rest # <<>>, rest' = Tail(rest)
  PROVE  /\ Len(rest') = Len(rest) - 1
         /\ \A i \in 1 .. Len(rest') : rest'[i] = rest[i + 1]
         /\ Head(rest) = rest[1] /\ Len(rest) \in Nat \ {0}
OBVIOUS

\* The order of the stages left outlives a stage that is not the join, and
\* the end of the call.
LEMMA OrderContinues ==
  ASSUME rest \in Seq(Stages), rest # <<>>, rest' = Tail(rest), Head(rest) # "join",
         JoinedFirst, cpc' = cpc
  PROVE  JoinedFirst'
<1>. SUFFICES ASSUME NEW i \in 1 .. Len(rest'), rest'[i] \in Replies \cup {"close"},
                     cpc # "none"
              PROVE  \E j \in 1 .. i - 1 : rest'[j] = "join"
  BY DEF JoinedFirst
<1>1. i + 1 \in 1 .. Len(rest) /\ rest[i + 1] \in Replies \cup {"close"}
  BY Continued
<1>2. PICK j \in 1 .. (i + 1) - 1 : rest[j] = "join"
  BY <1>1 DEF JoinedFirst
<1>3. j # 1
  BY <1>2, Continued
<1>4. j - 1 \in 1 .. i - 1 /\ rest'[j - 1] = "join"
  BY <1>2, <1>3, Continued
<1>. QED BY <1>4

\* A stage that leaves the connection alone keeps EnterConnected.
LEMMA EnterContinues ==
  ASSUME rest \in Seq(Stages), rest # <<>>, rest' = Tail(rest), EnterConnected,
         isConnected => isConnected'
  PROVE  EnterConnected'
BY Continued DEF EnterConnected

\* The stages of a grab keep their order when another stage is done.
LEMMA GrabContinues ==
  ASSUME rest \in Seq(Stages), rest # <<>>, rest' = Tail(rest), GrabShape,
         Head(rest) = "test" => cached' # <<>>
  PROVE  GrabShape'
<1>. SUFFICES ASSUME NEW i \in 1 .. Len(rest')
              PROVE  /\ rest'[i] = "wait" => i < Len(rest') /\ rest'[i + 1] = "test"
                     /\ rest'[i] = "test" => i < Len(rest') /\ rest'[i + 1] = "consume"
                     /\ rest'[i] = "consume" =>
                          IF i = 1 THEN cached' # <<>> ELSE rest'[i - 1] = "test"
  BY DEF GrabShape
<1>1. i + 1 \in 1 .. Len(rest) /\ rest'[i] = rest[i + 1]
  BY Continued
<1>2. \A j \in 1 .. Len(rest) - 1 : rest'[j] = rest[j + 1]
  BY Continued
<1>. QED BY <1>1, <1>2, Continued DEF GrabShape

\* A call that returns leaves no stages to order.
LEMMA Returned ==
  ASSUME NEW r, Return(r)
  PROVE  JoinedFirst' /\ EnterConnected' /\ GrabShape' /\ GrabReturned'
<1>1. rest' = <<>> /\ Len(rest') = 0
  BY EmptySeq DEF Return
<1>. QED BY <1>1 DEF JoinedFirst, EnterConnected, GrabShape, GrabReturned

\* A call begins with the program of the API.
LEMMA CallBegins ==
  ASSUME NEW api \in Calls, Call(api)
  PROVE  JoinedFirst' /\ EnterConnected' /\ GrabShape' /\ GrabReturned'
<1>0. GrabReturned'
  BY DEF Call, NoRes, GrabReturned
<1>1. api \in DOMAIN Program /\ rest' = Program[api] /\ isConnected' = isConnected
  BY CallsAssumption DEF Call, shared
<1>2. CASE api = "grab"
  <2>1. rest' = <<"wait", "test", "consume">>
    BY <1>1, <1>2 DEF Program
  <2>2. /\ Len(rest') = 3 /\ rest'[1] = "wait" /\ rest'[2] = "test" /\ rest'[3] = "consume"
        /\ \A i \in 1 .. Len(rest') : i = 1 \/ i = 2 \/ i = 3
    BY <2>1
  <2>. QED BY <1>0, <2>2 DEF JoinedFirst, EnterConnected, GrabShape, Replies
<1>3. CASE api # "grab"
  <2>1. JoinsFirst(rest')
    BY <1>1, <1>3, ProgramsJoinFirst
  <2>2. JoinedFirst'
    BY <2>1 DEF JoinsFirst, JoinedFirst
  <2>3. GrabShape'
    BY <2>1 DEF JoinsFirst, GrabShape, GrabStages
  <2>4. EnterConnected'
    <3>1. CASE isConnected
      BY <3>1, <1>1 DEF EnterConnected
    <3>2. CASE ~isConnected
      <4>1. api \in {"connect", "interval", "intervalAll"}
        BY <3>2, <1>3 DEF Call
      <4>. QED BY <4>1, <1>1, <1>3, ProgramsJoinFirst DEF EnterConnected
    <3>. QED BY <3>1, <3>2
  <2>. QED BY <1>0, <2>2, <2>3, <2>4
<1>. QED BY <1>2, <1>3

-----------------------------------------------------------------------------
(* The order of the stages, the lock and the thread, one step per action.  *)

Order == JoinedFirst /\ EnterConnected /\ GrabShape /\ GrabReturned

\* No step disturbs the order of the stages that are left.
LEMMA OrderStep ==
  ASSUME TypeOK, LockHeld, ThreadOwned, Order, Next
  PROVE  Order'
<1>. USE DEF TypeOK, shared, cache
<1>c. ASSUME rest # <<>>, rest' = Tail(rest), Head(rest) \notin {"join", "test"}, cpc' = cpc,
             isConnected => isConnected', res' = res \/ res'.api = "interval"
      PROVE  Order'
  BY <1>c, OrderContinues, EnterContinues, GrabContinues DEF Order, GrabReturned
<1>r. ASSUME NEW r, Return(r) PROVE Order'
  BY <1>r, Returned DEF Order
<1>u. ASSUME UNCHANGED <<rest, res, isConnected, cached>>, cpc = "none" => cpc' = "none"
      PROVE  Order'
  BY <1>u DEF Order, JoinedFirst, EnterConnected, GrabShape, GrabReturned
<1>1. ASSUME NEW api \in Calls, Call(api) PROVE Order'
  BY <1>1, CallBegins DEF Order
<1>2. CASE AcquireLock
  BY <1>2, <1>u DEF AcquireLock, client
<1>3. CASE CommandDone
  <2>1. CASE Len(rest) > 1
    BY <1>3, <2>1, <1>c DEF CommandDone, Advance, Continue, At
  <2>2. CASE ~(Len(rest) > 1)
    BY <1>3, <2>2, <1>r DEF CommandDone, Advance
  <2>. QED BY <2>1, <2>2
<1>4. CASE CommandFail
  BY <1>4, <1>r DEF CommandFail
<1>5. CASE OpenDone
  BY <1>5, <1>c DEF OpenDone, Continue, At
<1>6. CASE DisableScanning
  BY <1>6, <1>c DEF DisableScanning, Continue, At
<1>7. CASE Join
  <2>1. cpc' = "none"
    BY <1>7 DEF Join, ThreadOwned
  <2>2. rest # <<>> /\ rest' = Tail(rest) /\ res' = res /\ Head(rest) # "test"
        /\ isConnected' = isConnected
    BY <1>7 DEF Join, Continue, At
  <2>3. JoinedFirst'
    BY <2>1 DEF JoinedFirst
  <2>. QED BY <2>2, <2>3, Continued, EnterContinues, GrabContinues DEF Order, GrabReturned
<1>8. CASE CheckScanning
  <2>1. CASE isScanning
    BY <1>8, <2>1, <1>r DEF CheckScanning
  <2>2. CASE ~isScanning
    BY <1>8, <2>2, <1>c DEF CheckScanning, Continue, At
  <2>. QED BY <2>1, <2>2
<1>9. CASE EnterScan
  BY <1>9, <1>r DEF EnterScan
<1>10. CASE EnterWithoutThread
  BY <1>10, <1>r DEF EnterWithoutThread
<1>11. CASE Close
  BY <1>11, <1>r DEF Close
<1>12. CASE WaitElapses
  BY <1>12, <1>r DEF WaitElapses
<1>13. CASE WaitSignalled
  BY <1>13, <1>c DEF WaitSignalled, Continue, At
<1>14. CASE TestCached
  <2>1. CASE cached = <<>>
    BY <1>14, <2>1, <1>r DEF TestCached
  <2>2. CASE cached # <<>>
    <3>1. rest # <<>> /\ rest' = Tail(rest) /\ res' = res /\ Head(rest) # "join"
          /\ cpc' = cpc /\ isConnected' = isConnected /\ cached' # <<>>
      BY <1>14, <2>2 DEF TestCached, Continue, At
    <3>. QED BY <3>1, Continued, OrderContinues, EnterContinues, GrabContinues DEF Order, GrabReturned
  <2>. QED BY <2>1, <2>2
<1>15. CASE Consume
  BY <1>15, <1>r DEF Consume
<1>16. CASE IntervalScanning
  <2>0. res'.api = "interval"
    BY <1>16 DEF IntervalScanning, IntervalResult
  <2>1. CASE isScanning
    BY <1>16, <2>0, <2>1, <1>c DEF IntervalScanning, At
  <2>2. CASE ~isScanning
    <3>1. rest' = <<"remaining">>
      BY <1>16, <2>2 DEF IntervalScanning
    <3>2. Len(rest') = 1 /\ \A i \in 1 .. Len(rest') : rest'[i] = "remaining"
      BY <3>1
    <3>. QED
      BY <2>0, <3>2 DEF Order, JoinedFirst, EnterConnected, GrabShape, GrabReturned, Replies
  <2>. QED BY <2>1, <2>2
<1>17. CASE IntervalShift
  <2>1. CASE interval = 0
    BY <1>17, <2>1, <1>r DEF IntervalShift
  <2>2. CASE interval # 0
    BY <1>17, <2>2, <1>c DEF IntervalShift, IntervalResult, At
  <2>. QED BY <2>1, <2>2
<1>18. CASE IntervalRemaining
  BY <1>18, <1>r DEF IntervalRemaining
<1>19. CASE IntervalDrain
  <2>1. CASE interval = 0
    BY <1>19, <2>1, <1>r DEF IntervalDrain
  <2>2. CASE interval # 0
    BY <1>19, <2>2, <1>r DEF IntervalDrain
  <2>. QED BY <2>1, <2>2
<1>20. CASE ReceiveNode
  BY <1>20, <1>u DEF ReceiveNode, BatchReady, Receiving, client
<1>21. CASE LoseNode
  BY <1>21, <1>u DEF LoseNode, client
<1>22. CASE BatchExpires
  BY <1>22, <1>u DEF BatchExpires, BatchReady, Receiving, client
<1>23. CASE BatchJunk
  BY <1>23, <1>u DEF BatchJunk, BatchReady, Receiving, client
<1>24. CASE LinkSilent
  BY <1>24, <1>u DEF LinkSilent, BatchReady, Receiving, client
<1>25. CASE CacheLoop
  BY <1>25, <1>u DEF CacheLoop, client
<1>26. CASE Assemble
  BY <1>26, <1>u DEF Assemble, client
<1>27. CASE Publish
  <2>1. UNCHANGED <<rest, res, isConnected>> /\ cpc' # "none" /\ cpc # "none" /\ cached' # <<>>
    BY <1>27 DEF Publish, Complete, client
  <2>. QED BY <2>1 DEF Order, JoinedFirst, EnterConnected, GrabShape, GrabReturned
<1>28. CASE Signal
  BY <1>28, <1>u DEF Signal, client
<1>29. CASE KeepInterval
  BY <1>29, <1>u DEF KeepInterval, client
<1>30. CASE DiscardCapsule
  BY <1>30, <1>u DEF DiscardCapsule, Capsules, client
<1>31. CASE HoldCapsule
  BY <1>31, <1>u DEF HoldCapsule, Capsules, client
<1>32. CASE DecodeCapsule
  BY <1>32, <1>u DEF DecodeCapsule, Capsules, client
<1>33. CASE DamageCapsule
  BY <1>33, <1>u DEF DamageCapsule, Capsules, client
<1>34. CASE AwaitCapsule
  BY <1>34, <1>u DEF AwaitCapsule, Capsules, client
<1>. QED
  BY <1>1, <1>2, <1>3, <1>4, <1>5, <1>6, <1>7, <1>8, <1>9, <1>10, <1>11, <1>12,
     <1>13, <1>14, <1>15, <1>16, <1>17, <1>18, <1>19, <1>20, <1>21, <1>22, <1>23,
     <1>24, <1>25, <1>26, <1>27, <1>28, <1>29, <1>30, <1>31, <1>32, <1>33, <1>34
     DEF Next, ClientStep, ClientLocks, CacheStep, CacheLocks, ReceiveReturns

\* What needs the background thread gone finds it gone.
LEMMA ThreadGone ==
  ASSUME rest \in Seq(Stages), rest # <<>>, JoinedFirst, Head(rest) \in Replies \cup {"close"}
  PROVE  cpc = "none"
<1>1. 1 \in 1 .. Len(rest) /\ rest[1] \in Replies \cup {"close"}
  OBVIOUS
<1>. QED BY <1>1 DEF JoinedFirst

\* No step gives _lock to two threads, or a thread to no driver.
LEMMA LockStep ==
  ASSUME TypeOK, LockHeld, ThreadOwned, JoinedFirst, EnterConnected, Next
  PROVE  LockHeld' /\ ThreadOwned'
<1>. DEFINE Goal == LockHeld' /\ ThreadOwned'
<1>t. rest \in Seq(Stages)
  BY DEF TypeOK
<1>c. ASSUME lock # "client", UNCHANGED <<lock, cpc, handle, isConnected>> PROVE Goal
  BY <1>c DEF LockHeld, ThreadOwned
<1>f. ASSUME lock = "client", lock' = "none", UNCHANGED <<cpc, handle>>, isConnected => isConnected'
      PROVE  Goal
  BY <1>f DEF LockHeld, ThreadOwned
<1>k. ASSUME UNCHANGED <<rest, lock, handle, isConnected>>, cpc # "signal", cpc' # "signal",
             cpc # "none"
      PROVE  Goal
  BY <1>k DEF LockHeld, ThreadOwned
<1>1. ASSUME NEW api \in Calls, Call(api) PROVE Goal
  BY <1>1, <1>c DEF Call, LockHeld, shared, cache
<1>2. CASE AcquireLock
  BY <1>2 DEF AcquireLock, LockHeld, ThreadOwned, client, cache
<1>3. CASE CommandDone
  BY <1>3, <1>f DEF CommandDone, cache
<1>4. CASE CommandFail
  BY <1>4, <1>f DEF CommandFail, cache
<1>5. CASE OpenDone
  BY <1>5, <1>f DEF OpenDone, cache
<1>6. CASE DisableScanning
  BY <1>6, <1>c DEF DisableScanning, At, LockHeld, Locked, cache
<1>7. CASE Join
  <2>1. lock # "client" /\ lock' = lock /\ isConnected' = isConnected
    BY <1>7 DEF Join, At, LockHeld, Locked
  <2>2. CASE handle
    BY <1>7, <2>1, <2>2 DEF Join, LockHeld, ThreadOwned
  <2>3. CASE ~handle
    BY <1>7, <2>1, <2>3, <1>c DEF Join
  <2>. QED BY <2>2, <2>3
<1>8. CASE CheckScanning
  BY <1>8, <1>c DEF CheckScanning, At, LockHeld, Locked, shared, cache
<1>9. CASE EnterScan
  <2>1. isConnected
    <3>1. 1 \in 1 .. Len(rest) /\ rest[1] \in {"enter", "enterExpress"}
      BY <1>9, <1>t DEF EnterScan, At
    <3>. QED BY <3>1 DEF EnterConnected
  <2>. QED BY <1>9, <2>1 DEF EnterScan, LockHeld, ThreadOwned
<1>10. CASE EnterWithoutThread
  <2>1. cpc = "none"
    BY <1>10, <1>t, ThreadGone DEF EnterWithoutThread, At, Replies
  <2>. QED BY <1>10, <2>1 DEF EnterWithoutThread, LockHeld, ThreadOwned, cache
<1>11. CASE Close
  <2>1. cpc = "none"
    BY <1>11, <1>t, ThreadGone DEF Close, At
  <2>. QED BY <1>11, <2>1 DEF Close, LockHeld, ThreadOwned, cache
<1>12. CASE WaitElapses
  BY <1>12, <1>c DEF WaitElapses, At, LockHeld, Locked, shared, cache
<1>13. CASE WaitSignalled
  BY <1>13, <1>c DEF WaitSignalled, At, LockHeld, Locked, cache
<1>14. CASE TestCached
  BY <1>14, <1>c DEF TestCached, At, LockHeld, Locked, shared, cache
<1>15. CASE Consume
  BY <1>15, <1>c DEF Consume, At, LockHeld, Locked, cache
<1>16. CASE IntervalScanning
  BY <1>16, <1>c DEF IntervalScanning, At, LockHeld, Locked, shared, cache
<1>17. CASE IntervalShift
  BY <1>17, <1>c DEF IntervalShift, At, LockHeld, Locked, cache
<1>18. CASE IntervalRemaining
  BY <1>18, <1>c DEF IntervalRemaining, At, LockHeld, Locked, shared, cache
<1>19. CASE IntervalDrain
  BY <1>19, <1>c DEF IntervalDrain, At, LockHeld, Locked, cache
<1>20. CASE ReceiveNode
  BY <1>20, <1>k DEF ReceiveNode, BatchReady, Receiving, client, shared
<1>21. CASE LoseNode
  BY <1>21, <1>k DEF LoseNode, Receiving, client, shared
<1>22. CASE BatchExpires
  BY <1>22, <1>k DEF BatchExpires, BatchReady, Receiving, client, shared
<1>23. CASE BatchJunk
  BY <1>23, <1>k DEF BatchJunk, BatchReady, Receiving, client, shared
<1>24. CASE LinkSilent
  BY <1>24, <1>k DEF LinkSilent, BatchReady, Receiving, client
<1>25. CASE CacheLoop
  BY <1>25, <1>k DEF CacheLoop, client
<1>26. CASE Assemble
  BY <1>26, <1>k DEF Assemble, client, shared
<1>27. CASE Publish
  BY <1>27 DEF Publish, LockHeld, ThreadOwned, client
<1>28. CASE Signal
  BY <1>28 DEF Signal, LockHeld, ThreadOwned, client
<1>29. CASE KeepInterval
  BY <1>29, <1>k DEF KeepInterval, client
<1>30. CASE DiscardCapsule
  BY <1>30, <1>k DEF DiscardCapsule, Capsules, client, shared
<1>31. CASE HoldCapsule
  BY <1>31, <1>k DEF HoldCapsule, Capsules, client, shared
<1>32. CASE DecodeCapsule
  BY <1>32, <1>k DEF DecodeCapsule, Capsules, client, shared
<1>33. CASE DamageCapsule
  BY <1>33, <1>k DEF DamageCapsule, Capsules, client, shared
<1>34. CASE AwaitCapsule
  BY <1>34, <1>k DEF AwaitCapsule, Capsules, client, shared
<1>. QED
  BY <1>1, <1>2, <1>3, <1>4, <1>5, <1>6, <1>7, <1>8, <1>9, <1>10, <1>11, <1>12,
     <1>13, <1>14, <1>15, <1>16, <1>17, <1>18, <1>19, <1>20, <1>21, <1>22, <1>23,
     <1>24, <1>25, <1>26, <1>27, <1>28, <1>29, <1>30, <1>31, <1>32, <1>33, <1>34
     DEF Next, ClientStep, ClientLocks, CacheStep, CacheLocks, ReceiveReturns

-----------------------------------------------------------------------------
(* The event announces the scan.                                           *)

\* The next stage of a call is the second of what was left.
LEMMA SecondStage ==
  ASSUME rest \in Seq(Stages), 1 < Len(rest), rest' = Tail(rest)
  PROVE  rest' # <<>> /\ Head(rest') = rest[2]
<1>1. Len(rest') = Len(rest) - 1 /\ rest'[1] = rest[2] /\ rest' \in Seq(Stages)
  OBVIOUS
<1>2. rest' # <<>>
  <2>1. Len(rest) \in Nat /\ Len(rest') # 0
    BY <1>1
  <2>2. rest' = <<>> => Len(rest') = 0
    BY EmptySeq, Zenon
  <2>. QED BY <2>1, <2>2
<1>3. Head(rest') = rest'[1]
  BY <1>1, <1>2
<1>. QED BY <1>1, <1>2, <1>3

\* No step leaves a published scan unannounced.
LEMMA WakeupStep ==
  ASSUME TypeOK, LockHeld, ThreadOwned, JoinedFirst, GrabShape, NoLostWakeup, Next
  PROVE  NoLostWakeup'
<1>t. rest \in Seq(Stages)
  BY DEF TypeOK
<1>c. ASSUME ~At("test"), ~At("consume"), UNCHANGED <<dataEvt, cpc, cached>>
      PROVE  NoLostWakeup'
  BY <1>c DEF NoLostWakeup, At
<1>k. ASSUME UNCHANGED <<rest, dataEvt, cached>>, cpc # "signal"
      PROVE  NoLostWakeup'
  BY <1>k DEF NoLostWakeup, At
<1>e. ASSUME cached' = <<>> PROVE NoLostWakeup'
  BY <1>e DEF NoLostWakeup
<1>1. ASSUME NEW api \in Calls, Call(api) PROVE NoLostWakeup'
  BY <1>1, <1>c DEF Call, At, shared, cache
<1>2. CASE AcquireLock
  BY <1>2, <1>c DEF AcquireLock, At, Locked, cache
<1>3. CASE CommandDone
  BY <1>3, <1>c DEF CommandDone, At, cache
<1>4. CASE CommandFail
  BY <1>4, <1>c DEF CommandFail, At, cache
<1>5. CASE OpenDone
  BY <1>5, <1>c DEF OpenDone, At, cache
<1>6. CASE DisableScanning
  BY <1>6, <1>c DEF DisableScanning, At, cache
<1>7. CASE Join
  <2>1. ~At("test") /\ ~At("consume") /\ UNCHANGED <<dataEvt, cached>>
    BY <1>7 DEF Join, At
  <2>2. CASE handle
    BY <1>7, <2>1, <2>2 DEF Join, NoLostWakeup, At
  <2>3. CASE ~handle
    BY <1>7, <2>1, <2>3, <1>c DEF Join
  <2>. QED BY <2>2, <2>3
<1>8. CASE CheckScanning
  BY <1>8, <1>c DEF CheckScanning, At, shared, cache
<1>9. CASE EnterScan
  <2>1. cpc = "none"
    BY <1>9, <1>t, ThreadGone DEF EnterScan, At, Replies
  <2>. QED BY <1>9, <2>1 DEF EnterScan, NoLostWakeup, At
<1>10. CASE EnterWithoutThread
  BY <1>10, <1>c DEF EnterWithoutThread, At, cache
<1>11. CASE Close
  BY <1>11, <1>e DEF Close
<1>12. CASE WaitElapses
  BY <1>12, <1>c DEF WaitElapses, At, shared, cache
<1>13. CASE WaitSignalled
  <2>1. At("test")'
    <3>1. 1 \in 1 .. Len(rest) /\ rest[1] = "wait" /\ rest' = Tail(rest)
      BY <1>13, <1>t DEF WaitSignalled, Continue, At
    <3>2. 1 < Len(rest) /\ rest[2] = "test"
      BY <3>1 DEF GrabShape
    <3>. QED BY <3>1, <3>2, <1>t, SecondStage DEF At
  <2>. QED BY <2>1 DEF NoLostWakeup
<1>14. CASE TestCached
  <2>1. CASE cached = <<>>
    BY <1>14, <2>1, <1>e DEF TestCached, shared
  <2>2. CASE cached # <<>>
    <3>1. 1 \in 1 .. Len(rest) /\ rest[1] = "test" /\ rest' = Tail(rest)
      BY <1>14, <2>2, <1>t DEF TestCached, Continue, At
    <3>2. 1 < Len(rest) /\ rest[2] = "consume"
      BY <3>1 DEF GrabShape
    <3>3. At("consume")'
      BY <3>1, <3>2, <1>t, SecondStage DEF At
    <3>. QED BY <3>3 DEF NoLostWakeup
  <2>. QED BY <2>1, <2>2
<1>15. CASE Consume
  BY <1>15, <1>e DEF Consume
<1>16. CASE IntervalScanning
  BY <1>16, <1>c DEF IntervalScanning, At, shared, cache
<1>17. CASE IntervalShift
  BY <1>17, <1>c DEF IntervalShift, At, cache
<1>18. CASE IntervalRemaining
  BY <1>18, <1>c DEF IntervalRemaining, At, shared, cache
<1>19. CASE IntervalDrain
  BY <1>19, <1>c DEF IntervalDrain, At, cache
<1>20. CASE ReceiveNode
  BY <1>20, <1>k DEF ReceiveNode, Receiving, client, shared
<1>21. CASE LoseNode
  BY <1>21, <1>k DEF LoseNode, Receiving, client, shared
<1>22. CASE BatchExpires
  BY <1>22, <1>k DEF BatchExpires, Receiving, client, shared
<1>23. CASE BatchJunk
  BY <1>23, <1>k DEF BatchJunk, Receiving, client, shared
<1>24. CASE LinkSilent
  BY <1>24, <1>k DEF LinkSilent, Receiving, client
<1>25. CASE CacheLoop
  BY <1>25, <1>k DEF CacheLoop, client
<1>26. CASE Assemble
  BY <1>26, <1>k DEF Assemble, client, shared
<1>27. CASE Publish
  BY <1>27 DEF Publish, NoLostWakeup
<1>28. CASE Signal
  BY <1>28 DEF Signal, NoLostWakeup
<1>29. CASE KeepInterval
  BY <1>29, <1>k DEF KeepInterval, client
<1>30. CASE DiscardCapsule
  BY <1>30, <1>k DEF DiscardCapsule, Capsules, client, shared
<1>31. CASE HoldCapsule
  BY <1>31, <1>k DEF HoldCapsule, Capsules, client, shared
<1>32. CASE DecodeCapsule
  BY <1>32, <1>k DEF DecodeCapsule, Capsules, client, shared
<1>33. CASE DamageCapsule
  BY <1>33, <1>k DEF DamageCapsule, Capsules, client, shared
<1>34. CASE AwaitCapsule
  BY <1>34, <1>k DEF AwaitCapsule, Capsules, client, shared
<1>. QED
  BY <1>1, <1>2, <1>3, <1>4, <1>5, <1>6, <1>7, <1>8, <1>9, <1>10, <1>11, <1>12,
     <1>13, <1>14, <1>15, <1>16, <1>17, <1>18, <1>19, <1>20, <1>21, <1>22, <1>23,
     <1>24, <1>25, <1>26, <1>27, <1>28, <1>29, <1>30, <1>31, <1>32, <1>33, <1>34
     DEF Next, ClientStep, ClientLocks, CacheStep, CacheLocks, ReceiveReturns

-----------------------------------------------------------------------------
(* The scans: under way, published, grabbed.                               *)

\* No step puts a start bit inside the scan under way.
LEMMA OpenStep ==
  ASSUME TypeOK, ScanOpen, Next
  PROVE  ScanOpen'
<1>. USE SizesAssumption
<1>u. ASSUME scan' = scan PROVE ScanOpen'
  BY <1>u DEF ScanOpen
<1>e. ASSUME scan' = <<>> PROVE ScanOpen'
  BY <1>e, EmptySeq DEF ScanOpen
<1>1. ASSUME \E api \in Calls : Call(api) PROVE ScanOpen'
  BY <1>1, <1>u DEF Call, cache
<1>2. CASE ClientStep /\ ~Join /\ ~EnterScan
  BY <1>2, <1>u DEF ClientStep, ClientLocks, AcquireLock, CommandDone, CommandFail, OpenDone,
     DisableScanning, CheckScanning, EnterWithoutThread, Close, WaitElapses, WaitSignalled,
     TestCached, Consume, IntervalScanning, IntervalShift, IntervalRemaining, IntervalDrain, cache
<1>3. CASE Join
  BY <1>3, <1>u, <1>e DEF Join
<1>4. CASE EnterScan
  BY <1>4, <1>e DEF EnterScan
<1>5. CASE CacheStep /\ ~Assemble /\ ~Signal
  BY <1>5, <1>u DEF CacheStep, CacheLocks, ReceiveReturns, ReceiveNode, BatchExpires, BatchJunk,
     LinkSilent, DiscardCapsule, HoldCapsule, DecodeCapsule,
     DamageCapsule, AwaitCapsule, LoseNode, CacheLoop, Publish, KeepInterval
<1>6. CASE Assemble
  <2>1. buf[pos] \in Node
    BY DEF TypeOK
  <2>2. CASE buf[pos].sync
    <3>1. scan' = <<buf[pos]>> \/ scan' = <<>>
      BY <1>6, <2>2 DEF Assemble, AppendCapped
    <3>2. Len(<<buf[pos]>>) = 1
      OBVIOUS
    <3>3. CASE scan' = <<buf[pos]>>
      BY <3>2, <3>3 DEF ScanOpen
    <3>. QED BY <3>1, <3>3, <1>e
  <2>3. CASE ~buf[pos].sync
    <3>1. scan' = Append(scan, buf[pos]) \/ scan' = scan
      BY <1>6, <2>3 DEF Assemble, AppendCapped
    <3>2. CASE scan' = Append(scan, buf[pos])
      <4>1. /\ Len(scan') = Len(scan) + 1 /\ scan'[Len(scan) + 1] = buf[pos]
            /\ \A i \in 1 .. Len(scan) : scan'[i] = scan[i]
        BY <3>2, <2>1 DEF TypeOK
      <4>2. Len(scan) \in Nat
        BY DEF TypeOK
      <4>3. ASSUME NEW i \in 2 .. Len(scan') PROVE ~scan'[i].sync
        <5>1. CASE i = Len(scan) + 1
          BY <5>1, <4>1, <2>3
        <5>2. CASE i # Len(scan) + 1
          <6>1. i \in 2 .. Len(scan) /\ scan'[i] = scan[i]
            BY <5>2, <4>1, <4>2
          <6>. QED BY <6>1 DEF ScanOpen
        <5>. QED BY <5>1, <5>2
      <4>. QED BY <4>3 DEF ScanOpen
    <3>. QED BY <3>1, <3>2, <1>u
  <2>. QED BY <2>2, <2>3
<1>7. CASE Signal
  <2>1. scan' = <<buf[pos]>> /\ Len(<<buf[pos]>>) = 1
    BY <1>7 DEF Signal
  <2>. QED BY <2>1 DEF ScanOpen
<1>. QED BY <1>1, <1>2, <1>3, <1>4, <1>5, <1>6, <1>7 DEF Next

\* No step publishes anything but a scan.
LEMMA PublishedStep ==
  ASSUME TypeOK, ScanOpen, PublishedScan, Next
  PROVE  PublishedScan'
<1>u. ASSUME cached' = cached PROVE PublishedScan'
  BY <1>u DEF PublishedScan, IsScan
<1>e. ASSUME cached' = <<>> PROVE PublishedScan'
  BY <1>e DEF PublishedScan
<1>1. ASSUME \E api \in Calls : Call(api) PROVE PublishedScan'
  BY <1>1, <1>u DEF Call, shared
<1>2. CASE ClientStep /\ ~Close /\ ~Consume
  BY <1>2, <1>u DEF ClientStep, ClientLocks, AcquireLock, CommandDone, CommandFail, OpenDone,
     DisableScanning, Join, CheckScanning, EnterScan, EnterWithoutThread, WaitElapses,
     WaitSignalled, TestCached, IntervalScanning, IntervalShift, IntervalRemaining,
     IntervalDrain, shared
<1>3. CASE Close
  BY <1>3, <1>e DEF Close
<1>4. CASE Consume
  BY <1>4, <1>e DEF Consume
<1>5. CASE CacheStep /\ ~Publish
  BY <1>5, <1>u DEF CacheStep, CacheLocks, ReceiveReturns, ReceiveNode, BatchExpires, BatchJunk,
     LinkSilent, DiscardCapsule, HoldCapsule, DecodeCapsule,
     DamageCapsule, AwaitCapsule, LoseNode, CacheLoop, Assemble, Signal, KeepInterval, shared
<1>6. CASE Publish
  <2>1. cached' = scan /\ scan # <<>> /\ scan[1].sync
    BY <1>6 DEF Publish, Complete
  <2>. QED BY <2>1 DEF ScanOpen, PublishedScan, IsScan
<1>. QED BY <1>1, <1>2, <1>3, <1>4, <1>5, <1>6 DEF Next

\* No step makes a grab return anything but the head of a scan.
LEMMA GrabbedStep ==
  ASSUME TypeOK, GrabShape, GrabReturned, PublishedScan, GrabbedScan, Next
  PROVE  GrabbedScan'
<1>. USE SizesAssumption
<1>u. ASSUME res' = res, nodebuffer' = nodebuffer PROVE GrabbedScan'
  BY <1>u DEF GrabbedScan, IsScan
<1>n. ASSUME res'.api # "grab" \/ res'.code # "OK" PROVE GrabbedScan'
  BY <1>n DEF GrabbedScan
<1>r. ASSUME NEW c, Return(Result(c)) PROVE GrabbedScan'
  BY <1>r, <1>n DEF Return, Result, NoRes
<1>1. ASSUME \E api \in Calls : Call(api) PROVE GrabbedScan'
  BY <1>1, <1>n DEF Call, NoRes
<1>2. CASE AcquireLock \/ OpenDone \/ DisableScanning \/ Join \/ WaitSignalled
  BY <1>2, <1>u DEF AcquireLock, OpenDone, DisableScanning, Join, WaitSignalled, Continue, client
<1>3. CASE CommandDone
  BY <1>3, <1>u, <1>r DEF CommandDone, Advance, Continue
<1>4. CASE CommandFail \/ EnterScan \/ EnterWithoutThread
  BY <1>4, <1>r DEF CommandFail, EnterScan, EnterWithoutThread
<1>5. CASE CheckScanning
  BY <1>5, <1>u, <1>r DEF CheckScanning, Continue
<1>6. CASE Close
  BY <1>6, <1>n DEF Close, Return, NoRes
<1>7. CASE WaitElapses
  BY <1>7, <1>n DEF WaitElapses, Return, GrabResult
<1>8. CASE TestCached
  <2>1. CASE cached = <<>>
    BY <1>8, <2>1, <1>n DEF TestCached, Return, GrabResult
  <2>2. CASE cached # <<>>
    BY <1>8, <2>2, <1>u DEF TestCached, Continue
  <2>. QED BY <2>1, <2>2
<1>9. CASE Consume
  <2>. DEFINE k == Smaller(ClientCap, Len(cached))
  <2>1. cached # <<>>
    <3>1. 1 \in 1 .. Len(rest) /\ rest[1] = "consume"
      BY <1>9 DEF Consume, At, TypeOK
    <3>. QED BY <3>1 DEF GrabShape
  <2>2. cached \in Seq(Node) /\ IsScan(cached) /\ Len(cached) \in Nat \ {0}
    BY <2>1 DEF TypeOK, PublishedScan
  <2>3. k \in 1 .. Len(cached) /\ k <= ClientCap
    BY <2>2 DEF Smaller
  <2>4. nodebuffer' = SubSeq(cached, 1, k) /\ res' = GrabResult("OK", k, k, FALSE)
    BY <1>9 DEF Consume, Return
  <2>5. Len(nodebuffer') = k /\ \A i \in 1 .. k : nodebuffer'[i] = cached[i]
    BY <2>2, <2>3, <2>4
  <2>6. nodebuffer' # <<>>
    <3>1. nodebuffer' = <<>> => Len(nodebuffer') = 0
      BY EmptySeq, Zenon
    <3>. QED BY <2>3, <2>5, <3>1
  <2>7. nodebuffer'[1].sync /\ \A i \in 2 .. Len(nodebuffer') : ~nodebuffer'[i].sync
    BY <2>2, <2>3, <2>5 DEF IsScan
  <2>8. res'.stored = k /\ res'.count = k
    BY <2>4 DEF GrabResult
  <2>. QED BY <2>3, <2>5, <2>6, <2>7, <2>8 DEF GrabbedScan, IsScan
<1>10. CASE IntervalScanning
  BY <1>10, <1>n DEF IntervalScanning, IntervalResult
<1>11. CASE IntervalShift
  <2>1. CASE interval = 0
    BY <1>11, <2>1, <1>n DEF IntervalShift, Return, IntervalResult
  <2>2. CASE interval # 0
    BY <1>11, <2>2, <1>n DEF IntervalShift, IntervalResult
  <2>. QED BY <2>1, <2>2
<1>12. CASE IntervalRemaining
  <2>1. res.api # "grab" /\ res \in Results
    BY <1>12 DEF IntervalRemaining, At, GrabReturned, TypeOK
  <2>2. res'.api = res.api
    BY <1>12, <2>1 DEF IntervalRemaining, Return, Results
  <2>. QED BY <2>1, <2>2, <1>n
<1>13. CASE IntervalDrain
  BY <1>13, <1>n DEF IntervalDrain, Return, IntervalResult
<1>14. CASE CacheStep
  BY <1>14, <1>u DEF CacheStep, CacheLocks, ReceiveReturns, ReceiveNode, BatchExpires, BatchJunk,
     LinkSilent, DiscardCapsule, HoldCapsule, DecodeCapsule,
     DamageCapsule, AwaitCapsule, LoseNode, CacheLoop, Assemble, Publish, Signal, KeepInterval, client
<1>. QED
  BY <1>1, <1>2, <1>3, <1>4, <1>5, <1>6, <1>7, <1>8, <1>9, <1>10, <1>11, <1>12, <1>13, <1>14
     DEF Next, ClientStep, ClientLocks

-----------------------------------------------------------------------------
(* The theorems.                                                           *)

\* The invariant is inductive: it holds at first and every step keeps it.
THEOREM Inductive == Spec => []IInv
<1>1. ASSUME IInv, [Next]_vars PROVE IInv'
  <2>1. TypeOK'
    BY <1>1, TypeStep DEF IInv
  <2>2. CASE Next
    <3>. USE DEF IInv, Order
    <3>1. Order'
      BY <1>1, <2>2, OrderStep
    <3>2. LockHeld' /\ ThreadOwned'
      BY <1>1, <2>2, LockStep
    <3>3. NoLostWakeup'
      BY <1>1, <2>2, WakeupStep
    <3>4. ScanOpen' /\ PublishedScan' /\ GrabbedScan'
      BY <1>1, <2>2, OpenStep, PublishedStep, GrabbedStep
    <3>. QED BY <2>1, <3>1, <3>2, <3>3, <3>4
  <2>3. CASE UNCHANGED vars
    BY <1>1, <2>1, <2>3 DEF IInv, vars, client, shared, cache, LockHeld, ThreadOwned, GrabReturned,
       JoinedFirst, EnterConnected, GrabShape, NoLostWakeup, At, ScanOpen, PublishedScan,
       GrabbedScan, IsScan
  <2>. QED BY <1>1, <2>2, <2>3
<1>. QED BY InitIInv, <1>1, PTL DEF Spec

\* Every variable stays in its type, whatever the capacities and the calls.
THEOREM TypeCorrect == Spec => []TypeOK
BY Inductive, PTL DEF IInv

\* Answers to commands are read off the channel only when no background
\* thread reads it: for every sequence of API calls, the joins suffice.
THEOREM ChannelHasOneReader == Spec => []OneReader
<1>1. IInv => OneReader
  BY ThreadGone DEF IInv, TypeOK, LockHeld, OneReader
<1>. QED BY <1>1, Inductive, PTL

\* A background thread never outlives its driver or the handle to join it.
THEOREM ThreadIsOwned == Spec => []ThreadOwned
BY Inductive, PTL DEF IInv

\* A published scan that nobody took is always announced by the event, or
\* the caller is on its way to it.
THEOREM WakeupNotLost == Spec => []NoLostWakeup
BY Inductive, PTL DEF IInv

\* Whatever the link does to the measurements, what is published and what a
\* grab returns starts with the start bit and has no second one.
THEOREM ScansWellFormed == Spec => [](PublishedScan /\ GrabbedScan)
BY Inductive, PTL DEF IInv

\* The threads, the lock and the event implement the one-scan mailbox.
THEOREM Refinement == Spec => ImplementsMailbox
<1>1. Init => Mailbox!Init
  BY DEF Init, Mailbox!Init
<1>2. ASSUME IInv, [Next]_vars PROVE [Mailbox!Next]_<<cached, nodebuffer>>
  <2>. USE DEF IInv, TypeOK
  <2>u. ASSUME UNCHANGED <<cached, nodebuffer>> PROVE [Mailbox!Next]_<<cached, nodebuffer>>
    BY <2>u
  <2>1. CASE UNCHANGED vars
    BY <2>1, <2>u DEF vars, client, shared
  <2>2. ASSUME \E api \in Calls : Call(api) PROVE Mailbox!Next
    BY <2>2 DEF Call, shared, Mailbox!Next, Mailbox!Forget
  <2>3. CASE ClientStep /\ ~Close /\ ~Consume
    BY <2>3, <2>u DEF ClientStep, ClientLocks, AcquireLock, CommandDone, CommandFail, OpenDone,
       DisableScanning, Join, CheckScanning, EnterScan, EnterWithoutThread, WaitElapses,
       WaitSignalled, TestCached, IntervalScanning, IntervalShift, IntervalRemaining,
       IntervalDrain, Continue, shared, client
  <2>4. CASE Close
    BY <2>4 DEF Close, Mailbox!Next, Mailbox!Renew
  <2>5. CASE Consume
    <3>1. cached # <<>>
      <4>1. 1 \in 1 .. Len(rest) /\ rest[1] = "consume"
        BY <1>2, <2>5 DEF Consume, At
      <4>. QED BY <1>2, <4>1 DEF GrabShape
    <3>2. nodebuffer' = SubSeq(cached, 1, IF ClientCap < Len(cached) THEN ClientCap ELSE Len(cached))
          /\ cached' = <<>>
      BY <2>5 DEF Consume, Smaller
    <3>. QED BY <3>1, <3>2 DEF Mailbox!Next, Mailbox!Take
  <2>6. CASE CacheStep /\ ~Publish
    BY <2>6, <2>u DEF CacheStep, CacheLocks, ReceiveReturns, ReceiveNode, BatchExpires, BatchJunk,
       LinkSilent, DiscardCapsule, HoldCapsule, DecodeCapsule,
       DamageCapsule, AwaitCapsule, LoseNode, CacheLoop, Assemble, Signal, KeepInterval, shared, client
  <2>7. CASE Publish
    <3>1. cached' \in Seq(Node) /\ nodebuffer' = nodebuffer /\ cached' # <<>>
      BY <1>2, <2>7 DEF Publish, Complete, client
    <3>2. PublishedScan'
      BY <1>2, <2>7, PublishedStep DEF Next, CacheStep, CacheLocks
    <3>3. cached' \in Mailbox!Scan
      BY <3>1, <3>2 DEF PublishedScan, IsScan, Mailbox!Scan
    <3>. QED BY <3>1, <3>3 DEF Mailbox!Next, Mailbox!Put
  <2>. QED BY <1>2, <2>1, <2>2, <2>3, <2>4, <2>5, <2>6, <2>7 DEF Next
<1>. QED BY <1>1, <1>2, Inductive, PTL DEF Spec, ImplementsMailbox, Mailbox!Spec

-----------------------------------------------------------------------------
(***************************************************************************)
(* Complete revolutions.  Over a link that loses nothing and delivers      *)
(* whole measurements, the nodes on their way through the caching thread   *)
(* are those of the device, in order and without a gap: Streamed follows   *)
(* them from the wire through local_buf into local_scan.                   *)
(***************************************************************************)
Succ(p) == [rev |-> (p.rev + (p.idx + 1) \div RevLen) % Revs, idx |-> (p.idx + 1) % RevLen]
NodeOf(p) == [rev |-> p.rev, sync |-> p.idx = 0]
Later(n) == [rev |-> (wire.rev + (wire.idx + n) \div RevLen) % Revs, idx |-> (wire.idx + n) % RevLen]

\* local_buf from the one place to the other holds the measurements from p up
\* to the wire.
Holds(from, upto, p) ==
  \E path \in [from .. upto + 1 -> Wire] :
    /\ path[from] = p /\ path[upto + 1] = wire
    /\ \A i \in from .. upto : buf[i] = NodeOf(path[i]) /\ path[i + 1] = Succ(path[i])

\* The scan that s is of a revolution from its start, as much as fits, has p
\* next.
UpTo(s, p) ==
  s # <<>> /\ s[1].sync =>
    /\ Len(s) = Smaller(IF p.idx = 0 THEN RevLen ELSE p.idx, ScanCap - 1)
    /\ \A i, j \in DOMAIN s : s[i].rev = s[j].rev
    /\ p.idx # 0 => s[1].rev = p.rev

Between ==
  /\ cpc \in {"loop", "node", "signal", "interval"} => got = 0
  /\ cpc \in {"discard", "loop", "receive"} => pos = 1
CapsuleSized == decoder # "nodes" => limit = BatchMax /\ got = 0

Streamed ==
  /\ cpc = "discard" => scan = <<>>
  /\ cpc = "loop" => UpTo(scan, wire)
  /\ cpc = "receive" => \E p \in Wire : Holds(1, got, p) /\ UpTo(scan, p)
  /\ cpc \in {"node", "signal"} => \E p \in Wire : Holds(pos, limit, p) /\ UpTo(scan, p)
  /\ cpc = "interval" => \E p \in Wire : Holds(pos + 1, limit, p) /\ UpTo(scan, p)

InBuffers == Between /\ CapsuleSized /\ Streamed

LEMMA NextDivision ==
  ASSUME NEW x \in Nat, NEW N \in Nat \ {0}
  PROVE  IF (x % N) + 1 < N
           THEN (x + 1) \div N = x \div N /\ (x + 1) % N = (x % N) + 1
           ELSE (x + 1) \div N = (x \div N) + 1 /\ (x + 1) % N = 0
OBVIOUS

\* The place after p is in the same revolution, or begins one.
LEMMA SuccIs ==
  ASSUME NEW p \in Wire
  PROVE  /\ Succ(p) \in Wire
         /\ IF p.idx + 1 < RevLen THEN Succ(p) = [rev |-> p.rev, idx |-> p.idx + 1]
                                  ELSE Succ(p).idx = 0
<1>1. /\ p.rev \in Nat /\ p.rev < Revs /\ p.idx \in Nat /\ p.idx < RevLen
      /\ Revs \in Nat \ {0} /\ RevLen \in Nat \ {0}
  BY SizesAssumption DEF Wire
<1>2. IF p.idx + 1 < RevLen
        THEN (p.idx + 1) \div RevLen = 0 /\ (p.idx + 1) % RevLen = p.idx + 1
        ELSE (p.idx + 1) \div RevLen = 1 /\ (p.idx + 1) % RevLen = 0
  BY <1>1
<1>3. p.rev % Revs = p.rev /\ (p.rev + 1) % Revs \in 0 .. Revs - 1 /\ p.rev + 0 = p.rev
  BY <1>1
<1>4. CASE p.idx + 1 < RevLen
  BY <1>1, <1>2, <1>3, <1>4 DEF Succ, Wire
<1>5. CASE ~(p.idx + 1 < RevLen)
  BY <1>1, <1>2, <1>3, <1>5 DEF Succ, Wire
<1>. QED BY <1>4, <1>5

\* The places ahead of the wire follow one another.
LEMMA LaterFollows ==
  ASSUME wire \in Wire, NEW n \in Nat
  PROVE  /\ Later(0) = wire /\ Later(n) \in Wire /\ Later(n + 1) = Succ(Later(n))
         /\ NodeAt(n) = NodeOf(Later(n)) /\ (WireSkips(n) => wire' = Later(n))
<1>1. /\ wire.rev \in Nat /\ wire.rev < Revs /\ wire.idx \in Nat /\ wire.idx < RevLen
      /\ Revs \in Nat \ {0} /\ RevLen \in Nat \ {0} /\ wire = [rev |-> wire.rev, idx |-> wire.idx]
  BY SizesAssumption DEF Wire
<1>2. Later(0) = wire
  <2>1. wire.idx + 0 = wire.idx /\ wire.idx \div RevLen = 0 /\ wire.idx % RevLen = wire.idx
        /\ wire.rev + 0 = wire.rev /\ wire.rev % Revs = wire.rev
    BY <1>1
  <2>. QED BY <1>1, <2>1 DEF Later
<1> DEFINE x == wire.idx + n
           a == wire.rev + (x \div RevLen)
<1>3. x \in Nat /\ x \div RevLen \in Nat /\ x % RevLen \in 0 .. RevLen - 1
      /\ wire.idx + (n + 1) = x + 1
  BY <1>1
<1>4. a \in Nat /\ a % Revs \in 0 .. Revs - 1
      /\ wire.rev + ((x \div RevLen) + 1) = a + 1
  BY <1>1, <1>3
<1>5. Later(n) = [rev |-> a % Revs, idx |-> x % RevLen]
  BY DEF Later
<1>6. Later(n) \in Wire
  BY <1>3, <1>4, <1>5 DEF Wire
<1>7. Later(n + 1) = [rev |-> (wire.rev + ((x + 1) \div RevLen)) % Revs, idx |-> (x + 1) % RevLen]
  BY <1>3 DEF Later
<1> HIDE DEF x, a
<1>8. Later(n + 1) = Succ(Later(n))
  <2>1. Succ(Later(n)) = [rev |-> ((a % Revs) + ((x % RevLen) + 1) \div RevLen) % Revs,
                          idx |-> ((x % RevLen) + 1) % RevLen]
    BY <1>5 DEF Succ
  <2>2. CASE (x % RevLen) + 1 < RevLen
    <3>1. ((x % RevLen) + 1) \div RevLen = 0 /\ ((x % RevLen) + 1) % RevLen = (x % RevLen) + 1
      BY <1>1, <1>3, <2>2
    <3>2. (x + 1) \div RevLen = x \div RevLen /\ (x + 1) % RevLen = (x % RevLen) + 1
      BY <1>1, <1>3, <2>2, NextDivision
    <3>3. (a % Revs) + 0 = a % Revs /\ (a % Revs) % Revs = a % Revs
      BY <1>1, <1>4
    <3>. QED BY <1>7, <2>1, <3>1, <3>2, <3>3 DEF a
  <2>3. CASE ~((x % RevLen) + 1 < RevLen)
    <3>1. ((x % RevLen) + 1) \div RevLen = 1 /\ ((x % RevLen) + 1) % RevLen = 0
      BY <1>1, <1>3, <2>3
    <3>2. (x + 1) \div RevLen = (x \div RevLen) + 1 /\ (x + 1) % RevLen = 0
      BY <1>1, <1>3, <2>3, NextDivision
    <3>3. ((a % Revs) + 1) % Revs = (a + 1) % Revs
      <4>1. CASE (a % Revs) + 1 < Revs
        <5>1. ((a % Revs) + 1) % Revs = (a % Revs) + 1
          BY <1>1, <1>4, <4>1
        <5>. QED BY <1>1, <1>4, <4>1, <5>1, NextDivision
      <4>2. CASE ~((a % Revs) + 1 < Revs)
        <5>1. (a % Revs) + 1 = Revs /\ Revs % Revs = 0
          BY <1>1, <1>4, <4>2
        <5>. QED BY <1>1, <1>4, <4>2, <5>1, NextDivision
      <4>. QED BY <4>1, <4>2
    <3>. QED BY <1>4, <1>7, <2>1, <3>1, <3>2, <3>3
  <2>. QED BY <2>2, <2>3
<1>9. NodeAt(n) = NodeOf(Later(n)) /\ (WireSkips(n) => wire' = Later(n))
  BY DEF NodeAt, NodeOf, Later, WireSkips
<1>. QED BY <1>2, <1>6, <1>8, <1>9

-----------------------------------------------------------------------------
(* What the thread does to local_scan.                                     *)

LEMMA NodeOfIs ==
  ASSUME NEW p \in Wire
  PROVE  /\ NodeOf(p) \in Node /\ NodeOf(p).rev = p.rev
         /\ NodeOf(p).sync <=> p.idx = 0
<1>1. NodeOf(p) = [rev |-> p.rev, sync |-> p.idx = 0]
  BY DEF NodeOf
<1>2. p.rev \in 0 .. Revs - 1 /\ (p.idx = 0) \in BOOLEAN
  BY Zenon DEF Wire
<1>3. \A r \in 0 .. Revs - 1, b \in BOOLEAN : [rev |-> r, sync |-> b] \in Node
  BY Zenon DEF Node
<1>4. NodeOf(p) \in Node
  BY <1>1, <1>2, <1>3, Zenon
<1>5. NodeOf(p).rev = p.rev /\ NodeOf(p).sync = (p.idx = 0)
  BY Zenon DEF NodeOf
<1>. QED BY <1>4, <1>5, Zenon

LEMMA UpToStarts ==
  ASSUME NEW p \in Wire
  PROVE  UpTo(<<NodeOf(p)>>, Succ(p))
<1> DEFINE s == <<NodeOf(p)>>
<1>1. Len(s) = 1 /\ s[1] = NodeOf(p) /\ DOMAIN s = {1}
  OBVIOUS
<1> HIDE DEF s
<1>2. CASE p.idx # 0
  <2>1. ~NodeOf(p).sync
    BY <1>2, NodeOfIs, Zenon
  <2>2. ~s[1].sync
    BY <1>1, <2>1, Zenon
  <2>. QED BY <2>2 DEF UpTo, s
<1>3. CASE p.idx = 0
  <2>1. RevLen \in Nat \ {0} /\ ScanCap - 1 \in Nat /\ ScanCap - 1 >= 1
    BY SizesAssumption
  <2>2. IF Succ(p).idx = 0 THEN RevLen = 1 ELSE Succ(p).idx = 1 /\ Succ(p).rev = p.rev
    BY <1>3, <2>1, SuccIs
  <2>3. Len(s) = Smaller(IF Succ(p).idx = 0 THEN RevLen ELSE Succ(p).idx, ScanCap - 1)
    <3> DEFINE k == IF Succ(p).idx = 0 THEN RevLen ELSE Succ(p).idx
    <3>1. k = 1
      BY <2>2
    <3> HIDE DEF k
    <3>2. Len(s) = Smaller(k, ScanCap - 1)
      BY <1>1, <2>1, <3>1, SizesAssumption DEF Smaller
    <3>. QED BY <3>2 DEF k
  <2>4. s[1].rev = p.rev /\ \A i, j \in DOMAIN s : s[i].rev = s[j].rev
    BY <1>1, NodeOfIs
  <2>. QED BY <2>2, <2>3, <2>4 DEF UpTo, s
<1>. QED BY <1>2, <1>3

LEMMA UpToAppends ==
  ASSUME NEW s \in Seq(Node), NEW p \in Wire, p.idx # 0, UpTo(s, p)
  PROVE  UpTo(AppendCapped(s, NodeOf(p)), Succ(p))
<1> DEFINE t == AppendCapped(s, NodeOf(p))
<1>0. RevLen \in Nat \ {0} /\ ScanCap - 1 \in Nat /\ ScanCap - 1 >= 1
  BY SizesAssumption
<1>1. CASE s = <<>>
  <2>1. t = <<NodeOf(p)>>
    BY <1>0, <1>1 DEF AppendCapped
  <2>2. t[1] = NodeOf(p)
    BY <2>1
  <2>. QED BY <2>2, NodeOfIs DEF UpTo
<1>2. CASE s # <<>>
  <2>1. Len(s) \in Nat \ {0} /\ DOMAIN s = 1 .. Len(s) /\ 1 \in DOMAIN s
    BY <1>2
  <2>2. t \in {s, Append(s, NodeOf(p))}
    BY DEF AppendCapped
  <2>3. t[1] = s[1]
    BY <2>1, <2>2
  <2> SUFFICES ASSUME s[1].sync
               PROVE  UpTo(t, Succ(p))
    BY <2>3 DEF UpTo
  <2>4. Len(s) = Smaller(p.idx, ScanCap - 1) /\ s[1].rev = p.rev
        /\ \A i \in DOMAIN s : s[i].rev = p.rev
    BY <1>2, <2>1 DEF UpTo
  <2>5. p.idx \in Nat /\ p.idx < RevLen
    BY <1>0 DEF Wire
  <2>6. Len(t) = Smaller(p.idx + 1, ScanCap - 1)
    <3>0. \A n \in Node : Len(Append(s, n)) = Len(s) + 1
      OBVIOUS
    <3>1. Len(Append(s, NodeOf(p))) = Len(s) + 1
      BY <3>0, NodeOfIs, Zenon
    <3>2. CASE p.idx < ScanCap - 1
      BY <1>0, <2>1, <2>4, <2>5, <3>1, <3>2 DEF AppendCapped, Smaller
    <3>3. CASE ~(p.idx < ScanCap - 1)
      BY <1>0, <2>1, <2>4, <2>5, <3>3 DEF AppendCapped, Smaller
    <3>. QED BY <3>2, <3>3
  <2>7. \A i \in DOMAIN t : t[i].rev = p.rev
    <3>1. CASE t = s
      BY <2>4, <3>1
    <3>2. CASE t = Append(s, NodeOf(p))
      BY <2>1, <2>4, <3>2 DEF NodeOf
    <3>. QED BY <2>2, <3>1, <3>2
  <2>8. IF Succ(p).idx = 0 THEN RevLen = p.idx + 1 ELSE Succ(p).idx = p.idx + 1 /\ Succ(p).rev = p.rev
    BY <2>5, <1>0, SuccIs
  <2>. QED BY <2>3, <2>4, <2>6, <2>7, <2>8 DEF UpTo
<1>. QED BY <1>1, <1>2

-----------------------------------------------------------------------------
(* What local_buf holds.                                                   *)

LEMMA Buffered ==
  ASSUME NEW from \in Nat, NEW upto \in Nat, NEW p \in Wire, Holds(from, upto, p)
  PROVE  /\ upto < from => (upto + 1 = from => p = wire)
         /\ from <= upto => buf[from] = NodeOf(p) /\ Holds(from + 1, upto, Succ(p))
<1>1. PICK path \in [from .. upto + 1 -> Wire] :
        /\ path[from] = p /\ path[upto + 1] = wire
        /\ \A i \in from .. upto : buf[i] = NodeOf(path[i]) /\ path[i + 1] = Succ(path[i])
  BY DEF Holds
<1>2. upto + 1 = from => p = wire
  BY <1>1
<1>3. ASSUME from <= upto
      PROVE  buf[from] = NodeOf(p) /\ Holds(from + 1, upto, Succ(p))
  <2>1. buf[from] = NodeOf(p) /\ path[from + 1] = Succ(p)
    BY <1>1, <1>3
  <2> DEFINE tail == [i \in from + 1 .. upto + 1 |-> path[i]]
  <2>2. tail \in [from + 1 .. upto + 1 -> Wire]
    BY <1>1
  <2>3. tail[from + 1] = Succ(p) /\ tail[upto + 1] = wire
    BY <1>1, <1>3, <2>1
  <2>4. \A i \in from + 1 .. upto : buf[i] = NodeOf(tail[i]) /\ tail[i + 1] = Succ(tail[i])
    <3> TAKE i \in from + 1 .. upto
    <3>1. i \in from .. upto /\ i \in from + 1 .. upto + 1 /\ i + 1 \in from + 1 .. upto + 1
      OBVIOUS
    <3>. QED BY <1>1, <3>1
  <2> HIDE DEF tail
  <2>. QED BY <2>1, <2>2, <2>3, <2>4 DEF Holds
<1>. QED BY <1>2, <1>3

\* Nothing is held between a place and the wire that is there.
LEMMA HoldsNothing ==
  ASSUME NEW n \in Nat, wire \in Wire
  PROVE  Holds(n + 1, n, wire)
<1> DEFINE path == [i \in n + 1 .. n + 1 |-> wire]
<1>1. path \in [n + 1 .. n + 1 -> Wire] /\ path[n + 1] = wire
  OBVIOUS
<1> HIDE DEF path
<1>2. n + 1 .. n = {}
  OBVIOUS
<1>. QED BY <1>1, <1>2 DEF Holds

\* One more measurement comes in.
LEMMA HoldsMore ==
  ASSUME TypeOK, NEW p \in Wire, Holds(1, got, p), wire' = Succ(wire),
         buf' = [buf EXCEPT ![got + 1] = NodeOf(wire)],
         NEW n, n = got + 1
  PROVE  \E path \in [1 .. n + 1 -> Wire] :
           /\ path[1] = p /\ path[n + 1] = wire'
           /\ \A i \in 1 .. n : buf'[i] = NodeOf(path[i]) /\ path[i + 1] = Succ(path[i])
<1>1. PICK path \in [1 .. got + 1 -> Wire] :
        /\ path[1] = p /\ path[got + 1] = wire
        /\ \A i \in 1 .. got : buf[i] = NodeOf(path[i]) /\ path[i + 1] = Succ(path[i])
  BY DEF Holds
<1>2. /\ got \in Nat /\ got + 1 \in 1 .. BatchMax /\ DOMAIN buf = 1 .. BatchMax
      /\ wire \in Wire /\ n \in Nat /\ n = got + 1 /\ BatchMax \in Nat
  BY SizesAssumption DEF TypeOK
<1>3. Succ(wire) \in Wire
  BY <1>2, SuccIs
<1> DEFINE longer == [i \in 1 .. n + 1 |-> IF i = n + 1 THEN Succ(wire) ELSE path[i]]
<1>4. longer \in [1 .. n + 1 -> Wire]
  BY <1>1, <1>2, <1>3
<1>5. longer[1] = p /\ longer[n + 1] = wire' /\ longer[n] = wire
  BY <1>1, <1>2
<1>6. ASSUME NEW i \in 1 .. n
      PROVE  buf'[i] = NodeOf(longer[i]) /\ longer[i + 1] = Succ(longer[i])
  <2>1. CASE i = n
    <3>1. buf'[i] = NodeOf(wire)
      BY <1>2, <2>1
    <3>. QED BY <1>2, <1>5, <2>1, <3>1
  <2>2. CASE i # n
    <3>1. i \in 1 .. got /\ i \in 1 .. n + 1 /\ i + 1 \in 1 .. n + 1 /\ i # n + 1 /\ i + 1 # n + 1
      BY <1>2, <2>2
    <3>2. buf'[i] = buf[i]
      BY <1>2, <3>1
    <3>. QED BY <1>1, <3>1, <3>2
  <2>. QED BY <2>1, <2>2
<1> HIDE DEF longer
<1>. QED BY <1>4, <1>5, <1>6

\* A capsule's measurements come in.
LEMMA HoldsCapsule ==
  ASSUME wire \in Wire, wire' = Later(BatchMax),
         \A i \in 1 .. BatchMax : buf'[i] = NodeAt(i - 1)
  PROVE  \E path \in [1 .. BatchMax + 1 -> Wire] :
           /\ path[1] = wire /\ path[BatchMax + 1] = wire'
           /\ \A i \in 1 .. BatchMax : buf'[i] = NodeOf(path[i]) /\ path[i + 1] = Succ(path[i])
<1> DEFINE path == [i \in 1 .. BatchMax + 1 |-> Later(i - 1)]
<1>1. BatchMax \in Nat /\ BatchMax + 1 \in 1 .. BatchMax + 1 /\ 1 \in 1 .. BatchMax + 1
  BY SizesAssumption
<1>2. \A i \in 1 .. BatchMax + 1 : i - 1 \in Nat /\ path[i] = Later(i - 1)
  BY <1>1
<1>3. path \in [1 .. BatchMax + 1 -> Wire]
  BY <1>2, LaterFollows
<1>4. path[1] = wire /\ path[BatchMax + 1] = wire'
  <2>1. 1 - 1 = 0 /\ (BatchMax + 1) - 1 = BatchMax
    BY <1>1
  <2>2. path[1] = Later(0) /\ path[BatchMax + 1] = Later(BatchMax)
    BY <1>1, <1>2, <2>1
  <2>3. Later(0) = wire
    BY LaterFollows
  <2>. QED BY <2>2, <2>3
<1>5. ASSUME NEW i \in 1 .. BatchMax
      PROVE  buf'[i] = NodeOf(path[i]) /\ path[i + 1] = Succ(path[i])
  <2>1. i \in 1 .. BatchMax + 1 /\ i + 1 \in 1 .. BatchMax + 1 /\ i - 1 \in Nat
        /\ (i + 1) - 1 = (i - 1) + 1
    BY <1>1
  <2>2. path[i] = Later(i - 1) /\ path[i + 1] = Later((i - 1) + 1)
    BY <1>2, <2>1
  <2>. QED BY <2>1, <2>2, LaterFollows
<1> HIDE DEF path
<1>. QED BY <1>3, <1>4, <1>5

-----------------------------------------------------------------------------
(* Every step keeps the order.                                             *)

LEMMA InitStreamed == Init => InBuffers /\ CompleteRevolution
BY DEF Init, InBuffers, Between, CapsuleSized, Streamed, CompleteRevolution

LEMMA CacheStays ==
  ASSUME InBuffers, UNCHANGED cache
  PROVE  InBuffers'
BY DEF InBuffers, Between, CapsuleSized, Streamed, Holds, UpTo, cache

LEMMA ClientStreams ==
  ASSUME TypeOK, InBuffers, CompleteRevolution, ClientStep
  PROVE  InBuffers' /\ CompleteRevolution'
<1>0. ASSUME cached' \in {cached, <<>>}
      PROVE  CompleteRevolution'
  BY <1>0 DEF CompleteRevolution, SameRevolution
<1>1. CASE Join
  <2>1. UNCHANGED cache \/ (cpc' = "none" /\ decoder' = "nodes")
    BY <1>1 DEF Join, cache
  <2>2. cpc' = "none" /\ decoder' = "nodes" => InBuffers'
    BY DEF InBuffers, Between, CapsuleSized, Streamed
  <2>. QED BY <1>0, <1>1, <2>1, <2>2, CacheStays DEF Join
<1>2. CASE EnterScan
  <2>1. /\ cpc' = "discard" /\ limit' = BatchMax /\ got' = 0 /\ pos' = 1 /\ scan' = <<>>
        /\ cached' = cached
    BY <1>2 DEF EnterScan
  <2>. QED BY <1>0, <2>1 DEF InBuffers, Between, CapsuleSized, Streamed
<1>3. CASE ~Join /\ ~EnterScan
  <2>1. UNCHANGED cache /\ cached' \in {cached, <<>>}
    BY <1>3 DEF ClientStep, AcquireLock, CommandDone, CommandFail, OpenDone, DisableScanning,
       CheckScanning, EnterWithoutThread, Close, WaitElapses, WaitSignalled, TestCached, Consume,
       IntervalScanning, IntervalShift, IntervalRemaining, IntervalDrain, shared
  <2>. QED BY <1>0, <2>1, CacheStays
<1>. QED BY <1>1, <1>2, <1>3

\* What the thread receives.
LEMMA ReceiveStreams ==
  ASSUME TypeOK, InBuffers, ReceiveReturns \/ LoseNode, LinkFaults \subseteq {"silent"}
  PROVE  InBuffers'
<1>. USE DEF InBuffers
<1>0. /\ wire \in Wire /\ BatchMax \in Nat /\ BatchMax > 0 /\ got \in Nat /\ limit \in Nat
      /\ pos \in Nat /\ limit <= BatchMax /\ got < limit
  BY SizesAssumption DEF TypeOK
<1>1. "lose" \notin LinkFaults /\ "junk" \notin LinkFaults
  OBVIOUS
<1>2. CASE ReceiveNode
  <2>1. /\ decoder = "nodes" /\ decoder' = decoder /\ limit' = limit /\ scan' = scan
        /\ wire' = Succ(wire) /\ buf' = [buf EXCEPT ![got + 1] = NodeOf(wire)]
        /\ IF got + 1 = limit THEN BatchReady ELSE got' = got + 1 /\ cpc' = cpc /\ pos' = pos
        /\ cpc \in {"discard", "receive"}
    <3>1. Later(0 + 1) = Succ(wire) /\ NodeAt(0) = NodeOf(wire) /\ 0 + 1 = 1
      BY <1>0, LaterFollows
    <3>2. WireSkips(1) => wire' = Succ(wire)
      BY <1>0, <3>1, LaterFollows
    <3>. QED BY <1>2, <3>1, <3>2 DEF ReceiveNode, Receiving
  <2>2. CASE cpc = "discard"
    <3>1. scan = <<>> /\ pos = 1
      BY <2>2 DEF Streamed, Between
    <3>. QED BY <2>1, <2>2, <3>1 DEF Between, CapsuleSized, Streamed, BatchReady, UpTo
  <2>3. CASE cpc = "receive"
    <3>1. PICK p \in Wire : Holds(1, got, p) /\ UpTo(scan, p)
      BY <2>3 DEF Streamed
    <3>2. pos = 1
      BY <2>3 DEF Between
    <3>3. CASE got + 1 = limit
      <4>1. cpc' = "node" /\ got' = 0 /\ pos' = 1 /\ limit' = got + 1
        BY <2>1, <2>3, <3>3 DEF BatchReady
      <4>2. Holds(pos, limit, p)'
        BY <2>1, <3>1, <4>1, HoldsMore DEF Holds
      <4>3. UpTo(scan', p)
        BY <2>1, <3>1
      <4>. QED BY <2>1, <4>1, <4>2, <4>3 DEF Between, CapsuleSized, Streamed, UpTo
    <3>4. CASE got + 1 # limit
      <4>1. cpc' = "receive" /\ got' = got + 1 /\ pos' = 1
        BY <2>1, <2>3, <3>2, <3>4
      <4>2. Holds(1, got, p)'
        BY <2>1, <3>1, <4>1, HoldsMore DEF Holds
      <4>3. UpTo(scan', p)
        BY <2>1, <3>1
      <4>. QED BY <2>1, <4>1, <4>2, <4>3 DEF Between, CapsuleSized, Streamed, UpTo
    <3>. QED BY <3>3, <3>4
  <2>. QED BY <2>1, <2>2, <2>3
<1>3. CASE BatchExpires
  <2>1. /\ decoder = "nodes" /\ decoder' = decoder /\ limit' = got /\ scan' = scan /\ got' = 0
        /\ pos' = 1 /\ wire' = wire /\ buf' = buf
        /\ \/ cpc = "discard" /\ cpc' = "loop"
           \/ cpc = "receive" /\ cpc' = "node"
    BY <1>3 DEF BatchExpires, BatchReady, Receiving
  <2>2. CASE cpc = "discard"
    <3>1. scan = <<>>
      BY <2>2 DEF Streamed
    <3>. QED BY <2>1, <2>2, <3>1 DEF Between, CapsuleSized, Streamed, UpTo
  <2>3. CASE cpc = "receive"
    <3>1. PICK p \in Wire : Holds(1, got, p) /\ UpTo(scan, p)
      BY <2>3 DEF Streamed
    <3>2. Holds(pos, limit, p)' /\ UpTo(scan, p)'
      BY <2>1, <3>1 DEF Holds, UpTo
    <3>. QED BY <2>1, <2>3, <3>2 DEF Between, CapsuleSized, Streamed
  <2>. QED BY <2>1, <2>2, <2>3
<1>4. CASE LinkSilent
  <2>1. CASE cpc = "discard"
    <3>1. scan = <<>>
      BY <2>1 DEF Streamed
    <3>2. cpc' = "loop" /\ got' = 0 /\ pos' = 1 /\ scan' = scan /\ decoder' = decoder /\ limit' = limit
      BY <1>4, <2>1 DEF LinkSilent, BatchReady
    <3>. QED BY <3>1, <3>2 DEF Between, CapsuleSized, Streamed, UpTo
  <2>2. CASE cpc # "discard"
    <3>1. cpc' = "exited" /\ got' = 0 /\ decoder' = decoder /\ limit' = limit
      BY <1>4, <2>2 DEF LinkSilent
    <3>. QED BY <3>1 DEF Between, CapsuleSized, Streamed
  <2>. QED BY <2>1, <2>2
<1>5. CASE DiscardCapsule
  <2>1. scan = <<>> /\ got = 0 /\ pos = 1
    BY <1>5 DEF DiscardCapsule, Capsules, Streamed, CapsuleSized, Between
  <2>2. cpc' = "loop" /\ UNCHANGED <<limit, got, pos, scan, decoder>>
    BY <1>5 DEF DiscardCapsule
  <2>. QED BY <2>1, <2>2 DEF Between, CapsuleSized, Streamed, UpTo
<1>6. CASE HoldCapsule \/ AwaitCapsule
  <2>1. /\ cpc' = "loop" /\ limit' = limit /\ got' = got /\ pos' = pos /\ scan' = scan
        /\ wire' = wire /\ decoder # "nodes" /\ cpc \in {"discard", "receive"}
    BY <1>6 DEF HoldCapsule, AwaitCapsule, Capsules
  <2>2. got = 0 /\ limit = BatchMax /\ pos = 1
    BY <2>1 DEF CapsuleSized, Between
  <2>3. UpTo(scan, wire)
    <3>1. CASE cpc = "discard"
      BY <3>1 DEF Streamed, UpTo
    <3>2. CASE cpc = "receive"
      <4>1. PICK p \in Wire : Holds(1, got, p) /\ UpTo(scan, p)
        BY <3>2 DEF Streamed
      <4>2. p = wire
        BY <2>2, <4>1, Buffered
      <4>. QED BY <4>1, <4>2
    <3>. QED BY <2>1, <3>1, <3>2
  <2>. QED BY <2>1, <2>2, <2>3 DEF Between, CapsuleSized, Streamed, UpTo
<1>7. CASE DecodeCapsule
  <2>1. /\ cpc = "receive" /\ decoder # "nodes" /\ cpc' = "node" /\ WireSkips(BatchMax)
        /\ UNCHANGED <<limit, got, pos, scan, decoder>>
    BY <1>7 DEF DecodeCapsule, Capsules
  <2>2. got = 0 /\ limit = BatchMax /\ pos = 1
    BY <2>1 DEF CapsuleSized, Between
  <2>3. wire' = Later(BatchMax)
    BY <1>0, <2>1, LaterFollows
  <2>4. \A i \in 1 .. BatchMax : buf'[i] = NodeAt(i - 1)
    <3>1. Starts = {[i \in 1 .. BatchMax |-> NodeAt(i - 1).sync]}
      BY <1>1 DEF Starts
    <3>2. buf' = [i \in 1 .. BatchMax |-> [rev |-> NodeAt(i - 1).rev, sync |-> NodeAt(i - 1).sync]]
      BY <1>7, <3>1 DEF DecodeCapsule
    <3>3. \A n : NodeAt(n) = [rev |-> NodeAt(n).rev, sync |-> NodeAt(n).sync]
      BY Zenon DEF NodeAt
    <3>. QED BY <3>2, <3>3
  <2>5. PICK p \in Wire : Holds(1, got, p) /\ UpTo(scan, p)
    BY <2>1 DEF Streamed
  <2>6. p = wire
    BY <2>2, <2>5, Buffered
  <2>7. Holds(pos, limit, p)'
    BY <1>0, <2>1, <2>2, <2>3, <2>4, <2>6, HoldsCapsule DEF Holds
  <2>8. UpTo(scan, p)'
    BY <2>1, <2>5 DEF UpTo
  <2>. QED BY <2>1, <2>2, <2>7, <2>8 DEF Between, CapsuleSized, Streamed
<1>. QED
  BY <1>1, <1>2, <1>3, <1>4, <1>5, <1>6, <1>7
     DEF ReceiveReturns, BatchJunk, LoseNode, DamageCapsule

\* What it makes of it.
LEMMA AssembleStreams ==
  ASSUME TypeOK, InBuffers, CompleteRevolution,
         CacheLoop \/ Assemble \/ Publish \/ Signal \/ KeepInterval
  PROVE  InBuffers' /\ CompleteRevolution'
<1>. USE DEF InBuffers
<1>0. /\ wire \in Wire /\ BatchMax \in Nat /\ limit \in Nat /\ scan \in Seq(Node)
      /\ pos \in Nat /\ limit <= BatchMax /\ pos <= limit
  BY SizesAssumption DEF TypeOK
<1>u. ASSUME cached' = cached
      PROVE  CompleteRevolution'
  BY <1>u DEF CompleteRevolution, SameRevolution
<1>1. CASE CacheLoop
  <2>1. UNCHANGED <<cached, buf, limit, got, pos, scan, decoder, wire>> /\ cpc = "loop"
        /\ cpc' \in {"receive", "exited"}
    BY <1>1 DEF CacheLoop
  <2>2. got = 0 /\ pos = 1 /\ UpTo(scan, wire)
    BY <2>1 DEF Between, Streamed
  <2>3. Holds(1, got, wire) /\ wire \in Wire
    BY <1>0, <2>2, HoldsNothing
  <2>4. (Holds(1, got, wire) /\ UpTo(scan, wire))'
    BY <2>1, <2>2, <2>3 DEF Holds, UpTo
  <2>. QED BY <1>0, <1>u, <2>1, <2>2, <2>4 DEF Between, CapsuleSized, Streamed
<1>2. CASE Assemble
  <2>1. /\ cpc = "node" /\ cpc' = "interval"
        /\ scan' = AppendCapped(IF buf[pos].sync THEN <<>> ELSE scan, buf[pos])
        /\ UNCHANGED <<cached, buf, limit, got, pos, decoder, wire>>
    BY <1>2 DEF Assemble, shared
  <2>2. got = 0
    BY <2>1 DEF Between
  <2>3. PICK p \in Wire : Holds(pos, limit, p) /\ UpTo(scan, p)
    BY <2>1 DEF Streamed
  <2>4. buf[pos] = NodeOf(p) /\ Holds(pos + 1, limit, Succ(p)) /\ Succ(p) \in Wire
    BY <1>0, <2>3, Buffered, SuccIs
  <2>5. UpTo(scan', Succ(p))
    <3>1. CASE p.idx = 0
      <4>1. scan' = AppendCapped(<<>>, NodeOf(p))
        BY <2>1, <2>4, <3>1, NodeOfIs
      <4>2. scan' = <<NodeOf(p)>>
        BY <4>1, SizesAssumption DEF AppendCapped
      <4>. QED BY <4>2, UpToStarts
    <3>2. CASE p.idx # 0
      <4>1. scan' = AppendCapped(scan, NodeOf(p))
        BY <2>1, <2>4, <3>2, NodeOfIs
      <4>. QED BY <1>0, <2>3, <3>2, <4>1, UpToAppends
    <3>. QED BY <3>1, <3>2
  <2>6. (Holds(pos + 1, limit, Succ(p)))'
    BY <2>1, <2>4 DEF Holds, Succ
  <2>. QED BY <1>u, <2>1, <2>2, <2>4, <2>5, <2>6 DEF Between, CapsuleSized, Streamed, UpTo
<1>3. CASE Publish
  <2>1. /\ cpc = "node" /\ cpc' = "signal" /\ cached' = scan
        /\ buf[pos].sync /\ scan # <<>> /\ scan[1].sync
        /\ UNCHANGED <<buf, limit, got, pos, scan, decoder, wire>>
    BY <1>3 DEF Publish, Complete
  <2>2. PICK p \in Wire : Holds(pos, limit, p) /\ UpTo(scan, p)
    BY <2>1 DEF Streamed
  <2>3. buf[pos] = NodeOf(p)
    BY <1>0, <2>2, Buffered
  <2>4. p.idx = 0
    BY <2>1, <2>3, NodeOfIs
  <2>5. Len(scan) = Smaller(RevLen, ScanCap - 1) /\ \A i, j \in DOMAIN scan : scan[i].rev = scan[j].rev
    BY <2>1, <2>2, <2>4 DEF UpTo
  <2>6. (Holds(pos, limit, p) /\ UpTo(scan, p))'
    BY <2>1, <2>2 DEF Holds, UpTo
  <2>7. CompleteRevolution'
    BY <2>1, <2>5 DEF CompleteRevolution, SameRevolution
  <2>. QED BY <2>1, <2>6, <2>7 DEF Between, CapsuleSized, Streamed
<1>4. CASE Signal
  <2>1. /\ cpc = "signal" /\ cpc' = "interval" /\ scan' = <<buf[pos]>>
        /\ UNCHANGED <<cached, buf, limit, got, pos, decoder, wire>>
    BY <1>4 DEF Signal
  <2>2. PICK p \in Wire : Holds(pos, limit, p) /\ UpTo(scan, p)
    BY <2>1 DEF Streamed
  <2>3. buf[pos] = NodeOf(p) /\ Holds(pos + 1, limit, Succ(p)) /\ Succ(p) \in Wire
    BY <1>0, <2>2, Buffered, SuccIs
  <2>4. UpTo(scan', Succ(p))
    BY <2>1, <2>3, UpToStarts
  <2>5. (Holds(pos + 1, limit, Succ(p)))'
    BY <2>1, <2>3 DEF Holds, Succ
  <2>. QED BY <1>u, <2>1, <2>3, <2>4, <2>5 DEF Between, CapsuleSized, Streamed, UpTo
<1>5. CASE KeepInterval
  <2>1. /\ cpc = "interval" /\ UNCHANGED <<cached, buf, limit, got, scan, decoder, wire>>
        /\ IF pos < limit THEN pos' = pos + 1 /\ cpc' = "node" ELSE pos' = 1 /\ cpc' = "loop"
    BY <1>5 DEF KeepInterval
  <2>2. got = 0
    BY <2>1 DEF Between
  <2>3. PICK p \in Wire : Holds(pos + 1, limit, p) /\ UpTo(scan, p)
    BY <2>1 DEF Streamed
  <2>4. CASE pos < limit
    <3>1. (Holds(pos, limit, p) /\ UpTo(scan, p))'
      BY <2>1, <2>3, <2>4 DEF Holds, UpTo
    <3>. QED BY <1>u, <2>1, <2>2, <2>4, <3>1 DEF Between, CapsuleSized, Streamed
  <2>5. CASE ~(pos < limit)
    <3>1. pos = limit
      BY <1>0, <2>5
    <3>2. p = wire
      <4>1. pos + 1 \in Nat /\ limit < pos + 1 /\ limit + 1 = pos + 1
        BY <1>0, <3>1
      <4>. QED BY <1>0, <2>3, <4>1, Buffered
    <3>3. UpTo(scan, wire)'
      BY <2>1, <2>3, <3>2 DEF UpTo
    <3>. QED BY <1>u, <2>1, <2>2, <2>5, <3>3 DEF Between, CapsuleSized, Streamed
  <2>. QED BY <2>4, <2>5
<1>. QED BY <1>1, <1>2, <1>3, <1>4, <1>5

\* Over a link that may only fall silent, whatever the calls, the batches and
\* the length of a revolution: a published scan is one complete revolution, as
\* far as local_scan holds it.
THEOREM RevolutionsComplete ==
  LinkFaults \subseteq {"silent"} => (Spec => []CompleteRevolution)
<1> SUFFICES ASSUME LinkFaults \subseteq {"silent"}
             PROVE  Spec => []CompleteRevolution
  OBVIOUS
<1> DEFINE Inv == InBuffers /\ CompleteRevolution
<1>1. TypeOK /\ Inv /\ [Next]_vars => Inv'
  <2> SUFFICES ASSUME TypeOK, InBuffers, CompleteRevolution, [Next]_vars
               PROVE  InBuffers' /\ CompleteRevolution'
    OBVIOUS
  <2>1. CASE UNCHANGED vars \/ \E api \in Calls : Call(api)
    <3>1. UNCHANGED cache /\ cached' = cached
      BY <2>1 DEF vars, shared, Call
    <3>. QED BY <3>1, CacheStays DEF CompleteRevolution, SameRevolution
  <2>2. CASE ClientStep
    BY <2>2, ClientStreams
  <2>3. CASE ReceiveReturns \/ LoseNode
    <3>1. cached' = cached
      BY <2>3 DEF ReceiveReturns, ReceiveNode, BatchExpires, BatchJunk, LinkSilent, DiscardCapsule,
         HoldCapsule, DecodeCapsule, DamageCapsule, AwaitCapsule, LoseNode, shared
    <3>. QED BY <2>3, <3>1, ReceiveStreams DEF CompleteRevolution, SameRevolution
  <2>4. CASE CacheLoop \/ Assemble \/ Publish \/ Signal \/ KeepInterval
    BY <2>4, AssembleStreams
  <2>. QED BY <2>1, <2>2, <2>3, <2>4 DEF Next, CacheStep
<1>2. Init => Inv
  BY InitStreamed
<1>. QED
  BY <1>1, <1>2, TypeCorrect, PTL DEF Spec

\* Nodes leave the interval buffer of a living driver into a caller's hands
\* only, whatever the capacities.
THEOREM IntervalsDelivered == Spec => IntervalDelivered
<1>1. TypeOK /\ [Next]_vars =>
        [interval' < interval =>
           \/ ~isConnected'
           \/ res'.api = "interval" /\ res'.stored = interval - interval']_vars
  <2> SUFFICES ASSUME TypeOK, Next, interval' < interval, isConnected'
               PROVE  res'.api = "interval" /\ res'.stored = interval - interval'
    OBVIOUS
  <2>0. interval \in Nat /\ interval <= IntervalCap - 1 /\ IntervalCap \in Nat /\ ClientCap \in Nat
    BY SizesAssumption DEF TypeOK
  <2>1. interval' # interval
    BY <2>0
  <2>2. CASE IntervalShift
    <3>1. interval # 0 /\ interval' = interval - Smaller(interval, ClientCap)
          /\ res' = IntervalResult("OK", Smaller(interval, ClientCap), Smaller(interval, ClientCap))
      BY <2>1, <2>2 DEF IntervalShift
    <3>. QED BY <2>0, <3>1 DEF IntervalResult, Smaller
  <2>3. CASE IntervalDrain
    <3>1. interval # 0 /\ interval' = 0 /\ res' = IntervalResult("OK", interval, interval)
      BY <2>1, <2>3 DEF IntervalDrain, Return
    <3>. QED BY <2>0, <3>1 DEF IntervalResult
  <2>4. CASE KeepInterval
    BY <2>0, <2>4 DEF KeepInterval, Smaller
  <2>5. CASE Close
    BY <2>5 DEF Close
  <2>6. CASE ClientStep /\ ~IntervalShift /\ ~IntervalDrain /\ ~Close
    BY <2>1, <2>6 DEF ClientStep, AcquireLock, CommandDone, CommandFail, OpenDone, DisableScanning,
       Join, CheckScanning, EnterScan, EnterWithoutThread, WaitElapses, WaitSignalled, TestCached,
       Consume, IntervalScanning, IntervalRemaining, shared
  <2>7. CASE CacheStep /\ ~KeepInterval
    BY <2>1, <2>7 DEF CacheStep, ReceiveReturns, ReceiveNode, BatchExpires, BatchJunk, LinkSilent,
       DiscardCapsule, HoldCapsule, DecodeCapsule, DamageCapsule, AwaitCapsule, LoseNode, CacheLoop,
       Assemble, Publish, Signal, shared
  <2>8. CASE \E api \in Calls : Call(api)
    BY <2>1, <2>8 DEF Call, shared
  <2>. QED BY <2>2, <2>3, <2>4, <2>5, <2>6, <2>7, <2>8 DEF Next
<1>. QED
  BY <1>1, TypeCorrect, PTL DEF Spec, IntervalDelivered
=============================================================================

--------------------------- MODULE CapsuleDecoder ---------------------------
(***************************************************************************)
(* The decoding of an express scan (sdk/src/rplidar_driver.cpp): how the   *)
(* caching thread finds capsules in the bytes of the channel               *)
(* (_waitCapsuledNode), keeps the one before, spreads its measurements     *)
(* over the angle to the next (_capsuleToNormal) and sets the start bit    *)
(* (_getSyncBitByAngle).  The ultra and dense capsules differ in their     *)
(* number of measurements only.  A capsule of an HQ scan (_waitHqNode,     *)
(* _HqToNormal) has one sync byte and is decoded by itself.                *)
(*                                                                         *)
(* A capsule is two bytes that begin it and a payload whose bytes may look *)
(* like sync bytes; its checksum is right exactly when it is the bytes of  *)
(* one capsule.  The measured distances are left out.                      *)
(***************************************************************************)
EXTENDS Naturals

CONSTANTS
  Payload,     \* bytes of a capsule after the first two
  Looks,       \* what the payloads may look like
  Circle,      \* the start angles a capsule may have, 360 degrees
  Steps,       \* how far the lidar turns from one capsule to the next
  Cabins,      \* measurements in a capsule
  MaxDrops, MaxTimeouts, MaxScans   \* bounds: bytes lost or damaged, timeouts, scans started

CapsuleLen == Payload + 2

Plain == [i \in 1 .. Payload |-> "plain"]

\* The lidar turns from one capsule to the next: of two equal start angles, as
\* of a motor that stands, the increment is zero, and _getSyncBitByAngle and
\* its callers divide by it (lines 668, 847 and 1239).  What that division
\* does is not modelled, so that nothing is shown of a lidar that stands.
ASSUME DecoderAssumption ==
  /\ Payload \in Nat \ {0} /\ Cabins \in Nat \ {0} /\ Circle \in Nat \ {0}
  /\ Looks \subseteq [1 .. Payload -> {"sync1", "sync2", "plain"}] /\ Plain \in Looks
  /\ Steps # {} /\ Steps \subseteq {s \in 1 .. Circle - 1 : 4 * s < Circle * Cabins}
  /\ MaxDrops \in 0 .. CapsuleLen - 1 /\ MaxTimeouts \in Nat /\ MaxScans \in Nat

Formats == {"express", "hq"}

VARIABLES
  format,                   \* the scan that was started
  angle, first, look, idx,  \* the capsule the device is sending, its next byte
  recvPos,
  clean,    \* there are bytes in nodeBuffer, the first ones of that capsule
  phase,    \* the thread discards its first capsule, then runs
  ready,    \* _is_previous_capsuledataRdy and _is_previous_HqdataRdy
  prev,     \* the start angle of _cached_previous_capsuledata
  age,      \* capsules begun since that one, 2 for more or if it was dropped
  torn,     \* a timeout broke off a capsule since
  found,    \* _syncBit_is_finded
  pair,     \* what the cached capsule was interpolated with last
  turn,     \* how far the scan went since the last start bit
  starts,   \* start bits since the capsules follow one another, 3 for more
  lap,      \* how far it went between the last two of them, or a turn
  drops, timeouts, scans

device == <<format, angle, first, look, idx>>
parser == <<recvPos, clean, phase>>
cached == <<ready, prev, age, torn>>
output == <<found, pair, turn, starts, lap>>
bounds == <<drops, timeouts, scans>>
vars == <<device, parser, cached, output, bounds>>

\* An HQ capsule has none.
StartAngles(f) == IF f = "express" THEN 0 .. Circle - 1 ELSE {0}

\* The constructor initialises neither flag in ready nor _syncBit_is_finded,
\* nor what is cached.
Init ==
  /\ format \in Formats /\ angle \in StartAngles(format)
  /\ first = TRUE /\ look \in Looks /\ idx = 0
  /\ recvPos = 0 /\ clean = FALSE /\ phase = "discard"
  /\ ready \in [Formats -> BOOLEAN] /\ prev \in 0 .. Circle - 1 /\ age = 2 /\ torn = FALSE
  /\ found \in BOOLEAN /\ pair = "none" /\ turn = 0 /\ starts = 0 /\ lap = Circle * Cabins
  /\ drops = 0 /\ timeouts = 0 /\ scans = 1

-----------------------------------------------------------------------------
(* The device.                                                             *)

ByteSent ==
  CASE idx = 0 -> "sync1"
    [] idx = 1 -> IF format = "express" THEN "sync2" ELSE "plain"
    [] OTHER -> look[idx - 1]

\* age as it is once the device has sent its next byte.
Older(a) == IF idx + 1 < CapsuleLen \/ a = 2 THEN a ELSE a + 1

SendsByte(nextLook) ==
  /\ UNCHANGED format
  /\ IF idx + 1 < CapsuleLen
       THEN idx' = idx + 1 /\ UNCHANGED <<angle, first, look>>
       ELSE /\ idx' = 0 /\ first' = FALSE /\ look' = nextLook
            /\ IF format = "hq" THEN UNCHANGED angle
               ELSE \E s \in Steps : angle' = (angle + s) % Circle

-----------------------------------------------------------------------------
(* The angles, in units of which Cabins make one of the device's.          *)

\* diffAngle: the start angle may have gone through 360 degrees.
AngleInc(from, to) == IF from > to THEN to + Circle - from ELSE to - from

Predict(from, to, i) == (from * Cabins + i * AngleInc(from, to)) % (Circle * Cabins)

\* (mutant) the start found is never forgotten
SyncBitFound_Sticks(was, angleq) ==
  IF was THEN TRUE ELSE 0 < angleq /\ 4 * angleq < Circle * Cabins

\* (mutant) the comparison that forgets the start is the wrong way round
SyncBitFound_Reversed(was, angleq) ==
  IF was THEN 4 * angleq > 3 * Circle * Cabins
         ELSE 0 < angleq /\ 4 * angleq < Circle * Cabins

\* _getSyncBitByAngle: found between 0 and 90 degrees, forgotten past 270.
SyncBitFound(was, angleq) ==
  IF was THEN 4 * angleq <= 3 * Circle * Cabins
         ELSE 0 < angleq /\ 4 * angleq < Circle * Cabins

\* One more measurement, inc further on: it has the start bit or not.
Measured(last, inc, angleq) ==
  LET now == SyncBitFound(last.found, angleq)
  IN IF now /\ ~last.found
       THEN [found |-> now, turn |-> 0,
             starts |-> IF last.starts = 3 THEN 3 ELSE last.starts + 1,
             lap |-> IF last.starts = 0 THEN last.lap ELSE last.turn + inc]
       ELSE [last EXCEPT !.found = now, !.turn = @ + inc]

\* The measurements of the capsule at `from', one after the other.
Interpolate(from, to, was) ==
  LET node[i \in 0 .. Cabins] ==
        IF i = 0 THEN was
        ELSE Measured(node[i - 1], AngleInc(from, to), Predict(from, to, i))
  IN node[Cabins]

-----------------------------------------------------------------------------
(* The parser and the decoder.                                             *)

Raise(flag) == ready' = [ready EXCEPT ![format] = flag]

\* The flag after a checksum that is right: the first capsule of an express
\* scan lowers it, an HQ capsule raises its own.
FirstDrops == ready["express"] /\ ~first
Checked == format = "hq" \/ FirstDrops

\* What is counted of the scan is counted from one capsule to the next only.
CountAnew == turn' = 0 /\ starts' = 0 /\ lap' = Circle * Cabins

\* Nothing was cached: the capsule is kept for the next.
Hold == CountAnew /\ UNCHANGED <<found, pair>>

\* The capsule before this one comes out.
Decode ==
  LET new == Interpolate(prev, angle,
               [found |-> found, turn |-> turn, starts |-> starts, lap |-> lap])
  IN /\ found' = new.found
     /\ IF age = 1
          THEN pair' = "next" /\ turn' = new.turn /\ starts' = new.starts /\ lap' = new.lap
          ELSE pair' = (IF torn THEN "torn" ELSE "apart") /\ CountAnew

ToNormal ==
  /\ IF FirstDrops THEN Decode ELSE Hold
  /\ prev' = angle

\* The measurements of an HQ capsule come with their angles and start bits;
\* what _cached_previous_Hqdata keeps of it is not used.
HqToNormal == UNCHANGED <<prev, output>>

\* (mutant) the flag is not set again
GoodCapsule_NotReady ==
  /\ phase' = "run" /\ Raise(FirstDrops) /\ torn' = FALSE /\ age' = Older(0)
  /\ IF format = "express" THEN ToNormal ELSE HqToNormal

\* A capsule is complete and right; the first of a thread is thrown away.
GoodCapsule ==
  IF phase = "discard"
    THEN /\ Raise(Checked) /\ phase' = "run"
         /\ age' = Older(age)
         /\ UNCHANGED <<prev, torn, output>>
    ELSE /\ IF format = "express" THEN ToNormal ELSE HqToNormal
         /\ Raise(TRUE) /\ torn' = FALSE /\ age' = Older(0)
         /\ UNCHANGED phase

\* No capsule is cached that the next one could follow.
Forget ==
  /\ Raise(FALSE) /\ age' = 2 /\ torn' = FALSE
  /\ pair' = "none" /\ CountAnew
  /\ UNCHANGED <<prev, found>>

\* (mutant) a wrong checksum keeps the capsule before
BadCapsule_Keeps == phase' = "run" /\ age' = Older(age) /\ UNCHANGED <<ready, prev, torn, output>>

BadCapsule == phase' = "run" /\ Forget

ExpressExpects(byte) ==
  CASE recvPos = 0 -> byte = "sync1" [] recvPos = 1 -> byte = "sync2" [] OTHER -> TRUE
HqExpects(byte) == recvPos = 0 => byte = "sync1"

Expected(byte) == IF format = "express" THEN ExpressExpects(byte) ELSE HqExpects(byte)

\* intact: the byte is what the device sent.
Takes(byte, intact, nextLook) ==
  /\ SendsByte(nextLook)
  /\ IF ~Expected(byte)
       THEN recvPos' = 0 /\ clean' = FALSE /\ Forget /\ UNCHANGED phase
       ELSE LET goesOn == intact /\ idx = recvPos /\ (recvPos = 0 \/ clean)
            IN IF recvPos + 1 < CapsuleLen
                 THEN /\ recvPos' = recvPos + 1 /\ clean' = goesOn
                      /\ age' = Older(age)
                      /\ UNCHANGED <<phase, ready, prev, torn, output>>
                 ELSE /\ recvPos' = 0 /\ clean' = FALSE
                      /\ IF goesOn THEN GoodCapsule ELSE BadCapsule

ReceiveByte(nextLook) == Takes(ByteSent, TRUE, nextLook) /\ UNCHANGED bounds

DamageByte ==
  /\ drops < MaxDrops /\ drops' = drops + 1
  /\ \E nextLook \in Looks : Takes("plain", FALSE, nextLook)
  /\ UNCHANGED <<timeouts, scans>>

LoseByte ==
  /\ drops < MaxDrops /\ drops' = drops + 1
  /\ \E nextLook \in Looks : SendsByte(nextLook)
  /\ age' = Older(age)
  /\ UNCHANGED <<parser, ready, prev, torn, output, timeouts, scans>>

\* waitfordata gives up: what was received of a capsule is gone, and the
\* capsule before it is kept all the same.
WaitTimesOut ==
  /\ timeouts < MaxTimeouts /\ timeouts' = timeouts + 1
  /\ recvPos' = 0 /\ clean' = FALSE /\ phase' = "run" /\ torn' = (torn \/ recvPos > 0)
  /\ UNCHANGED <<device, ready, prev, age, output, drops, scans>>

\* The bytes kept coming without a capsule until the time was up.
SearchTimesOut ==
  /\ timeouts < MaxTimeouts /\ timeouts' = timeouts + 1
  /\ recvPos' = 0 /\ clean' = FALSE /\ phase' = "run" /\ Forget
  /\ UNCHANGED <<device, drops, scans>>

\* stop, and startScanExpress again, in the same format or the other: the
\* answer to the command is looked for past what is left of the old scan, and
\* the decoder keeps what it has.
StartScan ==
  /\ scans < MaxScans /\ scans' = scans + 1
  /\ format' \in Formats /\ angle' \in StartAngles(format')
  /\ first' = TRUE /\ look' \in Looks /\ idx' = 0
  /\ recvPos' = 0 /\ clean' = FALSE /\ phase' = "discard"
  /\ age' = 2 /\ torn' = FALSE /\ pair' = "none" /\ CountAnew
  /\ UNCHANGED <<ready, prev, found, drops, timeouts>>

Next ==
  \/ \E nextLook \in Looks : ReceiveByte(nextLook)
  \/ LoseByte \/ DamageByte \/ WaitTimesOut \/ SearchTimesOut \/ StartScan

Spec == Init /\ [][Next]_vars

\* Bytes keep coming, and capsules that look like nothing else come again and
\* again, for the measurements differ.
FairSpec ==
  /\ Spec
  /\ WF_vars(\E nextLook \in Looks : ReceiveByte(nextLook))
  /\ SF_vars(idx = CapsuleLen - 1 /\ ReceiveByte(Plain))

-----------------------------------------------------------------------------
DeviceTypes ==
  /\ format \in Formats /\ angle \in 0 .. Circle - 1
  /\ first \in BOOLEAN /\ look \in Looks /\ idx \in 0 .. CapsuleLen - 1

ParserTypes ==
  recvPos \in 0 .. CapsuleLen - 1 /\ clean \in BOOLEAN /\ phase \in {"discard", "run"}

CachedTypes ==
  /\ ready \in [Formats -> BOOLEAN] /\ prev \in 0 .. Circle - 1
  /\ age \in {1, 2} /\ torn \in BOOLEAN

OutputTypes ==
  /\ found \in BOOLEAN /\ pair \in {"none", "next", "torn", "apart"}
  /\ turn \in Nat /\ starts \in 0 .. 3 /\ lap \in Nat

TypeOK == DeviceTypes /\ ParserTypes /\ CachedTypes /\ OutputTypes

\* Measurements are spread between a capsule and the very next one of the same
\* scan, whatever bytes were lost or damaged and whatever earlier scans left cached; but
\* for a capsule that a timeout broke off, or one that was lost to the byte
\* (MaxDrops are fewer), which nothing in the next one tells.
Consecutive == pair # "apart"

\* One start bit in every turn: from one to the next the scan goes round once,
\* give or take a measurement.  The first of consecutive capsules may come
\* anywhere in its quarter, if an earlier scan left _syncBit_is_finded unset,
\* and the turn that follows is short of as much.
OneStartPerTurn ==
  /\ \E t \in Steps : lap < Circle * Cabins + t
  /\ 4 * lap > 3 * Circle * Cabins
  /\ starts = 3 => \E s \in Steps : lap > Circle * Cabins - s

\* And it does not fail to come, whatever an earlier scan left in
\* _syncBit_is_finded: of consecutive capsules, no more than a turn and a
\* quarter is without a start.
StartComes == 4 * turn <= 5 * Circle * Cabins

\* After the last loss a capsule is recognised and kept again, and again.
Recovers == []<>(ready[format] /\ idx = 0 /\ age = 1)
=============================================================================

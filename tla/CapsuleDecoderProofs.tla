------------------------ MODULE CapsuleDecoderProofs ------------------------
(***************************************************************************)
(* The decoding of an express scan, for capsules of any length and any     *)
(* number of measurements, a circle of any size and any steps that stay    *)
(* below a quarter turn: what is interpolated are neighbours, whatever     *)
(* bytes were lost, and every turn gets one start bit.                     *)
(*                                                                         *)
(* The second is an induction over the measurements of a capsule.  They    *)
(* are a recursive function, which has to be shown to exist first.         *)
(***************************************************************************)
EXTENDS CapsuleDecoder, FiniteSetTheorems, TLAPS

-----------------------------------------------------------------------------
(* Induction over a set of natural numbers: among the numbers left out up  *)
(* to some bound there would be a least, for finite sets are well-founded. *)

LEMMA NaturalInduction ==
  ASSUME NEW S, 0 \in S, \A n \in Nat : n \in S => n + 1 \in S
  PROVE  \A n \in Nat : n \in S
<1> SUFFICES ASSUME NEW m \in Nat, m \notin S
             PROVE  FALSE
  OBVIOUS
<1> DEFINE P == 0 .. m
           F == {0 .. n : n \in P \ S}
<1>1. IsFiniteSet(P)
  BY FS_Interval
<1>2. F \subseteq SUBSET P /\ F # {}
  <2>1. ASSUME NEW n \in P \ S
        PROVE  0 .. n \subseteq P
    OBVIOUS
  <2>2. m \in P \ S
    OBVIOUS
  <2>. QED
    BY <2>1, <2>2
<1>3. PICK A \in F : \A B \in F : <<B, A>> \notin StrictSubsetOrdering(P)
  <2>1. F \subseteq FiniteSubsetsOf(P)
    <3> HIDE DEF F, P
    <3>. QED
      BY <1>1, <1>2, FS_Subset DEF FiniteSubsetsOf
  <2> HIDE DEF F, P
  <2>. QED
    BY <1>1, <1>2, <2>1, FS_StrictSubsetOrderingWellFounded, WFMin
<1>4. PICK x \in P \ S : A = 0 .. x
  OBVIOUS
<1>5. x \in Nat /\ x # 0 /\ x - 1 \in P
  OBVIOUS
<1>6. x - 1 \notin S
  <2>1. x - 1 \in Nat /\ (x - 1) + 1 = x
    BY <1>5
  <2>. QED
    BY <1>4, <2>1
<1>7. 0 .. x - 1 \in F
  BY <1>5, <1>6
<1>8. 0 .. x - 1 \subseteq A /\ 0 .. x - 1 # A
  <2>1. x \in A /\ x \notin 0 .. x - 1
    BY <1>4, <1>5
  <2>. QED
    BY <1>4, <1>5, <2>1
<1>. QED
  <2>1. A \in SUBSET P /\ 0 .. x - 1 \in SUBSET P
    BY <1>2, <1>7
  <2>. QED
    BY <1>3, <1>7, <1>8, <2>1 DEF StrictSubsetOrdering

-----------------------------------------------------------------------------
(* Angles.  Around is the circle in the units of the measurements.         *)

Around == Circle * Cabins

LEMMA Constants ==
  /\ Around \in Nat /\ Around > 0 /\ Circle \in Nat /\ Circle > 0 /\ Cabins \in Nat /\ Cabins > 0
  /\ CapsuleLen \in Nat /\ CapsuleLen >= 3 /\ MaxDrops < CapsuleLen /\ MaxDrops \in Nat
  /\ \A s \in Steps : s \in Nat /\ s > 0 /\ s < Circle /\ 4 * s < Around
<1>1. Circle \in Nat /\ Circle > 0 /\ Cabins \in Nat /\ Cabins > 0
  BY DecoderAssumption
<1>2. Around \in Nat /\ Around > 0
  BY <1>1 DEF Around
<1>3. \A s \in Steps : s \in Nat /\ s > 0 /\ s < Circle /\ 4 * s < Around
  BY DecoderAssumption DEF Around
<1>4. /\ CapsuleLen \in Nat /\ CapsuleLen >= 3 /\ MaxDrops < CapsuleLen /\ MaxDrops \in Nat
  BY DecoderAssumption DEF CapsuleLen
<1>. QED
  BY <1>1, <1>2, <1>3, <1>4

LEMMA Modulo ==
  ASSUME NEW N \in Nat, N > 0, NEW x \in Nat
  PROVE  /\ x % N \in 0 .. N - 1
         /\ x < N + N => x % N = IF x < N THEN x ELSE x - N
OBVIOUS

LEMMA Times ==
  ASSUME NEW a \in Nat, NEW b \in Nat, NEW c \in Nat
  PROVE  /\ a * c \in Nat
         /\ a <= b => a * c <= b * c
         /\ a < b /\ c > 0 => a * c < b * c
         /\ (a + 1) * c = a * c + c
         /\ (a + b) * c = a * c + b * c
         /\ a * c = c * a
OBVIOUS

\* The increment is the step, wherever the circle closes.
LEMMA NextAngle ==
  ASSUME NEW from \in 0 .. Circle - 1, NEW s \in Steps, NEW to, to = (from + s) % Circle
  PROVE  AngleInc(from, to) = s /\ to \in 0 .. Circle - 1
         /\ to = IF from + s < Circle THEN from + s ELSE from + s - Circle
<1>1. to = IF from + s < Circle THEN from + s ELSE from + s - Circle
  BY Constants, Modulo
<1>. QED
  BY <1>1, Constants DEF AngleInc

\* The measurements are one increment apart and end at the next capsule.
LEMMA Predicted ==
  ASSUME NEW from \in 0 .. Circle - 1, NEW s \in Steps, NEW to, to = (from + s) % Circle
  PROVE  /\ Predict(from, to, 0) = from * Cabins
         /\ Predict(from, to, Cabins) = to * Cabins
         /\ \A i \in 0 .. Cabins : Predict(from, to, i) \in 0 .. Around - 1
         /\ \A i \in 0 .. Cabins - 1 :
              LET a == Predict(from, to, i)
              IN  Predict(from, to, i + 1) = IF a + s < Around THEN a + s ELSE a + s - Around
<1> DEFINE x(i) == from * Cabins + i * s
<1>1. \A i : Predict(from, to, i) = x(i) % Around
  BY NextAngle DEF Predict, Around
<1>2. /\ from \in Nat /\ from < Circle /\ to \in Nat /\ to < Circle
      /\ from * Cabins \in Nat /\ to * Cabins \in Nat
      /\ from * Cabins < Around /\ to * Cabins < Around
  <2>1. from \in Nat /\ from < Circle /\ to \in Nat /\ to < Circle
    BY NextAngle, Constants
  <2>. QED
    BY <2>1, Constants, Times DEF Around
<1>3. Cabins * s \in Nat /\ Cabins * s < Around
  <2>1. s * Cabins < Around /\ s * Cabins \in Nat /\ s * Cabins = Cabins * s
    BY Constants, Times DEF Around
  <2>. QED
    BY <2>1
<1>4. \A i \in 0 .. Cabins : i * s \in Nat /\ i * s <= Cabins * s
  BY Constants, Times
<1>5. \A i \in 0 .. Cabins : x(i) \in Nat /\ x(i) < Around + Around
  BY <1>2, <1>3, <1>4, Constants
<1>6. \A i \in 0 .. Cabins - 1 : x(i + 1) = x(i) + s
  <2> SUFFICES ASSUME NEW i \in 0 .. Cabins - 1
               PROVE  x(i + 1) = x(i) + s
    OBVIOUS
  <2>1. i \in Nat /\ i \in 0 .. Cabins /\ s \in Nat
    BY Constants
  <2>2. (i + 1) * s = i * s + s
    BY <2>1, Times
  <2>3. i * s \in Nat
    BY <1>4, <2>1
  <2> HIDE DEF x
  <2>4. x(i + 1) = from * Cabins + (i * s + s) /\ x(i) = from * Cabins + i * s
    BY <2>2 DEF x
  <2>. QED
    BY <1>2, <2>1, <2>3, <2>4
<1>7. x(0) = from * Cabins
  <2>1. 0 * s = 0
    BY Constants
  <2>. QED
    BY <1>2, <2>1
<1>8. x(Cabins) = IF from + s < Circle THEN to * Cabins ELSE to * Cabins + Around
  <2>1. x(Cabins) = (from + s) * Cabins
    BY <1>2, Constants, Times
  <2>2. CASE from + s < Circle
    BY <2>1, <2>2, NextAngle
  <2>3. CASE ~(from + s < Circle)
    <3>1. from + s = to + Circle
      BY <2>3, NextAngle, Constants
    <3>2. (to + Circle) * Cabins = to * Cabins + Circle * Cabins
      BY <1>2, Constants, Times
    <3>. QED
      BY <2>1, <2>3, <3>1, <3>2 DEF Around
  <2>. QED
    BY <2>2, <2>3
<1> HIDE DEF x
<1>9. \A i \in 0 .. Cabins : Predict(from, to, i) = IF x(i) < Around THEN x(i) ELSE x(i) - Around
  BY <1>1, <1>5, Constants, Modulo
<1>10. Predict(from, to, 0) = from * Cabins
  BY <1>2, <1>7, <1>9, Constants
<1>11. Predict(from, to, Cabins) = to * Cabins
  BY <1>2, <1>8, <1>9, Constants
<1>12. \A i \in 0 .. Cabins : Predict(from, to, i) \in 0 .. Around - 1
  BY <1>5, <1>9, Constants
<1>13. ASSUME NEW i \in 0 .. Cabins - 1
       PROVE  LET a == Predict(from, to, i)
              IN  Predict(from, to, i + 1) = IF a + s < Around THEN a + s ELSE a + s - Around
  <2>1. i \in 0 .. Cabins /\ i + 1 \in 0 .. Cabins
    BY Constants
  <2>. QED
    BY <1>5, <1>6, <1>9, <2>1, Constants
<1>. QED
  BY <1>10, <1>11, <1>12, <1>13

-----------------------------------------------------------------------------
(* The measurements of a capsule.                                          *)

Records == [found : BOOLEAN, turn : Nat, starts : 0 .. 3, lap : Nat]

\* How far the scan may have gone since the last start bit, with the last
\* measurement at a: while _syncBit_is_finded, and while it is not.
FarFound(far, a) == IF 4 * a <= 3 * Around THEN 4 * far <= Around + 4 * a ELSE far = 0
FarSought(far, a) ==
  IF 4 * a >= Around THEN 4 * far <= Around + 4 * a
  ELSE IF a = 0 THEN 4 * far <= 5 * Around ELSE far = 0

\* The last start bit was at p.
SinceFound(p, far, a) == p <= a /\ 4 * a <= 3 * Around /\ far = a - p
SinceSought(p, far, a) ==
  IF a = 0 THEN far = Around - p ELSE 4 * a > 3 * Around /\ far = a - p

\* It was in its quarter, and the first measurement there unless it is the
\* first of all.
Began(n, p) == 4 * p < Around /\ (n >= 2 => \E s \in Steps : p <= s)

Lap(n, l) ==
  /\ \E t \in Steps : l < Around + t
  /\ 4 * l > 3 * Around
  /\ n = 3 => \E s \in Steps : l > Around - s

Turning(r, a) ==
  /\ IF r.found THEN FarFound(r.turn, a) ELSE FarSought(r.turn, a)
  /\ r.starts > 0 => \E p \in 1 .. Around - 1 :
                        /\ Began(r.starts, p)
                        /\ IF r.found THEN SinceFound(p, r.turn, a) ELSE SinceSought(p, r.turn, a)
  /\ Lap(r.starts, r.lap)

LEMMA SyncBitIs ==
  ASSUME NEW was \in BOOLEAN, NEW a \in Nat
  PROVE  /\ SyncBitFound(was, a) \in BOOLEAN
         /\ SyncBitFound(was, a) <=> IF was THEN 4 * a <= 3 * Around ELSE 0 < a /\ 4 * a < Around
<1>1. 3 * Circle * Cabins = 3 * Around
  BY Constants DEF Around
<1>2. CASE was
  <2>1. SyncBitFound(was, a) = (4 * a <= 3 * Circle * Cabins)
    BY <1>2 DEF SyncBitFound
  <2>2. (4 * a <= 3 * Around) \in BOOLEAN
    OBVIOUS
  <2>. QED
    BY <1>1, <1>2, <2>1, <2>2
<1>3. CASE ~was
  <2>1. SyncBitFound(was, a) = (0 < a /\ 4 * a < Circle * Cabins)
    BY <1>3 DEF SyncBitFound
  <2>2. (0 < a /\ 4 * a < Circle * Cabins) \in BOOLEAN
    OBVIOUS
  <2>. QED
    BY <1>3, <2>1, <2>2 DEF Around
<1>. QED
  BY <1>2, <1>3

LEMMA MeasuredType ==
  ASSUME NEW r \in Records, NEW inc \in Nat, NEW a \in Nat
  PROVE  Measured(r, inc, a) \in Records
<1>1. SyncBitFound(r.found, a) \in BOOLEAN
  BY SyncBitIs DEF Records
<1>2. ASSUME NEW now \in BOOLEAN, now = SyncBitFound(r.found, a)
      PROVE  Measured(r, inc, a) \in Records
  <2>1. CASE now /\ ~r.found
    BY <1>2, <2>1 DEF Measured, Records
  <2>2. CASE ~(now /\ ~r.found)
    <3>1. Measured(r, inc, a) = [r EXCEPT !.found = now, !.turn = r.turn + inc]
      BY <1>2, <2>2 DEF Measured
    <3>2. r.turn + inc \in Nat
      BY DEF Records
    <3>. QED
      BY <3>1, <3>2 DEF Records
  <2>. QED
    BY <2>1, <2>2
<1>. QED
  BY <1>1, <1>2

\* The next measurement is at b, a step s on.
On(a, s, b) == b = IF a + s < Around THEN a + s ELSE a + s - Around

LEMMA OnFacts ==
  ASSUME NEW a \in 0 .. Around - 1, NEW s \in Steps, NEW b, On(a, s, b)
  PROVE  /\ Around \in Nat /\ a \in Nat /\ a < Around /\ s \in Nat /\ s > 0 /\ 4 * s < Around
         /\ b \in Nat /\ b < Around
         /\ b = a + s \/ b = a + s - Around
BY Constants DEF On

\* The start found stays found,
LEMMA StaysFound ==
  ASSUME NEW a \in 0 .. Around - 1, NEW s \in Steps, NEW b, On(a, s, b), NEW far \in Nat,
         4 * b <= 3 * Around
  PROVE  /\ FarFound(far, a) => FarFound(far + s, b)
         /\ \A p \in 1 .. Around - 1 : SinceFound(p, far, a) => SinceFound(p, far + s, b)
BY OnFacts DEF On, FarFound, SinceFound

\* or is forgotten in the last quarter,
LEMMA Forgotten ==
  ASSUME NEW a \in 0 .. Around - 1, NEW s \in Steps, NEW b, On(a, s, b), NEW far \in Nat,
         4 * b > 3 * Around
  PROVE  /\ FarFound(far, a) => FarSought(far + s, b)
         /\ \A p \in 1 .. Around - 1 : SinceFound(p, far, a) => SinceSought(p, far + s, b)
<1>1. FarFound(far, a) => FarSought(far + s, b)
  BY OnFacts DEF On, FarFound, FarSought
<1>2. \A p \in 1 .. Around - 1 : SinceFound(p, far, a) => SinceSought(p, far + s, b)
  BY OnFacts DEF On, SinceFound, SinceSought
<1>. QED
  BY <1>1, <1>2

\* where the next is looked for,
LEMMA Sought ==
  ASSUME NEW a \in 0 .. Around - 1, NEW s \in Steps, NEW b, On(a, s, b), NEW far \in Nat,
         ~(0 < b /\ 4 * b < Around)
  PROVE  /\ FarSought(far, a) => FarSought(far + s, b)
         /\ \A p \in 1 .. Around - 1 : SinceSought(p, far, a) => SinceSought(p, far + s, b)
<1>1. FarSought(far, a) => FarSought(far + s, b)
  BY OnFacts DEF On, FarSought
<1>2. ASSUME NEW p \in 1 .. Around - 1, SinceSought(p, far, a)
      PROVE  SinceSought(p, far + s, b)
  <2>1. p \in Nat /\ Around \in Nat
    BY Constants
  <2>2. CASE a = 0
    BY <1>2, <2>1, <2>2, OnFacts DEF On, SinceSought
  <2>3. CASE a # 0
    <3>1. 4 * a > 3 * Around /\ far = a - p
      BY <1>2, <2>3 DEF SinceSought
    <3>2. CASE b = a + s
      BY <2>1, <3>1, <3>2, OnFacts DEF On, SinceSought
    <3>3. CASE b = a + s - Around
      <4>1. b = 0
        BY <2>1, <3>3, OnFacts
      <4>. QED
        BY <2>1, <3>1, <3>3, <4>1, OnFacts DEF SinceSought
    <3>. QED
      BY <3>2, <3>3, OnFacts
  <2>. QED
    BY <2>2, <2>3
<1>. QED
  BY <1>1, <1>2

\* and found in the first quarter, a turn after the one before.
LEMMA Starts ==
  ASSUME NEW a \in 0 .. Around - 1, NEW s \in Steps, NEW b, On(a, s, b), NEW far \in Nat,
         0 < b, 4 * b < Around
  PROVE  /\ b \in 1 .. Around - 1 /\ FarFound(0, b) /\ SinceFound(b, 0, b)
         /\ \A p \in 1 .. Around - 1 :
              SinceSought(p, far, a) => b <= s /\ far + s = Around + b - p
<1>1. b \in 1 .. Around - 1 /\ FarFound(0, b) /\ SinceFound(b, 0, b)
  BY OnFacts DEF FarFound, SinceFound
<1>2. ASSUME NEW p \in 1 .. Around - 1, SinceSought(p, far, a)
      PROVE  b <= s /\ far + s = Around + b - p
  <2>1. p \in Nat /\ Around \in Nat
    BY Constants
  <2>2. CASE a = 0
    <3>1. b = s
      BY <2>2, OnFacts
    <3>2. far = Around - p
      BY <1>2, <2>2 DEF SinceSought
    <3>. QED
      BY <2>1, <3>1, <3>2, OnFacts
  <2>3. CASE a # 0
    <3>1. 4 * a > 3 * Around /\ far = a - p
      BY <1>2, <2>3 DEF SinceSought
    <3>2. b = a + s - Around
      BY <3>1, OnFacts
    <3>. QED
      BY <2>1, <3>1, <3>2, OnFacts
  <2>. QED
    BY <2>2, <2>3
<1>. QED
  BY <1>1, <1>2

LEMMA MeasuredTurns ==
  ASSUME NEW r \in Records, NEW s \in Steps, NEW a \in 0 .. Around - 1, NEW b, On(a, s, b),
         Turning(r, a)
  PROVE  Turning(Measured(r, s, b), b)
<1> DEFINE new == Measured(r, s, b)
<1>1. /\ Around \in Nat /\ s \in Nat /\ s > 0 /\ s < Around /\ 4 * s < Around /\ b \in Nat
      /\ r.found \in BOOLEAN /\ r.turn \in Nat /\ r.starts \in 0 .. 3 /\ r.lap \in Nat
  BY OnFacts DEF Records
<1>2. /\ SyncBitFound(r.found, b) \in BOOLEAN
      /\ SyncBitFound(r.found, b) <=>
           IF r.found THEN 4 * b <= 3 * Around ELSE 0 < b /\ 4 * b < Around
  BY <1>1, SyncBitIs
<1>3. CASE SyncBitFound(r.found, b) /\ ~r.found
  <2>1. /\ new.found = TRUE /\ new.turn = 0
        /\ new.starts = IF r.starts = 3 THEN 3 ELSE r.starts + 1
        /\ new.lap = IF r.starts = 0 THEN r.lap ELSE r.turn + s
    BY <1>2, <1>3 DEF Measured
  <2>2. 0 < b /\ 4 * b < Around
    BY <1>2, <1>3
  <2>3. /\ b \in 1 .. Around - 1 /\ FarFound(0, b) /\ SinceFound(b, 0, b)
        /\ \A p \in 1 .. Around - 1 :
             SinceSought(p, r.turn, a) => b <= s /\ r.turn + s = Around + b - p
    BY <1>1, <2>2, Starts
  <2> HIDE DEF new
  <2>4. Began(new.starts, b) /\ Lap(new.starts, new.lap)
    <3>1. CASE r.starts = 0
      <4>1. Began(1, b)
        BY <2>2 DEF Began
      <4>2. Lap(1, r.lap)
        BY <3>1 DEF Turning, Lap
      <4>. QED
        BY <2>1, <3>1, <4>1, <4>2
    <3>2. CASE r.starts > 0
      <4>1. PICK p \in 1 .. Around - 1 : Began(r.starts, p) /\ SinceSought(p, r.turn, a)
        BY <1>3, <3>2 DEF Turning
      <4>2. b <= s /\ new.lap = Around + b - p /\ 4 * p < Around
        BY <1>1, <2>1, <2>3, <3>2, <4>1 DEF Began
      <4>3. new.lap < Around + s /\ 4 * new.lap > 3 * Around
        BY <1>1, <2>2, <4>2
      <4>4. ASSUME new.starts = 3
            PROVE  \E t \in Steps : new.lap > Around - t
        <5>1. r.starts >= 2
          BY <1>1, <2>1, <4>4
        <5>2. PICK t \in Steps : p <= t
          BY <4>1, <5>1 DEF Began
        <5>3. t \in Nat
          BY Constants
        <5>. QED
          BY <1>1, <2>2, <4>2, <5>2, <5>3
      <4>. QED
        BY <2>2, <4>2, <4>3, <4>4 DEF Began, Lap
    <3>. QED
      BY <1>1, <3>1, <3>2
  <2>. QED
    BY <2>1, <2>3, <2>4 DEF Turning, new
<1>4. CASE ~(SyncBitFound(r.found, b) /\ ~r.found)
  <2>1. /\ new.found = SyncBitFound(r.found, b) /\ new.turn = r.turn + s
        /\ new.starts = r.starts /\ new.lap = r.lap
    <3>1. new = [r EXCEPT !.found = SyncBitFound(r.found, b), !.turn = r.turn + s]
      BY <1>4 DEF Measured
    <3> HIDE DEF new
    <3>. QED
      BY <3>1 DEF Records
  <2> HIDE DEF new
  <2>2. /\ IF r.found THEN FarFound(r.turn, a) ELSE FarSought(r.turn, a)
        /\ r.starts > 0 => \E p \in 1 .. Around - 1 :
             /\ Began(r.starts, p)
             /\ IF r.found THEN SinceFound(p, r.turn, a) ELSE SinceSought(p, r.turn, a)
        /\ Lap(r.starts, r.lap)
    BY DEF Turning
  <2>3. CASE r.found /\ 4 * b <= 3 * Around
    <3>1. new.found = TRUE
      BY <1>2, <2>1, <2>3
    <3>. QED
      BY <1>1, <2>1, <2>2, <2>3, <3>1, StaysFound DEF Turning, new
  <2>4. CASE r.found /\ 4 * b > 3 * Around
    <3>1. new.found = FALSE
      <4>1. ~(4 * b <= 3 * Around)
        BY <1>1, <2>4
      <4>. QED
        BY <1>2, <2>1, <2>4, <4>1
    <3>. QED
      BY <1>1, <2>1, <2>2, <2>4, <3>1, Forgotten DEF Turning, new
  <2>5. CASE ~r.found
    <3>1. new.found = FALSE /\ ~(0 < b /\ 4 * b < Around)
      BY <1>2, <1>4, <2>1, <2>5
    <3>. QED
      BY <1>1, <2>1, <2>2, <2>5, <3>1, Sought DEF Turning, new
  <2>. QED
    BY <1>1, <2>3, <2>4, <2>5
<1>. QED
  BY <1>3, <1>4

\* The measurements are what the recursive function says: there is one for
\* any number of them.
LEMMA InterpolateIs ==
  ASSUME NEW from, NEW to, NEW was
  PROVE  \E node :
           /\ Interpolate(from, to, was) = node[Cabins] /\ node[0] = was
           /\ \A i \in 1 .. Cabins :
                node[i] = Measured(node[i - 1], AngleInc(from, to), Predict(from, to, i))
<1> DEFINE One(last, i) == Measured(last, AngleInc(from, to), Predict(from, to, i))
           S == {n \in Nat : \E f : f = [i \in 0 .. n |-> IF i = 0 THEN was ELSE One(f[i - 1], i)]}
<1> HIDE DEF One
<1>1. 0 \in S
  <2> DEFINE f == [i \in 0 .. 0 |-> was]
  <2>1. \A i \in 0 .. 0 : i = 0
    OBVIOUS
  <2>2. f = [i \in 0 .. 0 |-> IF i = 0 THEN was ELSE One(f[i - 1], i)]
    BY <2>1
  <2> HIDE DEF f
  <2>. QED
    BY <2>2
<1>2. ASSUME NEW n \in Nat, n \in S
      PROVE  n + 1 \in S
  <2>1. PICK f : f = [i \in 0 .. n |-> IF i = 0 THEN was ELSE One(f[i - 1], i)]
    BY <1>2
  <2> DEFINE g == [i \in 0 .. n + 1 |-> IF i <= n THEN f[i] ELSE One(f[n], i)]
  <2>2. ASSUME NEW i \in 0 .. n + 1
        PROVE  g[i] = IF i = 0 THEN was ELSE One(g[i - 1], i)
    <3>1. CASE i = 0
      BY <2>1, <3>1
    <3>2. CASE i # 0 /\ i <= n
      <4>1. i \in 0 .. n /\ i - 1 \in 0 .. n + 1 /\ i - 1 <= n
        BY <3>2
      <4>2. g[i] = f[i] /\ g[i - 1] = f[i - 1]
        BY <3>2, <4>1
      <4>3. f[i] = One(f[i - 1], i)
        BY <2>1, <3>2, <4>1
      <4>. QED
        BY <3>2, <4>2, <4>3
    <3>3. CASE ~(i <= n)
      <4>1. i = n + 1 /\ i - 1 = n /\ n \in 0 .. n + 1 /\ i # 0
        BY <3>3
      <4>2. g[i] = One(f[n], i) /\ g[n] = f[n]
        BY <3>3, <4>1
      <4>. QED
        BY <4>1, <4>2
    <3>. QED
      BY <3>1, <3>2, <3>3
  <2>3. g = [i \in 0 .. n + 1 |-> g[i]]
    OBVIOUS
  <2> HIDE DEF g
  <2>4. g = [i \in 0 .. n + 1 |-> IF i = 0 THEN was ELSE One(g[i - 1], i)]
    BY <2>2, <2>3
  <2>. QED
    BY <2>4
<1>3. Cabins \in S
  <2> HIDE DEF S
  <2>. QED
    BY <1>1, <1>2, NaturalInduction, Constants
<1> DEFINE node[i \in 0 .. Cabins] ==
             IF i = 0 THEN was
             ELSE Measured(node[i - 1], AngleInc(from, to), Predict(from, to, i))
<1>4. Interpolate(from, to, was) = node[Cabins]
  BY DEF Interpolate
<1>5. node = [i \in 0 .. Cabins |-> IF i = 0 THEN was ELSE One(node[i - 1], i)]
  <2>1. \E f : f = [i \in 0 .. Cabins |-> IF i = 0 THEN was ELSE One(f[i - 1], i)]
    BY <1>3
  <2>2. node = CHOOSE f : f = [i \in 0 .. Cabins |-> IF i = 0 THEN was ELSE One(f[i - 1], i)]
    BY DEF node, One
  <2> HIDE DEF node
  <2>. QED
    BY <2>1, <2>2
<1> HIDE DEF node
<1>6. node[0] = was
  BY <1>5, Constants
<1>7. \A i \in 1 .. Cabins : node[i] = One(node[i - 1], i)
  BY <1>5, Constants
<1>. QED
  BY <1>4, <1>6, <1>7 DEF One

LEMMA PredictType ==
  ASSUME NEW from \in 0 .. Circle - 1, NEW to \in 0 .. Circle - 1, NEW i \in 1 .. Cabins
  PROVE  Predict(from, to, i) \in Nat
<1>1. AngleInc(from, to) \in Nat /\ from \in Nat /\ i \in Nat
  BY Constants DEF AngleInc
<1>2. from * Cabins + i * AngleInc(from, to) \in Nat
  BY <1>1, Constants, Times
<1>. QED
  BY <1>2, Constants, Modulo DEF Predict, Around

LEMMA InterpolateType ==
  ASSUME NEW from \in 0 .. Circle - 1, NEW to \in 0 .. Circle - 1, NEW was \in Records
  PROVE  Interpolate(from, to, was) \in Records
<1>1. PICK node :
         /\ Interpolate(from, to, was) = node[Cabins] /\ node[0] = was
         /\ \A i \in 1 .. Cabins :
              node[i] = Measured(node[i - 1], AngleInc(from, to), Predict(from, to, i))
  BY InterpolateIs
<1>2. AngleInc(from, to) \in Nat
  BY Constants DEF AngleInc
<1> DEFINE S == {n \in Nat : n <= Cabins => node[n] \in Records}
<1>3. 0 \in S
  BY <1>1
<1>4. ASSUME NEW n \in Nat, n \in S
      PROVE  n + 1 \in S
  <2> SUFFICES ASSUME n + 1 <= Cabins
               PROVE  node[n + 1] \in Records
    OBVIOUS
  <2>1. node[n] \in Records /\ n + 1 \in 1 .. Cabins /\ (n + 1) - 1 = n
        /\ Predict(from, to, n + 1) \in Nat
    BY <1>4, Constants, PredictType
  <2>2. node[n + 1] = Measured(node[n], AngleInc(from, to), Predict(from, to, n + 1))
    BY <1>1, <2>1
  <2>. QED
    BY <1>2, <2>1, <2>2, MeasuredType
<1>5. Cabins \in S
  <2> HIDE DEF S
  <2>. QED
    BY <1>3, <1>4, NaturalInduction, Constants
<1>. QED
  BY <1>1, <1>5, Constants

\* From one capsule to the next the turn is kept account of.
LEMMA InterpolateTurns ==
  ASSUME NEW from \in 0 .. Circle - 1, NEW s \in Steps, NEW to, to = (from + s) % Circle,
         NEW was \in Records, Turning(was, from * Cabins)
  PROVE  Turning(Interpolate(from, to, was), to * Cabins)
<1>1. PICK node :
         /\ Interpolate(from, to, was) = node[Cabins] /\ node[0] = was
         /\ \A i \in 1 .. Cabins : node[i] = Measured(node[i - 1], s, Predict(from, to, i))
  BY InterpolateIs, NextAngle
<1> DEFINE S == {n \in Nat : n <= Cabins =>
                   node[n] \in Records /\ Turning(node[n], Predict(from, to, n))}
<1>2. 0 \in S
  BY <1>1, Predicted
<1>3. ASSUME NEW n \in Nat, n \in S
      PROVE  n + 1 \in S
  <2> SUFFICES ASSUME n + 1 <= Cabins
               PROVE  node[n + 1] \in Records /\ Turning(node[n + 1], Predict(from, to, n + 1))
    OBVIOUS
  <2> DEFINE a == Predict(from, to, n)
             b == Predict(from, to, n + 1)
  <2>1. /\ node[n] \in Records /\ Turning(node[n], a)
        /\ n + 1 \in 1 .. Cabins /\ (n + 1) - 1 = n /\ n \in 0 .. Cabins - 1 /\ n \in 0 .. Cabins
    BY <1>3, Constants
  <2>2. node[n + 1] = Measured(node[n], s, b)
    BY <1>1, <2>1
  <2>3. a \in 0 .. Around - 1 /\ b \in Nat /\ On(a, s, b)
    BY <2>1, Predicted, Constants DEF On
  <2>4. s \in Nat
    BY Constants
  <2> HIDE DEF a, b
  <2>5. node[n + 1] \in Records
    BY <2>1, <2>2, <2>3, <2>4, MeasuredType
  <2>6. Turning(node[n + 1], b)
    BY <2>1, <2>2, <2>3, MeasuredTurns
  <2>. QED
    BY <2>5, <2>6 DEF b
<1>4. Cabins \in S
  <2> HIDE DEF S
  <2>. QED
    BY <1>2, <1>3, NaturalInduction, Constants
<1>. QED
  BY <1>1, <1>4, Constants, Predicted

-----------------------------------------------------------------------------
(* The inductive invariant.                                                *)

\* Of a capsule that is cached, and that no timeout followed, the very next
\* one is coming into the buffer: the bytes that were lost meanwhile are too
\* few for a whole capsule to have gone by.
Coming ==
  IF first \/ age = 1
    THEN recvPos <= idx /\ (recvPos = 0 \/ clean => idx - recvPos <= drops)
    ELSE recvPos > 0 /\ (clean => CapsuleLen + idx - recvPos <= drops)

Tracked == format = "express" /\ ready["express"] /\ ~torn => Coming

Bounded == drops \in 0 .. MaxDrops

\* A thread that has its first capsule to discard has cached none.
Fresh == phase = "discard" => age = 2

\* The capsule being sent after the cached one is a step on.
StepOn == format = "express" /\ age = 1 => \E s \in Steps : angle = (prev + s) % Circle

\* What is counted of the scan, up to the start of the cached capsule.
Count == [found |-> found, turn |-> turn, starts |-> starts, lap |-> lap]
Turned == Turning(Count, prev * Cabins)

IInv ==
  TypeOK /\ Bounded /\ Tracked /\ Fresh /\ StepOn /\ Turned /\ Consecutive

-----------------------------------------------------------------------------
(* What a byte does.                                                       *)

\* It drops what there was,
Drops == Forget /\ recvPos' = 0 /\ clean' = FALSE /\ phase' \in {phase, "run"}

\* goes into the buffer,
GoesIn(intact) ==
  /\ recvPos + 1 < CapsuleLen /\ recvPos' = recvPos + 1
  /\ clean' = (intact /\ idx = recvPos /\ (recvPos = 0 \/ clean))
  /\ age' = Older(age)
  /\ UNCHANGED <<phase, ready, prev, torn, output>>

\* or completes the capsule that the device was sending.
Completes ==
  /\ recvPos = idx /\ idx + 1 = CapsuleLen /\ clean
  /\ recvPos' = 0 /\ clean' = FALSE /\ GoodCapsule

LEMMA WhatAByteDoes ==
  ASSUME ParserTypes, NEW byte, NEW intact, NEW nextLook, Takes(byte, intact, nextLook)
  PROVE  /\ SendsByte(nextLook)
         /\ Drops \/ Completes \/ GoesIn(intact)
<1> SUFFICES Drops \/ Completes \/ GoesIn(intact)
  BY DEF Takes
<1>1. recvPos \in Nat /\ recvPos < CapsuleLen /\ CapsuleLen \in Nat /\ CapsuleLen >= 3
  BY Constants DEF ParserTypes
<1>2. CASE ~Expected(byte)
  BY <1>2 DEF Takes, Drops
<1>3. CASE Expected(byte) /\ recvPos + 1 < CapsuleLen
  BY <1>3 DEF Takes, GoesIn
<1>4. CASE Expected(byte) /\ ~(recvPos + 1 < CapsuleLen)
  <2> DEFINE goesOn == intact /\ idx = recvPos /\ (recvPos = 0 \/ clean)
  <2>1. recvPos' = 0 /\ clean' = FALSE /\ IF goesOn THEN GoodCapsule ELSE BadCapsule
    BY <1>4 DEF Takes
  <2>2. CASE goesOn
    <3>1. idx = recvPos /\ (recvPos = 0 \/ clean)
      BY <2>2
    <3> HIDE DEF goesOn
    <3>2. GoodCapsule
      BY <2>1, <2>2
    <3>. QED
      BY <1>1, <1>4, <2>1, <3>1, <3>2 DEF Completes
  <2>3. CASE ~goesOn
    <3> HIDE DEF goesOn
    <3>1. BadCapsule
      BY <2>1, <2>3
    <3>. QED
      BY <2>1, <3>1 DEF Drops, BadCapsule
  <2>. QED
    BY <1>4, <2>2, <2>3 DEF Takes
<1>. QED
  BY <1>2, <1>3, <1>4 DEF Takes

\* A step of the device's, by which a byte is taken or lost, or of the
\* thread's.  What is left alone is what the lemmas below need of it.
LEMMA WhatAStepDoes ==
  ASSUME ParserTypes, [Next]_vars
  PROVE  \/ UNCHANGED vars
         \/ \E nextLook \in Looks :
              /\ SendsByte(nextLook)
              /\ drops' = drops \/ (drops < MaxDrops /\ drops' = drops + 1)
              /\ \/ Drops \/ Completes \/ GoesIn(TRUE) \/ GoesIn(FALSE)
                 \/ /\ drops' = drops + 1 /\ drops < MaxDrops /\ age' = Older(age)
                    /\ UNCHANGED <<parser, ready, prev, torn, output>>
         \/ WaitTimesOut \/ SearchTimesOut \/ StartScan
<1>1. ASSUME NEW nextLook \in Looks, ReceiveByte(nextLook)
      PROVE  /\ SendsByte(nextLook) /\ drops' = drops
             /\ Drops \/ Completes \/ GoesIn(TRUE)
  BY <1>1, WhatAByteDoes DEF ReceiveByte, bounds
<1>2. ASSUME DamageByte
      PROVE  /\ drops < MaxDrops /\ drops' = drops + 1
             /\ \E nextLook \in Looks :
                  SendsByte(nextLook) /\ (Drops \/ Completes \/ GoesIn(FALSE))
  BY <1>2, WhatAByteDoes DEF DamageByte
<1>3. ASSUME LoseByte
      PROVE  /\ drops < MaxDrops /\ drops' = drops + 1
             /\ \E nextLook \in Looks : SendsByte(nextLook)
             /\ age' = Older(age) /\ UNCHANGED <<parser, ready, prev, torn, output>>
  BY <1>3 DEF LoseByte
<1>. QED
  BY <1>1, <1>2, <1>3 DEF Next

-----------------------------------------------------------------------------
(* Each step keeps the invariant.                                          *)

LEMMA OlderIs ==
  ASSUME CapsuleLen \in Nat
  PROVE  /\ age \in {1, 2} => Older(age) \in {1, 2} /\ (age = 2 => Older(age) = 2)
         /\ idx + 1 < CapsuleLen => Older(age) = age
         /\ idx + 1 = CapsuleLen => Older(0) = 1 /\ (age = 1 => Older(age) = 2)
BY DEF Older

LEMMA Empty == 0 \in 0 .. CapsuleLen - 1
BY Constants

LEMMA CountType ==
  ASSUME OutputTypes
  PROVE  Count \in Records
BY DEF OutputTypes, Count, Records

LEMMA SendsByteType ==
  ASSUME DeviceTypes, NEW nextLook \in Looks, SendsByte(nextLook)
  PROVE  DeviceTypes'
<1>1. CASE idx + 1 < CapsuleLen
  BY <1>1, Constants DEF SendsByte, DeviceTypes
<1>2. CASE ~(idx + 1 < CapsuleLen)
  <2>1. angle' = angle \/ \E s \in Steps : angle' = (angle + s) % Circle
    BY <1>2 DEF SendsByte
  <2>2. ASSUME NEW s \in Steps
        PROVE  (angle + s) % Circle \in 0 .. Circle - 1
    <3>1. angle + s \in Nat
      BY Constants DEF DeviceTypes
    <3>. QED
      BY <3>1, Constants, Modulo
  <2>3. angle' \in 0 .. Circle - 1
    BY <2>1, <2>2 DEF DeviceTypes
  <2>4. format' = format /\ idx' = 0 /\ first' = FALSE /\ look' = nextLook
    BY <1>2 DEF SendsByte
  <2>5. 0 \in 0 .. CapsuleLen - 1
    BY Constants
  <2>. QED
    BY <2>3, <2>4, <2>5 DEF DeviceTypes
<1>. QED
  BY <1>1, <1>2

\* The device sends the capsules of the scan.
LEMMA DeviceTypesNext ==
  ASSUME DeviceTypes, ParserTypes, [Next]_vars
  PROVE  DeviceTypes'
<1> USE DEF DeviceTypes, device, parser, cached, output
<1>1. ASSUME NEW nextLook \in Looks, SendsByte(nextLook), Drops,
             drops' = drops \/ (drops < MaxDrops /\ drops' = drops + 1)
      PROVE  DeviceTypes'
  BY <1>1, SendsByteType
<1>2. ASSUME NEW nextLook \in Looks, SendsByte(nextLook), Completes,
             drops' = drops \/ (drops < MaxDrops /\ drops' = drops + 1)
      PROVE  DeviceTypes'
  BY <1>2, SendsByteType
<1>3. ASSUME NEW nextLook \in Looks, SendsByte(nextLook), NEW intact \in BOOLEAN, GoesIn(intact),
             drops' = drops \/ (drops < MaxDrops /\ drops' = drops + 1)
      PROVE  DeviceTypes'
  BY <1>3, SendsByteType
<1>4. ASSUME NEW nextLook \in Looks, SendsByte(nextLook), drops' = drops + 1, drops < MaxDrops,
             age' = Older(age), UNCHANGED <<parser, ready, prev, torn, output>>
      PROVE  DeviceTypes'
  BY <1>4, SendsByteType
<1>5. CASE WaitTimesOut
  BY <1>5 DEF WaitTimesOut
<1>6. CASE SearchTimesOut
  BY <1>6 DEF SearchTimesOut, Forget, Raise, CountAnew
<1>7. CASE StartScan
  BY <1>7, Constants DEF StartScan, StartAngles, Formats
<1>8. CASE UNCHANGED vars
  BY <1>8 DEF vars
<1>. QED
  BY <1>1, <1>2, <1>3, <1>4, <1>5, <1>6, <1>7, <1>8, WhatAStepDoes

\* The buffer holds less than a capsule.
LEMMA ParserTypesNext ==
  ASSUME ParserTypes, [Next]_vars
  PROVE  ParserTypes'
<1> USE DEF ParserTypes, device, parser, cached, output
<1>1. ASSUME NEW nextLook \in Looks, SendsByte(nextLook), Drops,
             drops' = drops \/ (drops < MaxDrops /\ drops' = drops + 1)
      PROVE  ParserTypes'
  BY <1>1, Empty DEF Drops
<1>2. ASSUME NEW nextLook \in Looks, SendsByte(nextLook), Completes,
             drops' = drops \/ (drops < MaxDrops /\ drops' = drops + 1)
      PROVE  ParserTypes'
  BY <1>2, Empty DEF Completes, GoodCapsule
<1>3. ASSUME NEW nextLook \in Looks, SendsByte(nextLook), NEW intact \in BOOLEAN, GoesIn(intact),
             drops' = drops \/ (drops < MaxDrops /\ drops' = drops + 1)
      PROVE  ParserTypes'
  BY <1>3, Constants DEF GoesIn
<1>4. ASSUME NEW nextLook \in Looks, SendsByte(nextLook), drops' = drops + 1, drops < MaxDrops,
             age' = Older(age), UNCHANGED <<parser, ready, prev, torn, output>>
      PROVE  ParserTypes'
  BY <1>4, Constants DEF SendsByte
<1>5. CASE WaitTimesOut
  BY <1>5, Empty DEF WaitTimesOut
<1>6. CASE SearchTimesOut
  BY <1>6, Empty DEF SearchTimesOut
<1>7. CASE StartScan
  BY <1>7, Empty DEF StartScan
<1>8. CASE UNCHANGED vars
  BY <1>8, Constants DEF vars
<1>. QED
  BY <1>1, <1>2, <1>3, <1>4, <1>5, <1>6, <1>7, <1>8, WhatAStepDoes

\* What is cached of a capsule has its type.
LEMMA CachedTypesNext ==
  ASSUME DeviceTypes, ParserTypes, CachedTypes, [Next]_vars
  PROVE  CachedTypes'
<1> USE DEF CachedTypes, device, parser, cached, output
<1>1. ASSUME NEW nextLook \in Looks, SendsByte(nextLook), Drops,
             drops' = drops \/ (drops < MaxDrops /\ drops' = drops + 1)
      PROVE  CachedTypes'
  BY <1>1 DEF Drops, Forget, Raise
<1>2. ASSUME NEW nextLook \in Looks, SendsByte(nextLook), Completes,
             drops' = drops \/ (drops < MaxDrops /\ drops' = drops + 1)
      PROVE  CachedTypes'
  <2>1. idx + 1 = CapsuleLen /\ GoodCapsule
    BY <1>2 DEF Completes
  <2>2. Older(age) \in {1, 2} /\ Older(0) = 1
    BY <2>1, OlderIs, Constants
  <2>3. Checked \in BOOLEAN
    BY DEF Checked, FirstDrops, Formats, DeviceTypes
  <2>4. ready' \in [Formats -> BOOLEAN]
    BY <2>1, <2>3 DEF GoodCapsule, Raise
  <2>5. age' \in {1, 2} /\ torn' \in BOOLEAN
    BY <2>1, <2>2 DEF GoodCapsule
  <2>6. prev' \in {prev, angle}
    BY <2>1 DEF GoodCapsule, ToNormal, HqToNormal
  <2>. QED
    BY <2>4, <2>5, <2>6 DEF DeviceTypes
<1>3. ASSUME NEW nextLook \in Looks, SendsByte(nextLook), NEW intact \in BOOLEAN, GoesIn(intact),
             drops' = drops \/ (drops < MaxDrops /\ drops' = drops + 1)
      PROVE  CachedTypes'
  BY <1>3, OlderIs, Constants DEF GoesIn
<1>4. ASSUME NEW nextLook \in Looks, SendsByte(nextLook), drops' = drops + 1, drops < MaxDrops,
             age' = Older(age), UNCHANGED <<parser, ready, prev, torn, output>>
      PROVE  CachedTypes'
  BY <1>4, OlderIs, Constants
<1>5. CASE WaitTimesOut
  <2>1. torn' = (torn \/ recvPos > 0) /\ (recvPos > 0) \in BOOLEAN
    BY <1>5 DEF WaitTimesOut
  <2>. QED
    BY <1>5, <2>1 DEF WaitTimesOut
<1>6. CASE SearchTimesOut
  BY <1>6 DEF SearchTimesOut, Forget, Raise
<1>7. CASE StartScan
  BY <1>7 DEF StartScan, CountAnew
<1>8. CASE UNCHANGED vars
  BY <1>8 DEF vars
<1>. QED
  BY <1>1, <1>2, <1>3, <1>4, <1>5, <1>6, <1>7, <1>8, WhatAStepDoes

\* So has what comes out of it.
LEMMA OutputTypesNext ==
  ASSUME DeviceTypes, ParserTypes, CachedTypes, OutputTypes, [Next]_vars
  PROVE  OutputTypes'
<1> USE DEF OutputTypes, device, parser, cached, output
<1>1. ASSUME NEW nextLook \in Looks, SendsByte(nextLook), Drops,
             drops' = drops \/ (drops < MaxDrops /\ drops' = drops + 1)
      PROVE  OutputTypes'
  BY <1>1, Constants DEF Drops, Forget, CountAnew, Around
<1>2. ASSUME NEW nextLook \in Looks, SendsByte(nextLook), Completes,
             drops' = drops \/ (drops < MaxDrops /\ drops' = drops + 1)
      PROVE  OutputTypes'
  <2>1. UNCHANGED output \/ Decode \/ Hold
    BY <1>2 DEF Completes, GoodCapsule, ToNormal, HqToNormal
  <2>2. CASE Decode
    <3> DEFINE new == Interpolate(prev, angle, Count)
    <3>1. new \in Records
      BY CountType, InterpolateType DEF DeviceTypes, CachedTypes
    <3>2. /\ found' = new.found
          /\ IF age = 1
               THEN pair' = "next" /\ turn' = new.turn /\ starts' = new.starts /\ lap' = new.lap
               ELSE pair' = (IF torn THEN "torn" ELSE "apart") /\ CountAnew
      BY <2>2 DEF Decode, Count
    <3> HIDE DEF new
    <3>. QED
      BY <3>1, <3>2, Constants DEF Records, CountAnew, Around
  <2>3. CASE Hold
    BY <2>3, Constants DEF Hold, CountAnew, Around
  <2>. QED
    BY <2>1, <2>2, <2>3
<1>3. ASSUME NEW nextLook \in Looks, SendsByte(nextLook), NEW intact \in BOOLEAN, GoesIn(intact),
             drops' = drops \/ (drops < MaxDrops /\ drops' = drops + 1)
      PROVE  OutputTypes'
  BY <1>3 DEF GoesIn, SendsByte
<1>4. ASSUME NEW nextLook \in Looks, SendsByte(nextLook), drops' = drops + 1, drops < MaxDrops,
             age' = Older(age), UNCHANGED <<parser, ready, prev, torn, output>>
      PROVE  OutputTypes'
  BY <1>4 DEF SendsByte
<1>5. CASE WaitTimesOut
  BY <1>5 DEF WaitTimesOut
<1>6. CASE SearchTimesOut
  BY <1>6, Constants DEF SearchTimesOut, Forget, CountAnew, Around
<1>7. CASE StartScan
  BY <1>7, Constants DEF StartScan, CountAnew, Around
<1>8. CASE UNCHANGED vars
  BY <1>8 DEF vars
<1>. QED
  BY <1>1, <1>2, <1>3, <1>4, <1>5, <1>6, <1>7, <1>8, WhatAStepDoes

LEMMA BoundedNext ==
  ASSUME Bounded, ParserTypes, [Next]_vars
  PROVE  Bounded'
<1>1. drops' = drops \/ (drops < MaxDrops /\ drops' = drops + 1)
  BY WhatAStepDoes DEF WaitTimesOut, SearchTimesOut, StartScan, vars, bounds
<1>. QED
  BY <1>1, Constants DEF Bounded

\* Bytes lost, damaged or late do not hide that a capsule is missing.
LEMMA TrackedNext ==
  ASSUME DeviceTypes, ParserTypes, CachedTypes, Bounded, Fresh, Tracked, [Next]_vars
  PROVE  Tracked'
<1> USE DEF device, parser, cached, output, bounds
<1>1. ASSUME NEW nextLook \in Looks, SendsByte(nextLook), Drops,
             drops' = drops \/ (drops < MaxDrops /\ drops' = drops + 1)
      PROVE  Tracked'
  <2>1. format' = "express" => ready'["express"] = FALSE
    BY <1>1 DEF Drops, Forget, Raise, SendsByte, SearchTimesOut, CachedTypes, Formats
  <2>. QED
    BY <2>1 DEF Tracked
<1>2. ASSUME NEW nextLook \in Looks, SendsByte(nextLook), Completes,
             drops' = drops \/ (drops < MaxDrops /\ drops' = drops + 1)
      PROVE  Tracked'
  <2> SUFFICES ASSUME format' = "express", ready'["express"], ~torn'
               PROVE  Coming'
    BY DEF Tracked
  <2>1. /\ recvPos = idx /\ idx + 1 = CapsuleLen /\ clean /\ recvPos' = 0 /\ GoodCapsule
        /\ idx' = 0 /\ format' = format
    BY <1>2, Constants DEF Completes, SendsByte
  <2>2. /\ recvPos \in Nat /\ recvPos < CapsuleLen /\ idx \in Nat /\ idx < CapsuleLen
        /\ drops \in Nat /\ drops' \in Nat /\ drops' >= drops /\ drops' < CapsuleLen
        /\ CapsuleLen \in Nat /\ age \in {1, 2}
    BY <1>2, Constants DEF DeviceTypes, ParserTypes, CachedTypes, Bounded
  <2>3. CASE phase # "discard"
    <3>1. age' = 1
      BY <2>1, <2>2, <2>3, OlderIs DEF GoodCapsule
    <3>. QED
      BY <2>1, <2>2, <3>1 DEF Coming
  <2>4. CASE phase = "discard"
    <3>1. ready["express"] /\ ~first /\ ~torn
      BY <2>1, <2>4 DEF GoodCapsule, Raise, Checked, FirstDrops, CachedTypes, Formats
    <3>2. Coming /\ age = 2
      BY <2>1, <2>4, <3>1 DEF Fresh, Tracked
    <3>. QED
      BY <2>1, <2>2, <3>1, <3>2 DEF Coming
  <2>. QED
    BY <2>3, <2>4
<1>3. ASSUME NEW nextLook \in Looks, SendsByte(nextLook), NEW intact \in BOOLEAN, GoesIn(intact),
             drops' = drops \/ (drops < MaxDrops /\ drops' = drops + 1)
      PROVE  Tracked'
  <2> SUFFICES ASSUME format' = "express", ready'["express"], ~torn'
               PROVE  Coming'
    BY DEF Tracked
  <2>1. Coming
    BY <1>3 DEF GoesIn, SendsByte, Tracked
  <2>2. /\ recvPos \in Nat /\ recvPos < CapsuleLen /\ idx \in Nat /\ idx < CapsuleLen
        /\ drops \in Nat /\ drops' \in Nat /\ drops' >= drops /\ drops' < CapsuleLen
        /\ CapsuleLen \in Nat /\ age \in {1, 2}
    BY <1>3, Constants DEF DeviceTypes, ParserTypes, CachedTypes, Bounded
  <2>3. /\ recvPos' = recvPos + 1 /\ recvPos + 1 < CapsuleLen
        /\ clean' => idx = recvPos /\ (recvPos = 0 \/ clean)
    BY <1>3 DEF GoesIn
  <2>4. CASE idx + 1 < CapsuleLen
    <3>1. idx' = idx + 1 /\ first' = first /\ age' = age
      BY <1>3, <2>2, <2>4, OlderIs DEF SendsByte, GoesIn
    <3>. QED
      BY <1>3, <2>1, <2>2, <2>3, <3>1 DEF Coming
  <2>5. CASE ~(idx + 1 < CapsuleLen)
    <3>1. idx' = 0 /\ first' = FALSE /\ idx + 1 = CapsuleLen /\ age' = 2
      BY <1>3, <2>2, <2>5, OlderIs DEF SendsByte, GoesIn
    <3>. QED
      BY <1>3, <2>1, <2>2, <2>3, <3>1 DEF Coming
  <2>. QED
    BY <2>4, <2>5
<1>4. ASSUME NEW nextLook \in Looks, SendsByte(nextLook), drops' = drops + 1, drops < MaxDrops,
             age' = Older(age), UNCHANGED <<parser, ready, prev, torn, output>>
      PROVE  Tracked'
  <2> SUFFICES ASSUME format' = "express", ready'["express"], ~torn'
               PROVE  Coming'
    BY DEF Tracked
  <2>1. Coming
    BY <1>4 DEF GoesIn, SendsByte, Tracked
  <2>2. /\ recvPos \in Nat /\ recvPos < CapsuleLen /\ idx \in Nat /\ idx < CapsuleLen
        /\ drops \in Nat /\ drops' \in Nat /\ drops' >= drops /\ drops' < CapsuleLen
        /\ CapsuleLen \in Nat /\ age \in {1, 2}
    BY <1>4, Constants DEF DeviceTypes, ParserTypes, CachedTypes, Bounded
  <2>3. recvPos' = recvPos /\ clean' = clean
    BY <1>4
  <2>4. CASE idx + 1 < CapsuleLen
    <3>1. idx' = idx + 1 /\ first' = first /\ age' = age
      BY <1>4, <2>2, <2>4, OlderIs DEF SendsByte, GoesIn
    <3>. QED
      BY <1>4, <2>1, <2>2, <2>3, <3>1 DEF Coming
  <2>5. CASE ~(idx + 1 < CapsuleLen)
    <3>1. idx' = 0 /\ first' = FALSE /\ idx + 1 = CapsuleLen /\ age' = 2
      BY <1>4, <2>2, <2>5, OlderIs DEF SendsByte, GoesIn
    <3>. QED
      BY <1>4, <2>1, <2>2, <2>3, <3>1 DEF Coming
  <2>. QED
    BY <2>4, <2>5
<1>5. CASE WaitTimesOut
  <2> SUFFICES ASSUME format' = "express", ready'["express"], ~torn'
               PROVE  Coming'
    BY DEF Tracked
  <2>1. ~torn /\ ~(recvPos > 0)
    BY <1>5 DEF WaitTimesOut
  <2>2. recvPos = 0
    BY <2>1, Constants DEF ParserTypes
  <2>3. Coming
    BY <1>5, <2>1 DEF WaitTimesOut, Tracked
  <2>4. UNCHANGED <<idx, first, age, drops>> /\ recvPos' = 0
    BY <1>5 DEF WaitTimesOut
  <2>. QED
    BY <2>2, <2>3, <2>4 DEF Coming
<1>6. CASE SearchTimesOut
  <2>1. format' = "express" => ready'["express"] = FALSE
    BY <1>6 DEF Drops, Forget, Raise, SendsByte, SearchTimesOut, CachedTypes, Formats
  <2>. QED
    BY <2>1 DEF Tracked
<1>7. CASE StartScan
  BY <1>7, Constants DEF StartScan, Tracked, Coming, Bounded
<1>8. CASE UNCHANGED vars
  BY <1>8 DEF vars, Tracked, Coming
<1>. QED
  BY <1>1, <1>2, <1>3, <1>4, <1>5, <1>6, <1>7, <1>8, WhatAStepDoes

\* The first capsule of a thread is not cached.
LEMMA FreshNext ==
  ASSUME DeviceTypes, ParserTypes, CachedTypes, Fresh, [Next]_vars
  PROVE  Fresh'
<1> USE DEF Fresh, device, parser, cached, output
<1>1. ASSUME NEW nextLook \in Looks, SendsByte(nextLook), Drops,
             drops' = drops \/ (drops < MaxDrops /\ drops' = drops + 1)
      PROVE  Fresh'
  BY <1>1 DEF Drops, Forget
<1>2. ASSUME NEW nextLook \in Looks, SendsByte(nextLook), Completes,
             drops' = drops \/ (drops < MaxDrops /\ drops' = drops + 1)
      PROVE  Fresh'
  BY <1>2 DEF Completes, GoodCapsule
<1>3. ASSUME NEW nextLook \in Looks, SendsByte(nextLook), NEW intact \in BOOLEAN, GoesIn(intact),
             drops' = drops \/ (drops < MaxDrops /\ drops' = drops + 1)
      PROVE  Fresh'
  BY <1>3, OlderIs, Constants DEF GoesIn, CachedTypes
<1>4. ASSUME NEW nextLook \in Looks, SendsByte(nextLook), drops' = drops + 1, drops < MaxDrops,
             age' = Older(age), UNCHANGED <<parser, ready, prev, torn, output>>
      PROVE  Fresh'
  BY <1>4, OlderIs, Constants DEF CachedTypes
<1>5. CASE WaitTimesOut
  BY <1>5 DEF WaitTimesOut
<1>6. CASE SearchTimesOut
  BY <1>6 DEF SearchTimesOut, Forget
<1>7. CASE StartScan
  BY <1>7 DEF StartScan
<1>8. CASE UNCHANGED vars
  BY <1>8 DEF vars
<1>. QED
  BY <1>1, <1>2, <1>3, <1>4, <1>5, <1>6, <1>7, <1>8, WhatAStepDoes

\* The device goes a step on from each capsule to the next.
LEMMA StepOnNext ==
  ASSUME DeviceTypes, ParserTypes, CachedTypes, Fresh, StepOn, [Next]_vars
  PROVE  StepOn'
<1> USE DEF StepOn, device, parser, cached, output
<1>1. ASSUME NEW nextLook \in Looks, SendsByte(nextLook), Drops,
             drops' = drops \/ (drops < MaxDrops /\ drops' = drops + 1)
      PROVE  StepOn'
  BY <1>1 DEF Drops, Forget
<1>2. ASSUME NEW nextLook \in Looks, SendsByte(nextLook), Completes,
             drops' = drops \/ (drops < MaxDrops /\ drops' = drops + 1)
      PROVE  StepOn'
  <2>1. idx + 1 = CapsuleLen /\ GoodCapsule /\ format' = format
    BY <1>2 DEF Completes, SendsByte
  <2>2. CASE phase = "discard"
    <3>1. age' = 2
      BY <2>1, <2>2, OlderIs, Constants DEF GoodCapsule, Fresh
    <3>. QED
      BY <3>1
  <2>3. CASE phase # "discard" /\ format = "express"
    <3>1. prev' = angle
      BY <2>1, <2>3 DEF GoodCapsule, ToNormal
    <3>2. ~(idx + 1 < CapsuleLen)
      BY <2>1, Constants
    <3>3. \E s \in Steps : angle' = (angle + s) % Circle
      BY <1>2, <2>3, <3>2 DEF SendsByte
    <3>. QED
      BY <3>1, <3>3
  <2>. QED
    BY <2>1, <2>2, <2>3
<1>3. ASSUME NEW nextLook \in Looks, SendsByte(nextLook), NEW intact \in BOOLEAN, GoesIn(intact),
             drops' = drops \/ (drops < MaxDrops /\ drops' = drops + 1)
      PROVE  StepOn'
  <2>1. CASE idx + 1 < CapsuleLen
    <3>1. format' = format /\ angle' = angle /\ age' = age
      BY <1>3, <2>1, OlderIs, Constants DEF SendsByte, GoesIn
    <3>. QED
      BY <1>3, <3>1 DEF GoesIn
  <2>2. CASE ~(idx + 1 < CapsuleLen)
    <3>1. age' = 2
      BY <1>3, <2>2, OlderIs, Constants DEF GoesIn, DeviceTypes, CachedTypes
    <3>. QED
      BY <3>1
  <2>. QED
    BY <2>1, <2>2
<1>4. ASSUME NEW nextLook \in Looks, SendsByte(nextLook), drops' = drops + 1, drops < MaxDrops,
             age' = Older(age), UNCHANGED <<parser, ready, prev, torn, output>>
      PROVE  StepOn'
  <2>1. CASE idx + 1 < CapsuleLen
    <3>1. format' = format /\ angle' = angle /\ age' = age
      BY <1>4, <2>1, OlderIs, Constants DEF SendsByte, GoesIn
    <3>. QED
      BY <1>4, <3>1 DEF GoesIn
  <2>2. CASE ~(idx + 1 < CapsuleLen)
    <3>1. age' = 2
      BY <1>4, <2>2, OlderIs, Constants DEF GoesIn, DeviceTypes, CachedTypes
    <3>. QED
      BY <3>1
  <2>. QED
    BY <2>1, <2>2
<1>5. CASE WaitTimesOut
  BY <1>5 DEF WaitTimesOut
<1>6. CASE SearchTimesOut
  BY <1>6 DEF SearchTimesOut, Forget
<1>7. CASE StartScan
  BY <1>7 DEF StartScan
<1>8. CASE UNCHANGED vars
  BY <1>8 DEF vars
<1>. QED
  BY <1>1, <1>2, <1>3, <1>4, <1>5, <1>6, <1>7, <1>8, WhatAStepDoes

\* Counting anew is right wherever the scan is.
LEMMA AnewTurns ==
  ASSUME found \in BOOLEAN, found' = found \/ found' \in BOOLEAN, CountAnew,
         prev' \in 0 .. Circle - 1
  PROVE  Turned'
<1> DEFINE a == prev' * Cabins
<1>1. a \in Nat
  <2>1. prev' \in Nat
    BY Constants
  <2>. QED
    BY <2>1, Constants, Times
<1>2. /\ Count'.found = found' /\ Count'.turn = 0 /\ Count'.starts = 0 /\ Count'.lap = Around
  BY DEF Count, CountAnew, Around
<1>3. FarFound(0, a) /\ FarSought(0, a)
  <2> HIDE DEF a
  <2>. QED
    BY <1>1, Constants DEF FarFound, FarSought
<1>4. Lap(0, Around)
  <2>1. PICK t \in Steps : TRUE
    BY DecoderAssumption
  <2>2. Around < Around + t
    BY Constants
  <2>. QED
    BY <2>2, Constants DEF Lap
<1>. QED
  BY <1>2, <1>3, <1>4 DEF Turned, Turning

\* The turn is kept account of.
LEMMA TurnedNext ==
  ASSUME DeviceTypes, ParserTypes, CachedTypes, OutputTypes, StepOn, Turned, [Next]_vars
  PROVE  Turned'
<1> USE DEF output
<1>1. ASSUME NEW nextLook \in Looks, SendsByte(nextLook), Drops,
             drops' = drops \/ (drops < MaxDrops /\ drops' = drops + 1)
      PROVE  Turned'
  <2>1. found' = found /\ CountAnew /\ prev' = prev
    BY <1>1 DEF Drops, Forget, SearchTimesOut, StartScan
  <2>. QED
    BY <2>1, AnewTurns DEF OutputTypes, CachedTypes
<1>2. ASSUME NEW nextLook \in Looks, SendsByte(nextLook), Completes,
             drops' = drops \/ (drops < MaxDrops /\ drops' = drops + 1)
      PROVE  Turned'
  <2>1. GoodCapsule
    BY <1>2 DEF Completes
  <2>2. CASE UNCHANGED <<prev, output>>
    BY <2>2 DEF Turned, Count, output
  <2>3. CASE format = "express" /\ ToNormal
    <3>1. prev' = angle /\ prev' \in 0 .. Circle - 1
      BY <2>3 DEF ToNormal, DeviceTypes
    <3>2. CASE Hold
      BY <3>1, <3>2, AnewTurns DEF Hold, OutputTypes
    <3>3. CASE Decode
      <4> DEFINE new == Interpolate(prev, angle, Count)
      <4>1. Count \in Records /\ new \in Records
        BY CountType, InterpolateType DEF DeviceTypes, CachedTypes
      <4>2. /\ found' = new.found
            /\ IF age = 1
                 THEN pair' = "next" /\ turn' = new.turn /\ starts' = new.starts /\ lap' = new.lap
                 ELSE pair' = (IF torn THEN "torn" ELSE "apart") /\ CountAnew
        BY <3>3 DEF Decode, Count
      <4>3. CASE age = 1
        <5>1. PICK s \in Steps : angle = (prev + s) % Circle
          BY <2>3, <4>3 DEF StepOn
        <5>2. Turning(new, angle * Cabins)
          BY <4>1, <5>1, InterpolateTurns DEF Turned, CachedTypes
        <5> HIDE DEF new
        <5>3. /\ Count'.found = new.found /\ Count'.turn = new.turn
              /\ Count'.starts = new.starts /\ Count'.lap = new.lap
          BY <4>2, <4>3 DEF Count
        <5>. QED
          BY <3>1, <5>2, <5>3 DEF Turned, Turning
      <4>4. CASE age # 1
        <5>1. found' \in BOOLEAN
          <6> HIDE DEF new
          <6>. QED
            BY <4>1, <4>2 DEF Records
        <5>. QED
          BY <3>1, <4>2, <4>4, <5>1, AnewTurns DEF OutputTypes
      <4>. QED
        BY <4>3, <4>4
    <3>. QED
      BY <2>3, <3>2, <3>3 DEF ToNormal
  <2>. QED
    BY <2>1, <2>2, <2>3 DEF GoodCapsule, HqToNormal
<1>3. ASSUME NEW nextLook \in Looks, SendsByte(nextLook), NEW intact \in BOOLEAN, GoesIn(intact),
             drops' = drops \/ (drops < MaxDrops /\ drops' = drops + 1)
      PROVE  Turned'
  <2>1. UNCHANGED <<prev, output>>
    BY <1>3 DEF GoesIn, WaitTimesOut, vars, cached
  <2>. QED
    BY <2>1 DEF Turned, Count, output
<1>4. ASSUME NEW nextLook \in Looks, SendsByte(nextLook), drops' = drops + 1, drops < MaxDrops,
             age' = Older(age), UNCHANGED <<parser, ready, prev, torn, output>>
      PROVE  Turned'
  <2>1. UNCHANGED <<prev, output>>
    BY <1>4 DEF GoesIn, WaitTimesOut, vars, cached
  <2>. QED
    BY <2>1 DEF Turned, Count, output
<1>5. CASE WaitTimesOut
  <2>1. UNCHANGED <<prev, output>>
    BY <1>5 DEF GoesIn, WaitTimesOut, vars, cached
  <2>. QED
    BY <2>1 DEF Turned, Count, output
<1>6. CASE SearchTimesOut
  <2>1. found' = found /\ CountAnew /\ prev' = prev
    BY <1>6 DEF Drops, Forget, SearchTimesOut, StartScan
  <2>. QED
    BY <2>1, AnewTurns DEF OutputTypes, CachedTypes
<1>7. CASE StartScan
  <2>1. found' = found /\ CountAnew /\ prev' = prev
    BY <1>7 DEF Drops, Forget, SearchTimesOut, StartScan
  <2>. QED
    BY <2>1, AnewTurns DEF OutputTypes, CachedTypes
<1>8. CASE UNCHANGED vars
  <2>1. UNCHANGED <<prev, output>>
    BY <1>8 DEF GoesIn, WaitTimesOut, vars, cached
  <2>. QED
    BY <2>1 DEF Turned, Count, output
<1>. QED
  BY <1>1, <1>2, <1>3, <1>4, <1>5, <1>6, <1>7, <1>8, WhatAStepDoes

\* A capsule that is complete is the one after the cached one, or a timeout was between.
LEMMA ConsecutiveNext ==
  ASSUME DeviceTypes, ParserTypes, CachedTypes, Bounded, Tracked, Consecutive, [Next]_vars
  PROVE  Consecutive'
<1> USE DEF Consecutive, device, parser, cached, output
<1>1. ASSUME NEW nextLook \in Looks, SendsByte(nextLook), Drops,
             drops' = drops \/ (drops < MaxDrops /\ drops' = drops + 1)
      PROVE  Consecutive'
  BY <1>1 DEF Drops, Forget
<1>2. ASSUME NEW nextLook \in Looks, SendsByte(nextLook), Completes,
             drops' = drops \/ (drops < MaxDrops /\ drops' = drops + 1)
      PROVE  Consecutive'
  <2>1. /\ recvPos = idx /\ idx + 1 = CapsuleLen /\ clean /\ GoodCapsule
    BY <1>2 DEF Completes
  <2>2. CASE pair' = pair
    BY <2>2
  <2>3. CASE format = "express" /\ FirstDrops /\ Decode
    <3>1. age # 1 => torn
      <4> SUFFICES ASSUME age # 1, ~torn
                   PROVE  FALSE
        OBVIOUS
      <4>1. clean => CapsuleLen + idx - recvPos <= drops
        BY <2>3 DEF Tracked, Coming, FirstDrops
      <4>. QED
        BY <2>1, <4>1, Constants DEF Bounded, ParserTypes
    <3>2. pair' \in {"next", "torn"}
      BY <2>3, <3>1 DEF Decode
    <3>. QED
      BY <3>2
  <2>. QED
    BY <2>1, <2>2, <2>3 DEF GoodCapsule, ToNormal, HqToNormal, Hold
<1>3. ASSUME NEW nextLook \in Looks, SendsByte(nextLook), NEW intact \in BOOLEAN, GoesIn(intact),
             drops' = drops \/ (drops < MaxDrops /\ drops' = drops + 1)
      PROVE  Consecutive'
  BY <1>3 DEF GoesIn
<1>4. ASSUME NEW nextLook \in Looks, SendsByte(nextLook), drops' = drops + 1, drops < MaxDrops,
             age' = Older(age), UNCHANGED <<parser, ready, prev, torn, output>>
      PROVE  Consecutive'
  BY <1>4
<1>5. CASE WaitTimesOut
  BY <1>5 DEF WaitTimesOut
<1>6. CASE SearchTimesOut
  BY <1>6 DEF SearchTimesOut, Forget
<1>7. CASE StartScan
  BY <1>7 DEF StartScan
<1>8. CASE UNCHANGED vars
  BY <1>8 DEF vars
<1>. QED
  BY <1>1, <1>2, <1>3, <1>4, <1>5, <1>6, <1>7, <1>8, WhatAStepDoes

-----------------------------------------------------------------------------
(* The theorems.                                                           *)

LEMMA InitInv ==
  ASSUME Init
  PROVE  IInv
<1>1. Circle - 1 \in Nat /\ 0 \in 0 .. Circle - 1 /\ 0 \in 0 .. CapsuleLen - 1 /\ Around \in Nat
  BY Constants
<1>2. DeviceTypes
  BY <1>1 DEF Init, DeviceTypes, StartAngles
<1>3. ParserTypes /\ CachedTypes
  BY <1>1 DEF Init, ParserTypes, CachedTypes
<1>4. OutputTypes
  BY <1>1 DEF Init, OutputTypes, Around
<1>5. Bounded /\ Fresh /\ StepOn /\ Consecutive
  BY Constants DEF Init, Bounded, Fresh, StepOn, Consecutive
<1>6. Tracked
  BY Constants DEF Init, Tracked, Coming
<1>7. Turned
  <2>1. prev * Cabins \in Nat
    BY Constants, Times DEF Init
  <2>2. /\ Count.found = found /\ Count.turn = 0 /\ Count.starts = 0 /\ Count.lap = Around
    BY DEF Init, Count, Around
  <2>3. FarFound(0, prev * Cabins) /\ FarSought(0, prev * Cabins)
    BY <2>1, Constants DEF FarFound, FarSought
  <2>4. Lap(0, Around)
    <3>1. PICK t \in Steps : TRUE
      BY DecoderAssumption
    <3>2. Around < Around + t
      BY Constants
    <3>. QED
      BY <3>2, Constants DEF Lap
  <2>. QED
    BY <2>2, <2>3, <2>4 DEF Turned, Turning
<1>. QED
  BY <1>2, <1>3, <1>4, <1>5, <1>6, <1>7 DEF IInv, TypeOK

LEMMA NextInv ==
  ASSUME IInv, [Next]_vars
  PROVE  IInv'
<1>1. /\ DeviceTypes /\ ParserTypes /\ CachedTypes /\ OutputTypes
      /\ Bounded /\ Tracked /\ Fresh /\ StepOn /\ Turned /\ Consecutive
  BY DEF IInv, TypeOK
<1>2. DeviceTypes' /\ ParserTypes' /\ CachedTypes' /\ OutputTypes'
  BY <1>1, DeviceTypesNext, ParserTypesNext, CachedTypesNext, OutputTypesNext
<1>3. Bounded' /\ Tracked' /\ Fresh' /\ StepOn' /\ Turned' /\ Consecutive'
  BY <1>1, BoundedNext, TrackedNext, FreshNext, StepOnNext, TurnedNext, ConsecutiveNext
<1>. QED
  BY <1>2, <1>3 DEF IInv, TypeOK

\* The inductive invariant holds in every reachable state.
THEOREM InvHolds == Spec => []IInv
<1>1. Init => IInv
  BY InitInv
<1>2. IInv /\ [Next]_vars => IInv'
  BY NextInv
<1>. QED
  BY <1>1, <1>2, PTL DEF Spec

\* Every variable keeps its type: the buffer never holds a whole capsule.
THEOREM TypeCorrect == Spec => []TypeOK
<1>1. IInv => TypeOK
  BY DEF IInv
<1>. QED
  BY <1>1, InvHolds, PTL

\* What is interpolated are a capsule and the very next one, for any number of
\* lost or damaged bytes below that of a capsule, but over a timeout.
THEOREM ConsecutiveHolds == Spec => []Consecutive
<1>1. IInv => Consecutive
  BY DEF IInv
<1>. QED
  BY <1>1, InvHolds, PTL

\* One start bit in every turn, for any circle, steps and number of
\* measurements in a capsule.
THEOREM OneStartPerTurnHolds == Spec => []OneStartPerTurn
<1>1. IInv => OneStartPerTurn
  <2> SUFFICES ASSUME IInv
               PROVE  OneStartPerTurn
    OBVIOUS
  <2>1. Lap(starts, lap)
    BY DEF IInv, Turned, Turning, Count
  <2>2. 3 * Circle * Cabins = 3 * Around
    BY Constants DEF Around
  <2>. QED
    BY <2>1, <2>2 DEF Lap, OneStartPerTurn, Around
<1>. QED
  BY <1>1, InvHolds, PTL

\* The start bit comes within a turn and a quarter.
THEOREM StartComesHolds == Spec => []StartComes
<1>1. IInv => StartComes
  <2> SUFFICES ASSUME IInv
               PROVE  StartComes
    OBVIOUS
  <2> DEFINE a == prev * Cabins
  <2>1. prev \in Nat /\ prev < Circle /\ found \in BOOLEAN /\ turn \in Nat
    BY Constants DEF IInv, TypeOK, CachedTypes, OutputTypes
  <2>2. a \in Nat /\ a < Around
    BY <2>1, Constants, Times DEF Around
  <2>3. IF found THEN FarFound(turn, a) ELSE FarSought(turn, a)
    BY DEF IInv, Turned, Turning, Count
  <2> HIDE DEF a
  <2>4. 4 * turn <= 5 * Around
    BY <2>1, <2>2, <2>3, Constants DEF FarFound, FarSought
  <2>5. 5 * Circle * Cabins = 5 * Around
    BY Constants DEF Around
  <2>. QED
    BY <2>4, <2>5 DEF StartComes
<1>. QED
  BY <1>1, InvHolds, PTL
=============================================================================

---------------------------- MODULE WinRendProofs ----------------------------
(***************************************************************************)
(* The two threads of the window, for any number of events on the way and  *)
(* any bounds of the density: the window is not touched in the middle of a *)
(* frame, the density stays within its bounds, and the keys are followed.  *)
(*                                                                         *)
(* The last is an invariant of what the keys will be in the end: of the    *)
(* map, changed by the events in the queue, the one in the main thread's   *)
(* hand and those that were not polled, in this order.  Every step of the  *)
(* two threads moves events along and changes nothing of it.               *)
(***************************************************************************)
EXTENDS WinRend, TLAPS

-----------------------------------------------------------------------------
(* The inductive invariant.                                                *)

\* Who holds renderMutex is at the steps that it covers.
MutexHeld ==
  /\ renderMutex = "main" <=> mpc \in {"setView", "close"}
  /\ renderMutex = "render" <=> rpc = "draw"

\* As long as the focus stayed nobody has heard of its going or coming.
FocusKept ==
  ~blurred =>
    /\ focused /\ ~lostFocus /\ ~paused /\ mpc \notin {"lostFocus", "clear", "gainedFocus"}
    /\ \A i \in DOMAIN pending : pending[i].type \notin {"LostFocus", "GainedFocus"}

\* Whether a key is down after one event, and after a sequence of them, when
\* it was or was not before.
After(e, k, was) == IF e = Pressed(k) THEN TRUE ELSE IF e = Released(k) THEN FALSE ELSE was
OfKey(s, k) == {i \in DOMAIN s : s[i] \in {Pressed(k), Released(k)}}
AfterAll(s, k, was) ==
  IF OfKey(s, k) = {} THEN was
  ELSE \E i \in OfKey(s, k) : s[i] = Pressed(k) /\ \A j \in OfKey(s, k) : j <= i

\* What kbPressedMap will be of a key once the events on the way have come:
\* those in the queue, the one in the main thread's hand, those not polled.
InHand(k, was) == IF mpc = "push" THEN After(event, k, was) ELSE was
InTheEnd(k) == AfterAll(pending, k, InHand(k, AfterAll(events, k, kbPressedMap[k])))

KeysTracked == ~blurred => \A k \in Keys : InTheEnd(k) <=> k \in down

IInv == TypeOK /\ MutexHeld /\ FocusKept /\ KeysTracked

-----------------------------------------------------------------------------
(* What a sequence of events makes of a key.                               *)

LEMMA KeyEvents ==
  ASSUME NEW k \in Keys, NEW l \in Keys
  PROVE  /\ Pressed(k) # Released(l)
         /\ Pressed(k) = Pressed(l) => k = l
         /\ Released(k) = Released(l) => k = l
         /\ Pressed(k) \in Events /\ Released(k) \in Events
BY DEF Pressed, Released, Events

LEMMA PlainEvents ==
  ASSUME NEW k \in Keys, NEW type, type \notin {"KeyPressed", "KeyReleased"}, NEW was
  PROVE  After(Plain(type), k, was) = was
BY DEF After, Plain, Pressed, Released

LEMMA AfterNone ==
  ASSUME NEW k, NEW was
  PROVE  AfterAll(<<>>, k, was) = was
BY DEF AfterAll, OfKey

\* An event at the end has the last word.
LEMMA AfterAppend ==
  ASSUME NEW k \in Keys, NEW s \in Seq(Events), NEW e, NEW was \in BOOLEAN
  PROVE  AfterAll(Append(s, e), k, was) <=> After(e, k, AfterAll(s, k, was))
<1> DEFINE t == Append(s, e)
           n == Len(s) + 1
<1>1. /\ Len(s) \in Nat /\ DOMAIN s = 1 .. Len(s) /\ DOMAIN t = 1 .. n
      /\ t[n] = e /\ \A i \in DOMAIN s : t[i] = s[i]
  OBVIOUS
<1> HIDE DEF t
<1>2. CASE e = Pressed(k)
  <2>1. n \in OfKey(t, k) /\ \A j \in OfKey(t, k) : j <= n
    BY <1>1, <1>2 DEF OfKey
  <2>2. AfterAll(t, k, was)
    BY <1>1, <1>2, <2>1 DEF AfterAll
  <2>. QED
    BY <1>2, <2>2 DEF After, t
<1>3. CASE e = Released(k)
  <2>1. n \in OfKey(t, k)
    BY <1>1, <1>3 DEF OfKey
  <2>2. \A i \in OfKey(t, k) : i \in 1 .. n
    BY <1>1 DEF OfKey
  <2>3. t[n] # Pressed(k)
    BY <1>1, <1>3, KeyEvents
  <2>4. ASSUME NEW i \in OfKey(t, k), t[i] = Pressed(k), \A j \in OfKey(t, k) : j <= i
        PROVE  FALSE
    <3>1. i = n
      BY <1>1, <2>1, <2>2, <2>4
    <3>. QED
      BY <2>3, <2>4, <3>1
  <2>5. ~AfterAll(t, k, was)
    BY <2>1, <2>4 DEF AfterAll
  <2>6. e # Pressed(k)
    BY <1>3, KeyEvents
  <2>. QED
    BY <1>3, <2>5, <2>6 DEF After, t
<1>4. CASE e # Pressed(k) /\ e # Released(k)
  <2>1. OfKey(t, k) = OfKey(s, k) /\ \A i \in OfKey(s, k) : t[i] = s[i]
    BY <1>1, <1>4 DEF OfKey
  <2>2. AfterAll(t, k, was) <=> AfterAll(s, k, was)
    BY <2>1 DEF AfterAll
  <2>. QED
    BY <1>4, <2>2 DEF After, t
<1>. QED
  BY <1>2, <1>3, <1>4

\* The first event is the first to have its say.
LEMMA AfterHead ==
  ASSUME NEW k \in Keys, NEW s \in Seq(Events), s # <<>>, NEW was \in BOOLEAN
  PROVE  AfterAll(s, k, was) <=> AfterAll(Tail(s), k, After(Head(s), k, was))
<1> DEFINE t == Tail(s)
<1>1. /\ Len(s) \in Nat /\ Len(s) > 0 /\ DOMAIN s = 1 .. Len(s) /\ DOMAIN t = 1 .. Len(s) - 1
      /\ Head(s) = s[1] /\ \A i \in DOMAIN t : t[i] = s[i + 1]
  OBVIOUS
<1> HIDE DEF t
<1>2. \A i \in DOMAIN t : i \in OfKey(t, k) <=> i + 1 \in OfKey(s, k)
  BY <1>1 DEF OfKey
<1>3. \A i \in OfKey(s, k) : i = 1 \/ i - 1 \in OfKey(t, k)
  BY <1>1, <1>2 DEF OfKey
<1>4. OfKey(t, k) \subseteq DOMAIN t /\ OfKey(s, k) \subseteq DOMAIN s
  BY DEF OfKey
<1>5. CASE OfKey(t, k) # {}
  <2>1. PICK m : m \in OfKey(t, k)
    BY <1>5
  <2>2. m + 1 \in OfKey(s, k) /\ m \in Nat /\ m > 0
    BY <1>1, <1>2, <1>4, <2>1
  <2>3. ASSUME NEW i \in OfKey(t, k), t[i] = Pressed(k), \A j \in OfKey(t, k) : j <= i
        PROVE  \E l \in OfKey(s, k) : s[l] = Pressed(k) /\ \A j \in OfKey(s, k) : j <= l
    <3>1. i \in 1 .. Len(s) - 1 /\ i + 1 \in OfKey(s, k) /\ s[i + 1] = Pressed(k)
      BY <1>1, <1>2, <1>4, <2>3
    <3>2. ASSUME NEW j \in OfKey(s, k)
          PROVE  j <= i + 1
      <4>1. j \in 1 .. Len(s)
        BY <1>1, <1>4
      <4>2. CASE j = 1
        BY <1>1, <3>1, <4>2
      <4>3. CASE j # 1
        <5>1. j - 1 <= i
          BY <1>3, <2>3, <4>3
        <5>. QED
          BY <1>1, <3>1, <4>1, <5>1
      <4>. QED
        BY <4>2, <4>3
    <3>. QED
      BY <3>1, <3>2
  <2>4. ASSUME NEW l \in OfKey(s, k), s[l] = Pressed(k), \A j \in OfKey(s, k) : j <= l
        PROVE  \E i \in OfKey(t, k) : t[i] = Pressed(k) /\ \A j \in OfKey(t, k) : j <= i
    <3>1. l \in 1 .. Len(s) /\ l >= m + 1
      BY <1>1, <1>4, <2>2, <2>4
    <3>2. l - 1 \in OfKey(t, k) /\ l # 1
      BY <1>3, <2>2, <3>1
    <3>3. t[l - 1] = Pressed(k)
      BY <1>1, <1>4, <2>4, <3>1, <3>2
    <3>4. ASSUME NEW j \in OfKey(t, k)
          PROVE  j <= l - 1
      <4>1. j \in 1 .. Len(s) - 1 /\ j + 1 \in OfKey(s, k)
        BY <1>1, <1>2, <1>4
      <4>2. j + 1 <= l
        BY <2>4, <4>1
      <4>. QED
        BY <1>1, <3>1, <4>1, <4>2
    <3>. QED
      BY <3>2, <3>3, <3>4
  <2>5. \A d \in BOOLEAN : AfterAll(s, k, was) <=> AfterAll(t, k, d)
    BY <1>5, <2>2, <2>3, <2>4 DEF AfterAll
  <2>. QED
    BY <2>5 DEF After, t
<1>6. CASE OfKey(t, k) = {}
  <2>1. \A d : AfterAll(t, k, d) = d
    BY <1>6 DEF AfterAll
  <2>2. \A i \in OfKey(s, k) : i = 1
    BY <1>3, <1>6
  <2>3. 1 \in OfKey(s, k) <=> Head(s) \in {Pressed(k), Released(k)}
    BY <1>1 DEF OfKey
  <2>4. AfterAll(s, k, was) <=> After(Head(s), k, was)
    <3>1. CASE Head(s) = Pressed(k)
      <4>1. 1 \in OfKey(s, k) /\ s[1] = Pressed(k)
        BY <1>1, <2>3, <3>1
      <4>2. AfterAll(s, k, was)
        BY <2>2, <4>1 DEF AfterAll
      <4>. QED
        BY <3>1, <4>2 DEF After
    <3>2. CASE Head(s) = Released(k)
      <4>1. 1 \in OfKey(s, k) /\ s[1] # Pressed(k) /\ Head(s) # Pressed(k)
        BY <1>1, <2>3, <3>2, KeyEvents
      <4>2. ~AfterAll(s, k, was)
        BY <2>2, <4>1 DEF AfterAll
      <4>. QED
        BY <3>2, <4>1, <4>2 DEF After
    <3>3. CASE Head(s) # Pressed(k) /\ Head(s) # Released(k)
      <4>1. OfKey(s, k) = {}
        BY <2>2, <2>3, <3>3
      <4>2. AfterAll(s, k, was) = was
        BY <4>1 DEF AfterAll
      <4>. QED
        BY <3>3, <4>2 DEF After
    <3>. QED
      BY <3>1, <3>2, <3>3
  <2>. QED
    BY <2>1, <2>4 DEF t
<1>. QED
  BY <1>5, <1>6

LEMMA AfterType ==
  ASSUME NEW k, NEW s, NEW e, NEW was \in BOOLEAN
  PROVE  After(e, k, was) \in BOOLEAN /\ AfterAll(s, k, was) \in BOOLEAN
BY DEF After, AfterAll

\* UpdateKbPressed goes through the events it was given, for every key.
LEMMA UpdateIsAfterAll ==
  ASSUME NEW s, KeyTypes, NEW k \in Keys
  PROVE  UpdateKbPressed(s)[k] <=> AfterAll(s, k, kbPressedMap[k])
BY DEF UpdateKbPressed, AfterAll, OfKey, KeyTypes

\* Only an event of a key can be one that changes the map, and those of the
\* focus go elsewhere.
LEMMA HandlerFacts ==
  ASSUME NEW e \in Events
  PROVE  /\ Handler(e) \in {"lockView", "poll", "lockClose", "lostFocus", "gainedFocus", "push"}
         /\ Handler(e) = "lostFocus" => e.type = "LostFocus"
         /\ Handler(e) = "gainedFocus" => e.type = "GainedFocus"
         /\ Handler(e) # "push" => \A k \in Keys : e # Pressed(k) /\ e # Released(k)
<1>1. CASE \E k \in Keys : e = Pressed(k) \/ e = Released(k)
  <2>1. e.type \in {"KeyPressed", "KeyReleased"}
    BY <1>1 DEF Pressed, Released
  <2>2. Handler(e) = "push"
    BY <2>1 DEF Handler
  <2>. QED
    BY <2>2
<1>2. CASE \A k \in Keys : e # Pressed(k) /\ e # Released(k)
  <2>1. PICK type \in {"Resized", "Closed", "LostFocus", "GainedFocus", "MouseMoved"} :
          e = Plain(type)
    BY <1>2 DEF Events
  <2>2. e.type = type
    BY <2>1 DEF Plain
  <2>3. CASE type = "Resized"
    BY <1>2, <2>2, <2>3 DEF Handler
  <2>4. CASE type = "Closed"
    BY <1>2, <2>2, <2>4 DEF Handler
  <2>5. CASE type = "LostFocus"
    BY <1>2, <2>2, <2>5 DEF Handler
  <2>6. CASE type = "GainedFocus"
    BY <1>2, <2>2, <2>6 DEF Handler
  <2>7. CASE type = "MouseMoved"
    BY <1>2, <2>2, <2>7 DEF Handler
  <2>. QED
    BY <2>1, <2>3, <2>4, <2>5, <2>6, <2>7
<1>. QED
  BY <1>1, <1>2

\* What the user and the window system report.
LEMMA Reported ==
  ASSUME EventTypes, FocusKept, UserStep
  PROVE  \E e \in Events :
           /\ pending' \in {pending, Append(pending, e)}
           /\ ~blurred' => e.type \notin {"LostFocus", "GainedFocus"}
<1>1. CASE \E k \in Keys : PressKey(k)
  <2>1. PICK k \in Keys : PressKey(k)
    BY <1>1
  <2>. QED
    BY <2>1, KeyEvents DEF PressKey, Report, Pressed
<1>2. CASE \E k \in Keys : ReleaseKey(k)
  <2>1. PICK k \in Keys : ReleaseKey(k)
    BY <1>2
  <2>. QED
    BY <2>1, KeyEvents DEF ReleaseKey, Report, Released
<1>3. CASE SwitchWindow
  BY <1>3 DEF SwitchWindow, Report, Events
<1>4. CASE OtherEvent
  BY <1>4 DEF OtherEvent, Report, Plain, Events
<1>. QED
  BY <1>1, <1>2, <1>3, <1>4 DEF UserStep

-----------------------------------------------------------------------------
(* Each step keeps the invariant.                                          *)

\* The control has its type.
LEMMA ControlTypesNext ==
  ASSUME ControlTypes, EventTypes, [Next]_vars
  PROVE  ControlTypes'
<1> USE DEF ControlTypes, main, render, user
<1>1. CASE TestOpen
  BY <1>1 DEF TestOpen
<1>2. CASE PollEvent
  <2>1. CASE pending = <<>> \/ ~open
    BY <1>2, <2>1 DEF PollEvent
  <2>2. CASE ~(pending = <<>> \/ ~open)
    <3>1. event' = Head(pending) /\ mpc' = Handler(event') /\ Head(pending) \in Events
      BY <1>2, <2>2 DEF PollEvent, EventTypes
    <3>2. mpc' \in {"lockView", "poll", "lockClose", "lostFocus", "gainedFocus", "push"}
      BY <3>1, HandlerFacts
    <3>. QED
      BY <1>2, <3>2 DEF PollEvent
  <2>. QED
    BY <2>1, <2>2
<1>3. CASE Push
  BY <1>3 DEF Push
<1>4. CASE LoseFocus
  BY <1>4 DEF LoseFocus
<1>5. CASE ClearEvents
  BY <1>5 DEF ClearEvents
<1>6. CASE GainFocus
  BY <1>6 DEF GainFocus
<1>7. CASE LockMain
  BY <1>7 DEF LockMain
<1>8. CASE SetView
  BY <1>8 DEF SetView
<1>9. CASE Close
  BY <1>9 DEF Close
<1>10. CASE JoinRender
  BY <1>10 DEF JoinRender
<1>11. CASE RenderTest
  BY <1>11 DEF RenderTest
<1>12. CASE ReadFocus
  BY <1>12 DEF ReadFocus
<1>13. CASE ConsumeEvents
  BY <1>13 DEF ConsumeEvents
<1>14. CASE LockRender
  BY <1>14 DEF LockRender
<1>15. CASE Draw
  BY <1>15 DEF Draw
<1>16. CASE UserStep
  <2>1. CASE \E k \in Keys : PressKey(k) \/ ReleaseKey(k)
    BY <1>16, <2>1 DEF UserStep, PressKey, ReleaseKey
  <2>2. CASE SwitchWindow
    <3>1. focused' = ~focused
      BY <2>2 DEF SwitchWindow
    <3>2. (~focused) \in BOOLEAN
      OBVIOUS
    <3>3. focused' \in BOOLEAN
      BY <3>1, <3>2
    <3>4. blurred' \in BOOLEAN
      BY <2>2 DEF SwitchWindow
    <3>. QED
      BY <1>16, <3>3, <3>4 DEF UserStep
  <2>3. CASE OtherEvent
    BY <1>16, <2>3 DEF UserStep, OtherEvent
  <2>. QED
    BY <1>16, <2>1, <2>2, <2>3 DEF UserStep
<1>17. CASE UNCHANGED vars
  BY <1>17 DEF vars
<1>. QED
  BY <1>1, <1>2, <1>3, <1>4, <1>5, <1>6, <1>7, <1>8, <1>9, <1>10, <1>11, <1>12, <1>13,
     <1>14, <1>15, <1>16, <1>17 DEF Next, MainStep, RenderStep

\* Events are passed on as they are.
LEMMA EventTypesNext ==
  ASSUME EventTypes, FocusKept, [Next]_vars
  PROVE  EventTypes'
<1> USE DEF EventTypes, main, render, user
<1>1. CASE TestOpen
  BY <1>1 DEF TestOpen
<1>2. CASE PollEvent
  BY <1>2 DEF PollEvent
<1>3. CASE Push
  BY <1>3 DEF Push
<1>4. CASE LoseFocus
  BY <1>4 DEF LoseFocus
<1>5. CASE ClearEvents
  BY <1>5 DEF ClearEvents
<1>6. CASE GainFocus
  BY <1>6 DEF GainFocus
<1>7. CASE LockMain
  BY <1>7 DEF LockMain
<1>8. CASE SetView
  BY <1>8 DEF SetView
<1>9. CASE Close
  BY <1>9 DEF Close
<1>10. CASE JoinRender
  BY <1>10 DEF JoinRender
<1>11. CASE RenderTest
  BY <1>11 DEF RenderTest
<1>12. CASE ReadFocus
  BY <1>12 DEF ReadFocus
<1>13. CASE ConsumeEvents
  BY <1>13 DEF ConsumeEvents
<1>14. CASE LockRender
  BY <1>14 DEF LockRender
<1>15. CASE Draw
  BY <1>15 DEF Draw
<1>16. CASE UserStep
  <2>1. PICK e \in Events : pending' \in {pending, Append(pending, e)}
    BY <1>16, Reported
  <2>. QED
    BY <1>16, <2>1 DEF UserStep
<1>17. CASE UNCHANGED vars
  BY <1>17 DEF vars
<1>. QED
  BY <1>1, <1>2, <1>3, <1>4, <1>5, <1>6, <1>7, <1>8, <1>9, <1>10, <1>11, <1>12, <1>13,
     <1>14, <1>15, <1>16, <1>17 DEF Next, MainStep, RenderStep

\* The map has a truth value for every key.
LEMMA KeyTypesNext ==
  ASSUME KeyTypes, [Next]_vars
  PROVE  KeyTypes'
<1> USE DEF KeyTypes, main, render, user
<1>1. CASE TestOpen
  BY <1>1 DEF TestOpen
<1>2. CASE PollEvent
  BY <1>2 DEF PollEvent
<1>3. CASE Push
  BY <1>3 DEF Push
<1>4. CASE LoseFocus
  BY <1>4 DEF LoseFocus
<1>5. CASE ClearEvents
  BY <1>5 DEF ClearEvents
<1>6. CASE GainFocus
  BY <1>6 DEF GainFocus
<1>7. CASE LockMain
  BY <1>7 DEF LockMain
<1>8. CASE SetView
  BY <1>8 DEF SetView
<1>9. CASE Close
  BY <1>9 DEF Close
<1>10. CASE JoinRender
  BY <1>10 DEF JoinRender
<1>11. CASE RenderTest
  BY <1>11 DEF RenderTest
<1>12. CASE ReadFocus
  BY <1>12 DEF ReadFocus
<1>13. CASE ConsumeEvents
  <2>1. \A k \in Keys : UpdateKbPressed(events)[k] \in BOOLEAN
    BY DEF UpdateKbPressed
  <2>2. UpdateKbPressed(events) = [k \in Keys |-> UpdateKbPressed(events)[k]]
    BY DEF UpdateKbPressed
  <2>3. UpdateKbPressed(events) \in [Keys -> BOOLEAN]
    BY <2>1, <2>2
  <2>. QED
    BY <1>13, <2>3 DEF ConsumeEvents
<1>14. CASE LockRender
  BY <1>14 DEF LockRender
<1>15. CASE Draw
  BY <1>15 DEF Draw
<1>16. CASE UserStep
  BY <1>16 DEF UserStep, PressKey, ReleaseKey, SwitchWindow, OtherEvent, Report
<1>17. CASE UNCHANGED vars
  BY <1>17 DEF vars
<1>. QED
  BY <1>1, <1>2, <1>3, <1>4, <1>5, <1>6, <1>7, <1>8, <1>9, <1>10, <1>11, <1>12, <1>13,
     <1>14, <1>15, <1>16, <1>17 DEF Next, MainStep, RenderStep

\* The lock is taken when it is free, and given back by who took it.
LEMMA MutexHeldNext ==
  ASSUME ControlTypes, EventTypes, MutexHeld, [Next]_vars
  PROVE  MutexHeld'
<1> USE DEF ControlTypes, MutexHeld, main, render, user
<1>1. CASE TestOpen
  BY <1>1 DEF TestOpen
<1>2. CASE PollEvent
  <2>1. CASE pending = <<>> \/ ~open
    BY <1>2, <2>1 DEF PollEvent
  <2>2. CASE ~(pending = <<>> \/ ~open)
    <3>1. event' = Head(pending) /\ mpc' = Handler(event') /\ Head(pending) \in Events
      BY <1>2, <2>2 DEF PollEvent, EventTypes
    <3>2. mpc' \in {"lockView", "poll", "lockClose", "lostFocus", "gainedFocus", "push"}
      BY <3>1, HandlerFacts
    <3>. QED
      BY <1>2, <3>2 DEF PollEvent
  <2>. QED
    BY <2>1, <2>2
<1>3. CASE Push
  BY <1>3 DEF Push
<1>4. CASE LoseFocus
  BY <1>4 DEF LoseFocus
<1>5. CASE ClearEvents
  BY <1>5 DEF ClearEvents
<1>6. CASE GainFocus
  BY <1>6 DEF GainFocus
<1>7. CASE LockMain
  BY <1>7 DEF LockMain
<1>8. CASE SetView
  BY <1>8 DEF SetView
<1>9. CASE Close
  BY <1>9 DEF Close
<1>10. CASE JoinRender
  BY <1>10 DEF JoinRender
<1>11. CASE RenderTest
  BY <1>11 DEF RenderTest
<1>12. CASE ReadFocus
  BY <1>12 DEF ReadFocus
<1>13. CASE ConsumeEvents
  BY <1>13 DEF ConsumeEvents
<1>14. CASE LockRender
  BY <1>14 DEF LockRender
<1>15. CASE Draw
  BY <1>15 DEF Draw
<1>16. CASE UserStep
  BY <1>16 DEF UserStep, PressKey, ReleaseKey, SwitchWindow, OtherEvent, Report
<1>17. CASE UNCHANGED vars
  BY <1>17 DEF vars
<1>. QED
  BY <1>1, <1>2, <1>3, <1>4, <1>5, <1>6, <1>7, <1>8, <1>9, <1>10, <1>11, <1>12, <1>13,
     <1>14, <1>15, <1>16, <1>17 DEF Next, MainStep, RenderStep

\* Of the focus one hears after it was away.
LEMMA FocusKeptNext ==
  ASSUME EventTypes, FocusKept, [Next]_vars
  PROVE  FocusKept'
<1> USE DEF main, render, user
<1>1. CASE TestOpen
  BY <1>1 DEF TestOpen, FocusKept
<1>2. CASE PollEvent
  <2> SUFFICES ASSUME ~blurred'
               PROVE  FocusKept'
    BY DEF FocusKept
  <2>1. CASE pending = <<>> \/ ~open
    BY <1>2, <2>1 DEF PollEvent, FocusKept
  <2>2. CASE ~(pending = <<>> \/ ~open)
    <3>1. /\ event' = Head(pending) /\ pending' = Tail(pending)
          /\ mpc' = Handler(event') /\ Head(pending) \in Events
          /\ Head(pending) = pending[1] /\ 1 \in DOMAIN pending
          /\ \A i \in DOMAIN Tail(pending) : i + 1 \in DOMAIN pending
                                             /\ Tail(pending)[i] = pending[i + 1]
      BY <1>2, <2>2 DEF PollEvent, EventTypes
    <3>2. mpc' \notin {"lostFocus", "clear", "gainedFocus"}
      BY <1>2, <3>1, HandlerFacts DEF PollEvent, FocusKept
    <3>. QED
      BY <1>2, <3>1, <3>2 DEF PollEvent, FocusKept
  <2>. QED
    BY <2>1, <2>2
<1>3. CASE Push
  BY <1>3 DEF Push, FocusKept
<1>4. CASE LoseFocus
  BY <1>4 DEF LoseFocus, FocusKept
<1>5. CASE ClearEvents
  BY <1>5 DEF ClearEvents, FocusKept
<1>6. CASE GainFocus
  BY <1>6 DEF GainFocus, FocusKept
<1>7. CASE LockMain
  BY <1>7 DEF LockMain, FocusKept
<1>8. CASE SetView
  BY <1>8 DEF SetView, FocusKept
<1>9. CASE Close
  BY <1>9 DEF Close, FocusKept
<1>10. CASE JoinRender
  BY <1>10 DEF JoinRender, FocusKept
<1>11. CASE RenderTest
  BY <1>11 DEF RenderTest, FocusKept
<1>12. CASE ReadFocus
  BY <1>12 DEF ReadFocus, FocusKept
<1>13. CASE ConsumeEvents
  BY <1>13 DEF ConsumeEvents, FocusKept
<1>14. CASE LockRender
  BY <1>14 DEF LockRender, FocusKept
<1>15. CASE Draw
  BY <1>15 DEF Draw, FocusKept
<1>16. CASE UserStep
  <2>1. PICK e \in Events : /\ pending' \in {pending, Append(pending, e)}
                            /\ ~blurred' => e.type \notin {"LostFocus", "GainedFocus"}
    BY <1>16, Reported
  <2>2. ~blurred' => ~blurred /\ focused' = focused
    BY <1>16 DEF UserStep, PressKey, ReleaseKey, SwitchWindow, OtherEvent
  <2>3. \A i \in DOMAIN Append(pending, e) :
          IF i \in DOMAIN pending THEN Append(pending, e)[i] = pending[i]
                                  ELSE Append(pending, e)[i] = e
    BY DEF EventTypes
  <2>4. \A i \in DOMAIN pending' :
          ~blurred' => pending'[i].type \notin {"LostFocus", "GainedFocus"}
    BY <2>1, <2>2, <2>3 DEF FocusKept
  <2>. QED
    BY <1>16, <2>2, <2>4 DEF UserStep, FocusKept
<1>17. CASE UNCHANGED vars
  BY <1>17 DEF vars, FocusKept
<1>. QED
  BY <1>1, <1>2, <1>3, <1>4, <1>5, <1>6, <1>7, <1>8, <1>9, <1>10, <1>11, <1>12, <1>13,
     <1>14, <1>15, <1>16, <1>17 DEF Next, MainStep, RenderStep

\* What is asked for changes with a frame, by 3 up or 5 down or to a bound.
LEMMA DensityStep ==
  ASSUME KeyTypes, scanDensity \in DensityMin .. DensityMax, Update
  PROVE  /\ scanDensity' \in DensityMin .. DensityMax
         /\ scanDensity' \in {scanDensity - 5, scanDensity, scanDensity + 3, DensityMin, DensityMax}
         /\ scanDensity' > scanDensity => kbPressedMap["W"]
         /\ scanDensity' < scanDensity => kbPressedMap["S"]
<1> DEFINE d == scanDensity
           val == (d + (IF kbPressedMap["W"] THEN 3 ELSE Word - 5)) % Word
<1>1. /\ d \in Nat /\ DensityMin \in Nat /\ DensityMax \in Nat /\ Word \in Nat
      /\ 5 <= DensityMin /\ DensityMin < DensityMax /\ DensityMax + 3 < Word
      /\ DensityMin <= d /\ d <= DensityMax
  BY WindowAssumption
<1>2. kbPressedMap["W"] \in BOOLEAN /\ kbPressedMap["S"] \in BOOLEAN
  BY DEF KeyTypes, Keys
<1>3. CASE kbPressedMap["W"] = kbPressedMap["S"]
  BY <1>3 DEF Update
<1>4. CASE kbPressedMap["W"] /\ ~kbPressedMap["S"]
  <2>1. (d + 3) % Word = d + 3
    <3>1. d + 3 \in 0 .. Word - 1
      BY <1>1
    <3>. HIDE DEF d
    <3>. QED
      BY <1>1, <3>1
  <2>2. scanDensity' = Clamp(d + 3)
    BY <1>4, <2>1 DEF Update
  <2>3. Clamp(d + 3) = IF DensityMax < d + 3 THEN DensityMax ELSE d + 3
    BY <1>1 DEF Clamp, Larger, Smaller
  <2>. QED
    BY <1>1, <1>4, <2>2, <2>3
<1>5. CASE ~kbPressedMap["W"] /\ kbPressedMap["S"]
  <2>1. (d + (Word - 5)) % Word = d - 5
    <3>1. d - 5 \in 0 .. Word - 1 /\ d + (Word - 5) = (d - 5) + Word
      BY <1>1
    <3>2. ((d - 5) + Word) % Word = d - 5
      <4> DEFINE m == d - 5
      <4>1. m \in 0 .. Word - 1 /\ Word > 0
        BY <1>1, <3>1
      <4> HIDE DEF m
      <4>2. (m + Word) % Word = m
        BY <1>1, <4>1
      <4>. QED
        BY <4>2 DEF m
    <3>. QED
      BY <3>1, <3>2
  <2>2. scanDensity' = Clamp(d - 5)
    BY <1>5, <2>1 DEF Update
  <2>3. Clamp(d - 5) = IF d - 5 < DensityMin THEN DensityMin ELSE d - 5
    BY <1>1 DEF Clamp, Larger, Smaller
  <2>. QED
    BY <1>1, <1>5, <2>2, <2>3
<1>. QED
  BY <1>2, <1>3, <1>4, <1>5

\* The density is between its bounds.
LEMMA DensityNext ==
  ASSUME KeyTypes, scanDensity \in DensityMin .. DensityMax, [Next]_vars
  PROVE  (scanDensity \in DensityMin .. DensityMax)'
<1> USE DEF main, render, user
<1>1. CASE TestOpen
  BY <1>1 DEF TestOpen
<1>2. CASE PollEvent
  BY <1>2 DEF PollEvent
<1>3. CASE Push
  BY <1>3 DEF Push
<1>4. CASE LoseFocus
  BY <1>4 DEF LoseFocus
<1>5. CASE ClearEvents
  BY <1>5 DEF ClearEvents
<1>6. CASE GainFocus
  BY <1>6 DEF GainFocus
<1>7. CASE LockMain
  BY <1>7 DEF LockMain
<1>8. CASE SetView
  BY <1>8 DEF SetView
<1>9. CASE Close
  BY <1>9 DEF Close
<1>10. CASE JoinRender
  BY <1>10 DEF JoinRender
<1>11. CASE RenderTest
  BY <1>11 DEF RenderTest
<1>12. CASE ReadFocus
  BY <1>12 DEF ReadFocus
<1>13. CASE ConsumeEvents
  BY <1>13 DEF ConsumeEvents
<1>14. CASE LockRender
  BY <1>14 DEF LockRender
<1>15. CASE Draw
  <2>1. scanDensity' = scanDensity \/ Update
    BY <1>15 DEF Draw
  <2>. QED
    BY <2>1, DensityStep
<1>16. CASE UserStep
  BY <1>16 DEF UserStep
<1>17. CASE UNCHANGED vars
  BY <1>17 DEF vars
<1>. QED
  BY <1>1, <1>2, <1>3, <1>4, <1>5, <1>6, <1>7, <1>8, <1>9, <1>10, <1>11, <1>12, <1>13,
     <1>14, <1>15, <1>16, <1>17 DEF Next, MainStep, RenderStep

\* Events move along, and what the keys will be in the end stays what they are.
LEMMA KeysTrackedNext ==
  ASSUME EventTypes, KeyTypes, KeyTypes', FocusKept, KeysTracked, [Next]_vars
  PROVE  KeysTracked'
<1> USE DEF main, render, user
<1>1. CASE TestOpen
  BY <1>1 DEF TestOpen, KeysTracked, InTheEnd, InHand
<1>2. CASE PollEvent
  <2>1. CASE pending = <<>> \/ ~open
    BY <1>2, <2>1 DEF PollEvent, KeysTracked, InTheEnd, InHand
  <2>2. CASE ~(pending = <<>> \/ ~open)
    <3> SUFFICES ASSUME ~blurred', NEW k \in Keys
                 PROVE  InTheEnd(k)' <=> k \in down'
      BY DEF KeysTracked
    <3> DEFINE b == AfterAll(events, k, kbPressedMap[k])
    <3>1. /\ event' = Head(pending) /\ pending' = Tail(pending) /\ mpc = "poll"
          /\ mpc' = Handler(event') /\ Head(pending) \in Events /\ pending \in Seq(Events)
          /\ pending # <<>> /\ UNCHANGED <<events, kbPressedMap, down, blurred>>
      BY <1>2, <2>2 DEF PollEvent, EventTypes
    <3>2. kbPressedMap[k] \in BOOLEAN
      BY DEF KeyTypes
    <3>3. b \in BOOLEAN
      BY <3>2, AfterType
    <3>4. InTheEnd(k) = AfterAll(pending, k, b)
      BY <3>1 DEF InTheEnd, InHand
    <3>5. InTheEnd(k)' = AfterAll(Tail(pending), k, IF mpc' = "push" THEN After(event', k, b) ELSE b)
      BY <3>1 DEF InTheEnd, InHand
    <3> HIDE DEF b
    <3>6. mpc' # "push" => After(event', k, b) = b
      BY <3>1, HandlerFacts DEF After
    <3>7. InTheEnd(k)' = AfterAll(Tail(pending), k, After(Head(pending), k, b))
      BY <3>1, <3>5, <3>6
    <3>8. InTheEnd(k) <=> InTheEnd(k)'
      BY <3>1, <3>3, <3>4, <3>7, AfterHead
    <3>. QED
      BY <3>1, <3>8 DEF KeysTracked
  <2>. QED
    BY <2>1, <2>2
<1>3. CASE Push
  <2> SUFFICES ASSUME ~blurred', NEW k \in Keys
               PROVE  InTheEnd(k)' <=> k \in down'
    BY DEF KeysTracked
  <2> DEFINE was == kbPressedMap[k]
             b == After(event, k, AfterAll(events, k, was))
             c == AfterAll(Append(events, event), k, was)
  <2>1. /\ events' = Append(events, event) /\ mpc = "push" /\ mpc' = "poll"
        /\ events \in Seq(Events) /\ UNCHANGED <<pending, kbPressedMap, down, blurred>>
    BY <1>3 DEF Push, EventTypes
  <2>2. was \in BOOLEAN
    BY DEF KeyTypes
  <2>3. InTheEnd(k) = AfterAll(pending, k, b)
    BY <2>1 DEF InTheEnd, InHand
  <2>4. InTheEnd(k)' = AfterAll(pending, k, c)
    BY <2>1 DEF InTheEnd, InHand
  <2>5. b \in BOOLEAN /\ c \in BOOLEAN
    <3> HIDE DEF was
    <3>. QED
      BY <2>2, AfterType
  <2>6. b <=> c
    <3> HIDE DEF was
    <3>. QED
      BY <2>1, <2>2, AfterAppend
  <2> HIDE DEF b, c
  <2>7. b = c
    BY <2>5, <2>6
  <2>. QED
    BY <2>1, <2>3, <2>4, <2>7 DEF KeysTracked
<1>4. CASE LoseFocus
  BY <1>4 DEF LoseFocus, FocusKept, KeysTracked
<1>5. CASE ClearEvents
  BY <1>5 DEF ClearEvents, FocusKept, KeysTracked
<1>6. CASE GainFocus
  BY <1>6 DEF GainFocus, FocusKept, KeysTracked
<1>7. CASE LockMain
  BY <1>7 DEF LockMain, KeysTracked, InTheEnd, InHand
<1>8. CASE SetView
  BY <1>8 DEF SetView, KeysTracked, InTheEnd, InHand
<1>9. CASE Close
  BY <1>9 DEF Close, KeysTracked, InTheEnd, InHand
<1>10. CASE JoinRender
  BY <1>10 DEF JoinRender, KeysTracked, InTheEnd, InHand
<1>11. CASE RenderTest
  BY <1>11 DEF RenderTest, KeysTracked, InTheEnd, InHand
<1>12. CASE ReadFocus
  BY <1>12 DEF ReadFocus, KeysTracked, InTheEnd, InHand
<1>13. CASE ConsumeEvents
  <2> SUFFICES ASSUME ~blurred', NEW k \in Keys
               PROVE  InTheEnd(k)' <=> k \in down'
    BY DEF KeysTracked
  <2> DEFINE b == AfterAll(events, k, kbPressedMap[k])
             c == kbPressedMap'[k]
  <2>1. /\ kbPressedMap' = UpdateKbPressed(events) /\ events' = <<>>
        /\ UNCHANGED <<mpc, event, pending, down, blurred>>
    BY <1>13 DEF ConsumeEvents
  <2>2. kbPressedMap[k] \in BOOLEAN /\ c \in BOOLEAN
    BY DEF KeyTypes
  <2>3. b \in BOOLEAN
    BY <2>2, AfterType
  <2>4. c <=> b
    BY <2>1, UpdateIsAfterAll
  <2>5. InTheEnd(k) = AfterAll(pending, k, InHand(k, b))
    BY DEF InTheEnd
  <2>6. InTheEnd(k)' = AfterAll(pending, k, InHand(k, AfterAll(<<>>, k, c)))
    BY <2>1 DEF InTheEnd, InHand
  <2> HIDE DEF b, c
  <2>7. b = AfterAll(<<>>, k, c)
    BY <2>2, <2>3, <2>4, AfterNone
  <2>. QED
    BY <2>1, <2>5, <2>6, <2>7 DEF KeysTracked
<1>14. CASE LockRender
  BY <1>14 DEF LockRender, KeysTracked, InTheEnd, InHand
<1>15. CASE Draw
  BY <1>15 DEF Draw, KeysTracked, InTheEnd, InHand
<1>16. CASE UserStep
  <2> SUFFICES ASSUME ~blurred', NEW k \in Keys
               PROVE  InTheEnd(k)' <=> k \in down'
    BY DEF KeysTracked
  <2> DEFINE b == InHand(k, AfterAll(events, k, kbPressedMap[k]))
  <2>1. ~blurred
    BY <1>16 DEF UserStep, PressKey, ReleaseKey, SwitchWindow, OtherEvent
  <2>2. focused /\ (InTheEnd(k) <=> k \in down)
    BY <2>1 DEF FocusKept, KeysTracked
  <2>3. b \in BOOLEAN
    <3>1. kbPressedMap[k] \in BOOLEAN
      BY DEF KeyTypes
    <3>2. AfterAll(events, k, kbPressedMap[k]) \in BOOLEAN
      BY <3>1, AfterType
    <3>. QED
      BY <3>2, AfterType DEF InHand
  <2>4. InTheEnd(k) = AfterAll(pending, k, b)
    BY DEF InTheEnd
  <2>5. InTheEnd(k)' = AfterAll(pending', k, b)
    BY <1>16 DEF UserStep, render, main, InTheEnd, InHand
  <2> HIDE DEF b
  <2>6. ASSUME NEW e, pending' = Append(pending, e)
        PROVE  InTheEnd(k)' <=> After(e, k, InTheEnd(k))
    BY <2>3, <2>4, <2>5, <2>6, AfterAppend DEF EventTypes
  <2>7. ASSUME NEW l \in Keys, PressKey(l)
        PROVE  InTheEnd(k)' <=> k \in down'
    <3>1. pending' = Append(pending, Pressed(l)) /\ down' = down \cup {l}
      BY <2>7 DEF PressKey, Report
    <3>2. InTheEnd(k)' <=> After(Pressed(l), k, InTheEnd(k))
      BY <2>6, <3>1
    <3>. QED
      BY <2>2, <3>1, <3>2, KeyEvents DEF After
  <2>8. ASSUME NEW l \in Keys, ReleaseKey(l)
        PROVE  InTheEnd(k)' <=> k \in down'
    <3>1. pending' = Append(pending, Released(l)) /\ down' = down \ {l}
      BY <2>2, <2>8 DEF ReleaseKey, Report
    <3>2. InTheEnd(k)' <=> After(Released(l), k, InTheEnd(k))
      BY <2>6, <3>1
    <3>. QED
      BY <2>2, <3>1, <3>2, KeyEvents DEF After
  <2>9. CASE OtherEvent
    <3>1. PICK type \in {"Resized", "Closed", "MouseMoved"} :
            pending' = Append(pending, Plain(type))
      BY <2>9 DEF OtherEvent, Report
    <3>2. InTheEnd(k)' <=> After(Plain(type), k, InTheEnd(k))
      BY <2>6, <3>1
    <3>3. After(Plain(type), k, InTheEnd(k)) = InTheEnd(k)
      BY <3>1, PlainEvents
    <3>. QED
      BY <2>2, <2>9, <3>2, <3>3 DEF OtherEvent
  <2>10. CASE SwitchWindow
    BY <2>10 DEF SwitchWindow
  <2>. QED
    BY <1>16, <2>7, <2>8, <2>9, <2>10 DEF UserStep
<1>17. CASE UNCHANGED vars
  BY <1>17 DEF vars, KeysTracked, InTheEnd, InHand
<1>. QED
  BY <1>1, <1>2, <1>3, <1>4, <1>5, <1>6, <1>7, <1>8, <1>9, <1>10, <1>11, <1>12, <1>13,
     <1>14, <1>15, <1>16, <1>17 DEF Next, MainStep, RenderStep

LEMMA InitInv ==
  ASSUME Init
  PROVE  IInv
<1> USE DEF Init
<1>1. TypeOK
  <2>1. ControlTypes
    BY DEF ControlTypes
  <2>2. EventTypes
    BY DEF EventTypes, Events
  <2>3. KeyTypes
    BY DEF KeyTypes
  <2>4. scanDensity \in DensityMin .. DensityMax
    BY WindowAssumption
  <2>. QED
    BY <2>1, <2>2, <2>3, <2>4 DEF TypeOK
<1>2. MutexHeld /\ FocusKept
  BY DEF MutexHeld, FocusKept
<1>3. ASSUME NEW k \in Keys
      PROVE  InTheEnd(k) <=> k \in down
  <2>1. InTheEnd(k) = AfterAll(<<>>, k, AfterAll(<<>>, k, FALSE))
    BY DEF InTheEnd, InHand
  <2>. QED
    BY <2>1, AfterNone
<1>. QED
  BY <1>1, <1>2, <1>3 DEF IInv, KeysTracked

LEMMA NextInv ==
  ASSUME IInv, [Next]_vars
  PROVE  IInv'
<1>1. /\ ControlTypes /\ EventTypes /\ KeyTypes /\ scanDensity \in DensityMin .. DensityMax
      /\ MutexHeld /\ FocusKept /\ KeysTracked
  BY DEF IInv, TypeOK
<1>2. KeyTypes'
  BY <1>1, KeyTypesNext
<1>3. ControlTypes' /\ EventTypes' /\ (scanDensity \in DensityMin .. DensityMax)'
  BY <1>1, ControlTypesNext, EventTypesNext, DensityNext
<1>4. MutexHeld' /\ FocusKept' /\ KeysTracked'
  BY <1>1, <1>2, MutexHeldNext, FocusKeptNext, KeysTrackedNext
<1>. QED
  BY <1>2, <1>3, <1>4 DEF IInv, TypeOK

\* The inductive invariant holds in every reachable state.
THEOREM InvHolds == Spec => []IInv
<1>1. Init => IInv
  BY InitInv
<1>2. IInv /\ [Next]_vars => IInv'
  BY NextInv
<1>. QED
  BY <1>1, <1>2, PTL DEF Spec

-----------------------------------------------------------------------------
(* The theorems.                                                           *)

\* Every variable keeps its type, and the density its bounds: taking 5 from a
\* uint32_t, and adding 3 to it, never wraps round.
THEOREM TypeCorrect == Spec => []TypeOK
<1>1. IInv => TypeOK
  BY DEF IInv
<1>. QED
  BY <1>1, InvHolds, PTL

\* renderMutex keeps the main thread's changes of the window out of a frame.
THEOREM WindowExclusiveHolds == Spec => []WindowExclusive
<1>1. IInv => WindowExclusive
  BY DEF IInv, MutexHeld, WindowExclusive
<1>. QED
  BY <1>1, InvHolds, PTL

\* Once the events have come through both queues the scene sees the keys that
\* are down, as long as the focus stayed.
THEOREM KeysFollowHolds == Spec => []KeysFollow
<1>1. IInv => KeysFollow
  <2> SUFFICES ASSUME IInv, ~blurred, pending = <<>>, events = <<>>, mpc # "push",
                      NEW k \in Keys
               PROVE  kbPressedMap[k] <=> k \in down
    BY DEF KeysFollow
  <2>1. InTheEnd(k) = AfterAll(<<>>, k, AfterAll(<<>>, k, kbPressedMap[k]))
    BY DEF InTheEnd, InHand
  <2>. QED
    BY <2>1, AfterNone DEF IInv, KeysTracked
<1>. QED
  BY <1>1, InvHolds, PTL

\* The density a frame asks for is the one before, a step of 3 up while W is
\* down or a step of 5 down while S is, or the bound in the way.
THEOREM DensityMoves ==
  Spec => [][/\ scanDensity' \in {scanDensity - 5, scanDensity, scanDensity + 3,
                                  DensityMin, DensityMax}
             /\ scanDensity' > scanDensity => kbPressedMap["W"]
             /\ scanDensity' < scanDensity => kbPressedMap["S"]]_vars
<1> DEFINE Moves == /\ scanDensity' \in {scanDensity - 5, scanDensity, scanDensity + 3,
                                         DensityMin, DensityMax}
                    /\ scanDensity' > scanDensity => kbPressedMap["W"]
                    /\ scanDensity' < scanDensity => kbPressedMap["S"]
<1>1. ASSUME IInv, [Next]_vars
      PROVE  [Moves]_vars
  <2>1. KeyTypes /\ scanDensity \in DensityMin .. DensityMax /\ scanDensity \in Nat
    BY <1>1, WindowAssumption DEF IInv, TypeOK
  <2>2. scanDensity' = scanDensity \/ Update
    BY <1>1 DEF Next, MainStep, RenderStep, TestOpen, PollEvent, Push, LoseFocus, ClearEvents,
         GainFocus, LockMain, SetView, Close, JoinRender, RenderTest, ReadFocus, ConsumeEvents,
         LockRender, Draw, UserStep, render, vars
  <2>. QED
    BY <2>1, <2>2, DensityStep
<1>. HIDE DEF Moves
<1>2. Spec => [][Moves]_vars
  BY <1>1, InvHolds, PTL DEF Spec
<1>. QED
  BY <1>2 DEF Moves
=============================================================================

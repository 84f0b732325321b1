------------------------------- MODULE WinRend -------------------------------
(***************************************************************************)
(* The window of the application: WinRend::Main with its two threads, the  *)
(* main thread that polls the window's events and the render thread that   *)
(* consumes them, updates the scene and draws it; Scene::render,           *)
(* InputSource and LidarContainer::update as the render thread runs them.  *)
(* Shared are the window, lostFocus, the queue of events and renderMutex.  *)
(*                                                                         *)
(* An event is its kind and, of a key, the key; drawing is when it is done *)
(* and not what it shows.  The user and the window system are external.    *)
(***************************************************************************)
EXTENDS Naturals, Sequences, FiniteSets

CONSTANTS
  MaxPending,     \* bounds the events between the user and the input source
  MakeNewView,    \* makeNewViewIfResized
  DensityInit, DensityMin, DensityMax,  \* 1024, 10 and 8192 * 2 in the code
  Word            \* 2^32, the values of a uint32_t

ASSUME WindowAssumption ==
  /\ MaxPending \in Nat /\ MakeNewView \in BOOLEAN
  /\ DensityMin \in Nat /\ DensityMax \in Nat /\ Word \in Nat
  /\ 5 <= DensityMin /\ DensityMin < DensityMax /\ DensityMax + 3 < Word
  /\ DensityInit \in DensityMin .. DensityMax

Keys == {"W", "S"}  \* what isTop and isBottom look at

Pressed(k) == [type |-> "KeyPressed", key |-> k]
Released(k) == [type |-> "KeyReleased", key |-> k]
Plain(type) == [type |-> type, key |-> "none"]

Events == {Pressed(k) : k \in Keys} \cup {Released(k) : k \in Keys}
          \cup {Plain(type) : type \in {"Resized", "Closed", "LostFocus", "GainedFocus", "MouseMoved"}}

VARIABLES
  mpc, rpc,       \* where the main thread and the render thread are
  event,          \* the event the main thread polled
  open,           \* window.isOpen()
  lostFocus, paused,  \* the flag, and what the render thread read of it
  events,         \* the queue between the two threads
  renderMutex,
  kbPressedMap, scanDensity,
  pending, down, focused, blurred  \* the window system: the events not polled
                  \* yet, the keys that are down, the focus, and whether it
                  \* was ever away

main   == <<mpc, event>>
render == <<rpc, paused, kbPressedMap, scanDensity>>
user   == <<pending, down, focused, blurred>>
vars   == <<main, render, user, open, lostFocus, events, renderMutex>>

Init ==
  /\ mpc = "test" /\ event = Plain("MouseMoved") /\ open = TRUE
  /\ rpc = "test" /\ paused = FALSE
  /\ kbPressedMap = [k \in Keys |-> FALSE] /\ scanDensity = DensityInit
  /\ lostFocus = FALSE /\ events = <<>> /\ renderMutex = "free"
  /\ pending = <<>> /\ down = {} /\ focused = TRUE /\ blurred = FALSE

-----------------------------------------------------------------------------
(* The main thread.                                                        *)

TestOpen ==
  /\ mpc = "test"
  /\ mpc' = IF open THEN "poll" ELSE "join"
  /\ UNCHANGED <<event, render, user, open, lostFocus, events, renderMutex>>

\* What becomes of the event that was polled.
Handler(e) ==
  CASE e.type = "Resized" -> IF MakeNewView THEN "lockView" ELSE "poll"
    [] e.type = "Closed" -> "lockClose"
    [] e.type = "LostFocus" -> "lostFocus"
    [] e.type = "GainedFocus" -> "gainedFocus"
    [] OTHER -> "push"

\* No event is left, or the window is closed: the iteration ends.
PollEvent ==
  /\ mpc = "poll"
  /\ IF pending = <<>> \/ ~open
       THEN mpc' = "test" /\ UNCHANGED <<event, pending>>
       ELSE /\ event' = Head(pending) /\ pending' = Tail(pending)
            /\ mpc' = Handler(event')
  /\ UNCHANGED <<render, down, focused, blurred, open, lostFocus, events, renderMutex>>

\* (mutant) the event goes to the front of the queue
Push_Front ==
  /\ mpc = "push"
  /\ events' = <<event>> \o events
  /\ mpc' = "poll"
  /\ UNCHANGED <<event, render, user, open, lostFocus, renderMutex>>

Push ==
  /\ mpc = "push"
  /\ events' = Append(events, event)
  /\ mpc' = "poll"
  /\ UNCHANGED <<event, render, user, open, lostFocus, renderMutex>>

\* lostFocus is raised, then the events nobody consumed are dropped.
LoseFocus ==
  /\ mpc = "lostFocus"
  /\ lostFocus' = TRUE
  /\ mpc' = "clear"
  /\ UNCHANGED <<event, render, user, open, events, renderMutex>>

ClearEvents ==
  /\ mpc = "clear"
  /\ events' = <<>>
  /\ mpc' = "poll"
  /\ UNCHANGED <<event, render, user, open, lostFocus, renderMutex>>

GainFocus ==
  /\ mpc = "gainedFocus"
  /\ lostFocus' = FALSE
  /\ mpc' = "poll"
  /\ UNCHANGED <<event, render, user, open, events, renderMutex>>

\* (mutant) the window is closed and resized without the lock
LockMain_NoWait ==
  /\ mpc \in {"lockView", "lockClose"}
  /\ renderMutex' = "main"
  /\ mpc' = IF mpc = "lockView" THEN "setView" ELSE "close"
  /\ UNCHANGED <<event, render, user, open, lostFocus, events>>

LockMain ==
  /\ mpc \in {"lockView", "lockClose"} /\ renderMutex = "free"
  /\ renderMutex' = "main"
  /\ mpc' = IF mpc = "lockView" THEN "setView" ELSE "close"
  /\ UNCHANGED <<event, render, user, open, lostFocus, events>>

SetView ==
  /\ mpc = "setView"
  /\ renderMutex' = "free"
  /\ mpc' = "poll"
  /\ UNCHANGED <<event, render, user, open, lostFocus, events>>

\* (mutant) the lock is not given back
Close_KeepsLock ==
  /\ mpc = "close"
  /\ open' = FALSE
  /\ mpc' = "poll"
  /\ UNCHANGED <<event, render, user, lostFocus, events, renderMutex>>

Close ==
  /\ mpc = "close"
  /\ open' = FALSE /\ renderMutex' = "free"
  /\ mpc' = "poll"
  /\ UNCHANGED <<event, render, user, lostFocus, events>>

JoinRender ==
  /\ mpc = "join" /\ rpc = "ended"
  /\ mpc' = "returned"
  /\ UNCHANGED <<event, render, user, open, lostFocus, events, renderMutex>>

MainStep ==
  \/ TestOpen \/ PollEvent \/ Push \/ LoseFocus \/ ClearEvents \/ GainFocus
  \/ LockMain \/ SetView \/ Close \/ JoinRender

-----------------------------------------------------------------------------
(* The render thread.                                                      *)

RenderTest ==
  /\ rpc = "test"
  /\ rpc' = IF open THEN "focus" ELSE "ended"
  /\ UNCHANGED <<main, paused, kbPressedMap, scanDensity, user, open, lostFocus, events, renderMutex>>

ReadFocus ==
  /\ rpc = "focus"
  /\ paused' = lostFocus
  /\ rpc' = IF lostFocus THEN "lock" ELSE "swap"
  /\ UNCHANGED <<main, kbPressedMap, scanDensity, user, open, lostFocus, events, renderMutex>>

\* The last of a key's events says whether it is pressed.
UpdateKbPressed(src) ==
  [k \in Keys |->
     LET mine == {i \in DOMAIN src : src[i] \in {Pressed(k), Released(k)}}
     IN  IF mine = {} THEN kbPressedMap[k]
         ELSE \E i \in mine : src[i] = Pressed(k) /\ \A j \in mine : j <= i]

\* The whole queue is swapped out in one go, and gone through.
ConsumeEvents ==
  /\ rpc = "swap"
  /\ kbPressedMap' = UpdateKbPressed(events)
  /\ events' = <<>>
  /\ rpc' = "lock"
  /\ UNCHANGED <<main, paused, scanDensity, user, open, lostFocus, renderMutex>>

LockRender ==
  /\ rpc = "lock" /\ renderMutex = "free"
  /\ renderMutex' = "render"
  /\ rpc' = "draw"
  /\ UNCHANGED <<main, paused, kbPressedMap, scanDensity, user, open, lostFocus, events>>

Larger(m, n) == IF m < n THEN n ELSE m
Smaller(m, n) == IF m < n THEN m ELSE n

\* (mutant) the lower bound is not applied
Clamp_NoFloor(val) == Smaller(DensityMax, val)

Clamp(val) == Larger(DensityMin, Smaller(DensityMax, val))

\* LidarContainer::update: a uint32_t goes up by 3 or down by 5.
Update ==
  LET plus == kbPressedMap["W"]
      minus == kbPressedMap["S"]
      val == (scanDensity + (IF plus THEN 3 ELSE Word - 5)) % Word
  IN  scanDensity' = IF plus # minus THEN Clamp(val) ELSE scanDensity

\* clear, Scene::render and display, up to the end of the lock's block.
Draw ==
  /\ rpc = "draw"
  /\ IF paused THEN UNCHANGED scanDensity ELSE Update
  /\ renderMutex' = "free"
  /\ rpc' = "test"
  /\ UNCHANGED <<main, paused, kbPressedMap, user, open, lostFocus, events>>

RenderStep ==
  RenderTest \/ ReadFocus \/ ConsumeEvents \/ LockRender \/ Draw

-----------------------------------------------------------------------------
(* The user and the window system: keys are reported to who has the focus. *)

Room == Len(pending) + Len(events) < MaxPending /\ open

Report(e) == pending' = Append(pending, e)

PressKey(k) ==
  /\ Room /\ focused /\ k \notin down
  /\ down' = down \cup {k}
  /\ Report(Pressed(k))
  /\ UNCHANGED <<focused, blurred>>

ReleaseKey(k) ==
  /\ Room /\ k \in down
  /\ down' = down \ {k}
  /\ IF focused THEN Report(Released(k)) ELSE UNCHANGED pending
  /\ UNCHANGED <<focused, blurred>>

SwitchWindow ==
  /\ Room
  /\ focused' = ~focused /\ blurred' = TRUE
  /\ Report(Plain(IF focused THEN "LostFocus" ELSE "GainedFocus"))
  /\ UNCHANGED down

OtherEvent ==
  /\ Room
  /\ \E type \in {"Resized", "Closed", "MouseMoved"} : Report(Plain(type))
  /\ UNCHANGED <<down, focused, blurred>>

UserStep ==
  /\ \/ \E k \in Keys : PressKey(k) \/ ReleaseKey(k)
     \/ SwitchWindow \/ OtherEvent
  /\ UNCHANGED <<main, render, open, lostFocus, events, renderMutex>>

Next == MainStep \/ RenderStep \/ UserStep

Spec == Init /\ [][Next]_vars

(***************************************************************************)
(* Fairness.  Both threads run.  Each sleeps at the end of an iteration    *)
(* without the lock, so that the other's spin on it ends.                  *)
(***************************************************************************)
FairSpec ==
  /\ Spec
  /\ WF_vars(MainStep) /\ WF_vars(RenderStep)
  /\ SF_vars(LockMain) /\ SF_vars(LockRender)

-----------------------------------------------------------------------------
(* What must hold.                                                         *)

ControlTypes ==
  /\ mpc \in {"test", "poll", "push", "lostFocus", "clear", "gainedFocus", "lockView",
              "lockClose", "setView", "close", "join", "returned"}
  /\ rpc \in {"test", "focus", "swap", "lock", "draw", "ended"}
  /\ renderMutex \in {"free", "main", "render"}
  /\ open \in BOOLEAN /\ lostFocus \in BOOLEAN /\ paused \in BOOLEAN
  /\ focused \in BOOLEAN /\ blurred \in BOOLEAN

EventTypes == event \in Events /\ events \in Seq(Events) /\ pending \in Seq(Events)

KeyTypes == kbPressedMap \in [Keys -> BOOLEAN] /\ down \subseteq Keys

\* Every variable has its type; the density the reader asks for stays between
\* its bounds, so that taking 5 from a uint32_t never wraps round.
TypeOK ==
  ControlTypes /\ EventTypes /\ KeyTypes /\ scanDensity \in DensityMin .. DensityMax

\* The window is not closed or given a view between clear and display.
WindowExclusive == ~(mpc \in {"setView", "close"} /\ rpc = "draw")

\* As long as the focus stayed, the keys the scene sees are the keys that
\* are down, once their events have come through both queues: none is lost,
\* repeated or overtaken.
KeysFollow ==
  ~blurred /\ pending = <<>> /\ events = <<>> /\ mpc # "push" =>
    \A k \in Keys : kbPressedMap[k] <=> k \in down

\* A request to close the window ends the program: the main thread returns,
\* which it does after the render thread has ended.
CloseEnds ==
  (\E i \in DOMAIN pending : pending[i].type = "Closed") ~> mpc = "returned" /\ rpc = "ended"
=============================================================================

----------------------------- MODULE HalThread -----------------------------
(***************************************************************************)
(* rp::hal::Thread (hal/thread.h, arch/*/thread.hpp, winthread.hpp) as the *)
(* driver uses it: the one object _cachethread, which create() overwrites  *)
(* with a new handle and join() waits on.                                  *)
(***************************************************************************)
EXTENDS Platform

VARIABLE
  cachethread  \* handle: _handle is not 0; state: of the thread last
               \* created, none, running, ended or joined

ThreadInit == cachethread = [handle |-> FALSE, state |-> "none"]

Running == cachethread.state = "running"

\* create() on Linux: the result of pthread_create is not looked at; the
\* handle of the new object stays 0 when there is no thread.
LinuxCreate(granted) ==
  [handle |-> granted, state |-> IF granted THEN "running" ELSE "none"]
\* create() on macOS: the same statements.
MacCreate(granted) == LinuxCreate(granted)
\* create() on Win32: _beginthreadex returns 0 when it fails.
WinCreate(granted) ==
  [handle |-> granted, state |-> IF granted THEN "running" ELSE "none"]

CreatedThread(granted) ==
  CASE os = "linux" -> LinuxCreate(granted)
    [] os = "macOS" -> MacCreate(granted)
    [] os = "win32" -> WinCreate(granted)

\* join() lets the caller go on when there is no handle or the thread has
\* ended; a thread that was joined already does not hold the caller up.
JoinReturns == ~cachethread.handle \/ ~Running

\* pthread_join leaves _handle as it was, on Linux ...
LinuxJoined ==
  IF cachethread.handle THEN [cachethread EXCEPT !.state = "joined"] ELSE cachethread
\* ... and on macOS.
MacJoined == LinuxJoined
\* WAIT_OBJECT_0: the handle is closed and cleared.
WinJoined ==
  IF cachethread.handle THEN [handle |-> FALSE, state |-> "joined"] ELSE cachethread

JoinedThread ==
  CASE os = "linux" -> LinuxJoined
    [] os = "macOS" -> MacJoined
    [] os = "win32" -> WinJoined

\* The handle names a thread that was joined before: undefined on Linux and
\* macOS.
StaleJoin == cachethread.handle /\ cachethread.state = "joined"
=============================================================================

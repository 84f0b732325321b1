------------------------------ MODULE Platform ------------------------------
(***************************************************************************)
(* The build the SDK was compiled for and the driver the application       *)
(* created (RPlidarDriver::CreateDriver).  Neither changes once the        *)
(* program runs; the modules of the hardware abstraction layer hold one    *)
(* definition per platform where the platforms' files differ.              *)
(***************************************************************************)
EXTENDS Naturals, Sequences, FiniteSets

VARIABLES
  os,   \* "linux", "macOS" or "win32": which file of arch/ was compiled
  kind  \* "serial" or "tcp": RPlidarDriverSerial or RPlidarDriverTCP

Systems == {"linux", "macOS", "win32"}
Kinds == {"serial", "tcp"}

PlatformInit == os \in Systems /\ kind \in Kinds
PlatformFixed == UNCHANGED <<os, kind>>
posix == os # "win32"

Least(a, b) == IF a <= b THEN a ELSE b
=============================================================================

---------------------------- MODULE MCDriverLink ----------------------------
EXTENDS DriverLink

\* Three calls reach a scan that is read while the next exchange begins, an
\* answer that comes after its request was given up, and a driver used after
\* it was disconnected.
MCMaxCalls == 3
MCMaxNodes == 1
MCMaxFaults == 1
MCFirstFault == 2
MCMaxBacklog == 3
\* More than 16 bits.
MCPortNumber == 65536 + 20108
=============================================================================

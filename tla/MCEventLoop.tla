------------------------------ MODULE MCEventLoop ------------------------------
(***************************************************************************)
(* Connections on which requests keep coming.                              *)
(***************************************************************************)
EXTENDS EventLoop

CONSTANTS r1, r2, r3
===============================================================================

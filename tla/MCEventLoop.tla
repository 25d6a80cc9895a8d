----------------------------- MODULE MCEventLoop ------------------------------
(***************************************************************************)
(* Small instances of EventLoop.                                           *)
(***************************************************************************)
EXTENDS EventLoop

MCSizes == {0, 2}
MCOneSize == {0}

===============================================================================

----------------------------- MODULE MCEventArray -----------------------------
(***************************************************************************)
(* EventArray with words that count to 15: an array of 1-byte elements     *)
(* grows to 8 and then panics; of 2 or 3 bytes it overruns when it is to   *)
(* grow beyond 4.                                                          *)
(***************************************************************************)
EXTENDS EventArray

CONSTANTS a, b  \* two events

===============================================================================

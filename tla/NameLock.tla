------------------------------- MODULE NameLock -------------------------------
(***************************************************************************)
(* What shm_pool_init relies on when it creates "/spaze" with O_EXCL and   *)
(* unlinks it at once: the name is a lock that one process at a time is    *)
(* inside of, that only this process opens again, and that nobody opens    *)
(* again when it dies inside.                                              *)
(***************************************************************************)
CONSTANTS
  Procs,   \* the processes
  Nobody,  \* no process has the name
  Stale    \* a process that died has it

VARIABLES
  owner,   \* who has the name
  inside   \* the processes between taking it and giving it back

Init == owner = Nobody /\ inside = {}

Enter(p) ==
  /\ owner = Nobody
  /\ owner' = p
  /\ inside' = inside \union {p}

Leave(p) ==
  /\ owner = p /\ p \in inside
  /\ owner' = Nobody
  /\ inside' = inside \ {p}

DieInside(p) ==
  /\ owner = p /\ p \in inside
  /\ owner' = Stale
  /\ inside' = inside \ {p}

Next == \E p \in Procs : Enter(p) \/ Leave(p) \/ DieInside(p)

Spec == Init /\ [][Next]_<< owner, inside >>
===============================================================================

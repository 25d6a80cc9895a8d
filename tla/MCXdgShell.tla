------------------------------ MODULE MCXdgShell -------------------------------
(***************************************************************************)
(* Instances of XdgShell for TLC.                                          *)
(***************************************************************************)
EXTENDS XdgShell

MCForeign == << "wl_surface", "wl_seat", "wl_output" >>

================================================================================

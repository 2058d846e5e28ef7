------------------------ MODULE MCSidecarSupervisor ------------------------
(* Small instances of SidecarSupervisor.                                   *)
EXTENDS SidecarSupervisor

CONSTANTS r1, r2, r3, r4
=============================================================================

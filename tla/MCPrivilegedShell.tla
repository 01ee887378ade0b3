-------------------------- MODULE MCPrivilegedShell --------------------------
(* Who shares one shell. *)
EXTENDS PrivilegedShell, TLC
CONSTANTS t1, t2
Team(a, b) == (t1 :> a) @@ (t2 :> b)
SmallTeams == {Team("mkdir", "close"), Team("mkdir", "mkdir"), Team("rename", "none"), Team("read", "none")}
==============================================================================

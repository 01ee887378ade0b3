---------------------------- MODULE MCSmbClient ----------------------------
(* Small instances of SmbClient: who shares one client.                     *)
EXTENDS SmbClient, TLC
CONSTANTS t1, t2, t3
Team(a, b, c) == (t1 :> a) @@ (t2 :> b) @@ (t3 :> c)
CheckedTeams ==
  {\* openRandom's own client
   Team("pread", "pread", "close"),
   \* the client of a share, with streams, calls and disconnect()
   Team("call", "call", "close"),
   Team("reader", "call", "none"), Team("writer", "call", "none"),
   Team("reader", "call", "close"), Team("writer", "call", "close"),
   Team("reader", "writer", "none")}
(* A stream beside another screen's call. *)
StreamTeams == {Team("reader", "call", "none")}
==============================================================================

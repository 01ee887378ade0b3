---------------------------- MODULE MCRpcClient ----------------------------
(* Small instances of RpcClient: the settings of nfs_jni.c, those of libnfs,  *)
(* and each of the two of libnfs alone.                                       *)
EXTENDS RpcClient
CONSTANTS c1, c2, c3
TwigMode == {[auto |-> 0, retrans |-> 0]}
LibraryModes == {[auto |-> -1, retrans |-> 2], [auto |-> 1, retrans |-> 0], [auto |-> 0, retrans |-> 2]}
AllModes == TwigMode \cup LibraryModes
==============================================================================

------------------------------ MODULE MCSmbPdu ------------------------------
(* A connection, the connect and two more calls of any kind on it, and its end. *)
EXTENDS SmbPdu
=============================================================================

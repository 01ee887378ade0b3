----------------------------- MODULE MCCopyPipe -----------------------------
(* Model values for CopyPipe: the code's PIPE_DEPTH, and a source longer   *)
(* than the pool, so that every buffer is reused.                          *)
EXTENDS CopyPipe

MCPipeDepth == 3
MCChunks == 5
=============================================================================

-------------------------- MODULE MCTCPConnection --------------------------
(* Values for the model checking of TCPConnection: the opener's sequence   *)
(* numbers wrap around during its stream.                                  *)
EXTENDS TCPConnection, TLC

MCISNs == (Opener :> 14) @@ (Listener :> 3)

MCStreamLens == (Opener :> 2) @@ (Listener :> 0)

(* Two windows of bytes. *)
MCLongStream == (Opener :> 4) @@ (Listener :> 0)
=============================================================================

------------------------------- MODULE MCDialer -------------------------------
(* Small instances of Dialer for TLC.  *)
EXTENDS Dialer

\* All connections belong to the server.
MCOneProcess == [c \in Conns |-> CHOOSE p \in Procs : TRUE]
=============================================================================

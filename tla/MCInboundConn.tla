----------------------------- MODULE MCInboundConn ----------------------------
(* A small instance of InboundConn for TLC.  *)
EXTENDS InboundConn

Z(r, c) == [rows |-> r, cols |-> c]

\* Cut to three, the second has no rows and the third no columns.
MCAsked == {Z(1, 2), Z(3, 1), Z(4, 3)}
MCDefault == Z(2, 2)

\* Window sizes and streams do not meet, so a client asks for sizes or the interface
\* makes streams, and not both.  Whoever would make a stream has something else to do
\* as well: there is no session, or the key was another one.
Either == asks = 0 \/ \A i \in Streams : sub[i] = "none"
MCSpec == Init /\ [][Next /\ Either']_vars /\ Fairness
===============================================================================

------------------------- MODULE MCInboundPipeline -------------------------
(* Values TLC gives the constants of InboundPipeline. *)
EXTENDS InboundPipeline, TLC

CONSTANTS m1, m2, m3, s1, q1, q2

ThreeMessages == {m1, m2, m3}
OneSession == {s1}
TwoTurns == {q1, q2}
OneClient == [m \in Messages |-> s1]

\* The provider stamps two of the messages, one of them ahead of the server's clock
\* (MaxTime is 1), and leaves one without a time.
Timed == m1 :> 0 @@ m2 :> 2 @@ m3 :> None

=============================================================================

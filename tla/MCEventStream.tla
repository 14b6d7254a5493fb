---------------------------- MODULE MCEventStream ----------------------------
(* Values TLC gives the constants of EventStream: the panel of one worker,    *)
(* who has a section and a booking, and a row of another worker.              *)
EXTENDS EventStream, TLC

CONSTANTS w, section, booking, other

WorkerOnly == {w}
ThreeRows == {section, booking, other}
OneSection == {section}
WorkerFollows == w :> {section, booking}

=============================================================================

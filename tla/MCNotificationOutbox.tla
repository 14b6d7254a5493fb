------------------------ MODULE MCNotificationOutbox ------------------------
(* Values TLC gives the constants of NotificationOutbox. *)
EXTENDS NotificationOutbox, TLC

CONSTANTS b1, n1, n2, n3, q1, q2

OneBooking == {b1}
TwoNotes == {n1, n2}
ThreeNotes == {n1, n2, n3}
TwoJobs == {q1, q2}

=============================================================================

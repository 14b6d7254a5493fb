------------------------ MODULE MCBookingTransactions ------------------------
(* Values TLC gives the constants of BookingTransactions. *)
EXTENDS BookingTransactions, TLC

CONSTANTS b1, b2, s1, s2, w1, q1, q2, q3

OneBooking == {b1}
TwoBookings == {b1, b2}
OneSession == {s1}
TwoSessions == {s1, s2}
OneWorker == {w1}
OneCalendar == [s \in Sessions |-> w1]
TwoRequests == {q1, q2}
ThreeRequests == {q1, q2, q3}

Interchangeable ==
  Permutations(Bookings) \union Permutations(Sessions) \union Permutations(Requests)

=============================================================================

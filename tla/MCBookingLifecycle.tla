------------------------- MODULE MCBookingLifecycle -------------------------
(* Values TLC gives the constants of BookingLifecycle. *)
EXTENDS BookingLifecycle, TLC

CONSTANTS b1, b2, s1, s2, w1, m1, m2

TwoBookings == {b1, b2}
OneBooking == {b1}
OneSession == {s1}
TwoSessions == {s1, s2}
OneWorker == {w1}
TwoMedia == {m1, m2}

\* All sessions belong to one worker, the one the deployment seeds.
OneCalendar == [s \in Sessions |-> w1]

\* Rows and sessions are interchangeable; times and statuses are not.
Interchangeable ==
  Permutations(Bookings) \union Permutations(Sessions) \union Permutations(Media)

=============================================================================

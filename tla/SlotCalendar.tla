---------------------------- MODULE SlotCalendar ----------------------------
(***************************************************************************)
(* What the booking system promises about the calendars of its workers: a  *)
(* slot is granted only a buffer away from every slot of the same worker   *)
(* that is held, and a held slot does not move until it is released.       *)
(***************************************************************************)
EXTENDS Integers

CONSTANTS Bookings, Workers, None, Buffer

VARIABLE slot   \* the slot each booking holds; None when it holds none

Slots == [worker : Workers, start : Nat, end : Nat]

FarFrom(x, y) ==
  x.worker = y.worker =>
    x.end + Buffer <= y.start \/ y.end + Buffer <= x.start

Init == slot = [b \in Bookings |-> None]

\* Any slot may be asked for; the one granted is read off the next state.
Reserve(b) ==
  /\ slot[b] = None
  /\ slot'[b] \in Slots
  /\ \A c \in Bookings \ {b} : slot[c] # None => FarFrom(slot[c], slot'[b])
  /\ slot' = [slot EXCEPT ![b] = slot'[b]]

Release(S) ==
  slot' = [b \in Bookings |-> IF b \in S THEN None ELSE slot[b]]

Next ==
  \/ \E b \in Bookings : Reserve(b)
  \/ \E S \in SUBSET Bookings : Release(S)

Spec == Init /\ [][Next]_slot

\* Two slots held at once are compatible, whatever the order of the requests.
NoConflict ==
  \A b, c \in Bookings :
    b # c /\ slot[b] # None /\ slot[c] # None => FarFrom(slot[b], slot[c])

=============================================================================

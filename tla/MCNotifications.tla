---------------------------- MODULE MCNotifications ----------------------------
EXTENDS Notifications, TLC

CONSTANTS u1, u2

\* One learner with a reminder, or two.
MCStarts == {u1 :> "reminder" @@ u2 :> other : other \in {"none", "reminder"}}

\* The clock of a zone that is put back one hour after the first tick.
MCClock == [paris |-> <<[day |-> 1, hour |-> 2], [day |-> 1, hour |-> 2], [day |-> 1, hour |-> 3]>>]
=============================================================================

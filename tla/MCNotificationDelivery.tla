----------------------- MODULE MCNotificationDelivery -----------------------
(* Constants for the runs of NotificationDelivery.                         *)
EXTENDS NotificationDelivery, TLC

CONSTANTS j1, j2, m1, m2

Both == m1 :> {j1, j2} @@ m2 :> {j2}
One  == m1 :> {j1}
None == <<>>

CapOne == [free |-> 1, pro |-> 1]
CapTwo == [free |-> 1, pro |-> 2]
=============================================================================

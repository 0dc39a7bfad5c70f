--------------------------- MODULE WolfenPointSet ---------------------------
(***************************************************************************)
(* What wl_region promises: a region is a set of points, to which a        *)
(* request adds the points of a rectangle, or from which it takes them     *)
(* away.  A rectangle without area has no points, and one that does not    *)
(* fit the coordinates -Limit..Limit-1 is left out.                        *)
(***************************************************************************)
EXTENDS Integers

CONSTANTS Region, Limit, Rect

VARIABLES
  points,
  request  \* the last request

Cell == (-Limit .. Limit - 2) \X (-Limit .. Limit - 2)

Fits(q) == q.x + q.width <= Limit - 1 /\ q.y + q.height <= Limit - 1

(* A negative size that leads past the least coordinate: nothing is promised
   of it. *)
Underflows(q) == q.x + q.width < -Limit \/ q.y + q.height < -Limit

Points(q) ==
  IF ~Fits(q) THEN {}
  ELSE {p \in Cell : /\ q.x <= p[1] /\ p[1] < q.x + q.width
                     /\ q.y <= p[2] /\ p[2] < q.y + q.height}

Init ==
  /\ points = [r \in Region |-> {}]
  /\ request = <<>>

Add(r, q) ==
  /\ request' = <<"add", r, q>>
  /\ points' = [points EXCEPT ![r] = @ \cup Points(q)]

Subtract(r, q) ==
  /\ request' = <<"subtract", r, q>>
  /\ points' = [points EXCEPT ![r] = @ \ Points(q)]

Next == \E r \in Region, q \in Rect : Add(r, q) \/ Subtract(r, q)

Spec == Init /\ [][Next]_<<points, request>>

=============================================================================

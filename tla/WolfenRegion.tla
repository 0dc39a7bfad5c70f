---------------------------- MODULE WolfenRegion ----------------------------
(***************************************************************************)
(* wl_region of wolfen-compositor.c over pixman's regions of 32 bit boxes: *)
(* coordinates wrap at Limit (2^31 there), and pixman leaves out a box     *)
(* whose far edge is not past its near one.                                *)
(***************************************************************************)
EXTENDS Integers

CONSTANTS
  Region,  \* the wl_region resources
  Limit,
  Rect     \* the rectangles clients request

VARIABLES
  mem,     \* "none", "live" or "freed"
  region,  \* the cells of each region
  request, \* the last request that reached a region
  crash

vars == <<mem, region, request, crash>>

Coordinate == -Limit .. Limit - 1
Cell == (-Limit .. Limit - 2) \X (-Limit .. Limit - 2)

ASSUME RegionAssumption ==
  /\ Limit \in Nat \ {0}
  /\ Rect \subseteq [x : Coordinate, y : Coordinate, width : Coordinate, height : Coordinate]

(* Mutant: the far edge saturates. *)
MutWrap(n) == IF n >= Limit THEN Limit - 1 ELSE IF n < -Limit THEN -Limit ELSE n

(* int addition of two coordinates. *)
Wrap(n) == IF n >= Limit THEN n - 2 * Limit ELSE IF n < -Limit THEN n + 2 * Limit ELSE n

(* The cells of a box; none when it is not GOOD_RECT, as pixman has it. *)
BoxCells(x, y, width, height) ==
  {p \in Cell : /\ x <= p[1] /\ p[1] < Wrap(x + width)
                /\ y <= p[2] /\ p[2] < Wrap(y + height)}

Live(r) == crash = "none" /\ mem[r] = "live"

Init ==
  /\ mem = [r \in Region |-> "none"]
  /\ region = [r \in Region |-> {}]
  /\ request = <<>>
  /\ crash = "none"

CreateRegion(r) ==
  /\ crash = "none" /\ mem[r] = "none"
  /\ mem' = [mem EXCEPT ![r] = "live"]
  /\ region' = [region EXCEPT ![r] = {}]
  /\ UNCHANGED <<request, crash>>

Add(r, q) ==
  /\ Live(r)
  /\ request' = <<"add", r, q>>
  /\ region' = [region EXCEPT ![r] = @ \cup BoxCells(q.x, q.y, q.width, q.height)]
  /\ UNCHANGED <<mem, crash>>

(* wl_region.subtract adds its rectangle before it takes it away. *)
Subtract(r, q) ==
  LET box == BoxCells(q.x, q.y, q.width, q.height) IN
  /\ Live(r)
  /\ request' = <<"subtract", r, q>>
  /\ region' = [region EXCEPT ![r] = (@ \cup box) \ box]
  /\ UNCHANGED <<mem, crash>>

(* wolfen_region_destroy runs the destructor, wlonx_region_delete, and then
   wl_resource_destroy runs it on the freed region. *)
Destroy(r) ==
  /\ Live(r)
  /\ crash' = "double_delete"
  /\ UNCHANGED <<mem, region, request>>

(* The client exits: the destructor runs once. *)
Disconnect(r) ==
  /\ Live(r)
  /\ mem' = [mem EXCEPT ![r] = "freed"]
  /\ UNCHANGED <<region, request, crash>>

Next ==
  \E r \in Region :
    \/ CreateRegion(r) \/ Destroy(r) \/ Disconnect(r)
    \/ \E q \in Rect : Add(r, q) \/ Subtract(r, q)

Spec == Init /\ [][Next]_vars

-----------------------------------------------------------------------------
(* The type invariant; besides, a region that is not there has no points. *)
TypeOK ==
  /\ mem \in [Region -> {"none", "live", "freed"}]
  /\ region \in [Region -> SUBSET Cell]
  /\ \A r \in Region : mem[r] = "none" => region[r] = {}
  /\ request \in {<<>>} \cup ({"add", "subtract"} \X Region \X Rect)
  /\ crash \in {"none", "double_delete"}

(* A region is the set of points its requests say, so adding a rectangle in
   order to subtract it does no harm, and a rectangle whose far edge overflows
   is left out as a whole.  (Requests that underflow are not promised
   anything.) *)
Promise == INSTANCE WolfenPointSet WITH points <- region

NoUnderflow == \A q \in Rect : ~Promise!Underflows(q)

Promised == Promise!Spec

=============================================================================

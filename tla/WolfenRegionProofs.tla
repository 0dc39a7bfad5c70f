------------------------- MODULE WolfenRegionProofs -------------------------
(***************************************************************************)
(* Whatever the requests and the width of int, regions keep their type and *)
(* are the point sets WolfenPointSet promises, if no request underflows.   *)
(***************************************************************************)
EXTENDS WolfenRegion, TLAPS

(* pixman's box, with its wrapping far edges, has the promised points. *)
LEMMA BoxPoints ==
  ASSUME NEW q \in Rect, ~Promise!Underflows(q)
  PROVE  BoxCells(q.x, q.y, q.width, q.height) = Promise!Points(q)
<1>1. Limit \in Nat \ {0}
  BY RegionAssumption
<1>2. q \in [x : Coordinate, y : Coordinate, width : Coordinate, height : Coordinate]
  BY RegionAssumption
<1>3. /\ q.x \in Int /\ -Limit <= q.x /\ q.x < Limit
      /\ q.y \in Int /\ -Limit <= q.y /\ q.y < Limit
      /\ q.width \in Int /\ -Limit <= q.width /\ q.width < Limit
      /\ q.height \in Int /\ -Limit <= q.height /\ q.height < Limit
  BY <1>1, <1>2 DEF Coordinate
<1>4. ~(q.x + q.width < -Limit) /\ ~(q.y + q.height < -Limit)
  BY DEF Promise!Underflows
<1>5. Cell = Promise!Cell
  BY DEF Cell, Promise!Cell
<1>6. \A p \in Cell : p[1] \in Int /\ p[2] \in Int /\ -Limit <= p[1] /\ -Limit <= p[2]
  BY <1>1 DEF Cell
<1>7. CASE Promise!Fits(q)
  <2>1. Wrap(q.x + q.width) = q.x + q.width /\ Wrap(q.y + q.height) = q.y + q.height
    BY <1>1, <1>3, <1>4, <1>7 DEF Promise!Fits, Wrap
  <2> QED
    BY <1>5, <1>7, <2>1 DEF BoxCells, Promise!Points
<1>8. CASE ~Promise!Fits(q)
  <2>1. \/ Wrap(q.x + q.width) = q.x + q.width - 2 * Limit
        \/ Wrap(q.y + q.height) = q.y + q.height - 2 * Limit
    BY <1>1, <1>3, <1>8 DEF Promise!Fits, Wrap
  <2>2. Wrap(q.x + q.width) < q.x \/ Wrap(q.y + q.height) < q.y
    BY <1>1, <1>3, <2>1
  <2>3. Wrap(q.x + q.width) \in Int /\ Wrap(q.y + q.height) \in Int
    BY <1>1, <1>3 DEF Wrap
  <2>4. \A p \in Cell : ~(/\ q.x <= p[1] /\ p[1] < Wrap(q.x + q.width)
                          /\ q.y <= p[2] /\ p[2] < Wrap(q.y + q.height))
    BY <1>3, <1>6, <2>2, <2>3
  <2> QED
    BY <1>8, <2>4 DEF BoxCells, Promise!Points
<1> QED
  BY <1>7, <1>8

(* Every field keeps its type, and a region that was never made has no points. *)
THEOREM RegionTypeCorrect == Spec => []TypeOK
<1>1. Init => TypeOK
  BY DEF Init, TypeOK
<1>2. TypeOK /\ [Next]_vars => TypeOK'
  <2> SUFFICES ASSUME TypeOK, [Next]_vars PROVE TypeOK'
    OBVIOUS
  <2> USE DEF TypeOK
  <2>1. ASSUME NEW r \in Region, CreateRegion(r) PROVE TypeOK'
    BY <2>1 DEF CreateRegion
  <2>2. ASSUME NEW r \in Region, NEW q \in Rect, Add(r, q) PROVE TypeOK'
    BY <2>2 DEF Add, Live, BoxCells
  <2>3. ASSUME NEW r \in Region, NEW q \in Rect, Subtract(r, q) PROVE TypeOK'
    BY <2>3 DEF Subtract, Live, BoxCells
  <2>4. ASSUME NEW r \in Region, Destroy(r) PROVE TypeOK'
    BY <2>4 DEF Destroy
  <2>5. ASSUME NEW r \in Region, Disconnect(r) PROVE TypeOK'
    BY <2>5 DEF Disconnect, Live
  <2>6. CASE UNCHANGED vars
    BY <2>6 DEF vars
  <2> QED
    BY <2>1, <2>2, <2>3, <2>4, <2>5, <2>6 DEF Next
<1> QED
  BY <1>1, <1>2, PTL DEF Spec

(* Regions are the promised sets of points, for every number of regions,
   every set of rectangles without underflow and every width of int: that
   wl_region.subtract first adds what it takes away is never seen. *)
THEOREM RegionsKeepPromise ==
  ASSUME NoUnderflow
  PROVE  Spec => Promised
<1>1. Init => Promise!Init
  BY DEF Init, Promise!Init
<1>2. TypeOK /\ [Next]_vars => [Promise!Next]_<<region, request>>
  <2> SUFFICES ASSUME TypeOK, [Next]_vars PROVE Promise!Next \/ UNCHANGED <<region, request>>
    OBVIOUS
  <2>1. ASSUME NEW r \in Region, CreateRegion(r) PROVE UNCHANGED <<region, request>>
    BY <2>1 DEF CreateRegion, TypeOK
  <2>2. ASSUME NEW r \in Region, NEW q \in Rect, Add(r, q) PROVE Promise!Next
    <3>1. BoxCells(q.x, q.y, q.width, q.height) = Promise!Points(q)
      BY BoxPoints, NoUnderflow DEF NoUnderflow
    <3> QED
      BY <2>2, <3>1 DEF Add, Promise!Next, Promise!Add
  <2>3. ASSUME NEW r \in Region, NEW q \in Rect, Subtract(r, q) PROVE Promise!Next
    <3>1. BoxCells(q.x, q.y, q.width, q.height) = Promise!Points(q)
      BY BoxPoints, NoUnderflow DEF NoUnderflow
    <3>2. (region[r] \cup Promise!Points(q)) \ Promise!Points(q) = region[r] \ Promise!Points(q)
      OBVIOUS
    <3>3. /\ region' = [region EXCEPT ![r] = region[r] \ Promise!Points(q)]
          /\ request' = <<"subtract", r, q>>
      BY <2>3, <3>1, <3>2 DEF Subtract
    <3> QED
      BY <3>3 DEF Promise!Next, Promise!Subtract
  <2>4. CASE \E r \in Region : Destroy(r) \/ Disconnect(r)
    BY <2>4 DEF Destroy, Disconnect
  <2>5. CASE UNCHANGED vars
    BY <2>5 DEF vars
  <2> QED
    BY <2>1, <2>2, <2>3, <2>4, <2>5 DEF Next
<1> QED
  BY <1>1, <1>2, RegionTypeCorrect, PTL DEF Spec, Promised, Promise!Spec

=============================================================================

------------------------------ MODULE MCRegion ------------------------------
(* Rectangles of both signs of width on two rows, none of which underflows:
   they fit, have no area, or overflow to the right or below. *)
EXTENDS WolfenRegion

CONSTANT r1

MCLimit == 3
MCGrid == {q \in [x : {-3, 0, 1}, y : {0, 1}, width : {-1, 1, 2}, height : {1, 2}] :
             q.x + q.width >= -3}
MCOneRegion == {r1}

=============================================================================

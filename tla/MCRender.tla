------------------------------ MODULE MCRender ------------------------------
(* A window, and two buffers of which neither is as large as the other in both
   directions. *)
EXTENDS WolfenRender

CONSTANTS w1, b1, b2

MCWindow == {w1}
MCBuffer == {b1, b2}
MCSizes == [b \in MCBuffer |-> IF b = b1 THEN [w |-> 1, h |-> 2] ELSE [w |-> 3, h |-> 1]]

=============================================================================

--------------------------- MODULE WolfenPicture ----------------------------
(***************************************************************************)
(* What a surface's windows show, if nothing happened halfway: an import   *)
(* replaces the picture in two steps, the image and then the pixels, and   *)
(* the next import comes after both; a turn of a window's thread takes one *)
(* look at the picture and puts it on its window, as it is at that moment. *)
(***************************************************************************)
EXTENDS Naturals

CONSTANT Window

VARIABLES
  imported,  \* how many buffers were imported
  picture,   \* the image and the segment of the surface
  shown      \* what each window shows

vars == <<imported, picture, shown>>

Nothing == [img |-> 0, seg |-> 0]

Init ==
  /\ imported = 0
  /\ picture = Nothing
  /\ shown = [w \in Window |-> Nothing]

Whole == picture.img = imported /\ picture.seg = imported

Import ==
  /\ Whole
  /\ imported' = imported + 1
  /\ UNCHANGED <<picture, shown>>

NewImage ==
  /\ picture.img < imported
  /\ picture' = [picture EXCEPT !.img = imported]
  /\ UNCHANGED <<imported, shown>>

NewPixels ==
  /\ picture.img = imported /\ picture.seg < imported
  /\ picture' = [picture EXCEPT !.seg = imported]
  /\ UNCHANGED <<imported, shown>>

Turn(w) ==
  /\ picture.img # 0 /\ picture.seg # 0
  /\ shown' = [shown EXCEPT ![w] = picture]
  /\ UNCHANGED <<imported, picture>>

Next == Import \/ NewImage \/ NewPixels \/ \E w \in Window : Turn(w)

Spec == Init /\ [][Next]_vars

=============================================================================

------------------------------ MODULE MCImage -------------------------------
(* Bytes of two bits.  Buffers of up to three by three pixels, with rows that
   are too short, fit, or are padded, and an unpadded one of two by four; of
   up to five words, every set is drawn opaque, of more, all but one word. *)
EXTENDS WolfenImage

MCOpaque(n) ==
  IF n <= 5 THEN SUBSET (0 .. n - 1) ELSE {(0 .. n - 1) \ {k} : k \in 0 .. n - 1}

MCBuffers(w, h, t) == [width : {w}, height : {h}, stride : {t}, opaque : MCOpaque(t * h)]

MCShmBuffer ==
  UNION {MCBuffers(w, h, t) : w \in 1..3, h \in 1..3, t \in 1..5} \cup MCBuffers(2, 4, 2)

=============================================================================

---------------------------- MODULE MCFmtSearch -----------------------------
(* Every X server of one or two core screens with a choice of the visuals below,
   either screen in use, each possible default. *)
EXTENDS WolfenFmtSearch

TC(depth, rgb, id) ==
  [screen |-> 0, class |-> "TrueColor", depth |-> depth, rgb |-> rgb, bits_per_rgb |-> 8,
   visualid |-> id]

MCVisual ==
  {TC(32, "888", 1), TC(32, "other", 2), TC(24, "888", 3), TC(24, "other", 4),
   [TC(32, "888", 5) EXCEPT !.bits_per_rgb = 11],
   [TC(8, "other", 6) EXCEPT !.class = "PseudoColor"],
   [TC(16, "other", 7) EXCEPT !.bits_per_rgb = 6],
   [TC(32, "888", 8) EXCEPT !.screen = 1],
   [TC(24, "other", 9) EXCEPT !.screen = 1]}

MCDisplay ==
  {d \in [visuals : SUBSET MCVisual, screen : {0, 1}, default_visual : MCVisual] :
     d.default_visual \in d.visuals /\ d.default_visual.screen = d.screen}

=============================================================================

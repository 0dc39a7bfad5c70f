------------------------------ MODULE MCShell -------------------------------
(* Instances of WolfenShell.  The small one has one client with a surface and
   two buffers, of different formats and sizes; the other two clients with a
   surface and a buffer each.  Both have two shell surfaces to make. *)
EXTENDS WolfenShell

CONSTANTS c1, c2, s1, s2, b1, b2, sh1, sh2, t1

TC(depth, rgb, id) ==
  [screen |-> 1, class |-> "TrueColor", depth |-> depth, rgb |-> rgb, bits_per_rgb |-> 8, visualid |-> id]

StrictVisual == TC(32, "888", 1)
DeepVisual == TC(24, "888", 2)
OddVisual == TC(24, "other", 3)
HighVisual == TC(16, "other", 4)
On(screen, visual) == [visual EXCEPT !.screen = screen]

(* A server whose screen 1, the one in use, has a visual of the strict
   template, and one where it has not: there the pixels of every buffer go
   through a fish, and other screens have visuals the templates fit. *)
MCStrictDisplay ==
  [visuals |-> {StrictVisual, DeepVisual, On(0, StrictVisual)}, screen |-> 1,
   default_visual |-> DeepVisual]
MCFishDisplay ==
  [visuals |-> {OddVisual, HighVisual, On(0, HighVisual), On(2, DeepVisual)}, screen |-> 1,
   default_visual |-> HighVisual]

MCRole == {sh1, sh2}
MCRoleCrash == {"null_fmt", "bad_window_size", "bad_atom", "null_image", "mask_overread",
                "freed_surface", "bad_value", "bad_match", "thread_race"}
MCTitle == {t1}

MCInfo == [b \in {b1, b2} |-> IF b = b2 THEN [format |-> "XRGB8888", width |-> 16, height |-> 8]
                              ELSE [format |-> "ARGB8888", width |-> 8, height |-> 16]]

MCOneClient == {c1}
MCOneSurface == {s1}
MCTwoBuffers == {b1, b2}
MCOneOwner == [o \in MCOneSurface \cup MCTwoBuffers |-> c1]

MCTwoClients == {c1, c2}
MCTwoSurfaces == {s1, s2}
MCTwoOwners == [o \in MCTwoSurfaces \cup MCTwoBuffers |-> IF o \in {s2, b2} THEN c2 ELSE c1]

MCTallInfo == [b \in MCTwoBuffers |-> [MCInfo[b1] EXCEPT
                 !.format = IF b = b2 THEN "XRGB8888" ELSE "ARGB8888"]]

MCOrigin == {[x |-> 0, y |-> 0]}
MCPositions == MCOrigin \cup {[x |-> 1, y |-> 0]}
NoArgument == {}

=============================================================================

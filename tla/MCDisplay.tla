----------------------------- MODULE MCDisplay ------------------------------
(* X servers with up to two outputs, heads or core screens. *)
EXTENDS WolfenDisplay

MCArea == {[x |-> 0, y |-> 0, width |-> 4, height |-> 3], [x |-> 4, y |-> 1, width |-> 2, height |-> 2]}
MCBigArea == CHOOSE a \in MCArea : a.x = 0
MCSmallArea == CHOOSE a \in MCArea : a.x = 4
MCLength == {30, 40}

(* DEL, AAA and a vendor that is not listed. *)
MCMaker == {<<16, 172>>, <<4, 33>>, <<107, 89>>}

MCCrtc ==
  {[area |-> MCBigArea, rotation |-> {"rotate_0"}], [area |-> MCSmallArea, rotation |-> {"rotate_90", "reflect_x"}],
   [area |-> MCSmallArea, rotation |-> {"rotate_270"}]}

MCEdid ==
  {[valid |-> v, maker |-> m, descriptors |-> <<[kind |-> "other", text |-> "x"], [kind |-> k, text |-> "Monitor"]>>] :
    v \in BOOLEAN, m \in MCMaker, k \in {"name", "other"}}

MCEdidSome ==
  {e \in MCEdid : IF e.maker = <<16, 172>> THEN e.valid ELSE e.descriptors[2].kind = "name"}
    \ {e \in MCEdid : ~e.valid /\ e.maker = <<107, 89>>}

MCOff ==
  [connected |-> FALSE, crtc |-> NoCrtc, mm |-> <<30, 40>>, subpixel |-> "unknown", props |-> <<>>,
   edid |-> CHOOSE e \in MCEdid : ~e.valid]

(* A monitor without an EDID, or with one that is the first property or the second. *)
MCOn ==
  {[connected |-> TRUE, crtc |-> c, mm |-> <<40, 30>>, subpixel |-> "horizontal_rgb", props |-> p, edid |-> e] :
    c \in MCCrtc, p \in {<<"other">>, <<"EDID">>, <<"other", "EDID">>}, e \in MCEdidSome}

MCDark == [(CHOOSE o \in MCOn : o.props = <<"other">>) EXCEPT !.crtc = NoCrtc]
MCPlain == CHOOSE o \in MCOn : o.props = <<"other">> /\ o.crtc.area = MCSmallArea
MCNamed == CHOOSE o \in MCOn : o.props = <<"EDID">>

MCScreen(c, v, m) ==
  [area |-> MCBigArea, mm |-> <<40, 30>>, compositing |-> c, vendor |-> v, model |-> m]

MCHas(r, x, v) == [randr |-> r, xinerama |-> x, vidmode |-> v, shape |-> TRUE, shm |-> TRUE]

MCServer(exts, outs, p, active, heads, screens, default) ==
  [reachable |-> TRUE, has |-> exts, outputs |-> outs, primary |-> p, active |-> active,
   heads |-> heads, screens |-> screens, default |-> default]

(* Whatever the two monitors. *)
MCPairs ==
  {MCServer(MCHas(TRUE, TRUE, TRUE), <<o, q>>, p, TRUE, <<>>, <<MCScreen(TRUE, TRUE, TRUE)>>, 1) :
    o \in MCOn, q \in {n \in MCOn : n.crtc.area = MCBigArea /\ n.edid.valid}, p \in {0, 2}}

(* Whatever is connected, among up to three outputs. *)
MCConnections ==
  {MCServer(MCHas(TRUE, FALSE, FALSE), outs, p, FALSE, <<>>,
            <<MCScreen(c, TRUE, TRUE), MCScreen(~c, TRUE, FALSE)>>, d) :
    outs \in [1..3 -> {MCOff, MCDark, MCPlain, MCNamed}],
    p \in 0..3, c \in BOOLEAN, d \in 1..2}

(* No XRandR. *)
MCOld ==
  {MCServer(MCHas(FALSE, x, v), <<>>, 0, a, SubSeq(<<MCSmallArea, MCBigArea>>, 1, h),
            <<MCScreen(c, TRUE, FALSE), MCScreen(e, FALSE, TRUE)>>, d) :
    x \in BOOLEAN, v \in BOOLEAN, a \in BOOLEAN, h \in 0..2, c \in BOOLEAN, e \in BOOLEAN, d \in 1..2}

MCGone == [MCServer(MCHas(TRUE, TRUE, TRUE), <<>>, 0, TRUE, <<>>, <<MCScreen(TRUE, TRUE, TRUE)>>, 1)
             EXCEPT !.reachable = FALSE]

MCAll == MCPairs \cup MCConnections \cup MCOld \cup {MCGone}

MCText == {"x", "Monitor"}

=============================================================================

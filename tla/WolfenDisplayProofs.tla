------------------------- MODULE WolfenDisplayProofs ------------------------
(***************************************************************************)
(* On every X server whose connected outputs have a CRTC, and where there  *)
(* is something to detect, the server starts and windows do not end it:    *)
(* there is a default screen by then.  It is the right one on every X      *)
(* server, and its windows are shaped just where nothing composites them.  *)
(* Every screen there is to find is listed, and none has the name of       *)
(* another monitor's vendor.                                               *)
(***************************************************************************)
EXTENDS WolfenDisplay, FiniteSetTheorems, TLAPS

(* What the list of screens needs beside DisplayInv: it is a sequence. *)
ScreenIsSeq == \E S : screen \in Seq(S)

LEMMA SequenceLength ==
  ASSUME ScreenIsSeq
  PROVE  Len(screen) \in Nat /\ DOMAIN screen = 1..Len(screen)
  BY DEF ScreenIsSeq

(* AddScreen adds one screen. *)
LEMMA ScreenAdded ==
  ASSUME ScreenIsSeq, NEW scr, AddScreen(scr)
  PROVE  ScreenIsSeq' /\ Len(screen') = Len(screen) + 1
<1>1. PICK S : screen \in Seq(S)
  BY DEF ScreenIsSeq
<1>2. screen \in Seq(S \cup {scr})
  BY <1>1
<1>3. screen' = Append(screen, scr)
  BY DEF AddScreen
<1>4. screen' \in Seq(S \cup {scr}) /\ Len(screen') = Len(screen) + 1
  BY <1>2, <1>3
<1> QED
  BY <1>4 DEF ScreenIsSeq

LEMMA ServerLengths ==
  ASSUME server \in XServer
  PROVE  /\ Len(server.outputs) \in Nat /\ DOMAIN server.outputs = 1..Len(server.outputs)
         /\ Len(server.heads) \in Nat
         /\ Len(server.screens) \in Nat /\ DOMAIN server.screens = 1..Len(server.screens)
<1>1. server.outputs \in Seq(Output) /\ server.heads \in Seq(Area)
  BY DEF XServer
<1>2. server.screens \in
        Seq([area : Area, mm : Length \X Length, compositing : BOOLEAN, vendor : BOOLEAN, model : BOOLEAN])
  BY DEF XServer
<1> QED
  BY <1>1, <1>2

(* A good server's connected outputs have a CRTC. *)
LEMMA GoodCrtc ==
  ASSUME GoodServer, server.has["randr"],
         NEW o \in DOMAIN server.outputs, server.outputs[o].connected
  PROVE  server.outputs[o].crtc # NoCrtc
  BY DEF GoodServer

LEMMA KeepsConnect ==
  ASSUME DisplayInv, Connect PROVE DisplayInv'
<1>1. \A e \in {"randr", "xinerama"} : has'[e] = server.has[e]
  <2>1. has' = [e \in Extension \cup {"render"} |-> e # "render" /\ server.has[e]]
    BY DEF Connect, Flags
  <2>2. server.has \in [Extension -> BOOLEAN]
    BY DEF DisplayInv, XServer
  <2> QED
    BY <2>1, <2>2 DEF Extension
<1>2. pc' = "screens" /\ server' = server /\ i' = i
  BY DEF Connect
<1> QED
  BY <1>1, <1>2 DEF DisplayInv, Started, StaysUp

LEMMA KeepsCannotConnect ==
  ASSUME DisplayInv, CannotConnect PROVE DisplayInv'
<1>1. pc' = "ended" /\ UNCHANGED <<server, i>> /\ ~server.reachable
  BY DEF CannotConnect, End
<1>2. ~GoodServer'
  BY <1>1 DEF GoodServer
<1> QED
  BY <1>1, <1>2 DEF DisplayInv, Started, StaysUp

LEMMA KeepsSetupScreens ==
  ASSUME DisplayInv, ScreenIsSeq, screen = <<>>, i = 1, SetupScreens PROVE DisplayInv'
<1>1. UNCHANGED <<server, i, has, screen, ended>> /\ pc = "screens" /\ pc' = Way
  BY DEF SetupScreens
<1>2. has["randr"] = server.has["randr"] /\ has["xinerama"] = server.has["xinerama"]
  BY <1>1 DEF DisplayInv
<1>3. Len(screen) = 0 /\ Len(server.heads) \in Nat
  BY ServerLengths DEF DisplayInv
<1>4. CASE pc' = "xrandr"
  <2>1. has["randr"] /\ x_screen_default' = Null
    BY <1>1, <1>4 DEF Way, SetupScreens
  <2> QED
    BY <1>1, <1>2, <1>3, <1>4, <2>1 DEF DisplayInv, Started, StaysUp, Null
<1>5. CASE pc' = "xinerama"
  <2>1. Len(server.heads) > 1 /\ x_screen_count' = Len(server.heads)
    BY <1>1, <1>5 DEF Way, SetupScreens
  <2> QED
    BY <1>1, <1>2, <1>3, <1>5, <2>1 DEF DisplayInv, Started, StaysUp
<1>6. CASE pc' = "core"
  <2>1. x_screen_count' = Len(server.screens)
    BY <1>6 DEF SetupScreens
  <2> QED
    BY <1>1, <1>2, <1>3, <1>6, <2>1 DEF DisplayInv, Started, StaysUp
<1>7. CASE pc' = "wayland"
  <2>1. ~Detected
    BY <1>1, <1>2, <1>7 DEF Way, Detected
  <2>2. ~Detected'
    BY <1>1, <2>1 DEF Detected
  <2> QED
    BY <1>1, <1>2, <1>7, <2>2 DEF DisplayInv, Started, StaysUp
<1> QED
  BY <1>1, <1>4, <1>5, <1>6, <1>7 DEF Way

LEMMA KeepsNextOutput ==
  ASSUME DisplayInv, ScreenIsSeq, NextOutput PROVE DisplayInv'
<1>1. UNCHANGED <<server, pc, has, screen, x_screen_default, ended>> /\ pc = "xrandr" /\ i' = i + 1
  BY DEF NextOutput
<1>2. ~server.outputs[i].connected
  BY DEF NextOutput, SkipOutput
<1>3. ASSUME NEW o \in 1 .. i' - 1, o <= Len(server.outputs), server.outputs[o].connected
      PROVE  Len(screen) >= 1
  <2>1. o \in 1 .. i - 1
    BY <1>1, <1>2, <1>3 DEF DisplayInv
  <2> QED
    BY <1>1, <1>3, <2>1 DEF DisplayInv
<1>4. i' \in Nat \ {0}
  BY <1>1 DEF DisplayInv
<1> QED
  BY <1>1, <1>3, <1>4 DEF DisplayInv, Started, StaysUp

LEMMA KeepsConnectedOutput ==
  ASSUME DisplayInv, ScreenIsSeq, ConnectedOutput PROVE DisplayInv'
<1>1. PICK found \in BOOLEAN : AddScreen(XrandrScreen(server.outputs[i], found))
  BY DEF ConnectedOutput
<1>2. UNCHANGED <<server, pc, has, ended>> /\ pc = "xrandr" /\ i' = i + 1
  BY <1>1 DEF AddScreen, ConnectedOutput
<1>3. Len(screen') = Len(screen) + 1 /\ Len(screen) \in Nat
  BY <1>1, ScreenAdded, SequenceLength
<1>4. x_screen_default' \in 0..Len(screen')
  BY <1>2, <1>3 DEF ConnectedOutput, DisplayInv
<1>5. i' \in Nat \ {0}
  BY <1>2 DEF DisplayInv
<1> QED
  BY <1>2, <1>3, <1>4, <1>5 DEF DisplayInv, Started, StaysUp

LEMMA KeepsOutputWithoutCrtc ==
  ASSUME DisplayInv, OutputWithoutCrtc PROVE DisplayInv'
<1>1. pc' = "ended" /\ UNCHANGED <<server, i>> /\ pc = "xrandr"
  BY DEF OutputWithoutCrtc, End
<1>2. server.has["randr"] /\ i \in DOMAIN server.outputs
  BY <1>1, ServerLengths DEF DisplayInv, OutputWithoutCrtc
<1>3. server.outputs[i].connected /\ server.outputs[i].crtc = NoCrtc
  BY DEF OutputWithoutCrtc, SkipOutput
<1>4. ~GoodServer
  BY <1>2, <1>3, GoodCrtc
<1>5. ~GoodServer'
  BY <1>1, <1>4 DEF GoodServer, Detected
<1> QED
  BY <1>1, <1>5 DEF DisplayInv, Started, StaysUp

LEMMA KeepsOutputsDone ==
  ASSUME DisplayInv, ScreenIsSeq, OutputsDone PROVE DisplayInv'
<1>1. /\ UNCHANGED <<server, i, has, screen, ended>> /\ pc = "xrandr" /\ pc' = "wayland"
      /\ i > Len(server.outputs) /\ x_screen_default' = XrandrDefault
  BY DEF OutputsDone, ScreensDone
<1>2. Len(screen) \in Nat
  BY SequenceLength
<1>3. ASSUME Detected PROVE x_screen_default' \in 1..Len(screen)
  <2>1. server.has["randr"]
    BY <1>1 DEF DisplayInv
  <2>2. PICK o \in DOMAIN server.outputs : server.outputs[o].connected
    BY <1>3, <2>1 DEF Detected
  <2>3. o \in 1 .. i - 1 /\ o <= Len(server.outputs)
    BY <1>1, <2>2, ServerLengths DEF DisplayInv
  <2>4. Len(screen) >= 1
    BY <1>1, <2>2, <2>3 DEF DisplayInv
  <2>5. screen # <<>>
    BY <2>4
  <2> QED
    BY <1>1, <1>2, <2>4, <2>5 DEF DisplayInv, XrandrDefault, Null
<1>4. Detected' => Detected
  BY <1>1 DEF Detected
<1> QED
  BY <1>1, <1>3, <1>4 DEF DisplayInv, Started, StaysUp

LEMMA KeepsXineramaHead ==
  ASSUME DisplayInv, ScreenIsSeq, XineramaHead PROVE DisplayInv'
<1>1. AddScreen(XineramaScreen(server.heads[i])) /\ pc = "xinerama"
  BY DEF XineramaHead
<1>2. UNCHANGED <<server, pc, has, x_screen_count, ended>> /\ i' = i + 1
  BY <1>1 DEF AddScreen
<1>3. Len(screen') = Len(screen) + 1 /\ Len(screen) \in Nat
  BY <1>1, ScreenAdded, SequenceLength
<1> QED
  BY <1>1, <1>2, <1>3 DEF DisplayInv, Started, StaysUp

LEMMA KeepsHeadsDone ==
  ASSUME DisplayInv, ScreenIsSeq, HeadsDone PROVE DisplayInv'
<1>1. /\ UNCHANGED <<server, i, has, screen, ended>> /\ pc = "xinerama" /\ pc' = "wayland"
      /\ i > x_screen_count /\ x_screen_default' = 1
  BY DEF HeadsDone, ScreensDone
<1>2. Len(screen) \in Nat /\ Len(server.heads) \in Nat
  BY SequenceLength, ServerLengths DEF DisplayInv
<1>3. 1 \in 1..Len(screen)
  BY <1>1, <1>2 DEF DisplayInv
<1> QED
  BY <1>1, <1>3 DEF DisplayInv, Started, StaysUp

LEMMA KeepsCoreScreen ==
  ASSUME DisplayInv, ScreenIsSeq, CoreScreen PROVE DisplayInv'
<1>1. AddScreen(CoreScreenOf(server.screens[i])) /\ pc = "core"
  BY DEF CoreScreen
<1>2. UNCHANGED <<server, pc, has, x_screen_count, ended>> /\ i' = i + 1
  BY <1>1 DEF AddScreen
<1>3. Len(screen') = Len(screen) + 1 /\ Len(screen) \in Nat
  BY <1>1, ScreenAdded, SequenceLength
<1> QED
  BY <1>1, <1>2, <1>3 DEF DisplayInv, Started, StaysUp

LEMMA KeepsCoreDone ==
  ASSUME DisplayInv, ScreenIsSeq, CoreDone PROVE DisplayInv'
<1>1. /\ UNCHANGED <<server, i, has, screen, ended>> /\ pc = "core" /\ pc' = "wayland"
      /\ i > x_screen_count /\ x_screen_default' = server.default
  BY DEF CoreDone, ScreensDone
<1>2. Len(screen) \in Nat /\ Len(server.screens) \in Nat /\ DOMAIN server.screens = 1..Len(server.screens)
  BY SequenceLength, ServerLengths DEF DisplayInv
<1>3. server.default \in 1..Len(screen)
  BY <1>1, <1>2 DEF DisplayInv
<1> QED
  BY <1>1, <1>3 DEF DisplayInv, Started, StaysUp

LEMMA KeepsServe ==
  ASSUME DisplayInv, Serve PROVE DisplayInv'
<1>1. UNCHANGED <<server, i, has, screen, x_screen_default, ended>> /\ pc = "wayland" /\ pc' = "run"
  BY DEF Serve
<1> QED
  BY <1>1 DEF DisplayInv, Started, Detected, StaysUp

LEMMA KeepsCreateWindow ==
  ASSUME DisplayInv, ScreenIsSeq, CreateWindow \/ CreateWindowNowhere PROVE DisplayInv'
<1>1. CASE pc' = pc
  <2>1. UNCHANGED <<server, i, has, screen, x_screen_default, ended>> /\ pc = "run"
    BY <1>1 DEF CreateWindow, CreateWindowNowhere, MakesWindow, End
  <2> QED
    BY <1>1, <2>1 DEF DisplayInv, Started, Detected, StaysUp, GoodServer
<1>2. CASE pc' # pc
  <2>1. /\ UNCHANGED <<server, i>> /\ pc = "run" /\ pc' = "ended"
        /\ x_screen_default \notin DOMAIN screen
    BY <1>2 DEF CreateWindow, CreateWindowNowhere, MakesWindow, End
  <2>2. ~Detected
    BY <2>1, SequenceLength DEF DisplayInv, Started
  <2>3. ~GoodServer'
    BY <2>1, <2>2 DEF GoodServer, Detected
  <2> QED
    BY <2>1, <2>3 DEF DisplayInv, Started, StaysUp
<1> QED
  BY <1>1, <1>2

LEMMA KeepsRest ==
  ASSUME DisplayInv, CompositorChanges \/ UNCHANGED vars PROVE DisplayInv'
<1>1. UNCHANGED <<server, pc, has, i, screen, x_screen_default, x_screen_count, ended>>
  BY DEF CompositorChanges, vars
<1> QED
  BY <1>1 DEF DisplayInv, Started, Detected, StaysUp, GoodServer

(* Before the loops no screen is made. *)
Fresh == pc \in {"connect", "screens"} => screen = <<>> /\ i = 1

IInv == DisplayInv /\ ScreenIsSeq /\ Fresh

LEMMA InitInv ==
  ASSUME Init PROVE IInv
<1>1. server \in XServer /\ server.default \in DOMAIN server.screens
  BY DisplayAssumption DEF Init
<1>2. screen \in Seq({}) /\ screen = <<>> /\ pc = "connect" /\ i = 1
  BY DEF Init
<1> QED
  BY <1>1, <1>2 DEF IInv, DisplayInv, ScreenIsSeq, Fresh, Started, StaysUp

(* The screens stay a sequence, and come with the loops. *)
LEMMA KeepsSequence ==
  ASSUME IInv, [Next]_vars PROVE ScreenIsSeq' /\ Fresh'
<1>1. CASE ConnectedOutput
  <2>1. PICK found \in BOOLEAN : AddScreen(XrandrScreen(server.outputs[i], found))
    BY <1>1 DEF ConnectedOutput
  <2>2. pc' = "xrandr"
    BY <1>1, <2>1 DEF AddScreen, ConnectedOutput
  <2> QED
    BY <2>1, <2>2, ScreenAdded DEF IInv, Fresh
<1>2. CASE XineramaHead
  <2>1. AddScreen(XineramaScreen(server.heads[i])) /\ pc' = "xinerama"
    BY <1>2 DEF XineramaHead, AddScreen
  <2> QED
    BY <2>1, ScreenAdded DEF IInv, Fresh
<1>3. CASE CoreScreen
  <2>1. AddScreen(CoreScreenOf(server.screens[i])) /\ pc' = "core"
    BY <1>3 DEF CoreScreen, AddScreen
  <2> QED
    BY <2>1, ScreenAdded DEF IInv, Fresh
<1>4. CASE Connect \/ CannotConnect \/ SetupScreens \/ OutputWithoutCrtc \/ OutputsDone \/ HeadsDone \/ CoreDone \/ Serve
  <2>1. screen' = screen
    BY <1>4 DEF Connect, CannotConnect, SetupScreens, OutputWithoutCrtc, OutputsDone, HeadsDone, CoreDone,
                Serve, ScreensDone, End
  <2>2. pc' \in {"connect", "screens"} => pc = "connect" /\ i' = i
    BY <1>4 DEF Connect, CannotConnect, SetupScreens, Way, OutputWithoutCrtc, OutputsDone, HeadsDone, CoreDone,
                Serve, ScreensDone, End
  <2> QED
    BY <2>1, <2>2 DEF IInv, ScreenIsSeq, Fresh
<1>5. CASE NextOutput \/ CreateWindow \/ CreateWindowNowhere \/ CompositorChanges \/ UNCHANGED vars
  <2>1. screen' = screen
    BY <1>5 DEF NextOutput, CreateWindow, CreateWindowNowhere, CompositorChanges, MakesWindow, End, vars
  <2>2. pc' \in {"connect", "screens"} => pc' = pc /\ i' = i
    BY <1>5 DEF NextOutput, CreateWindow, CreateWindowNowhere, CompositorChanges, MakesWindow, End, vars
  <2> QED
    BY <2>1, <2>2 DEF IInv, ScreenIsSeq, Fresh
<1> QED
  BY <1>1, <1>2, <1>3, <1>4, <1>5 DEF Next, StartUp

LEMMA NextInv ==
  ASSUME IInv, [Next]_vars PROVE IInv'
<1>1. DisplayInv /\ ScreenIsSeq /\ (pc = "screens" => screen = <<>> /\ i = 1)
  BY DEF IInv, Fresh
<1>2. SetupScreens => pc = "screens"
  BY DEF SetupScreens
<1>3. DisplayInv'
  BY <1>1, <1>2, KeepsConnect, KeepsCannotConnect, KeepsSetupScreens, KeepsNextOutput, KeepsConnectedOutput,
     KeepsOutputWithoutCrtc, KeepsOutputsDone, KeepsXineramaHead, KeepsHeadsDone, KeepsCoreScreen,
     KeepsCoreDone, KeepsServe, KeepsCreateWindow, KeepsRest DEF Next, StartUp
<1> QED
  BY <1>3, KeepsSequence DEF IInv

(* DisplayInv holds whatever the X server: every loop of wolfen.c has made the
   screens it has counted. *)
THEOREM DisplayInvariance == Spec => []DisplayInv
<1>1. IInv => DisplayInv
  BY DEF IInv
<1> QED
  BY <1>1, InitInv, NextInv, PTL DEF Spec

(* Start-up and windows do not end a good server, however many outputs, heads
   and core screens it has. *)
THEOREM GoodServerStaysUp == Spec => []StaysUp
<1>1. DisplayInv => StaysUp
  BY DEF DisplayInv
<1> QED
  BY <1>1, DisplayInvariance, PTL

-----------------------------------------------------------------------------
(* Which screen is the default one, and what its windows are like.         *)

(* The screens a loop has made are numbered as it counts. *)
Made(kind) == \A n \in 1..Len(screen) : screen[n].type = kind /\ screen[n].number = n

(* Before the primary output is met none is the default; the first screen is that
   of the first connected output. *)
OutputsMade ==
  /\ \A n \in 1..Len(screen) : screen[n].type = "xrandr"
  /\ Len(screen) >= 1 => \A o \in 1 .. screen[1].number - 1 : ~server.outputs[o].connected
  /\ x_screen_default = Null => \A o \in 1 .. i - 1 :
       o = server.primary /\ o <= Len(server.outputs) => ~server.outputs[o].connected
  /\ x_screen_default # Null =>
       /\ server.primary # 0 /\ server.outputs[server.primary].connected
       /\ screen[x_screen_default].number = server.primary

AllListed == x_screen_list \in Seq(Nat) /\ 1..Len(screen) \subseteq Range(x_screen_list)

ChoiceInv ==
  /\ server.primary \in 0..Len(server.outputs)
  /\ AllListed
  /\ pc = "xrandr" => OutputsMade
  /\ pc = "xinerama" => Made("xinerama")
  /\ pc = "core" => Made("core")
  /\ DefaultRight

(* What a compositing manager was found on, as long as none has come or gone. *)
CompositingInv ==
  /\ DOMAIN compositing = DOMAIN server.screens
  /\ changes \in Nat
  /\ pc \notin {"connect", "ended"} => has["shm"] = server.has["shm"]
  /\ changes = 0 =>
       /\ pc \notin {"connect", "screens", "ended"} => is_compositing = compositing[server.default]
       /\ \A n \in 1..Len(screen) :
            screen[n].is_compositing =
              compositing[IF screen[n].type = "core" THEN screen[n].number ELSE server.default]
  /\ ShapedIfNoCompositor

(* AddScreen keeps the screens there are, and lists the new one. *)
LEMMA OthersKept ==
  ASSUME ScreenIsSeq, NEW scr, AddScreen(scr)
  PROVE  /\ Len(screen) \in Nat /\ Len(screen') = Len(screen) + 1
         /\ \A n \in 1..Len(screen) : screen'[n] = screen[n]
         /\ screen'[Len(screen) + 1] = scr
<1>1. PICK S : screen \in Seq(S)
  BY DEF ScreenIsSeq
<1>2. screen \in Seq(S \cup {scr}) /\ screen' = Append(screen, scr)
  BY <1>1 DEF AddScreen
<1> QED
  BY <1>2

LEMMA NewIsListed ==
  ASSUME ScreenIsSeq, AllListed, NEW scr, AddScreen(scr)
  PROVE  AllListed'
<1>1. Len(screen) \in Nat /\ Len(screen') = Len(screen) + 1
  BY OthersKept
<1> DEFINE last == Len(screen')
           list == <<last>> \o x_screen_list
<1>2. x_screen_list' = list
  BY DEF AddScreen
<1>3. <<last>> \in Seq(Nat) /\ x_screen_list \in Seq(Nat)
  BY <1>1 DEF AllListed
<1>4. /\ list \in Seq(Nat) /\ DOMAIN list = 1 .. Len(x_screen_list) + 1
      /\ list[1] = last
      /\ \A k \in DOMAIN x_screen_list : list[k + 1] = x_screen_list[k] /\ k + 1 \in DOMAIN list
  BY <1>3
<1>5. ASSUME NEW n \in 1..Len(screen) PROVE n \in Range(list)
  <2>1. PICK k \in DOMAIN x_screen_list : x_screen_list[k] = n
    BY DEF AllListed, Range
  <2> QED
    BY <2>1, <1>4 DEF Range
<1>6. last \in Range(list)
  <2>1. 1 \in DOMAIN list
    BY <1>3, <1>4
  <2> QED
    BY <2>1, <1>4 DEF Range
<1>7. 1..last \subseteq Range(list)
  BY <1>1, <1>5, <1>6
<1> QED
  BY <1>2, <1>4, <1>7 DEF AllListed

(* What does not touch screens keeps the choice. *)
LEMMA ChoiceKept ==
  ASSUME IInv, ChoiceInv, UNCHANGED <<server, screen, x_screen_list, x_screen_default>>,
         pc' \in {"xrandr", "xinerama", "core"} => pc' = pc /\ i' = i,
         Started' => Started
  PROVE  ChoiceInv'
<1>1. DefaultRight'
  BY DEF ChoiceInv, DefaultRight, Detected
<1> QED
  BY <1>1 DEF ChoiceInv, AllListed, OutputsMade, Made

LEMMA ChoiceSetupScreens ==
  ASSUME IInv, ChoiceInv, SetupScreens PROVE ChoiceInv'
<1>1. /\ UNCHANGED <<server, i, has, screen, x_screen_list>> /\ pc = "screens" /\ pc' = Way
      /\ pc' = "xrandr" => x_screen_default' = Null
  BY DEF SetupScreens
<1>2. Len(screen) = 0 /\ i = 1
  BY <1>1 DEF IInv, Fresh
<1>3. DefaultRight'
  <2>1. pc' = "wayland" => ~Detected
    BY <1>1 DEF Way, Detected, IInv, DisplayInv
  <2>2. Started' => pc' = "wayland"
    BY <1>1 DEF Way, Started
  <2> QED
    BY <1>1, <2>1, <2>2 DEF DefaultRight, Detected
<1>4. pc' = "xrandr" => OutputsMade'
  BY <1>1, <1>2 DEF OutputsMade
<1>5. \A kind : Made(kind)'
  BY <1>1, <1>2 DEF Made
<1> QED
  BY <1>1, <1>3, <1>4, <1>5 DEF ChoiceInv, AllListed

LEMMA ChoiceNextOutput ==
  ASSUME IInv, ChoiceInv, NextOutput PROVE ChoiceInv'
<1>1. /\ UNCHANGED <<server, pc, screen, x_screen_list, x_screen_default>>
      /\ pc = "xrandr" /\ i' = i + 1 /\ i \in Nat /\ ~server.outputs[i].connected
  BY DEF NextOutput, SkipOutput, IInv, DisplayInv
<1>2. OutputsMade'
  BY <1>1 DEF ChoiceInv, OutputsMade
<1> QED
  BY <1>1, <1>2 DEF ChoiceInv, AllListed, DefaultRight, Started

LEMMA ChoiceConnectedOutput ==
  ASSUME IInv, ChoiceInv, ConnectedOutput PROVE ChoiceInv'
<1>1. PICK edid \in BOOLEAN : AddScreen(XrandrScreen(server.outputs[i], edid))
  BY DEF ConnectedOutput
<1> DEFINE scr == XrandrScreen(server.outputs[i], edid)
<1>2. /\ UNCHANGED <<server, pc>> /\ pc = "xrandr" /\ i' = i + 1 /\ i \in Nat \ {0}
      /\ i <= Len(server.outputs) /\ server.outputs[i].connected
      /\ x_screen_default' = IF x_screen_default = Null /\ i = server.primary
                             THEN Len(screen') ELSE x_screen_default
  BY <1>1 DEF ConnectedOutput, SkipOutput, AddScreen, IInv, DisplayInv
<1>3. scr.type = "xrandr" /\ scr.number = i
  BY DEF XrandrScreen
<1>4. /\ Len(screen) \in Nat /\ Len(screen') = Len(screen) + 1
      /\ \A n \in 1..Len(screen) : screen'[n] = screen[n]
      /\ screen'[Len(screen) + 1] = scr
  BY <1>1, OthersKept DEF IInv
<1>5. /\ OutputsMade /\ x_screen_default \in 0..Len(screen)
      /\ server.primary \in 0..Len(server.outputs) /\ Len(server.outputs) \in Nat
  BY <1>2, ServerLengths DEF ChoiceInv, IInv, DisplayInv
<1>6. ASSUME NEW n \in 1..Len(screen') PROVE screen'[n].type = "xrandr"
  BY <1>3, <1>4, <1>5 DEF OutputsMade
<1>7. ASSUME NEW o \in 1 .. screen'[1].number - 1 PROVE ~server.outputs[o].connected
  <2>1. CASE Len(screen) = 0
    <3>1. o \in 1 .. i - 1 /\ o <= Len(server.outputs)
      BY <1>2, <1>3, <1>4, <1>5, <2>1
    <3> QED
      BY <1>2, <2>1, <3>1 DEF IInv, DisplayInv
  <2>2. CASE Len(screen) >= 1
    BY <1>4, <1>5, <2>2 DEF OutputsMade
  <2> QED
    BY <1>4, <2>1, <2>2
<1>8. ASSUME x_screen_default' = Null, NEW o \in 1 .. i' - 1, o = server.primary, o <= Len(server.outputs)
      PROVE  ~server.outputs[o].connected
  <2>1. x_screen_default = Null /\ o # i
    BY <1>2, <1>4, <1>8 DEF Null
  <2>2. o \in 1 .. i - 1
    BY <1>2, <1>8, <2>1
  <2> QED
    BY <1>5, <1>8, <2>1, <2>2 DEF OutputsMade
<1>9. ASSUME x_screen_default' # Null
      PROVE  /\ server.primary # 0 /\ server.outputs[server.primary].connected
             /\ screen'[x_screen_default'].number = server.primary
  <2>1. CASE x_screen_default = Null
    BY <1>2, <1>3, <1>4, <1>9, <2>1
  <2>2. CASE x_screen_default # Null
    <3>1. x_screen_default' = x_screen_default /\ x_screen_default \in 1..Len(screen)
      BY <1>2, <1>4, <1>5, <2>2 DEF Null
    <3> QED
      BY <1>4, <1>5, <2>2, <3>1 DEF OutputsMade
  <2> QED
    BY <2>1, <2>2
<1>10. OutputsMade'
  BY <1>2, <1>6, <1>7, <1>8, <1>9 DEF OutputsMade
<1>11. AllListed'
  BY <1>1, NewIsListed DEF IInv, ChoiceInv
<1> QED
  BY <1>2, <1>5, <1>10, <1>11 DEF ChoiceInv, DefaultRight, Started

(* A head or a core screen gets the number of the loop. *)
LEMMA NumberedScreen ==
  ASSUME IInv, ChoiceInv, NEW kind \in {"xinerama", "core"}, pc = kind, Made(kind),
         NEW scr, AddScreen(scr), scr.type = kind, scr.number = i
  PROVE  ChoiceInv'
<1>1. UNCHANGED <<server, pc>>
  BY DEF AddScreen
<1>2. Len(screen) = i - 1 /\ i \in Nat
  BY DEF IInv, DisplayInv
<1>3. /\ Len(screen) \in Nat /\ Len(screen') = Len(screen) + 1
      /\ \A n \in 1..Len(screen) : screen'[n] = screen[n]
      /\ screen'[Len(screen) + 1] = scr
  BY OthersKept DEF IInv
<1>4. Made(kind)'
  BY <1>2, <1>3 DEF Made
<1>5. AllListed'
  BY NewIsListed DEF IInv, ChoiceInv
<1> QED
  BY <1>1, <1>4, <1>5 DEF ChoiceInv, DefaultRight, Started

LEMMA ChoiceXineramaHead ==
  ASSUME IInv, ChoiceInv, XineramaHead PROVE ChoiceInv'
<1> DEFINE scr == XineramaScreen(server.heads[i])
<1>1. pc = "xinerama" /\ AddScreen(scr) /\ Made("xinerama")
  BY DEF XineramaHead, ChoiceInv
<1>2. scr.type = "xinerama" /\ scr.number = i
  BY DEF XineramaScreen
<1> HIDE DEF scr
<1> QED
  BY <1>1, <1>2, NumberedScreen

LEMMA ChoiceCoreScreen ==
  ASSUME IInv, ChoiceInv, CoreScreen PROVE ChoiceInv'
<1> DEFINE scr == CoreScreenOf(server.screens[i])
<1>1. pc = "core" /\ AddScreen(scr) /\ Made("core")
  BY DEF CoreScreen, ChoiceInv
<1>2. scr.type = "core" /\ scr.number = i
  BY DEF CoreScreenOf
<1> HIDE DEF scr
<1> QED
  BY <1>1, <1>2, NumberedScreen

(* A loop that is over has chosen. *)
LEMMA ChoiceScreensDone ==
  ASSUME IInv, IInv', ChoiceInv, OutputsDone \/ HeadsDone \/ CoreDone PROVE ChoiceInv'
<1>1. UNCHANGED <<server, screen, x_screen_list, i>> /\ pc' = "wayland"
  BY DEF OutputsDone, HeadsDone, CoreDone, ScreensDone
<1>2. SUFFICES ASSUME Detected PROVE DefaultRight'
  BY <1>1 DEF ChoiceInv, AllListed, DefaultRight, Detected
<1> DEFINE default == screen[x_screen_default']
<1>3. x_screen_default' \in 1..Len(screen) /\ Len(screen) \in Nat
  BY <1>1, <1>2, SequenceLength DEF IInv, DisplayInv, Started, Detected
<1>4. x_screen_default' \in Range(x_screen_list)
  BY <1>3 DEF ChoiceInv, AllListed
<1>5. CASE OutputsDone
  <2>1. pc = "xrandr" /\ i > Len(server.outputs) /\ x_screen_default' = XrandrDefault /\ OutputsMade
    BY <1>5 DEF OutputsDone, ScreensDone, ChoiceInv
  <2>2. default.type = "xrandr"
    BY <1>3, <2>1 DEF OutputsMade
  <2>3. CASE x_screen_default # Null
    BY <1>1, <1>4, <2>1, <2>2, <2>3 DEF OutputsMade, XrandrDefault, DefaultRight
  <2>4. CASE x_screen_default = Null
    <3>1. x_screen_default' = 1 /\ Len(screen) >= 1
      BY <1>3, <2>1, <2>4 DEF XrandrDefault, Null
    <3>2. server.primary # 0 => ~server.outputs[server.primary].connected
      <4>1. Len(server.outputs) \in Nat /\ i \in Nat /\ server.primary \in 0..Len(server.outputs)
        BY ServerLengths DEF IInv, DisplayInv, ChoiceInv
      <4>2. server.primary # 0 => server.primary \in 1 .. i - 1 /\ server.primary <= Len(server.outputs)
        BY <2>1, <4>1
      <4> QED
        BY <2>1, <2>4, <4>2 DEF OutputsMade
    <3>3. \A o \in 1 .. default.number - 1 : ~server.outputs[o].connected
      BY <2>1, <3>1 DEF OutputsMade
    <3> QED
      BY <1>1, <1>4, <2>2, <3>2, <3>3 DEF DefaultRight
  <2> QED
    BY <2>3, <2>4
<1>6. CASE HeadsDone
  <2>1. x_screen_default' = 1 /\ Made("xinerama")
    BY <1>6 DEF HeadsDone, ScreensDone, ChoiceInv
  <2> QED
    BY <1>1, <1>3, <1>4, <2>1 DEF Made, DefaultRight
<1>7. CASE CoreDone
  <2>1. x_screen_default' = server.default /\ Made("core")
    BY <1>7 DEF CoreDone, ScreensDone, ChoiceInv
  <2> QED
    BY <1>1, <1>3, <1>4, <2>1 DEF Made, DefaultRight
<1> QED
  BY <1>5, <1>6, <1>7

LEMMA ChoiceRest ==
  ASSUME IInv, ChoiceInv,
         \/ Connect \/ CannotConnect \/ OutputWithoutCrtc \/ Serve
         \/ CreateWindow \/ CreateWindowNowhere \/ CompositorChanges \/ UNCHANGED vars
  PROVE  ChoiceInv'
<1>1. UNCHANGED <<server, screen, x_screen_list, x_screen_default, i>>
  BY DEF Connect, CannotConnect, OutputWithoutCrtc, Serve, CreateWindow, CreateWindowNowhere, CompositorChanges,
         MakesWindow, End, vars
<1>2. pc' = pc \/ pc' \in {"screens", "ended"} \/ (pc = "wayland" /\ pc' = "run")
  BY DEF Connect, CannotConnect, OutputWithoutCrtc, Serve, CreateWindow, CreateWindowNowhere, CompositorChanges,
         MakesWindow, End, vars
<1> QED
  BY <1>1, <1>2, ChoiceKept DEF Started

LEMMA InitChoice ==
  ASSUME Init PROVE ChoiceInv
<1>1. server.primary \in 0..Len(server.outputs)
  BY DisplayAssumption DEF Init
<1>2. Len(screen) = 0 /\ x_screen_list = <<>> /\ pc = "connect"
  BY DEF Init
<1> QED
  BY <1>1, <1>2 DEF ChoiceInv, AllListed, DefaultRight, Started

LEMMA NextChoice ==
  ASSUME IInv, ChoiceInv, [Next]_vars PROVE ChoiceInv'
<1>1. IInv'
  BY NextInv
<1> QED
  BY <1>1, ChoiceSetupScreens, ChoiceNextOutput, ChoiceConnectedOutput, ChoiceXineramaHead, ChoiceCoreScreen,
     ChoiceScreensDone, ChoiceRest DEF Next, StartUp

(* Windows go to the primary output, the first connected one, the first head or
   the default core screen, whatever the server has of each. *)
THEOREM DefaultIsRight == Spec => []DefaultRight
<1>1. ChoiceInv => DefaultRight
  BY DEF ChoiceInv
<1>2. Init => IInv /\ ChoiceInv
  BY InitInv, InitChoice
<1>3. IInv /\ ChoiceInv /\ [Next]_vars => IInv' /\ ChoiceInv'
  BY NextInv, NextChoice
<1> QED
  BY <1>1, <1>2, <1>3, PTL DEF Spec

-----------------------------------------------------------------------------
(* A screen added by a loop has the compositing of its core screen. *)
LEMMA CompositingAdded ==
  ASSUME IInv, CompositingInv, NEW scr, AddScreen(scr), pc # "ended", pc # "connect",
         changes = 0 => scr.is_compositing =
                          compositing[IF scr.type = "core" THEN scr.number ELSE server.default]
  PROVE  CompositingInv'
<1>1. UNCHANGED <<server, compositing, changes, pc, has, is_compositing, window>>
  BY DEF AddScreen
<1>2. /\ Len(screen) \in Nat /\ Len(screen') = Len(screen) + 1
      /\ \A n \in 1..Len(screen) : screen'[n] = screen[n]
      /\ screen'[Len(screen) + 1] = scr
  BY OthersKept DEF IInv
<1>3. ASSUME changes = 0, NEW n \in 1..Len(screen')
      PROVE  screen'[n].is_compositing =
               compositing[IF screen'[n].type = "core" THEN screen'[n].number ELSE server.default]
  <2>1. CASE n \in 1..Len(screen)
    BY <1>2, <1>3, <2>1 DEF CompositingInv
  <2>2. CASE n = Len(screen) + 1
    BY <1>2, <1>3, <2>2
  <2> QED
    BY <1>2, <2>1, <2>2
<1>4. ShapedIfNoCompositor'
  BY <1>1 DEF CompositingInv, ShapedIfNoCompositor, GoodServer, Detected
<1> QED
  BY <1>1, <1>3, <1>4 DEF CompositingInv

LEMMA CompositingLoops ==
  ASSUME IInv, CompositingInv, ConnectedOutput \/ XineramaHead \/ CoreScreen PROVE CompositingInv'
<1>1. CASE ConnectedOutput
  <2>1. PICK edid \in BOOLEAN : AddScreen(XrandrScreen(server.outputs[i], edid))
    BY <1>1 DEF ConnectedOutput
  <2> DEFINE scr == XrandrScreen(server.outputs[i], edid)
  <2>2. scr.type = "xrandr" /\ scr.is_compositing = is_compositing /\ pc = "xrandr"
    BY <1>1 DEF XrandrScreen, ConnectedOutput
  <2>3. changes = 0 => scr.is_compositing =
                         compositing[IF scr.type = "core" THEN scr.number ELSE server.default]
    BY <2>2 DEF CompositingInv
  <2> HIDE DEF scr
  <2> QED
    BY <2>1, <2>2, <2>3, CompositingAdded DEF scr
<1>2. CASE XineramaHead
  <2> DEFINE scr == XineramaScreen(server.heads[i])
  <2>1. AddScreen(scr) /\ pc = "xinerama"
    BY <1>2 DEF XineramaHead
  <2>2. scr.type = "xinerama" /\ scr.is_compositing = is_compositing
    BY DEF XineramaScreen
  <2>3. changes = 0 => scr.is_compositing =
                         compositing[IF scr.type = "core" THEN scr.number ELSE server.default]
    BY <2>1, <2>2 DEF CompositingInv
  <2> HIDE DEF scr
  <2> QED
    BY <2>1, <2>3, CompositingAdded
<1>3. CASE CoreScreen
  <2> DEFINE scr == CoreScreenOf(server.screens[i])
  <2>1. AddScreen(scr) /\ pc = "core"
    BY <1>3 DEF CoreScreen
  <2>2. scr.type = "core" /\ scr.number = i /\ scr.is_compositing = compositing[i]
    BY DEF CoreScreenOf
  <2> HIDE DEF scr
  <2> QED
    BY <2>1, <2>2, CompositingAdded
<1> QED
  BY <1>1, <1>2, <1>3

LEMMA CompositingConnect ==
  ASSUME IInv, CompositingInv, Connect PROVE CompositingInv'
<1>1. /\ UNCHANGED <<server, compositing, changes, screen, window>>
      /\ pc' = "screens" /\ has' = Flags
  BY DEF Connect
<1>2. has'["shm"] = server.has["shm"]
  <2>1. server.has \in [Extension -> BOOLEAN]
    BY DEF IInv, DisplayInv, XServer
  <2> QED
    BY <1>1, <2>1 DEF Flags, Extension
<1> QED
  BY <1>1, <1>2 DEF CompositingInv, ShapedIfNoCompositor, GoodServer, Detected

LEMMA CompositingSetupScreens ==
  ASSUME IInv, CompositingInv, SetupScreens PROVE CompositingInv'
<1>1. /\ UNCHANGED <<server, compositing, changes, has, screen, window>>
      /\ pc = "screens" /\ is_compositing' = compositing[server.default]
  BY DEF SetupScreens
<1> QED
  BY <1>1 DEF CompositingInv, ShapedIfNoCompositor, GoodServer, Detected

(* The core screen of a window is the one whose compositing manager decided. *)
LEMMA CompositingCreateWindow ==
  ASSUME IInv, ChoiceInv, CompositingInv, CreateWindow PROVE CompositingInv'
<1> DEFINE default == screen[x_screen_default]
           core == CoreScreenNumber(default)
<1>1. /\ UNCHANGED <<server, compositing, changes, has, is_compositing, screen, pc>> /\ pc = "run"
      /\ x_screen_default \in 1..Len(screen)
      /\ window' = [core |-> core, shaped |-> has["shm"] /\ ~default.is_compositing]
  BY SequenceLength DEF CreateWindow, MakesWindow, IInv
<1>2. ASSUME GoodServer, changes = 0
      PROVE  /\ core \in DOMAIN compositing
             /\ default.is_compositing = compositing[core]
             /\ has["shm"] = server.has["shm"]
  <2>1. default.type = "core" => default.number = server.default
    BY <1>1, <1>2 DEF ChoiceInv, DefaultRight, Started, GoodServer
  <2>2. core = server.default
    BY <2>1 DEF CoreScreenNumber
  <2>3. server.default \in DOMAIN compositing
    BY DEF IInv, DisplayInv, CompositingInv
  <2>4. default.is_compositing =
          compositing[IF default.type = "core" THEN default.number ELSE server.default]
    BY <1>1, <1>2 DEF CompositingInv
  <2> QED
    BY <1>1, <2>1, <2>2, <2>3, <2>4 DEF CompositingInv
<1> HIDE DEF core, default
<1>3. GoodServer' => GoodServer
  BY <1>1 DEF GoodServer, Detected
<1>4. window'.core = core /\ window'.shaped = (has["shm"] /\ ~default.is_compositing)
  BY <1>1
<1>5. ShapedIfNoCompositor'
  BY <1>1, <1>2, <1>3, <1>4 DEF ShapedIfNoCompositor
<1> QED
  BY <1>1, <1>5 DEF CompositingInv

(* With a good server no window is made without a default screen. *)
LEMMA CompositingNowhere ==
  ASSUME IInv, CompositingInv, CreateWindowNowhere PROVE CompositingInv'
<1>1. /\ UNCHANGED <<server, compositing, changes, has, is_compositing, screen>> /\ pc = "run"
      /\ pc' \in {"run", "ended"} /\ x_screen_default \notin DOMAIN screen
  BY DEF CreateWindowNowhere, MakesWindow, End
<1>2. ~Detected
  BY <1>1, SequenceLength DEF IInv, DisplayInv, Started
<1>3. ~GoodServer'
  BY <1>1, <1>2 DEF GoodServer, Detected
<1> QED
  BY <1>1, <1>3 DEF CompositingInv, ShapedIfNoCompositor

LEMMA CompositingChanged ==
  ASSUME IInv, CompositingInv, CompositorChanges PROVE CompositingInv'
<1>1. UNCHANGED <<server, pc, has>> /\ changes' = changes + 1 /\ DOMAIN compositing' = DOMAIN compositing
  BY DEF CompositorChanges
<1>2. changes' \in Nat /\ changes' # 0
  BY <1>1 DEF CompositingInv
<1> QED
  BY <1>1, <1>2 DEF CompositingInv, ShapedIfNoCompositor

LEMMA CompositingRest ==
  ASSUME IInv, CompositingInv,
         \/ CannotConnect \/ NextOutput \/ OutputWithoutCrtc \/ OutputsDone
         \/ HeadsDone \/ CoreDone \/ Serve \/ UNCHANGED vars
  PROVE  CompositingInv'
<1>1. UNCHANGED <<server, compositing, changes, has, is_compositing, screen, window>>
  BY DEF CannotConnect, NextOutput, OutputWithoutCrtc, OutputsDone, HeadsDone, CoreDone, Serve, ScreensDone,
         End, vars
<1>2. pc' \in {pc, "ended"} \/ pc \in {"xrandr", "xinerama", "core", "wayland"}
  BY DEF CannotConnect, NextOutput, OutputWithoutCrtc, OutputsDone, HeadsDone, CoreDone, Serve, ScreensDone,
         End, vars
<1> QED
  BY <1>1, <1>2 DEF CompositingInv, ShapedIfNoCompositor, GoodServer, Detected

LEMMA InitCompositing ==
  ASSUME Init PROVE CompositingInv
<1>1. DOMAIN compositing = DOMAIN server.screens /\ changes = 0 /\ pc = "connect" /\ Len(screen) = 0
  BY DEF Init
<1>2. ShapedIfNoCompositor
  BY DEF Init, ShapedIfNoCompositor
<1> QED
  BY <1>1, <1>2 DEF CompositingInv

LEMMA NextCompositing ==
  ASSUME IInv, ChoiceInv, CompositingInv, [Next]_vars PROVE CompositingInv'
  BY CompositingConnect, CompositingSetupScreens, CompositingLoops, CompositingCreateWindow, CompositingNowhere,
     CompositingChanged, CompositingRest DEF Next, StartUp

(* While no compositing manager comes or goes a window is shaped just when its
   core screen has none, whichever of the three ways its screen was found. *)
THEOREM ShapedRightly == Spec => []ShapedIfNoCompositor
<1>1. CompositingInv => ShapedIfNoCompositor
  BY DEF CompositingInv
<1>2. Init => IInv /\ ChoiceInv /\ CompositingInv
  BY InitInv, InitChoice, InitCompositing
<1>3. IInv /\ ChoiceInv /\ CompositingInv /\ [Next]_vars => IInv' /\ ChoiceInv' /\ CompositingInv'
  BY NextInv, NextChoice, NextCompositing
<1> QED
  BY <1>1, <1>2, <1>3, PTL DEF Spec

-----------------------------------------------------------------------------
(* Which screens are made, and how they are listed.                        *)

Numbers == {screen[n].number : n \in 1..Len(screen)}

(* The list has the screens from last to first; a loop that has come to i has
   made those there are to find before it, in their order. *)
ListInv ==
  /\ x_screen_list \in Seq(Nat) /\ Len(x_screen_list) = Len(screen)
  /\ \A n \in 1..Len(screen) :
       /\ x_screen_list[n] = Len(screen) + 1 - n
       /\ screen[n].number \in 1 .. i - 1
       /\ screen[n].area = AreaOf(screen[n].number)
       /\ \A m \in 1 .. n - 1 : screen[m].number < screen[n].number
  /\ pc \in {"xrandr", "xinerama", "core"} => pc = Way /\ Numbers = Found \cap (1 .. i - 1)
  /\ Started => Numbers = Found

(* AddScreen of the next screen there is to find. *)
LEMMA ListAdded ==
  ASSUME IInv, ListInv, pc \in {"xrandr", "xinerama", "core"}, i \in Found,
         NEW scr, AddScreen(scr), scr.number = i, scr.area = AreaOf(i)
  PROVE  ListInv'
<1> DEFINE last == Len(screen) + 1
<1>1. /\ UNCHANGED <<server, pc, has>> /\ i' = i + 1 /\ i \in Nat \ {0}
      /\ x_screen_list' = <<Len(screen')>> \o x_screen_list
  BY DEF AddScreen, IInv, DisplayInv
<1>2. /\ Len(screen) \in Nat /\ Len(screen') = last
      /\ \A n \in 1..Len(screen) : screen'[n] = screen[n]
      /\ screen'[last] = scr
  BY OthersKept DEF IInv
<1>3. Found' = Found /\ Way' = Way /\ \A n : AreaOf(n)' = AreaOf(n)
  BY <1>1 DEF Found, Way, AreaOf
<1>4. /\ x_screen_list' \in Seq(Nat) /\ Len(x_screen_list') = Len(screen')
      /\ \A n \in 1..Len(screen') : x_screen_list'[n] = Len(screen') + 1 - n
  <2>1. /\ x_screen_list \in Seq(Nat) /\ Len(x_screen_list) = Len(screen)
        /\ \A n \in 1..Len(screen) : x_screen_list[n] = Len(screen) + 1 - n
    BY DEF ListInv
  <2> DEFINE list == <<last>> \o x_screen_list
  <2>2. last \in Nat /\ <<last>> \in Seq(Nat)
    BY <1>2
  <2>3. /\ list \in Seq(Nat) /\ Len(list) = Len(screen) + 1 /\ list[1] = last
        /\ \A k \in 1..Len(screen) : list[k + 1] = x_screen_list[k]
    BY <2>1, <2>2
  <2>4. ASSUME NEW n \in 1..last PROVE list[n] = last + 1 - n
    <3>1. CASE n = 1
      BY <2>2, <2>3, <3>1
    <3>2. CASE n # 1
      <4>1. n - 1 \in 1..Len(screen) /\ (n - 1) + 1 = n
        BY <1>2, <3>2
      <4>2. list[n] = Len(screen) + 1 - (n - 1)
        BY <2>1, <2>3, <4>1
      <4>3. Len(screen) + 1 - (n - 1) = last + 1 - n
        BY <1>2
      <4> QED
        BY <4>2, <4>3
    <3> QED
      BY <3>1, <3>2
  <2> HIDE DEF last
  <2> QED
    BY <1>1, <1>2, <2>3, <2>4 DEF last
<1>5. ASSUME NEW n \in 1..Len(screen')
      PROVE  /\ screen'[n].number \in 1 .. i' - 1
             /\ screen'[n].area = AreaOf(screen'[n].number)
             /\ \A m \in 1 .. n - 1 : screen'[m].number < screen'[n].number
  <2>1. CASE n \in 1..Len(screen)
    BY <1>1, <1>2, <2>1 DEF ListInv
  <2>2. CASE n = last
    BY <1>1, <1>2, <2>2 DEF ListInv
  <2> QED
    BY <1>2, <2>1, <2>2
<1>6. Numbers' = Numbers \cup {i}
  <2>1. 1..Len(screen') = (1..Len(screen)) \cup {last}
    BY <1>2
  <2> QED
    BY <1>2, <2>1 DEF Numbers
<1>7. Numbers' = Found \cap (1 .. i' - 1)
  BY <1>1, <1>6 DEF ListInv
<1> QED
  BY <1>1, <1>3, <1>4, <1>5, <1>7 DEF ListInv, Started

LEMMA ListConnectedOutput ==
  ASSUME IInv, ListInv, ConnectedOutput PROVE ListInv'
<1>1. PICK edid \in BOOLEAN : AddScreen(XrandrScreen(server.outputs[i], edid))
  BY DEF ConnectedOutput
<1> DEFINE scr == XrandrScreen(server.outputs[i], edid)
<1>2. /\ pc = "xrandr" /\ has["randr"] /\ i \in Nat \ {0}
      /\ i <= Len(server.outputs) /\ server.outputs[i].connected
  BY DEF ConnectedOutput, SkipOutput, IInv, DisplayInv
<1>3. i \in Found
  BY <1>2, ServerLengths DEF Found, IInv, DisplayInv
<1>4. scr.number = i /\ scr.area = AreaOf(i)
  BY <1>2 DEF XrandrScreen, AreaOf
<1> HIDE DEF scr
<1> QED
  BY <1>1, <1>2, <1>3, <1>4, ListAdded DEF scr

LEMMA ListXineramaHead ==
  ASSUME IInv, ListInv, XineramaHead PROVE ListInv'
<1> DEFINE scr == XineramaScreen(server.heads[i])
<1>1. /\ pc = "xinerama" /\ AddScreen(scr) /\ i <= Len(server.heads) /\ i \in Nat \ {0}
      /\ server.heads \in Seq(Area)
  BY DEF XineramaHead, IInv, DisplayInv, XServer
<1>2. ~has["randr"] /\ has["xinerama"] /\ server.active /\ Len(server.heads) > 1
  BY <1>1 DEF ListInv, Way
<1>3. i \in Found
  BY <1>1, <1>2 DEF Found
<1>4. scr.number = i /\ scr.area = AreaOf(i)
  BY <1>2 DEF XineramaScreen, AreaOf
<1> HIDE DEF scr
<1> QED
  BY <1>1, <1>3, <1>4, ListAdded

LEMMA ListCoreScreen ==
  ASSUME IInv, ListInv, CoreScreen PROVE ListInv'
<1> DEFINE scr == CoreScreenOf(server.screens[i])
<1>1. pc = "core" /\ AddScreen(scr) /\ i <= Len(server.screens) /\ i \in Nat \ {0}
  BY DEF CoreScreen, IInv, DisplayInv
<1>2. ~has["randr"] /\ (has["xinerama"] => server.active /\ ~(Len(server.heads) > 1))
  BY <1>1 DEF ListInv, Way
<1>3. i \in Found
  BY <1>1, <1>2, ServerLengths DEF Found, IInv, DisplayInv
<1>4. scr.number = i /\ scr.area = AreaOf(i)
  BY <1>2 DEF CoreScreenOf, AreaOf
<1> HIDE DEF scr
<1> QED
  BY <1>1, <1>3, <1>4, ListAdded

(* What makes no screen keeps the list, if what a loop has passed is not there. *)
LEMMA ListKept ==
  ASSUME ListInv, UNCHANGED <<server, has, screen, x_screen_list>>,
         i' \in {i, i + 1}, i \in Nat,
         pc' \in {"xrandr", "xinerama", "core"} =>
           pc' = pc /\ Found \cap (1 .. i' - 1) = Found \cap (1 .. i - 1),
         Started' => Numbers = Found
  PROVE  ListInv'
<1>1. Found' = Found /\ Way' = Way /\ Numbers' = Numbers /\ (\A n : AreaOf(n)' = AreaOf(n))
  BY DEF Found, Way, AreaOf, Numbers
<1>2. ASSUME NEW k \in 1 .. i - 1 PROVE k \in 1 .. i' - 1
  <2>1. CASE i' = i
    BY <2>1
  <2>2. CASE i' = i + 1
    BY <2>2
  <2> QED
    BY <2>1, <2>2
<1> QED
  BY <1>1, <1>2 DEF ListInv

LEMMA ListNextOutput ==
  ASSUME IInv, ListInv, NextOutput PROVE ListInv'
<1>1. /\ UNCHANGED <<server, pc, has, screen, x_screen_list>> /\ pc = "xrandr" /\ has["randr"]
      /\ i' = i + 1 /\ i \in Nat \ {0} /\ ~server.outputs[i].connected
  BY DEF NextOutput, SkipOutput, IInv, DisplayInv
<1>2. i \notin Found
  BY <1>1 DEF Found
<1>3. Found \cap (1 .. i' - 1) = Found \cap (1 .. i - 1)
  BY <1>1, <1>2
<1> QED
  BY <1>1, <1>3, ListKept DEF Started

(* Before the loops there is nothing in the list. *)
LEMMA ListFresh ==
  ASSUME IInv, ListInv, Connect \/ SetupScreens PROVE ListInv'
<1>1. UNCHANGED <<server, i, screen, x_screen_list>> /\ pc \in {"connect", "screens"}
  BY DEF Connect, SetupScreens
<1>2. screen = <<>> /\ Len(screen) = 0 /\ i = 1
  BY <1>1 DEF IInv, Fresh
<1>3. Numbers' = {}
  BY <1>1, <1>2 DEF Numbers
<1>4. pc' \in {"xrandr", "xinerama", "core"} => pc' = Way' /\ Numbers' = Found' \cap (1 .. i' - 1)
  BY <1>1, <1>2, <1>3 DEF Connect, SetupScreens, Way
<1>5. Started' => Found' = {}
  <2>1. Started' => has' = has /\ Way = "wayland"
    BY DEF Connect, SetupScreens, Started, Way
  <2> QED
    BY <1>1, <2>1 DEF Way, Found
<1> QED
  BY <1>1, <1>2, <1>3, <1>4, <1>5 DEF ListInv

LEMMA ListScreensDone ==
  ASSUME IInv, ListInv, OutputsDone \/ HeadsDone \/ CoreDone PROVE ListInv'
<1>1. UNCHANGED <<server, has, screen, x_screen_list, i>> /\ pc' = "wayland"
  BY DEF OutputsDone, HeadsDone, CoreDone, ScreensDone
<1>2. /\ i \in Nat \ {0} /\ pc \in {"xrandr", "xinerama", "core"} /\ server \in XServer
      /\ pc = "xrandr" => has["randr"] /\ i > Len(server.outputs)
      /\ pc = "xinerama" => i > Len(server.heads)
      /\ pc = "core" => i > Len(server.screens)
  BY DEF OutputsDone, HeadsDone, CoreDone, IInv, DisplayInv
<1>3. pc = Way /\ Numbers = Found \cap (1 .. i - 1)
  BY <1>2 DEF ListInv
<1>4. server.heads \in Seq(Area)
  BY <1>2 DEF XServer
<1>5. Found \subseteq 1 .. i - 1
  BY <1>2, <1>3, <1>4, ServerLengths DEF Found, Way
<1>6. Numbers = Found
  BY <1>3, <1>5
<1> QED
  BY <1>1, <1>2, <1>6, ListKept DEF Started

LEMMA ListRest ==
  ASSUME IInv, ListInv,
         \/ CannotConnect \/ OutputWithoutCrtc \/ Serve
         \/ CreateWindow \/ CreateWindowNowhere \/ CompositorChanges \/ UNCHANGED vars
  PROVE  ListInv'
<1>1. UNCHANGED <<server, has, screen, x_screen_list, i>> /\ i \in Nat
  BY DEF CannotConnect, OutputWithoutCrtc, Serve, CreateWindow, CreateWindowNowhere, CompositorChanges,
         MakesWindow, End, vars, IInv, DisplayInv
<1>2. pc' = pc \/ pc' = "ended" \/ (pc = "wayland" /\ pc' = "run")
  BY DEF CannotConnect, OutputWithoutCrtc, Serve, CreateWindow, CreateWindowNowhere, CompositorChanges,
         MakesWindow, End, vars
<1>3. Started' => Numbers = Found
  BY <1>2 DEF ListInv, Started
<1> QED
  BY <1>1, <1>2, <1>3, ListKept

LEMMA NextList ==
  ASSUME IInv, ListInv, [Next]_vars PROVE ListInv'
  BY ListFresh, ListNextOutput, ListConnectedOutput, ListXineramaHead, ListCoreScreen, ListScreensDone, ListRest
  DEF Next, StartUp

LEMMA InitList ==
  ASSUME Init PROVE ListInv
<1>1. x_screen_list = <<>> /\ Len(screen) = 0 /\ pc = "connect"
  BY DEF Init
<1> QED
  BY <1>1 DEF ListInv, Started

(* Every connected output, head or core screen is found, once, whichever way
   screens are found and however many there are. *)
THEOREM AllScreensFound == Spec => []ScreensFound
<1>1. ASSUME IInv, ListInv PROVE ScreensFound
  <2>1. Len(screen) \in Nat
    BY <1>1, SequenceLength DEF IInv
  <2>2. DOMAIN x_screen_list = 1..Len(screen) /\ Len(x_screen_list) = Len(screen)
    BY <1>1 DEF ListInv
  <2>3. ASSUME NEW n \in 1..Len(screen)
        PROVE  /\ Len(screen) + 1 - n \in 1..Len(screen)
               /\ Listed(n) = screen[Len(screen) + 1 - n]
               /\ Listed(Len(screen) + 1 - n) = screen[n]
    <3>1. Len(screen) + 1 - n \in 1..Len(screen) /\ Len(screen) + 1 - (Len(screen) + 1 - n) = n
      BY <2>1
    <3> QED
      BY <1>1, <3>1 DEF ListInv, Listed
  <2>4. {Listed(n).number : n \in 1..Len(screen)} = Numbers
    BY <2>3 DEF Numbers
  <2>5. ASSUME NEW n \in 1..Len(screen) PROVE Listed(n).area = AreaOf(Listed(n).number)
    <3>1. PICK k \in 1..Len(screen) : Listed(n) = screen[k]
      BY <2>3
    <3>2. screen[k].area = AreaOf(screen[k].number)
      BY <1>1 DEF ListInv
    <3> QED
      BY <3>1, <3>2, Zenon
  <2>6. ASSUME NEW n \in 1..Len(screen), NEW m \in 1..Len(screen), n < m
        PROVE  Listed(n).number > Listed(m).number
    <3>1. Len(screen) + 1 - m \in 1 .. (Len(screen) + 1 - n) - 1
      BY <2>1, <2>6
    <3>2. screen[Len(screen) + 1 - m].number < screen[Len(screen) + 1 - n].number
      BY <1>1, <2>3, <3>1 DEF ListInv
    <3> QED
      BY <2>3, <3>2
  <2> QED
    BY <1>1, <2>2, <2>4, <2>5, <2>6 DEF ScreensFound, ListInv
<1>2. Init => IInv /\ ListInv
  BY InitInv, InitList
<1>3. IInv /\ ListInv /\ [Next]_vars => IInv' /\ ListInv'
  BY NextInv, NextList
<1> QED
  BY <1>1, <1>2, <1>3, PTL DEF Spec

-----------------------------------------------------------------------------
(* What a lookup in the table of vendors returns.                          *)

IsSequence(s) == \E S : s \in Seq(S)

LEMMA Tabulated ==
  ASSUME NEW n \in Nat, NEW s, s = [k \in 1..n |-> s[k]]
  PROVE  IsSequence(s)
<1>1. s \in Seq({s[k] : k \in 1..n})
  OBVIOUS
<1> QED
  BY <1>1 DEF IsSequence

LEMMA Joined ==
  ASSUME NEW s, NEW t, IsSequence(s), IsSequence(t)
  PROVE  IsSequence(s \o t)
<1>1. PICK S, T : s \in Seq(S) /\ t \in Seq(T)
  BY DEF IsSequence
<1>2. s \in Seq(S \cup T) /\ t \in Seq(S \cup T)
  BY <1>1
<1>3. s \o t \in Seq(S \cup T)
  BY <1>2
<1> QED
  BY <1>3 DEF IsSequence

(* The table has an end. *)
LEMMA VendorsEnd == Len(Vendors) \in Nat
<1>1. IsSequence(VendorsA)
  <2>1. VendorsA = [k \in 1..236 |-> VendorsA[k]]
    BY DEF VendorsA
  <2> QED
    BY <2>1, Tabulated
<1>2. IsSequence(VendorsB)
  <2>1. VendorsB = [k \in 1..80 |-> VendorsB[k]]
    BY DEF VendorsB
  <2> QED
    BY <2>1, Tabulated
<1>3. IsSequence(VendorsC)
  <2>1. VendorsC = [k \in 1..177 |-> VendorsC[k]]
    BY DEF VendorsC
  <2> QED
    BY <2>1, Tabulated
<1>4. IsSequence(VendorsD)
  <2>1. VendorsD = [k \in 1..146 |-> VendorsD[k]]
    BY DEF VendorsD
  <2> QED
    BY <2>1, Tabulated
<1>5. IsSequence(VendorsE)
  <2>1. VendorsE = [k \in 1..121 |-> VendorsE[k]]
    BY DEF VendorsE
  <2> QED
    BY <2>1, Tabulated
<1>6. IsSequence(VendorsF)
  <2>1. VendorsF = [k \in 1..77 |-> VendorsF[k]]
    BY DEF VendorsF
  <2> QED
    BY <2>1, Tabulated
<1>7. IsSequence(VendorsG)
  <2>1. VendorsG = [k \in 1..74 |-> VendorsG[k]]
    BY DEF VendorsG
  <2> QED
    BY <2>1, Tabulated
<1>8. IsSequence(VendorsH)
  <2>1. VendorsH = [k \in 1..89 |-> VendorsH[k]]
    BY DEF VendorsH
  <2> QED
    BY <2>1, Tabulated
<1>9. IsSequence(VendorsI)
  <2>1. VendorsI = [k \in 1..137 |-> VendorsI[k]]
    BY DEF VendorsI
  <2> QED
    BY <2>1, Tabulated
<1>10. IsSequence(VendorsJ)
  <2>1. VendorsJ = [k \in 1..32 |-> VendorsJ[k]]
    BY DEF VendorsJ
  <2> QED
    BY <2>1, Tabulated
<1>11. IsSequence(VendorsK)
  <2>1. VendorsK = [k \in 1..65 |-> VendorsK[k]]
    BY DEF VendorsK
  <2> QED
    BY <2>1, Tabulated
<1>12. IsSequence(VendorsL)
  <2>1. VendorsL = [k \in 1..87 |-> VendorsL[k]]
    BY DEF VendorsL
  <2> QED
    BY <2>1, Tabulated
<1>13. IsSequence(VendorsM)
  <2>1. VendorsM = [k \in 1..190 |-> VendorsM[k]]
    BY DEF VendorsM
  <2> QED
    BY <2>1, Tabulated
<1>14. IsSequence(VendorsN)
  <2>1. VendorsN = [k \in 1..100 |-> VendorsN[k]]
    BY DEF VendorsN
  <2> QED
    BY <2>1, Tabulated
<1>15. IsSequence(VendorsO)
  <2>1. VendorsO = [k \in 1..60 |-> VendorsO[k]]
    BY DEF VendorsO
  <2> QED
    BY <2>1, Tabulated
<1>16. IsSequence(VendorsP)
  <2>1. VendorsP = [k \in 1..139 |-> VendorsP[k]]
    BY DEF VendorsP
  <2> QED
    BY <2>1, Tabulated
<1>17. IsSequence(VendorsQ)
  <2>1. VendorsQ = [k \in 1..24 |-> VendorsQ[k]]
    BY DEF VendorsQ
  <2> QED
    BY <2>1, Tabulated
<1>18. IsSequence(VendorsR)
  <2>1. VendorsR = [k \in 1..86 |-> VendorsR[k]]
    BY DEF VendorsR
  <2> QED
    BY <2>1, Tabulated
<1>19. IsSequence(VendorsS)
  <2>1. VendorsS = [k \in 1..237 |-> VendorsS[k]]
    BY DEF VendorsS
  <2> QED
    BY <2>1, Tabulated
<1>20. IsSequence(VendorsT)
  <2>1. VendorsT = [k \in 1..169 |-> VendorsT[k]]
    BY DEF VendorsT
  <2> QED
    BY <2>1, Tabulated
<1>21. IsSequence(VendorsU)
  <2>1. VendorsU = [k \in 1..44 |-> VendorsU[k]]
    BY DEF VendorsU
  <2> QED
    BY <2>1, Tabulated
<1>22. IsSequence(VendorsV)
  <2>1. VendorsV = [k \in 1..78 |-> VendorsV[k]]
    BY DEF VendorsV
  <2> QED
    BY <2>1, Tabulated
<1>23. IsSequence(VendorsW)
  <2>1. VendorsW = [k \in 1..47 |-> VendorsW[k]]
    BY DEF VendorsW
  <2> QED
    BY <2>1, Tabulated
<1>24. IsSequence(VendorsX)
  <2>1. VendorsX = [k \in 1..28 |-> VendorsX[k]]
    BY DEF VendorsX
  <2> QED
    BY <2>1, Tabulated
<1>25. IsSequence(VendorsY)
  <2>1. VendorsY = [k \in 1..5 |-> VendorsY[k]]
    BY DEF VendorsY
  <2> QED
    BY <2>1, Tabulated
<1>26. IsSequence(VendorsZ)
  <2>1. VendorsZ = [k \in 1..29 |-> VendorsZ[k]]
    BY DEF VendorsZ
  <2> QED
    BY <2>1, Tabulated
<1> QED
  <2> DEFINE VendorsAI == VendorsA \o VendorsB \o VendorsC \o VendorsD \o VendorsE \o VendorsF \o VendorsG
                            \o VendorsH \o VendorsI
             VendorsAR == VendorsAI \o VendorsJ \o VendorsK \o VendorsL \o VendorsM \o VendorsN \o VendorsO
                            \o VendorsP \o VendorsQ \o VendorsR
  <2>1. IsSequence(VendorsAI)
    BY <1>1, <1>2, <1>3, <1>4, <1>5, <1>6, <1>7, <1>8, <1>9, Joined
  <2> HIDE DEF VendorsAI
  <2>2. IsSequence(VendorsAR)
    BY <1>10, <1>11, <1>12, <1>13, <1>14, <1>15, <1>16, <1>17, <1>18, <2>1, Joined
  <2>3. Vendors = VendorsAR \o VendorsS \o VendorsT \o VendorsU \o VendorsV \o VendorsW \o VendorsX
                    \o VendorsY \o VendorsZ
    BY DEF Vendors, VendorsAI
  <2> HIDE DEF VendorsAR
  <2>4. IsSequence(Vendors)
    BY <1>19, <1>20, <1>21, <1>22, <1>23, <1>24, <1>25, <1>26, <2>2, <2>3, Joined
  <2> QED
    BY <2>4 DEF IsSequence

LEMMA GreatestExists ==
  ASSUME NEW n \in Nat, NEW T \in SUBSET (1..n), T # {}
  PROVE  Max(T) \in T
<1> DEFINE Back == {n - k : k \in T}
<1>1. Back \subseteq Nat /\ Back # {}
  <2>1. ASSUME NEW k \in T PROVE n - k \in Nat
    OBVIOUS
  <2> QED
    BY <2>1
<1> DEFINE Less == OpToRel(<, Nat)
<1>2. IsWellFoundedOn(Less, Nat)
  BY NatLessThanWellFounded
<1>3. \A a, b \in Nat : a < b => <<a, b>> \in Less
  BY DEF OpToRel
<1> HIDE DEF Less
<1>4. PICK b \in Back : \A a \in Back : ~(<<a, b>> \in Less)
  BY <1>1, <1>2, WFMin
<1>5. PICK k \in T : b = n - k
  BY <1>4
<1>6. ASSUME NEW j \in T PROVE k >= j
  <2>1. ~(n - j < n - k)
    BY <1>1, <1>3, <1>4, <1>5
  <2> QED
    BY <2>1
<1> QED
  BY <1>6 DEF Max

(* A line that is found has the letters looked for, and once the table is cut it
   is the first one. *)
LEMMA LookupFinds ==
  ASSUME NEW m, NEW k, k = Lookup(cut, m), k # 0
  PROVE  Vendors[k] = PnpName(m) /\ (cut => k = 1)
<1> DEFINE T == {j \in Tokens(cut) : Vendors[j] = PnpName(m)}
<1>1. T # {} /\ k = Max(T)
  BY DEF Lookup
<1>2. T \in SUBSET Tokens(cut) /\ Tokens(cut) \in {1..1, 1..Len(Vendors)}
  BY DEF Tokens
<1>3. k \in T
  BY <1>1, <1>2, VendorsEnd, GreatestExists
<1> QED
  BY <1>3 DEF Tokens

-----------------------------------------------------------------------------
(* What the makes of the screens are.                                      *)

Named(scr) == scr.make \notin {"own", "monitor", "junk"}

(* The first EDID cuts the table: no screen has a name from it before, and only
   the one of that EDID has a name other than the first. *)
MakesInv ==
  /\ \A n \in 1..Len(screen) : Named(screen[n]) =>
       /\ cut
       /\ screen[n].make = PnpName(server.outputs[screen[n].number].edid.maker)
  /\ \E k : \A n \in 1..Len(screen) : Named(screen[n]) /\ screen[n].make # Vendors[1] => n = k

LEMMA MakesAdded ==
  ASSUME IInv, MakesInv, NEW scr, AddScreen(scr), cut => cut',
         Named(scr) => /\ cut'
                       /\ scr.make = PnpName(server.outputs[scr.number].edid.maker)
                       /\ cut => scr.make = Vendors[1]
  PROVE  MakesInv'
<1>1. /\ Len(screen) \in Nat /\ Len(screen') = Len(screen) + 1
      /\ \A n \in 1..Len(screen) : screen'[n] = screen[n]
      /\ screen'[Len(screen) + 1] = scr
  BY OthersKept DEF IInv
<1>2. server' = server
  BY DEF AddScreen
<1>3. ASSUME NEW n \in 1..Len(screen') PROVE n \in 1..Len(screen) \/ n = Len(screen) + 1
  BY <1>1
<1>4. ASSUME NEW n \in 1..Len(screen'), Named(screen'[n])
      PROVE  cut' /\ screen'[n].make = PnpName(server.outputs[screen'[n].number].edid.maker)
  <2>1. CASE n \in 1..Len(screen)
    <3>1. screen'[n] = screen[n]
      BY <1>1, <2>1
    <3> QED
      BY <1>4, <2>1, <3>1, Zenon DEF MakesInv
  <2>2. CASE n = Len(screen) + 1
    BY <1>1, <1>4, <2>2, Zenon
  <2> QED
    BY <1>3, <2>1, <2>2
<1>5. \E k : \A n \in 1..Len(screen') : Named(screen'[n]) /\ screen'[n].make # Vendors[1] => n = k
  <2>1. CASE cut
    <3>1. PICK k : \A n \in 1..Len(screen) : Named(screen[n]) /\ screen[n].make # Vendors[1] => n = k
      BY DEF MakesInv
    <3> WITNESS k
    <3> SUFFICES ASSUME NEW n \in 1..Len(screen'), Named(screen'[n]), screen'[n].make # Vendors[1] PROVE n = k
      OBVIOUS
    <3>2. n # Len(screen) + 1
      BY <1>1, <2>1
    <3>3. n \in 1..Len(screen) /\ screen'[n] = screen[n]
      BY <1>1, <1>3, <3>2
    <3> QED
      BY <3>1, <3>3
  <2>2. CASE ~cut
    <3> WITNESS Len(screen) + 1
    <3> SUFFICES ASSUME NEW n \in 1..Len(screen), Named(screen'[n]) PROVE FALSE
      BY <1>3
    <3>1. screen'[n] = screen[n]
      BY <1>1
    <3> QED
      BY <2>2, <3>1 DEF MakesInv
  <2> QED
    BY <2>1, <2>2
<1> QED
  BY <1>2, <1>4, <1>5 DEF MakesInv

LEMMA MakesConnectedOutput ==
  ASSUME IInv, MakesInv, ConnectedOutput PROVE MakesInv'
<1> DEFINE out == server.outputs[i]
<1>1. PICK found \in EdidFound(out.props) :
        /\ AddScreen(XrandrScreen(out, found /\ UsesEdid(out)))
        /\ cut' = (cut \/ (found /\ UsesEdid(out)))
  BY DEF ConnectedOutput
<1> DEFINE edid == found /\ UsesEdid(out)
           scr == XrandrScreen(out, edid)
<1>2. scr.number = i /\ scr.make = IF edid THEN EdidMake(out.edid) ELSE "own"
  BY DEF XrandrScreen
<1>3. ASSUME Named(scr)
      PROVE  /\ cut'
             /\ scr.make = PnpName(server.outputs[scr.number].edid.maker)
             /\ cut => scr.make = Vendors[1]
  <2> DEFINE k == Lookup(cut, out.edid.maker)
  <2>1. edid
    BY <1>2, <1>3 DEF Named
  <2>2. scr.make = IF k = 0 THEN "junk" ELSE Vendors[k]
    BY <1>2, <2>1 DEF EdidMake
  <2> HIDE DEF k
  <2>3. k # 0 /\ scr.make = Vendors[k]
    BY <1>3, <2>2 DEF Named
  <2>4. Vendors[k] = PnpName(out.edid.maker) /\ (cut => k = 1)
    BY <2>3, LookupFinds DEF k
  <2>5. cut'
    BY <1>1, <2>1, Zenon
  <2> QED
    BY <1>2, <2>3, <2>4, <2>5
<1>4. cut => cut'
  BY <1>1, Zenon
<1>5. AddScreen(scr)
  BY <1>1
<1> HIDE DEF scr
<1> QED
  BY <1>3, <1>4, <1>5, MakesAdded

(* Heads and core screens have no vendor of the table. *)
LEMMA MakesOthers ==
  ASSUME IInv, MakesInv, XineramaHead \/ CoreScreen PROVE MakesInv'
<1>1. CASE XineramaHead
  <2> DEFINE scr == XineramaScreen(server.heads[i])
  <2>1. AddScreen(scr) /\ cut' = cut
    BY <1>1 DEF XineramaHead
  <2>2. ~Named(scr)
    BY DEF XineramaScreen, Named
  <2> HIDE DEF scr
  <2> QED
    BY <2>1, <2>2, MakesAdded
<1>2. CASE CoreScreen
  <2> DEFINE scr == CoreScreenOf(server.screens[i])
  <2>1. AddScreen(scr) /\ cut' = cut
    BY <1>2 DEF CoreScreen
  <2>2. ~Named(scr)
    BY DEF CoreScreenOf, Named
  <2> HIDE DEF scr
  <2> QED
    BY <2>1, <2>2, MakesAdded
<1> QED
  BY <1>1, <1>2

LEMMA NextMakes ==
  ASSUME IInv, MakesInv, [Next]_vars PROVE MakesInv'
<1>1. CASE ConnectedOutput \/ XineramaHead \/ CoreScreen
  BY <1>1, MakesConnectedOutput, MakesOthers
<1>2. CASE \/ Connect \/ CannotConnect \/ SetupScreens \/ NextOutput \/ OutputWithoutCrtc \/ OutputsDone
           \/ HeadsDone \/ CoreDone \/ Serve
           \/ CreateWindow \/ CreateWindowNowhere \/ CompositorChanges \/ UNCHANGED vars
  <2>1. UNCHANGED <<server, screen, cut>>
    BY <1>2 DEF Connect, CannotConnect, SetupScreens, NextOutput, OutputWithoutCrtc, OutputsDone, HeadsDone,
                CoreDone, Serve, CreateWindow, CreateWindowNowhere, CompositorChanges, ScreensDone, MakesWindow,
                End, vars
  <2> QED
    BY <2>1 DEF MakesInv
<1> QED
  BY <1>1, <1>2 DEF Next, StartUp

LEMMA InitMakes ==
  ASSUME Init PROVE MakesInv
<1>1. Len(screen) = 0
  BY DEF Init
<1> QED
  BY <1>1 DEF MakesInv

(* No screen has the name of another monitor's vendor, and at most one a name
   other than the first of the table, however many monitors there are. *)
THEOREM MakesAreRight == Spec => []MakesRight
<1>1. ASSUME IInv, MakesInv PROVE MakesRight
  <2> DEFINE named == {n \in DOMAIN screen : screen[n].make \notin {"own", "monitor", "junk"}}
             others == {n \in named : screen[n].make # Vendors[1]}
  <2>1. DOMAIN screen = 1..Len(screen)
    BY <1>1, SequenceLength DEF IInv
  <2>2. \A n \in named : screen[n].make = PnpName(server.outputs[screen[n].number].edid.maker)
    BY <1>1, <2>1 DEF MakesInv, Named
  <2>3. PICK k : \A n \in 1..Len(screen) : Named(screen[n]) /\ screen[n].make # Vendors[1] => n = k
    BY <1>1 DEF MakesInv
  <2>4. others \subseteq {k}
    BY <2>1, <2>3 DEF Named
  <2>5. IsFiniteSet({k}) /\ Cardinality({k}) = 1
    BY FS_Singleton
  <2>6. Cardinality(others) <= 1
    BY <2>4, <2>5, FS_Subset
  <2> QED
    BY <2>2, <2>6 DEF MakesRight
<1>2. Init => IInv /\ MakesInv
  BY InitInv, InitMakes
<1>3. IInv /\ MakesInv /\ [Next]_vars => IInv' /\ MakesInv'
  BY NextInv, NextMakes
<1> QED
  BY <1>1, <1>2, <1>3, PTL DEF Spec

=============================================================================

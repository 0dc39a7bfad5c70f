------------------------- MODULE WolfenDoubleBuffer -------------------------
(***************************************************************************)
(* What wl_surface promises a client: requests gather in a pending state,  *)
(* wl_surface.commit makes all of it current in one step, and what a       *)
(* surface shows changes only by a commit that follows an attach, to the   *)
(* buffer attached last.                                                   *)
(***************************************************************************)
CONSTANTS Surface, Buffer, InitialState, NULL

VARIABLES
  pending, current,  \* the values of the last requests, and of the last commit
  attached,          \* an attach waits for the commit
  content,           \* the buffer shown
  valid              \* the buffers that exist

vars == <<pending, current, attached, content, valid>>

Init ==
  /\ pending = [s \in Surface |-> InitialState]
  /\ current = [s \in Surface |-> InitialState]
  /\ attached = [s \in Surface |-> FALSE]
  /\ content = [s \in Surface |-> NULL]
  /\ valid = Buffer

(* A request: any change of one surface's pending state.  A new buffer is an
   attach, and only a commit takes an attach back. *)
Request(s) ==
  /\ pending' = [pending EXCEPT ![s] = pending'[s]]
  /\ attached' = [attached EXCEPT ![s] = attached'[s]]
  /\ attached[s] => attached'[s]
  /\ pending'[s].buffer # pending[s].buffer => attached'[s]
  /\ UNCHANGED <<current, content, valid>>

(* A commit.  What a destroyed buffer would show is anybody's guess. *)
Commit(s) ==
  /\ current' = [current EXCEPT ![s] = pending[s]]
  /\ attached' = [attached EXCEPT ![s] = FALSE]
  /\ IF attached[s]
     THEN \E b \in IF pending[s].buffer \in valid THEN {pending[s].buffer} ELSE Buffer :
            content' = [content EXCEPT ![s] = b]
     ELSE UNCHANGED content
  /\ UNCHANGED <<pending, valid>>

BuffersGo ==
  /\ valid' \subseteq valid
  /\ UNCHANGED <<pending, current, attached, content>>

Next == BuffersGo \/ \E s \in Surface : Request(s) \/ Commit(s)

Spec == Init /\ [][Next]_vars

=============================================================================

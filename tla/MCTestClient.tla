---------------------------- MODULE MCTestClient ----------------------------
(* A user who types the numbers of the tests, a larger and a negative one. *)
EXTENDS WolfenTestClient

(* Wolfen, and a compositor without wl_shell. *)
MCOffered == {{"wl_compositor", "wl_shell", "wl_shm"}, {"wl_compositor", "wl_shm"}}
MCNumber == {-1, 0, 1, 5}

=============================================================================

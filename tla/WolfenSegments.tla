--------------------------- MODULE WolfenSegments ---------------------------
(***************************************************************************)
(* The System V shared memory segments of the images of wolfen-surface.c.  *)
(* Each import of a buffer gets one; only the segment of the last import   *)
(* is detached when the surface is deleted.  The kernel has a limit of     *)
(* segments, keeps one until it is marked for removal and detached by      *)
(* everybody, and detaches those of a program that ends, as the X server   *)
(* detaches those of a client that is gone.                                *)
(*                                                                         *)
(* The server may end at any step: WolfenShell, WolfenImage and            *)
(* WolfenRender say by what.                                               *)
(***************************************************************************)
EXTENDS Integers, FiniteSets

CONSTANTS
  Surface,
  Limit,      \* how many segments the system allows
  MaxImport,  \* bounds the imports
  MaxRun      \* bounds the runs of the server

ASSUME SegmentsAssumption ==
  Limit \in Nat \ {0} /\ MaxImport \in Nat /\ MaxRun \in Nat

VARIABLES
  run,       \* how often the server was started
  pc,        \* where the main thread is in the import of a buffer, or "down"
  importing, \* the surface it is for
  shmid,     \* each surface's shm_info.shmid, 0 before the first import
  existing, removed,  \* segments that exist, and those marked for removal
  mine, xs,  \* the segments the server and the X server have attached
  imports,   \* how many segments there have been
  kept       \* how many segments of surfaces of this run nobody will detach

vars == <<run, pc, importing, shmid, existing, removed, mine, xs, imports, kept>>

Segment == 1..MaxImport

Init ==
  /\ run = 1
  /\ pc = "idle" /\ importing \in Surface
  /\ shmid = [s \in Surface |-> 0]
  /\ existing = {} /\ removed = {} /\ mine = {} /\ xs = {}
  /\ imports = 0 /\ kept = 0

-----------------------------------------------------------------------------
(* A commit that imports a buffer: shmget. *)
ShmGet(s) ==
  /\ pc = "idle" /\ imports < MaxImport /\ Cardinality(existing) < Limit
  /\ pc' = "created" /\ importing' = s
  /\ imports' = imports + 1
  /\ kept' = kept + (IF shmid[s] # 0 THEN 1 ELSE 0)
  /\ shmid' = [shmid EXCEPT ![s] = imports']
  /\ existing' = existing \cup {imports'}
  /\ UNCHANGED <<run, removed, mine, xs>>

ShmAt ==
  /\ pc = "created"
  /\ pc' = "attached"
  /\ mine' = mine \cup {shmid[importing]}
  /\ UNCHANGED <<run, importing, shmid, existing, removed, xs, imports, kept>>

(* memcpy, then XShmAttach. *)
XShmAttach ==
  /\ pc = "attached"
  /\ pc' = "shared"
  /\ xs' = xs \cup {shmid[importing]}
  /\ UNCHANGED <<run, importing, shmid, existing, removed, mine, imports, kept>>

(* Mutant: IPC_RMID is left to the deletion of the surface. *)
MutMarked == {}

Marked == {shmid[importing]}

ShmRemove ==
  /\ pc = "shared"
  /\ pc' = "idle"
  /\ removed' = removed \cup Marked
  /\ UNCHANGED <<run, importing, shmid, existing, mine, xs, imports, kept>>

(* Mutant: the image's segment is not detached by the X server. *)
MutXDetached(s) == xs

(* XShmDetach. *)
XDetached(s) == xs \ {shmid[s]}

(* Mutant: shmdt is left out. *)
MutDetached(s) == mine

(* Mutant: the segment of the last import is detached, whoever's it is. *)
MutDetachedLast(s) == mine \ {shmid[importing]}

(* shmdt. *)
Detached(s) == mine \ {shmid[s]}

(* wolfen_surface_delete of a surface with an image.  The next surface in its
   place is a new one. *)
Delete(s) ==
  /\ pc = "idle" /\ shmid[s] # 0
  /\ shmid' = [shmid EXCEPT ![s] = 0]
  /\ mine' = Detached(s) /\ xs' = XDetached(s)
  /\ removed' = removed \cup {shmid[s]}
  /\ existing' = {g \in existing : g \notin removed' \/ g \in mine' \cup xs'}
  /\ UNCHANGED <<run, pc, importing, imports, kept>>

(* The server ends. *)
End ==
  /\ pc # "down"
  /\ pc' = "down"
  /\ mine' = {} /\ xs' = {}
  /\ existing' = existing \ removed
  /\ shmid' = [s \in Surface |-> 0] /\ kept' = 0
  /\ UNCHANGED <<run, importing, removed, imports>>

(* shmget fails, shmat too, and memcpy writes to address -1. *)
NoSegmentLeft == pc = "idle" /\ Cardinality(existing) >= Limit /\ End

Restart ==
  /\ pc = "down" /\ run < MaxRun
  /\ run' = run + 1
  /\ pc' = "idle"
  /\ UNCHANGED <<importing, shmid, existing, removed, mine, xs, imports, kept>>

Next ==
  \/ \E s \in Surface : ShmGet(s) \/ Delete(s)
  \/ ShmAt \/ XShmAttach \/ ShmRemove
  \/ End \/ NoSegmentLeft \/ Restart

Spec == Init /\ [][Next]_vars

-----------------------------------------------------------------------------
(* The type invariant. *)
TypeOK ==
  /\ run \in 0 .. MaxRun + 1
  /\ pc \in {"idle", "created", "attached", "shared", "down"}
  /\ importing \in Surface
  /\ shmid \in [Surface -> {0} \cup Segment]
  /\ existing \subseteq Segment /\ removed \subseteq Segment
  /\ mine \subseteq existing /\ xs \subseteq mine
  /\ imports \in 0..MaxImport /\ kept \in 0..MaxImport

(* Between two requests the image of a surface has a segment both the server and
   the X server can use, and no other surface's image has it. *)
ImageUsable ==
  pc = "idle" =>
    \A s \in Surface : shmid[s] # 0 =>
      /\ shmid[s] \in mine \cap xs
      /\ \A t \in Surface \ {s} : shmid[t] # shmid[s]

(* A run of the server that ends leaves at most one segment behind, the one it
   was about to mark; what it leaves, the next runs have to do without. *)
OneLeftPerRun == pc = "down" => Cardinality(existing) <= run

(* Between two requests the segments are those of the images there are, of the
   imports a later one has replaced, and of earlier runs: a client reaches the
   limit by committing, whatever it destroys. *)
LeaksReplaced ==
  pc = "idle" =>
    Cardinality(existing) - Cardinality({s \in Surface : shmid[s] # 0}) - kept \in 0 .. run - 1

=============================================================================

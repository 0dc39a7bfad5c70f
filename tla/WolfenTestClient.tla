-------------------------- MODULE WolfenTestClient --------------------------
(***************************************************************************)
(* The test client: it connects, asks which test to run, runs it, and on   *)
(* SIGINT cleans up and exits, wherever it is.  What a prompt reads is a   *)
(* number, something else, or the end of the input, which stays.           *)
(*                                                                         *)
(* Nothing after the mmap of wolfen_test_shm_run is here: create_fd always *)
(* returns -1, so mmap always fails.  The connection is not lost before.   *)
(***************************************************************************)
EXTENDS Integers, Sequences, FiniteSets

CONSTANTS
  Offered,    \* what the compositors the client may connect to offer
  Number,     \* numbers a user may type
  MaxInvalid, \* how many invalid answers the user gives
  Retries     \* how many names create_shm_file tries

ASSUME TestClientAssumption ==
  /\ Offered \subseteq SUBSET {"wl_compositor", "wl_shell", "wl_shm"}
  /\ Number \subseteq Int /\ {0, 1} \subseteq Number
  /\ MaxInvalid \in Nat /\ Retries \in Nat \ {0}

VARIABLES
  globals,   \* what this one offers
  pc,        \* what the program does
  eof,       \* the input has ended
  invalid,   \* how many invalid answers there have been
  retried,   \* the prompt is repeated
  answers,   \* what the prompts of the SHM test returned
  typed,     \* the valid answers to them
  cleanup,   \* state.test_cleanup
  surface,   \* state_shm.surface has been made
  file,      \* the file descriptor shm_open has returned, -1 before
  fd,        \* state_shm.fd, -2 before
  retries,   \* names left to try
  ended      \* how the program ended

vars == <<globals, pc, eof, invalid, retried, answers, typed, cleanup, surface, file, fd, retries, ended>>

Init ==
  /\ globals \in Offered
  /\ pc = "start"
  /\ eof = FALSE /\ invalid = 0 /\ retried = FALSE
  /\ answers = <<>> /\ typed = <<>>
  /\ cleanup = "none"
  /\ surface = FALSE
  /\ file = -1 /\ fd = -2 /\ retries = Retries
  /\ ended = "no"

End(how) ==
  /\ pc' = "ended" /\ ended' = how
  /\ UNCHANGED <<globals, eof, invalid, retried, answers, typed, cleanup, surface, file, fd, retries>>

GoTo(label) == pc' = label /\ UNCHANGED ended

-----------------------------------------------------------------------------
(* wl_display_connect, then signal. *)
Connect ==
  /\ pc = "start"
  /\ GoTo("menu")
  /\ UNCHANGED <<globals, eof, invalid, retried, answers, typed, cleanup, surface, file, fd, retries>>

CannotConnect == pc = "start" /\ End("exit")

(* An answer that is not taken: the rest of the line goes, and the prompt calls
   itself.  At the end of the input it does so until the stack is full (the
   compiler is not asked to optimise). *)
Invalid ==
  /\ invalid < MaxInvalid
  /\ invalid' = invalid + 1
  /\ eof' \in BOOLEAN
  /\ UNCHANGED <<globals, pc, answers, typed, cleanup, surface, file, fd, retries, ended>>

StackFull == eof /\ End("crash")

Prompt == {"menu", "int", "bool"}

InvalidAnswer ==
  /\ pc \in {"menu", "int"} /\ ~eof
  /\ Invalid
  /\ retried' = (pc = "int")

(* A boolean is any character, so only the end of the input is invalid. *)
NoAnswer ==
  /\ pc = "bool" /\ ~eof
  /\ Invalid /\ eof'
  /\ retried' = TRUE

EndOfInput == pc \in Prompt /\ StackFull

(* Mutant: the cleanup of the SHM test is set for either. *)
MutChosenCleanup(n) == "shm_free"

ChosenCleanup(n) == IF n = 1 THEN "shm_free" ELSE "none"

(* wolfen_test_menu_input: 0 lists the globals, 1 is the SHM test. *)
ChooseTest(n) ==
  /\ pc = "menu" /\ ~eof /\ n \in {0, 1}
  /\ cleanup' = ChosenCleanup(n)
  /\ GoTo(IF n = 0 THEN "list" ELSE "int")
  /\ retried' = FALSE
  /\ UNCHANGED <<globals, eof, invalid, answers, typed, surface, file, fd, retries>>

(* Mutant: the menu comes back. *)
MutListGlobals ==
  /\ pc = "list"
  /\ GoTo("menu")
  /\ UNCHANGED <<globals, eof, invalid, retried, answers, typed, cleanup, surface, file, fd, retries>>

(* wolfen_test_lg_run, then no cleanup and wl_display_disconnect. *)
ListGlobals ==
  /\ pc = "list"
  /\ GoTo("disconnected")
  /\ UNCHANGED <<globals, eof, invalid, retried, answers, typed, cleanup, surface, file, fd, retries>>

Leave == pc = "disconnected" /\ End("exit")

-----------------------------------------------------------------------------
(* Mutant: the prompt repeated returns the answer to the one before. *)
MutReturned(n) == IF retried /\ answers # <<>> THEN answers[Len(answers)] ELSE n

(* A prompt that had to be repeated returns 0 whatever the answer. *)
Returned(n) == IF retried THEN 0 ELSE n

(* Width, height, scale and the two offsets. *)
AnswerInt(n) ==
  /\ pc = "int" /\ ~eof /\ n >= 0
  /\ answers' = Append(answers, Returned(n)) /\ typed' = Append(typed, n)
  /\ retried' = FALSE
  /\ GoTo(IF Len(answers') = 5 THEN "bool" ELSE "int")
  /\ UNCHANGED <<globals, eof, invalid, cleanup, surface, file, fd, retries>>

(* 1 for Y, 0 for any other character. *)
AnswerBool(n) ==
  /\ pc = "bool" /\ ~eof /\ n \in {0, 1}
  /\ answers' = Append(answers, n) /\ typed' = Append(typed, n)
  /\ GoTo("globals")
  /\ UNCHANGED <<globals, eof, invalid, retried, cleanup, surface, file, fd, retries>>

MissesGlobal == ~({"wl_compositor", "wl_shell"} \subseteq globals)

(* The globals are bound, the surface and its shell surface made. *)
CreateSurface ==
  /\ pc = "globals" /\ ~MissesGlobal
  /\ surface' = TRUE
  /\ GoTo("file")
  /\ UNCHANGED <<globals, eof, invalid, retried, answers, typed, cleanup, file, fd, retries>>

(* A request on the NULL a missing global has left. *)
CannotCreateSurface == pc = "globals" /\ MissesGlobal /\ End("crash")

LastTry == retries = 1

(* create_shm_file: shm_open opens the file, fails, or finds the name taken. *)
TryName ==
  /\ pc = "file"
  /\ retries' = retries - 1
  /\ \/ file' = 3 /\ GoTo("map")
     \/ UNCHANGED file /\ GoTo("map")
     \/ UNCHANGED file /\ ~LastTry /\ UNCHANGED <<pc, ended>>
  /\ UNCHANGED <<globals, eof, invalid, retried, answers, typed, cleanup, surface, fd>>

(* wolfen_test_shm_create_fd returns -1 whether or not there is a file, and the
   mmap of that fails. *)
CreateFd ==
  /\ pc = "map"
  /\ fd' = -1
  /\ GoTo("unmapped")
  /\ UNCHANGED <<globals, eof, invalid, retried, answers, typed, cleanup, surface, file, retries>>

MapFails == pc = "unmapped" /\ fd = -1 /\ End("exit")

-----------------------------------------------------------------------------
(* wolfen_test_cleanup, or SIGINT's default action before there is a handler.
   wolfen_test_shm_free destroys a surface that may not be made yet, and after
   the end of main's tests the display is freed. *)
CleanupFaults == (cleanup = "shm_free" /\ ~surface) \/ pc = "disconnected"

Interrupt ==
  /\ pc # "ended"
  /\ End(IF CleanupFaults THEN "crash" ELSE "quit")

Step ==
  \/ Connect \/ CannotConnect
  \/ InvalidAnswer \/ NoAnswer \/ EndOfInput
  \/ \E n \in Number : ChooseTest(n) \/ AnswerInt(n) \/ AnswerBool(n)
  \/ ListGlobals \/ Leave
  \/ CreateSurface \/ CannotCreateSurface \/ TryName \/ CreateFd \/ MapFails

Next == Step \/ Interrupt

(* The user answers, validly in the end; nobody needs to interrupt. *)
Spec == Init /\ [][Next]_vars /\ WF_vars(Step)

-----------------------------------------------------------------------------
(* An answer is lost only by an invalid one before it, and then it is 0: no more
   answers are wrong than were invalid. *)
AnswersKept ==
  /\ Len(answers) = Len(typed)
  /\ \A k \in 1..Len(answers) : answers[k] \in {0, typed[k]}
  /\ Cardinality({k \in 1..Len(answers) : answers[k] # typed[k]}) <= invalid

(* Interrupted in the menu, while it lists the globals or once the surface is
   made, the client quits. *)
QuitsOnInterrupt ==
  [][Interrupt /\ (pc \in {"menu", "list"} \/ surface) => ended' = "quit"]_vars

(* With an input that does not end, the client ends. *)
ClientEnds == [](~eof) => <>(pc = "ended")

=============================================================================

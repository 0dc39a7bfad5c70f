----------------------- MODULE WolfenTestClientProofs ------------------------
(***************************************************************************)
(* Whatever is typed, and however often it is invalid: the test client     *)
(* loses no more answers than were invalid, and an interrupt in the menu,  *)
(* in the list of globals or once there is a surface ends it in order.     *)
(***************************************************************************)
EXTENDS WolfenTestClient, FiniteSetTheorems, TLAPS

(* The type invariant. *)
Kinds ==
  /\ globals \in Offered
  /\ pc \in {"start", "menu", "list", "disconnected", "int", "bool", "globals", "file", "map",
             "unmapped", "ended"}
  /\ eof \in BOOLEAN /\ invalid \in 0..MaxInvalid /\ retried \in BOOLEAN
  /\ answers \in Seq(Int) /\ typed \in Seq(Number)
  /\ cleanup \in {"none", "shm_free"} /\ surface \in BOOLEAN
  /\ file \in {-1, 3} /\ fd \in {-2, -1}
  /\ retries \in 0..Retries
  /\ retries = 0 => pc \in {"map", "unmapped", "ended"}
  /\ ended \in {"no", "exit", "quit", "crash"}

(* The answers lost so far. *)
Lost == {k \in 1..Len(answers) : answers[k] # typed[k]}

(* Each answer is the one typed or a 0 that an invalid one has cost; the
   prompt that is being repeated is about to cost one more. *)
Counted ==
  /\ Len(answers) = Len(typed)
  /\ \A k \in 1..Len(answers) : answers[k] \in {0, typed[k]}
  /\ Cardinality(Lost) + (IF retried THEN 1 ELSE 0) <= invalid

(* The cleanup and the surface belong to the SHM test, which never comes back to
   the menu nor to the end of main. *)
Chosen == pc \in {"start", "menu", "list", "disconnected"} => cleanup = "none" /\ ~surface

ClientInv == Kinds /\ Counted /\ Chosen

-----------------------------------------------------------------------------
(* There are only so many answers. *)
LEMMA LostFinite ==
  ASSUME Kinds
  PROVE  IsFiniteSet(Lost) /\ Cardinality(Lost) \in Nat
<1>1. IsFiniteSet(1..Len(answers))
  BY FS_Interval DEF Kinds
<1>2. IsFiniteSet(Lost)
  BY <1>1, FS_Subset DEF Lost
<1> QED
  BY <1>2, FS_CardinalityType

(* What has nothing to do with answers keeps them. *)
LEMMA CountedKept ==
  ASSUME Kinds, Counted, UNCHANGED <<answers, typed>>,
         invalid' \in Nat, retried' \in BOOLEAN,
         \/ invalid' = invalid /\ (retried' => retried)
         \/ invalid' = invalid + 1
  PROVE  Counted'
<1>1. Lost' = Lost /\ Cardinality(Lost) \in Nat /\ invalid \in Nat /\ retried \in BOOLEAN
  BY LostFinite DEF Lost, Kinds
<1>2. Cardinality(Lost') = Cardinality(Lost)
  BY <1>1
<1>3. Cardinality(Lost') + (IF retried' THEN 1 ELSE 0) <= invalid'
  BY <1>1, <1>2 DEF Counted
<1> QED
  BY <1>3 DEF Counted

(* An answer is lost if the prompt was repeated, and then the repetition pays
   for it. *)
LEMMA AnswerCounts ==
  ASSUME ClientInv, NEW n \in Number, NEW r \in {0, n},
         answers' = Append(answers, r), typed' = Append(typed, n),
         invalid' = invalid, retried' \in BOOLEAN,
         r # n => retried,
         (retried' => retried) /\ (r # n => ~retried')
  PROVE  Counted'
<1> DEFINE new == Len(answers) + 1
<1>1. /\ answers \in Seq(Int) /\ typed \in Seq(Number) /\ Len(answers) = Len(typed)
      /\ invalid \in Nat /\ retried \in BOOLEAN /\ new \in Nat \ {0}
      /\ n \in Int /\ r \in Int
  BY TestClientAssumption DEF ClientInv, Kinds, Counted
<1>2. /\ Len(answers') = new /\ Len(typed') = new
      /\ answers'[new] = r /\ typed'[new] = n
      /\ \A k \in 1..Len(answers) : answers'[k] = answers[k] /\ typed'[k] = typed[k]
  BY <1>1
<1>3. \A k \in 1..new : k = new \/ k \in 1..Len(answers)
  BY <1>1
<1>4. \A k \in 1..Len(answers') : answers'[k] \in {0, typed'[k]}
  BY <1>2, <1>3 DEF ClientInv, Counted
<1>5. Cardinality(Lost') = Cardinality(Lost) + (IF r # n THEN 1 ELSE 0)
  <2>1. new \notin Lost /\ IsFiniteSet(Lost)
    BY <1>1, LostFinite DEF Lost, ClientInv
  <2>2. /\ r # n => Lost' = Lost \cup {new}
        /\ r = n => Lost' = Lost
    <3>1. \A k \in 1..Len(answers) : k \in Lost' <=> k \in Lost
      BY <1>1, <1>2 DEF Lost
    <3>2. new \in Lost' <=> r # n
      BY <1>1, <1>2 DEF Lost
    <3>3. Lost' \subseteq 1..new /\ Lost \subseteq 1..Len(answers)
      BY <1>2 DEF Lost
    <3>4. new \notin 1..Len(answers)
      BY <1>1
    <3> HIDE DEF new
    <3> QED
      BY <1>3, <3>1, <3>2, <3>3, <3>4
  <2>3. Cardinality(Lost \cup {new}) = Cardinality(Lost) + 1
    BY <2>1, FS_AddElement
  <2>4. Cardinality(Lost) \in Nat
    BY LostFinite DEF ClientInv
  <2>5. CASE r # n
    BY <2>2, <2>3, <2>5
  <2>6. CASE r = n
    <3>1. Cardinality(Lost') = Cardinality(Lost)
      BY <2>2, <2>6
    <3> QED
      BY <2>4, <2>6, <3>1
  <2> QED
    BY <2>5, <2>6
<1>6. Cardinality(Lost') + (IF retried' THEN 1 ELSE 0) <= invalid'
  <2>1. Cardinality(Lost) \in Nat /\ Cardinality(Lost) + (IF retried THEN 1 ELSE 0) <= invalid
    BY LostFinite DEF ClientInv, Counted
  <2>2. CASE r # n
    BY <1>1, <1>5, <2>1, <2>2
  <2>3. CASE r = n
    BY <1>1, <1>5, <2>1, <2>3
  <2> QED
    BY <2>2, <2>3
<1> QED
  BY <1>2, <1>4, <1>6 DEF Counted

(* The constants of the program are of their kind at the start. *)
LEMMA ClientInvInit == Init => ClientInv
<1> SUFFICES ASSUME Init PROVE ClientInv
  OBVIOUS
<1>1. Kinds
  <2>1. 0 \in 0..MaxInvalid /\ Retries \in 0..Retries /\ Retries # 0
    BY TestClientAssumption
  <2>2. answers \in Seq(Int) /\ typed \in Seq(Number)
    BY DEF Init
  <2>3. eof \in BOOLEAN /\ retried \in BOOLEAN /\ surface \in BOOLEAN
    BY DEF Init
  <2>4. /\ globals \in Offered /\ pc = "start" /\ invalid = 0 /\ cleanup = "none"
        /\ file = -1 /\ fd = -2 /\ retries = Retries /\ ended = "no"
    BY DEF Init
  <2> QED
    BY <2>1, <2>2, <2>3, <2>4 DEF Kinds
<1>2. Counted
  <2>1. Lost = {}
    BY DEF Init, Lost
  <2>2. Cardinality(Lost) = 0
    BY <2>1, FS_EmptySet
  <2>3. answers = <<>> /\ typed = <<>> /\ ~retried /\ invalid = 0
    BY DEF Init
  <2>4. Len(answers) = 0 /\ Len(typed) = 0 /\ 1..Len(answers) = {}
    BY <2>3
  <2>5. (IF retried THEN 1 ELSE 0) = 0
    BY <2>3
  <2>6. Cardinality(Lost) + (IF retried THEN 1 ELSE 0) <= invalid
    BY <2>2, <2>3, <2>5
  <2> QED
    <3>1. \A k \in 1..Len(answers) : answers[k] \in {0, typed[k]}
      BY <2>4
    <3>2. Len(answers) = Len(typed)
      BY <2>4
    <3> QED
      BY <2>6, <3>1, <3>2 DEF Counted
<1> QED
  BY <1>1, <1>2 DEF Init, Chosen, ClientInv


(* The actions that keep the answers. *)
LEMMA StepKeepsAnswers ==
  ASSUME ClientInv,
         \/ Connect \/ CannotConnect \/ InvalidAnswer \/ NoAnswer \/ EndOfInput
         \/ ListGlobals \/ Leave \/ CreateSurface \/ CannotCreateSurface
         \/ TryName \/ CreateFd \/ MapFails \/ Interrupt
         \/ \E n \in Number : ChooseTest(n)
  PROVE  ClientInv'
<1> USE DEF ClientInv, End, GoTo
<1>1. invalid \in 0..MaxInvalid /\ MaxInvalid \in Nat /\ retries \in 0..Retries /\ Retries \in Nat \ {0}
  BY TestClientAssumption DEF Kinds
<1>2. CASE Connect
  <2>1. Kinds' /\ Chosen'
    BY <1>2 DEF Connect, Kinds, Chosen
  <2> QED
    BY <1>2, <2>1, CountedKept DEF Connect, Kinds
<1>3. CASE CannotConnect \/ EndOfInput \/ Leave \/ CannotCreateSurface \/ MapFails \/ Interrupt
  <2>1. /\ pc' = "ended" /\ ended' \in {"exit", "quit", "crash"}
        /\ UNCHANGED <<globals, eof, invalid, retried, answers, typed, cleanup, surface, file, fd, retries>>
    BY <1>3 DEF CannotConnect, EndOfInput, StackFull, Leave, CannotCreateSurface, MapFails, Interrupt
  <2>2. Kinds' /\ Chosen'
    BY <2>1 DEF Kinds, Chosen
  <2> QED
    BY <2>1, <2>2, CountedKept DEF Kinds
<1>4. CASE InvalidAnswer \/ NoAnswer
  <2>1. /\ invalid < MaxInvalid /\ invalid' = invalid + 1
        /\ eof' \in BOOLEAN /\ retried' \in BOOLEAN
        /\ UNCHANGED <<globals, pc, answers, typed, cleanup, surface, file, fd, retries, ended>>
    BY <1>4 DEF InvalidAnswer, NoAnswer, Invalid
  <2>2. invalid' \in 0..MaxInvalid
    BY <1>1, <2>1
  <2>3. Kinds' /\ Chosen'
    BY <2>1, <2>2 DEF Kinds, Chosen
  <2> QED
    BY <2>1, <2>2, <2>3, CountedKept
<1>5. ASSUME NEW n \in Number, ChooseTest(n) PROVE ClientInv'
  <2>1. /\ pc = "menu" /\ pc' \in {"list", "int"} /\ cleanup' \in {"none", "shm_free"}
        /\ pc' = "list" => cleanup' = "none"
        /\ retried' = FALSE
        /\ UNCHANGED <<globals, eof, invalid, answers, typed, surface, file, fd, retries, ended>>
    BY <1>5 DEF ChooseTest, ChosenCleanup
  <2>2. Kinds' /\ Chosen'
    BY <2>1 DEF Kinds, Chosen
  <2> QED
    BY <2>1, <2>2, CountedKept DEF Kinds
<1>6. CASE ListGlobals
  <2>1. Kinds' /\ Chosen'
    BY <1>6 DEF ListGlobals, Kinds, Chosen
  <2> QED
    BY <1>6, <2>1, CountedKept DEF ListGlobals, Kinds
<1>7. CASE CreateSurface
  <2>1. Kinds' /\ Chosen'
    BY <1>7 DEF CreateSurface, Kinds, Chosen
  <2> QED
    BY <1>7, <2>1, CountedKept DEF CreateSurface, Kinds
<1>8. CASE TryName
  <2>1. /\ pc' \in {"file", "map"} /\ file' \in {-1, 3} /\ ended' = ended
        /\ UNCHANGED <<globals, eof, invalid, retried, answers, typed, cleanup, surface, fd>>
        /\ retries' \in 0..Retries
        /\ retries' = 0 => pc' = "map"
    BY <1>1, <1>8 DEF TryName, LastTry, Kinds
  <2>2. Kinds' /\ Chosen'
    BY <2>1 DEF Kinds, Chosen
  <2> QED
    BY <2>1, <2>2, CountedKept DEF Kinds
<1>9. CASE CreateFd
  <2>1. Kinds' /\ Chosen'
    BY <1>9 DEF CreateFd, Kinds, Chosen
  <2> QED
    BY <1>9, <2>1, CountedKept DEF CreateFd, Kinds
<1> QED
  BY <1>2, <1>3, <1>4, <1>5, <1>6, <1>7, <1>8, <1>9


(* AnswerInt: 0 if the prompt was repeated. *)
LEMMA AnswerIntKeeps ==
  ASSUME ClientInv, NEW n \in Number, AnswerInt(n)
  PROVE  ClientInv'
<1> USE DEF ClientInv, GoTo
<1>1. /\ pc = "int" /\ pc' \in {"int", "bool"}
      /\ answers' = Append(answers, Returned(n)) /\ typed' = Append(typed, n)
      /\ ~retried'
      /\ UNCHANGED <<globals, eof, invalid, cleanup, surface, file, fd, retries, ended>>
  BY DEF AnswerInt
<1>2. Returned(n) \in {0, n} /\ (Returned(n) # n => retried)
  BY DEF Returned, Kinds
<1>3. answers' \in Seq(Int) /\ typed' \in Seq(Number)
  BY <1>1, <1>2, TestClientAssumption DEF Kinds
<1>4. retried' \in BOOLEAN
  BY DEF AnswerInt
<1>5. Kinds' /\ Chosen'
  BY <1>1, <1>3, <1>4 DEF Kinds, Chosen
<1>6. Counted'
  BY <1>1, <1>2, <1>4, AnswerCounts
<1> QED
  BY <1>5, <1>6

(* AnswerBool returns what was typed. *)
LEMMA AnswerBoolKeeps ==
  ASSUME ClientInv, NEW n \in Number, AnswerBool(n)
  PROVE  ClientInv'
<1> USE DEF ClientInv, GoTo
<1>1. /\ pc = "bool" /\ pc' = "globals"
      /\ answers' = Append(answers, n) /\ typed' = Append(typed, n)
      /\ UNCHANGED <<globals, eof, invalid, retried, cleanup, surface, file, fd, retries, ended>>
  BY DEF AnswerBool
<1>2. answers' \in Seq(Int) /\ typed' \in Seq(Number)
  BY <1>1, TestClientAssumption DEF Kinds
<1>3. Kinds' /\ Chosen'
  BY <1>1, <1>2 DEF Kinds, Chosen
<1>4. retried' = retried /\ retried' \in BOOLEAN
  BY <1>1 DEF Kinds
<1>5. Counted'
  BY <1>1, <1>4, AnswerCounts
<1> QED
  BY <1>3, <1>5

LEMMA ClientInvStep == ClientInv /\ [Next]_vars => ClientInv'
<1> SUFFICES ASSUME ClientInv, [Next]_vars PROVE ClientInv'
  OBVIOUS
<1>1. CASE Step
  BY <1>1, StepKeepsAnswers, AnswerIntKeeps, AnswerBoolKeeps DEF Step
<1>2. CASE Interrupt
  BY <1>2, StepKeepsAnswers
<1>3. CASE UNCHANGED vars
  BY <1>3 DEF vars, ClientInv, Kinds, Counted, Chosen, Lost
<1> QED
  BY <1>1, <1>2, <1>3 DEF Next

(* The invariant: of each answer whether it was lost, and of the test whether
   it has anything to clean up. *)
THEOREM ClientInvariance == Spec => []ClientInv
  BY ClientInvInit, ClientInvStep, PTL DEF Spec

(* wolfen_test_ask_for_int loses an answer only to an invalid one: however often
   it has called itself, no more answers are wrong than were invalid, and each
   of those is 0. *)
THEOREM AnswersAreKept == Spec => []AnswersKept
<1>1. ClientInv => AnswersKept
  <2> SUFFICES ASSUME ClientInv PROVE AnswersKept
    OBVIOUS
  <2>1. Cardinality(Lost) \in Nat /\ invalid \in Nat
    BY LostFinite DEF ClientInv, Kinds
  <2>2. Cardinality(Lost) <= invalid
    BY <2>1 DEF ClientInv, Counted
  <2> QED
    BY <2>2 DEF ClientInv, Counted, AnswersKept, Lost
<1> QED
  BY <1>1, ClientInvariance, PTL

(* wolfen_test_cleanup has a surface to destroy, or nothing, in the menu, in the
   list of globals and once the surface is made; and the connection is there. *)
THEOREM InterruptQuits == Spec => QuitsOnInterrupt
<1> DEFINE Quits == Interrupt /\ (pc \in {"menu", "list"} \/ surface) => ended' = "quit"
<1>1. ClientInv /\ [Next]_vars => [Quits]_vars
  <2> SUFFICES ASSUME ClientInv, Interrupt, pc \in {"menu", "list"} \/ surface PROVE ended' = "quit"
    OBVIOUS
  <2>1. ~CleanupFaults
    BY DEF CleanupFaults, ClientInv, Chosen
  <2> QED
    BY <2>1 DEF Interrupt, End
<1> QED
  BY <1>1, ClientInvariance, PTL DEF Spec, QuitsOnInterrupt

=============================================================================

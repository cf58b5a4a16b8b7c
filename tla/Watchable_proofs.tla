--------------------------- MODULE Watchable_proofs ---------------------------
(***************************************************************************)
(* Proofs about Watchable, for any number of listeners and any depth.       *)
(*                                                                         *)
(* What holds when nothing is under way is decided earlier, while callbacks *)
(* wait: the invariant says of every moment why the flag and the listeners  *)
(* may disagree, and which calls had to run for two callbacks of a kind to  *)
(* be under way together.                                                   *)
(***************************************************************************)
EXTENDS Watchable, TLAPS

Holds(s, frame) == \E i \in DOMAIN s : s[i] = frame
Twice(s, frame) == \E i, j \in DOMAIN s : i # j /\ s[i] = frame /\ s[j] = frame

(* Listeners without a setup: OnSetup waits, or raised, or they came while   *)
(* OnClose waited.  And nobody with a setup: likewise.                       *)
FlagInv ==
  /\ Count > 0 /\ ~isSetup => setupRaised \/ someInClose \/ Holds(stack, "setup")
  /\ Count = 0 /\ isSetup => closeRaised \/ noneInSetup \/ Holds(stack, "close")

\* A callback was called for the listeners there were; if that is no longer so,
\* a call came while it waited.
CallbackInv ==
  /\ Count > 0 /\ Holds(stack, "close") => someInClose
  /\ Count = 0 /\ Holds(stack, "setup") => noneInSetup

\* Two callbacks of a kind, or one the flag does not wait for.
OnceInv ==
  /\ Twice(stack, "setup") \/ (isSetup /\ Holds(stack, "setup")) => someInSetup
  /\ Twice(stack, "close") \/ (~isSetup /\ Holds(stack, "close")) => noneInClose

Inv == TypeOK /\ FlagInv /\ CallbackInv /\ OnceInv
-----------------------------------------------------------------------------
(* Stacks. *)

\* What a stack holds when a frame is put on top.
LEMMA Push ==
  ASSUME NEW s \in Seq(Frames), NEW f \in Frames
  PROVE  /\ Append(s, f) \in Seq(Frames) /\ Len(Append(s, f)) = Len(s) + 1
         /\ \A g \in Frames : Holds(Append(s, f), g) <=> Holds(s, g) \/ f = g
         /\ \A g \in Frames : Twice(Append(s, f), g) <=> Twice(s, g) \/ (f = g /\ Holds(s, g))
<1> DEFINE t == Append(s, f)
<1>1. /\ t \in Seq(Frames) /\ Len(t) = Len(s) + 1 /\ DOMAIN t = DOMAIN s \cup {Len(s) + 1}
      /\ Len(s) + 1 \notin DOMAIN s /\ t[Len(s) + 1] = f /\ \A i \in DOMAIN s : t[i] = s[i]
  OBVIOUS
<1> HIDE DEF t
<1>2. \A g \in Frames : Holds(t, g) <=> Holds(s, g) \/ f = g
  BY <1>1 DEF Holds
<1>3. ASSUME NEW g \in Frames PROVE Twice(t, g) <=> Twice(s, g) \/ (f = g /\ Holds(s, g))
  <2>1. ASSUME Twice(t, g) PROVE Twice(s, g) \/ (f = g /\ Holds(s, g))
    BY <1>1, <2>1 DEF Holds, Twice
  <2>2. ASSUME Twice(s, g) PROVE Twice(t, g)
    BY <1>1, <2>2 DEF Twice
  <2>3. ASSUME f = g, Holds(s, g) PROVE Twice(t, g)
    <3>1. PICK i \in DOMAIN s : s[i] = g
      BY <2>3 DEF Holds
    <3>2. i \in DOMAIN t /\ Len(s) + 1 \in DOMAIN t /\ i # Len(s) + 1 /\ t[i] = g /\ t[Len(s) + 1] = g
      BY <1>1, <2>3, <3>1
    <3> QED
      BY <3>2 DEF Twice
  <2> QED
    BY <2>1, <2>2, <2>3
<1> QED
  BY <1>1, <1>2, <1>3 DEF t

\* What is left of a stack when its top is taken off.
LEMMA Pop ==
  ASSUME NEW s \in Seq(Frames), s # <<>>, NEW f \in Frames, Last(s) = f
  PROVE  /\ Front(s) \in Seq(Frames) /\ Len(Front(s)) = Len(s) - 1
         /\ Holds(s, f)
         /\ \A g \in Frames : Holds(s, g) <=> Holds(Front(s), g) \/ f = g
         /\ \A g \in Frames : Twice(s, g) <=> Twice(Front(s), g) \/ (f = g /\ Holds(Front(s), g))
<1>1. Len(s) \in Nat \ {0} /\ DOMAIN s = 1 .. Len(s) /\ Last(s) = s[Len(s)]
  BY DEF Last
<1>2. Front(s) = SubSeq(s, 1, Len(s) - 1)
  BY DEF Front
<1>3. Front(s) \in Seq(Frames) /\ Len(Front(s)) = Len(s) - 1
  BY <1>1, <1>2
<1>4. s = Append(Front(s), f)
  <2> DEFINE F == Front(s)
  <2>1. F \in Seq(Frames) /\ Len(F) = Len(s) - 1 /\ \A i \in 1 .. Len(s) - 1 : F[i] = s[i]
    BY <1>1, <1>2, <1>3
  <2> HIDE DEF F
  <2>2. /\ Append(F, f) \in Seq(Frames) /\ Len(Append(F, f)) = Len(F) + 1 /\ Append(F, f)[Len(F) + 1] = f
        /\ \A i \in 1 .. Len(F) : Append(F, f)[i] = F[i]
    BY <2>1
  <2>3. Len(F) + 1 = Len(s) /\ \A i \in 1 .. Len(s) : i = Len(s) \/ i \in 1 .. Len(s) - 1
    <3>1. \A n \in Nat \ {0} : \A m : m = n - 1 => m + 1 = n /\ \A i \in 1 .. n : i = n \/ i \in 1 .. n - 1
      OBVIOUS
    <3>2. Len(s) \in Nat \ {0}
      BY <1>1
    <3> QED
      BY <2>1, <3>1, <3>2
  <2>4. \A i \in 1 .. Len(s) : Append(F, f)[i] = s[i]
    BY <1>1, <2>1, <2>2, <2>3
  <2>5. s = Append(F, f)
    BY <2>2, <2>3, <2>4
  <2> QED
    BY <2>5 DEF F
<1>5. /\ \A g \in Frames : Holds(s, g) <=> Holds(Front(s), g) \/ f = g
      /\ \A g \in Frames : Twice(s, g) <=> Twice(Front(s), g) \/ (f = g /\ Holds(Front(s), g))
  <2> DEFINE t == Front(s)
  <2>1. t \in Seq(Frames) /\ s = Append(t, f)
    BY <1>3, <1>4
  <2> HIDE DEF t
  <2>2. /\ \A g \in Frames : Holds(s, g) <=> Holds(t, g) \/ f = g
        /\ \A g \in Frames : Twice(s, g) <=> Twice(t, g) \/ (f = g /\ Holds(t, g))
    BY <2>1, Push
  <2> QED
    BY <2>2 DEF t
<1> QED
  BY <1>3, <1>5
-----------------------------------------------------------------------------
\* Nothing is under way at the start.
LEMMA InitInv == Init => Inv
<1> SUFFICES ASSUME Init PROVE Inv
  OBVIOUS
<1>1. TypeOK
  <2>1. 0 \in 0 .. MaxTasks /\ <<>> \in Seq(Frames) /\ Len(<<>>) = 0 /\ 0 <= MaxDepth
    BY BoundsAssumption
  <2> QED
    BY <2>1 DEF Init, TypeOK
<1>2. stack = <<>> /\ Count = 0 /\ ~isSetup
  BY DEF Init, Count
<1>3. \A f \in Frames : ~Holds(stack, f) /\ ~Twice(stack, f)
  BY <1>2 DEF Holds, Twice
<1> QED
  BY <1>1, <1>2, <1>3 DEF Inv, FlagInv, CallbackInv, OnceInv, Frames

\* What a stack holds in the states of a step, as far as the invariant speaks of it.
LEMMA StackStep ==
  ASSUME NEW s \in Seq(Frames), NEW t \in Seq(Frames), NEW f \in Frames,
         t = Append(s, f) \/ (t # <<>> /\ Last(t) = f /\ s = Front(t))
  PROVE  /\ f = "setup" => /\ Holds(t, "setup") /\ (Holds(t, "close") <=> Holds(s, "close"))
                           /\ (Twice(t, "setup") <=> Twice(s, "setup") \/ Holds(s, "setup"))
                           /\ (Twice(t, "close") <=> Twice(s, "close"))
         /\ f = "close" => /\ Holds(t, "close") /\ (Holds(t, "setup") <=> Holds(s, "setup"))
                           /\ (Twice(t, "close") <=> Twice(s, "close") \/ Holds(s, "close"))
                           /\ (Twice(t, "setup") <=> Twice(s, "setup"))
         /\ f = "trigger" => /\ (Holds(t, "setup") <=> Holds(s, "setup")) /\ (Holds(t, "close") <=> Holds(s, "close"))
                             /\ (Twice(t, "setup") <=> Twice(s, "setup")) /\ (Twice(t, "close") <=> Twice(s, "close"))
<1>1. /\ \A g \in Frames : Holds(t, g) <=> Holds(s, g) \/ f = g
      /\ \A g \in Frames : Twice(t, g) <=> Twice(s, g) \/ (f = g /\ Holds(s, g))
  <2>1. CASE t = Append(s, f)
    BY <2>1, Push
  <2>2. CASE t # <<>> /\ Last(t) = f /\ s = Front(t)
    BY <2>2, Pop
  <2> QED
    BY <2>1, <2>2
<1>2. "setup" \in Frames /\ "close" \in Frames /\ "trigger" \in Frames
  BY DEF Frames
<1> QED
  BY <1>1, <1>2

\* A call of AddTask... or RemoveTask... that leaves `count' listeners.
LEMMA ChangedStep ==
  ASSUME Inv, ProgramRuns, NEW count \in Nat, Changed(count), Count' = count, isSetup' = isSetup,
         funcs' \in 0 .. MaxTasks, onceFuncs' \in 0 .. MaxTasks
  PROVE  Inv'
<1>1. stack \in Seq(Frames) /\ Len(stack) < MaxDepth /\ MaxDepth \in Nat /\ isSetup \in BOOLEAN /\ Count \in Nat
  BY BoundsAssumption DEF Inv, TypeOK, ProgramRuns, Count
<1>2. \/ count > 0 /\ ~isSetup /\ stack' = Append(stack, "setup")
      \/ count = 0 /\ isSetup /\ stack' = Append(stack, "close")
      \/ (count = 0 \/ isSetup) /\ (count # 0 \/ ~isSetup) /\ stack' = stack
  BY DEF Changed, Check
<1>3. "setup" \in Frames /\ "close" \in Frames
  BY DEF Frames
<1>4. stack' \in Seq(Frames) /\ Len(stack') <= MaxDepth
  BY <1>1, <1>2, <1>3, Push
<1>5. TypeOK'
  BY <1>1, <1>4 DEF TypeOK, Inv, Changed, LeavesSome, LeavesNone
<1>6. Outermost => /\ ~Holds(stack, "setup") /\ ~Holds(stack, "close")
                   /\ ~Twice(stack, "setup") /\ ~Twice(stack, "close")
  BY DEF Outermost, Holds, Twice
<1>7. /\ (Holds(stack, "setup") <=> Waits("setup")) /\ (Holds(stack, "close") <=> Waits("close"))
      /\ (count > 0 <=> count # 0)
  BY DEF Holds, Waits
<1>8. /\ (stack' = Append(stack, "setup") =>
            /\ Holds(stack', "setup") /\ (Holds(stack', "close") <=> Holds(stack, "close"))
            /\ (Twice(stack', "setup") <=> Twice(stack, "setup") \/ Holds(stack, "setup"))
            /\ (Twice(stack', "close") <=> Twice(stack, "close")))
      /\ (stack' = Append(stack, "close") =>
            /\ Holds(stack', "close") /\ (Holds(stack', "setup") <=> Holds(stack, "setup"))
            /\ (Twice(stack', "close") <=> Twice(stack, "close") \/ Holds(stack, "close"))
            /\ (Twice(stack', "setup") <=> Twice(stack, "setup")))
  BY <1>1, <1>3, <1>4, StackStep
<1>9. LeavesSome(count > 0) /\ LeavesNone(count = 0)
  BY DEF Changed
<1>10. FlagInv'
  BY <1>2, <1>6, <1>7, <1>8, <1>9 DEF Inv, FlagInv, LeavesSome, LeavesNone
<1>11. CallbackInv'
  BY <1>2, <1>6, <1>7, <1>8, <1>9 DEF Inv, CallbackInv, LeavesSome, LeavesNone
<1>12. OnceInv'
  BY <1>2, <1>6, <1>7, <1>8, <1>9 DEF Inv, OnceInv, LeavesSome, LeavesNone
<1> QED
  BY <1>5, <1>10, <1>11, <1>12 DEF Inv

\* A callback that is over is taken off the stack.
LEMMA CallbackStep ==
  ASSUME Inv, SetupReturns \/ SetupRaises \/ CloseReturns \/ CloseRaises
  PROVE  Inv'
<1>1. stack \in Seq(Frames) /\ Len(stack) <= MaxDepth /\ MaxDepth \in Nat /\ stack # <<>> /\ stack' = Front(stack)
  BY BoundsAssumption DEF Inv, TypeOK, On, SetupReturns, SetupRaises, CloseReturns, CloseRaises
<1>2. "setup" \in Frames /\ "close" \in Frames
  BY DEF Frames
<1>3. (SetupReturns \/ SetupRaises => Last(stack) = "setup") /\ (CloseReturns \/ CloseRaises => Last(stack) = "close")
  BY DEF SetupReturns, SetupRaises, CloseReturns, CloseRaises, On
<1>4. stack' \in Seq(Frames) /\ Len(stack') <= MaxDepth
  <2>1. stack' \in Seq(Frames) /\ Len(stack') = Len(stack) - 1
    BY <1>1, <1>2, <1>3, Pop
  <2> QED
    BY <1>1, <2>1
<1>5. TypeOK' /\ Count' = Count
  BY <1>4 DEF Inv, TypeOK, SetupReturns, SetupRaises, CloseReturns, CloseRaises, Count, someVars, noneVars
<1>6. CASE SetupReturns \/ SetupRaises
  <2>1. /\ Holds(stack, "setup") /\ (Holds(stack, "close") <=> Holds(stack', "close"))
        /\ (Twice(stack, "setup") <=> Twice(stack', "setup") \/ Holds(stack', "setup"))
        /\ (Twice(stack, "close") <=> Twice(stack', "close"))
    BY <1>1, <1>2, <1>3, <1>4, <1>6, StackStep
  <2> QED
    BY <1>5, <1>6, <2>1 DEF Inv, FlagInv, CallbackInv, OnceInv, SetupReturns, SetupRaises, someVars, noneVars
<1>7. CASE CloseReturns \/ CloseRaises
  <2>1. /\ Holds(stack, "close") /\ (Holds(stack, "setup") <=> Holds(stack', "setup"))
        /\ (Twice(stack, "close") <=> Twice(stack', "close") \/ Holds(stack', "close"))
        /\ (Twice(stack, "setup") <=> Twice(stack', "setup"))
    BY <1>1, <1>2, <1>3, <1>4, <1>7, StackStep
  <2> QED
    BY <1>5, <1>7, <2>1 DEF Inv, FlagInv, CallbackInv, OnceInv, CloseReturns, CloseRaises, someVars, noneVars
<1> QED
  BY <1>6, <1>7

\* A Trigger begins with listeners and ends with the permanent ones only.
LEMMA TriggerStep ==
  ASSUME Inv, Trigger \/ TriggerNobody \/ TriggerEnds
  PROVE  Inv'
<1>1. stack \in Seq(Frames) /\ Len(stack) <= MaxDepth /\ MaxDepth \in Nat /\ Count \in Nat
      /\ (funcs > 0 => Count > 0) /\ funcs \in Nat
  BY BoundsAssumption DEF Inv, TypeOK, Count
<1>2. "setup" \in Frames /\ "close" \in Frames /\ "trigger" \in Frames
  BY DEF Frames
<1>3. CASE Trigger
  <2>1. Len(stack) < MaxDepth /\ stack' = Append(stack, "trigger") /\ Count' = Count
    BY <1>3 DEF Trigger, ProgramRuns, Count
  <2>2. stack' \in Seq(Frames) /\ Len(stack') <= MaxDepth
    BY <1>1, <1>2, <2>1, Push
  <2>3. /\ (Holds(stack', "setup") <=> Holds(stack, "setup")) /\ (Holds(stack', "close") <=> Holds(stack, "close"))
        /\ (Twice(stack', "setup") <=> Twice(stack, "setup")) /\ (Twice(stack', "close") <=> Twice(stack, "close"))
    BY <1>1, <1>2, <2>1, <2>2, StackStep
  <2>4. TypeOK'
    BY <1>3, <2>2 DEF Inv, TypeOK, Trigger, someVars, noneVars
  <2> QED
    BY <1>3, <2>1, <2>3, <2>4 DEF Inv, FlagInv, CallbackInv, OnceInv, Trigger, someVars, noneVars
<1>4. CASE TriggerNobody
  <2>1. /\ Len(stack) < MaxDepth /\ Count = 0 /\ Count' = 0
        /\ \/ isSetup /\ stack' = Append(stack, "close")
           \/ ~isSetup /\ stack' = stack
    BY <1>4 DEF TriggerNobody, ProgramRuns, Count, Check
  <2>2. stack' \in Seq(Frames) /\ Len(stack') <= MaxDepth
    BY <1>1, <1>2, <2>1, Push
  <2>3. stack' = Append(stack, "close") =>
          /\ Holds(stack', "close") /\ (Holds(stack', "setup") <=> Holds(stack, "setup"))
          /\ (Twice(stack', "close") <=> Twice(stack, "close") \/ Holds(stack, "close"))
          /\ (Twice(stack', "setup") <=> Twice(stack, "setup"))
    BY <1>1, <1>2, <2>2, StackStep
  <2>4. TypeOK'
    BY <1>4, <2>2 DEF Inv, TypeOK, TriggerNobody, LeavesNone, someVars
  <2>5. Outermost => /\ ~Holds(stack, "setup") /\ ~Holds(stack, "close")
                     /\ ~Twice(stack, "setup") /\ ~Twice(stack, "close")
    BY DEF Outermost, Holds, Twice
  <2>6. (Holds(stack, "setup") <=> Waits("setup")) /\ (Holds(stack, "close") <=> Waits("close"))
    BY DEF Holds, Waits
  <2>7. LeavesNone(TRUE) /\ UNCHANGED <<isSetup, setupRaised, someInSetup, someInClose>>
    BY <1>4 DEF TriggerNobody, someVars
  <2> QED
    <3>1. FlagInv'
      BY <2>1, <2>3, <2>5, <2>6, <2>7 DEF Inv, FlagInv, LeavesNone
    <3>2. CallbackInv'
      <4>1. ~(Count' > 0) /\ (Holds(stack', "setup") => Holds(stack, "setup"))
        BY <2>1, <2>3
      <4>2. Waits("setup") => noneInSetup'
        BY <2>7 DEF LeavesNone
      <4> QED
        BY <2>6, <4>1, <4>2 DEF CallbackInv
    <3>3. OnceInv'
      BY <2>1, <2>3, <2>5, <2>6, <2>7 DEF Inv, OnceInv, LeavesNone
    <3> QED
      BY <2>4, <3>1, <3>2, <3>3 DEF Inv
<1>5. CASE TriggerEnds
  <2> DEFINE below == Front(stack)
  <2>1. /\ stack # <<>> /\ Last(stack) = "trigger" /\ Count' = funcs
        /\ \/ funcs = 0 /\ isSetup /\ stack' = Append(below, "close")
           \/ (funcs # 0 \/ ~isSetup) /\ stack' = below
    <3>1. On("trigger") /\ Check(funcs, TRUE, Front(stack)) /\ funcs' = funcs /\ onceFuncs' = 0
      BY <1>5 DEF TriggerEnds
    <3>2. Count' = funcs
      BY <1>1, <3>1 DEF Count
    <3> QED
      BY <3>1, <3>2 DEF On, Check
  <2>2. below \in Seq(Frames) /\ Len(below) = Len(stack) - 1
    BY <1>1, <1>2, <2>1, Pop
  <2>3. /\ (Holds(stack, "setup") <=> Holds(below, "setup")) /\ (Holds(stack, "close") <=> Holds(below, "close"))
        /\ (Twice(stack, "setup") <=> Twice(below, "setup")) /\ (Twice(stack, "close") <=> Twice(below, "close"))
    BY <1>1, <1>2, <2>1, <2>2, StackStep
  <2> HIDE DEF below
  <2>4. stack' \in Seq(Frames) /\ Len(stack') <= MaxDepth
    BY <1>1, <1>2, <2>1, <2>2, Push
  <2>5. stack' = Append(below, "close") =>
          /\ Holds(stack', "close") /\ (Holds(stack', "setup") <=> Holds(below, "setup"))
          /\ (Twice(stack', "close") <=> Twice(below, "close") \/ Holds(below, "close"))
          /\ (Twice(stack', "setup") <=> Twice(below, "setup"))
    BY <1>2, <2>2, <2>4, StackStep
  <2>6. TypeOK'
    <3>1. 0 \in 0 .. MaxTasks
      BY BoundsAssumption
    <3> QED
      BY <1>5, <2>4, <3>1 DEF Inv, TypeOK, TriggerEnds, someVars
  <2>7. (Holds(stack, "setup") <=> Waits("setup")) /\ (Holds(stack, "close") <=> Waits("close"))
    BY DEF Holds, Waits
  <2>8. /\ UNCHANGED <<isSetup, setupRaised, closeRaised, someInSetup, someInClose>>
        /\ noneInSetup' = (noneInSetup \/ (funcs = 0 /\ Waits("setup")))
        /\ noneInClose' = (noneInClose \/ (funcs = 0 /\ Waits("close")))
    BY <1>5 DEF TriggerEnds, someVars
  <2>9. (funcs > 0 <=> funcs # 0) /\ (funcs > 0 => Count > 0)
    BY <1>1
  <2>10. FlagInv'
    BY <2>1, <2>3, <2>5, <2>7, <2>8, <2>9 DEF Inv, FlagInv
  <2>11. CallbackInv'
    BY <2>1, <2>3, <2>5, <2>7, <2>8, <2>9 DEF Inv, CallbackInv
  <2>12. OnceInv'
    BY <2>1, <2>3, <2>5, <2>7, <2>8, <2>9 DEF Inv, OnceInv
  <2> QED
    BY <2>6, <2>10, <2>11, <2>12 DEF Inv
<1> QED
  BY <1>3, <1>4, <1>5

\* Every step keeps the invariant.
LEMMA InvStep == Inv /\ [Next]_vars => Inv'
<1> SUFFICES ASSUME Inv, [Next]_vars PROVE Inv'
  OBVIOUS
<1>1. funcs \in 0 .. MaxTasks /\ onceFuncs \in 0 .. MaxTasks /\ MaxTasks \in Nat
  BY BoundsAssumption DEF Inv, TypeOK
<1>2. CASE AddTask \/ AddTaskOnce
  <2>1. /\ Count + 1 \in Nat /\ Count' = Count + 1 /\ funcs' \in 0 .. MaxTasks /\ onceFuncs' \in 0 .. MaxTasks
        /\ ProgramRuns /\ Changed(Count + 1) /\ isSetup' = isSetup
    BY <1>1, <1>2 DEF AddTask, AddTaskOnce, Count
  <2> QED
    BY <2>1, ChangedStep
<1>3. CASE RemoveTask \/ RemoveTaskOnce
  <2>1. /\ Count - 1 \in Nat /\ Count' = Count - 1 /\ funcs' \in 0 .. MaxTasks /\ onceFuncs' \in 0 .. MaxTasks
        /\ ProgramRuns /\ Changed(Count - 1) /\ isSetup' = isSetup
    BY <1>1, <1>3 DEF RemoveTask, RemoveTaskOnce, Count
  <2> QED
    BY <2>1, ChangedStep
<1>4. CASE UNCHANGED vars
  BY <1>4 DEF vars, someVars, noneVars, Inv, TypeOK, FlagInv, CallbackInv, OnceInv, Count
<1> QED
  BY <1>2, <1>3, <1>4, TriggerStep, CallbackStep DEF Next

LEMMA Invariance == Spec => []Inv
<1> QED
  BY InitInv, InvStep, PTL DEF Spec
-----------------------------------------------------------------------------
(* Counts, the flag, the history and the stack keep their types.             *)
THEOREM TypeCorrect == Spec => []TypeOK
<1>1. Inv => TypeOK
  BY DEF Inv
<1> QED
  BY <1>1, Invariance, PTL

(* When nothing is under way who listens is heard, unless OnSetup raised or  *)
(* a task was added while OnClose waited: FlagInv, when no callback waits.   *)
THEOREM ListenersAreHeardCorrect == Spec => []ListenersAreHeard
<1>1. Inv => ListenersAreHeard
  BY DEF Inv, FlagInv, ListenersAreHeard, Holds
<1> QED
  BY <1>1, Invariance, PTL

(* And when nobody listens the watchable is closed, unless OnClose raised or *)
(* the last listener left while OnSetup waited.                              *)
THEOREM NobodyIsServedCorrect == Spec => []NobodyIsServed
<1>1. Inv => NobodyIsServed
  BY DEF Inv, FlagInv, NobodyIsServed, Holds
<1> QED
  BY <1>1, Invariance, PTL

(* OnSetup and OnClose complete in turns, unless the watchable was called    *)
(* while one of them waited.                                                 *)
THEOREM AlternateCorrect == Spec => Alternate
<1> DEFINE A == /\ SetupReturns /\ isSetup => someInSetup
                /\ CloseReturns /\ ~isSetup => noneInClose
<1>1. Inv => A
  <2> SUFFICES ASSUME Inv PROVE A
    OBVIOUS
  <2>1. stack \in Seq(Frames) /\ "setup" \in Frames /\ "close" \in Frames
    BY DEF Inv, TypeOK, Frames
  <2>2. (SetupReturns => Holds(stack, "setup")) /\ (CloseReturns => Holds(stack, "close"))
    BY <2>1, Pop DEF SetupReturns, CloseReturns, On
  <2> QED
    BY <2>2 DEF Inv, OnceInv
<1>2. Inv /\ [Next]_vars => [A]_vars
  BY <1>1
<1> HIDE DEF A
<1>3. Spec => [][A]_vars
  BY <1>2, Invariance, PTL DEF Spec
<1> QED
  BY <1>3 DEF Alternate, A
=============================================================================

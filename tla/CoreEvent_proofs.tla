--------------------------- MODULE CoreEvent_proofs ---------------------------
(***************************************************************************)
(* Theorems about CoreEvent, for every set of tasks and every bound.       *)
(***************************************************************************)
EXTENDS CoreEvent, FiniteSets, SequenceTheorems, FiniteSetTheorems, TLAPS

-----------------------------------------------------------------------------
(* Lemmas about the operators the event is built from. *)

(* table.remove leaves a sequence over the same elements, one shorter, whose *)
(* entries come from the same position or the one after it.                  *)
LEMMA RemoveAtFacts ==
  ASSUME NEW S, NEW s \in Seq(S), NEW i \in 1 .. Len(s)
  PROVE  /\ RemoveAt(s, i) \in Seq(S)
         /\ Len(RemoveAt(s, i)) = Len(s) - 1
         /\ \A k \in 1 .. Len(s) - 1 :
              RemoveAt(s, i)[k] = IF k < i THEN s[k] ELSE s[k + 1]
<1> DEFINE left == SubSeq(s, 1, i - 1)
           right == SubSeq(s, i + 1, Len(s))
<1>1. /\ left \in Seq(S) /\ Len(left) = i - 1
      /\ \A k \in 1 .. i - 1 : left[k] = s[k]
  BY SubSeqProperties
<1>2. /\ right \in Seq(S) /\ Len(right) = Len(s) - i
      /\ \A k \in 1 .. Len(s) - i : right[k] = s[i + k]
  BY SubSeqProperties
<1>3. RemoveAt(s, i) = left \o right
  BY DEF RemoveAt
<1>4. Len(s) \in Nat /\ i \in Int
  OBVIOUS
<1> HIDE DEF left, right
<1>5. left \o right \in Seq(S) /\ Len(left \o right) = Len(s) - 1
  <2>1. left \o right \in Seq(S)
    BY <1>1, <1>2
  <2>2. Len(left \o right) = Len(left) + Len(right)
    BY <1>1, <1>2, ConcatProperties
  <2>3. Len(left \o right) = (i - 1) + (Len(s) - i)
    BY <1>1, <1>2, <2>2
  <2> QED
    BY <1>4, <2>1, <2>3
<1>6. ASSUME NEW k \in 1 .. Len(s) - 1
      PROVE  (left \o right)[k] = IF k < i THEN s[k] ELSE s[k + 1]
  <2>1. k \in 1 .. Len(left) + Len(right)
    BY <1>1, <1>2, <1>4
  <2>2. CASE k < i
    BY <1>1, <1>2, <1>4, <2>1, <2>2, ConcatProperties
  <2>3. CASE k >= i
    <3>1. (left \o right)[k] = right[k - (i - 1)]
      BY <1>1, <1>2, <1>4, <2>1, <2>3, ConcatProperties
    <3>2. k - (i - 1) \in 1 .. Len(s) - i
      BY <1>4, <2>3
    <3>3. right[k - (i - 1)] = s[i + (k - (i - 1))]
      BY <1>2, <3>2
    <3>4. i + (k - (i - 1)) = k + 1
      BY <1>4
    <3> QED
      BY <1>4, <2>3, <3>1, <3>3, <3>4
  <2>4. k < i \/ k >= i
    BY <1>4
  <2> QED
    BY <2>2, <2>3, <2>4
<1> QED
  BY <1>3, <1>5, <1>6

(* Taking off or replacing the innermost frame keeps a stack of frames. *)
LEMMA StackFacts ==
  ASSUME NEW S, NEW s \in Seq(S), s # <<>>
  PROVE  /\ Len(s) \in Nat \ {0}
         /\ Last(s) \in S /\ Last(s) = s[Len(s)]
         /\ Front(s) \in Seq(S)
         /\ Len(Front(s)) = Len(s) - 1
         /\ \A d \in 1 .. Len(s) - 1 : Front(s)[d] = s[d]
<1>1. Len(s) \in Nat \ {0} /\ Last(s) \in S /\ Last(s) = s[Len(s)]
  BY DEF Last
<1>2. Front(s) \in Seq(S)
  BY DEF Front
<1>3. Len(Front(s)) = Len(s) - 1
  <2>1. Len(s) - 1 \in Int /\ 1 \in Int
    BY <1>1
  <2>2. \A k \in 1 .. Len(s) - 1 : s[k] \in S
    OBVIOUS
  <2>3. Len(Front(s)) = IF 1 <= Len(s) - 1 THEN Len(s) - 1 - 1 + 1 ELSE 0
    BY <2>1, <2>2, SubSeqProperties DEF Front
  <2>4. ASSUME NEW n \in Nat \ {0}
        PROVE  (IF 1 <= n - 1 THEN n - 1 - 1 + 1 ELSE 0) = n - 1
    OBVIOUS
  <2> QED
    BY <1>1, <2>3, <2>4, Zenon
<1>4. \A d \in 1 .. Len(s) - 1 : Front(s)[d] = s[d]
  BY DEF Front
<1> QED
  BY <1>1, <1>2, <1>3, <1>4

(* The frame of an activation that begins the task t is a frame. *)
LEMMA ServingFrame ==
  ASSUME NEW f \in Frame, NEW t \in Tasks
  PROVE  [f EXCEPT !.pos = @ + 1, !.task = t, !.running = TRUE, !.served = @ \cup {t}] \in Frame
<1> DEFINE g == [f EXCEPT !.pos = @ + 1]
           h == [g EXCEPT !.task = t]
           k == [h EXCEPT !.running = TRUE]
<1>1. g \in Frame
  BY DEF Frame
<1>2. h \in Frame
  BY <1>1 DEF Frame
<1>3. k \in Frame
  BY <1>2 DEF Frame
<1>4. [k EXCEPT !.served = @ \cup {t}] \in Frame
  BY <1>3 DEF Frame
<1>5. f.served = k.served
  BY DEF Frame
<1> QED
  BY <1>4, <1>5

(* So is the frame of one that enters the once loop, or ends a task. *)
LEMMA EnteringFrame ==
  ASSUME NEW f \in Frame, NEW g \in Nat
  PROVE  [f EXCEPT !.phase = "once", !.pos = 0, !.table = g] \in Frame
BY DEF Frame, Phases

(* A frame whose task has ended is still a frame. *)
LEMMA EndedFrame ==
  ASSUME NEW f \in Frame
  PROVE  [f EXCEPT !.running = FALSE] \in Frame
BY DEF Frame

-----------------------------------------------------------------------------
(* The variables keep their types: in particular the table a once loop     *)
(* iterates always exists.                                                 *)
LEMMA TypeInit == Init => TypeOK
<1> SUFFICES ASSUME Init PROVE TypeOK
  OBVIOUS
<1>1. funcs \in Seq(Permanent) /\ stack \in Seq(Frame) /\ DOMAIN stack = {}
  BY DEF Init
<1>2. <<>> \in Seq(Once) /\ onceTables = << <<>> >>
  BY DEF Init
<1>3. onceTables \in Seq(Seq(Once)) /\ onceTables # <<>>
  BY <1>2
<1> QED
  BY <1>1, <1>3 DEF Init, TypeOK

(* Every step of the event, of a task or of the program keeps the types. *)
LEMMA TypeStep == TypeOK /\ [Next]_vars => TypeOK'
<1> SUFFICES ASSUME TypeOK, [Next]_vars PROVE TypeOK'
  OBVIOUS
<1> USE DEF historyVars, taskVars
<1>a. stack # <<>> => Top \in Frame /\ Top = stack[Len(stack)] /\ Len(stack) \in DOMAIN stack
  BY DEF TypeOK, Top, Last
<1>b. ASSUME NEW f \in Frame, stack # <<>>, stack' = WithTop(f),
             f.phase = "once" => f.table \in DOMAIN onceTables', Len(onceTables') >= Len(onceTables),
             onceTables' \in Seq(Seq(Once))
      PROVE  /\ stack' \in Seq(Frame)
             /\ \A d \in DOMAIN stack' : stack'[d].phase = "once" => stack'[d].table \in DOMAIN onceTables'
  BY <1>b, StackFacts DEF TypeOK, WithTop
<1>c. ASSUME stack # <<>>, stack' = Below, Len(onceTables') >= Len(onceTables),
             onceTables' \in Seq(Seq(Once))
      PROVE  /\ stack' \in Seq(Frame)
             /\ \A d \in DOMAIN stack' : stack'[d].phase = "once" => stack'[d].table \in DOMAIN onceTables'
  <2>1. /\ Below \in Seq(Frame) /\ Len(Below) = Len(stack) - 1
        /\ \A d \in 1 .. Len(stack) - 1 : Below[d] = stack[d]
    BY <1>c, StackFacts DEF TypeOK, Below
  <2>2. \A d \in 1 .. Len(stack) - 1 : Below[d].phase = "once" => Below[d].table \in 1 .. Len(onceTables)
    <3>1. ASSUME NEW d \in 1 .. Len(stack) - 1, Below[d].phase = "once"
          PROVE  Below[d].table \in 1 .. Len(onceTables)
      <4>1. d \in DOMAIN stack /\ Below[d] = stack[d]
        BY <2>1 DEF TypeOK
      <4>2. stack[d].table \in DOMAIN onceTables
        BY <3>1, <4>1 DEF TypeOK
      <4> QED
        BY <4>1, <4>2 DEF TypeOK
    <3> QED
      BY <3>1
  <2>3. DOMAIN stack' = 1 .. Len(stack) - 1 /\ stack' \in Seq(Frame)
    BY <1>c, <2>1
  <2>4. 1 .. Len(onceTables) \subseteq DOMAIN onceTables'
    BY <1>c DEF TypeOK
  <2> QED
    BY <1>c, <2>2, <2>3, <2>4
<1>1. ASSUME NEW t \in Permanent, AddTask(t) PROVE TypeOK'
  BY <1>1 DEF AddTask, TypeOK
<1>2. ASSUME NEW t \in Once, AddTaskOnce(t) PROVE TypeOK'
  BY <1>2 DEF AddTaskOnce, TypeOK
<1>3. ASSUME NEW i \in 1 .. MaxListeners, RemoveTask(i) PROVE TypeOK'
  BY <1>3, RemoveAtFacts DEF RemoveTask, TypeOK
<1>4. ASSUME NEW i \in DOMAIN CurrentOnce, RemoveOnce(i) PROVE TypeOK'
  <2>1. CurrentOnce \in Seq(Once) /\ CurrentOnce = onceTables[Len(onceTables)]
    BY DEF TypeOK, CurrentOnce, Last
  <2> DEFINE table == RemoveAt(CurrentOnce, i)
  <2>a. table \in Seq(Once)
    BY <1>4, <2>1, RemoveAtFacts
  <2>b. onceTables' = [onceTables EXCEPT ![Len(onceTables)] = table]
    BY <1>4, <2>1 DEF RemoveOnce
  <2> HIDE DEF table
  <2>2. onceTables' \in Seq(Seq(Once)) /\ onceTables' # <<>> /\ Len(onceTables') = Len(onceTables)
    BY <2>a, <2>b DEF TypeOK
  <2>3. removed' \subseteq Once
    BY <1>4, <2>1 DEF RemoveOnce, TypeOK
  <2> QED
    BY <1>4, <2>2, <2>3 DEF RemoveOnce, TypeOK
<1>5. CASE Trigger
  <2> DEFINE f == [phase |-> "permanent", pos |-> 0, table |-> 0, task |-> NoTask,
                   running |-> FALSE, due |-> ToSet(funcs), served |-> {}]
  <2>1. f \in Frame /\ f.phase # "once"
    BY DEF TypeOK, Frame, Phases, ToSet
  <2>2. stack' = Append(stack, f)
    BY <1>5 DEF Trigger
  <2> HIDE DEF f
  <2> QED
    BY <1>5, <2>1, <2>2 DEF Trigger, TypeOK
<1>6. CASE NextPermanent
  <2> DEFINE t == funcs[Top.pos + 1]
             f == [Top EXCEPT !.pos = @ + 1, !.task = t, !.running = TRUE, !.served = @ \cup {t}]
  <2>1. t \in Tasks
    BY <1>6, <1>a DEF NextPermanent, LoopRuns, TypeOK, Tasks, Frame
  <2>2. f \in Frame /\ f.phase # "once"
    BY <1>6, <1>a, <2>1, ServingFrame DEF NextPermanent, LoopRuns, Frame
  <2>3. stack' = WithTop(f) /\ UNCHANGED <<onceTables, funcs, raising, crashed, historyVars>>
    BY <1>6 DEF NextPermanent
  <2>4. closed' \in [Tasks -> BOOLEAN] /\ traceback' \in [Tasks -> BOOLEAN]
    BY <1>6 DEF NextPermanent, Execute, TypeOK
  <2> HIDE DEF f
  <2> QED
    BY <1>6, <1>b, <2>2, <2>3, <2>4 DEF NextPermanent, LoopRuns, TypeOK
<1>7. CASE EnterOnce
  <2> DEFINE f == [Top EXCEPT !.phase = "once", !.pos = 0, !.table = Len(onceTables)]
  <2>a. Len(onceTables) \in Nat /\ Len(onceTables) \in DOMAIN onceTables
    BY DEF TypeOK
  <2>1. f \in Frame /\ f.table \in DOMAIN onceTables
    BY <1>7, <1>a, <2>a, EnteringFrame DEF EnterOnce, LoopRuns, Frame
  <2>2. stack # <<>> /\ stack' = WithTop(f) /\ UNCHANGED <<onceTables, funcs, taskVars, raising, crashed, historyVars>>
    BY <1>7 DEF EnterOnce, LoopRuns
  <2> HIDE DEF f
  <2> QED
    BY <1>b, <2>1, <2>2 DEF TypeOK
<1>8. CASE NextOnce
  <2> DEFINE t == onceTables[Top.table][Top.pos + 1]
             f == [Top EXCEPT !.pos = @ + 1, !.task = t, !.running = TRUE, !.served = @ \cup {t}]
  <2>1. Top.table \in DOMAIN onceTables /\ onceTables[Top.table] \in Seq(Once)
    BY <1>8, <1>a DEF NextOnce, LoopRuns, TypeOK
  <2>2. t \in Once /\ t \in Tasks
    BY <1>8, <1>a, <2>1 DEF NextOnce, LoopRuns, Tasks, Frame
  <2>3. f \in Frame /\ f.table = Top.table
    BY <1>8, <1>a, <2>2, ServingFrame DEF NextOnce, LoopRuns, Frame
  <2>4. stack # <<>> /\ stack' = WithTop(f)
        /\ UNCHANGED <<onceTables, funcs, raising, crashed, triggers, reentered, tampered, registered,
                        removed, aborted>>
    BY <1>8 DEF NextOnce, LoopRuns
  <2>5. closed' \in [Tasks -> BOOLEAN] /\ traceback' \in [Tasks -> BOOLEAN]
    BY <1>8, Zenon DEF NextOnce, Execute, TypeOK
  <2>6. runs' \in [Once -> Nat]
    <3>1. runs' = [runs EXCEPT ![t] = @ + 1] /\ runs \in [Once -> Nat]
      BY <1>8 DEF NextOnce, TypeOK
    <3> QED
      BY <2>2, <3>1
  <2> HIDE DEF f
  <2> QED
    BY <1>b, <2>1, <2>3, <2>4, <2>5, <2>6 DEF TypeOK
<1>9. CASE EndTrigger
  <2>a. onceTables' = Append(onceTables, <<>>) /\ <<>> \in Seq(Once) /\ onceTables \in Seq(Seq(Once))
    BY <1>9 DEF EndTrigger, TypeOK
  <2>1. onceTables' \in Seq(Seq(Once)) /\ onceTables' # <<>> /\ Len(onceTables') >= Len(onceTables)
    BY <2>a
  <2> QED
    BY <1>9, <1>c, <2>1 DEF EndTrigger, LoopRuns, TypeOK
<1>d. ASSUME stack # <<>>, stack' = WithTop([Top EXCEPT !.running = FALSE]), UNCHANGED onceTables
      PROVE  /\ stack' \in Seq(Frame)
             /\ \A d \in DOMAIN stack' : stack'[d].phase = "once" => stack'[d].table \in DOMAIN onceTables'
  <2> DEFINE f == [Top EXCEPT !.running = FALSE]
  <2>1. f \in Frame /\ (f.phase = "once" => f.table \in DOMAIN onceTables)
    BY <1>a, <1>d, EndedFrame DEF TypeOK, Frame
  <2>2. stack' = WithTop(f)
    BY <1>d
  <2> HIDE DEF f
  <2>3. Len(onceTables') >= Len(onceTables) /\ onceTables' \in Seq(Seq(Once))
    BY <1>d DEF TypeOK
  <2> QED
    BY <1>b, <1>d, <2>1, <2>2, <2>3
<1>e. ASSUME NEW t, NEW ok \in BOOLEAN, CloseTask(t, ok)
      PROVE  closed' \in [Tasks -> BOOLEAN] /\ traceback' \in [Tasks -> BOOLEAN]
  BY <1>e, Zenon DEF CloseTask, TypeOK
<1>10. CASE BodyReturns
  BY <1>10, <1>d, <1>e DEF BodyReturns, InBody, TypeOK
<1>11. CASE BodyFails
  BY <1>11, <1>d, <1>e DEF BodyFails, InBody, TypeOK
<1>12. CASE LogErrorRaises
  <2>1. Len(onceTables') >= Len(onceTables) /\ onceTables' \in Seq(Seq(Once))
    BY <1>12 DEF LogErrorRaises, TypeOK
  <2>2. closed' \in [Tasks -> BOOLEAN] /\ traceback' \in [Tasks -> BOOLEAN]
    BY <1>12, <1>e DEF LogErrorRaises
  <2>3. raising' \in BOOLEAN /\ crashed' \in BOOLEAN /\ aborted' \in Nat
    BY <1>12 DEF LogErrorRaises, TypeOK
  <2> QED
    BY <1>12, <1>c, <2>1, <2>2, <2>3 DEF LogErrorRaises, InBody, TypeOK
<1>13. CASE UNCHANGED vars
  BY <1>13 DEF vars, TypeOK
<1> QED
  BY <1>1, <1>2, <1>3, <1>4, <1>5, <1>6, <1>7, <1>8, <1>9, <1>10, <1>11, <1>12, <1>13 DEF Next

(* TypeOK is an invariant of the event under every interleaving of           *)
(* registrations, removals, nested triggers, failures and their unwinding.   *)
THEOREM TypeCorrect == Spec => []TypeOK
BY TypeInit, TypeStep, PTL DEF Spec

-----------------------------------------------------------------------------
(***************************************************************************)
(* NoRepeat.  It is not inductive by itself: that the tasks ahead of a     *)
(* loop are not those it served needs that a table holds a task once, and  *)
(* that a task added to it later is new to every activation.               *)
(***************************************************************************)
TableInv(g) ==
  /\ \A j, k \in 1 .. Len(onceTables[g]) : onceTables[g][j] = onceTables[g][k] => j = k
  /\ \A k \in 1 .. Len(onceTables[g]) : onceTables[g][k] \in registered

FrameInv(f) ==
  /\ f.served \cap Once \subseteq registered
  /\ f.phase = "permanent" => f.served \cap Once = {}
  /\ f.phase = "once" => \A k \in f.pos + 1 .. Len(onceTables[f.table]) :
                           onceTables[f.table][k] \notin f.served

OnceInv ==
  /\ \A g \in DOMAIN onceTables : TableInv(g)
  /\ \A d \in DOMAIN stack : FrameInv(stack[d])

(* At the start there is one empty table and no activation. *)
LEMMA OnceInvInit == Init => OnceInv
<1> SUFFICES ASSUME Init PROVE OnceInv
  OBVIOUS
<1>1. DOMAIN stack = {}
  BY DEF Init
<1>2. ASSUME NEW g \in DOMAIN onceTables PROVE Len(onceTables[g]) = 0
  BY <1>2 DEF Init
<1>3. ASSUME NEW g \in DOMAIN onceTables PROVE TableInv(g)
  <2>1. 1 .. Len(onceTables[g]) = {}
    BY <1>2
  <2> QED
    BY <2>1 DEF TableInv
<1> QED
  BY <1>1, <1>3 DEF OnceInv

(* A step that touches neither tables, registrations nor frames but the top, *)
(* whose new frame is sound, keeps the invariant.                            *)
LEMMA ReplaceTop ==
  ASSUME TypeOK, OnceInv, stack # <<>>, NEW f \in Frame, FrameInv(f),
         stack' = WithTop(f), UNCHANGED <<onceTables, registered>>
  PROVE  OnceInv'
<1>1. ASSUME NEW d \in DOMAIN stack' PROVE FrameInv(stack[d])'
  <2>1. d \in DOMAIN stack /\ (stack'[d] = f \/ stack'[d] = stack[d])
    BY DEF WithTop, TypeOK
  <2>2. FrameInv(stack'[d])
    BY <2>1 DEF OnceInv
  <2> QED
    BY <2>2, Zenon DEF FrameInv
<1>2. ASSUME NEW g \in DOMAIN onceTables' PROVE TableInv(g)'
  BY <1>2 DEF OnceInv, TableInv
<1> QED
  BY <1>1, <1>2, Zenon DEF OnceInv

(* A step that leaves tables, stack and registrations alone keeps OnceInv. *)
LEMMA SameFrames ==
  ASSUME OnceInv, UNCHANGED <<stack, onceTables, registered>>
  PROVE  OnceInv'
BY DEF OnceInv, FrameInv, TableInv

(* The frames below the top are those of the stack. *)
LEMMA BelowFacts ==
  ASSUME TypeOK, stack # <<>>
  PROVE  \A d \in DOMAIN Below : d \in DOMAIN stack /\ Below[d] = stack[d]
<1>1. /\ Below \in Seq(Frame) /\ Len(Below) = Len(stack) - 1
      /\ \A d \in 1 .. Len(stack) - 1 : Below[d] = stack[d]
  BY StackFacts DEF TypeOK, Below
<1>2. DOMAIN Below = 1 .. Len(stack) - 1
  BY <1>1
<1>3. DOMAIN Below \subseteq DOMAIN stack
  BY <1>2 DEF TypeOK
<1> QED
  BY <1>1, <1>2, <1>3

(* The top frame is a frame, and the last of the stack. *)
LEMMA TopFacts ==
  ASSUME TypeOK, stack # <<>>
  PROVE  Top \in Frame /\ Len(stack) \in DOMAIN stack /\ Top = stack[Len(stack)]
BY DEF TypeOK, Top, Last

(* Every step keeps OnceInv: what a once loop has served stays behind it. *)
LEMMA OnceInvStep == TypeOK /\ TypeOK' /\ OnceInv /\ [Next]_vars => OnceInv'
<1> SUFFICES ASSUME TypeOK, TypeOK', OnceInv, [Next]_vars PROVE OnceInv'
  OBVIOUS
<1> USE DEF historyVars, taskVars
<1>a. stack # <<>> => FrameInv(Top) /\ Top \in Frame
  BY TopFacts DEF OnceInv
<1>b. onceTables # <<>> /\ onceTables \in Seq(Seq(Once)) /\ Len(onceTables) \in DOMAIN onceTables
      /\ CurrentOnce = onceTables[Len(onceTables)] /\ CurrentOnce \in Seq(Once)
  BY DEF TypeOK, CurrentOnce, Last
<1>1. ASSUME NEW t \in Permanent, AddTask(t) PROVE OnceInv'
  BY <1>1, SameFrames DEF AddTask
<1>2. ASSUME NEW t \in Once, AddTaskOnce(t) PROVE OnceInv'
  <2> DEFINE table == Append(CurrentOnce, t)
  <2>1. /\ t \notin registered /\ registered' = registered \cup {t} /\ stack' = stack
        /\ onceTables' = [onceTables EXCEPT ![Len(onceTables)] = table]
    BY <1>2, <1>b DEF AddTaskOnce
  <2>2. /\ table \in Seq(Once) /\ Len(table) = Len(CurrentOnce) + 1
        /\ \A k \in 1 .. Len(CurrentOnce) : table[k] = CurrentOnce[k]
        /\ table[Len(CurrentOnce) + 1] = t
    BY <1>b
  <2>3. TableInv(Len(onceTables))
    BY <1>b DEF OnceInv
  <2> HIDE DEF table
  <2>4. DOMAIN onceTables' = DOMAIN onceTables
        /\ \A g \in DOMAIN onceTables : onceTables'[g] = IF g = Len(onceTables) THEN table ELSE onceTables[g]
    BY <1>b, <2>1
  <2>5. ASSUME NEW g \in DOMAIN onceTables' PROVE TableInv(g)'
    <3>1. CASE g # Len(onceTables)
      <4>1. onceTables'[g] = onceTables[g] /\ TableInv(g)
        BY <2>4, <3>1 DEF OnceInv
      <4> QED
        BY <2>1, <4>1 DEF TableInv
    <3>2. CASE g = Len(onceTables)
      <4>1. onceTables'[g] = table
        BY <2>4, <3>2
      <4>2. \A k \in 1 .. Len(CurrentOnce) : CurrentOnce[k] \in registered
        BY <1>b, <2>3 DEF TableInv
      <4>3. \A j, k \in 1 .. Len(CurrentOnce) : CurrentOnce[j] = CurrentOnce[k] => j = k
        BY <1>b, <2>3 DEF TableInv
      <4>4. Len(CurrentOnce) \in Nat
        BY <1>b
      <4>5. \A k \in 1 .. Len(table) : k \in 1 .. Len(CurrentOnce) \/ k = Len(CurrentOnce) + 1
        BY <2>2, <4>4
      <4>6. \A k \in 1 .. Len(table) : table[k] \in registered'
        BY <2>1, <2>2, <4>2, <4>5
      <4>7. \A j, k \in 1 .. Len(table) : table[j] = table[k] => j = k
        BY <2>1, <2>2, <4>2, <4>3, <4>5
      <4> QED
        BY <4>1, <4>6, <4>7 DEF TableInv
    <3> QED
      BY <3>1, <3>2
  <2>6. ASSUME NEW d \in DOMAIN stack' PROVE FrameInv(stack[d])'
    <3>1. FrameInv(stack[d]) /\ stack[d] \in Frame /\ d \in DOMAIN stack /\ stack'[d] = stack[d]
      BY <2>1 DEF OnceInv, TypeOK
    <3>2. t \notin stack[d].served
      BY <2>1, <3>1 DEF FrameInv
    <3>3. ASSUME stack[d].phase = "once",
                 NEW k \in stack[d].pos + 1 .. Len(onceTables'[stack[d].table])
          PROVE  onceTables'[stack[d].table][k] \notin stack[d].served
      <4>1. stack[d].table \in DOMAIN onceTables /\ stack[d].pos \in Nat
        BY <3>1, <3>3 DEF TypeOK, Frame
      <4>2. CASE stack[d].table # Len(onceTables)
        BY <2>4, <3>1, <3>3, <4>1, <4>2 DEF FrameInv
      <4>3. CASE stack[d].table = Len(onceTables)
        <5>1. onceTables'[stack[d].table] = table /\ onceTables[stack[d].table] = CurrentOnce
          BY <1>b, <2>4, <4>1, <4>3
        <5>2. k \in stack[d].pos + 1 .. Len(CurrentOnce) \/ k = Len(CurrentOnce) + 1
          BY <1>b, <2>2, <3>3, <4>1, <5>1
        <5>3. CASE k = Len(CurrentOnce) + 1
          BY <2>2, <3>2, <5>1, <5>3
        <5>4. CASE k \in stack[d].pos + 1 .. Len(CurrentOnce)
          <6>1. CurrentOnce[k] \notin stack[d].served
            BY <3>1, <3>3, <5>1, <5>4 DEF FrameInv
          <6>2. k \in 1 .. Len(CurrentOnce)
            BY <1>b, <4>1, <5>4
          <6> QED
            BY <2>2, <5>1, <6>1, <6>2
        <5> QED
          BY <5>2, <5>3, <5>4
      <4> QED
        BY <4>2, <4>3
    <3> QED
      BY <2>1, <3>1, <3>3 DEF FrameInv
  <2> QED
    BY <2>5, <2>6 DEF OnceInv
<1>3. ASSUME NEW i \in 1 .. MaxListeners, RemoveTask(i) PROVE OnceInv'
  BY <1>3, SameFrames DEF RemoveTask
<1>4. ASSUME NEW i \in DOMAIN CurrentOnce, RemoveOnce(i) PROVE OnceInv'
  <2> DEFINE table == RemoveAt(CurrentOnce, i)
  <2>1. /\ UNCHANGED <<registered, stack>>
        /\ onceTables' = [onceTables EXCEPT ![Len(onceTables)] = table]
    BY <1>4, <1>b DEF RemoveOnce
  <2>2. /\ table \in Seq(Once) /\ Len(table) = Len(CurrentOnce) - 1
        /\ \A k \in 1 .. Len(CurrentOnce) - 1 :
             table[k] = IF k < i THEN CurrentOnce[k] ELSE CurrentOnce[k + 1]
    <3>1. i \in 1 .. Len(CurrentOnce) /\ CurrentOnce \in Seq(Once)
      BY <1>b
    <3> QED
      BY <3>1, RemoveAtFacts, Zenon
  <2>3. TableInv(Len(onceTables))
    BY <1>b DEF OnceInv
  <2>4. DOMAIN onceTables' = DOMAIN onceTables
        /\ \A g \in DOMAIN onceTables : onceTables'[g] = IF g = Len(onceTables) THEN table ELSE onceTables[g]
    BY <1>b, <2>1
  <2> HIDE DEF table
  <2>a. Len(CurrentOnce) \in Nat /\ i \in 1 .. Len(CurrentOnce)
    BY <1>b
  <2>5. ASSUME NEW g \in DOMAIN onceTables' PROVE TableInv(g)'
    <3>1. CASE g # Len(onceTables)
      <4>1. onceTables'[g] = onceTables[g] /\ TableInv(g)
        BY <2>4, <3>1 DEF OnceInv
      <4> QED
        BY <2>1, <4>1 DEF TableInv
    <3>2. CASE g = Len(onceTables)
      <4>1. onceTables'[g] = table
        BY <2>4, <3>2
      <4>2. \A k \in 1 .. Len(CurrentOnce) : CurrentOnce[k] \in registered
        BY <1>b, <2>3 DEF TableInv
      <4>3. \A j, k \in 1 .. Len(CurrentOnce) : CurrentOnce[j] = CurrentOnce[k] => j = k
        BY <1>b, <2>3 DEF TableInv
      <4>4. \A k \in 1 .. Len(table) : k \in 1 .. Len(CurrentOnce) /\ k + 1 \in 1 .. Len(CurrentOnce)
        BY <2>2, <2>a
      <4>5. \A k \in 1 .. Len(table) : table[k] \in registered'
        BY <2>1, <2>2, <4>2, <4>4
      <4>6. \A j, k \in 1 .. Len(table) : table[j] = table[k] => j = k
        <5> SUFFICES ASSUME NEW j \in 1 .. Len(table), NEW k \in 1 .. Len(table), table[j] = table[k]
                     PROVE  j = k
          OBVIOUS
        <5>1. /\ table[j] = IF j < i THEN CurrentOnce[j] ELSE CurrentOnce[j + 1]
              /\ table[k] = IF k < i THEN CurrentOnce[k] ELSE CurrentOnce[k + 1]
          BY <2>2
        <5>2. CASE j < i /\ k < i
          BY <4>3, <4>4, <5>1, <5>2
        <5>3. CASE j < i /\ ~(k < i)
          <6>1. j = k + 1
            BY <4>3, <4>4, <5>1, <5>3
          <6> QED
            BY <2>a, <5>3, <6>1
        <5>4. CASE ~(j < i) /\ k < i
          <6>1. j + 1 = k
            BY <4>3, <4>4, <5>1, <5>4
          <6> QED
            BY <2>a, <5>4, <6>1
        <5>5. CASE ~(j < i) /\ ~(k < i)
          <6>1. j + 1 = k + 1
            BY <4>3, <4>4, <5>1, <5>5
          <6> QED
            BY <6>1
        <5> QED
          BY <5>2, <5>3, <5>4, <5>5
      <4> QED
        BY <4>1, <4>5, <4>6 DEF TableInv
    <3> QED
      BY <3>1, <3>2
  <2>6. ASSUME NEW d \in DOMAIN stack' PROVE FrameInv(stack[d])'
    <3>1. FrameInv(stack[d]) /\ stack[d] \in Frame /\ d \in DOMAIN stack /\ stack'[d] = stack[d]
      BY <2>1 DEF OnceInv, TypeOK
    <3>3. ASSUME stack[d].phase = "once",
                 NEW k \in stack[d].pos + 1 .. Len(onceTables'[stack[d].table])
          PROVE  onceTables'[stack[d].table][k] \notin stack[d].served
      <4>1. stack[d].table \in DOMAIN onceTables /\ stack[d].pos \in Nat
        BY <3>1, <3>3 DEF TypeOK, Frame
      <4>2. CASE stack[d].table # Len(onceTables)
        BY <2>4, <3>1, <3>3, <4>1, <4>2 DEF FrameInv
      <4>3. CASE stack[d].table = Len(onceTables)
        <5>1. onceTables'[stack[d].table] = table /\ onceTables[stack[d].table] = CurrentOnce
          BY <1>b, <2>4, <4>1, <4>3
        <5>2. /\ k \in stack[d].pos + 1 .. Len(CurrentOnce)
              /\ k + 1 \in stack[d].pos + 1 .. Len(CurrentOnce)
              /\ k \in 1 .. Len(CurrentOnce) - 1
          BY <2>a, <2>2, <3>3, <4>1, <5>1
        <5>3. CurrentOnce[k] \notin stack[d].served /\ CurrentOnce[k + 1] \notin stack[d].served
          BY <3>1, <3>3, <5>1, <5>2 DEF FrameInv
        <5>4. table[k] = CurrentOnce[k] \/ table[k] = CurrentOnce[k + 1]
          BY <2>2, <5>2
        <5> QED
          BY <5>1, <5>3, <5>4
      <4> QED
        BY <4>2, <4>3
    <3> QED
      BY <2>1, <3>1, <3>3 DEF FrameInv
  <2> QED
    BY <2>5, <2>6 DEF OnceInv
<1>5. CASE Trigger
  <2> DEFINE f == [phase |-> "permanent", pos |-> 0, table |-> 0, task |-> NoTask,
                   running |-> FALSE, due |-> ToSet(funcs), served |-> {}]
  <2>1. stack' = Append(stack, f) /\ UNCHANGED <<onceTables, registered>>
    BY <1>5 DEF Trigger
  <2>2. f.served = {} /\ f.phase # "once"
    OBVIOUS
  <2> HIDE DEF f
  <2>3. ASSUME NEW d \in DOMAIN stack' PROVE FrameInv(stack[d])'
    <3>1. stack'[d] = f \/ (d \in DOMAIN stack /\ stack'[d] = stack[d])
      BY <2>1 DEF TypeOK
    <3>2. CASE stack'[d] = f
      BY <2>2, <3>2 DEF FrameInv
    <3>3. CASE d \in DOMAIN stack /\ stack'[d] = stack[d]
      <4>1. FrameInv(stack[d])
        BY <3>3 DEF OnceInv
      <4> QED
        BY <2>1, <3>3, <4>1 DEF FrameInv
    <3> QED
      BY <3>1, <3>2, <3>3
  <2>4. ASSUME NEW g \in DOMAIN onceTables' PROVE TableInv(g)'
    BY <2>1, <2>4 DEF OnceInv, TableInv
  <2> QED
    BY <2>3, <2>4 DEF OnceInv
<1>6. CASE NextPermanent
  <2> DEFINE t == funcs[Top.pos + 1]
             f == [Top EXCEPT !.pos = @ + 1, !.task = t, !.running = TRUE, !.served = @ \cup {t}]
  <2>1. stack # <<>> /\ stack' = WithTop(f) /\ UNCHANGED <<onceTables, registered>>
        /\ Top.phase = "permanent"
    BY <1>6 DEF NextPermanent, LoopRuns
  <2>2. t \in Permanent /\ t \notin Once
    BY <1>6, <1>a, TasksAssumption DEF NextPermanent, LoopRuns, TypeOK, Frame
  <2>3. f \in Frame
    BY <1>a, <2>1, <2>2, ServingFrame DEF Tasks
  <2>4. f.phase = "permanent" /\ f.served = Top.served \cup {t}
    BY <1>a, <2>1 DEF Frame
  <2> HIDE DEF f, t
  <2>5. FrameInv(f)
    BY <1>a, <2>1, <2>2, <2>4 DEF FrameInv
  <2> QED
    BY <2>1, <2>3, <2>5, ReplaceTop
<1>7. CASE EnterOnce
  <2> DEFINE f == [Top EXCEPT !.phase = "once", !.pos = 0, !.table = Len(onceTables)]
  <2>1. stack # <<>> /\ stack' = WithTop(f) /\ UNCHANGED <<onceTables, registered>>
        /\ Top.phase = "permanent"
    BY <1>7 DEF EnterOnce, LoopRuns
  <2>2. f \in Frame
    <3>1. Len(onceTables) \in Nat /\ Top \in Frame
      BY <1>a, <1>b, <2>1
    <3> QED
      BY <3>1, EnteringFrame, Zenon
  <2>3. f.phase = "once" /\ f.pos = 0 /\ f.table = Len(onceTables) /\ f.served = Top.served
    BY <1>a, <2>1 DEF Frame
  <2>4. f.served \cap Once = {}
    BY <1>a, <2>1, <2>3 DEF FrameInv
  <2> HIDE DEF f
  <2>5. ASSUME NEW k \in f.pos + 1 .. Len(onceTables[f.table])
        PROVE  onceTables[f.table][k] \notin f.served
    BY <1>b, <2>3, <2>4
  <2>6. FrameInv(f)
    BY <2>3, <2>4, <2>5 DEF FrameInv
  <2> QED
    BY <2>1, <2>2, <2>6, ReplaceTop
<1>8. CASE NextOnce
  <2> DEFINE t == onceTables[Top.table][Top.pos + 1]
             f == [Top EXCEPT !.pos = @ + 1, !.task = t, !.running = TRUE, !.served = @ \cup {t}]
  <2>1. stack # <<>> /\ stack' = WithTop(f) /\ UNCHANGED <<onceTables, registered>>
        /\ Top.phase = "once" /\ Top.pos < Len(onceTables[Top.table])
    BY <1>8 DEF NextOnce, LoopRuns
  <2>2. Top.table \in DOMAIN onceTables /\ onceTables[Top.table] \in Seq(Once) /\ Top.pos \in Nat
    <3>1. Top.table \in DOMAIN onceTables
      BY <2>1, TopFacts DEF TypeOK
    <3> QED
      BY <1>a, <1>b, <2>1, <3>1 DEF Frame
  <2>3. Top.pos + 1 \in 1 .. Len(onceTables[Top.table])
    BY <2>1, <2>2
  <2>4. t \in Once /\ t \in Tasks
    BY <2>2, <2>3 DEF Tasks
  <2>5. f \in Frame
    BY <1>a, <2>1, <2>4, ServingFrame
  <2>6. f.phase = "once" /\ f.pos = Top.pos + 1 /\ f.table = Top.table /\ f.served = Top.served \cup {t}
    BY <1>a, <2>1 DEF Frame
  <2>7. TableInv(Top.table)
    BY <2>2 DEF OnceInv
  <2> HIDE DEF f
  <2>8. ASSUME NEW k \in f.pos + 1 .. Len(onceTables[f.table])
        PROVE  onceTables[f.table][k] \notin f.served
    <3>1. k \in Top.pos + 1 .. Len(onceTables[Top.table]) /\ k # Top.pos + 1
          /\ k \in 1 .. Len(onceTables[Top.table])
      BY <2>2, <2>6
    <3>2. onceTables[Top.table][k] \notin Top.served
      BY <1>a, <2>1, <3>1 DEF FrameInv
    <3>3. onceTables[Top.table][k] # t
      BY <2>3, <2>7, <3>1 DEF TableInv
    <3> QED
      BY <2>6, <3>2, <3>3
  <2>9. t \in registered
    BY <2>3, <2>7 DEF TableInv
  <2>10. f.served \cap Once \subseteq registered
    BY <1>a, <2>1, <2>6, <2>9 DEF FrameInv
  <2>11. FrameInv(f)
    BY <2>6, <2>8, <2>10 DEF FrameInv
  <2> QED
    BY <2>1, <2>5, <2>11, ReplaceTop
<1>9. CASE EndTrigger
  <2>1. /\ stack # <<>> /\ stack' = Below /\ UNCHANGED registered
        /\ onceTables' = Append(onceTables, <<>>)
    BY <1>9 DEF EndTrigger, LoopRuns
  <2>2. \A g \in DOMAIN onceTables : onceTables'[g] = onceTables[g]
    BY <1>b, <2>1
  <2>3. ASSUME NEW g \in DOMAIN onceTables' PROVE TableInv(g)'
    <3>1. g \in DOMAIN onceTables \/ onceTables'[g] = <<>>
      BY <1>b, <2>1
    <3>2. CASE g \in DOMAIN onceTables
      BY <2>1, <2>2, <3>2 DEF OnceInv, TableInv
    <3>3. CASE onceTables'[g] = <<>>
      <4>1. 1 .. Len(onceTables'[g]) = {}
        BY <3>3
      <4> QED
        BY <4>1 DEF TableInv
    <3> QED
      BY <3>1, <3>2, <3>3
  <2>4. ASSUME NEW d \in DOMAIN stack' PROVE FrameInv(stack[d])'
    <3>1. d \in DOMAIN stack /\ stack'[d] = stack[d]
      BY <2>1, <2>4, BelowFacts
    <3>2. FrameInv(stack[d])
      BY <3>1 DEF OnceInv
    <3>3. stack[d].phase = "once" => onceTables'[stack[d].table] = onceTables[stack[d].table]
      BY <2>2, <3>1 DEF TypeOK
    <3> QED
      BY <2>1, <3>1, <3>2, <3>3 DEF FrameInv
  <2> QED
    BY <2>3, <2>4 DEF OnceInv
<1>c. ASSUME stack # <<>>, stack' = WithTop([Top EXCEPT !.running = FALSE]),
             UNCHANGED <<onceTables, registered>>
      PROVE  OnceInv'
  <2> DEFINE f == [Top EXCEPT !.running = FALSE]
  <2>1. f \in Frame /\ f.phase = Top.phase /\ f.pos = Top.pos /\ f.table = Top.table
        /\ f.served = Top.served
    BY <1>a, <1>c, EndedFrame DEF Frame
  <2>2. stack' = WithTop(f)
    BY <1>c
  <2> HIDE DEF f
  <2>3. FrameInv(f)
    BY <1>a, <1>c, <2>1 DEF FrameInv
  <2> QED
    BY <1>c, <2>1, <2>2, <2>3, ReplaceTop
<1>10. CASE BodyReturns
  BY <1>10, <1>c DEF BodyReturns, InBody
<1>11. CASE BodyFails
  BY <1>11, <1>c DEF BodyFails, InBody
<1>12. CASE LogErrorRaises
  <2>1. stack # <<>> /\ stack' = Below /\ UNCHANGED <<onceTables, registered>>
    BY <1>12 DEF LogErrorRaises, InBody
  <2>2. ASSUME NEW g \in DOMAIN onceTables' PROVE TableInv(g)'
    BY <2>1, <2>2 DEF OnceInv, TableInv
  <2>3. ASSUME NEW d \in DOMAIN stack' PROVE FrameInv(stack[d])'
    <3>1. d \in DOMAIN stack /\ stack'[d] = stack[d]
      BY <2>1, <2>3, BelowFacts
    <3>2. FrameInv(stack[d])
      BY <3>1 DEF OnceInv
    <3> QED
      BY <2>1, <3>1, <3>2 DEF FrameInv
  <2> QED
    BY <2>2, <2>3 DEF OnceInv
<1>13. CASE UNCHANGED vars
  BY <1>13, SameFrames DEF vars
<1> QED
  BY <1>1, <1>2, <1>3, <1>4, <1>5, <1>6, <1>7, <1>8, <1>9, <1>10, <1>11, <1>12, <1>13 DEF Next

(* However bodies fail, register, remove and trigger again: no activation    *)
(* executes a once task twice.                                               *)
THEOREM NoRepeatCorrect == Spec => []NoRepeat
<1>1. OnceInv => NoRepeat
  BY DEF OnceInv, FrameInv, NoRepeat
<1> QED
  BY <1>1, TypeInit, TypeStep, OnceInvInit, OnceInvStep, PTL DEF Spec

-----------------------------------------------------------------------------
(***************************************************************************)
(* An error leaves Trigger only if Trigger is re-entered: with one         *)
(* activation at a time, the task that runs is open until its own Close.   *)
(***************************************************************************)
FlatInv ==
  ~reentered =>
    /\ Len(stack) <= 1
    /\ \A d \in DOMAIN stack : stack[d].running => stack[d].task \in Tasks /\ ~closed[stack[d].task]
    /\ ~raising /\ ~crashed

(* A step that does not re-enter Trigger keeps the stack flat and the error inside. *)
LEMMA FlatStep ==
  ASSUME TypeOK, TypeOK', FlatInv, [Next]_vars, ~reentered'
  PROVE  FlatInv'
<1> USE DEF historyVars, taskVars
<1>r. ~reentered
  BY DEF Next, AddTask, AddTaskOnce, RemoveTask, RemoveOnce, Trigger, NextPermanent, EnterOnce, NextOnce,
         EndTrigger, BodyReturns, BodyFails, LogErrorRaises, vars
<1>a. ASSUME stack # <<>>
      PROVE  /\ Len(stack) = 1 /\ DOMAIN stack = {1} /\ stack[1] = Top /\ Top \in Frame
             /\ Top.running => Top.task \in Tasks /\ ~closed[Top.task]
  <2>1. Len(stack) \in Nat \ {0} /\ Len(stack) <= 1
    BY <1>a, <1>r, StackFacts DEF FlatInv, TypeOK
  <2>a. \A n \in Nat \ {0} : n <= 1 => n = 1
    OBVIOUS
  <2>b. Len(stack) = 1
    BY <2>1, <2>a, Zenon
  <2>c. DOMAIN stack = 1 .. Len(stack)
    BY DEF TypeOK
  <2>2. Len(stack) = 1 /\ DOMAIN stack = {1}
    BY <2>b, <2>c
  <2>3. stack[1] = Top /\ Top \in Frame
    BY <1>a, <2>2, TopFacts
  <2> QED
    BY <1>r, <2>2, <2>3 DEF FlatInv
<1>b. ASSUME stack # <<>>, NEW f \in Frame, stack' = WithTop(f), UNCHANGED crashed, ~raising',
             f.running => f.task \in Tasks /\ ~closed'[f.task]
      PROVE  FlatInv'
  <2>1. DOMAIN stack' = {1} /\ Len(stack') = 1 /\ stack'[1] = f
    BY <1>a, <1>b DEF WithTop, TypeOK
  <2> QED
    BY <1>b, <1>r, <2>1 DEF FlatInv
<1>c. ASSUME UNCHANGED <<stack, closed, raising, crashed>> PROVE FlatInv'
  BY <1>c, <1>r DEF FlatInv
<1>1. ASSUME NEW t \in Permanent, AddTask(t) PROVE FlatInv'
  BY <1>1, <1>c DEF AddTask
<1>2. ASSUME NEW t \in Once, AddTaskOnce(t) PROVE FlatInv'
  BY <1>2, <1>c DEF AddTaskOnce
<1>3. ASSUME NEW i \in 1 .. MaxListeners, RemoveTask(i) PROVE FlatInv'
  BY <1>3, <1>c DEF RemoveTask
<1>4. ASSUME NEW i \in DOMAIN CurrentOnce, RemoveOnce(i) PROVE FlatInv'
  BY <1>4, <1>c DEF RemoveOnce
<1>5. CASE Trigger
  <2> DEFINE f == [phase |-> "permanent", pos |-> 0, table |-> 0, task |-> NoTask,
                   running |-> FALSE, due |-> ToSet(funcs), served |-> {}]
  <2>1. ~f.running
    OBVIOUS
  <2>2. stack' = Append(stack, f) /\ stack = <<>> /\ UNCHANGED <<closed, raising, crashed>>
    BY <1>5 DEF Trigger, ProgramRuns, InBody
  <2> HIDE DEF f
  <2>3. DOMAIN stack' = {1} /\ Len(stack') = 1 /\ stack'[1] = f
    BY <2>2 DEF TypeOK
  <2> QED
    BY <1>r, <2>1, <2>2, <2>3 DEF FlatInv
<1>6. CASE NextPermanent
  <2> DEFINE t == funcs[Top.pos + 1]
             f == [Top EXCEPT !.pos = @ + 1, !.task = t, !.running = TRUE, !.served = @ \cup {t}]
  <2>1. stack # <<>> /\ stack' = WithTop(f) /\ closed' = [closed EXCEPT ![t] = FALSE]
        /\ UNCHANGED <<raising, crashed>>
    BY <1>6 DEF NextPermanent, LoopRuns, Execute
  <2>2. t \in Tasks
    BY <1>6, <1>a DEF NextPermanent, LoopRuns, TypeOK, Frame, Tasks
  <2>3. f \in Frame
    BY <1>a, <2>1, <2>2, ServingFrame
  <2>4. f.task = t
    BY <1>a, <2>1 DEF Frame
  <2> HIDE DEF f, t
  <2>5. closed'[t] = FALSE
    BY <2>1, <2>2, Zenon DEF TypeOK
  <2> QED
    BY <1>b, <1>r, <2>1, <2>2, <2>3, <2>4, <2>5 DEF FlatInv
<1>7. CASE EnterOnce
  <2> DEFINE f == [Top EXCEPT !.phase = "once", !.pos = 0, !.table = Len(onceTables)]
  <2>1. stack # <<>> /\ stack' = WithTop(f) /\ UNCHANGED <<raising, crashed>> /\ ~Top.running
    BY <1>7 DEF EnterOnce, LoopRuns
  <2>2. Len(onceTables) \in Nat /\ Top \in Frame
    BY <1>a, <2>1 DEF TypeOK
  <2>3. f \in Frame
    BY <2>2, EnteringFrame, Zenon
  <2>4. ~f.running
    BY <2>1, <2>2 DEF Frame
  <2> HIDE DEF f
  <2> QED
    BY <1>b, <1>r, <2>1, <2>3, <2>4 DEF FlatInv
<1>8. CASE NextOnce
  <2> DEFINE t == onceTables[Top.table][Top.pos + 1]
             f == [Top EXCEPT !.pos = @ + 1, !.task = t, !.running = TRUE, !.served = @ \cup {t}]
  <2>1. stack # <<>> /\ stack' = WithTop(f) /\ closed' = [closed EXCEPT ![t] = FALSE]
        /\ UNCHANGED <<raising, crashed>> /\ Top.phase = "once" /\ Top.pos < Len(onceTables[Top.table])
    BY <1>8 DEF NextOnce, LoopRuns, Execute
  <2>2. Top.table \in DOMAIN onceTables
    BY <2>1, TopFacts DEF TypeOK
  <2>3. onceTables[Top.table] \in Seq(Once) /\ Top.pos \in Nat
    BY <1>a, <2>1, <2>2 DEF TypeOK, Frame
  <2>4. t \in Tasks
    BY <2>1, <2>3 DEF Tasks
  <2>5. f \in Frame
    BY <1>a, <2>1, <2>4, ServingFrame
  <2>6. f.task = t
    BY <1>a, <2>1 DEF Frame
  <2> HIDE DEF f, t
  <2>7. closed'[t] = FALSE
    BY <2>1, <2>4, Zenon DEF TypeOK
  <2> QED
    BY <1>b, <1>r, <2>1, <2>4, <2>5, <2>6, <2>7 DEF FlatInv
<1>d. ASSUME stack # <<>>, stack' = Below PROVE DOMAIN stack' = {} /\ Len(stack') = 0
  <2>a. Len(stack) = 1 /\ Below \in Seq(Frame) /\ Len(Below) = Len(stack) - 1
    BY <1>a, <1>d, StackFacts DEF TypeOK, Below
  <2>1. Below \in Seq(Frame) /\ Len(Below) = 0
    BY <2>a
  <2> QED
    BY <1>d, <2>1
<1>9. CASE EndTrigger
  BY <1>9, <1>d, <1>r DEF EndTrigger, LoopRuns, FlatInv
<1>e. ASSUME stack # <<>>, stack' = WithTop([Top EXCEPT !.running = FALSE]), ~raising', UNCHANGED crashed
      PROVE  FlatInv'
  <2> DEFINE f == [Top EXCEPT !.running = FALSE]
  <2>1. f \in Frame /\ ~f.running
    BY <1>a, <1>e, EndedFrame DEF Frame
  <2>2. stack' = WithTop(f)
    BY <1>e
  <2> HIDE DEF f
  <2> QED
    BY <1>b, <1>e, <2>1, <2>2
<1>10. CASE BodyReturns
  BY <1>10, <1>e, <1>r DEF FlatInv, BodyReturns, InBody
<1>11. CASE BodyFails
  BY <1>11, <1>e, <1>r DEF FlatInv, BodyFails, InBody
<1>12. CASE LogErrorRaises
  <2>1. stack # <<>> /\ Top.running /\ closed[Top.task]
    BY <1>12 DEF LogErrorRaises, InBody, ClosesWithTraceback
  <2> QED
    BY <1>a, <2>1
<1>13. CASE UNCHANGED vars
  BY <1>13, <1>c DEF vars
<1> QED
  BY <1>1, <1>2, <1>3, <1>4, <1>5, <1>6, <1>7, <1>8, <1>9, <1>10, <1>11, <1>12, <1>13 DEF Next

(* FlatInv holds in every behaviour. *)
LEMMA FlatInvCorrect == Spec => []FlatInv
<1>1. Init => FlatInv
  <2> SUFFICES ASSUME Init PROVE FlatInv
    OBVIOUS
  <2>1. DOMAIN stack = {} /\ Len(stack) = 0
    BY DEF Init
  <2> QED
    BY <2>1 DEF Init, FlatInv
<1>2. TypeOK /\ TypeOK' /\ FlatInv /\ [Next]_vars => FlatInv'
  BY FlatStep DEF FlatInv
<1> QED
  BY <1>1, <1>2, TypeInit, TypeStep, PTL DEF Spec

(* Without re-entry the error of a task never leaves Trigger.                *)
THEOREM ErrorsStayInsideCorrect == Spec => []ErrorsStayInside
<1>1. FlatInv => ErrorsStayInside
  BY DEF FlatInv, ErrorsStayInside
<1> QED
  BY <1>1, FlatInvCorrect, PTL

-----------------------------------------------------------------------------
(***************************************************************************)
(* What each action does to the frames, for the invariants that follow.    *)
(***************************************************************************)

(* Replacing the top frame leaves the others where they are. *)
LEMMA TopReplaced ==
  ASSUME TypeOK, stack # <<>>, NEW f \in Frame, stack' = WithTop(f)
  PROVE  /\ stack' # <<>> /\ Len(stack') = Len(stack) /\ DOMAIN stack' = DOMAIN stack /\ Top' = f
         /\ \A d \in DOMAIN stack : stack'[d] = IF d = Len(stack) THEN f ELSE stack[d]
<1>1. Len(stack) \in DOMAIN stack /\ stack \in Seq(Frame)
  BY TopFacts DEF TypeOK
<1>2. /\ DOMAIN stack' = DOMAIN stack /\ Len(stack') = Len(stack) /\ stack' \in Seq(Frame)
      /\ \A d \in DOMAIN stack : stack'[d] = IF d = Len(stack) THEN f ELSE stack[d]
  BY <1>1 DEF WithTop
<1>3. stack' # <<>>
  BY <1>1, <1>2
<1>4. Top' = stack'[Len(stack')]
  BY DEF Top, Last
<1> QED
  BY <1>1, <1>2, <1>3, <1>4

(* A new activation starts with nothing served. *)
LEMMA TriggerEffect ==
  ASSUME TypeOK, Trigger
  PROVE  \E f \in Frame :
           /\ stack' = Append(stack, f) /\ stack' # <<>> /\ Top' = f
           /\ Len(stack') = Len(stack) + 1 /\ DOMAIN stack' = DOMAIN stack \cup {Len(stack) + 1}
           /\ stack'[Len(stack) + 1] = f /\ Len(stack) + 1 \notin DOMAIN stack
           /\ \A d \in DOMAIN stack : stack'[d] = stack[d]
           /\ f.phase = "permanent" /\ f.pos = 0 /\ f.due = ToSet(funcs) /\ f.served = {}
<1> DEFINE f == [phase |-> "permanent", pos |-> 0, table |-> 0, task |-> NoTask,
                 running |-> FALSE, due |-> ToSet(funcs), served |-> {}]
<1>1. f \in Frame
  BY DEF TypeOK, Frame, Phases, ToSet
<1>2. f.phase = "permanent" /\ f.pos = 0 /\ f.due = ToSet(funcs) /\ f.served = {}
  OBVIOUS
<1>3. stack' = Append(stack, f) /\ stack \in Seq(Frame)
  BY DEF Trigger, TypeOK
<1> HIDE DEF f
<1>4. /\ Len(stack') = Len(stack) + 1 /\ DOMAIN stack' = DOMAIN stack \cup {Len(stack) + 1}
      /\ stack'[Len(stack) + 1] = f /\ Len(stack) + 1 \notin DOMAIN stack
      /\ \A d \in DOMAIN stack : stack'[d] = stack[d]
  BY <1>1, <1>3
<1>5. stack' # <<>> /\ Top' = stack'[Len(stack')]
  BY <1>3, <1>4 DEF Top, Last
<1> QED
  BY <1>1, <1>2, <1>3, <1>4, <1>5

(* The permanent loop takes the task at the next position. *)
LEMMA NextPermanentEffect ==
  ASSUME TypeOK, NextPermanent
  PROVE  /\ stack # <<>> /\ Top.phase = "permanent" /\ Top.pos + 1 \in 1 .. Len(funcs)
         /\ funcs[Top.pos + 1] \in Permanent
         /\ \E f \in Frame :
              /\ stack' = WithTop(f)
              /\ f.phase = Top.phase /\ f.pos = Top.pos + 1 /\ f.table = Top.table /\ f.due = Top.due
              /\ f.served = Top.served \cup {funcs[Top.pos + 1]}
<1> DEFINE t == funcs[Top.pos + 1]
           f == [Top EXCEPT !.pos = @ + 1, !.task = t, !.running = TRUE, !.served = @ \cup {t}]
<1>1. stack # <<>> /\ stack' = WithTop(f) /\ Top.phase = "permanent" /\ Top.pos < Len(funcs)
  BY DEF NextPermanent, LoopRuns
<1>2. Top \in Frame /\ Top.pos \in Nat /\ funcs \in Seq(Permanent)
  BY <1>1, TopFacts DEF TypeOK, Frame
<1>3. Top.pos + 1 \in 1 .. Len(funcs) /\ t \in Permanent
  BY <1>1, <1>2
<1>4. f \in Frame
  BY <1>2, <1>3, ServingFrame DEF Tasks
<1>5. f.phase = Top.phase /\ f.pos = Top.pos + 1 /\ f.table = Top.table /\ f.due = Top.due
      /\ f.served = Top.served \cup {t}
  BY <1>2 DEF Frame
<1> QED
  BY <1>1, <1>3, <1>4, <1>5, Zenon

(* The once loop starts at the beginning of the current table. *)
LEMMA EnterOnceEffect ==
  ASSUME TypeOK, EnterOnce
  PROVE  /\ stack # <<>> /\ Top.phase = "permanent" /\ Top.pos >= Len(funcs)
         /\ \E f \in Frame :
              /\ stack' = WithTop(f)
              /\ f.phase = "once" /\ f.pos = 0 /\ f.table = Len(onceTables) /\ f.due = Top.due
              /\ f.served = Top.served
<1> DEFINE f == [Top EXCEPT !.phase = "once", !.pos = 0, !.table = Len(onceTables)]
<1>1. stack # <<>> /\ stack' = WithTop(f) /\ Top.phase = "permanent" /\ Top.pos >= Len(funcs)
  BY DEF EnterOnce, LoopRuns
<1>2. Top \in Frame /\ Len(onceTables) \in Nat
  BY <1>1, TopFacts DEF TypeOK
<1>3. f \in Frame
  BY <1>2, EnteringFrame, Zenon
<1>4. f.phase = "once" /\ f.pos = 0 /\ f.table = Len(onceTables) /\ f.due = Top.due /\ f.served = Top.served
  BY <1>2 DEF Frame
<1> QED
  BY <1>1, <1>3, <1>4, Zenon

(* The once loop takes the task at the next position of its table. *)
LEMMA NextOnceEffect ==
  ASSUME TypeOK, NextOnce
  PROVE  /\ stack # <<>> /\ Top.phase = "once" /\ Top.pos \in Nat /\ Top.table \in DOMAIN onceTables
         /\ onceTables[Top.table] \in Seq(Once)
         /\ Top.pos + 1 \in 1 .. Len(onceTables[Top.table])
         /\ onceTables[Top.table][Top.pos + 1] \in Once
         /\ runs' = [runs EXCEPT ![onceTables[Top.table][Top.pos + 1]] = @ + 1]
         /\ \E f \in Frame :
              /\ stack' = WithTop(f)
              /\ f.phase = Top.phase /\ f.pos = Top.pos + 1 /\ f.table = Top.table /\ f.due = Top.due
              /\ f.served = Top.served \cup {onceTables[Top.table][Top.pos + 1]}
<1> DEFINE t == onceTables[Top.table][Top.pos + 1]
           f == [Top EXCEPT !.pos = @ + 1, !.task = t, !.running = TRUE, !.served = @ \cup {t}]
<1>1. /\ stack # <<>> /\ stack' = WithTop(f) /\ Top.phase = "once"
      /\ Top.pos < Len(onceTables[Top.table]) /\ runs' = [runs EXCEPT ![t] = @ + 1]
  BY DEF NextOnce, LoopRuns
<1>2. Top \in Frame /\ Top.pos \in Nat
  BY <1>1, TopFacts DEF Frame
<1>3. Top.table \in DOMAIN onceTables
  BY <1>1, TopFacts DEF TypeOK
<1>4. onceTables[Top.table] \in Seq(Once)
  BY <1>3 DEF TypeOK
<1>5. Top.pos + 1 \in 1 .. Len(onceTables[Top.table]) /\ t \in Once
  BY <1>1, <1>2, <1>4
<1>6. f \in Frame
  BY <1>2, <1>5, ServingFrame DEF Tasks
<1>7. f.phase = Top.phase /\ f.pos = Top.pos + 1 /\ f.table = Top.table /\ f.due = Top.due
      /\ f.served = Top.served \cup {t}
  BY <1>2 DEF Frame
<1> QED
  BY <1>1, <1>2, <1>3, <1>4, <1>5, <1>6, <1>7, Zenon

(* The end of a task changes nothing of its frame but that it runs. *)
LEMMA EndedEffect ==
  ASSUME TypeOK, BodyReturns \/ BodyFails
  PROVE  /\ stack # <<>> /\ UNCHANGED <<funcs, onceTables, historyVars>>
         /\ \E f \in Frame :
              /\ stack' = WithTop(f)
              /\ f.phase = Top.phase /\ f.pos = Top.pos /\ f.table = Top.table /\ f.due = Top.due
              /\ f.served = Top.served
<1> DEFINE f == [Top EXCEPT !.running = FALSE]
<1>1. stack # <<>> /\ stack' = WithTop(f) /\ UNCHANGED <<funcs, onceTables, historyVars>>
  BY DEF BodyReturns, BodyFails, InBody
<1>2. Top \in Frame
  BY <1>1, TopFacts
<1>3. f \in Frame
  BY <1>2, EndedFrame
<1>4. f.phase = Top.phase /\ f.pos = Top.pos /\ f.table = Top.table /\ f.due = Top.due
      /\ f.served = Top.served
  BY <1>2 DEF Frame
<1> QED
  BY <1>1, <1>3, <1>4, Zenon

-----------------------------------------------------------------------------
(***************************************************************************)
(* ActivationsAreComplete.  What an activation still owes its permanent    *)
(* tasks lies ahead of it in m_funcs, which only grows unless a body       *)
(* removes.                                                                *)
(***************************************************************************)
DueFrame(f) ==
  \A t \in f.due :
    \/ t \in f.served
    \/ f.phase = "permanent" /\ \E i \in f.pos + 1 .. Len(funcs) : funcs[i] = t

DueInv == ~tampered => \A d \in DOMAIN stack : DueFrame(stack[d])

(* Frames that stay where they are keep what they owe while m_funcs only     *)
(* grows at its end.                                                         *)
LEMMA DueKept ==
  ASSUME TypeOK, NEW d \in DOMAIN stack, DueFrame(stack[d]),
         Len(funcs') >= Len(funcs), Len(funcs') \in Nat, \A i \in 1 .. Len(funcs) : funcs'[i] = funcs[i],
         NEW e, stack'[e] = stack[d]
  PROVE  DueFrame(stack[e])'
<1> SUFFICES ASSUME NEW t \in stack[d].due, t \notin stack[d].served
             PROVE  stack[d].phase = "permanent" /\ \E i \in stack[d].pos + 1 .. Len(funcs') : funcs'[i] = t
  BY DEF DueFrame
<1>1. PICK i \in stack[d].pos + 1 .. Len(funcs) : stack[d].phase = "permanent" /\ funcs[i] = t
  BY DEF DueFrame
<1>2. stack[d].pos \in Nat /\ Len(funcs) \in Nat
  <2>1. stack[d] \in Frame /\ funcs \in Seq(Permanent)
    BY DEF TypeOK
  <2> QED
    BY <2>1 DEF Frame
<1>3. i \in 1 .. Len(funcs) /\ i \in stack[d].pos + 1 .. Len(funcs')
  BY <1>1, <1>2
<1> QED
  BY <1>1, <1>3

(* A body that removes has tampered, and no step takes that back. *)
LEMMA TamperedStays == [Next]_vars /\ ~tampered' => ~tampered
BY DEF Next, AddTask, AddTaskOnce, RemoveTask, RemoveOnce, Trigger, NextPermanent, EnterOnce, NextOnce,
       EndTrigger, BodyReturns, BodyFails, LogErrorRaises, vars, historyVars

(* Nor one that has re-entered. *)
LEMMA ReenteredStays == [Next]_vars /\ ~reentered' => ~reentered
BY DEF Next, AddTask, AddTaskOnce, RemoveTask, RemoveOnce, Trigger, NextPermanent, EnterOnce, NextOnce,
       EndTrigger, BodyReturns, BodyFails, LogErrorRaises, vars, historyVars

(* Removal without tampering happens between activations only. *)
LEMMA UntamperedRemoval ==
  ASSUME TypeOK, ProgramRuns, ~(tampered \/ InBody)
  PROVE  stack = <<>> /\ DOMAIN stack = {}
<1>1. stack = <<>>
  BY DEF ProgramRuns, InBody
<1> QED
  BY <1>1

(* Every step keeps what the activations owe ahead of them. *)
LEMMA DueStep == TypeOK /\ DueInv /\ [Next]_vars => DueInv'
<1> SUFFICES ASSUME TypeOK, DueInv, [Next]_vars, ~tampered' PROVE \A d \in DOMAIN stack' : DueFrame(stack[d])'
  BY DEF DueInv
<1> USE DEF historyVars, taskVars
<1>a. \A d \in DOMAIN stack : DueFrame(stack[d])
  BY TamperedStays DEF DueInv
<1>b. ASSUME UNCHANGED <<stack, funcs>> PROVE \A d \in DOMAIN stack' : DueFrame(stack[d])'
  BY <1>a, <1>b DEF DueFrame
<1>c. ASSUME stack # <<>>, NEW f \in Frame, stack' = WithTop(f), UNCHANGED funcs, DueFrame(f)
      PROVE  \A d \in DOMAIN stack' : DueFrame(stack[d])'
  <2> SUFFICES ASSUME NEW d \in DOMAIN stack' PROVE DueFrame(stack[d])'
    OBVIOUS
  <2>1. d \in DOMAIN stack /\ stack'[d] = IF d = Len(stack) THEN f ELSE stack[d]
    BY <1>c, TopReplaced
  <2>2. DueFrame(stack'[d])
    BY <1>a, <1>c, <2>1
  <2> QED
    BY <1>c, <2>2 DEF DueFrame
<1>d. ASSUME stack # <<>>, stack' = Below, UNCHANGED funcs
      PROVE  \A d \in DOMAIN stack' : DueFrame(stack[d])'
  <2> SUFFICES ASSUME NEW d \in DOMAIN stack' PROVE DueFrame(stack[d])'
    OBVIOUS
  <2>1. d \in DOMAIN stack /\ stack'[d] = stack[d]
    BY <1>d, BelowFacts
  <2>2. DueFrame(stack'[d])
    BY <1>a, <2>1
  <2> QED
    BY <1>d, <2>2 DEF DueFrame
<1>t. stack # <<>> => DueFrame(Top) /\ Top \in Frame
  BY <1>a, TopFacts
<1>1. ASSUME NEW t \in Permanent, AddTask(t) PROVE \A d \in DOMAIN stack' : DueFrame(stack[d])'
  <2>1. funcs' = Append(funcs, t) /\ stack' = stack /\ funcs \in Seq(Permanent)
    BY <1>1 DEF AddTask, TypeOK
  <2>2. Len(funcs') \in Nat /\ Len(funcs') >= Len(funcs) /\ \A i \in 1 .. Len(funcs) : funcs'[i] = funcs[i]
    BY <2>1
  <2> QED
    BY <1>a, <2>1, <2>2, DueKept
<1>2. ASSUME NEW t \in Once, AddTaskOnce(t) PROVE \A d \in DOMAIN stack' : DueFrame(stack[d])'
  BY <1>2, <1>b DEF AddTaskOnce
<1>3. ASSUME NEW i \in 1 .. MaxListeners, RemoveTask(i) PROVE \A d \in DOMAIN stack' : DueFrame(stack[d])'
  BY <1>3, UntamperedRemoval DEF RemoveTask
<1>4. ASSUME NEW i \in DOMAIN CurrentOnce, RemoveOnce(i) PROVE \A d \in DOMAIN stack' : DueFrame(stack[d])'
  BY <1>4, <1>b DEF RemoveOnce
<1>5. CASE Trigger
  <2>1. PICK f \in Frame :
          /\ DOMAIN stack' = DOMAIN stack \cup {Len(stack) + 1} /\ stack'[Len(stack) + 1] = f
          /\ \A d \in DOMAIN stack : stack'[d] = stack[d]
          /\ f.phase = "permanent" /\ f.pos = 0 /\ f.due = ToSet(funcs)
    BY <1>5, TriggerEffect
  <2>2. funcs' = funcs
    BY <1>5 DEF Trigger
  <2>3. DueFrame(f)
    <3>1. \A t \in ToSet(funcs) : \E i \in 0 + 1 .. Len(funcs) : funcs[i] = t
      <4>1. funcs \in Seq(Permanent) /\ DOMAIN funcs = 1 .. Len(funcs)
        BY DEF TypeOK
      <4> QED
        BY <4>1 DEF ToSet
    <3> QED
      BY <2>1, <3>1 DEF DueFrame
  <2>4. ASSUME NEW d \in DOMAIN stack' PROVE DueFrame(stack[d])'
    <3>1. DueFrame(stack'[d])
      BY <1>a, <2>1, <2>3
    <3> QED
      BY <2>2, <3>1 DEF DueFrame
  <2> QED
    BY <2>4
<1>6. CASE NextPermanent
  <2>1. PICK f \in Frame :
          /\ stack # <<>> /\ stack' = WithTop(f) /\ Top.phase = "permanent"
          /\ f.phase = Top.phase /\ f.pos = Top.pos + 1 /\ f.due = Top.due
          /\ f.served = Top.served \cup {funcs[Top.pos + 1]}
    BY <1>6, NextPermanentEffect
  <2>2. DueFrame(f)
    <3> SUFFICES ASSUME NEW t \in Top.due, t \notin Top.served, t # funcs[Top.pos + 1]
                 PROVE  \E i \in f.pos + 1 .. Len(funcs) : funcs[i] = t
      BY <2>1 DEF DueFrame
    <3>1. PICK i \in Top.pos + 1 .. Len(funcs) : funcs[i] = t
      BY <1>t, <2>1 DEF DueFrame
    <3>2. Top.pos \in Nat /\ Len(funcs) \in Nat /\ i # Top.pos + 1
      BY <1>t, <2>1, <3>1 DEF Frame, TypeOK
    <3>3. i \in f.pos + 1 .. Len(funcs)
      BY <2>1, <3>1, <3>2
    <3> QED
      BY <3>1, <3>3
  <2>3. funcs' = funcs
    BY <1>6 DEF NextPermanent
  <2> QED
    BY <1>c, <2>1, <2>2, <2>3
<1>7. CASE EnterOnce
  <2>1. PICK f \in Frame :
          /\ stack # <<>> /\ stack' = WithTop(f) /\ Top.phase = "permanent" /\ Top.pos >= Len(funcs)
          /\ f.due = Top.due /\ f.served = Top.served
    BY <1>7, EnterOnceEffect
  <2>2. DueFrame(f)
    <3>1. Top.pos + 1 .. Len(funcs) = {}
      BY <1>t, <2>1 DEF Frame, TypeOK
    <3> QED
      BY <1>t, <2>1, <3>1 DEF DueFrame
  <2>3. funcs' = funcs
    BY <1>7 DEF EnterOnce
  <2> QED
    BY <1>c, <2>1, <2>2, <2>3
<1>8. CASE NextOnce
  <2>1. PICK f \in Frame :
          /\ stack # <<>> /\ stack' = WithTop(f) /\ Top.phase = "once"
          /\ f.due = Top.due /\ Top.served \subseteq f.served
    BY <1>8, NextOnceEffect
  <2>2. DueFrame(f)
    BY <1>t, <2>1 DEF DueFrame
  <2>3. funcs' = funcs
    BY <1>8 DEF NextOnce
  <2> QED
    BY <1>c, <2>1, <2>2, <2>3
<1>9. CASE EndTrigger
  BY <1>9, <1>d DEF EndTrigger, LoopRuns
<1>10. CASE BodyReturns \/ BodyFails
  <2>1. PICK f \in Frame :
          /\ stack # <<>> /\ stack' = WithTop(f) /\ UNCHANGED funcs
          /\ f.phase = Top.phase /\ f.pos = Top.pos /\ f.due = Top.due /\ f.served = Top.served
    BY <1>10, EndedEffect
  <2>2. DueFrame(f)
    BY <1>t, <2>1 DEF DueFrame
  <2> QED
    BY <1>c, <2>1, <2>2
<1>11. CASE LogErrorRaises
  BY <1>11, <1>d DEF LogErrorRaises, InBody
<1>12. CASE UNCHANGED vars
  BY <1>12, <1>b DEF vars
<1> QED
  BY <1>1, <1>2, <1>3, <1>4, <1>5, <1>6, <1>7, <1>8, <1>9, <1>10, <1>11, <1>12 DEF Next

(* Event:Trigger (init.lua:46-58) executes every permanent task that was    *)
(* registered when it began, whatever bodies do but remove.                  *)
THEOREM ActivationsAreCompleteCorrect == Spec => ActivationsAreComplete
<1>1. Init => DueInv
  <2> SUFFICES ASSUME Init PROVE DOMAIN stack = {}
    BY DEF DueInv
  <2> QED
    BY DEF Init
<1>2. TypeOK /\ DueInv /\ [Next]_vars => [EndTrigger /\ ~tampered => Top.due \subseteq Top.served]_vars
  <2> SUFFICES ASSUME TypeOK, DueInv, EndTrigger, ~tampered PROVE Top.due \subseteq Top.served
    OBVIOUS
  <2>1. stack # <<>> /\ Top.phase = "once"
    BY DEF EndTrigger, LoopRuns
  <2>2. DueFrame(Top)
    BY <2>1, TopFacts DEF DueInv
  <2> QED
    BY <2>1, <2>2 DEF DueFrame
<1> QED
  BY <1>1, <1>2, TypeInit, TypeStep, DueStep, PTL DEF Spec, ActivationsAreComplete

-----------------------------------------------------------------------------
(***************************************************************************)
(* OnceIsOnce.  With one activation at a time, the current table is the    *)
(* one a once loop iterates: the tasks up to its position have run, the    *)
(* others have not, and every other registered task has run or was         *)
(* removed before it could.                                                *)
(***************************************************************************)
Done == IF stack # <<>> /\ Top.phase = "once" THEN Top.pos ELSE 0

Counts ==
  /\ stack # <<>> /\ Top.phase = "once" => Top.table = Len(onceTables)
  /\ Done <= Len(CurrentOnce)
  /\ \A k \in 1 .. Len(CurrentOnce) : runs[CurrentOnce[k]] = IF k <= Done THEN 1 ELSE 0
  /\ \A t \in registered \ ToSet(CurrentOnce) : runs[t] = 1 \/ (t \in removed /\ runs[t] = 0)
  /\ \A t \in Once \ registered : runs[t] = 0

CountInv == ~reentered /\ ~tampered => Counts

(* The table m_onceFuncs is bound to is the last one. *)
LEMMA CurrentFacts ==
  ASSUME TypeOK
  PROVE  /\ Len(onceTables) \in DOMAIN onceTables /\ Len(onceTables) \in Nat \ {0}
         /\ CurrentOnce = onceTables[Len(onceTables)]
         /\ CurrentOnce \in Seq(Once) /\ Len(CurrentOnce) \in Nat
         /\ \A t : t \in ToSet(CurrentOnce) <=> \E k \in 1 .. Len(CurrentOnce) : CurrentOnce[k] = t
<1>1. /\ Len(onceTables) \in DOMAIN onceTables /\ Len(onceTables) \in Nat \ {0}
      /\ CurrentOnce = onceTables[Len(onceTables)] /\ CurrentOnce \in Seq(Once)
  BY DEF TypeOK, CurrentOnce, Last
<1>2. DOMAIN CurrentOnce = 1 .. Len(CurrentOnce) /\ Len(CurrentOnce) \in Nat
  BY <1>1
<1> QED
  BY <1>1, <1>2 DEF ToSet

(* A removed task was counted as one that waits; now it is a removed one. *)
LEMMA RemoveOnceCounts ==
  ASSUME TypeOK, Counts, stack = <<>>, stack' = stack, NEW i \in DOMAIN CurrentOnce, RemoveOnce(i)
  PROVE  Counts'
<1> DEFINE table == RemoveAt(CurrentOnce, i)
<1>1. /\ onceTables' = [onceTables EXCEPT ![Len(onceTables)] = table]
      /\ removed' = removed \cup {CurrentOnce[i]} /\ registered' = registered /\ runs' = runs
  BY CurrentFacts DEF RemoveOnce
<1>2. i \in 1 .. Len(CurrentOnce) /\ Len(CurrentOnce) \in Nat
  BY CurrentFacts
<1>3. /\ table \in Seq(Once) /\ Len(table) = Len(CurrentOnce) - 1
      /\ \A k \in 1 .. Len(CurrentOnce) - 1 :
           table[k] = IF k < i THEN CurrentOnce[k] ELSE CurrentOnce[k + 1]
  BY <1>2, CurrentFacts, RemoveAtFacts, Zenon
<1> HIDE DEF table
<1>4. CurrentOnce' = table /\ Len(onceTables') = Len(onceTables)
  BY <1>1, CurrentFacts DEF TypeOK, CurrentOnce, Last
<1>5. Done = 0 /\ Done' = 0
  BY DEF Done
<1>6. \A k \in 1 .. Len(CurrentOnce) : runs[CurrentOnce[k]] = 0
  BY <1>5 DEF Counts
<1>7. \A k \in 1 .. Len(table) : \E j \in 1 .. Len(CurrentOnce) : table[k] = CurrentOnce[j]
  <2> SUFFICES ASSUME NEW k \in 1 .. Len(table) PROVE \E j \in 1 .. Len(CurrentOnce) : table[k] = CurrentOnce[j]
    OBVIOUS
  <2>1. k \in 1 .. Len(CurrentOnce) /\ k + 1 \in 1 .. Len(CurrentOnce) /\ k \in 1 .. Len(CurrentOnce) - 1
    BY <1>2, <1>3
  <2>2. table[k] = CurrentOnce[k] \/ table[k] = CurrentOnce[k + 1]
    BY <1>3, <2>1
  <2> QED
    BY <2>1, <2>2
<1>8. \A j \in 1 .. Len(CurrentOnce) : j # i => \E k \in 1 .. Len(table) : table[k] = CurrentOnce[j]
  <2> SUFFICES ASSUME NEW j \in 1 .. Len(CurrentOnce), j # i
               PROVE  \E k \in 1 .. Len(table) : table[k] = CurrentOnce[j]
    OBVIOUS
  <2>1. CASE j < i
    <3>1. j \in 1 .. Len(table) /\ j \in 1 .. Len(CurrentOnce) - 1
      BY <1>2, <1>3, <2>1
    <3> QED
      BY <1>3, <2>1, <3>1
  <2>2. CASE j > i
    <3>1. j - 1 \in 1 .. Len(table) /\ j - 1 \in 1 .. Len(CurrentOnce) - 1 /\ ~(j - 1 < i) /\ (j - 1) + 1 = j
      BY <1>2, <1>3, <2>2
    <3>2. table[j - 1] = CurrentOnce[(j - 1) + 1]
      BY <1>3, <3>1
    <3> QED
      BY <3>1, <3>2
  <2> QED
    BY <1>2, <2>1, <2>2
<1>9. ASSUME NEW t \in registered, t \notin ToSet(table)
      PROVE  runs[t] = 1 \/ (t \in removed' /\ runs[t] = 0)
  <2>1. \A k \in 1 .. Len(table) : table[k] # t
    <3>1. DOMAIN table = 1 .. Len(table)
      BY <1>3
    <3> QED
      BY <1>9, <3>1 DEF ToSet
  <2>2. CASE t \in ToSet(CurrentOnce)
    <3>1. PICK j \in 1 .. Len(CurrentOnce) : CurrentOnce[j] = t
      BY <2>2, CurrentFacts
    <3>2. j = i
      BY <1>8, <2>1, <3>1
    <3> QED
      BY <1>1, <1>6, <3>1, <3>2
  <2>3. CASE t \notin ToSet(CurrentOnce)
    BY <1>1, <1>9, <2>3 DEF Counts
  <2> QED
    BY <2>2, <2>3
<1>10. \A k \in 1 .. Len(table) : runs[table[k]] = 0
  BY <1>6, <1>7
<1>11. \A k \in 1 .. Len(table) : ~(k <= 0)
  BY <1>2, <1>3
<1>12. 0 <= Len(table)
  BY <1>2, <1>3
<1> QED
  BY <1>1, <1>4, <1>5, <1>9, <1>10, <1>11, <1>12 DEF Counts

(* A step that leaves the once tasks and the once loop alone. *)
LEMMA SameCounts ==
  ASSUME Counts, Done' = Done, UNCHANGED <<onceTables, registered, removed, runs>>,
         stack' # <<>> /\ Top'.phase = "once" => Top'.table = Len(onceTables)
  PROVE  Counts'
BY DEF Counts, CurrentOnce

(* Every step of a program that neither re-enters nor removes in a body      *)
(* counts each once task right.                                              *)
LEMMA CountsStep ==
  ASSUME TypeOK, TypeOK', OnceInv, FlatInv, Counts, [Next]_vars, ~reentered', ~tampered'
  PROVE  Counts'
<1> USE DEF historyVars, taskVars
<1>r. ~reentered
  BY ReenteredStays
<1>c. /\ CurrentOnce = onceTables[Len(onceTables)] /\ CurrentOnce \in Seq(Once) /\ Len(CurrentOnce) \in Nat
      /\ TableInv(Len(onceTables))
  BY CurrentFacts DEF OnceInv
<1>s. ASSUME UNCHANGED <<stack, onceTables, registered, removed, runs>> PROVE Counts'
  BY <1>s, SameCounts DEF Counts, Done, Top
<1>1. ASSUME NEW t \in Permanent, AddTask(t) PROVE Counts'
  BY <1>1, <1>s DEF AddTask
<1>2. ASSUME NEW t \in Once, AddTaskOnce(t) PROVE Counts'
  <2> DEFINE table == Append(CurrentOnce, t)
  <2>1. /\ t \notin registered /\ registered' = registered \cup {t}
        /\ onceTables' = [onceTables EXCEPT ![Len(onceTables)] = table]
        /\ UNCHANGED <<stack, removed, runs>>
    BY <1>2, <1>c DEF AddTaskOnce
  <2>2. /\ Len(table) = Len(CurrentOnce) + 1 /\ DOMAIN table = 1 .. Len(CurrentOnce) + 1
        /\ \A k \in 1 .. Len(CurrentOnce) : table[k] = CurrentOnce[k]
        /\ table[Len(CurrentOnce) + 1] = t
    BY <1>c
  <2> HIDE DEF table
  <2>3. CurrentOnce' = table /\ Len(onceTables') = Len(onceTables)
    BY <2>1, CurrentFacts DEF TypeOK, CurrentOnce, Last
  <2>4. Done' = Done /\ Top' = Top /\ Done <= Len(CurrentOnce) /\ Done \in Nat
    <3>1. Done' = Done /\ Top' = Top
      BY <2>1 DEF Done, Top
    <3>2. Done \in Nat
      BY TopFacts DEF Done, Frame
    <3> QED
      BY <3>1, <3>2 DEF Counts
  <2>5. ASSUME NEW k \in 1 .. Len(table) PROVE runs[table[k]] = IF k <= Done THEN 1 ELSE 0
    <3>1. CASE k \in 1 .. Len(CurrentOnce)
      BY <2>2, <3>1 DEF Counts
    <3>2. CASE k = Len(CurrentOnce) + 1
      <4>1. ~(k <= Done)
        BY <1>c, <2>4, <3>2
      <4> QED
        BY <2>1, <2>2, <3>2, <4>1 DEF Counts
    <3> QED
      BY <1>c, <2>2, <3>1, <3>2
  <2>6. \A u \in ToSet(CurrentOnce) : u \in ToSet(table)
    <3>1. \A k \in 1 .. Len(CurrentOnce) : k \in DOMAIN table
      BY <1>c, <2>2
    <3> QED
      BY <2>2, <3>1, CurrentFacts DEF ToSet
  <2>7. t \in ToSet(table)
    BY <1>c, <2>2 DEF ToSet
  <2>8. \A u \in registered' \ ToSet(table) : runs[u] = 1 \/ (u \in removed /\ runs[u] = 0)
    BY <2>1, <2>6, <2>7 DEF Counts
  <2>9. Done <= Len(table)
    BY <1>c, <2>2, <2>4
  <2> QED
    BY <2>1, <2>3, <2>4, <2>5, <2>8, <2>9 DEF Counts
<1>3. ASSUME NEW i \in 1 .. MaxListeners, RemoveTask(i) PROVE Counts'
  BY <1>3, <1>s DEF RemoveTask
<1>4. ASSUME NEW i \in DOMAIN CurrentOnce, RemoveOnce(i) PROVE Counts'
  BY <1>4, UntamperedRemoval, RemoveOnceCounts DEF RemoveOnce
<1>5. CASE Trigger
  <2>1. stack = <<>> /\ UNCHANGED <<onceTables, registered, removed, runs>>
    BY <1>5 DEF Trigger, ProgramRuns, InBody
  <2>2. Top'.phase = "permanent"
    BY <1>5, TriggerEffect
  <2> QED
    BY <2>1, <2>2, SameCounts DEF Done
<1>6. CASE NextPermanent
  <2>1. stack # <<>> /\ Top.phase = "permanent" /\ Top'.phase = "permanent"
    BY <1>6, NextPermanentEffect, TopReplaced
  <2>2. UNCHANGED <<onceTables, registered, removed, runs>>
    BY <1>6 DEF NextPermanent
  <2> QED
    BY <2>1, <2>2, SameCounts DEF Done
<1>7. CASE EnterOnce
  <2>1. stack # <<>> /\ Top.phase = "permanent" /\ Top'.phase = "once" /\ Top'.pos = 0 /\ Top'.table = Len(onceTables)
    BY <1>7, EnterOnceEffect, TopReplaced
  <2>2. UNCHANGED <<onceTables, registered, removed, runs>>
    BY <1>7 DEF EnterOnce
  <2> QED
    BY <2>1, <2>2, SameCounts DEF Done
<1>8. CASE NextOnce
  <2> DEFINE t == CurrentOnce[Top.pos + 1]
  <2>1. /\ stack # <<>> /\ stack' # <<>> /\ Top.phase = "once" /\ Top'.phase = "once" /\ Top.pos \in Nat
        /\ Top'.pos = Top.pos + 1 /\ Top.table = Len(onceTables) /\ Top'.table = Top.table
    BY <1>8, NextOnceEffect, TopReplaced DEF Counts
  <2>2. Top.pos + 1 \in 1 .. Len(CurrentOnce) /\ t \in Once /\ runs' = [runs EXCEPT ![t] = @ + 1]
    BY <1>8, <1>c, <2>1, NextOnceEffect
  <2>3. UNCHANGED <<onceTables, registered, removed>> /\ CurrentOnce' = CurrentOnce
    BY <1>8 DEF NextOnce, CurrentOnce
  <2>4. Done = Top.pos /\ Done' = Top.pos + 1
    BY <2>1 DEF Done
  <2>5. runs[t] = 0
    <3>1. ~(Top.pos + 1 <= Done)
      BY <2>1, <2>4
    <3> QED
      BY <2>2, <3>1 DEF Counts
  <2>6. \A u \in Once : runs'[u] = IF u = t THEN 1 ELSE runs[u]
    BY <2>2, <2>5 DEF TypeOK
  <2>7. \A k \in 1 .. Len(CurrentOnce) : CurrentOnce[k] \in Once /\ (CurrentOnce[k] = t => k = Top.pos + 1)
    BY <1>c, <2>2 DEF TableInv
  <2>8. t \in registered /\ t \in ToSet(CurrentOnce) /\ registered \subseteq Once
    BY <1>c, <2>2, CurrentFacts DEF TableInv, TypeOK
  <2> HIDE DEF t
  <2>9. ASSUME NEW k \in 1 .. Len(CurrentOnce) PROVE runs'[CurrentOnce[k]] = IF k <= Top.pos + 1 THEN 1 ELSE 0
    <3>1. CASE k = Top.pos + 1
      BY <2>1, <2>6, <2>7, <3>1, <2>2 DEF t
    <3>2. CASE k # Top.pos + 1
      <4>1. k <= Top.pos + 1 <=> k <= Top.pos
        BY <2>1, <3>2
      <4>2. runs'[CurrentOnce[k]] = runs[CurrentOnce[k]]
        BY <2>6, <2>7, <3>2
      <4> QED
        BY <2>4, <4>1, <4>2 DEF Counts
    <3> QED
      BY <3>1, <3>2
  <2>10. Top.pos + 1 <= Len(CurrentOnce)
    BY <1>c, <2>2
  <2>11. \A u \in registered \ ToSet(CurrentOnce) : runs'[u] = 1 \/ (u \in removed /\ runs'[u] = 0)
    BY <2>6, <2>8 DEF Counts
  <2>12. \A u \in Once \ registered : runs'[u] = 0
    BY <2>6, <2>8 DEF Counts
  <2> QED
    BY <2>1, <2>3, <2>4, <2>9, <2>10, <2>11, <2>12 DEF Counts
<1>9. CASE EndTrigger
  <2>1. /\ stack # <<>> /\ Top.phase = "once" /\ Top.pos >= Len(onceTables[Top.table])
        /\ onceTables' = Append(onceTables, <<>>) /\ stack' = Below
        /\ UNCHANGED <<registered, removed, runs>>
    BY <1>9 DEF EndTrigger, LoopRuns
  <2>2. stack' = <<>>
    <3>1. Len(stack) <= 1 /\ Len(stack) \in Nat \ {0} /\ Below \in Seq(Frame) /\ Len(Below) = Len(stack) - 1
      BY <1>r, <2>1, StackFacts DEF FlatInv, TypeOK, Below
    <3>2. Len(Below) = 0
      BY <3>1
    <3> QED
      BY <2>1, <3>1, <3>2
  <2>3. CurrentOnce' = <<>> /\ Len(CurrentOnce') = 0 /\ ToSet(CurrentOnce') = {}
    <3>1. CurrentOnce' = <<>>
      BY <2>1 DEF TypeOK, CurrentOnce, Last
    <3> QED
      BY <3>1 DEF ToSet
  <2>4. \A k \in 1 .. Len(CurrentOnce) : runs[CurrentOnce[k]] = 1
    <3>1. Top.table = Len(onceTables) /\ Done = Top.pos /\ Top.pos \in Nat
      BY <2>1, TopFacts DEF Counts, Done, Frame
    <3>2. \A k \in 1 .. Len(CurrentOnce) : k <= Done
      BY <1>c, <2>1, <3>1
    <3> QED
      BY <3>2 DEF Counts
  <2>5. \A t \in registered : runs[t] = 1 \/ (t \in removed /\ runs[t] = 0)
    BY <2>4, CurrentFacts DEF Counts
  <2>6. Done' = 0
    BY <2>2 DEF Done
  <2>7. 1 .. Len(CurrentOnce') = {} /\ 0 <= Len(CurrentOnce')
    BY <2>3
  <2> QED
    BY <2>1, <2>2, <2>3, <2>5, <2>6, <2>7 DEF Counts
<1>10. CASE BodyReturns \/ BodyFails
  <2>1. /\ stack # <<>> /\ stack' # <<>> /\ UNCHANGED <<onceTables, registered, removed, runs>>
        /\ Top'.phase = Top.phase /\ Top'.pos = Top.pos /\ Top'.table = Top.table
    BY <1>10, EndedEffect, TopReplaced
  <2> QED
    BY <2>1, SameCounts DEF Counts, Done
<1>11. CASE LogErrorRaises
  <2>1. stack # <<>> /\ Top.running /\ closed[Top.task]
    BY <1>11 DEF LogErrorRaises, InBody, ClosesWithTraceback
  <2> QED
    BY <1>r, <2>1, TopFacts DEF FlatInv
<1>12. CASE UNCHANGED vars
  BY <1>12, <1>s DEF vars
<1> QED
  BY <1>1, <1>2, <1>3, <1>4, <1>5, <1>6, <1>7, <1>8, <1>9, <1>10, <1>11, <1>12 DEF Next

(* Where neither a body triggers nor a body removes, a task registered with  *)
(* AddTaskOnce is executed once, unless it is taken out before: never again, *)
(* and never forgotten (init.lua:29-58).                                     *)
THEOREM OnceIsOnceCorrect == Spec => []OnceIsOnce
<1>1. Init => CountInv
  <2> SUFFICES ASSUME Init PROVE Counts
    BY DEF CountInv
  <2>1. stack = <<>> /\ Done = 0 /\ registered = {} /\ \A t \in Once : runs[t] = 0
    BY DEF Init, Done
  <2>2. CurrentOnce = <<>> /\ Len(CurrentOnce) = 0
    BY DEF Init, CurrentOnce, Last
  <2>3. 1 .. Len(CurrentOnce) = {} /\ 0 <= Len(CurrentOnce)
    BY <2>2
  <2> QED
    BY <2>1, <2>3 DEF Counts
<1>2. TypeOK /\ TypeOK' /\ OnceInv /\ FlatInv /\ CountInv /\ [Next]_vars => CountInv'
  <2> SUFFICES ASSUME TypeOK, TypeOK', OnceInv, FlatInv, CountInv, [Next]_vars, ~reentered', ~tampered'
               PROVE  Counts'
    BY DEF CountInv
  <2>1. ~reentered /\ ~tampered
    BY TamperedStays, ReenteredStays
  <2>2. Counts
    BY <2>1 DEF CountInv
  <2> QED
    BY <2>2, CountsStep
<1>3. TypeOK /\ CountInv => OnceIsOnce
  <2> SUFFICES ASSUME TypeOK, Counts, NEW t \in registered
               PROVE  \/ t \in removed /\ runs[t] = 0 /\ t \notin ToSet(CurrentOnce)
                      \/ t \in ToSet(CurrentOnce) /\ runs[t] = 0
                      \/ t \in ToSet(CurrentOnce) /\ runs[t] = 1 /\ stack # <<>>
                      \/ t \notin ToSet(CurrentOnce) /\ runs[t] = 1
    BY DEF CountInv, OnceIsOnce
  <2>1. CASE t \in ToSet(CurrentOnce)
    <3>1. PICK k \in 1 .. Len(CurrentOnce) : CurrentOnce[k] = t
      BY <2>1, CurrentFacts
    <3>2. runs[t] = IF k <= Done THEN 1 ELSE 0
      BY <3>1 DEF Counts
    <3>3. k <= Done => stack # <<>>
      BY <3>1, CurrentFacts DEF Done
    <3> QED
      BY <2>1, <3>2, <3>3
  <2>2. CASE t \notin ToSet(CurrentOnce)
    BY <2>2 DEF Counts
  <2> QED
    BY <2>1, <2>2
<1> QED
  BY <1>1, <1>2, <1>3, TypeInit, TypeStep, OnceInvInit, OnceInvStep, FlatInvCorrect, PTL DEF Spec

-----------------------------------------------------------------------------
(***************************************************************************)
(* OnceBound.  While a table is current, every execution of one of its     *)
(* tasks was by an activation that is still on the stack or was cut short: *)
(* one that ended would have replaced the table.  Afterwards only those    *)
(* that entered the table before can execute its tasks, once each.         *)
(***************************************************************************)
Served(s, t) == {d \in DOMAIN s : t \in s[d].served}

Ahead(s, t, g) == {d \in DOMAIN s : s[d].phase = "once" /\ s[d].table = g /\ t \notin s[d].served}

InTable(t, g) == \E k \in 1 .. Len(onceTables[g]) : onceTables[g][k] = t

ShareInv ==
  /\ Len(stack) <= MaxDepth
  /\ \A g, h \in DOMAIN onceTables : \A t \in Once : InTable(t, g) /\ InTable(t, h) => g = h
  /\ \A t \in Once : runs[t] <= MaxDepth + aborted
  /\ \A t \in Once \ registered : runs[t] = 0
  /\ \A t \in Once : InTable(t, Len(onceTables)) => runs[t] <= Cardinality(Served(stack, t)) + aborted
  /\ \A g \in DOMAIN onceTables : \A t \in Once : g # Len(onceTables) /\ InTable(t, g) =>
       runs[t] + Cardinality(Ahead(stack, t, g)) <= MaxDepth + aborted

(* The activations that served a task and those that still may are different *)
(* ones, and all on the stack.                                               *)
LEMMA SharesBounded ==
  ASSUME NEW s \in Seq(Frame), NEW t, NEW g
  PROVE  /\ IsFiniteSet(Served(s, t)) /\ Cardinality(Served(s, t)) \in Nat
         /\ IsFiniteSet(Ahead(s, t, g)) /\ Cardinality(Ahead(s, t, g)) \in Nat
         /\ Cardinality(Served(s, t)) + Cardinality(Ahead(s, t, g)) <= Len(s)
<1>1. DOMAIN s = 1 .. Len(s) /\ Len(s) \in Nat
  OBVIOUS
<1>2. IsFiniteSet(1 .. Len(s)) /\ Cardinality(1 .. Len(s)) = Len(s)
  <2>1. IsFiniteSet(1 .. Len(s)) /\ Cardinality(1 .. Len(s)) = IF 1 > Len(s) THEN 0 ELSE Len(s) - 1 + 1
    BY <1>1, FS_Interval
  <2> QED
    BY <1>1, <2>1
<1>3. Served(s, t) \in SUBSET (1 .. Len(s)) /\ Ahead(s, t, g) \in SUBSET (1 .. Len(s))
  BY <1>1 DEF Served, Ahead
<1>4. Served(s, t) \cap Ahead(s, t, g) = {}
  BY DEF Served, Ahead
<1>5. IsFiniteSet(Served(s, t)) /\ IsFiniteSet(Ahead(s, t, g))
  BY <1>2, <1>3, FS_Subset
<1>6. Cardinality(Served(s, t)) \in Nat /\ Cardinality(Ahead(s, t, g)) \in Nat
  BY <1>5, FS_CardinalityType
<1>7. Cardinality(Served(s, t) \cup Ahead(s, t, g)) = Cardinality(Served(s, t)) + Cardinality(Ahead(s, t, g))
  <2>1. Cardinality(Served(s, t) \cup Ahead(s, t, g))
          = Cardinality(Served(s, t)) + Cardinality(Ahead(s, t, g)) - Cardinality({})
    BY <1>4, <1>5, FS_Union
  <2> QED
    BY <1>6, <2>1, FS_EmptySet
<1>8. Cardinality(Served(s, t) \cup Ahead(s, t, g)) <= Len(s)
  <2>1. Served(s, t) \cup Ahead(s, t, g) \in SUBSET (1 .. Len(s))
    BY <1>3
  <2> QED
    BY <1>2, <2>1, FS_Subset
<1> QED
  BY <1>5, <1>6, <1>7, <1>8

(* A smaller set of activations has no more members. *)
LEMMA FewerShares ==
  ASSUME NEW s \in Seq(Frame), NEW t, NEW g, NEW T \in SUBSET Ahead(s, t, g)
  PROVE  Cardinality(T) \in Nat /\ Cardinality(T) <= Cardinality(Ahead(s, t, g))
<1>1. IsFiniteSet(T) /\ Cardinality(T) <= Cardinality(Ahead(s, t, g))
  BY SharesBounded, FS_Subset
<1> QED
  BY <1>1, FS_CardinalityType

(* What a new top frame changes in both sets. *)
LEMMA ReplacedShares ==
  ASSUME TypeOK, stack # <<>>, NEW f \in Frame, stack' = WithTop(f), NEW t, Top.served \subseteq f.served
  PROVE  /\ Len(stack) \in DOMAIN stack
         /\ (t \in f.served => t \in Top.served) => Served(stack', t) = Served(stack, t)
         /\ t \in f.served /\ t \notin Top.served =>
              Served(stack', t) = Served(stack, t) \cup {Len(stack)} /\ Len(stack) \notin Served(stack, t)
         /\ \A g : f.table # g \/ (f.phase = Top.phase /\ f.table = Top.table) =>
              Ahead(stack', t, g) \subseteq Ahead(stack, t, g)
         /\ \A g : t \in f.served => Len(stack) \notin Ahead(stack', t, g)
<1>1. /\ DOMAIN stack' = DOMAIN stack /\ Len(stack) \in DOMAIN stack /\ Top = stack[Len(stack)]
      /\ \A d \in DOMAIN stack : stack'[d] = IF d = Len(stack) THEN f ELSE stack[d]
  BY TopReplaced, TopFacts
<1>2. (t \in f.served => t \in Top.served) => Served(stack', t) = Served(stack, t)
  BY <1>1 DEF Served
<1>3. t \in f.served /\ t \notin Top.served =>
        Served(stack', t) = Served(stack, t) \cup {Len(stack)} /\ Len(stack) \notin Served(stack, t)
  BY <1>1 DEF Served
<1>4. \A g : f.table # g \/ (f.phase = Top.phase /\ f.table = Top.table) =>
        Ahead(stack', t, g) \subseteq Ahead(stack, t, g)
  BY <1>1 DEF Ahead
<1>5. \A g : t \in f.served => Len(stack) \notin Ahead(stack', t, g)
  BY <1>1 DEF Ahead
<1> QED
  BY <1>1, <1>2, <1>3, <1>4, <1>5

(* What the end of an activation changes in both sets. *)
LEMMA PoppedShares ==
  ASSUME TypeOK, stack # <<>>, NEW t, NEW g
  PROVE  /\ Served(Below, t) = Served(stack, t) \ {Len(stack)}
         /\ Ahead(Below, t, g) \subseteq Ahead(stack, t, g)
         /\ Below \in Seq(Frame) /\ Len(Below) = Len(stack) - 1
<1>1. /\ Below \in Seq(Frame) /\ Len(Below) = Len(stack) - 1 /\ Len(stack) \in Nat \ {0}
      /\ \A d \in 1 .. Len(stack) - 1 : Below[d] = stack[d]
  BY StackFacts DEF TypeOK, Below
<1>2. DOMAIN Below = 1 .. Len(stack) - 1 /\ DOMAIN stack = 1 .. Len(stack)
  BY <1>1 DEF TypeOK
<1>3. DOMAIN Below = DOMAIN stack \ {Len(stack)}
  BY <1>1, <1>2
<1> QED
  BY <1>1, <1>2, <1>3 DEF Served, Ahead

(* A step that touches no table and executes no once task. *)
LEMMA SharesKept ==
  ASSUME TypeOK, TypeOK', ShareInv, Len(stack') <= MaxDepth,
         UNCHANGED <<onceTables, registered, runs, aborted>>,
         \A t \in Once : Served(stack', t) = Served(stack, t),
         \A t \in Once : \A g \in DOMAIN onceTables :
           g # Len(onceTables) => Ahead(stack', t, g) \subseteq Ahead(stack, t, g)
  PROVE  ShareInv'
<1>1. ASSUME NEW g \in DOMAIN onceTables, NEW t \in Once, g # Len(onceTables), InTable(t, g)
      PROVE  runs[t] + Cardinality(Ahead(stack', t, g)) <= MaxDepth + aborted
  <2>1. /\ Cardinality(Ahead(stack', t, g)) \in Nat /\ Cardinality(Ahead(stack, t, g)) \in Nat
        /\ Cardinality(Ahead(stack', t, g)) <= Cardinality(Ahead(stack, t, g))
    BY <1>1, SharesBounded, FewerShares DEF TypeOK
  <2>2. runs[t] + Cardinality(Ahead(stack, t, g)) <= MaxDepth + aborted
    BY <1>1 DEF ShareInv
  <2>3. runs[t] \in Nat /\ aborted \in Nat /\ MaxDepth \in Nat
    BY BoundsAssumption DEF TypeOK
  <2> QED
    BY <2>1, <2>2, <2>3
<1>2. \A t, g : InTable(t, g)' <=> InTable(t, g)
  BY DEF InTable
<1> QED
  BY <1>1, <1>2 DEF ShareInv

(* The program puts a task in the current table: it has not run. *)
LEMMA AddTaskOnceShares ==
  ASSUME TypeOK, TypeOK', ShareInv, OnceInv, NEW t \in Once, AddTaskOnce(t)
  PROVE  ShareInv'
<1> DEFINE table == Append(CurrentOnce, t)
<1>1. /\ t \notin registered /\ registered' = registered \cup {t}
      /\ onceTables' = [onceTables EXCEPT ![Len(onceTables)] = table]
      /\ UNCHANGED <<stack, runs, aborted>>
  BY CurrentFacts DEF AddTaskOnce
<1>2. /\ Len(table) = Len(CurrentOnce) + 1 /\ table[Len(CurrentOnce) + 1] = t
      /\ \A k \in 1 .. Len(CurrentOnce) : table[k] = CurrentOnce[k]
  BY CurrentFacts
<1> HIDE DEF table
<1>3. /\ DOMAIN onceTables' = DOMAIN onceTables /\ Len(onceTables') = Len(onceTables)
      /\ \A g \in DOMAIN onceTables : onceTables'[g] = IF g = Len(onceTables) THEN table ELSE onceTables[g]
  BY <1>1 DEF TypeOK
<1>4. \A g \in DOMAIN onceTables : \A u \in Once : InTable(u, g)' =>
        InTable(u, g) \/ (u = t /\ g = Len(onceTables))
  <2> SUFFICES ASSUME NEW g \in DOMAIN onceTables, NEW k \in 1 .. Len(onceTables'[g]), g = Len(onceTables)
               PROVE  onceTables'[g][k] = t \/ \E j \in 1 .. Len(CurrentOnce) : CurrentOnce[j] = onceTables'[g][k]
    BY <1>3, CurrentFacts DEF InTable
  <2>1. onceTables'[g] = table /\ (k \in 1 .. Len(CurrentOnce) \/ k = Len(CurrentOnce) + 1)
    BY <1>2, <1>3, CurrentFacts
  <2> QED
    BY <1>2, <2>1
<1>5. \A g \in DOMAIN onceTables : ~InTable(t, g)
  BY <1>1 DEF OnceInv, TableInv, InTable
<1>6. runs[t] = 0 /\ Cardinality(Served(stack, t)) \in Nat /\ aborted \in Nat
  BY <1>1, SharesBounded DEF ShareInv, TypeOK
<1>7. \A g, h \in DOMAIN onceTables' : \A u \in Once : InTable(u, g)' /\ InTable(u, h)' => g = h
  BY <1>3, <1>4, <1>5 DEF ShareInv
<1>8. \A u \in Once : InTable(u, Len(onceTables))' => runs[u] <= Cardinality(Served(stack, u)) + aborted
  <2>1. Len(onceTables) \in DOMAIN onceTables /\ (0 <= Cardinality(Served(stack, t)) + aborted)
    BY <1>6, CurrentFacts
  <2> QED
    BY <1>3, <1>4, <1>6, <2>1 DEF ShareInv
<1>9. \A g \in DOMAIN onceTables' : \A u \in Once : g # Len(onceTables') /\ InTable(u, g)' =>
        runs[u] + Cardinality(Ahead(stack, u, g)) <= MaxDepth + aborted
  BY <1>3, <1>4 DEF ShareInv
<1>10. \A u \in Once : runs[u] <= MaxDepth + aborted
  BY DEF ShareInv
<1>11. \A u \in Once \ registered' : runs[u] = 0
  BY <1>1 DEF ShareInv
<1>12. Len(stack) <= MaxDepth
  BY DEF ShareInv
<1> QED
  BY <1>1, <1>3, <1>7, <1>8, <1>9, <1>10, <1>11, <1>12 DEF ShareInv

(* The program takes a task out of the current table. *)
LEMMA RemoveOnceShares ==
  ASSUME TypeOK, TypeOK', ShareInv, NEW i \in DOMAIN CurrentOnce, RemoveOnce(i)
  PROVE  ShareInv'
<1> DEFINE table == RemoveAt(CurrentOnce, i)
<1>1. /\ onceTables' = [onceTables EXCEPT ![Len(onceTables)] = table]
      /\ UNCHANGED <<stack, runs, aborted, registered>>
  BY CurrentFacts DEF RemoveOnce
<1>2. i \in 1 .. Len(CurrentOnce) /\ Len(CurrentOnce) \in Nat
  BY CurrentFacts
<1>3. /\ Len(table) = Len(CurrentOnce) - 1
      /\ \A k \in 1 .. Len(CurrentOnce) - 1 :
           table[k] = IF k < i THEN CurrentOnce[k] ELSE CurrentOnce[k + 1]
  BY <1>2, CurrentFacts, RemoveAtFacts, Zenon
<1> HIDE DEF table
<1>4. /\ DOMAIN onceTables' = DOMAIN onceTables /\ Len(onceTables') = Len(onceTables)
      /\ \A g \in DOMAIN onceTables : onceTables'[g] = IF g = Len(onceTables) THEN table ELSE onceTables[g]
  BY <1>1 DEF TypeOK
<1>5. \A g \in DOMAIN onceTables : \A u \in Once : InTable(u, g)' => InTable(u, g)
  <2> SUFFICES ASSUME NEW g \in DOMAIN onceTables, NEW k \in 1 .. Len(onceTables'[g]), g = Len(onceTables)
               PROVE  \E j \in 1 .. Len(CurrentOnce) : CurrentOnce[j] = onceTables'[g][k]
    BY <1>4, CurrentFacts DEF InTable
  <2>1. /\ onceTables'[g] = table /\ k \in 1 .. Len(CurrentOnce) - 1
        /\ k \in 1 .. Len(CurrentOnce) /\ k + 1 \in 1 .. Len(CurrentOnce)
    BY <1>2, <1>3, <1>4, CurrentFacts
  <2>2. table[k] = CurrentOnce[k] \/ table[k] = CurrentOnce[k + 1]
    BY <1>3, <2>1
  <2> QED
    BY <2>1, <2>2
<1>6. Len(onceTables) \in DOMAIN onceTables
  BY CurrentFacts
<1> QED
  BY <1>1, <1>4, <1>5, <1>6 DEF ShareInv

(* An activation executes a once task it has not executed before. *)
LEMMA NextOnceShares ==
  ASSUME TypeOK, TypeOK', ShareInv, OnceInv, NextOnce
  PROVE  ShareInv'
<1> DEFINE g == Top.table
           t == onceTables[g][Top.pos + 1]
<1>1. /\ stack # <<>> /\ Top.phase = "once" /\ Top.pos \in Nat /\ g \in DOMAIN onceTables
      /\ Top.pos + 1 \in 1 .. Len(onceTables[g]) /\ t \in Once /\ runs' = [runs EXCEPT ![t] = @ + 1]
  BY NextOnceEffect
<1>2. PICK f \in Frame :
        /\ stack' = WithTop(f) /\ f.phase = Top.phase /\ f.table = g
        /\ f.served = Top.served \cup {t}
  BY NextOnceEffect
<1>3. UNCHANGED <<onceTables, registered, aborted>>
  BY DEF NextOnce
<1>4. t \notin Top.served
  <2>1. FrameInv(Top) /\ Top.pos + 1 \in Top.pos + 1 .. Len(onceTables[Top.table])
    BY <1>1, TopFacts DEF OnceInv
  <2> QED
    BY <1>1, <2>1 DEF FrameInv
<1>5. InTable(t, g) /\ t \in registered
  <2>1. TableInv(g)
    BY <1>1 DEF OnceInv
  <2> QED
    BY <1>1, <2>1 DEF InTable, TableInv
<1>6. \A u, h : InTable(u, h)' <=> InTable(u, h)
  BY <1>3 DEF InTable
<1>n. MaxDepth \in Nat /\ aborted \in Nat /\ \A u \in Once : runs[u] \in Nat
  BY BoundsAssumption DEF TypeOK
<1>s. stack \in Seq(Frame) /\ stack' \in Seq(Frame) /\ Len(stack') = Len(stack)
  BY <1>1, <1>2, TopReplaced DEF TypeOK
<1> HIDE DEF t, g
<1>7. runs'[t] = runs[t] + 1 /\ \A u \in Once : u # t => runs'[u] = runs[u]
  BY <1>1 DEF TypeOK
<1>8. \A u : u # t => Served(stack', u) = Served(stack, u)
  BY <1>1, <1>2, ReplacedShares
<1>9. \A u, h : Ahead(stack', u, h) \subseteq Ahead(stack, u, h)
  BY <1>1, <1>2, ReplacedShares DEF g
<1>10. Cardinality(Served(stack', t)) = Cardinality(Served(stack, t)) + 1
  <2>1. Served(stack', t) = Served(stack, t) \cup {Len(stack)} /\ Len(stack) \notin Served(stack, t)
    BY <1>1, <1>2, <1>4, ReplacedShares
  <2>2. IsFiniteSet(Served(stack, t))
    BY <1>s, SharesBounded
  <2> QED
    BY <2>1, <2>2, FS_AddElement
<1>11. Cardinality(Ahead(stack', t, g)) + 1 <= Cardinality(Ahead(stack, t, g))
  <2>1. Len(stack) \in Ahead(stack, t, g)
    BY <1>1, <1>4, TopFacts DEF Ahead, g
  <2>2. Len(stack) \notin Ahead(stack', t, g)
    BY <1>1, <1>2, ReplacedShares
  <2>3. Ahead(stack', t, g) \in SUBSET (Ahead(stack, t, g) \ {Len(stack)})
    BY <1>9, <2>2
  <2>4. /\ IsFiniteSet(Ahead(stack, t, g) \ {Len(stack)})
        /\ Cardinality(Ahead(stack, t, g) \ {Len(stack)}) = Cardinality(Ahead(stack, t, g)) - 1
    BY <1>s, <2>1, SharesBounded, FS_RemoveElement
  <2>5. Cardinality(Ahead(stack', t, g)) <= Cardinality(Ahead(stack, t, g) \ {Len(stack)})
    BY <2>3, <2>4, FS_Subset
  <2> QED
    BY <1>s, <2>4, <2>5, SharesBounded
<1>12. ASSUME NEW u \in Once, InTable(u, Len(onceTables))
       PROVE  runs'[u] <= Cardinality(Served(stack', u)) + aborted
  <2>1. runs[u] <= Cardinality(Served(stack, u)) + aborted
    BY <1>12 DEF ShareInv
  <2>2. Cardinality(Served(stack, u)) \in Nat
    BY <1>s, SharesBounded
  <2>3. CASE u = t
    BY <1>7, <1>10, <1>n, <2>1, <2>2, <2>3
  <2>4. CASE u # t
    BY <1>7, <1>8, <1>12, <2>1, <2>4
  <2> QED
    BY <2>3, <2>4
<1>13. ASSUME NEW h \in DOMAIN onceTables, NEW u \in Once, h # Len(onceTables), InTable(u, h)
       PROVE  runs'[u] + Cardinality(Ahead(stack', u, h)) <= MaxDepth + aborted
  <2>1. runs[u] + Cardinality(Ahead(stack, u, h)) <= MaxDepth + aborted
    BY <1>13 DEF ShareInv
  <2>2. /\ Cardinality(Ahead(stack, u, h)) \in Nat /\ Cardinality(Ahead(stack', u, h)) \in Nat
        /\ Cardinality(Ahead(stack', u, h)) <= Cardinality(Ahead(stack, u, h))
    BY <1>9, <1>s, SharesBounded, FewerShares
  <2>3. CASE u = t
    <3>1. h = g
      BY <1>1, <1>5, <1>13, <2>3 DEF ShareInv
    <3> QED
      BY <1>7, <1>11, <1>n, <2>1, <2>2, <2>3, <3>1
  <2>4. CASE u # t
    BY <1>7, <1>n, <1>13, <2>1, <2>2, <2>4
  <2> QED
    BY <2>3, <2>4
<1>14. ASSUME NEW u \in Once PROVE runs'[u] <= MaxDepth + aborted
  <2>1. CASE u # t
    BY <1>7, <1>14, <2>1 DEF ShareInv
  <2>2. CASE u = t /\ g = Len(onceTables)
    <3>1. runs'[t] <= Cardinality(Served(stack', t)) + aborted
      BY <1>5, <1>12, <2>2
    <3>2. /\ Cardinality(Served(stack', t)) \in Nat /\ Cardinality(Ahead(stack', t, g)) \in Nat
          /\ Cardinality(Served(stack', t)) + Cardinality(Ahead(stack', t, g)) <= Len(stack)
      BY <1>s, SharesBounded
    <3>3. Len(stack) <= MaxDepth /\ Len(stack) \in Nat
      BY <1>s DEF ShareInv
    <3>4. runs'[t] \in Nat
      BY <1>1, <1>7, <1>n
    <3> QED
      BY <1>n, <2>2, <3>1, <3>2, <3>3, <3>4
  <2>3. CASE u = t /\ g # Len(onceTables)
    <3>1. runs'[t] + Cardinality(Ahead(stack', t, g)) <= MaxDepth + aborted
      BY <1>1, <1>5, <1>13, <2>3
    <3>2. Cardinality(Ahead(stack', t, g)) \in Nat /\ runs'[t] \in Nat
      BY <1>s, <1>1, <1>7, <1>n, SharesBounded
    <3> QED
      BY <1>n, <2>3, <3>1, <3>2
  <2> QED
    BY <2>1, <2>2, <2>3
<1>15. \A u \in Once \ registered : runs'[u] = 0
  BY <1>5, <1>7 DEF ShareInv
<1>16. \A h, k \in DOMAIN onceTables : \A u \in Once : InTable(u, h) /\ InTable(u, k) => h = k
  BY DEF ShareInv
<1>17. Len(stack') <= MaxDepth
  BY <1>s DEF ShareInv
<1> QED
  BY <1>3, <1>6, <1>12, <1>13, <1>14, <1>15, <1>16, <1>17 DEF ShareInv

(* The end of an activation replaces the table: whoever served a task of it  *)
(* or still will is on the stack at that moment.                             *)
LEMMA EndTriggerShares ==
  ASSUME TypeOK, TypeOK', ShareInv, EndTrigger
  PROVE  ShareInv'
<1> DEFINE current == Len(onceTables)
<1>1. /\ stack # <<>> /\ stack' = Below /\ onceTables' = Append(onceTables, <<>>)
      /\ UNCHANGED <<registered, runs, aborted>>
  BY DEF EndTrigger, LoopRuns, historyVars
<1>2. /\ DOMAIN onceTables' = DOMAIN onceTables \cup {current + 1} /\ Len(onceTables') = current + 1
      /\ current + 1 \notin DOMAIN onceTables /\ current \in DOMAIN onceTables
      /\ onceTables'[current + 1] = <<>>
      /\ \A g \in DOMAIN onceTables : onceTables'[g] = onceTables[g]
  BY <1>1 DEF TypeOK
<1>3. /\ \A g, u : g = current + 1 => ~InTable(u, g)'
      /\ \A g \in DOMAIN onceTables : \A u : InTable(u, g)' <=> InTable(u, g)
  <2>1. Len(onceTables'[current + 1]) = 0
    BY <1>2
  <2>2. \A g, u : g = current + 1 => ~InTable(u, g)'
    BY <2>1 DEF InTable
  <2>3. \A g \in DOMAIN onceTables : \A u : InTable(u, g)' <=> InTable(u, g)
    BY <1>2 DEF InTable
  <2> QED
    BY <2>2, <2>3
<1>n. MaxDepth \in Nat /\ aborted \in Nat /\ \A u \in Once : runs[u] \in Nat
  BY BoundsAssumption DEF TypeOK
<1>s. stack \in Seq(Frame) /\ Below \in Seq(Frame) /\ Len(stack) \in Nat /\ Len(Below) = Len(stack) - 1
  <2>1. stack \in Seq(Frame)
    BY DEF TypeOK
  <2> QED
    BY <1>1, <2>1, StackFacts DEF Below
<1> HIDE DEF current
<1>4. ASSUME NEW g \in DOMAIN onceTables, NEW u \in Once, InTable(u, g)
      PROVE  runs[u] + Cardinality(Ahead(Below, u, g)) <= MaxDepth + aborted
  <2>1. /\ Cardinality(Ahead(stack, u, g)) \in Nat /\ Cardinality(Ahead(Below, u, g)) \in Nat
        /\ Cardinality(Served(stack, u)) \in Nat
        /\ Cardinality(Ahead(Below, u, g)) <= Cardinality(Ahead(stack, u, g))
        /\ Cardinality(Served(stack, u)) + Cardinality(Ahead(stack, u, g)) <= Len(stack)
    BY <1>1, <1>s, PoppedShares, SharesBounded, FewerShares
  <2>2. CASE g = current
    <3>1. runs[u] <= Cardinality(Served(stack, u)) + aborted /\ Len(stack) <= MaxDepth
      BY <1>4, <2>2 DEF ShareInv, current
    <3> QED
      BY <1>n, <1>s, <2>1, <3>1
  <2>3. CASE g # current
    <3>1. runs[u] + Cardinality(Ahead(stack, u, g)) <= MaxDepth + aborted
      BY <1>4, <2>3 DEF ShareInv, current
    <3> QED
      BY <1>n, <2>1, <3>1
  <2> QED
    BY <2>2, <2>3
<1>5. Len(Below) <= MaxDepth
  BY <1>n, <1>s DEF ShareInv
<1>6. \A g, h \in DOMAIN onceTables' : \A u \in Once : InTable(u, g)' /\ InTable(u, h)' => g = h
  BY <1>2, <1>3 DEF ShareInv
<1>7. \A g \in DOMAIN onceTables' : \A u \in Once : g # Len(onceTables') /\ InTable(u, g)' =>
        runs[u] + Cardinality(Ahead(Below, u, g)) <= MaxDepth + aborted
  BY <1>2, <1>3, <1>4
<1>8. \A u \in Once : ~InTable(u, Len(onceTables))'
  BY <1>2, <1>3
<1>9. /\ \A u \in Once : runs[u] <= MaxDepth + aborted
      /\ \A u \in Once \ registered : runs[u] = 0
  BY DEF ShareInv
<1> QED
  BY <1>1, <1>5, <1>6, <1>7, <1>8, <1>9 DEF ShareInv

(* An activation that an error cuts short leaves the table to the next one. *)
LEMMA LogErrorShares ==
  ASSUME TypeOK, TypeOK', ShareInv, LogErrorRaises
  PROVE  ShareInv'
<1>1. /\ stack # <<>> /\ stack' = Below /\ aborted' = aborted + 1
      /\ UNCHANGED <<onceTables, registered, runs>>
  BY DEF LogErrorRaises, InBody
<1>2. \A u, g : InTable(u, g)' <=> InTable(u, g)
  BY <1>1 DEF InTable
<1>n. MaxDepth \in Nat /\ aborted \in Nat /\ \A u \in Once : runs[u] \in Nat
  BY BoundsAssumption DEF TypeOK
<1>s. stack \in Seq(Frame) /\ Below \in Seq(Frame) /\ Len(stack) \in Nat /\ Len(Below) = Len(stack) - 1
  <2>1. stack \in Seq(Frame)
    BY DEF TypeOK
  <2> QED
    BY <1>1, <2>1, StackFacts DEF Below
<1>3. ASSUME NEW u \in Once, InTable(u, Len(onceTables))
      PROVE  runs[u] <= Cardinality(Served(Below, u)) + (aborted + 1)
  <2>1. runs[u] <= Cardinality(Served(stack, u)) + aborted
    BY <1>3 DEF ShareInv
  <2>2. Served(Below, u) = Served(stack, u) \ {Len(stack)}
    BY <1>1, PoppedShares
  <2>3. IsFiniteSet(Served(stack, u)) /\ Cardinality(Served(stack, u)) \in Nat
    BY <1>s, SharesBounded
  <2>4. Cardinality(Served(Below, u)) >= Cardinality(Served(stack, u)) - 1
        /\ Cardinality(Served(Below, u)) \in Nat
    <3>1. Cardinality(Served(Below, u)) =
            IF Len(stack) \in Served(stack, u) THEN Cardinality(Served(stack, u)) - 1
            ELSE Cardinality(Served(stack, u))
      BY <2>2, <2>3, FS_RemoveElement
    <3>2. Cardinality(Served(Below, u)) \in Nat
      BY <1>s, SharesBounded
    <3> QED
      BY <2>3, <3>1, <3>2
  <2> QED
    BY <1>n, <1>3, <2>1, <2>3, <2>4
<1>4. ASSUME NEW g \in DOMAIN onceTables, NEW u \in Once, g # Len(onceTables), InTable(u, g)
      PROVE  runs[u] + Cardinality(Ahead(Below, u, g)) <= MaxDepth + (aborted + 1)
  <2>1. /\ Cardinality(Ahead(stack, u, g)) \in Nat /\ Cardinality(Ahead(Below, u, g)) \in Nat
        /\ Cardinality(Ahead(Below, u, g)) <= Cardinality(Ahead(stack, u, g))
    BY <1>1, <1>s, PoppedShares, SharesBounded, FewerShares
  <2>2. runs[u] + Cardinality(Ahead(stack, u, g)) <= MaxDepth + aborted
    BY <1>4 DEF ShareInv
  <2> QED
    BY <1>n, <1>4, <2>1, <2>2
<1>5. \A u \in Once : runs[u] <= MaxDepth + (aborted + 1)
  BY <1>n DEF ShareInv
<1>6. Len(Below) <= MaxDepth
  BY <1>n, <1>s DEF ShareInv
<1>7. /\ \A g, h \in DOMAIN onceTables : \A u \in Once : InTable(u, g) /\ InTable(u, h) => g = h
      /\ \A u \in Once \ registered : runs[u] = 0
  BY DEF ShareInv
<1> QED
  BY <1>1, <1>2, <1>3, <1>4, <1>5, <1>6, <1>7 DEF ShareInv

(* Every step keeps the account of who executed and who still may. *)
LEMMA ShareStep == TypeOK /\ TypeOK' /\ OnceInv /\ ShareInv /\ [Next]_vars => ShareInv'
<1> SUFFICES ASSUME TypeOK, TypeOK', OnceInv, ShareInv, [Next]_vars PROVE ShareInv'
  OBVIOUS
<1> USE DEF historyVars, taskVars
<1>s. ASSUME UNCHANGED <<stack, onceTables, registered, runs, aborted>> PROVE ShareInv'
  <2>1. Len(stack') <= MaxDepth
    BY <1>s DEF ShareInv
  <2> QED
    BY <1>s, <2>1, SharesKept
<1>f. ASSUME stack # <<>>, NEW f \in Frame, stack' = WithTop(f),
             UNCHANGED <<onceTables, registered, runs, aborted>>, Top.served \subseteq f.served,
             f.served \cap Once \subseteq Top.served,
             f.table = Len(onceTables) \/ (f.phase = Top.phase /\ f.table = Top.table)
      PROVE  ShareInv'
  <2>1. Len(stack') <= MaxDepth
    BY <1>f, TopReplaced DEF ShareInv
  <2>2. \A t \in Once : Served(stack', t) = Served(stack, t)
    BY <1>f, ReplacedShares
  <2>3. \A t \in Once : \A g \in DOMAIN onceTables :
          g # Len(onceTables) => Ahead(stack', t, g) \subseteq Ahead(stack, t, g)
    BY <1>f, ReplacedShares
  <2> QED
    BY <1>f, <2>1, <2>2, <2>3, SharesKept
<1>1. ASSUME NEW t \in Permanent, AddTask(t) PROVE ShareInv'
  BY <1>1, <1>s DEF AddTask
<1>2. ASSUME NEW t \in Once, AddTaskOnce(t) PROVE ShareInv'
  BY <1>2, AddTaskOnceShares
<1>3. ASSUME NEW i \in 1 .. MaxListeners, RemoveTask(i) PROVE ShareInv'
  BY <1>3, <1>s DEF RemoveTask
<1>4. ASSUME NEW i \in DOMAIN CurrentOnce, RemoveOnce(i) PROVE ShareInv'
  BY <1>4, RemoveOnceShares
<1>5. CASE Trigger
  <2>1. PICK f \in Frame :
          /\ Len(stack') = Len(stack) + 1 /\ DOMAIN stack' = DOMAIN stack \cup {Len(stack) + 1}
          /\ stack'[Len(stack) + 1] = f /\ Len(stack) + 1 \notin DOMAIN stack
          /\ \A d \in DOMAIN stack : stack'[d] = stack[d]
          /\ f.phase = "permanent" /\ f.served = {}
    BY <1>5, TriggerEffect
  <2>2. Len(stack') <= MaxDepth
    <3>1. Len(stack) < MaxDepth /\ MaxDepth \in Nat /\ Len(stack) \in Nat
      BY <1>5, BoundsAssumption DEF Trigger, TypeOK
    <3> QED
      BY <2>1, <3>1
  <2>3. \A t, g : Served(stack', t) = Served(stack, t) /\ Ahead(stack', t, g) = Ahead(stack, t, g)
    BY <2>1 DEF Served, Ahead
  <2>4. UNCHANGED <<onceTables, registered, runs, aborted>>
    BY <1>5 DEF Trigger
  <2> QED
    BY <2>2, <2>3, <2>4, SharesKept
<1>6. CASE NextPermanent
  <2>1. PICK f \in Frame :
          /\ stack # <<>> /\ stack' = WithTop(f) /\ f.phase = Top.phase /\ f.table = Top.table
          /\ f.served = Top.served \cup {funcs[Top.pos + 1]} /\ funcs[Top.pos + 1] \in Permanent
    BY <1>6, NextPermanentEffect
  <2>2. f.served \cap Once \subseteq Top.served
    BY <2>1, TasksAssumption
  <2>3. UNCHANGED <<onceTables, registered, runs, aborted>>
    BY <1>6 DEF NextPermanent
  <2> QED
    BY <1>f, <2>1, <2>2, <2>3
<1>7. CASE EnterOnce
  <2>1. PICK f \in Frame :
          /\ stack # <<>> /\ stack' = WithTop(f) /\ f.table = Len(onceTables) /\ f.served = Top.served
    BY <1>7, EnterOnceEffect
  <2>2. UNCHANGED <<onceTables, registered, runs, aborted>>
    BY <1>7 DEF EnterOnce
  <2> QED
    BY <1>f, <2>1, <2>2
<1>8. CASE NextOnce
  BY <1>8, NextOnceShares
<1>9. CASE EndTrigger
  BY <1>9, EndTriggerShares
<1>10. CASE BodyReturns \/ BodyFails
  <2>1. PICK f \in Frame :
          /\ stack # <<>> /\ stack' = WithTop(f) /\ UNCHANGED <<onceTables, registered, runs, aborted>>
          /\ f.phase = Top.phase /\ f.table = Top.table /\ f.served = Top.served
    BY <1>10, EndedEffect
  <2> QED
    BY <1>f, <2>1
<1>11. CASE LogErrorRaises
  BY <1>11, LogErrorShares
<1>12. CASE UNCHANGED vars
  BY <1>12, <1>s DEF vars
<1> QED
  BY <1>1, <1>2, <1>3, <1>4, <1>5, <1>6, <1>7, <1>8, <1>9, <1>10, <1>11, <1>12 DEF Next

(* A once task is executed at most as often as activations can share its     *)
(* table, plus the activations an error cut short: m_onceFuncs is replaced   *)
(* only after the loop over it (init.lua:53-57).                             *)
THEOREM OnceBoundCorrect == Spec => []OnceBound
<1>1. Init => ShareInv
  <2> SUFFICES ASSUME Init PROVE ShareInv
    OBVIOUS
  <2>1. Len(stack) = 0 /\ aborted = 0 /\ \A t \in Once : runs[t] = 0
    BY DEF Init
  <2>2. DOMAIN onceTables = {1} /\ Len(onceTables) = 1 /\ \A t : ~InTable(t, 1)
    <3>1. onceTables = << <<>> >> /\ Len(onceTables[1]) = 0 /\ DOMAIN onceTables = {1} /\ Len(onceTables) = 1
      BY DEF Init
    <3>2. 1 .. Len(onceTables[1]) = {}
      BY <3>1
    <3> QED
      BY <3>1, <3>2 DEF InTable
  <2>3. MaxDepth \in Nat
    BY BoundsAssumption
  <2> QED
    BY <2>1, <2>2, <2>3 DEF ShareInv
<1>2. ShareInv => OnceBound
  BY DEF ShareInv, OnceBound
<1> QED
  BY <1>1, <1>2, TypeInit, TypeStep, OnceInvInit, OnceInvStep, ShareStep, PTL DEF Spec
=============================================================================

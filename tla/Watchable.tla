------------------------------ MODULE Watchable ------------------------------
(***************************************************************************)
(* Something that is set up while anybody listens and closed when nobody    *)
(* does (src/Core/Common/Watchable.lua), on top of the listeners of a       *)
(* Core.Event.                                                              *)
(*                                                                         *)
(* OnSetup and OnClose are code of the program, which may wait for the      *)
(* network or raise an error.  While one waits, handlers run on top of it   *)
(* and may call the same watchable: the calls that are under way are a      *)
(* stack.  m_IsSetup changes only when the callback returns, so that a call *)
(* on top of it sees the state from before.                                 *)
(*                                                                         *)
(* A Trigger executes listeners that were there when it began, and drops    *)
(* the once tasks at its end; their bodies are code of the program as well. *)
(* Which listeners it executes is the subject of CoreEvent; so are the      *)
(* errors that leave a Trigger which runs inside another.                   *)
(***************************************************************************)
EXTENDS Naturals, Sequences, SequencesExt

CONSTANTS
  MaxTasks,  \* bound: listeners of each kind
  MaxDepth   \* bound: calls inside one another

ASSUME BoundsAssumption == MaxTasks \in Nat /\ MaxDepth \in Nat

VARIABLES
  funcs,         \* how many permanent tasks the event has
  onceFuncs,     \* how many once tasks
  isSetup,       \* m_IsSetup
  stack,         \* the callbacks and triggers under way, the innermost last
  setupRaised,   \* history: OnSetup raised
  closeRaised,   \* history: OnClose raised
  someInSetup,   \* history: a call left listeners while OnSetup waited
  someInClose,   \* history: a call left listeners while OnClose waited
  noneInSetup,   \* history: a call left no listener while OnSetup waited
  noneInClose    \* history: a call left no listener while OnClose waited

someVars == <<someInSetup, someInClose>>
noneVars == <<noneInSetup, noneInClose>>
vars == <<funcs, onceFuncs, isSetup, stack, setupRaised, closeRaised, someVars, noneVars>>

Frames == {"setup", "close", "trigger"}

TypeOK ==
  /\ funcs \in 0 .. MaxTasks
  /\ onceFuncs \in 0 .. MaxTasks
  /\ isSetup \in BOOLEAN
  /\ stack \in Seq(Frames)
  /\ Len(stack) <= MaxDepth
  /\ setupRaised \in BOOLEAN
  /\ closeRaised \in BOOLEAN
  /\ someInSetup \in BOOLEAN
  /\ someInClose \in BOOLEAN
  /\ noneInSetup \in BOOLEAN
  /\ noneInClose \in BOOLEAN

Init ==
  /\ funcs = 0
  /\ onceFuncs = 0
  /\ isSetup = FALSE
  /\ stack = <<>>
  /\ setupRaised = FALSE
  /\ closeRaised = FALSE
  /\ someInSetup = FALSE
  /\ someInClose = FALSE
  /\ noneInSetup = FALSE
  /\ noneInClose = FALSE

-----------------------------------------------------------------------------
Count == funcs + onceFuncs
Outermost == stack = <<>>
Waits(frame) == \E i \in DOMAIN stack : stack[i] = frame
On(frame) == stack # <<>> /\ Last(stack) = frame

\* A wrong Check that does not look whether it is set up already.
CheckAgain(count, onlyClose, below) ==
  stack' = CASE count > 0 /\ ~onlyClose -> Append(below, "setup")
             [] count = 0 /\ isSetup -> Append(below, "close")
             [] OTHER -> below

\* Check reads the count and the flag, and calls what it then has to call.
Check(count, onlyClose, below) ==
  stack' = CASE count > 0 /\ ~isSetup /\ ~onlyClose -> Append(below, "setup")
             [] count = 0 /\ isSetup -> Append(below, "close")
             [] OTHER -> below

(* History: an outermost call of AddTask... or RemoveTask... starts anew,     *)
(* one of Trigger only where it can make good what was missed.               *)
LeavesSome(some) ==
  /\ setupRaised' = (setupRaised /\ ~Outermost)
  /\ someInSetup' = ((someInSetup /\ ~Outermost) \/ (some /\ Waits("setup")))
  /\ someInClose' = ((someInClose /\ ~Outermost) \/ (some /\ Waits("close")))

LeavesNone(none) ==
  /\ closeRaised' = (closeRaised /\ ~Outermost)
  /\ noneInSetup' = ((noneInSetup /\ ~Outermost) \/ (none /\ Waits("setup")))
  /\ noneInClose' = ((noneInClose /\ ~Outermost) \/ (none /\ Waits("close")))

\* What AddTask... and RemoveTask... do when the event has its new count.
Changed(count) ==
  /\ Check(count, FALSE, stack)
  /\ LeavesSome(count > 0)
  /\ LeavesNone(count = 0)

-----------------------------------------------------------------------------
(* The operations, up to the first wait. *)

\* The program runs: alone, or in a handler or a body on top of what waits.
ProgramRuns == Len(stack) < MaxDepth

AddTask ==
  /\ ProgramRuns
  /\ funcs < MaxTasks
  /\ funcs' = funcs + 1
  /\ Changed(Count + 1)
  /\ UNCHANGED <<onceFuncs, isSetup>>

\* A wrong AddTaskOnce that leaves the watchable as it is.
AddTaskOnceUnseen ==
  /\ ProgramRuns
  /\ onceFuncs < MaxTasks
  /\ onceFuncs' = onceFuncs + 1
  /\ LeavesSome(TRUE) /\ LeavesNone(FALSE)
  /\ UNCHANGED <<funcs, isSetup, stack>>

AddTaskOnce ==
  /\ ProgramRuns
  /\ onceFuncs < MaxTasks
  /\ onceFuncs' = onceFuncs + 1
  /\ Changed(Count + 1)
  /\ UNCHANGED <<funcs, isSetup>>

RemoveTask ==
  /\ ProgramRuns
  /\ funcs > 0
  /\ funcs' = funcs - 1
  /\ Changed(Count - 1)
  /\ UNCHANGED <<onceFuncs, isSetup>>

\* A wrong RemoveTaskOnce that removes from the other list.
RemoveTaskOnceElsewhere ==
  /\ ProgramRuns
  /\ funcs > 0
  /\ onceFuncs' = onceFuncs - 1
  /\ Changed(Count - 1)
  /\ UNCHANGED <<funcs, isSetup>>

RemoveTaskOnce ==
  /\ ProgramRuns
  /\ onceFuncs > 0
  /\ onceFuncs' = onceFuncs - 1
  /\ Changed(Count - 1)
  /\ UNCHANGED <<funcs, isSetup>>

\* The loops of Event:Trigger begin; a body runs.
Trigger ==
  /\ ProgramRuns
  /\ Count > 0
  /\ stack' = Append(stack, "trigger")
  /\ UNCHANGED <<funcs, onceFuncs, isSetup, setupRaised, closeRaised, someVars, noneVars>>

\* Nobody listens: the event does nothing, and Check runs.
TriggerNobody ==
  /\ ProgramRuns
  /\ Count = 0
  /\ Check(0, TRUE, stack)
  /\ LeavesNone(TRUE)
  /\ UNCHANGED <<funcs, onceFuncs, isSetup, setupRaised, someVars>>

\* A wrong Trigger that does not look at what is left.
TriggerEndsUnseen ==
  /\ On("trigger")
  /\ onceFuncs' = 0
  /\ stack' = Front(stack)
  /\ UNCHANGED <<funcs, isSetup, setupRaised, closeRaised, someVars, noneVars>>

\* The last body has ended.
TriggerEnds ==
  /\ On("trigger")
  /\ onceFuncs' = 0
  /\ Check(funcs, TRUE, Front(stack))
  /\ noneInSetup' = (noneInSetup \/ (funcs = 0 /\ Waits("setup")))
  /\ noneInClose' = (noneInClose \/ (funcs = 0 /\ Waits("close")))
  /\ UNCHANGED <<funcs, isSetup, setupRaised, closeRaised, someVars>>

-----------------------------------------------------------------------------
(* The end of a callback. *)

SetupReturns ==
  /\ On("setup")
  /\ isSetup' = TRUE
  /\ stack' = Front(stack)
  /\ UNCHANGED <<funcs, onceFuncs, setupRaised, closeRaised, someVars, noneVars>>

\* The error goes to the caller of the operation; the flag stays.
SetupRaises ==
  /\ On("setup")
  /\ setupRaised' = TRUE
  /\ stack' = Front(stack)
  /\ UNCHANGED <<funcs, onceFuncs, isSetup, closeRaised, someVars, noneVars>>

CloseReturns ==
  /\ On("close")
  /\ isSetup' = FALSE
  /\ stack' = Front(stack)
  /\ UNCHANGED <<funcs, onceFuncs, setupRaised, closeRaised, someVars, noneVars>>

CloseRaises ==
  /\ On("close")
  /\ closeRaised' = TRUE
  /\ stack' = Front(stack)
  /\ UNCHANGED <<funcs, onceFuncs, isSetup, setupRaised, someVars, noneVars>>

Next ==
  \/ AddTask \/ AddTaskOnce \/ RemoveTask \/ RemoveTaskOnce
  \/ Trigger \/ TriggerNobody \/ TriggerEnds
  \/ SetupReturns \/ SetupRaises \/ CloseReturns \/ CloseRaises

Spec == Init /\ [][Next]_vars

-----------------------------------------------------------------------------
(* When nothing is under way, who listens is heard: the watchable is set up   *)
(* for its listeners, unless OnSetup raised or a task was added while        *)
(* OnClose waited; and the next call that adds or removes makes that good.   *)
ListenersAreHeard ==
  stack = <<>> /\ Count > 0 /\ ~isSetup => setupRaised \/ someInClose

(* When nothing is under way and nobody listens, the watchable is closed,     *)
(* unless OnClose raised or the last listener left while OnSetup waited; and  *)
(* the next call, also a Trigger, makes that good.                           *)
NobodyIsServed ==
  stack = <<>> /\ Count = 0 /\ isSetup => closeRaised \/ noneInSetup

(* OnSetup and OnClose alternate: none completes twice in a row, unless the   *)
(* watchable was called while it waited: for OnSetup, any call of AddTask...  *)
(* or RemoveTask... that leaves a listener sets up again.                    *)
Alternate ==
  [][/\ SetupReturns /\ isSetup => someInSetup
     /\ CloseReturns /\ ~isSetup => noneInClose]_vars
=============================================================================

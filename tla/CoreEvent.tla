------------------------------ MODULE CoreEvent ------------------------------
(***************************************************************************)
(* One Core.Event object and the Core.Task objects registered in it        *)
(* (src/Core/Event/init.lua, src/Core/Common/Task.lua).                     *)
(*                                                                         *)
(* Everything runs on one Lua thread, but Event:Trigger is re-entrant: the *)
(* body of a task may wait for the next signal (EventPullAdapter:Wait),    *)
(* and that signal may trigger the same event again before the body        *)
(* returns.  The call stack of Trigger activations is therefore part of    *)
(* the state: `stack' is a sequence of frames, the innermost last.         *)
(*                                                                         *)
(* A Lua table is an object: an activation that iterates over m_onceFuncs  *)
(* keeps the table it started with even when a nested activation assigns a *)
(* new one.  `onceTables' holds every table m_onceFuncs was ever bound to; *)
(* the last one is the current value of the field.                         *)
(***************************************************************************)
EXTENDS Naturals, Sequences, SequencesExt

CONSTANTS
  Permanent,      \* tasks the program registers with AddTask
  Once,           \* tasks the program registers with AddTaskOnce, one each
  NoTask,         \* the loop variable of Trigger before its first round
  MaxDepth,       \* bound: activations of Trigger on the stack
  MaxTriggers,    \* bound: calls of Trigger in a behaviour
  MaxListeners,   \* bound: entries of m_funcs
  HasLogger       \* is Trigger called with a logger?

ASSUME TasksAssumption == Permanent \cap Once = {} /\ NoTask \notin Permanent \cup Once
ASSUME BoundsAssumption ==
  /\ MaxDepth \in Nat \ {0}
  /\ MaxTriggers \in Nat
  /\ MaxListeners \in Nat
ASSUME LoggerAssumption == HasLogger \in BOOLEAN

Tasks == Permanent \cup Once

VARIABLES
  funcs,       \* m_funcs
  onceTables,  \* the tables m_onceFuncs was bound to, the current one last
  stack,       \* the activations of Trigger, the innermost last
  closed,      \* m_closed of each task
  traceback,   \* m_traceback ~= nil of each task
  raising,     \* a Lua error is propagating to the enclosing task body
  crashed,     \* an error left the outermost Trigger: the program is over
  triggers,    \* history: number of Trigger calls
  reentered,   \* history: Trigger was called in the body of a task
  tampered,    \* history: Remove or RemoveOnce was called in the body of a task
  registered,  \* history: once tasks AddTaskOnce was called with
  removed,     \* history: once tasks RemoveOnce took out
  runs,        \* history: how often each once task was executed
  aborted      \* history: activations an error cut short

taskVars == <<closed, traceback>>
historyVars == <<triggers, reentered, tampered, registered, removed, runs, aborted>>
vars == <<funcs, onceTables, stack, closed, traceback, raising, crashed,
          triggers, reentered, tampered, registered, removed, runs, aborted>>

-----------------------------------------------------------------------------
(* A frame: in which of the two loops of Trigger the activation is, the    *)
(* position ipairs stands at, the table it iterates (for the once loop),   *)
(* and whether the task at that position is executing.  `due' and `served' *)
(* are history: the permanent tasks registered when the activation began,  *)
(* and the tasks it has executed.                                          *)
Phases == {"permanent", "once"}

Frame == [phase : Phases, pos : Nat, table : Nat, task : Tasks \cup {NoTask}, running : BOOLEAN,
          due : SUBSET Permanent, served : SUBSET Tasks]

Top == Last(stack)
Below == Front(stack)
WithTop(f) == [stack EXCEPT ![Len(stack)] = f]

CurrentOnce == Last(onceTables)

\* Code of the program runs between two activations, or in a task body.
InBody == stack # <<>> /\ Top.running
ProgramRuns == ~raising /\ ~crashed /\ (stack # <<>> => Top.running)

\* The trigger loop itself runs: the last task is done, the next not begun.
LoopRuns == stack # <<>> /\ ~Top.running

Init ==
  /\ funcs = <<>>
  /\ onceTables = << <<>> >>
  /\ stack = <<>>
  /\ closed = [t \in Tasks |-> FALSE]
  /\ traceback = [t \in Tasks |-> FALSE]
  /\ raising = FALSE
  /\ crashed = FALSE
  /\ triggers = 0
  /\ reentered = FALSE
  /\ tampered = FALSE
  /\ registered = {}
  /\ removed = {}
  /\ runs = [t \in Once |-> 0]
  /\ aborted = 0

-----------------------------------------------------------------------------
(* Registration. *)

AddTask(t) ==
  /\ ProgramRuns
  /\ Len(funcs) < MaxListeners
  /\ funcs' = Append(funcs, t)
  /\ UNCHANGED <<onceTables, stack, taskVars, raising, crashed, historyVars>>

\* Mutants: inserting at the front, and into the wrong list.
AddTaskOnceAtFront(t) ==
  /\ ProgramRuns
  /\ t \notin registered
  /\ onceTables' = [onceTables EXCEPT ![Len(onceTables)] = <<t>> \o @]
  /\ registered' = registered \cup {t}
  /\ UNCHANGED <<funcs, stack, taskVars, raising, crashed, triggers, reentered, tampered, removed, runs, aborted>>

AddTaskOnceAsPermanent(t) ==
  /\ ProgramRuns
  /\ t \notin registered
  /\ funcs' = Append(funcs, t)
  /\ registered' = registered \cup {t}
  /\ UNCHANGED <<onceTables, stack, taskVars, raising, crashed, triggers, reentered, tampered, removed, runs, aborted>>

\* The callers create a Task for each once registration.
AddTaskOnce(t) ==
  /\ ProgramRuns
  /\ t \notin registered
  /\ onceTables' = [onceTables EXCEPT ![Len(onceTables)] = Append(@, t)]
  /\ registered' = registered \cup {t}
  /\ UNCHANGED <<funcs, stack, taskVars, raising, crashed, triggers, reentered, tampered, removed, runs, aborted>>

RemoveTask(i) ==
  /\ ProgramRuns
  /\ tampered' = (tampered \/ InBody)
  /\ i \in 1 .. Len(funcs)
  /\ funcs' = RemoveAt(funcs, i)
  /\ UNCHANGED <<onceTables, stack, taskVars, raising, crashed, triggers, reentered,
                 registered, removed, runs, aborted>>

RemoveOnce(i) ==
  /\ ProgramRuns
  /\ tampered' = (tampered \/ InBody)
  /\ i \in 1 .. Len(CurrentOnce)
  /\ onceTables' = [onceTables EXCEPT ![Len(onceTables)] = RemoveAt(@, i)]
  /\ removed' = removed \cup {CurrentOnce[i]}
  /\ UNCHANGED <<funcs, stack, taskVars, raising, crashed, triggers, reentered, registered, runs, aborted>>

-----------------------------------------------------------------------------
(* Event:Trigger.  Its steps are those of the two ipairs loops; Task:Execute *)
(* up to the first instruction of the body belongs to the step that picks    *)
(* the task, its epilogue and Close and LogError to the step that ends it.   *)

Trigger ==
  /\ ProgramRuns
  /\ Len(stack) < MaxDepth
  /\ triggers < MaxTriggers
  /\ triggers' = triggers + 1
  /\ reentered' = (reentered \/ InBody)
  /\ stack' = Append(stack, [phase |-> "permanent", pos |-> 0, table |-> 0, task |-> NoTask,
                             running |-> FALSE, due |-> ToSet(funcs), served |-> {}])
  /\ UNCHANGED <<funcs, onceTables, taskVars, raising, crashed, tampered, registered, removed, runs, aborted>>

\* Mutant: a task is not opened again.
ExecuteStaysClosed(t) ==
  /\ closed' = closed
  /\ traceback' = [traceback EXCEPT ![t] = FALSE]

\* Task:Execute up to the body: a new thread, m_closed = false, m_traceback = nil.
Execute(t) ==
  /\ closed' = [closed EXCEPT ![t] = FALSE]
  /\ traceback' = [traceback EXCEPT ![t] = FALSE]

NextPermanent ==
  /\ LoopRuns
  /\ Top.phase = "permanent"
  /\ Top.pos < Len(funcs)
  /\ LET t == funcs[Top.pos + 1] IN
       /\ Execute(t)
       /\ stack' = WithTop([Top EXCEPT !.pos = @ + 1, !.task = t, !.running = TRUE,
                                       !.served = @ \cup {t}])
  /\ UNCHANGED <<funcs, onceTables, raising, crashed, historyVars>>

\* Mutant: the loop stops one task early.
EnterOnceEarly ==
  /\ LoopRuns
  /\ Top.phase = "permanent"
  /\ Top.pos + 1 >= Len(funcs)
  /\ stack' = WithTop([Top EXCEPT !.phase = "once", !.pos = 0, !.table = Len(onceTables)])
  /\ UNCHANGED <<funcs, onceTables, taskVars, raising, crashed, historyVars>>

\* ipairs(self.m_onceFuncs): the table is the one the field holds now.
EnterOnce ==
  /\ LoopRuns
  /\ Top.phase = "permanent"
  /\ Top.pos >= Len(funcs)
  /\ stack' = WithTop([Top EXCEPT !.phase = "once", !.pos = 0, !.table = Len(onceTables)])
  /\ UNCHANGED <<funcs, onceTables, taskVars, raising, crashed, historyVars>>

NextOnce ==
  /\ LoopRuns
  /\ Top.phase = "once"
  /\ Top.pos < Len(onceTables[Top.table])
  /\ LET t == onceTables[Top.table][Top.pos + 1] IN
       /\ Execute(t)
       /\ stack' = WithTop([Top EXCEPT !.pos = @ + 1, !.task = t, !.running = TRUE,
                                       !.served = @ \cup {t}])
       /\ runs' = [runs EXCEPT ![t] = @ + 1]
  /\ UNCHANGED <<funcs, onceTables, raising, crashed, triggers, reentered, tampered, registered, removed, aborted>>

\* Mutant: the reset goes to another field.
EndTriggerKeepsOnce ==
  /\ LoopRuns
  /\ Top.phase = "once"
  /\ Top.pos >= Len(onceTables[Top.table])
  /\ stack' = Below
  /\ UNCHANGED <<funcs, onceTables, taskVars, raising, crashed, historyVars>>

\* self.m_onceFuncs = {}
EndTrigger ==
  /\ LoopRuns
  /\ Top.phase = "once"
  /\ Top.pos >= Len(onceTables[Top.table])
  /\ onceTables' = Append(onceTables, <<>>)
  /\ stack' = Below
  /\ UNCHANGED <<funcs, taskVars, raising, crashed, historyVars>>

(* The end of a task: coroutine.resume returns to Execute, then Close and  *)
(* LogError.  Close makes the traceback of a failed task, unless the task  *)
(* is closed already: a nested activation of the same task closed it.      *)
ClosesWithTraceback(t) == traceback[t] \/ ~closed[t]

CloseTask(t, success) ==
  /\ closed' = [closed EXCEPT ![t] = TRUE]
  /\ traceback' = [traceback EXCEPT ![t] = @ \/ (~success /\ ~closed[t])]

BodyReturns ==
  /\ InBody /\ ~raising /\ ~crashed
  /\ CloseTask(Top.task, TRUE)
  /\ stack' = WithTop([Top EXCEPT !.running = FALSE])
  /\ UNCHANGED <<funcs, onceTables, raising, crashed, historyVars>>

\* The body raises an error, its own or one that reached it from a nested
\* activation, and LogError can say where.
BodyFails ==
  /\ InBody /\ ~crashed
  /\ HasLogger => ClosesWithTraceback(Top.task)
  /\ CloseTask(Top.task, FALSE)
  /\ raising' = FALSE
  /\ stack' = WithTop([Top EXCEPT !.running = FALSE])
  /\ UNCHANGED <<funcs, onceTables, crashed, historyVars>>

\* The same, but m_traceback is nil: LogError itself raises, and the error
\* leaves Trigger for the task body that called it or for the main program.
LogErrorRaises ==
  /\ InBody /\ ~crashed
  /\ HasLogger
  /\ ~ClosesWithTraceback(Top.task)
  /\ CloseTask(Top.task, FALSE)
  /\ stack' = Below
  /\ raising' = (Below # <<>>)
  /\ crashed' = (Below = <<>>)
  /\ aborted' = aborted + 1
  /\ UNCHANGED <<funcs, onceTables, triggers, reentered, tampered, registered, removed, runs>>

-----------------------------------------------------------------------------
Next ==
  \/ \E t \in Permanent : AddTask(t)
  \/ \E t \in Once : AddTaskOnce(t)
  \/ \E i \in 1 .. MaxListeners : RemoveTask(i)
  \/ \E i \in DOMAIN CurrentOnce : RemoveOnce(i)
  \/ Trigger
  \/ NextPermanent
  \/ EnterOnce
  \/ NextOnce
  \/ EndTrigger
  \/ BodyReturns
  \/ BodyFails
  \/ LogErrorRaises

Spec == Init /\ [][Next]_vars

-----------------------------------------------------------------------------
(* Type invariant of the event, its tasks and the stack of activations. *)
TypeOK ==
  /\ funcs \in Seq(Permanent)
  /\ onceTables \in Seq(Seq(Once))
  /\ onceTables # <<>>
  /\ stack \in Seq(Frame)
  /\ \A d \in DOMAIN stack : stack[d].phase = "once" => stack[d].table \in DOMAIN onceTables
  /\ closed \in [Tasks -> BOOLEAN]
  /\ traceback \in [Tasks -> BOOLEAN]
  /\ raising \in BOOLEAN
  /\ crashed \in BOOLEAN
  /\ triggers \in Nat
  /\ reentered \in BOOLEAN
  /\ tampered \in BOOLEAN
  /\ registered \subseteq Once
  /\ removed \subseteq Once
  /\ runs \in [Once -> Nat]
  /\ aborted \in Nat

(* No activation of Trigger executes a once task twice, whatever its body    *)
(* and the activations nested in it add and remove: what a once loop has     *)
(* still ahead of it never holds a task the loop has served.                 *)
NoRepeat ==
  \A d \in DOMAIN stack : stack[d].phase = "once" =>
    \A k \in stack[d].pos + 1 .. Len(onceTables[stack[d].table]) :
      onceTables[stack[d].table][k] \notin stack[d].served

(* A once task is executed at most once for each activation that may share   *)
(* the table: never more often than Trigger nests, plus the activations an   *)
(* error cut short before they could drop the table.                         *)
OnceBound == \A t \in Once : runs[t] <= MaxDepth + aborted

(* "Once": as long as Trigger is not re-entered and no body removes, every   *)
(* registered once task still waits in m_onceFuncs, is being served, has run *)
(* exactly one time, or was removed, and never two of these.                 *)
OnceIsOnce ==
  ~reentered /\ ~tampered =>
    \A t \in registered :
      \/ t \in removed /\ runs[t] = 0 /\ t \notin ToSet(CurrentOnce)
      \/ t \in ToSet(CurrentOnce) /\ runs[t] = 0
      \/ t \in ToSet(CurrentOnce) /\ runs[t] = 1 /\ stack # <<>>
      \/ t \notin ToSet(CurrentOnce) /\ runs[t] = 1

(* When an activation ends normally it has executed every permanent task     *)
(* that was registered when it began, also when bodies failed, added tasks   *)
(* or triggered the event again, as long as no body removes.                 *)
ActivationsAreComplete ==
  [][EndTrigger /\ ~tampered => Top.due \subseteq Top.served]_vars

(* No error leaves Trigger unless Trigger is re-entered: a failing task is   *)
(* logged and the loop goes on with the next.                                *)
ErrorsStayInside == ~reentered => ~raising /\ ~crashed

(* `---@return string traceback' of Task:Traceback (Task.lua:117): LogError  *)
(* concatenates what it returns, and that never raises.                      *)
TracebackIsString == [][~LogErrorRaises]_vars
=============================================================================

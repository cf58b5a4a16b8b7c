---------------------------- MODULE NetworkClient ----------------------------
(***************************************************************************)
(* The network client of one computer: the ports its network card listens  *)
(* on, the NetworkPort objects with their listeners, and the pump that     *)
(* dispatches signals (src/Net/Core/NetworkClient.lua, NetworkPort.lua,     *)
(* NetworkFuture.lua, src/Core/Event/EventPullAdapter.lua and               *)
(* src/Adapter/Computer/NetworkCard.lua).                                   *)
(*                                                                         *)
(* There is one Lua thread.  WaitForEvent does not suspend its caller: it   *)
(* pulls and dispatches signals itself until its answer has come, so that   *)
(* handlers run on top of the waiting call, and may wait in turn.  The call *)
(* stack is part of the state, innermost last, and a wait that has its      *)
(* answer returns only when everything above it has returned.               *)
(*                                                                         *)
(* The once listener WaitForEvent registers only stores the message, so the *)
(* once listeners of an event are served in one step; a permanent listener  *)
(* is a body that may register, wait and pump.  Core.Event itself is the    *)
(* subject of CoreEvent.                                                    *)
(***************************************************************************)
EXTENDS Naturals, Sequences, SequencesExt

CONSTANTS
  Numbered,     \* the port numbers
  AnyPort,      \* the port "*"
  Events,       \* the event names messages carry
  AnyEvent,     \* the event name "*", the default of AddTask
  Handlers,     \* <<port, event name>> pairs the program may add a task for
  Waits,        \* the calls of WaitForEvent, one each
  Forever,      \* those without a timeout
  NoMessage,    \* nil
  MaxMessages,  \* bound: signals in a behaviour
  MaxQueue,     \* the length of the computer's signal queue
  MaxDepth      \* bound: frames on the call stack

ASSUME NamesAssumption == AnyPort \notin Numbered /\ AnyEvent \notin Events
ASSUME ProgramAssumption ==
  /\ Handlers \subseteq (Numbered \cup {AnyPort}) \X (Events \cup {AnyEvent})
  /\ Forever \subseteq Waits
ASSUME LimitsAssumption == MaxMessages \in Nat /\ MaxQueue \in Nat /\ MaxDepth \in Nat

PortKeys == Numbered \cup {AnyPort}
Names == Events \cup {AnyEvent}

Message == [port : Numbered, event : Events, id : 1 .. MaxMessages]
ASSUME NilAssumption == NoMessage \notin Message

VARIABLES
  open,      \* the ports the card receives on
  ports,     \* the keys of m_ports
  handlers,  \* the registered permanent tasks
  once,      \* the once tasks of each event of each port
  place,     \* the port and event each wait was called with
  result,    \* the local `result' of each wait
  called,    \* the waits that were called
  returned,  \* the waits that have returned
  stack,     \* the call stack, the innermost frame last
  queue,     \* the signal queue of the computer
  sent,      \* history: number of signals
  missed     \* history: waits a message of their event passed by

cardVars == <<open, queue, sent>>
listenerVars == <<ports, handlers, once>>
waitVars == <<place, result, called, returned>>
vars == <<open, ports, handlers, once, place, result, called, returned, stack, queue, sent, missed>>

-----------------------------------------------------------------------------
(* Frames: a WaitForEvent loop, or the dispatch of a message, which is at a *)
(* port and looks the port up, runs the permanent task or is about to serve *)
(* the once tasks.                                                          *)
WaitFrame(w) == [kind |-> "wait", wait |-> w]
DispatchFrame(m, p, step) == [kind |-> "dispatch", message |-> m, at |-> p, step |-> step]

Frame ==
  [kind : {"wait"}, wait : Waits]
    \cup [kind : {"dispatch"}, message : Message, at : PortKeys, step : {"lookup", "body", "once"}]

Top == Last(stack)
Below == Front(stack)
InWait == stack # <<>> /\ Top.kind = "wait"
Dispatching(step) == stack # <<>> /\ Top.kind = "dispatch" /\ Top.step = step

\* Code of the program runs: the main program or the body of a permanent task.
ProgramRuns == stack = <<>> \/ Dispatching("body")

\* An event of a port exists as long as it has listeners.
HasEvent(p, n, hs, os) == <<p, n>> \in hs \/ os[<<p, n>>] # {}
HasListeners(p, hs, os) == \E n \in Names : HasEvent(p, n, hs, os)

Waiting(w) == w \in called \ returned

Init ==
  /\ open = {}
  /\ ports = {}
  /\ handlers = {}
  /\ once = [pn \in PortKeys \X Names |-> {}]
  /\ place = [w \in Waits |-> <<AnyPort, AnyEvent>>]
  /\ result = [w \in Waits |-> NoMessage]
  /\ called = {}
  /\ returned = {}
  /\ stack = <<>>
  /\ queue = <<>>
  /\ sent = 0
  /\ missed = {}

-----------------------------------------------------------------------------
(* The card and the network.  What arrives on a port that is not open, or    *)
(* when the queue is full, is dropped and needs no step.                     *)

Receive(p, e) ==
  /\ p \in open
  /\ sent < MaxMessages /\ Len(queue) < MaxQueue
  /\ sent' = sent + 1
  /\ queue' = Append(queue, [port |-> p, event |-> e, id |-> sent + 1])
  /\ UNCHANGED <<open, listenerVars, waitVars, stack, missed>>

\* A signal of another component, which also wakes EventPullAdapter:Wait.
OtherSignal ==
  /\ sent < MaxMessages /\ Len(queue) < MaxQueue
  /\ sent' = sent + 1
  /\ queue' = Append(queue, NoMessage)
  /\ UNCHANGED <<open, listenerVars, waitVars, stack, missed>>

\* A wrong OpenPort that does not tell a number from "*".
OpenAnyPort(p) == open' = open \cup {p}

OpenPort(p) == open' = open \cup ({p} \cap Numbered)

-----------------------------------------------------------------------------
(* Registration. *)

\* AddTask, and OpenPort of the NetworkPort it returns.
AddHandler(p, n) ==
  /\ ProgramRuns
  /\ <<p, n>> \notin handlers
  /\ handlers' = handlers \cup {<<p, n>>}
  /\ ports' = ports \cup {p}
  /\ OpenPort(p)
  /\ UNCHANGED <<once, waitVars, stack, queue, sent, missed>>

\* WaitForEvent up to its loop; a NetworkFuture opens the same port before.
WaitForEvent(w, p, e) ==
  /\ ProgramRuns
  /\ Len(stack) + 1 < MaxDepth
  /\ w \notin called
  /\ called' = called \cup {w}
  /\ place' = [place EXCEPT ![w] = <<p, e>>]
  /\ once' = [once EXCEPT ![<<p, e>>] = @ \cup {w}]
  /\ ports' = ports \cup {p}
  /\ OpenPort(p)
  /\ stack' = Append(stack, WaitFrame(w))
  /\ UNCHANGED <<handlers, result, returned, queue, sent, missed>>

-----------------------------------------------------------------------------
(* The pump: EventPullAdapter:Wait, called by the main loop and by the loop  *)
(* of WaitForEvent.                                                          *)

Pumps == stack # <<>> => InWait /\ result[Top.wait] = NoMessage

PullMessage ==
  /\ Pumps
  /\ queue # <<>> /\ Head(queue) # NoMessage
  /\ queue' = Tail(queue)
  /\ stack' = Append(stack, DispatchFrame(Head(queue), Head(queue).port, "lookup"))
  /\ UNCHANGED <<open, listenerVars, waitVars, sent, missed>>

PullOther ==
  /\ Pumps
  /\ queue # <<>> /\ Head(queue) = NoMessage
  /\ queue' = Tail(queue)
  /\ UNCHANGED <<open, listenerVars, waitVars, stack, sent, missed>>

WaitReturns ==
  /\ InWait
  /\ result[Top.wait] # NoMessage
  /\ returned' = returned \cup {Top.wait}
  /\ stack' = Below
  /\ UNCHANGED <<cardVars, listenerVars, place, result, called, missed>>

\* A wrong WaitForEvent that goes on when Wait reports a timeout.
WaitIgnoresTimeout == FALSE

\* event.pull(timeoutSeconds) found nothing: nil is returned, the once task
\* stays registered and the port stays open.
WaitTimesOut ==
  /\ InWait
  /\ result[Top.wait] = NoMessage
  /\ Top.wait \notin Forever
  /\ queue = <<>>
  /\ returned' = returned \cup {Top.wait}
  /\ stack' = Below
  /\ UNCHANGED <<cardVars, listenerVars, place, result, called, missed>>
-----------------------------------------------------------------------------
(* networkMessageReceived: the port of the message, then the port "*".      *)

After(m, p) ==
  IF p = AnyPort THEN Below ELSE Append(Below, DispatchFrame(m, AnyPort, "lookup"))

\* The waits that want the message at this port and are not in `served'.
PassedBy(m, p, served) ==
  {w \in called \ returned : place[w] = <<p, m.event>> /\ result[w] = NoMessage} \ served

PortMissing ==
  /\ Dispatching("lookup")
  /\ Top.at \notin ports
  /\ open' = open \ {Top.at}
  /\ stack' = After(Top.message, Top.at)
  /\ missed' = missed \cup PassedBy(Top.message, Top.at, {})
  /\ UNCHANGED <<listenerVars, waitVars, queue, sent>>

\* NetworkPort:Execute triggers the event of the message's name, and `all'.
PortFound ==
  /\ Dispatching("lookup")
  /\ Top.at \in ports
  /\ stack' = Append(Below, DispatchFrame(Top.message, Top.at,
                IF <<Top.at, Top.message.event>> \in handlers THEN "body" ELSE "once"))
  /\ UNCHANGED <<cardVars, listenerVars, waitVars, missed>>

\* The permanent task ends, by returning or by an error that is logged.
BodyReturns ==
  /\ Dispatching("body")
  /\ stack' = Append(Below, DispatchFrame(Top.message, Top.at, "once"))
  /\ UNCHANGED <<cardVars, listenerVars, waitVars, missed>>

\* A wrong Execute that gives a port up with the event it has just emptied.
ServeOnceForgetsOthers ==
  /\ Dispatching("once")
  /\ LET pn == <<Top.at, Top.message.event>>
     IN /\ once' = [once EXCEPT ![pn] = {}]
        /\ result' = [w \in Waits |-> IF w \in once[pn] \ returned THEN Top.message ELSE result[w]]
        /\ missed' = missed \cup PassedBy(Top.message, Top.at, once[pn])
        /\ IF pn \in handlers
             THEN UNCHANGED <<ports, open>>
             ELSE ports' = ports \ {Top.at} /\ open' = open \ {Top.at}
        /\ stack' = After(Top.message, Top.at)
  /\ UNCHANGED <<handlers, place, called, returned, queue, sent>>

\* A wrong RemoveNetworkPort that leaves the port open on the card.
ServeOnceLeavesOpen ==
  /\ Dispatching("once")
  /\ LET pn == <<Top.at, Top.message.event>>
     IN /\ once' = [once EXCEPT ![pn] = {}]
        /\ result' = [w \in Waits |-> IF w \in once[pn] \ returned THEN Top.message ELSE result[w]]
        /\ missed' = missed \cup PassedBy(Top.message, Top.at, once[pn])
        /\ ports' = IF HasListeners(Top.at, handlers, once') THEN ports ELSE ports \ {Top.at}
        /\ stack' = After(Top.message, Top.at)
  /\ UNCHANGED <<open, handlers, place, called, returned, queue, sent>>

\* A wrong Trigger that serves one once task and drops the others.
ServeOnceOnlyOne ==
  /\ Dispatching("once")
  /\ LET pn == <<Top.at, Top.message.event>>
         served == IF once[pn] = {} THEN {} ELSE {CHOOSE w \in once[pn] : TRUE}
     IN /\ once' = [once EXCEPT ![pn] = {}]
        /\ result' = [w \in Waits |-> IF w \in served \ returned THEN Top.message ELSE result[w]]
        /\ missed' = missed \cup PassedBy(Top.message, Top.at, served)
        /\ IF HasListeners(Top.at, handlers, once')
             THEN UNCHANGED <<ports, open>>
             ELSE ports' = ports \ {Top.at} /\ open' = open \ {Top.at}
        /\ stack' = After(Top.message, Top.at)
  /\ UNCHANGED <<handlers, place, called, returned, queue, sent>>

\* The once tasks store the message; then an event without listeners leaves
\* the port, and a port without events leaves the client and is closed.
ServeOnce ==
  /\ Dispatching("once")
  /\ LET m == Top.message
         p == Top.at
         served == once[<<p, m.event>>]
     IN /\ once' = [once EXCEPT ![<<p, m.event>>] = {}]
        /\ result' = [w \in Waits |-> IF w \in served \ returned THEN m ELSE result[w]]
        /\ missed' = missed \cup PassedBy(m, p, served)
        /\ IF HasListeners(p, handlers, once')
             THEN UNCHANGED <<ports, open>>
             ELSE ports' = ports \ {p} /\ open' = open \ {p}
        /\ stack' = After(m, p)
  /\ UNCHANGED <<handlers, place, called, returned, queue, sent>>

-----------------------------------------------------------------------------
Next ==
  \/ \E p \in Numbered, e \in Events : Receive(p, e)
  \/ OtherSignal
  \/ \E pn \in Handlers : AddHandler(pn[1], pn[2])
  \/ \E w \in Waits, p \in PortKeys, e \in Events : WaitForEvent(w, p, e)
  \/ PullMessage
  \/ PullOther
  \/ WaitReturns
  \/ WaitTimesOut
  \/ PortMissing
  \/ PortFound
  \/ BodyReturns
  \/ ServeOnce

Spec == Init /\ [][Next]_vars

(* The thread goes on where it can: it pulls what is in the queue, timers   *)
(* fire in an empty queue, and the bodies of permanent tasks end.           *)
Fairness ==
  WF_vars(PullMessage \/ PullOther \/ WaitReturns \/ WaitTimesOut \/ PortMissing
            \/ PortFound \/ BodyReturns \/ ServeOnce)

FairSpec == Spec /\ Fairness

-----------------------------------------------------------------------------
(* Type invariant: of the listener tables, the call stack and the queue. *)
TypeOK ==
  /\ open \subseteq Numbered
  /\ ports \subseteq PortKeys
  /\ handlers \subseteq PortKeys \X Names
  /\ once \in [PortKeys \X Names -> SUBSET Waits]
  /\ place \in [Waits -> PortKeys \X Names]
  /\ result \in [Waits -> Message \cup {NoMessage}]
  /\ called \subseteq Waits
  /\ returned \subseteq Waits
  /\ stack \in Seq(Frame)
  /\ queue \in Seq(Message \cup {NoMessage})
  /\ sent \in 0 .. MaxMessages
  /\ missed \subseteq Waits

(* Whoever listens is heard: the port of every registered task, and of every *)
(* wait that has no answer yet, has its NetworkPort and is open on the card, *)
(* whatever other dispatches on the same port remove and close meanwhile.    *)
ListenersHear ==
  /\ \A pn \in handlers : pn[1] \in ports /\ (pn[1] \in Numbered => pn[1] \in open)
  /\ \A w \in called \ returned : result[w] = NoMessage =>
       /\ w \in once[place[w]]
       /\ place[w][1] \in ports
       /\ place[w][1] \in Numbered => place[w][1] \in open

(* No port stays open, and no NetworkPort registered, without a listener:    *)
(* the last one served takes the port with it.                               *)
PortsHaveListeners ==
  /\ open \subseteq ports
  /\ \A p \in ports : HasListeners(p, handlers, once)

(* A wait gets the first message of its event that is dispatched after it    *)
(* was called: none passes it by, in whatever dispatch it is served.         *)
NoMissedMessage == missed = {}

(* Every wait with a timeout returns, with an answer or without, once the    *)
(* network goes quiet, if all waits nested in it have one too.               *)
WaitsReturn == \A w \in Waits : (w \in called) ~> (w \in returned)

(* Net.Core.EventName has the value "*", which AddTask takes by default      *)
(* (NetworkClient.lua:15-17, 154): such a task runs for every message of its *)
(* port.                                                                     *)
AnyEventTasksRun ==
  [][\A p \in Numbered : PortFound /\ Top.at = p /\ <<p, AnyEvent>> \in handlers
       => Top'.step = "body"]_vars
=============================================================================

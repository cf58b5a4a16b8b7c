------------------------- MODULE NetworkClient_proofs -------------------------
(***************************************************************************)
(* Proofs about NetworkClient, for any ports, events, handlers and waits    *)
(* and any depth of nesting.                                                *)
(*                                                                         *)
(* ListenersHear and PortsHaveListeners are inductive together with the     *)
(* types; that no wait misses a message follows from ListenersHear, as a    *)
(* wait without an answer is still among the once tasks of its event.       *)
(***************************************************************************)
EXTENDS NetworkClient, SequenceTheorems, TLAPS

Inv == TypeOK /\ ListenersHear /\ PortsHaveListeners /\ NoMissedMessage

\* The innermost frame of a call stack and the frames below it.
LEMMA StackTypes ==
  ASSUME stack \in Seq(Frame), stack # <<>>
  PROVE  Top \in Frame /\ Below \in Seq(Frame)
<1>1. Len(stack) \in Nat \ {0}
  OBVIOUS
<1> QED
  BY <1>1 DEF Top, Below, Last, Front

\* What the dispatch in the innermost frame is about.
LEMMA DispatchFacts ==
  ASSUME stack \in Seq(Frame), NEW step, Dispatching(step)
  PROVE  /\ Top.message \in Message /\ Top.at \in PortKeys
         /\ Top.message.port \in Numbered /\ Top.message.event \in Events
         /\ Below \in Seq(Frame)
<1>1. Top \in Frame /\ Top.kind = "dispatch" /\ Below \in Seq(Frame)
  BY StackTypes DEF Dispatching
<1>2. Top \in [kind : {"dispatch"}, message : Message, at : PortKeys, step : {"lookup", "body", "once"}]
  BY <1>1 DEF Frame
<1> QED
  BY <1>1, <1>2 DEF Message

\* The frames the pump pushes are frames.
LEMMA FrameTypes ==
  /\ \A w \in Waits : WaitFrame(w) \in Frame
  /\ \A m \in Message, p \in PortKeys, s \in {"lookup", "body", "once"} : DispatchFrame(m, p, s) \in Frame
BY DEF WaitFrame, DispatchFrame, Frame

\* The stack after a port has been served.
LEMMA AfterType ==
  ASSUME Below \in Seq(Frame), NEW m \in Message, NEW p \in PortKeys
  PROVE  After(m, p) \in Seq(Frame)
<1>1. DispatchFrame(m, AnyPort, "lookup") \in Frame
  BY FrameTypes DEF PortKeys
<1>2. Append(Below, DispatchFrame(m, AnyPort, "lookup")) \in Seq(Frame)
  BY <1>1
<1> QED
  BY <1>2 DEF After

-----------------------------------------------------------------------------
(* Types. *)

\* Every step keeps the types of the variables.
LEMMA TypeStep == TypeOK /\ [Next]_vars => TypeOK'
<1> SUFFICES ASSUME TypeOK, [Next]_vars PROVE TypeOK'
  OBVIOUS
<1> USE DEF TypeOK, cardVars, listenerVars, waitVars
<1>1. ASSUME NEW p \in Numbered, NEW e \in Events, Receive(p, e) PROVE TypeOK'
  <2>1. sent + 1 \in 1 .. MaxMessages
    BY <1>1, LimitsAssumption DEF Receive
  <2>2. [port |-> p, event |-> e, id |-> sent + 1] \in Message
    BY <2>1 DEF Message
  <2>3. queue' \in Seq(Message \cup {NoMessage}) /\ sent' \in 0 .. MaxMessages
    BY <1>1, <2>1, <2>2 DEF Receive
  <2> QED
    BY <1>1, <2>3 DEF Receive
<1>2. CASE OtherSignal
  <2>1. queue' \in Seq(Message \cup {NoMessage}) /\ sent' \in 0 .. MaxMessages
    BY <1>2, LimitsAssumption DEF OtherSignal
  <2> QED
    BY <1>2, <2>1 DEF OtherSignal
<1>3. ASSUME NEW pn \in Handlers, AddHandler(pn[1], pn[2]) PROVE TypeOK'
  <2>1. pn[1] \in PortKeys /\ pn[2] \in Names
    BY ProgramAssumption DEF PortKeys, Names
  <2> QED
    BY <1>3, <2>1 DEF AddHandler, OpenPort
<1>4. ASSUME NEW w \in Waits, NEW p \in PortKeys, NEW e \in Events, WaitForEvent(w, p, e) PROVE TypeOK'
  <2>1. <<p, e>> \in PortKeys \X Names
    BY DEF Names
  <2>2. once' \in [PortKeys \X Names -> SUBSET Waits] /\ place' \in [Waits -> PortKeys \X Names]
    BY <1>4, <2>1 DEF WaitForEvent
  <2>3. stack' \in Seq(Frame)
    BY <1>4, FrameTypes DEF WaitForEvent
  <2> QED
    BY <1>4, <2>2, <2>3 DEF WaitForEvent, OpenPort
<1>5. CASE PullMessage
  <2>1. Head(queue) \in Message /\ queue' \in Seq(Message \cup {NoMessage})
    BY <1>5 DEF PullMessage
  <2>2. Head(queue).port \in PortKeys
    BY <2>1 DEF Message, PortKeys
  <2>3. stack' \in Seq(Frame)
    BY <1>5, <2>1, <2>2, FrameTypes DEF PullMessage
  <2> QED
    BY <1>5, <2>1, <2>3 DEF PullMessage
<1>6. CASE PullOther
  BY <1>6 DEF PullOther
<1>7. CASE WaitReturns \/ WaitTimesOut
  <2>1. InWait /\ returned' = returned \cup {Top.wait} /\ stack' = Below
    BY <1>7 DEF WaitReturns, WaitTimesOut
  <2>2. stack' \in Seq(Frame)
    BY <2>1, StackTypes DEF InWait
  <2>3. Top.wait \in Waits
    BY <2>1, StackTypes DEF InWait, Frame
  <2>4. returned' \subseteq Waits
    BY <2>1, <2>3
  <2> QED
    BY <1>7, <2>2, <2>4 DEF WaitReturns, WaitTimesOut
<1>8. CASE PortMissing
  <2>1. stack' \in Seq(Frame)
    BY <1>8, DispatchFacts, AfterType DEF PortMissing
  <2>2. missed' \subseteq Waits
    BY <1>8 DEF PortMissing, PassedBy
  <2> QED
    BY <1>8, <2>1, <2>2 DEF PortMissing
<1>9. CASE PortFound \/ BodyReturns
  <2>1. /\ Top.message \in Message /\ Top.at \in PortKeys /\ Below \in Seq(Frame)
    BY <1>9, DispatchFacts DEF PortFound, BodyReturns
  <2>2. \A s \in {"body", "once"} : Append(Below, DispatchFrame(Top.message, Top.at, s)) \in Seq(Frame)
    BY <2>1, FrameTypes
  <2>3. \E s \in {"body", "once"} : stack' = Append(Below, DispatchFrame(Top.message, Top.at, s))
    BY <1>9 DEF PortFound, BodyReturns
  <2> QED
    BY <1>9, <2>2, <2>3 DEF PortFound, BodyReturns
<1>10. CASE ServeOnce
  <2>1. /\ Top.message \in Message /\ Top.at \in PortKeys /\ Below \in Seq(Frame)
    BY <1>10, DispatchFacts DEF ServeOnce
  <2>2. stack' \in Seq(Frame)
    BY <1>10, <2>1, AfterType DEF ServeOnce
  <2>3. once' \in [PortKeys \X Names -> SUBSET Waits] /\ result' \in [Waits -> Message \cup {NoMessage}]
    BY <1>10, <2>1 DEF ServeOnce
  <2>4. missed' \subseteq Waits /\ ports' \subseteq PortKeys /\ open' \subseteq Numbered
    BY <1>10 DEF ServeOnce, PassedBy
  <2> QED
    BY <1>10, <2>2, <2>3, <2>4 DEF ServeOnce
<1>11. CASE UNCHANGED vars
  BY <1>11 DEF vars
<1> QED
  BY <1>1, <1>2, <1>3, <1>4, <1>5, <1>6, <1>7, <1>8, <1>9, <1>10, <1>11 DEF Next

-----------------------------------------------------------------------------
(* Listeners and ports. *)

\* Steps that leave the listeners, the waits and the card alone, or only end waits.
LEMMA QuietStep ==
  ASSUME ListenersHear, PortsHaveListeners,
         UNCHANGED <<open, ports, handlers, once, place, result, called>>,
         returned \subseteq returned'
  PROVE  ListenersHear' /\ PortsHaveListeners'
<1>1. ListenersHear'
  BY DEF ListenersHear
<1>2. PortsHaveListeners'
  BY DEF PortsHaveListeners, HasListeners, HasEvent
<1> QED
  BY <1>1, <1>2

\* A new task finds its port registered and open.
LEMMA AddHandlerStep ==
  ASSUME TypeOK, ListenersHear, PortsHaveListeners, NEW pn \in Handlers, AddHandler(pn[1], pn[2])
  PROVE  ListenersHear' /\ PortsHaveListeners'
<1>1. /\ pn[1] \in PortKeys /\ pn[2] \in Names
  BY ProgramAssumption DEF PortKeys, Names
<1>2. /\ handlers' = handlers \cup {<<pn[1], pn[2]>>} /\ ports' = ports \cup {pn[1]}
      /\ open' = open \cup ({pn[1]} \cap Numbered)
      /\ UNCHANGED <<once, place, result, called, returned>>
  BY DEF AddHandler, OpenPort, waitVars
<1>3. ListenersHear'
  BY <1>2 DEF ListenersHear
<1>4. \A p \in ports' : HasListeners(p, handlers', once')
  <2>1. HasListeners(pn[1], handlers', once')
    BY <1>1, <1>2 DEF HasListeners, HasEvent
  <2>2. ASSUME NEW p \in ports PROVE HasListeners(p, handlers', once')
    BY <1>2 DEF PortsHaveListeners, HasListeners, HasEvent
  <2> QED
    BY <1>2, <2>1, <2>2
<1>5. open' \subseteq ports'
  BY <1>2 DEF PortsHaveListeners
<1> QED
  BY <1>3, <1>4, <1>5 DEF PortsHaveListeners

\* A new wait finds its port registered and open, and is a once task of its event.
LEMMA WaitForEventStep ==
  ASSUME TypeOK, ListenersHear, PortsHaveListeners,
         NEW w \in Waits, NEW p \in PortKeys, NEW e \in Events, WaitForEvent(w, p, e)
  PROVE  ListenersHear' /\ PortsHaveListeners'
<1>1. <<p, e>> \in PortKeys \X Names
  BY DEF Names
<1>2. /\ w \notin called /\ called' = called \cup {w} /\ ports' = ports \cup {p}
      /\ place' = [place EXCEPT ![w] = <<p, e>>]
      /\ once' = [once EXCEPT ![<<p, e>>] = @ \cup {w}]
      /\ open' = open \cup ({p} \cap Numbered)
      /\ UNCHANGED <<handlers, result, returned>>
  BY DEF WaitForEvent, OpenPort
<1>3. place'[w] = <<p, e>> /\ \A v \in Waits : v # w => place'[v] = place[v]
  BY <1>2 DEF TypeOK
<1>4. w \in once'[<<p, e>>] /\ \A l \in PortKeys \X Names : once[l] \subseteq once'[l]
  BY <1>1, <1>2 DEF TypeOK
<1>5. ListenersHear'
  <2>1. \A l \in handlers' : l[1] \in ports' /\ (l[1] \in Numbered => l[1] \in open')
    BY <1>2 DEF ListenersHear
  <2>2. ASSUME NEW v \in called' \ returned', result'[v] = NoMessage
        PROVE  /\ v \in once'[place'[v]]
               /\ place'[v][1] \in ports'
               /\ place'[v][1] \in Numbered => place'[v][1] \in open'
    <3>1. CASE v = w
      BY <3>1, <1>2, <1>3, <1>4
    <3>2. CASE v # w
      <4>1. v \in called \ returned /\ result[v] = NoMessage /\ v \in Waits /\ place'[v] = place[v]
        BY <3>2, <2>2, <1>2, <1>3 DEF TypeOK
      <4>2. place[v] \in PortKeys \X Names
        BY <4>1 DEF TypeOK
      <4> QED
        BY <4>1, <4>2, <1>2, <1>4 DEF ListenersHear
    <3> QED
      BY <3>1, <3>2
  <2> QED
    BY <2>1, <2>2 DEF ListenersHear
<1>6. \A q \in ports' : HasListeners(q, handlers', once')
  <2>1. HasListeners(p, handlers', once')
    BY <1>4 DEF HasListeners, HasEvent, Names
  <2>2. ASSUME NEW q \in ports PROVE HasListeners(q, handlers', once')
    <3>1. PICK n \in Names : HasEvent(q, n, handlers, once)
      BY DEF PortsHaveListeners, HasListeners
    <3>2. <<q, n>> \in PortKeys \X Names
      BY DEF TypeOK
    <3>3. HasEvent(q, n, handlers', once')
      BY <3>1, <3>2, <1>2, <1>4 DEF HasEvent
    <3> QED
      BY <3>3 DEF HasListeners
  <2> QED
    BY <1>2, <2>1, <2>2
<1>7. open' \subseteq ports'
  BY <1>2 DEF PortsHaveListeners
<1> QED
  BY <1>5, <1>6, <1>7 DEF PortsHaveListeners

\* Serving the once tasks of an event leaves a port to whoever still listens on it.
LEMMA ServeOnceStep ==
  ASSUME TypeOK, ListenersHear, PortsHaveListeners, ServeOnce
  PROVE  /\ ListenersHear' /\ PortsHaveListeners'
         /\ missed' = missed
<1>1. /\ Top.message \in Message /\ Top.at \in PortKeys /\ Top.message.event \in Events
  BY DispatchFacts DEF ServeOnce, TypeOK
<1>2. PICK m \in Message, p \in PortKeys, l \in PortKeys \X Names :
        m = Top.message /\ p = Top.at /\ l = <<p, m.event>>
  BY <1>1 DEF Names
<1>3. /\ once' = [once EXCEPT ![l] = {}]
      /\ result' = [w \in Waits |-> IF w \in once[l] \ returned THEN m ELSE result[w]]
      /\ missed' = missed \cup PassedBy(m, p, once[l])
      /\ UNCHANGED <<handlers, place, called, returned>>
  BY <1>2 DEF ServeOnce
<1>4. IF HasListeners(p, handlers, once')
        THEN ports' = ports /\ open' = open
        ELSE ports' = ports \ {p} /\ open' = open \ {p}
  BY <1>2 DEF ServeOnce
<1>5. once'[l] = {} /\ \A o \in PortKeys \X Names : o # l => once'[o] = once[o]
  BY <1>3 DEF TypeOK
<1>6. ListenersHear'
  <2>1. ASSUME NEW o \in handlers'
        PROVE  o[1] \in ports' /\ (o[1] \in Numbered => o[1] \in open')
    <3>1. o \in handlers /\ o \in PortKeys \X Names
      BY <1>3, <2>1 DEF TypeOK
    <3>2. o[1] = p => HasListeners(p, handlers, once')
      BY <3>1 DEF HasListeners, HasEvent
    <3> QED
      BY <3>1, <3>2, <1>4 DEF ListenersHear
  <2>2. ASSUME NEW w \in called' \ returned', result'[w] = NoMessage
        PROVE  /\ w \in once'[place'[w]]
               /\ place'[w][1] \in ports'
               /\ place'[w][1] \in Numbered => place'[w][1] \in open'
    <3>1. w \in called \ returned /\ w \in Waits /\ place'[w] = place[w]
      BY <1>3, <2>2 DEF TypeOK
    <3>2. w \notin once[l] /\ result[w] = NoMessage
      BY <1>3, <3>1, <2>2, NilAssumption
    <3>3. /\ place[w] \in PortKeys \X Names /\ w \in once[place[w]]
          /\ place[w][1] \in ports /\ (place[w][1] \in Numbered => place[w][1] \in open)
      BY <3>1, <3>2 DEF ListenersHear, TypeOK
    <3>4. w \in once'[place[w]]
      BY <3>2, <3>3, <1>5
    <3>5. place[w][1] = p => HasListeners(p, handlers, once')
      BY <3>3, <3>4 DEF HasListeners, HasEvent
    <3> QED
      BY <3>1, <3>3, <3>4, <3>5, <1>4
  <2> QED
    BY <2>1, <2>2 DEF ListenersHear
<1>7. \A q \in ports' : HasListeners(q, handlers', once')
  <2> SUFFICES ASSUME NEW q \in ports' PROVE HasListeners(q, handlers', once')
    OBVIOUS
  <2>1. CASE q = p
    BY <2>1, <1>3, <1>4
  <2>2. CASE q # p
    <3>1. PICK n \in Names : HasEvent(q, n, handlers, once)
      BY <1>4 DEF PortsHaveListeners, HasListeners
    <3>2. <<q, n>> \in PortKeys \X Names /\ <<q, n>> # l
      BY <1>2, <1>4, <2>2 DEF TypeOK
    <3>3. once'[<<q, n>>] = once[<<q, n>>]
      BY <3>2, <1>5
    <3> QED
      BY <3>1, <3>3, <1>3 DEF HasListeners, HasEvent
  <2> QED
    BY <2>1, <2>2
<1>8. open' \subseteq ports'
  BY <1>4 DEF PortsHaveListeners
<1>9. PassedBy(m, p, once[l]) = {}
  BY <1>2 DEF PassedBy, ListenersHear
<1> QED
  BY <1>3, <1>6, <1>7, <1>8, <1>9 DEF PortsHaveListeners

\* Closing the port of a message nobody listens to takes it from nobody.
LEMMA PortMissingStep ==
  ASSUME TypeOK, ListenersHear, PortsHaveListeners, PortMissing
  PROVE  /\ ListenersHear' /\ PortsHaveListeners'
         /\ missed' = missed
<1>1. Top.at \notin open
  BY DEF PortMissing, PortsHaveListeners
<1>2. UNCHANGED <<open, ports, handlers, once, place, result, called, returned>>
  BY <1>1 DEF PortMissing, listenerVars, waitVars
<1>3. PassedBy(Top.message, Top.at, {}) = {}
  BY DEF PassedBy, ListenersHear, PortMissing
<1> QED
  BY <1>2, <1>3, QuietStep DEF PortMissing

\* Every step keeps the invariant.
LEMMA InvStep == Inv /\ [Next]_vars => Inv'
<1> SUFFICES ASSUME Inv, [Next]_vars PROVE Inv'
  OBVIOUS
<1> USE DEF Inv
<1>1. TypeOK'
  BY TypeStep
<1> DEFINE Rest == ListenersHear /\ PortsHaveListeners /\ NoMissedMessage
<1>2. ASSUME NEW pn \in Handlers, AddHandler(pn[1], pn[2]) PROVE Rest'
  BY <1>2, AddHandlerStep DEF AddHandler, NoMissedMessage
<1>3. ASSUME NEW w \in Waits, NEW p \in PortKeys, NEW e \in Events, WaitForEvent(w, p, e) PROVE Rest'
  BY <1>3, WaitForEventStep DEF WaitForEvent, NoMissedMessage
<1>4. CASE ServeOnce
  BY <1>1, <1>4, ServeOnceStep DEF NoMissedMessage
<1>5. CASE PortMissing
  BY <1>1, <1>5, PortMissingStep DEF NoMissedMessage
<1>6. CASE \/ \E p \in Numbered, e \in Events : Receive(p, e)
           \/ OtherSignal \/ PullMessage \/ PullOther \/ WaitReturns \/ WaitTimesOut
           \/ PortFound \/ BodyReturns \/ UNCHANGED vars
  <2>1. /\ UNCHANGED <<open, ports, handlers, once, place, result, called, missed>>
        /\ returned \subseteq returned'
    BY <1>6 DEF Receive, OtherSignal, PullMessage, PullOther, WaitReturns, WaitTimesOut,
                PortFound, BodyReturns, vars, cardVars, listenerVars, waitVars
  <2> QED
    BY <1>1, <2>1, QuietStep DEF NoMissedMessage
<1> QED
  BY <1>1, <1>2, <1>3, <1>4, <1>5, <1>6 DEF Next

-----------------------------------------------------------------------------
(* The theorems. *)

\* A new client has no ports and no listeners.
LEMMA InvInit == Init => Inv
<1> SUFFICES ASSUME Init PROVE Inv
  OBVIOUS
<1>1. TypeOK
  BY LimitsAssumption DEF Init, TypeOK, PortKeys, Names
<1>2. ListenersHear /\ PortsHaveListeners /\ NoMissedMessage
  BY DEF Init, ListenersHear, PortsHaveListeners, NoMissedMessage
<1> QED
  BY <1>1, <1>2 DEF Inv

\* NetworkClient.lua, NetworkPort.lua: the invariant holds in every behaviour.
THEOREM Invariance == Spec => []Inv
BY InvInit, InvStep, PTL DEF Spec

\* The variables of the client keep their types.
THEOREM TypeCorrect == Spec => []TypeOK
BY Invariance, PTL DEF Inv

\* Every listener's port is registered and open, whatever the dispatches that
\* a waiting call makes remove and close (NetworkClient.lua:120-131, 178-195).
THEOREM ListenersHearCorrect == Spec => []ListenersHear
BY Invariance, PTL DEF Inv

\* No port stays open, or registered, after its last listener.
THEOREM PortsHaveListenersCorrect == Spec => []PortsHaveListeners
BY Invariance, PTL DEF Inv

\* No dispatch passes a waiting call by (NetworkPort.lua:39-49).
THEOREM NoMissedMessageCorrect == Spec => []NoMissedMessage
BY Invariance, PTL DEF Inv
=============================================================================

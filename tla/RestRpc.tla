------------------------------- MODULE RestRpc -------------------------------
(***************************************************************************)
(* Requests between computers over Net.Rest                                *)
(* (src/Net/Rest/Api/Client/Client.lua, src/Net/Rest/Api/Server/*.lua).     *)
(*                                                                         *)
(* Every computer has one Lua thread and is client and server at once.  A   *)
(* call of Client:Send pumps signals until it has a response: requests of   *)
(* others are served on top of it, and the body of any other handler may    *)
(* Send in turn.  Responses carry nothing that names their request: one     *)
(* that arrives is given to every Send of the computer that still waits.    *)
(* A response nobody waits for is dropped with the port or swallowed by the *)
(* once task of a Send that has returned; that each waiting Send has its    *)
(* once task and its port is ListenersHear of NetworkClient.                *)
(*                                                                         *)
(* Messages may be lost, and arrive in any order: nothing is assumed of the *)
(* network.  A request is its number; the number is history, the messages   *)
(* of the code do not carry it.                                             *)
(***************************************************************************)
EXTENDS Naturals, Sequences, FiniteSets, SequencesExt

CONSTANTS
  Computers,
  NoAnswer,     \* the result of a Send that has none yet
  MaxRequests,  \* bound: requests in a behaviour
  MaxDepth,     \* bound: frames on a call stack
  MaxSignals    \* bound: other signals whose handlers run inside a Send

ASSUME BoundsAssumption == MaxRequests \in Nat /\ MaxDepth \in Nat /\ MaxSignals \in Nat

Requests == 1 .. MaxRequests
Codes == {"404", "500"}
Answer == [of : Requests, code : Codes]
ASSUME NoAnswerAssumption == NoAnswer \notin Answer

VARIABLES
  calls,      \* from and to which computer each request was sent
  stack,      \* the call stack of each computer: requests it waits for, and handlers
  answer,     \* the response each Send got
  messages,   \* requests and responses under way
  signals,    \* history: number of other signals
  executed,   \* history: requests whose endpoint was executed
  lapses      \* history: Sends of each computer that timed out or ran inside another

vars == <<calls, stack, answer, messages, signals, executed, lapses>>

Message ==
  [kind : {"request"}, id : Requests] \cup [kind : {"response"}, id : Requests, code : Codes]
RequestOf(id) == [kind |-> "request", id |-> id]
ResponseTo(id, code) == [kind |-> "response", id |-> id, code |-> code]

\* The frame of a handler; those of a Send are the number of its request.
Handler == 0

Sender(id) == calls[id].from
Receiver(id) == calls[id].to

InSend(c) == stack[c] # <<>> /\ Last(stack[c]) # Handler
HasAnswer(c) == answer[Last(stack[c])] # NoAnswer
Pumps(c) == stack[c] # <<>> => InSend(c) /\ ~HasAnswer(c)
Lapse(c) == lapses' = [lapses EXCEPT ![c] = lapses[c] + 1]
disturbed == {c \in Computers : lapses[c] > 0}
Waiting(c) == {id \in Requests : id \in ToSet(stack[c]) /\ answer[id] = NoAnswer}

Push(c, frame) == stack' = [stack EXCEPT ![c] = Append(stack[c], frame)]
Pop(c) == stack' = [stack EXCEPT ![c] = Front(stack[c])]

Init ==
  /\ calls = <<>>
  /\ stack = [c \in Computers |-> <<>>]
  /\ answer = [id \in Requests |-> NoAnswer]
  /\ messages = {}
  /\ signals = 0
  /\ executed = {}
  /\ lapses = [c \in Computers |-> 0]

-----------------------------------------------------------------------------
(* The client. *)

Send(c, d) ==
  /\ c # d
  /\ ~InSend(c)
  /\ Len(calls) < MaxRequests /\ Len(stack[c]) < MaxDepth
  /\ calls' = Append(calls, [from |-> c, to |-> d])
  /\ messages' = messages \cup {RequestOf(Len(calls) + 1)}
  /\ Push(c, Len(calls) + 1)
  /\ IF stack[c] = <<>> THEN UNCHANGED lapses ELSE Lapse(c)
  /\ UNCHANGED <<answer, signals, executed>>

\* A wrong Send that leaves the response to the next one.
DeliverTwice(c, m) ==
  /\ Pumps(c)
  /\ m.kind = "response" /\ Sender(m.id) = c
  /\ answer' = [id \in Requests |->
                  IF id \in Waiting(c) THEN [of |-> m.id, code |-> m.code] ELSE answer[id]]
  /\ UNCHANGED <<calls, stack, messages, signals, executed, lapses>>

Deliver(c, m) ==
  /\ Pumps(c)
  /\ m.kind = "response" /\ Sender(m.id) = c
  /\ messages' = messages \ {m}
  /\ answer' = [id \in Requests |->
                  IF id \in Waiting(c) THEN [of |-> m.id, code |-> m.code] ELSE answer[id]]
  /\ UNCHANGED <<calls, stack, signals, executed, lapses>>

SendReturns(c) ==
  /\ InSend(c)
  /\ HasAnswer(c)
  /\ Pop(c)
  /\ UNCHANGED <<calls, answer, messages, signals, executed, lapses>>

\* A wrong Send that waits again.
SendWaitsAgain(c) == InSend(c) /\ UNCHANGED vars

\* A wrong Send that sends its request again when Wait returned nil.
SendSendsAgain(c) ==
  /\ InSend(c)
  /\ ~HasAnswer(c)
  /\ Len(calls) < MaxRequests
  /\ calls' = Append(calls, calls[Last(stack[c])])
  /\ messages' = messages \cup {RequestOf(Len(calls) + 1)}
  /\ stack' = [stack EXCEPT ![c][Len(stack[c])] = Len(calls) + 1]
  /\ UNCHANGED <<answer, signals, executed, lapses>>

\* Wait returned nil: the Send answers 408 itself.
SendTimesOut(c) ==
  /\ InSend(c)
  /\ ~HasAnswer(c)
  /\ Pop(c)
  /\ IF Len(stack[c]) = 1 THEN Lapse(c) ELSE UNCHANGED lapses
  /\ UNCHANGED <<calls, answer, messages, signals, executed>>

-----------------------------------------------------------------------------
(* Other handlers that run on top of a Send. *)

HandlerStarts(c) ==
  /\ InSend(c) /\ Pumps(c)
  /\ signals < MaxSignals /\ Len(stack[c]) < MaxDepth
  /\ signals' = signals + 1
  /\ Push(c, Handler)
  /\ UNCHANGED <<calls, answer, messages, executed, lapses>>

HandlerEnds(c) ==
  /\ stack[c] # <<>> /\ Last(stack[c]) = Handler
  /\ Pop(c)
  /\ UNCHANGED <<calls, answer, messages, signals, executed, lapses>>

-----------------------------------------------------------------------------
(* The server: Controller:onMessageReceived, which no endpoint interrupts.  *)

Receives(c, m) == Pumps(c) /\ m.kind = "request" /\ Receiver(m.id) = c

\* A wrong GetOrCreateApiController, with a second controller on the port that
\* will serve the same request.
RespondAndServeAgain(m, code) == messages' = messages \cup {ResponseTo(m.id, code)}

Respond(m, code) == messages' = (messages \ {m}) \cup {ResponseTo(m.id, code)}

NoEndpoint(c, m) ==
  /\ Receives(c, m)
  /\ Respond(m, "404")
  /\ UNCHANGED <<calls, stack, answer, signals, executed, lapses>>

\* The parameters of the URL cannot be parsed.
NoParameters(c, m) ==
  /\ Receives(c, m)
  /\ Respond(m, "500")
  /\ UNCHANGED <<calls, stack, answer, signals, executed, lapses>>

EndpointFails(c, m) ==
  /\ Receives(c, m)
  /\ executed' = executed \cup {m.id}
  /\ Respond(m, "500")
  /\ UNCHANGED <<calls, stack, answer, signals, lapses>>

\* A wrong Invoke that returns no response where it should raise.
EndpointSucceedsWithNil(c, m) ==
  /\ Receives(c, m)
  /\ executed' = executed \cup {m.id}
  /\ messages' = (messages \ {m}) \cup {[kind |-> "response", id |-> m.id]}
  /\ UNCHANGED <<calls, stack, answer, signals, lapses>>

\* The task AddEndpoint wraps around an endpoint returns nothing, so that
\* Invoke has no response whose code it could log, be it 200 or a 404 of the
\* endpoint's own: it raises, and the task of the controller ends before it
\* sends anything.
EndpointSucceeds(c, m) ==
  /\ Receives(c, m)
  /\ executed' = executed \cup {m.id}
  /\ messages' = messages \ {m}
  /\ UNCHANGED <<calls, stack, answer, signals, lapses>>

-----------------------------------------------------------------------------
Lose(m) ==
  /\ messages' = messages \ {m}
  /\ UNCHANGED <<calls, stack, answer, signals, executed, lapses>>

Serve(c, m) == NoEndpoint(c, m) \/ NoParameters(c, m) \/ EndpointFails(c, m) \/ EndpointSucceeds(c, m)

Thread(c) ==
  \/ \E m \in messages : Deliver(c, m) \/ Serve(c, m)
  \/ SendReturns(c)
  \/ SendTimesOut(c)
  \/ HandlerEnds(c)

Next ==
  \/ \E c \in Computers : Thread(c) \/ HandlerStarts(c) \/ \E d \in Computers : Send(c, d)
  \/ \E m \in messages : Lose(m)

Spec == Init /\ [][Next]_vars

(* The thread of each computer goes on as long as it can: timers fire and    *)
(* the bodies of handlers end.                                               *)
FairSpec == Spec /\ \A c \in Computers : WF_vars(Thread(c))

-----------------------------------------------------------------------------
(* Type invariant: of the requests, the call stacks and the network. *)
TypeOK ==
  /\ calls \in Seq([from : Computers, to : Computers])
  /\ Len(calls) <= MaxRequests
  /\ stack \in [Computers -> Seq({Handler} \cup Requests)]
  /\ answer \in [Requests -> Answer \cup {NoAnswer}]
  /\ messages \subseteq Message
  /\ signals \in Nat
  /\ executed \subseteq Requests
  /\ lapses \in [Computers -> Nat]

(* A computer that never lets a Send time out and never sends while it waits *)
(* gets to every request the response to that request, although responses    *)
(* do not name it.                                                           *)
OwnAnswer ==
  \A id \in Requests : answer[id] # NoAnswer /\ Sender(id) \notin disturbed => answer[id].of = id

(* Whatever was mixed up: of the messages of a computer that are under way    *)
(* only one can belong to a call it still waits for, and there is at most one  *)
(* more for each of its Sends that timed out or ran inside another.  Nothing   *)
(* else can be executed late, or be taken for the answer to a later request.   *)
StaleIsBounded ==
  \A c \in Computers :
    Cardinality({m \in messages : Sender(m.id) = c})
      <= lapses[c] + IF stack[c] # <<>> /\ answer[stack[c][1]] = NoAnswer THEN 1 ELSE 0

(* The computers implement the RemoteCall: a response that comes twice, or   *)
(* for another Send, and a request that is served after its caller was told  *)
(* the outcome, would be steps no RemoteCall makes.  What a caller can be    *)
(* sure of is what its Send got, unless it is disturbed.                     *)
Told ==
  [id \in Requests |->
    IF answer[id] # NoAnswer /\ Sender(id) \notin disturbed THEN answer[id].code ELSE NoAnswer]

Abstract == INSTANCE RemoteCall WITH Nothing <- NoAnswer, told <- Told, unsure <- disturbed

ImplementsRemoteCall == Abstract!Spec

(* Every program gets back from its Sends, also when computers wait for one  *)
(* another: a waiting computer serves, and the Sends of handlers that run    *)
(* inside one another get their answers or time out, too.                    *)
SendsReturn == \A c \in Computers : (stack[c] # <<>>) ~> (stack[c] = <<>>)

(* Endpoint:Invoke has `---@return Net.Rest.Api.Response response'           *)
(* (Endpoint.lua:97): whatever an endpoint does, its caller gets a response. *)
ExecutedIsAnswered ==
  [][\A id \in executed' \ executed : \E code \in Codes : ResponseTo(id, code) \in messages']_vars
=============================================================================

---------------------------- MODULE RestRpc_proofs ----------------------------
(***************************************************************************)
(* Proofs about RestRpc, for any computers and any number of requests.      *)
(*                                                                         *)
(* OwnAnswer says nothing of messages and stacks, so it is not inductive:   *)
(* the response of an earlier request might still be under way.  Inv adds   *)
(* that there is at most one message of each request, none once its answer  *)
(* was delivered, and that a computer that is not disturbed waits for at    *)
(* most one request and has the answers to all others.                      *)
(*                                                                         *)
(* StaleIsBounded counts messages, and is inductive once Inv is known.      *)
(***************************************************************************)
EXTENDS RestRpc, FiniteSetTheorems, TLAPS

Sent == 1 .. Len(calls)

\* One message for each request, and none was executed that is still to be served.
NetInv ==
  /\ executed \subseteq Sent
  /\ \A m \in messages : m.id \in Sent
  /\ \A m, n \in messages : m.id = n.id => m = n
  /\ \A m \in messages : m.kind = "request" => m.id \notin executed

\* The request whose answer was delivered has no message left.
AnswerInv ==
  \A id \in Requests : answer[id] # NoAnswer =>
    /\ id \in Sent
    /\ answer[id].of \in Sent
    /\ \A m \in messages : m.id # answer[id].of

\* A computer waits for its own requests only, and handlers run on top of a Send.
StackInv ==
  \A c \in Computers :
    /\ \A i \in DOMAIN stack[c] : stack[c][i] # Handler => stack[c][i] \in Sent /\ Sender(stack[c][i]) = c
    /\ 1 \in DOMAIN stack[c] => stack[c][1] # Handler

\* A computer that is not disturbed waits in its outermost Send only, and got the
\* answers to all other requests.
CalmInv ==
  \A c \in Computers \ disturbed :
    /\ \A i \in DOMAIN stack[c] : i # 1 => stack[c][i] = Handler
    /\ \A id \in Sent : Sender(id) = c =>
         \/ \E i \in DOMAIN stack[c] : stack[c][i] = id
         \/ answer[id] # NoAnswer
    /\ \A id \in Sent : Sender(id) = c /\ answer[id] # NoAnswer => answer[id].of = id

Inv == TypeOK /\ NetInv /\ AnswerInv /\ StackInv /\ CalmInv
-----------------------------------------------------------------------------
(* What the sequences of the model are made of. *)

Frames == {Handler} \cup Requests

\* An element of a sequence.
LEMMA ElementTypes == ASSUME NEW C, NEW s \in Seq(C), NEW i \in DOMAIN s PROVE s[i] \in C
OBVIOUS

\* The innermost frame of a call stack and the frames below it.
LEMMA StackTypes ==
  ASSUME NEW s \in Seq(Frames), s # <<>>
  PROVE  /\ Last(s) \in Frames /\ Len(s) \in DOMAIN s /\ Last(s) = s[Len(s)]
         /\ Front(s) \in Seq(Frames)
         /\ \A i \in DOMAIN Front(s) : i \in DOMAIN s /\ Front(s)[i] = s[i]
         /\ \A i \in DOMAIN s : i # Len(s) => i \in DOMAIN Front(s)
BY DEF Last, Front

\* A frame put on top of a call stack.
LEMMA PushTypes ==
  ASSUME NEW s \in Seq(Frames), NEW f \in Frames
  PROVE  /\ Append(s, f) \in Seq(Frames)
         /\ DOMAIN Append(s, f) = DOMAIN s \cup {Len(s) + 1}
         /\ Append(s, f)[Len(s) + 1] = f
         /\ \A i \in DOMAIN s : Append(s, f)[i] = s[i] /\ i # Len(s) + 1
OBVIOUS

\* One more request leaves the earlier ones as they were.
LEMMA CallTypes ==
  ASSUME TypeOK, NEW c \in Computers, NEW d \in Computers, calls' = Append(calls, [from |-> c, to |-> d])
  PROVE  /\ calls' \in Seq([from : Computers, to : Computers])
         /\ Len(calls') = Len(calls) + 1
         /\ Sent' = Sent \cup {Len(calls) + 1} /\ Len(calls) + 1 \notin Sent
         /\ \A id \in Sent : calls'[id] = calls[id]
         /\ calls'[Len(calls) + 1].from = c
BY DEF TypeOK, Sent

\* Requests are numbers, a handler's frame is none of them.
LEMMA RequestFacts == ASSUME TypeOK PROVE Sent \subseteq Requests /\ Handler \notin Requests
BY BoundsAssumption DEF TypeOK, Sent, Requests, Handler

\* A lapse disturbs its computer.
LEMMA LapseTypes ==
  ASSUME TypeOK, NEW c \in Computers, Lapse(c)
  PROVE  /\ lapses' \in [Computers -> Nat] /\ disturbed' = disturbed \cup {c}
         /\ lapses'[c] = lapses[c] + 1 /\ \A e \in Computers : e # c => lapses'[e] = lapses[e]
BY DEF TypeOK, Lapse, disturbed

\* Who is disturbed depends on the lapses only.
LEMMA SameLapses == ASSUME UNCHANGED lapses PROVE UNCHANGED disturbed
BY DEF disturbed

-----------------------------------------------------------------------------
(* At the start nothing was sent. *)
LEMMA InitInv == Init => Inv
<1> SUFFICES ASSUME Init PROVE Inv
  OBVIOUS
<1>1. TypeOK
  BY BoundsAssumption DEF Init, TypeOK
<1>2. Sent = {}
  BY DEF Init, Sent
<1>3. NetInv /\ AnswerInv /\ StackInv
  BY DEF Init, NetInv, AnswerInv, StackInv
<1>4. CalmInv
  BY <1>2 DEF Init, CalmInv
<1> QED
  BY <1>1, <1>3, <1>4 DEF Inv

\* A message that is taken away disturbs nothing.
LEMMA LoseStep ==
  ASSUME Inv, NEW m \in messages, Lose(m)
  PROVE  Inv'
<1> USE DEF Lose
<1>1. messages' \subseteq messages
  OBVIOUS
<1>2. TypeOK'
  BY <1>1 DEF Inv, TypeOK
<1>3. Sent' = Sent /\ disturbed' = disturbed
  BY SameLapses DEF Sent
<1>4. NetInv' /\ AnswerInv'
  BY <1>1, <1>3 DEF Inv, NetInv, AnswerInv
<1>5. StackInv' /\ CalmInv'
  BY <1>3 DEF Inv, StackInv, CalmInv, Sender
<1> QED
  BY <1>2, <1>4, <1>5 DEF Inv

-----------------------------------------------------------------------------
(* The server: the request is replaced by a response or by nothing. *)
LEMMA ServeStep ==
  ASSUME Inv, NEW c \in Computers, NEW m \in messages, Serve(c, m)
  PROVE  Inv'
<1> DEFINE Response == messages' \ messages
<1>1. /\ UNCHANGED <<calls, stack, answer, signals, lapses>>
      /\ m.kind = "request" /\ m \in Message /\ m.id \in Requests
  BY DEF Serve, NoEndpoint, NoParameters, EndpointFails, EndpointSucceeds, Receives, Inv, TypeOK, Message
<1>2. /\ executed' \subseteq executed \cup {m.id} /\ executed \subseteq executed'
      /\ \/ messages' = messages \ {m}
         \/ \E code \in Codes : messages' = (messages \ {m}) \cup {ResponseTo(m.id, code)}
  BY DEF Serve, NoEndpoint, NoParameters, EndpointFails, EndpointSucceeds, Respond, Codes
<1>3. m.id \notin executed /\ m.id \in Sent
  BY <1>1 DEF Inv, NetInv
<1>4. Sent' = Sent /\ disturbed' = disturbed
  BY <1>1, SameLapses DEF Sent
<1>5. \A code \in Codes : /\ ResponseTo(m.id, code) \in Message
                          /\ ResponseTo(m.id, code).id = m.id
                          /\ ResponseTo(m.id, code).code = code
                          /\ ResponseTo(m.id, code).kind # "request"
  BY <1>1 DEF ResponseTo, Message
<1>6. TypeOK'
  <2>1. messages' \subseteq Message
    BY <1>2, <1>5 DEF Inv, TypeOK
  <2>2. executed' \subseteq Requests
    BY <1>1, <1>2 DEF Inv, TypeOK
  <2> QED
    BY <1>1, <2>1, <2>2 DEF Inv, TypeOK
<1>7. \A n \in messages' : \/ n \in messages /\ n.id # m.id
                           \/ n.id = m.id /\ n.kind # "request"
  <2>1. \A n \in messages : n # m => n.id # m.id
    BY DEF Inv, NetInv
  <2> QED
    BY <1>2, <1>5, <2>1
<1>8. NetInv'
  <2>1. \A n \in messages' : n.id \in Sent'
    BY <1>3, <1>4, <1>7 DEF Inv, NetInv
  <2>2. \A n, o \in messages' : n.id = o.id => n = o
    <3>1. \A n, o \in messages : n.id = o.id => n = o
      BY DEF Inv, NetInv
    <3>2. CASE messages' = messages \ {m}
      BY <3>1, <3>2
    <3>3. ASSUME NEW code \in Codes, messages' = (messages \ {m}) \cup {ResponseTo(m.id, code)}
          PROVE  <2>2
      BY <3>1, <3>3, <1>5
    <3> QED
      BY <1>2, <3>2, <3>3
  <2>3. ASSUME NEW n \in messages', n.kind = "request"
        PROVE  n.id \notin executed'
    <3>1. CASE n \in messages /\ n.id # m.id
      BY <3>1, <2>3, <1>2 DEF Inv, NetInv
    <3>2. CASE n.id = m.id /\ n.kind # "request"
      BY <3>2, <2>3
    <3> QED
      BY <3>1, <3>2, <1>7
  <2>4. executed' \subseteq Sent'
    BY <1>2, <1>3, <1>4 DEF Inv, NetInv
  <2> QED
    BY <2>1, <2>2, <2>3, <2>4 DEF NetInv
<1>9. AnswerInv'
  <2> SUFFICES ASSUME NEW id \in Requests, answer'[id] # NoAnswer
               PROVE  /\ id \in Sent' /\ answer'[id].of \in Sent'
                      /\ \A n \in messages' : n.id # answer'[id].of
    BY DEF AnswerInv
  <2>1. /\ id \in Sent /\ answer[id].of \in Sent /\ \A n \in messages : n.id # answer[id].of
    BY <1>1 DEF Inv, AnswerInv
  <2>2. m.id # answer[id].of
    BY <2>1
  <2> QED
    BY <1>1, <1>2, <1>4, <1>7, <2>1, <2>2
<1>10. StackInv' /\ CalmInv'
  BY <1>1, <1>4 DEF Inv, StackInv, CalmInv, Sender
<1> QED
  BY <1>6, <1>8, <1>9, <1>10 DEF Inv

-----------------------------------------------------------------------------
(* The client. *)

\* A request on its way, and a computer that waits for it.
LEMMA SendStep ==
  ASSUME Inv, NEW c \in Computers, NEW d \in Computers, Send(c, d)
  PROVE  Inv'
<1> DEFINE new == Len(calls) + 1
<1>1. /\ calls' = Append(calls, [from |-> c, to |-> d])
      /\ messages' = messages \cup {RequestOf(new)}
      /\ stack' = [stack EXCEPT ![c] = Append(stack[c], new)]
      /\ IF stack[c] = <<>> THEN UNCHANGED lapses ELSE Lapse(c)
      /\ UNCHANGED <<answer, signals, executed>>
      /\ Len(calls) < MaxRequests
  BY DEF Send, Push
<1>2. /\ TypeOK /\ lapses' \in [Computers -> Nat]
      /\ disturbed \subseteq disturbed' /\ (stack[c] # <<>> => c \in disturbed')
  BY <1>1, LapseTypes, SameLapses DEF Inv, TypeOK
<1>3. /\ calls' \in Seq([from : Computers, to : Computers]) /\ Len(calls') = Len(calls) + 1
      /\ Sent' = Sent \cup {new} /\ new \notin Sent
      /\ (\A id \in Sent : calls'[id] = calls[id]) /\ calls'[new].from = c
  BY <1>1, <1>2, CallTypes
<1>4. new \in Requests /\ Sent \subseteq Requests /\ Handler \notin Requests
  BY <1>1, <1>2, RequestFacts, BoundsAssumption DEF TypeOK, Requests
<1>5. /\ Append(stack[c], new) \in Seq(Frames)
      /\ DOMAIN Append(stack[c], new) = DOMAIN stack[c] \cup {Len(stack[c]) + 1}
      /\ Append(stack[c], new)[Len(stack[c]) + 1] = new
      /\ \A i \in DOMAIN stack[c] : Append(stack[c], new)[i] = stack[c][i] /\ i # Len(stack[c]) + 1
  BY <1>2, <1>4, PushTypes DEF TypeOK, Frames
<1>6. /\ stack'[c] = Append(stack[c], new)
      /\ \A e \in Computers : e # c => stack'[e] = stack[e]
  BY <1>1, <1>2 DEF TypeOK
<1>7. RequestOf(new) \in Message /\ RequestOf(new).id = new
  BY <1>4 DEF RequestOf, Message
<1>8. TypeOK'
  <2>1. stack' \in [Computers -> Seq(Frames)]
    BY <1>1, <1>2, <1>5 DEF TypeOK, Frames
  <2>2. Len(calls') <= MaxRequests
    BY <1>1, <1>2, <1>3, BoundsAssumption DEF TypeOK
  <2>3. messages' \subseteq Message
    BY <1>1, <1>2, <1>7 DEF TypeOK
  <2> QED
    BY <1>1, <1>2, <1>3, <2>1, <2>2, <2>3 DEF TypeOK, Frames
<1>9. executed \subseteq Requests /\ new \notin executed
  <2>1. executed \subseteq Sent
    BY DEF Inv, NetInv
  <2> QED
    BY <1>2, <1>3, <2>1 DEF TypeOK
<1>10. NetInv'
  <2>1. \A m \in messages : m.id \in Sent
    BY DEF Inv, NetInv
  <2> QED
    BY <1>1, <1>3, <1>7, <1>9, <2>1 DEF Inv, NetInv
<1>11. AnswerInv'
  <2> SUFFICES ASSUME NEW id \in Requests, answer'[id] # NoAnswer
               PROVE  /\ id \in Sent' /\ answer'[id].of \in Sent'
                      /\ \A m \in messages' : m.id # answer'[id].of
    BY DEF AnswerInv
  <2>1. /\ id \in Sent /\ answer[id].of \in Sent /\ \A m \in messages : m.id # answer[id].of
    BY <1>1 DEF Inv, AnswerInv
  <2> QED
    BY <1>1, <1>3, <1>7, <2>1
<1>12. StackInv'
  <2> SUFFICES ASSUME NEW e \in Computers, NEW i \in DOMAIN stack'[e]
               PROVE  /\ stack'[e][i] # Handler => stack'[e][i] \in Sent' /\ calls'[stack'[e][i]].from = e
                      /\ i = 1 => stack'[e][i] # Handler
    BY DEF StackInv, Sender
  <2>1. CASE e # c
    BY <2>1, <1>3, <1>6 DEF Inv, StackInv, Sender
  <2>2. CASE e = c /\ i \in DOMAIN stack[c]
    BY <2>2, <1>3, <1>5, <1>6 DEF Inv, StackInv, Sender
  <2>3. CASE e = c /\ i = Len(stack[c]) + 1
    BY <2>3, <1>3, <1>4, <1>5, <1>6
  <2> QED
    BY <2>1, <2>2, <2>3, <1>5, <1>6
<1>13. CalmInv'
  <2> SUFFICES ASSUME NEW e \in Computers, e \notin disturbed'
               PROVE  /\ \A i \in DOMAIN stack'[e] : i # 1 => stack'[e][i] = Handler
                      /\ \A id \in Sent' : calls'[id].from = e =>
                           \/ \E i \in DOMAIN stack'[e] : stack'[e][i] = id
                           \/ answer'[id] # NoAnswer
                      /\ \A id \in Sent' : calls'[id].from = e /\ answer'[id] # NoAnswer => answer'[id].of = id
    BY DEF CalmInv, Sender
  <2>1. e \notin disturbed /\ (e = c => stack[c] = <<>>)
    BY <1>2
  <2>2. answer[new] = NoAnswer
    BY <1>3, <1>4 DEF Inv, AnswerInv
  <2>3. /\ \A i \in DOMAIN stack[e] : i # 1 => stack[e][i] = Handler
        /\ \A id \in Sent : calls[id].from = e =>
             \/ \E i \in DOMAIN stack[e] : stack[e][i] = id
             \/ answer[id] # NoAnswer
        /\ \A id \in Sent : calls[id].from = e /\ answer[id] # NoAnswer => answer[id].of = id
    BY <2>1 DEF Inv, CalmInv, Sender
  <2>4. \A id \in Sent' : calls'[id].from = e => (id \in Sent /\ calls[id].from = e) \/ (id = new /\ e = c)
    BY <1>3
  <2>5. CASE e # c
    <3>1. stack'[e] = stack[e]
      BY <2>5, <1>6
    <3> HIDE DEF new
    <3>2. \A id \in Sent' : calls'[id].from = e => id \in Sent /\ calls[id].from = e
      BY <2>4, <2>5
    <3>3. \A id \in Sent' : calls'[id].from = e =>
            \/ \E i \in DOMAIN stack'[e] : stack'[e][i] = id
            \/ answer'[id] # NoAnswer
      BY <3>1, <3>2, <2>3, <1>1
    <3>4. \A id \in Sent' : calls'[id].from = e /\ answer'[id] # NoAnswer => answer'[id].of = id
      BY <3>2, <2>3, <1>1
    <3> QED
      BY <3>1, <3>3, <3>4, <2>3
  <2>6. CASE e = c
    <3>1. stack'[e] = Append(stack[c], new) /\ DOMAIN stack[c] = {} /\ Len(stack[c]) = 0
      BY <2>1, <2>6, <1>6
    <3>2. DOMAIN stack'[e] = {1} /\ stack'[e][1] = new
      BY <3>1, <1>5
    <3> HIDE DEF new
    <3>3. \A id \in Sent' : calls'[id].from = e =>
            \/ \E i \in DOMAIN stack'[e] : stack'[e][i] = id
            \/ answer'[id] # NoAnswer
      BY <3>1, <3>2, <2>3, <2>4, <2>6, <1>1
    <3>4. \A id \in Sent' : calls'[id].from = e /\ answer'[id] # NoAnswer => answer'[id].of = id
      BY <2>2, <2>3, <2>4, <1>1
    <3> QED
      BY <3>2, <3>3, <3>4
  <2> QED
    BY <2>5, <2>6
<1> QED
  BY <1>8, <1>10, <1>11, <1>12, <1>13 DEF Inv

\* A response is given to every Send of the computer that waits.
LEMMA DeliverStep ==
  ASSUME Inv, NEW c \in Computers, NEW m \in messages, Deliver(c, m)
  PROVE  Inv'
<1> DEFINE given == [of |-> m.id, code |-> m.code]
<1>1. /\ m.kind = "response" /\ calls[m.id].from = c
      /\ messages' = messages \ {m}
      /\ UNCHANGED <<calls, stack, signals, executed, lapses>> /\ disturbed' = disturbed
  BY SameLapses DEF Deliver, Sender
<1>2. TypeOK
  BY DEF Inv
<1>3. given \in Answer /\ given # NoAnswer /\ given.of = m.id /\ given.code = m.code
  <2>1. m.id \in Requests /\ m.code \in Codes
    BY <1>1, <1>2 DEF TypeOK, Message
  <2> QED
    BY <2>1, NoAnswerAssumption DEF Answer
<1>4. m.id \in Sent /\ \A n \in messages' : n \in messages /\ n.id # m.id
  BY <1>1 DEF Inv, NetInv
<1>5. \A id \in Requests : answer'[id] = IF id \in Waiting(c) THEN given ELSE answer[id]
  BY DEF Deliver
<1>6. Sent' = Sent /\ Sent \subseteq Requests /\ Handler \notin Requests
  BY <1>1, <1>2, RequestFacts DEF Sent
<1>7. \A id \in Waiting(c) : \E i \in DOMAIN stack[c] : stack[c][i] = id /\ id # Handler
  BY <1>2, <1>6 DEF Waiting, ToSet
<1>8. \A id \in Waiting(c) : id \in Sent /\ calls[id].from = c
  BY <1>7 DEF Inv, StackInv, Sender
<1>9. TypeOK'
  <2>1. answer' \in [Requests -> Answer \cup {NoAnswer}]
    <3>1. answer' = [id \in Requests |-> IF id \in Waiting(c) THEN given ELSE answer[id]]
      BY DEF Deliver
    <3> QED
      BY <3>1, <1>2, <1>3 DEF TypeOK
  <2> QED
    BY <1>1, <1>2, <2>1 DEF TypeOK
<1>10. NetInv' /\ StackInv'
  BY <1>1, <1>4, <1>6 DEF Inv, NetInv, StackInv, Sender
<1>11. AnswerInv'
  <2> SUFFICES ASSUME NEW id \in Requests, answer'[id] # NoAnswer
               PROVE  /\ id \in Sent' /\ answer'[id].of \in Sent'
                      /\ \A n \in messages' : n.id # answer'[id].of
    BY DEF AnswerInv
  <2>1. CASE id \in Waiting(c)
    BY <2>1, <1>1, <1>3, <1>4, <1>5, <1>6, <1>8
  <2>2. CASE id \notin Waiting(c)
    BY <2>2, <1>1, <1>4, <1>5, <1>6 DEF Inv, AnswerInv
  <2> QED
    BY <2>1, <2>2
<1>12. CalmInv'
  <2> SUFFICES ASSUME NEW e \in Computers, e \notin disturbed
               PROVE  /\ \A i \in DOMAIN stack[e] : i # 1 => stack[e][i] = Handler
                      /\ \A id \in Sent : calls[id].from = e =>
                           \/ \E i \in DOMAIN stack[e] : stack[e][i] = id
                           \/ answer'[id] # NoAnswer
                      /\ \A id \in Sent : calls[id].from = e /\ answer'[id] # NoAnswer => answer'[id].of = id
    BY <1>1, <1>6 DEF CalmInv, Sender
  <2>1. /\ \A i \in DOMAIN stack[e] : i # 1 => stack[e][i] = Handler
        /\ \A id \in Sent : calls[id].from = e =>
             \/ \E i \in DOMAIN stack[e] : stack[e][i] = id
             \/ answer[id] # NoAnswer
        /\ \A id \in Sent : calls[id].from = e /\ answer[id] # NoAnswer => answer[id].of = id
    BY DEF Inv, CalmInv, Sender
  <2>2. CASE e # c
    <3>1. \A id \in Sent : calls[id].from = e => answer'[id] = answer[id]
      BY <2>2, <1>5, <1>6, <1>8
    <3> QED
      BY <3>1, <2>1
  <2>3. CASE e = c
    <3>1. PICK i \in DOMAIN stack[c] : stack[c][i] = m.id
      <4>1. answer[m.id] = NoAnswer \/ answer[m.id].of # m.id
        BY <1>4, <1>6 DEF Inv, AnswerInv
      <4> QED
        BY <4>1, <2>1, <2>3, <1>1, <1>4
    <3>2. \A id \in Waiting(c) : id = m.id
      BY <3>1, <2>1, <2>3, <1>4, <1>6, <1>7
    <3> QED
      BY <3>2, <2>1, <1>3, <1>5, <1>6
  <2> QED
    BY <2>2, <2>3
<1> QED
  BY <1>9, <1>10, <1>11, <1>12 DEF Inv

-----------------------------------------------------------------------------
(* The call stack. *)

\* A step that changes the stack of c, and besides only its disturbance, keeps
\* what is not about stacks.
LEMMA StackOnly ==
  ASSUME Inv, NEW c \in Computers, NEW s \in Seq(Frames), stack' = [stack EXCEPT ![c] = s],
         UNCHANGED <<calls, answer, messages, executed>>, signals' \in Nat,
         lapses' \in [Computers -> Nat]
  PROVE  /\ TypeOK' /\ NetInv' /\ AnswerInv' /\ Sent' = Sent
         /\ stack'[c] = s /\ \A e \in Computers : e # c => stack'[e] = stack[e]
<1>1. TypeOK
  BY DEF Inv
<1>2. Sent' = Sent
  BY DEF Sent
<1>3. NetInv' /\ AnswerInv'
  BY <1>2 DEF Inv, NetInv, AnswerInv
<1>4. TypeOK'
  BY <1>1 DEF TypeOK, Frames
<1> QED
  BY <1>1, <1>2, <1>3, <1>4 DEF TypeOK

\* A handler that waits for nothing, on top of a Send.
LEMMA HandlerStep ==
  ASSUME Inv, NEW c \in Computers, HandlerStarts(c)
  PROVE  Inv'
<1> DEFINE s == Append(stack[c], Handler)
<1>1. /\ stack' = [stack EXCEPT ![c] = s] /\ signals' = signals + 1
      /\ UNCHANGED <<calls, answer, messages, executed, lapses>> /\ disturbed' = disturbed
      /\ stack[c] # <<>>
  BY SameLapses DEF HandlerStarts, Push, InSend
<1>2. /\ s \in Seq(Frames) /\ DOMAIN s = DOMAIN stack[c] \cup {Len(stack[c]) + 1}
      /\ s[Len(stack[c]) + 1] = Handler
      /\ \A i \in DOMAIN stack[c] : s[i] = stack[c][i]
  BY PushTypes DEF Inv, TypeOK, Frames
<1>3. signals' \in Nat /\ lapses' \in [Computers -> Nat]
  BY <1>1 DEF Inv, TypeOK
<1> HIDE DEF s
<1>4. /\ TypeOK' /\ NetInv' /\ AnswerInv' /\ Sent' = Sent
      /\ stack'[c] = s /\ \A e \in Computers : e # c => stack'[e] = stack[e]
  BY <1>1, <1>2, <1>3, StackOnly
<1>5. \A e \in Computers : \A i \in DOMAIN stack'[e] :
        stack'[e][i] # Handler => i \in DOMAIN stack[e] /\ stack'[e][i] = stack[e][i]
  BY <1>2, <1>4
<1>6. \A e \in Computers : \A i \in DOMAIN stack[e] : i \in DOMAIN stack'[e] /\ stack'[e][i] = stack[e][i]
  BY <1>2, <1>4
<1>7. StackInv'
  <2>1. 1 \in DOMAIN stack[c]
    BY <1>1 DEF Inv, TypeOK
  <2>2. \A e \in Computers : 1 \in DOMAIN stack'[e] => stack'[e][1] # Handler
    BY <1>4, <1>6, <2>1 DEF Inv, StackInv
  <2>3. \A e \in Computers : \A i \in DOMAIN stack'[e] :
          stack'[e][i] # Handler => stack'[e][i] \in Sent' /\ calls'[stack'[e][i]].from = e
    BY <1>1, <1>4, <1>5 DEF Inv, StackInv, Sender
  <2> QED
    BY <2>2, <2>3 DEF StackInv, Sender
<1>8. CalmInv'
  <2> SUFFICES ASSUME NEW e \in Computers, e \notin disturbed
               PROVE  /\ \A i \in DOMAIN stack'[e] : i # 1 => stack'[e][i] = Handler
                      /\ \A id \in Sent : calls[id].from = e =>
                           \/ \E i \in DOMAIN stack'[e] : stack'[e][i] = id
                           \/ answer[id] # NoAnswer
                      /\ \A id \in Sent : calls[id].from = e /\ answer[id] # NoAnswer => answer[id].of = id
    BY <1>1, <1>4 DEF CalmInv, Sender
  <2>1. /\ \A i \in DOMAIN stack[e] : i # 1 => stack[e][i] = Handler
        /\ \A id \in Sent : calls[id].from = e =>
             \/ \E i \in DOMAIN stack[e] : stack[e][i] = id
             \/ answer[id] # NoAnswer
        /\ \A id \in Sent : calls[id].from = e /\ answer[id] # NoAnswer => answer[id].of = id
    BY DEF Inv, CalmInv, Sender
  <2> QED
    BY <2>1, <1>5, <1>6
<1> QED
  BY <1>4, <1>7, <1>8 DEF Inv

\* A Send that times out disturbs its computer; one inside another has before.
LEMMA TimeoutDisturbs ==
  ASSUME Inv, NEW c \in Computers, SendTimesOut(c)
  PROVE  lapses' \in [Computers -> Nat] /\ disturbed' = disturbed \cup {c}
<1>1. TypeOK /\ stack[c] \in Seq(Frames) /\ stack[c] # <<>> /\ Last(stack[c]) # Handler
  BY DEF Inv, TypeOK, Frames, SendTimesOut, InSend
<1>2. Len(stack[c]) \in DOMAIN stack[c] /\ stack[c][Len(stack[c])] # Handler
  BY <1>1, StackTypes
<1>3. CASE Len(stack[c]) = 1
  BY <1>1, <1>3, LapseTypes DEF SendTimesOut
<1>4. CASE Len(stack[c]) # 1
  <2>1. c \in disturbed
    BY <1>2, <1>4 DEF Inv, CalmInv
  <2> QED
    BY <1>1, <1>4, <2>1, SameLapses DEF SendTimesOut, TypeOK
<1> QED
  BY <1>3, <1>4

\* The innermost frame returns: a handler, a Send with its answer, or a Send that
\* timed out, which disturbs its computer.
LEMMA PopStep ==
  ASSUME Inv, NEW c \in Computers, SendReturns(c) \/ SendTimesOut(c) \/ HandlerEnds(c)
  PROVE  Inv'
<1> DEFINE s == Front(stack[c])
           top == Last(stack[c])
<1>1. /\ stack[c] # <<>> /\ stack' = [stack EXCEPT ![c] = s]
      /\ UNCHANGED <<calls, answer, messages, signals, executed>>
  BY DEF SendReturns, SendTimesOut, HandlerEnds, Pop, InSend
<1>2. /\ s \in Seq(Frames) /\ top = stack[c][Len(stack[c])]
      /\ \A i \in DOMAIN s : i \in DOMAIN stack[c] /\ s[i] = stack[c][i]
      /\ \A i \in DOMAIN stack[c] : i # Len(stack[c]) => i \in DOMAIN s
  BY <1>1, StackTypes DEF Inv, TypeOK, Frames
<1>3. /\ lapses' \in [Computers -> Nat] /\ disturbed \subseteq disturbed'
      /\ c \notin disturbed' => top = Handler \/ answer[top] # NoAnswer
  <2>1. CASE SendTimesOut(c)
    BY <2>1, TimeoutDisturbs
  <2>2. CASE SendReturns(c) \/ HandlerEnds(c)
    BY <2>2, SameLapses DEF SendReturns, HandlerEnds, HasAnswer, Inv, TypeOK
  <2> QED
    BY <2>1, <2>2
<1>4. signals' \in Nat /\ Sent \subseteq Requests /\ Handler \notin Requests
  BY <1>1, RequestFacts DEF Inv, TypeOK
<1> HIDE DEF s, top
<1>5. /\ TypeOK' /\ NetInv' /\ AnswerInv' /\ Sent' = Sent
      /\ stack'[c] = s /\ \A e \in Computers : e # c => stack'[e] = stack[e]
  BY <1>1, <1>2, <1>3, <1>4, StackOnly
<1>6. \A e \in Computers : \A i \in DOMAIN stack'[e] : i \in DOMAIN stack[e] /\ stack'[e][i] = stack[e][i]
  BY <1>2, <1>5
<1>7. StackInv'
  BY <1>1, <1>5, <1>6 DEF Inv, StackInv, Sender
<1>8. CalmInv'
  <2> SUFFICES ASSUME NEW e \in Computers, e \notin disturbed'
               PROVE  /\ \A i \in DOMAIN stack'[e] : i # 1 => stack'[e][i] = Handler
                      /\ \A id \in Sent : calls[id].from = e =>
                           \/ \E i \in DOMAIN stack'[e] : stack'[e][i] = id
                           \/ answer[id] # NoAnswer
                      /\ \A id \in Sent : calls[id].from = e /\ answer[id] # NoAnswer => answer[id].of = id
    BY <1>1, <1>5 DEF CalmInv, Sender
  <2>1. /\ \A i \in DOMAIN stack[e] : i # 1 => stack[e][i] = Handler
        /\ \A id \in Sent : calls[id].from = e =>
             \/ \E i \in DOMAIN stack[e] : stack[e][i] = id
             \/ answer[id] # NoAnswer
        /\ \A id \in Sent : calls[id].from = e /\ answer[id] # NoAnswer => answer[id].of = id
    BY <1>3 DEF Inv, CalmInv, Sender
  <2>2. ASSUME NEW id \in Sent, answer[id] = NoAnswer, NEW i \in DOMAIN stack[e], stack[e][i] = id
        PROVE  i \in DOMAIN stack'[e] /\ stack'[e][i] = id
    <3>1. CASE e # c
      BY <3>1, <2>2, <1>5
    <3>2. CASE e = c
      <4>1. i # Len(stack[c])
        BY <3>2, <2>2, <1>2, <1>3, <1>4
      <4> QED
        BY <4>1, <3>2, <2>2, <1>2, <1>5
    <3> QED
      BY <3>1, <3>2
  <2>3. \A i \in DOMAIN stack'[e] : i # 1 => stack'[e][i] = Handler
    BY <2>1, <1>6
  <2>4. \A id \in Sent : calls[id].from = e =>
          \/ \E i \in DOMAIN stack'[e] : stack'[e][i] = id
          \/ answer[id] # NoAnswer
    BY <2>1, <2>2
  <2> QED
    BY <2>1, <2>3, <2>4
<1> QED
  BY <1>5, <1>7, <1>8 DEF Inv

-----------------------------------------------------------------------------
(* Every step keeps the invariant: one lemma per kind of step. *)
LEMMA StepInv == Inv /\ [Next]_vars => Inv'
<1> SUFFICES ASSUME Inv, [Next]_vars PROVE Inv'
  OBVIOUS
<1>1. ASSUME NEW c \in Computers, Thread(c) PROVE Inv'
  BY <1>1, DeliverStep, ServeStep, PopStep DEF Thread
<1>2. ASSUME NEW c \in Computers, HandlerStarts(c) PROVE Inv'
  BY <1>2, HandlerStep
<1>3. ASSUME NEW c \in Computers, NEW d \in Computers, Send(c, d) PROVE Inv'
  BY <1>3, SendStep
<1>4. ASSUME NEW m \in messages, Lose(m) PROVE Inv'
  BY <1>4, LoseStep
<1>5. CASE UNCHANGED vars
  BY <1>5 DEF vars, Inv, TypeOK, NetInv, AnswerInv, StackInv, CalmInv, Sent, Sender, disturbed
<1> QED
  BY <1>1, <1>2, <1>3, <1>4, <1>5 DEF Next

\* The inductive invariant holds in every state.
THEOREM Invariance == Spec => []Inv
BY InitInv, StepInv, PTL DEF Spec

\* Requests, call stacks, answers and messages keep their types, for any
\* computers, any number of requests and any depth of nesting.
THEOREM TypeCorrect == Spec => []TypeOK
<1>1. Inv => TypeOK
  BY DEF Inv
<1> QED
  BY <1>1, Invariance, PTL

\* Client:Send returns the response to its own request on every computer on
\* which no Send ever timed out or ran inside another, whatever is lost and
\* whoever else is disturbed.
THEOREM OwnAnswerCorrect == Spec => []OwnAnswer
<1>1. Inv => OwnAnswer
  <2> SUFFICES ASSUME Inv, NEW id \in Requests, answer[id] # NoAnswer, Sender(id) \notin disturbed
               PROVE  answer[id].of = id
    BY DEF OwnAnswer
  <2>1. id \in Sent
    BY DEF Inv, AnswerInv
  <2>2. Sender(id) \in Computers
    <3>1. calls \in Seq([from : Computers, to : Computers]) /\ id \in DOMAIN calls
      BY <2>1 DEF Inv, TypeOK, Sent
    <3>2. calls[id] \in [from : Computers, to : Computers]
      BY <3>1, ElementTypes
    <3> QED
      BY <3>2 DEF Sender
  <2> QED
    BY <2>1, <2>2 DEF Inv, CalmInv
<1> QED
  BY <1>1, Invariance, PTL

-----------------------------------------------------------------------------
(* The messages of a computer that are under way are counted. *)

Own(c) == {m \in messages : Sender(m.id) = c}
Due(c) == IF stack[c] # <<>> /\ answer[stack[c][1]] = NoAnswer THEN 1 ELSE 0

StaleInv ==
  /\ IsFiniteSet(messages)
  /\ \A c \in Computers : Cardinality(Own(c)) <= lapses[c] + Due(c)

\* Elements of a finite set that are taken away, put in the place of others, or added.
LEMMA CountFacts ==
  ASSUME NEW S, IsFiniteSet(S)
  PROVE  /\ Cardinality(S) \in Nat
         /\ \A T \in SUBSET S : IsFiniteSet(T) /\ Cardinality(T) \in Nat /\ Cardinality(T) <= Cardinality(S)
         /\ \A x : IsFiniteSet(S \cup {x}) /\ Cardinality(S \cup {x}) <= Cardinality(S) + 1
         /\ \A x \in S : IsFiniteSet(S \ {x}) /\ Cardinality(S \ {x}) + 1 = Cardinality(S)
<1>1. Cardinality(S) \in Nat
  BY FS_CardinalityType
<1>2. ASSUME NEW T \in SUBSET S
      PROVE  IsFiniteSet(T) /\ Cardinality(T) \in Nat /\ Cardinality(T) <= Cardinality(S)
  BY FS_Subset, FS_CardinalityType
<1>3. ASSUME NEW x
      PROVE  IsFiniteSet(S \cup {x}) /\ Cardinality(S \cup {x}) <= Cardinality(S) + 1
  BY <1>1, FS_AddElement
<1>4. ASSUME NEW x \in S
      PROVE  IsFiniteSet(S \ {x}) /\ Cardinality(S \ {x}) + 1 = Cardinality(S)
  BY <1>1, FS_RemoveElement
<1> QED
  BY <1>1, <1>2, <1>3, <1>4

\* The messages of each computer are finitely many.
LEMMA OwnFacts ==
  ASSUME StaleInv, NEW c \in Computers
  PROVE  IsFiniteSet(Own(c)) /\ Cardinality(Own(c)) \in Nat
BY CountFacts DEF StaleInv, Own

\* Nothing is counted that was not before, and nothing allowed is forbidden.
LEMMA StaleKept ==
  ASSUME Inv, StaleInv, IsFiniteSet(messages'), lapses' \in [Computers -> Nat],
         \A c \in Computers : Cardinality(Own(c)') <= Cardinality(Own(c)) /\ Cardinality(Own(c)') \in Nat,
         \A c \in Computers : lapses'[c] + Due(c)' >= lapses[c] + Due(c)
  PROVE  StaleInv'
<1>1. ASSUME NEW c \in Computers PROVE Cardinality(Own(c)') <= lapses'[c] + Due(c)'
  <2>1. Due(c) \in Nat /\ Due(c)' \in Nat
    BY DEF Due
  <2>2. lapses[c] \in Nat /\ lapses'[c] \in Nat
    BY DEF Inv, TypeOK
  <2>3. Cardinality(Own(c)) <= lapses[c] + Due(c) /\ Cardinality(Own(c)) \in Nat
    BY OwnFacts DEF StaleInv
  <2> QED
    BY <2>1, <2>2, <2>3
<1> QED
  BY <1>1 DEF StaleInv

\* A request that is served, or a message that is lost.
LEMMA StaleNetwork ==
  ASSUME Inv, StaleInv, NEW m \in messages, UNCHANGED <<calls, stack, answer, lapses>>,
         NEW n, Sender(n.id) = Sender(m.id),
         messages' = messages \ {m} \/ messages' = (messages \ {m}) \cup {n}
  PROVE  StaleInv'
<1>1. IsFiniteSet(messages')
  BY CountFacts DEF StaleInv
<1>2. ASSUME NEW c \in Computers
      PROVE  Cardinality(Own(c)') <= Cardinality(Own(c)) /\ Cardinality(Own(c)') \in Nat
  <2>1. IsFiniteSet(Own(c)) /\ Cardinality(Own(c)) \in Nat
    BY OwnFacts
  <2>2. CASE Own(c)' \subseteq Own(c)
    BY <2>1, <2>2, CountFacts
  <2>3. CASE ~(Own(c)' \subseteq Own(c))
    <3>1. m \in Own(c) /\ Own(c)' = (Own(c) \ {m}) \cup {n}
      BY <2>3 DEF Own, Sender
    <3>2. IsFiniteSet(Own(c) \ {m}) /\ Cardinality(Own(c) \ {m}) + 1 = Cardinality(Own(c))
      BY <2>1, <3>1, CountFacts
    <3>3. /\ Cardinality(Own(c) \ {m}) \in Nat
          /\ IsFiniteSet((Own(c) \ {m}) \cup {n})
          /\ Cardinality((Own(c) \ {m}) \cup {n}) <= Cardinality(Own(c) \ {m}) + 1
      BY <3>2, CountFacts
    <3>4. Cardinality((Own(c) \ {m}) \cup {n}) \in Nat
      BY <3>3, FS_CardinalityType
    <3> QED
      BY <3>1, <3>2, <3>3, <3>4
  <2> QED
    BY <2>2, <2>3
<1>3. ASSUME NEW c \in Computers PROVE lapses'[c] + Due(c)' >= lapses[c] + Due(c)
  <2>1. lapses[c] + Due(c) \in Nat /\ lapses'[c] + Due(c)' = lapses[c] + Due(c)
    BY DEF Due, Inv, TypeOK
  <2> QED
    BY <2>1
<1>4. lapses' \in [Computers -> Nat]
  BY DEF Inv, TypeOK
<1> QED
  BY <1>1, <1>2, <1>3, <1>4, StaleKept

\* The thread of a computer works on its stack.
LEMMA StaleStack ==
  ASSUME Inv, StaleInv, NEW c \in Computers,
         HandlerStarts(c) \/ HandlerEnds(c) \/ SendReturns(c) \/ SendTimesOut(c)
  PROVE  StaleInv'
<1>1. /\ UNCHANGED <<calls, answer, messages>> /\ stack[c] # <<>>
      /\ \A e \in Computers : e # c => stack'[e] = stack[e]
  BY DEF HandlerStarts, HandlerEnds, SendReturns, SendTimesOut, Push, Pop, InSend, Inv, TypeOK
<1>2. /\ stack[c] \in Seq(Frames) /\ 1 \in DOMAIN stack[c] /\ stack[c][1] # Handler
      /\ Len(stack[c]) \in Nat \ {0} /\ Last(stack[c]) = stack[c][Len(stack[c])]
  <2>1. stack[c] \in Seq(Frames)
    BY DEF Inv, TypeOK, Frames
  <2>2. 1 \in DOMAIN stack[c] /\ Len(stack[c]) \in Nat \ {0}
    BY <1>1, <2>1
  <2> QED
    BY <1>1, <2>1, <2>2, StackTypes DEF Inv, StackInv
<1>3. /\ lapses' \in [Computers -> Nat] /\ lapses[c] \in Nat
      /\ \A e \in Computers : e # c => lapses'[e] = lapses[e]
      /\ lapses'[c] = IF SendTimesOut(c) /\ Len(stack[c]) = 1 THEN lapses[c] + 1 ELSE lapses[c]
  <2>1. CASE SendTimesOut(c)
    BY <2>1, LapseTypes DEF SendTimesOut, Inv, TypeOK
  <2>2. CASE ~SendTimesOut(c)
    BY <2>2 DEF HandlerStarts, HandlerEnds, SendReturns, Inv, TypeOK
  <2> QED
    BY <2>1, <2>2
<1>4. \A e \in Computers : Own(e)' = Own(e)
  BY <1>1 DEF Own, Sender
<1>5. \A e \in Computers : Due(e) \in {0, 1} /\ Due(e)' \in {0, 1}
  BY DEF Due
<1>6. lapses'[c] + Due(c)' >= lapses[c] + Due(c)
  <2>1. CASE HandlerStarts(c)
    <3>1. stack'[c] = Append(stack[c], Handler)
      BY <2>1 DEF HandlerStarts, Push, Inv, TypeOK
    <3>2. stack'[c] # <<>> /\ stack'[c][1] = stack[c][1]
      BY <3>1, <1>2
    <3>3. Due(c)' = Due(c) /\ lapses'[c] = lapses[c]
      BY <1>1, <1>3, <2>1, <3>2 DEF Due, HandlerStarts
    <3> QED
      BY <3>3, <1>3, <1>5
  <2>2. CASE ~HandlerStarts(c) /\ Len(stack[c]) # 1
    <3>1. stack'[c] = Front(stack[c])
      BY <2>2 DEF HandlerEnds, SendReturns, SendTimesOut, Pop, Inv, TypeOK
    <3>2. 1 \in DOMAIN Front(stack[c]) /\ Front(stack[c])[1] = stack[c][1]
      BY <1>1, <1>2, <2>2, StackTypes
    <3>3. Front(stack[c]) # <<>>
      BY <3>2
    <3>4. Due(c)' = Due(c) /\ lapses'[c] = lapses[c]
      BY <1>1, <1>3, <2>2, <3>1, <3>2, <3>3 DEF Due
    <3> QED
      BY <3>4, <1>3, <1>5
  <2>3. CASE SendReturns(c) /\ Len(stack[c]) = 1
    <3>1. Due(c) = 0 /\ lapses'[c] >= lapses[c]
      BY <2>3, <1>2, <1>3 DEF SendReturns, HasAnswer, Due
    <3> QED
      BY <3>1, <1>3, <1>5
  <2>4. CASE SendTimesOut(c) /\ Len(stack[c]) = 1
    BY <2>4, <1>3, <1>5
  <2>5. CASE HandlerEnds(c) /\ Len(stack[c]) = 1
    BY <2>5, <1>2 DEF HandlerEnds
  <2> QED
    BY <2>1, <2>2, <2>3, <2>4, <2>5
<1>7. ASSUME NEW e \in Computers, e # c PROVE lapses'[e] + Due(e)' >= lapses[e] + Due(e)
  <2>1. Due(e)' = Due(e) /\ lapses'[e] = lapses[e] /\ lapses[e] \in Nat
    BY <1>1, <1>3, <1>7 DEF Due, Inv, TypeOK
  <2> QED
    BY <2>1, <1>5
<1>8. \A e \in Computers : Cardinality(Own(e)') <= Cardinality(Own(e)) /\ Cardinality(Own(e)') \in Nat
  <2>1. \A n \in Nat : n <= n
    OBVIOUS
  <2> QED
    BY <2>1, <1>4, OwnFacts
<1>9. IsFiniteSet(messages')
  BY <1>1 DEF StaleInv
<1> QED
  BY <1>3, <1>6, <1>7, <1>8, <1>9, StaleKept

\* One message more, for the outermost Send of a computer or for a lapse.
LEMMA StaleSend ==
  ASSUME Inv, StaleInv, NEW c \in Computers, NEW d \in Computers, Send(c, d)
  PROVE  StaleInv'
<1> DEFINE new == Len(calls) + 1
<1>1. /\ calls' = Append(calls, [from |-> c, to |-> d]) /\ UNCHANGED answer
      /\ messages' = messages \cup {RequestOf(new)} /\ RequestOf(new).id = new
      /\ stack'[c] = Append(stack[c], new) /\ \A e \in Computers : e # c => stack'[e] = stack[e]
      /\ IF stack[c] = <<>> THEN UNCHANGED lapses ELSE Lapse(c)
  BY DEF Send, Push, RequestOf, Inv, TypeOK
<1>2. /\ \A id \in Sent : calls'[id] = calls[id]
      /\ calls'[new].from = c
      /\ new \notin Sent /\ new \in Requests
  <2>1. TypeOK /\ Len(calls) < MaxRequests
    BY DEF Inv, Send
  <2>2. new \in Requests
    BY <2>1, BoundsAssumption DEF TypeOK, Requests
  <2> QED
    BY <1>1, <2>1, <2>2, CallTypes
<1>3. \A m \in messages : m.id \in Sent
  BY DEF Inv, NetInv
<1>4. answer[new] = NoAnswer
  BY <1>2 DEF Inv, AnswerInv
<1>5. stack[c] \in Seq(Frames) /\ new \in Frames
  BY <1>2 DEF Inv, TypeOK, Frames
<1> HIDE DEF new
<1>6. Own(c)' = Own(c) \cup {RequestOf(new)} /\ \A e \in Computers : e # c => Own(e)' = Own(e)
  <2>1. \A n \in messages : calls'[n.id].from = calls[n.id].from
    BY <1>2, <1>3
  <2>2. calls'[RequestOf(new).id].from = c
    BY <1>1, <1>2
  <2>3. ASSUME NEW e \in Computers
        PROVE  {n \in messages' : calls'[n.id].from = e}
                 = {n \in messages : calls[n.id].from = e} \cup (IF e = c THEN {RequestOf(new)} ELSE {})
    BY <2>1, <2>2, <1>1
  <2> QED
    BY <2>3 DEF Own, Sender
<1>7. \A e \in Computers : Cardinality(Own(e)) <= lapses[e] + Due(e) /\ Cardinality(Own(e)) \in Nat
  BY OwnFacts DEF StaleInv
<1>8. ASSUME NEW e \in Computers, e # c PROVE Cardinality(Own(e)') <= lapses'[e] + Due(e)'
  <2>1. lapses'[e] = lapses[e]
    BY <1>1, <1>8, LapseTypes DEF Inv
  <2>2. Due(e)' = Due(e)
    BY <1>1, <1>8 DEF Due
  <2> QED
    BY <1>6, <1>7, <1>8, <2>1, <2>2
<1>9. Cardinality(Own(c)') <= lapses'[c] + Due(c)'
  <2>1. Cardinality(Own(c)') <= Cardinality(Own(c)) + 1 /\ Cardinality(Own(c)') \in Nat
    <3>1. IsFiniteSet(Own(c)')
      BY <1>6, OwnFacts, CountFacts
    <3> QED
      BY <3>1, <1>6, OwnFacts, CountFacts, FS_CardinalityType
  <2>2. lapses'[c] + Due(c)' = lapses[c] + Due(c) + 1
    <3>1. CASE stack[c] = <<>>
      <4>1. stack'[c] # <<>> /\ stack'[c][1] = new
        BY <3>1, <1>1
      <4>2. Due(c)' = 1 /\ Due(c) = 0 /\ lapses' = lapses
        BY <3>1, <4>1, <1>1, <1>4 DEF Due
      <4> QED
        BY <4>2 DEF Inv, TypeOK
    <3>2. CASE stack[c] # <<>>
      <4>1. stack'[c] # <<>> /\ stack'[c][1] = stack[c][1]
        BY <3>2, <1>1, <1>5
      <4>2. Due(c)' = Due(c) /\ Due(c) \in {0, 1}
        BY <3>2, <4>1, <1>1 DEF Due
      <4>3. lapses'[c] = lapses[c] + 1 /\ lapses[c] \in Nat
        BY <3>2, <1>1, LapseTypes DEF Inv, TypeOK
      <4> QED
        BY <4>2, <4>3
    <3> QED
      BY <3>1, <3>2
  <2>3. lapses[c] + Due(c) \in Nat
    BY DEF Inv, TypeOK, Due
  <2> QED
    BY <1>7, <2>1, <2>2, <2>3
<1>10. IsFiniteSet(messages')
  BY <1>1, CountFacts DEF StaleInv
<1> QED
  BY <1>8, <1>9, <1>10 DEF StaleInv

\* One message less, and at most one Send that is not due any more.
LEMMA StaleDeliver ==
  ASSUME Inv, StaleInv, NEW c \in Computers, NEW m \in messages, Deliver(c, m)
  PROVE  StaleInv'
<1>1. /\ UNCHANGED <<calls, stack, lapses>> /\ messages' = messages \ {m} /\ Sender(m.id) = c
      /\ \A id \in Requests \ Waiting(c) : answer'[id] = answer[id]
  BY DEF Deliver
<1>2. m \in Own(c) /\ Own(c)' = Own(c) \ {m} /\ \A e \in Computers : e # c => Own(e)' = Own(e)
  BY <1>1 DEF Own, Sender
<1>3. \A e \in Computers : Cardinality(Own(e)) <= lapses[e] + Due(e) /\ Cardinality(Own(e)) \in Nat
  BY OwnFacts DEF StaleInv
<1>4. ASSUME NEW e \in Computers, e # c PROVE Cardinality(Own(e)') <= lapses'[e] + Due(e)'
  <2>1. \A id \in Waiting(c) : calls[id].from = c
    <3>1. \A id \in Waiting(c) : \E i \in DOMAIN stack[c] : stack[c][i] = id /\ id # Handler
      BY RequestFacts DEF Inv, TypeOK, Waiting, ToSet
    <3> QED
      BY <3>1 DEF Inv, StackInv, Sender
  <2>2. stack[e] # <<>> => stack[e][1] \in Sent /\ stack[e][1] \in Requests /\ calls[stack[e][1]].from = e
    <3>1. stack[e] # <<>> => 1 \in DOMAIN stack[e]
      BY DEF Inv, TypeOK
    <3> QED
      BY <3>1, RequestFacts DEF Inv, StackInv, Sender
  <2>3. Due(e)' = Due(e)
    BY <1>1, <1>4, <2>1, <2>2 DEF Due
  <2> QED
    BY <1>1, <1>2, <1>3, <1>4, <2>3
<1>5. Cardinality(Own(c)') <= lapses'[c] + Due(c)'
  <2>1. Cardinality(Own(c) \ {m}) + 1 = Cardinality(Own(c)) /\ Cardinality(Own(c) \ {m}) \in Nat
    <3>1. IsFiniteSet(Own(c) \ {m})
      BY <1>2, OwnFacts, CountFacts
    <3> QED
      BY <3>1, <1>2, OwnFacts, CountFacts, FS_CardinalityType
  <2>2. lapses'[c] = lapses[c] /\ lapses[c] \in Nat /\ Due(c) \in {0, 1} /\ Due(c)' \in {0, 1}
    BY <1>1 DEF Inv, TypeOK, Due
  <2> QED
    BY <1>2, <1>3, <2>1, <2>2
<1>6. IsFiniteSet(messages')
  BY <1>1, CountFacts DEF StaleInv
<1> QED
  BY <1>4, <1>5, <1>6 DEF StaleInv

\* Every step keeps the count.
LEMMA StaleStep == Inv /\ StaleInv /\ [Next]_vars => StaleInv'
<1> SUFFICES ASSUME Inv, StaleInv, [Next]_vars PROVE StaleInv'
  OBVIOUS
<1>1. ASSUME NEW c \in Computers, NEW m \in messages, Serve(c, m) PROVE StaleInv'
  <2>1. /\ UNCHANGED <<calls, stack, answer, lapses>>
        /\ \/ messages' = messages \ {m}
           \/ \E code \in Codes : messages' = (messages \ {m}) \cup {ResponseTo(m.id, code)}
    BY <1>1 DEF Serve, NoEndpoint, NoParameters, EndpointFails, EndpointSucceeds, Respond, Codes
  <2>2. \A code \in Codes : ResponseTo(m.id, code).id = m.id
    BY DEF ResponseTo
  <2> QED
    BY <2>1, <2>2, StaleNetwork
<1>2. ASSUME NEW m \in messages, Lose(m) PROVE StaleInv'
  BY <1>2, StaleNetwork DEF Lose
<1>3. ASSUME NEW c \in Computers, Thread(c) PROVE StaleInv'
  BY <1>3, <1>1, StaleDeliver, StaleStack DEF Thread
<1>4. ASSUME NEW c \in Computers, HandlerStarts(c) PROVE StaleInv'
  BY <1>4, StaleStack
<1>5. ASSUME NEW c \in Computers, NEW d \in Computers, Send(c, d) PROVE StaleInv'
  BY <1>5, StaleSend
<1>6. CASE UNCHANGED vars
  BY <1>6 DEF vars, StaleInv, Own, Due, Sender
<1> QED
  BY <1>2, <1>3, <1>4, <1>5, <1>6 DEF Next

\* However Client:Send mixes up its answers, each of its calls that timed out or
\* ran inside another leaves at most one message behind that may still be served,
\* or be taken for an answer, for any computers and any number of requests.
THEOREM StaleIsBoundedCorrect == Spec => []StaleIsBounded
<1>1. Init => StaleInv
  <2> SUFFICES ASSUME Init PROVE StaleInv
    OBVIOUS
  <2>1. IsFiniteSet(messages) /\ Cardinality({}) = 0
    BY FS_EmptySet DEF Init
  <2>2. \A c \in Computers : Own(c) = {} /\ Due(c) = 0 /\ lapses[c] = 0
    BY DEF Init, Own, Due
  <2> QED
    BY <2>1, <2>2 DEF StaleInv
<1>2. StaleInv => StaleIsBounded
  BY DEF StaleInv, StaleIsBounded, Own, Due
<1> QED
  BY <1>1, <1>2, StaleStep, Invariance, PTL DEF Spec

-----------------------------------------------------------------------------
(* RestRpc implements the RemoteCall. *)

Same == UNCHANGED <<calls, executed, Told, disturbed>>

\* What a caller is sure of, one request at a time.
LEMMA ToldFacts ==
  /\ DOMAIN Told = Requests
  /\ \A id \in Requests :
       Told[id] = IF answer[id] # NoAnswer /\ calls[id].from \notin disturbed THEN answer[id].code ELSE NoAnswer
BY DEF Told, Sender

\* Nothing else makes a caller sure, or unsure.
LEMMA SameTold == ASSUME UNCHANGED <<calls, answer, disturbed>> PROVE UNCHANGED Told
BY DEF Told, Sender

\* As long as a message of a request is under way its caller was told nothing.
LEMMA OpenFacts ==
  ASSUME Inv, NEW m \in messages
  PROVE  /\ m.id \in Requests /\ m.id \in DOMAIN calls /\ m.id \in Sent /\ Sender(m.id) \in Computers
         /\ Sender(m.id) \notin disturbed => answer[m.id] = NoAnswer
         /\ Told[m.id] = NoAnswer
<1>1. m.id \in Sent /\ m.id \in Requests
  BY RequestFacts DEF Inv, NetInv
<1>2. calls \in Seq([from : Computers, to : Computers]) /\ m.id \in DOMAIN calls
  BY <1>1 DEF Inv, TypeOK, Sent
<1>3. Sender(m.id) \in Computers
  <2>1. calls[m.id] \in [from : Computers, to : Computers]
    BY <1>2, ElementTypes
  <2> QED
    BY <2>1 DEF Sender
<1>4. answer[m.id] # NoAnswer => answer[m.id].of # m.id
  BY <1>1 DEF Inv, AnswerInv
<1>5. Sender(m.id) \notin disturbed => answer[m.id] = NoAnswer
  BY <1>1, <1>3, <1>4 DEF Inv, CalmInv
<1>6. Told[m.id] = NoAnswer
  BY <1>1, <1>5, ToldFacts DEF Sender
<1> QED
  BY <1>1, <1>2, <1>3, <1>5, <1>6

\* A computer that is disturbed is sure of no answer, also of those it has.
LEMMA UnsureStep ==
  ASSUME Inv, NEW c \in Computers, disturbed' = disturbed \cup {c}, UNCHANGED answer,
         \A id \in Sent : calls'[id] = calls[id]
  PROVE  Abstract!Unsure(c)
<1>1. DOMAIN calls = Sent
  BY DEF Inv, TypeOK, Sent
<1>2. ASSUME NEW id \in Requests
      PROVE  (IF answer'[id] # NoAnswer /\ calls'[id].from \notin disturbed' THEN answer'[id].code ELSE NoAnswer)
             = IF id \in DOMAIN calls /\ calls[id].from = c THEN NoAnswer ELSE Told[id]
  <2>1. answer[id] # NoAnswer => id \in Sent
    BY DEF Inv, AnswerInv
  <2> QED
    BY <1>1, <2>1, ToldFacts
<1>3. Told' = [id \in Requests |-> IF id \in DOMAIN calls /\ calls[id].from = c THEN NoAnswer ELSE Told[id]]
  BY <1>2 DEF Told, Sender
<1> QED
  BY <1>3 DEF Abstract!Unsure

\* A Send is a call; inside another it makes its computer unsure.
LEMMA CallStep ==
  ASSUME Inv, NEW c \in Computers, NEW d \in Computers, Send(c, d)
  PROVE  Abstract!Call(c, d) /\ c # d
<1>1. /\ calls' = Append(calls, [from |-> c, to |-> d])
      /\ Len(calls) < MaxRequests /\ c # d
      /\ UNCHANGED <<answer, executed>>
      /\ disturbed' = disturbed \/ disturbed' = disturbed \cup {c}
  BY LapseTypes, SameLapses DEF Send, Inv
<1>2. \A id \in Sent : calls'[id] = calls[id]
  BY <1>1, CallTypes DEF Inv
<1>3. Len(calls) + 1 \in Requests
  BY <1>1, BoundsAssumption DEF Inv, TypeOK, Requests
<1>4. CASE disturbed' = disturbed \cup {c}
  <2>1. Abstract!Unsure(c)
    BY <1>1, <1>2, <1>4, UnsureStep
  <2> QED
    BY <1>1, <1>3, <2>1 DEF Abstract!Call
<1>5. CASE disturbed' = disturbed
  <2>1. \A id \in Requests : answer[id] # NoAnswer => calls'[id] = calls[id]
    BY <1>2 DEF Inv, AnswerInv
  <2>2. Told' = Told
    BY <1>1, <1>5, <2>1 DEF Told, Sender
  <2> QED
    BY <1>1, <1>3, <1>5, <2>2 DEF Abstract!Call
<1> QED
  BY <1>1, <1>4, <1>5

\* A response tells the one Send of an undisturbed computer that waits for it;
\* others were promised nothing.
LEMMA TellStep ==
  ASSUME Inv, NEW c \in Computers, NEW m \in messages, Deliver(c, m)
  PROVE  Same \/ (Abstract!Tell(m.id, m.code) /\ m.code \in Codes)
<1> DEFINE given == [of |-> m.id, code |-> m.code]
<1>1. /\ m.kind = "response" /\ Sender(m.id) = c
      /\ UNCHANGED <<calls, stack, executed, disturbed>>
  BY SameLapses DEF Deliver
<1>2. \A id \in Requests : answer'[id] = IF id \in Waiting(c) THEN given ELSE answer[id]
  BY DEF Deliver
<1>3. m.code \in Codes
  BY <1>1 DEF Inv, TypeOK, Message
<1>4. given # NoAnswer /\ given.code = m.code
  <2>1. given \in Answer
    BY <1>3, OpenFacts DEF Answer
  <2> QED
    BY <2>1, NoAnswerAssumption
<1>5. \A id \in Waiting(c) : \E i \in DOMAIN stack[c] : stack[c][i] = id /\ id # Handler
  BY RequestFacts DEF Inv, TypeOK, Waiting, ToSet
<1>6. \A id \in Waiting(c) : id \in Requests /\ calls[id].from = c /\ answer[id] = NoAnswer
  BY <1>5 DEF Inv, StackInv, Sender, Waiting
<1> HIDE DEF given
<1>7. CASE c \in disturbed
  <2>1. \A id \in Requests :
          (IF answer'[id] # NoAnswer /\ calls'[id].from \notin disturbed' THEN answer'[id].code ELSE NoAnswer)
          = Told[id]
    BY <1>1, <1>2, <1>6, <1>7, ToldFacts
  <2>2. Told' = Told
    BY <2>1, ToldFacts DEF Told, Sender
  <2> QED
    BY <1>1, <2>2 DEF Same
<1>8. CASE c \notin disturbed
  <2>1. answer[m.id] = NoAnswer /\ Told[m.id] = NoAnswer /\ m.id \in DOMAIN calls /\ m.id \in Sent /\ m.id \in Requests
    BY <1>1, <1>8, OpenFacts
  <2>2. PICK i \in DOMAIN stack[c] : stack[c][i] = m.id
    BY <1>1, <1>8, <2>1 DEF Inv, CalmInv
  <2>3. m.id # Handler
    BY <2>1, RequestFacts DEF Inv
  <2>4. m.id \in Waiting(c)
    BY <2>1, <2>2 DEF Waiting, ToSet
  <2>5. \A id \in Waiting(c) : id = m.id
    BY <1>5, <1>8, <2>2, <2>3 DEF Inv, CalmInv
  <2>6. \A id \in Requests :
          (IF answer'[id] # NoAnswer /\ calls'[id].from \notin disturbed' THEN answer'[id].code ELSE NoAnswer)
          = IF id = m.id THEN m.code ELSE Told[id]
    BY <1>1, <1>2, <1>4, <1>8, <2>4, <2>5, ToldFacts DEF Sender
  <2>7. Told' = [Told EXCEPT ![m.id] = m.code]
    BY <2>6, ToldFacts DEF Told, Sender
  <2> QED
    BY <1>1, <1>3, <1>8, <2>1, <2>7 DEF Abstract!Tell, Sender
<1> QED
  BY <1>7, <1>8

\* A request that is served was not executed yet, and nobody was told of it.
LEMMA ExecuteStep ==
  ASSUME Inv, NEW c \in Computers, NEW m \in messages, Serve(c, m)
  PROVE  Same \/ Abstract!Execute(m.id)
<1>1. /\ UNCHANGED <<calls, answer, disturbed>>
      /\ m.kind = "request"
      /\ executed' = executed \/ executed' = executed \cup {m.id}
  BY SameLapses DEF Serve, NoEndpoint, NoParameters, EndpointFails, EndpointSucceeds, Receives
<1>2. Told' = Told
  BY <1>1, SameTold
<1>3. m.id \notin executed
  BY <1>1 DEF Inv, NetInv
<1>4. m.id \in DOMAIN calls /\ Told[m.id] = NoAnswer
  BY OpenFacts
<1> QED
  BY <1>1, <1>2, <1>3, <1>4 DEF Same, Abstract!Execute

\* Every step is one of the RemoteCall, or leaves it alone.
LEMMA RemoteStep == Inv /\ [Next]_vars => [Abstract!Next]_(Abstract!vars)
<1> SUFFICES ASSUME Inv, [Next]_vars PROVE Abstract!Next \/ Same
  BY DEF Same, Abstract!vars
<1>1. ASSUME NEW c \in Computers, NEW m \in messages, Deliver(c, m) PROVE Abstract!Next \/ Same
  BY <1>1, TellStep, OpenFacts DEF Abstract!Next
<1>2. ASSUME NEW c \in Computers, NEW m \in messages, Serve(c, m) PROVE Abstract!Next \/ Same
  BY <1>2, ExecuteStep, OpenFacts DEF Abstract!Next
<1>3. ASSUME NEW c \in Computers, NEW d \in Computers, Send(c, d) PROVE Abstract!Next \/ Same
  BY <1>3, CallStep DEF Abstract!Next
<1>4. ASSUME NEW c \in Computers, SendTimesOut(c) PROVE Abstract!Next \/ Same
  <2>1. disturbed' = disturbed \cup {c} /\ UNCHANGED <<calls, answer, executed>>
    BY <1>4, TimeoutDisturbs DEF SendTimesOut
  <2>2. Abstract!Unsure(c)
    BY <2>1, UnsureStep
  <2> QED
    BY <2>1, <2>2 DEF Abstract!GiveUp, Abstract!Next
<1>5. ASSUME NEW c \in Computers, SendReturns(c) \/ HandlerStarts(c) \/ HandlerEnds(c) PROVE Same
  BY <1>5, SameTold, SameLapses DEF SendReturns, HandlerStarts, HandlerEnds, Same
<1>6. ASSUME NEW m \in messages, Lose(m) PROVE Same
  BY <1>6, SameTold, SameLapses DEF Lose, Same
<1>7. CASE UNCHANGED vars
  BY <1>7, SameTold, SameLapses DEF vars, Same
<1> QED
  BY <1>1, <1>2, <1>3, <1>4, <1>5, <1>6, <1>7 DEF Next, Thread

\* Client:Send and Controller:onMessageReceived together keep the promise of a
\* RemoteCall, over a network that loses and reorders, for any computers.
THEOREM Implementation == Spec => ImplementsRemoteCall
<1>1. Init => Abstract!Init
  BY DEF Init, Abstract!Init, Told, disturbed
<1> QED
  BY <1>1, RemoteStep, Invariance, PTL DEF Spec, ImplementsRemoteCall, Abstract!Spec
=============================================================================

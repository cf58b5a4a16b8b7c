-------------------------- MODULE HttpClient_proofs --------------------------
(***************************************************************************)
(* Proofs about HttpClient, for any domains, hosts and places.              *)
(*                                                                         *)
(* UsesAreRecent is about one step.  What makes it true is known earlier:   *)
(* as long as the client is not disturbed it has at most one call, and at   *)
(* most one message of a request or a response is under way, which belongs  *)
(* to that call; and what a response or the cache says of a domain was true *)
(* when the question had been asked.                                        *)
(***************************************************************************)
EXTENDS HttpClient, TLAPS

\* The messages of requests and responses.
Rest == {m \in messages : m.kind \in {"question", "request", "response"}}

\* What a response to the call says was true at some time since it began.
TrueSince(call, response) ==
  response.found =>
    /\ response.address \in Hosts
    /\ LastAt(call.domain, response.address) # Never
    /\ call.since <= LastAt(call.domain, response.address)

\* Nothing happened later than now.
PastInv ==
  /\ \A i \in DOMAIN stack : stack[i].since <= clock
  /\ \A d \in Domains, h \in Hosts : until[d][h] # Never => until[d][h] <= clock

CacheInv ==
  \A d \in Domains : cache[d] # None =>
    /\ cache[d].address \in Hosts
    /\ LastAt(d, cache[d].address) # Never
    /\ cache[d].expires <= LastAt(d, cache[d].address) + longest + Ttl

CallInv ==
  /\ Len(stack) <= 1
  /\ \A m, n \in Rest : m = n
  /\ (stack = <<>> \/ stack[1].step = "search" \/ stack[1].answer # None) => Rest = {}
  /\ stack # <<>> /\ stack[1].step = "ask" =>
       /\ stack[1].answer # None => TrueSince(stack[1], stack[1].answer)
       /\ \A m \in Rest :
            \/ m.kind = "question" /\ m.domain = stack[1].domain
            \/ m.kind = "response" /\ TrueSince(stack[1], m.response)

Inv == TypeOK /\ PastInv /\ (~disturbed => CacheInv /\ CallInv)
-----------------------------------------------------------------------------
(* What calls, stacks and messages are made of. *)

\* An element of a sequence.
LEMMA ElementTypes == ASSUME NEW C, NEW s \in Seq(C), NEW i \in DOMAIN s PROVE s[i] \in C
OBVIOUS

\* The innermost call of a stack and the calls below it.
LEMMA StackTypes ==
  ASSUME NEW C, NEW s \in Seq(C), s # <<>>
  PROVE  /\ Last(s) \in C /\ Len(s) \in DOMAIN s /\ Last(s) = s[Len(s)]
         /\ Front(s) \in Seq(C) /\ Len(Front(s)) = Len(s) - 1
         /\ \A i \in DOMAIN Front(s) : i \in DOMAIN s /\ Front(s)[i] = s[i]
<1>1. Len(s) \in Nat \ {0} /\ DOMAIN s = 1 .. Len(s) /\ Len(s) \in DOMAIN s
  OBVIOUS
<1>2. Last(s) = s[Len(s)] /\ Last(s) \in C
  BY <1>1 DEF Last
<1>3. Front(s) = SubSeq(s, 1, Len(s) - 1)
  BY DEF Front
<1>4. Front(s) \in Seq(C) /\ Len(Front(s)) = Len(s) - 1
  BY <1>1, <1>3
<1>5. \A i \in 1 .. Len(s) - 1 : Front(s)[i] = s[i]
  BY <1>1, <1>3
<1>6. DOMAIN Front(s) = 1 .. Len(s) - 1
  BY <1>1, <1>4
<1> QED
  BY <1>1, <1>2, <1>4, <1>5, <1>6

\* A call put on top of a stack.
LEMMA PushTypes ==
  ASSUME NEW C, NEW s \in Seq(C), NEW f \in C
  PROVE  /\ Append(s, f) \in Seq(C)
         /\ Len(Append(s, f)) = Len(s) + 1 /\ Append(s, f)[Len(s) + 1] = f
         /\ DOMAIN Append(s, f) = DOMAIN s \cup {Len(s) + 1}
         /\ \A i \in DOMAIN s : Append(s, f)[i] = s[i]
         /\ Last(Append(s, f)) = f
BY DEF Last

\* The innermost call replaced by another.
LEMMA SwapTypes ==
  ASSUME NEW C, NEW s \in Seq(C), s # <<>>, NEW f \in C
  PROVE  /\ Append(Front(s), f) \in Seq(C)
         /\ Len(Append(Front(s), f)) = Len(s) /\ Append(Front(s), f)[Len(s)] = f
         /\ DOMAIN Append(Front(s), f) = DOMAIN s
         /\ \A i \in DOMAIN s : i # Len(s) => Append(Front(s), f)[i] = s[i]
         /\ Last(Append(Front(s), f)) = f
<1>1. Front(s) \in Seq(C) /\ Len(Front(s)) = Len(s) - 1 /\ \A i \in DOMAIN Front(s) : Front(s)[i] = s[i]
  BY StackTypes
<1>2. Len(s) \in Nat \ {0} /\ DOMAIN s = 1 .. Len(s) /\ DOMAIN Front(s) = 1 .. Len(s) - 1
  BY <1>1
<1> DEFINE F == Front(s)
<1>3. F \in Seq(C) /\ Len(F) = Len(s) - 1
  BY <1>1
<1> HIDE DEF F
<1>4. /\ Append(F, f) \in Seq(C) /\ Len(Append(F, f)) = Len(F) + 1 /\ Append(F, f)[Len(F) + 1] = f
      /\ DOMAIN Append(F, f) = DOMAIN F \cup {Len(F) + 1}
      /\ \A i \in DOMAIN F : Append(F, f)[i] = F[i]
      /\ Last(Append(F, f)) = f
  BY <1>3, PushTypes
<1> QED
  BY <1>1, <1>2, <1>3, <1>4 DEF F

\* A call that begins, and its fields.
LEMMA CallTypes ==
  ASSUME NEW step \in {"search", "ask", "send"}, NEW d \in Domains, NEW h \in Hosts \cup {None}, NEW now \in 0 .. MaxTime
  PROVE  /\ Call(step, d, h, now) \in Calls
         /\ Call(step, d, h, now).step = step /\ Call(step, d, h, now).domain = d
         /\ Call(step, d, h, now).address = h /\ Call(step, d, h, now).since = now
         /\ Call(step, d, h, now).answer = None
<1>1. 1 \in 1 .. Tries
  BY DnsBoundsAssumption
<1> QED
  BY <1>1 DEF Call, Calls, CallsAt

\* The fields of a call.
LEMMA CallFields ==
  ASSUME NEW c \in Calls
  PROVE  /\ c.step \in {"search", "ask", "send"} /\ c.domain \in Domains /\ c.address \in Hosts \cup {None}
         /\ c.try \in 1 .. Tries /\ c.since \in 0 .. MaxTime
         /\ c.step = "search" => c.answer \in Places \cup {None}
         /\ c.step # "search" => c.answer \in Responses \cup {None}
BY DEF Calls, CallsAt

\* Messages are what they say.
LEMMA MessageTypes ==
  /\ Where \in Message /\ Beat \in Message
  /\ \A p \in Places : Here(p) \in Message
  /\ \A p \in Places, d \in Domains : Question(p, d) \in Message
  /\ \A h \in Hosts : Request(h) \in Message
  /\ \A r \in Responses : Reply(r) \in Message
  /\ Missing \in Responses /\ Page \in Responses
  /\ \A h \in Hosts : Found(h) \in Responses
  /\ Page.address = None /\ Page.found /\ ~Missing.found
  /\ \A h \in Hosts : Found(h).address = h
BY DEF Message, Where, Beat, Here, Question, Request, Reply, Missing, Page, Found, Responses

\* Their kinds.
LEMMA MessageKinds ==
  /\ Where.kind = "where" /\ Beat.kind = "heartbeat"
  /\ \A p : Here(p).kind = "here"
  /\ \A p, d : Question(p, d).kind = "question" /\ Question(p, d).domain = d
  /\ \A h : Request(h).kind = "request"
  /\ \A r : Reply(r).kind = "response" /\ Reply(r).response = r
BY DEF Where, Beat, Here, Question, Request, Reply

\* What a message of each kind carries.
LEMMA MessageFields ==
  ASSUME NEW m \in Message
  PROVE  /\ m.kind = "here" => m.place \in Places
         /\ m.kind = "question" => m.domain \in Domains
         /\ m.kind = "response" => m.response \in Responses
BY DEF Message, Where, Beat

\* The fields of a response.
LEMMA ResponseFields ==
  ASSUME NEW r \in Responses PROVE r.found \in BOOLEAN /\ r.address \in Hosts \cup {None} /\ r # None
BY NoneAssumption DEF Responses

-----------------------------------------------------------------------------
(* Types. *)

\* An answer given to the calls that wait for it.
LEMMA GiveTypes ==
  ASSUME stack \in Seq(Calls), NEW step \in {"search", "ask"}, NEW a, Give(step, a),
         step = "search" => a \in Places, step = "ask" => a \in Responses
  PROVE  /\ stack' \in Seq(Calls) /\ Len(stack') = Len(stack) /\ DOMAIN stack' = DOMAIN stack
         /\ \A i \in DOMAIN stack :
              \/ stack'[i] = stack[i]
              \/ /\ (stack[i].step = "search") = (step = "search") /\ stack[i].answer = None
                 /\ stack'[i] = [stack[i] EXCEPT !.answer = a]
<1>1. ASSUME NEW i \in DOMAIN stack
      PROVE  [stack[i] EXCEPT !.answer = a] \in Calls \/ (stack[i].step = "search") # (step = "search")
  <2>1. stack[i] \in Calls
    BY ElementTypes
  <2> QED
    BY <2>1 DEF Calls, CallsAt
<1>2. \A i \in DOMAIN stack : stack'[i] \in Calls
  BY <1>1, ElementTypes DEF Give
<1>3. Len(stack) \in Nat /\ DOMAIN stack = 1 .. Len(stack) /\ DOMAIN stack' = 1 .. Len(stack)
  BY DEF Give
<1>4. stack' \in Seq(Calls) /\ Len(stack') = Len(stack)
  <2>1. stack' = [i \in 1 .. Len(stack) |-> stack'[i]]
    BY <1>3 DEF Give
  <2> QED
    BY <2>1, <1>2, <1>3
<1> QED
  BY <1>3, <1>4 DEF Give

\* The state at the start.
LEMMA InitInv == Init => Inv
<1> SUFFICES ASSUME Init PROVE Inv
  OBVIOUS
<1>1. DnsTypeOK
  <2>1. <<>> \in Seq(Calls)
    OBVIOUS
  <2> QED
    BY <2>1 DEF Init, DnsInit, DnsTypeOK
<1>2. TypeOK
  <2>1. 0 \in 0 .. MaxTime /\ 0 \in 0 .. MaxSends /\ 0 \in 0 .. MaxChanges
    BY DnsBoundsAssumption, HttpBoundsAssumption
  <2>2. registry \in [Domains -> Hosts \cup {None}] /\ cache \in [Domains -> Entry \cup {None}]
    BY DEF Init
  <2>3. until \in [Domains -> [Hosts -> (0 .. MaxTime) \cup {Never}]]
    BY DEF Init
  <2> QED
    BY <1>1, <2>1, <2>2, <2>3 DEF Init, TypeOK
<1>3. PastInv
  BY DEF Init, DnsInit, PastInv
<1>4. CacheInv
  BY DEF Init, CacheInv
<1>5. CallInv
  <2>1. stack = <<>> /\ Rest = {}
    BY DEF Init, DnsInit, Rest
  <2> QED
    BY <2>1 DEF CallInv
<1> QED
  BY <1>2, <1>3, <1>4, <1>5 DEF Inv

\* The steps of the world change neither the calls nor the cache.
LEMMA WorldTypes == ASSUME TypeOK, World PROVE TypeOK'
<1>1. UNCHANGED <<started, known, stack, sends, clientVars>>
  BY DEF World, Tick, Lose, Respond, Register, Unregister, ServerStarts, ServerStops, dnsVars, historyVars, clientVars
<1>2. messages' \subseteq Message
  <2>1. messages' \subseteq messages \cup {Reply(Page)}
    BY DEF World, Tick, Lose, Respond, Register, Unregister, ServerStarts, ServerStops, dnsVars
  <2> QED
    BY <2>1, MessageTypes DEF TypeOK, DnsTypeOK
<1>3. server' \in Places \cup {None}
  BY DEF TypeOK, DnsTypeOK, World, Tick, Lose, Respond, Register, Unregister, ServerStarts, ServerStops, dnsVars
<1>4. clock' \in 0 .. MaxTime
  BY DnsBoundsAssumption DEF TypeOK, World, Tick, Lose, Respond, Register, Unregister, ServerStarts, ServerStops
<1>5. changes' \in 0 .. MaxChanges
  BY HttpBoundsAssumption
  DEF TypeOK, World, Tick, Lose, Respond, Register, Unregister, ServerStarts, ServerStops, Changes, historyVars
<1>6. registry' \in [Domains -> Hosts \cup {None}]
  BY DEF TypeOK, World, Tick, Lose, Respond, Register, Unregister, ServerStarts, ServerStops, registryVars
<1>7. until' \in [Domains -> [Hosts -> (0 .. MaxTime) \cup {Never}]]
  <2>1. CASE \E d \in Domains : Unregister(d)
    <3>1. PICK d \in Domains : Unregister(d)
      BY <2>1
    <3>2. registry[d] \in Hosts /\ until[d] \in [Hosts -> (0 .. MaxTime) \cup {Never}] /\ clock \in 0 .. MaxTime
      BY <3>1 DEF Unregister, TypeOK
    <3>3. [until[d] EXCEPT ![registry[d]] = clock] \in [Hosts -> (0 .. MaxTime) \cup {Never}]
      BY <3>2
    <3> QED
      BY <3>1, <3>3 DEF Unregister, TypeOK
  <2>2. CASE UNCHANGED until
    BY <2>2 DEF TypeOK
  <2> QED
    BY <2>1, <2>2 DEF World, Tick, Lose, Respond, Register, ServerStarts, ServerStops, registryVars
<1>8. DnsTypeOK'
  BY <1>1, <1>2, <1>3 DEF TypeOK, DnsTypeOK
<1> QED
  BY <1>1, <1>4, <1>5, <1>6, <1>7, <1>8 DEF TypeOK, clientVars

\* The server's answers, and heartbeats.
LEMMA ServerTypes == ASSUME TypeOK, Beats \/ HearsHeartbeat \/ ServerServes PROVE TypeOK'
<1>1. UNCHANGED <<server, known, stack>> /\ Unchanged
  BY DEF Beats, HearsHeartbeat, ServerServes, Heartbeat, HearHeartbeat, GetDNSServerAddress, GetAddressWithDomain
<1>2. started' \in BOOLEAN
  BY DEF TypeOK, DnsTypeOK, Beats, HearsHeartbeat, ServerServes, Heartbeat, HearHeartbeat, GetDNSServerAddress, GetAddressWithDomain
<1>3. messages' \subseteq Message
  <2>1. messages \subseteq Message
    BY DEF TypeOK, DnsTypeOK
  <2>2. CASE Beats
    BY <2>1, <2>2, MessageTypes DEF Beats, Heartbeat, SendMessage
  <2>3. CASE HearsHeartbeat
    BY <2>1, <2>3 DEF HearsHeartbeat, HearHeartbeat
  <2>4. CASE GetDNSServerAddress
    BY <2>1, <2>4, MessageTypes DEF GetDNSServerAddress, TypeOK, DnsTypeOK
  <2>5. ASSUME NEW m \in messages, m.kind = "question", GetAddressWithDomain(m, registry[m.domain])
        PROVE  messages' \subseteq Message
    <3>1. m.domain \in Domains
      BY <2>1, <2>5, MessageFields
    <3>2. registry[m.domain] \in Hosts \cup {None}
      BY <3>1 DEF TypeOK
    <3> QED
      BY <2>1, <2>5, <3>2, MessageTypes DEF GetAddressWithDomain
  <2> QED
    BY <2>2, <2>3, <2>4, <2>5 DEF ServerServes
<1>4. DnsTypeOK'
  BY <1>1, <1>2, <1>3 DEF TypeOK, DnsTypeOK
<1> QED
  BY <1>1, <1>4 DEF TypeOK, Unchanged, registryVars, historyVars, clientVars

\* A call begins.
LEMMA SendTypes ==
  ASSUME TypeOK, NEW d \in Domains, SendWithCache(d) \/ SendWithLookup(d)
  PROVE  TypeOK'
<1>1. /\ UNCHANGED <<server, started, known, clock, registry, until, changes, cache, longest>>
      /\ Sends
  BY DEF SendWithCache, SendWithLookup, Search, Ask, registryVars
<1>2. sends' \in 0 .. MaxSends /\ disturbed' \in BOOLEAN
  BY <1>1, HttpBoundsAssumption DEF TypeOK, Sends
<1>3. clock \in 0 .. MaxTime /\ stack \in Seq(Calls) /\ messages \subseteq Message /\ known \in Places \cup {None}
  BY DEF TypeOK, DnsTypeOK
<1>4. stack' \in Seq(Calls) /\ messages' \subseteq Message
  <2>1. CASE SendWithCache(d)
    <3>1. cache[d].address \in Hosts
      BY <2>1 DEF SendWithCache, IsFresh, TypeOK, Entry
    <3>2. Call("send", d, cache[d].address, clock) \in Calls
      BY <1>3, <3>1, CallTypes
    <3> QED
      BY <1>3, <2>1, <3>1, <3>2, PushTypes, MessageTypes DEF SendWithCache, Begin, SendMessage
  <2>2. CASE SendWithLookup(d)
    <3>1. Call("search", d, None, clock) \in Calls /\ Call("ask", d, None, clock) \in Calls
      BY <1>3, CallTypes
    <3> QED
      BY <1>3, <2>2, <3>1, PushTypes, MessageTypes DEF SendWithLookup, Search, Ask, Begin, SendMessage
  <2> QED
    BY <2>1, <2>2
<1>5. DnsTypeOK'
  BY <1>1, <1>4 DEF TypeOK, DnsTypeOK
<1> QED
  BY <1>1, <1>2, <1>5 DEF TypeOK

\* An answer is heard.
LEMMA HearTypes ==
  ASSUME TypeOK, NEW m \in messages, Hear(m), Unchanged
  PROVE  TypeOK'
<1>1. stack \in Seq(Calls) /\ messages \subseteq Message /\ m \in Message
  BY DEF TypeOK, DnsTypeOK
<1>2. stack' \in Seq(Calls)
  <2>1. CASE m.kind = "here" /\ Give("search", m.place)
    BY <1>1, <2>1, GiveTypes, MessageFields
  <2>2. CASE m.kind = "response" /\ Give("ask", m.response)
    BY <1>1, <2>2, GiveTypes, MessageFields
  <2> QED
    BY <2>1, <2>2 DEF Hear
<1>3. DnsTypeOK'
  BY <1>1, <1>2 DEF TypeOK, DnsTypeOK, Hear
<1> QED
  BY <1>3 DEF TypeOK, Unchanged, registryVars, historyVars, clientVars

\* The innermost call goes on or returns.
LEMMA ThreadTypes == ASSUME TypeOK, Thread PROVE TypeOK'
<1>1. clock \in 0 .. MaxTime /\ stack \in Seq(Calls) /\ messages \subseteq Message /\ known \in Places \cup {None}
  BY DEF TypeOK, DnsTypeOK
<1>2. /\ stack # <<>> /\ Top \in Calls /\ Front(stack) \in Seq(Calls)
      /\ UNCHANGED <<server, started, clock, registry, until, sends, changes>>
  <2>1. /\ stack # <<>>
        /\ UNCHANGED <<server, started, clock, registry, until, sends, changes>>
    BY DEF Thread, AddressFound, AddressMissing, AskTimesOut, SendReturns, SendTimesOut, ServerFound, ServerFoundTooLate,
      SearchTimesOut, Unchanged, Answered, Waits, registryVars, historyVars
  <2> QED
    BY <1>1, <2>1, StackTypes DEF Top
<1>3. ASSUME known' \in Places \cup {None}, stack' \in Seq(Calls), messages' \subseteq Message,
             cache' \in [Domains -> Entry \cup {None}], longest' \in 0 .. MaxTime, disturbed' \in BOOLEAN
      PROVE  TypeOK'
  <2>1. DnsTypeOK'
    BY <1>2, <1>3 DEF TypeOK, DnsTypeOK
  <2> QED
    BY <1>2, <1>3, <2>1 DEF TypeOK
<1>4. Top.domain \in Domains /\ Top.since \in 0 .. MaxTime
  BY <1>2, CallFields
<1>5. CASE AddressFound
  <2>1. Top.answer \in Responses /\ Top.answer.address \in Hosts \cup {None}
    BY <1>2, <1>5, CallFields, ResponseFields DEF AddressFound, Answered
  <2>2. clock + Ttl \in Nat
    BY <1>1, HttpBoundsAssumption
  <2>3. cache' \in [Domains -> Entry \cup {None}]
    <3>1. [address |-> Top.answer.address, expires |-> clock + Ttl] \in Entry
      BY <2>1, <2>2 DEF Entry
    <3> QED
      BY <1>4, <1>5, <3>1 DEF AddressFound, TypeOK
  <2>4. longest' \in 0 .. MaxTime
    <3>1. \A now, then, l \in 0 .. MaxTime : now - then > l => now - then \in 0 .. MaxTime
      BY DnsBoundsAssumption
    <3> QED
      BY <1>1, <1>4, <1>5, <3>1 DEF AddressFound, TypeOK
  <2>5. stack' \in Seq(Calls) /\ messages' \subseteq Message
    <3>1. CASE Top.answer.address = None
      BY <1>1, <1>2, <1>5, <3>1 DEF AddressFound, Leave
    <3>2. CASE Top.answer.address # None
      <4>1. Call("send", Top.domain, Top.answer.address, clock) \in Calls
        BY <1>1, <1>4, <2>1, CallTypes
      <4>2. /\ stack' = Append(Front(stack), Call("send", Top.domain, Top.answer.address, clock))
            /\ messages' = messages \cup {Request(Top.answer.address)}
        BY <1>5, <3>2 DEF AddressFound, GoOn, SendMessage
      <4>3. stack' \in Seq(Calls)
        BY <1>1, <1>2, <4>1, <4>2, SwapTypes
      <4>4. Request(Top.answer.address) \in Message
        BY <2>1, <3>2, MessageTypes
      <4> QED
        BY <1>1, <4>2, <4>3, <4>4
    <3> QED
      BY <3>1, <3>2
  <2>6. UNCHANGED <<known, disturbed>>
    BY <1>5 DEF AddressFound
  <2> QED
    BY <1>1, <1>3, <2>3, <2>4, <2>5, <2>6 DEF TypeOK
<1>6. CASE AddressMissing \/ AskTimesOut \/ SendReturns \/ SendTimesOut
  <2>1. stack' = Front(stack) /\ UNCHANGED <<known, messages, longest>>
    BY <1>6 DEF AddressMissing, AskTimesOut, SendReturns, SendTimesOut, Leave, clientVars
  <2>2. cache' \in [Domains -> Entry \cup {None}] /\ disturbed' \in BOOLEAN
    BY <1>4, <1>6 DEF AddressMissing, AskTimesOut, SendReturns, SendTimesOut, Forget, clientVars, TypeOK
  <2>3. longest' \in 0 .. MaxTime
    BY <2>1 DEF TypeOK
  <2> QED
    BY <1>1, <1>2, <1>3, <2>1, <2>2, <2>3
<1>7. CASE (ServerFound(clock) \/ ServerFoundTooLate \/ SearchTimesOut) /\ Unchanged
  <2>1. cache' \in [Domains -> Entry \cup {None}] /\ longest' \in 0 .. MaxTime /\ disturbed' \in BOOLEAN
    BY <1>7 DEF Unchanged, clientVars, TypeOK
  <2>2. known' \in Places \cup {None} /\ stack' \in Seq(Calls) /\ messages' \subseteq Message
    <3>1. CASE ServerFound(clock)
      <4>1. Top.answer \in Places
        BY <1>2, <3>1, CallFields DEF ServerFound, Answered
      <4>2. Call("ask", Top.domain, None, clock) \in Calls
        BY <1>1, <1>4, CallTypes
      <4> QED
        BY <1>1, <1>2, <1>4, <3>1, <4>1, <4>2, SwapTypes, MessageTypes DEF ServerFound, GoOn, SendMessage
    <3>2. CASE ServerFoundTooLate
      BY <1>1, <1>2, <3>2 DEF ServerFoundTooLate, Leave
    <3>3. CASE SearchTimesOut
      <4>1. Top.try < Tries => [Top EXCEPT !.try = Top.try + 1] \in Calls
        BY <1>2, DnsBoundsAssumption DEF Calls, CallsAt
      <4>2. UNCHANGED <<known, messages>>
        BY <3>3 DEF SearchTimesOut
      <4>3. CASE Top.try < Tries
        <5>1. stack' = Append(Front(stack), [Top EXCEPT !.try = Top.try + 1])
          BY <3>3, <4>3 DEF SearchTimesOut, GoOn
        <5>2. stack' \in Seq(Calls)
          BY <1>1, <1>2, <4>1, <4>3, <5>1, SwapTypes
        <5> QED
          BY <1>1, <4>2, <5>2
      <4>4. CASE ~(Top.try < Tries)
        BY <1>1, <1>2, <3>3, <4>2, <4>4 DEF SearchTimesOut, Leave
      <4> QED
        BY <4>3, <4>4
    <3> QED
      BY <1>7, <3>1, <3>2, <3>3
  <2> QED
    BY <1>3, <2>1, <2>2
<1> QED
  BY <1>5, <1>6, <1>7 DEF Thread

LEMMA TypeStep == TypeOK /\ [Next]_vars => TypeOK'
<1> SUFFICES ASSUME TypeOK, [Next]_vars PROVE TypeOK'
  OBVIOUS
<1>1. CASE UNCHANGED vars
  BY <1>1 DEF TypeOK, DnsTypeOK, vars, dnsVars, registryVars, historyVars, clientVars
<1> QED
  BY <1>1, WorldTypes, ServerTypes, SendTypes, HearTypes, ThreadTypes DEF Next

(* Everything about the client, the server and the messages keeps its type.  *)
THEOREM TypeCorrect == Spec => []TypeOK
<1>1. Init => TypeOK
  BY InitInv DEF Inv
<1> QED
  BY <1>1, TypeStep, PTL DEF Spec

-----------------------------------------------------------------------------
(* What was true of the past stays true. *)

\* When a domain was last somewhere is a time, and not later than now.
LEMMA LastTypes ==
  ASSUME TypeOK, PastInv, NEW d \in Domains, NEW h \in Hosts, LastAt(d, h) # Never
  PROVE  LastAt(d, h) \in 0 .. MaxTime /\ LastAt(d, h) <= clock
<1>1. until[d][h] \in (0 .. MaxTime) \cup {Never} /\ clock \in 0 .. MaxTime /\ clock <= clock
  BY DEF TypeOK
<1>2. until[d][h] # Never => until[d][h] <= clock
  BY DEF PastInv
<1> QED
  BY <1>1, <1>2 DEF LastAt

\* Only the world changes the clock and the registry.
LEMMA PastUnchanged ==
  ASSUME Beats \/ HearsHeartbeat \/ ServerServes \/ Thread
           \/ (\E d \in Domains : SendWithCache(d) \/ SendWithLookup(d))
           \/ (\E m \in messages : Hear(m) /\ Unchanged)
  PROVE  UNCHANGED <<clock, registry, until>>
BY DEF Beats, HearsHeartbeat, ServerServes, Thread, SendWithCache, SendWithLookup, AddressFound, AddressMissing, AskTimesOut,
  SendReturns, SendTimesOut, Unchanged, registryVars

\* When a domain was last somewhere does not move back.
LEMMA LastStep ==
  ASSUME TypeOK, PastInv, World, NEW d \in Domains, NEW h \in Hosts, LastAt(d, h) # Never
  PROVE  LastAt(d, h)' # Never /\ LastAt(d, h) <= LastAt(d, h)'
<1>1. /\ LastAt(d, h) \in 0 .. MaxTime /\ LastAt(d, h) <= clock /\ clock \in 0 .. MaxTime /\ clock # Never
      /\ LastAt(d, h) <= LastAt(d, h) /\ clock <= clock + 1 /\ LastAt(d, h) <= clock + 1 /\ clock + 1 # Never
  BY LastTypes, NeverAssumption DEF TypeOK
<1>2. CASE Tick
  BY <1>1, <1>2 DEF Tick, LastAt, registryVars
<1>3. CASE \E e \in Domains, g \in Hosts : Register(e, g)
  <2>1. PICK e \in Domains, g \in Hosts : Register(e, g)
    BY <1>3
  <2>2. UNCHANGED <<clock, until>> /\ registry[e] = None /\ registry' = [registry EXCEPT ![e] = g]
    BY <2>1 DEF Register
  <2>3. registry[d] # h => LastAt(d, h) = until[d][h]
    BY DEF LastAt
  <2>4. registry[d] = h => e # d
    BY <2>2, NoneAssumption
  <2>5. LastAt(d, h)' = clock \/ (LastAt(d, h)' = until[d][h] /\ registry[d] # h)
    BY <2>2, <2>4 DEF LastAt, TypeOK
  <2> QED
    BY <1>1, <2>3, <2>5
<1>4. CASE \E e \in Domains : Unregister(e)
  <2>1. PICK e \in Domains : Unregister(e)
    BY <1>4
  <2>2. /\ clock' = clock /\ registry' = [registry EXCEPT ![e] = None]
        /\ until' = [until EXCEPT ![e] = [until[e] EXCEPT ![registry[e]] = clock]]
    BY <2>1 DEF Unregister
  <2>3. /\ registry \in [Domains -> Hosts \cup {None}] /\ until \in [Domains -> [Hosts -> (0 .. MaxTime) \cup {Never}]]
        /\ h # None
    BY NoneAssumption DEF TypeOK
  <2>4. CASE registry[d] = h
    BY <1>1, <2>2, <2>3, <2>4 DEF LastAt
  <2>5. CASE registry[d] # h
    <3>1. until'[d][h] = until[d][h] /\ registry'[d] # h
      BY <2>2, <2>3, <2>5
    <3> QED
      BY <1>1, <2>5, <3>1 DEF LastAt
  <2> QED
    BY <2>4, <2>5
<1>5. CASE UNCHANGED <<clock, registry, until>>
  BY <1>1, <1>5 DEF LastAt
<1> QED
  BY <1>2, <1>3, <1>4, <1>5 DEF World, Lose, Respond, ServerStarts, ServerStops, registryVars

\* Neither a call nor the end of an address is later than now.
LEMMA PastStep == TypeOK /\ PastInv /\ [Next]_vars => PastInv'
<1> SUFFICES ASSUME TypeOK, PastInv, [Next]_vars PROVE PastInv'
  OBVIOUS
<1>1. clock \in 0 .. MaxTime /\ stack \in Seq(Calls) /\ (clock' = clock \/ clock' = clock + 1)
  <2>1. clock' = clock \/ clock' = clock + 1
    BY PastUnchanged DEF Next, World, Tick, Lose, Respond, Register, Unregister, ServerStarts, ServerStops, vars
  <2> QED
    BY <2>1 DEF TypeOK, DnsTypeOK
<1>2. ASSUME NEW i \in DOMAIN stack'
      PROVE  stack'[i].since <= clock'
  <2>1. ASSUME NEW j \in DOMAIN stack PROVE stack[j].since <= clock'
    <3>1. stack[j].since <= clock /\ stack[j].since \in 0 .. MaxTime
      BY <1>1, ElementTypes, CallFields DEF PastInv
    <3> QED
      BY <1>1, <3>1
  <2>2. CASE UNCHANGED stack
    BY <2>1, <2>2
  <2>3. ASSUME NEW c \in Calls, stack' = Append(stack, c), c.since = clock
        PROVE  stack'[i].since <= clock'
    <3>1. (i \in DOMAIN stack /\ stack'[i] = stack[i]) \/ stack'[i] = c
      BY <1>1, <2>3, PushTypes
    <3> QED
      BY <1>1, <2>1, <2>3, <3>1
  <2>4. CASE stack # <<>> /\ stack' = Front(stack)
    BY <1>1, <2>1, <2>4, StackTypes
  <2>5. ASSUME NEW c \in Calls, stack # <<>>, stack' = Append(Front(stack), c), c.since = clock \/ c.since = Top.since
        PROVE  stack'[i].since <= clock'
    <3>1. i \in DOMAIN stack /\ (i # Len(stack) => stack'[i] = stack[i]) /\ (i = Len(stack) => stack'[i] = c)
      BY <1>1, <2>5, SwapTypes
    <3>2. Top = stack[Len(stack)] /\ Len(stack) \in DOMAIN stack
      BY <1>1, <2>5, StackTypes DEF Top
    <3>3. clock <= clock'
      BY <1>1
    <3> QED
      BY <2>1, <2>5, <3>1, <3>2, <3>3
  <2>6. CASE World \/ Beats \/ HearsHeartbeat \/ ServerServes \/ UNCHANGED vars
    BY <2>2, <2>6 DEF World, Tick, Lose, Respond, Register, Unregister, ServerStarts, ServerStops, Beats, HearsHeartbeat,
      ServerServes, Heartbeat, HearHeartbeat, GetDNSServerAddress, GetAddressWithDomain, vars, dnsVars
  <2>7. ASSUME NEW d \in Domains, SendWithCache(d) PROVE stack'[i].since <= clock'
    <3>1. cache[d].address \in Hosts
      BY <2>7 DEF SendWithCache, IsFresh, TypeOK, Entry
    <3> QED
      BY <1>1, <2>3, <2>7, <3>1, CallTypes DEF SendWithCache, Begin
  <2>8. ASSUME NEW d \in Domains, SendWithLookup(d) PROVE stack'[i].since <= clock'
    <3>1. \E step \in {"search", "ask", "send"} : stack' = Append(stack, Call(step, d, None, clock))
      BY <2>8 DEF SendWithLookup, Search, Ask, Begin
    <3>2. PICK step \in {"search", "ask", "send"} : stack' = Append(stack, Call(step, d, None, clock))
      BY <3>1
    <3>3. Call(step, d, None, clock) \in Calls /\ Call(step, d, None, clock).since = clock
      BY <1>1, CallTypes
    <3> QED
      BY <2>3, <3>2, <3>3
  <2>9. ASSUME NEW m \in messages, Hear(m) PROVE stack'[i].since <= clock'
    <3>1. ASSUME NEW step, NEW a, Give(step, a) PROVE stack'[i].since <= clock'
      <4>1. /\ DOMAIN stack' = DOMAIN stack
            /\ \A j \in DOMAIN stack : stack'[j] = stack[j] \/ stack'[j] = [stack[j] EXCEPT !.answer = a]
        BY <3>1 DEF Give
      <4>2. i \in DOMAIN stack /\ stack[i] \in Calls
        BY <1>1, <4>1, ElementTypes
      <4>3. [stack[i] EXCEPT !.answer = a].since = stack[i].since
        BY <4>2 DEF Calls, CallsAt
      <4> QED
        BY <2>1, <4>1, <4>2, <4>3
    <3> QED
      BY <2>9, <3>1 DEF Hear
  <2>10. ASSUME Thread PROVE stack'[i].since <= clock'
    <3>1. stack # <<>> => Top \in Calls
      BY <1>1, StackTypes DEF Top
    <3>2. CASE AddressFound
      <4>1. Top.answer \in Responses /\ Top.domain \in Domains /\ stack # <<>>
        BY <3>1, <3>2, CallFields DEF AddressFound, Answered
      <4>2. Top.answer.address \in Hosts \cup {None}
        BY <4>1, ResponseFields
      <4> QED
        BY <1>1, <2>4, <2>5, <3>2, <4>1, <4>2, CallTypes DEF AddressFound, Leave, GoOn
    <3>3. CASE AddressMissing \/ AskTimesOut \/ SendReturns \/ SendTimesOut \/ ServerFoundTooLate
      BY <2>4, <3>3 DEF AddressMissing, AskTimesOut, SendReturns, SendTimesOut, ServerFoundTooLate, Leave, Answered, Waits
    <3>4. CASE ServerFound(clock)
      <4>1. stack # <<>> /\ Top.domain \in Domains
        BY <3>1, <3>4, CallFields DEF ServerFound, Answered
      <4>2. stack' = Append(Front(stack), Call("ask", Top.domain, None, clock))
        BY <3>4 DEF ServerFound, GoOn
      <4>3. "ask" \in {"search", "ask", "send"} /\ None \in Hosts \cup {None}
        OBVIOUS
      <4>4. Call("ask", Top.domain, None, clock) \in Calls
        BY <1>1, <4>1, <4>3, CallTypes
      <4>5. Call("ask", Top.domain, None, clock).since = clock
        BY DEF Call
      <4> QED
        BY <2>5, <4>1, <4>2, <4>4, <4>5
    <3>5. CASE SearchTimesOut
      <4>1. stack # <<>> /\ Top \in Calls
        BY <3>1, <3>5 DEF SearchTimesOut, Waits
      <4>2. CASE Top.try < Tries
        <5>1. /\ [Top EXCEPT !.try = Top.try + 1] \in Calls
              /\ [Top EXCEPT !.try = Top.try + 1].since = Top.since
          BY <3>5, <4>1, <4>2, DnsBoundsAssumption DEF Calls, CallsAt
        <5> QED
          BY <2>5, <3>5, <4>1, <4>2, <5>1 DEF SearchTimesOut, GoOn
      <4>3. CASE ~(Top.try < Tries)
        BY <2>4, <3>5, <4>1, <4>3 DEF SearchTimesOut, Leave
      <4> QED
        BY <4>2, <4>3
    <3> QED
      BY <2>10, <3>2, <3>3, <3>4, <3>5 DEF Thread
  <2> QED
    BY <2>6, <2>7, <2>8, <2>9, <2>10 DEF Next
<1>3. ASSUME NEW d \in Domains, NEW h \in Hosts, until'[d][h] # Never
      PROVE  until'[d][h] <= clock'
  <2>1. until[d][h] # Never => until[d][h] \in 0 .. MaxTime /\ until[d][h] <= clock
    BY DEF PastInv, TypeOK
  <2>2. until[d][h] # Never => until[d][h] <= clock'
    BY <1>1, <2>1
  <2>3. CASE \E e \in Domains : Unregister(e)
    <3>1. PICK e \in Domains : Unregister(e)
      BY <2>3
    <3>2. clock' = clock /\ until' = [until EXCEPT ![e] = [until[e] EXCEPT ![registry[e]] = clock]]
      BY <3>1 DEF Unregister
    <3>3. until'[d][h] = until[d][h] \/ until'[d][h] = clock
      BY <3>2 DEF TypeOK
    <3> QED
      BY <1>1, <1>3, <2>2, <3>2, <3>3
  <2>4. CASE UNCHANGED until
    BY <1>3, <2>2, <2>4
  <2> QED
    BY <2>3, <2>4, PastUnchanged DEF Next, World, Tick, Lose, Respond, Register, ServerStarts, ServerStops, registryVars, vars
<1> QED
  BY <1>2, <1>3 DEF PastInv

-----------------------------------------------------------------------------
(* A client that is not disturbed. *)

LEMMA CalmBefore == ASSUME TypeOK, [Next]_vars, ~disturbed' PROVE ~disturbed
<1>1. disturbed \in BOOLEAN
  BY DEF TypeOK
<1> QED
  BY <1>1 DEF Next, World, Tick, Lose, Respond, Register, Unregister, ServerStarts, ServerStops, Beats, HearsHeartbeat,
    ServerServes, Thread, SendWithCache, SendWithLookup, Sends, AddressFound, AddressMissing, AskTimesOut, SendReturns,
    SendTimesOut, Unchanged, clientVars, vars

\* When a domain was last somewhere does not move back, whatever happens.
LEMMA LastSteps ==
  ASSUME TypeOK, PastInv, [Next]_vars, NEW d \in Domains, NEW h \in Hosts, LastAt(d, h) # Never
  PROVE  /\ LastAt(d, h)' # Never /\ LastAt(d, h) <= LastAt(d, h)'
         /\ LastAt(d, h) \in 0 .. MaxTime /\ LastAt(d, h)' \in 0 .. MaxTime
<1>1. LastAt(d, h) \in 0 .. MaxTime /\ LastAt(d, h) <= LastAt(d, h)
  BY LastTypes DEF TypeOK
<1>2. LastAt(d, h)' \in (0 .. MaxTime) \cup {Never}
  <2>1. TypeOK'
    BY TypeStep
  <2> QED
    BY <2>1 DEF TypeOK, LastAt
<1>3. CASE World
  BY <1>1, <1>2, <1>3, LastStep
<1>4. CASE UNCHANGED <<clock, registry, until>>
  <2>1. LastAt(d, h)' = LastAt(d, h)
    BY <1>4 DEF LastAt
  <2> QED
    BY <1>1, <1>2, <2>1
<1>5. World \/ UNCHANGED <<clock, registry, until>>
  BY PastUnchanged DEF Next, vars, registryVars
<1> QED
  BY <1>3, <1>4, <1>5

\* What was true since a call began stays true.
LEMMA TrueSinceStep ==
  ASSUME TypeOK, PastInv, [Next]_vars, NEW c \in Calls, NEW r \in Responses, TrueSince(c, r)
  PROVE  TrueSince(c, r)'
<1>1. CASE r.found
  <2>1. c.domain \in Domains /\ c.since \in 0 .. MaxTime
    BY CallFields
  <2>2. r.address \in Hosts /\ LastAt(c.domain, r.address) # Never /\ c.since <= LastAt(c.domain, r.address)
    BY <1>1 DEF TrueSince
  <2>3. /\ LastAt(c.domain, r.address)' # Never /\ LastAt(c.domain, r.address) <= LastAt(c.domain, r.address)'
        /\ LastAt(c.domain, r.address) \in 0 .. MaxTime /\ LastAt(c.domain, r.address)' \in 0 .. MaxTime
    BY <2>1, <2>2, LastSteps
  <2>4. c.since <= LastAt(c.domain, r.address)'
    BY <2>1, <2>2, <2>3
  <2> QED
    BY <2>2, <2>3, <2>4 DEF TrueSince
<1>2. CASE ~r.found
  BY <1>2 DEF TrueSince
<1> QED
  BY <1>1, <1>2

\* Addresses that stay in the cache are no older than before.
LEMMA CacheKept ==
  ASSUME TypeOK, PastInv, CacheInv, [Next]_vars, longest' \in Nat, longest <= longest',
         NEW d \in Domains, cache'[d] = cache[d], cache[d] # None
  PROVE  /\ cache'[d].address \in Hosts
         /\ LastAt(d, cache[d].address)' # Never
         /\ cache'[d].expires <= LastAt(d, cache[d].address)' + longest' + Ttl
<1>1. PICK h \in Hosts : h = cache[d].address
  BY DEF CacheInv
<1>2. LastAt(d, h) # Never /\ cache[d].expires <= LastAt(d, h) + longest + Ttl
  BY <1>1 DEF CacheInv
<1>3. /\ LastAt(d, h)' # Never /\ LastAt(d, h) <= LastAt(d, h)'
      /\ LastAt(d, h) \in 0 .. MaxTime /\ LastAt(d, h)' \in 0 .. MaxTime
  BY <1>2, LastSteps
<1>4. cache[d].expires \in Nat /\ longest \in Nat /\ Ttl \in Nat
  <2>1. cache[d] \in Entry
    BY DEF TypeOK
  <2> QED
    BY <2>1, HttpBoundsAssumption DEF TypeOK, Entry
<1>5. cache[d].expires <= LastAt(d, h)' + longest' + Ttl
  <2>1. \A x, a, b, l, n, t \in Nat : x <= a + l + t /\ a <= b /\ l <= n => x <= b + n + t
    OBVIOUS
  <2>2. LastAt(d, h) \in Nat /\ LastAt(d, h)' \in Nat
    BY <1>3
  <2> QED
    BY <1>2, <1>3, <1>4, <2>1, <2>2
<1>6. LastAt(d, h)' = LastAt(d, cache[d].address)'
  BY <1>1 DEF LastAt
<1> QED
  BY <1>1, <1>3, <1>5, <1>6

\* What the innermost call was answered, if nothing disturbed it.
LEMMA AskAnswered ==
  ASSUME TypeOK, CallInv, Answered("ask")
  PROVE  /\ Top \in Calls /\ Top = stack[1] /\ stack # <<>> /\ Len(stack) = 1
         /\ Top.answer \in Responses /\ Top.domain \in Domains /\ Top.since \in 0 .. MaxTime
         /\ TrueSince(Top, Top.answer) /\ Rest = {}
<1>1. stack \in Seq(Calls) /\ stack # <<>> /\ Top.step = "ask" /\ Top.answer # None
  BY DEF TypeOK, DnsTypeOK, Answered
<1>2. Len(stack) \in Nat \ {0} /\ Len(stack) <= 1
  BY <1>1 DEF CallInv
<1>3. Len(stack) = 1 /\ Top = stack[1] /\ Top \in Calls
  <2>1. Len(stack) = 1
    BY <1>2
  <2>2. Top = stack[Len(stack)] /\ Top \in Calls
    BY <1>1, StackTypes DEF Top
  <2> QED
    BY <2>1, <2>2
<1>4. Top.answer \in Responses /\ Top.domain \in Domains /\ Top.since \in 0 .. MaxTime
  BY <1>1, <1>3, CallFields
<1>5. TrueSince(Top, Top.answer) /\ Rest = {}
  BY <1>1, <1>3 DEF CallInv
<1> QED
  BY <1>1, <1>3, <1>4, <1>5

LEMMA CacheStep ==
  ASSUME TypeOK, PastInv, CacheInv, CallInv, [Next]_vars
  PROVE  CacheInv'
<1> SUFFICES ASSUME NEW d \in Domains, cache'[d] # None
             PROVE  /\ cache'[d].address \in Hosts
                    /\ LastAt(d, cache[d].address)' # Never
                    /\ cache'[d].expires <= LastAt(d, cache[d].address)' + longest' + Ttl
  BY DEF CacheInv
<1>1. longest \in Nat /\ longest <= longest /\ clock \in Nat /\ Ttl \in Nat
  BY HttpBoundsAssumption DEF TypeOK
<1>2. CASE longest' = longest /\ (cache' = cache \/ Forget)
  <2>1. cache'[d] = cache[d]
    BY <1>2 DEF Forget, TypeOK
  <2> QED
    BY <1>1, <1>2, <2>1, CacheKept
<1>3. CASE AddressFound
  <2>1. /\ Answered("ask") /\ Top.answer.found
        /\ cache' = [cache EXCEPT ![Top.domain] = [address |-> Top.answer.address, expires |-> clock + Ttl]]
        /\ longest' = IF clock - Top.since > longest THEN clock - Top.since ELSE longest
        /\ UNCHANGED <<clock, registry, until>>
    BY <1>3 DEF AddressFound, registryVars
  <2>2. /\ Top \in Calls /\ Top.answer \in Responses /\ Top.domain \in Domains /\ Top.since \in 0 .. MaxTime
        /\ TrueSince(Top, Top.answer)
    BY <2>1, AskAnswered
  <2>3. longest' \in Nat /\ longest <= longest' /\ clock - Top.since <= longest'
    <3>1. \A u, l \in Nat : \A n : n = (IF clock - u > l THEN clock - u ELSE l) => n \in Nat /\ l <= n /\ clock - u <= n
      BY <1>1
    <3> QED
      BY <1>1, <2>1, <2>2, <3>1
  <2>4. CASE d # Top.domain
    <3>1. cache'[d] = cache[d]
      BY <2>1, <2>4 DEF TypeOK
    <3> QED
      BY <2>3, <3>1, CacheKept
  <2>5. CASE d = Top.domain
    <3>1. cache'[d] = [address |-> Top.answer.address, expires |-> clock + Ttl]
      BY <2>1, <2>5 DEF TypeOK
    <3> DEFINE h == Top.answer.address
    <3>2. h \in Hosts /\ LastAt(d, h) # Never /\ Top.since <= LastAt(d, h)
      BY <2>1, <2>2, <2>5 DEF TrueSince
    <3>3. LastAt(d, h) \in Nat
      BY <3>2, LastTypes
    <3>4. LastAt(d, cache[d].address)' = LastAt(d, h)
      BY <2>1, <3>1 DEF LastAt
    <3>5. clock + Ttl <= LastAt(d, h) + longest' + Ttl
      <4>1. \A c, u, a, l, t \in Nat : c - u <= l /\ u <= a => c + t <= a + l + t
        OBVIOUS
      <4> QED
        BY <1>1, <2>2, <2>3, <3>2, <3>3, <4>1
    <3> QED
      BY <3>1, <3>2, <3>4, <3>5
  <2> QED
    BY <2>4, <2>5
<1>4. AddressFound \/ (longest' = longest /\ (cache' = cache \/ Forget))
  BY DEF Next, World, Tick, Lose, Respond, Register, Unregister, ServerStarts, ServerStops, Beats, HearsHeartbeat,
    ServerServes, Thread, SendWithCache, SendWithLookup, AddressMissing, AskTimesOut, SendReturns,
    SendTimesOut, Unchanged, clientVars, vars
<1> QED
  BY <1>2, <1>3, <1>4

\* Nothing happens to the calls, and what is under way for them stays true.
LEMMA CallStill ==
  ASSUME TypeOK, PastInv, CallInv, [Next]_vars, stack' = stack,
         Rest = {} => Rest' = {},
         \A m, n \in Rest' : m = n,
         stack # <<>> /\ stack[1].step = "ask" =>
           \A m \in Rest' : m \in Rest \/ (m.kind = "response" /\ TrueSince(stack[1], m.response)')
  PROVE  CallInv'
<1>1. /\ Len(stack') <= 1
      /\ (stack' = <<>> \/ stack'[1].step = "search" \/ stack'[1].answer # None) => Rest' = {}
  BY DEF CallInv
<1>2. ASSUME stack # <<>>, stack[1].step = "ask"
      PROVE  /\ stack[1].answer # None => TrueSince(stack[1], stack[1].answer)'
             /\ \A m \in Rest' :
                  \/ m.kind = "question" /\ m.domain = stack[1].domain
                  \/ m.kind = "response" /\ TrueSince(stack[1], m.response)'
  <2>1. stack \in Seq(Calls)
    BY DEF TypeOK, DnsTypeOK
  <2>2. 1 \in DOMAIN stack
    BY <1>2, <2>1
  <2>3. PICK c \in Calls : c = stack[1]
    BY <2>1, <2>2, ElementTypes
  <2>4. ASSUME NEW r \in Responses, TrueSince(c, r) PROVE TrueSince(stack[1], r)'
    <3>1. TrueSince(c, r)'
      BY <2>4, TrueSinceStep
    <3>2. stack'[1] = c
      BY <2>3
    <3> QED
      BY <3>1, <3>2 DEF TrueSince, LastAt
  <2>5. ASSUME stack[1].answer # None PROVE TrueSince(stack[1], stack[1].answer)'
    <3>1. PICK r \in Responses : r = stack[1].answer
      BY <1>2, <2>3, <2>5, CallFields
    <3>2. TrueSince(c, r)
      BY <1>2, <2>3, <2>5, <3>1 DEF CallInv
    <3>3. TrueSince(stack[1], r)'
      BY <2>4, <3>2
    <3>4. stack'[1].answer = r
      BY <3>1
    <3> QED
      BY <3>3, <3>4 DEF TrueSince, LastAt
  <2>6. ASSUME NEW m \in Rest' , m \in Rest
        PROVE  \/ m.kind = "question" /\ m.domain = stack[1].domain
               \/ m.kind = "response" /\ TrueSince(stack[1], m.response)'
    <3>1. \/ m.kind = "question" /\ m.domain = stack[1].domain
          \/ m.kind = "response" /\ TrueSince(stack[1], m.response)
      BY <1>2, <2>6 DEF CallInv
    <3>2. ASSUME m.kind = "response", TrueSince(stack[1], m.response) PROVE TrueSince(stack[1], m.response)'
      <4>1. m \in Message
        BY <2>6 DEF Rest, TypeOK, DnsTypeOK
      <4>2. m.response \in Responses
        BY <3>2, <4>1, MessageFields
      <4> QED
        BY <2>3, <2>4, <3>2, <4>2
    <3> QED
      BY <3>1, <3>2
  <2> QED
    BY <1>2, <2>5, <2>6
<1> QED
  BY <1>1, <1>2 DEF CallInv

\* Time, loss, other computers and what they answer.
LEMMA CallWorld ==
  ASSUME TypeOK, PastInv, CallInv, [Next]_vars, World
  PROVE  CallInv'
<1>1. stack' = stack
  BY DEF World, Tick, Lose, Respond, Register, Unregister, ServerStarts, ServerStops, dnsVars
<1>2. CASE messages' \subseteq messages
  <2>1. Rest' \subseteq Rest
    BY <1>2 DEF Rest
  <2> QED
    BY <1>1, <2>1, CallStill DEF CallInv
<1>3. CASE \E m \in messages : Respond(m)
  <2>1. PICK m \in messages : Respond(m)
    BY <1>3
  <2>2. m \in Rest /\ m.kind = "request"
    BY <2>1 DEF Respond, Rest
  <2>3. \A n \in Rest' : n = Reply(Page)
    <3>1. \A n \in Rest' : n \in Rest \ {m} \/ n = Reply(Page)
      BY <2>1 DEF Respond, Rest
    <3> QED
      BY <2>2, <3>1 DEF CallInv
  <2>4. ~(stack # <<>> /\ stack[1].step = "ask")
    BY <2>2 DEF CallInv
  <2> QED
    BY <1>1, <2>2, <2>3, <2>4, CallStill
<1> QED
  BY <1>2, <1>3 DEF World, Tick, Lose, Register, Unregister, ServerStarts, ServerStops, dnsVars

\* Heartbeats, searches and lookups at the server.
LEMMA CallServer ==
  ASSUME TypeOK, PastInv, CallInv, [Next]_vars, Beats \/ HearsHeartbeat \/ ServerServes
  PROVE  CallInv'
<1>1. stack' = stack
  BY DEF Beats, HearsHeartbeat, ServerServes, Heartbeat, HearHeartbeat, GetDNSServerAddress, GetAddressWithDomain, dnsVars
<1>2. CASE \A n \in messages' : n \in messages \/ n = Beat \/ n = Where \/ n.kind = "here"
  <2>1. Rest' \subseteq Rest
    BY <1>2, MessageKinds DEF Rest
  <2> QED
    BY <1>1, <2>1, CallStill DEF CallInv
<1>3. ASSUME NEW m \in messages, m.kind = "question", GetAddressWithDomain(m, registry[m.domain]), Unchanged
      PROVE  CallInv'
  <2>1. m \in Rest /\ m.domain \in Domains /\ UNCHANGED <<clock, registry, until>>
    <3>1. m \in Message
      BY DEF TypeOK, DnsTypeOK
    <3> QED
      BY <1>3, <3>1, MessageFields DEF Rest, Unchanged, registryVars
  <2>2. PICK r \in Responses : /\ messages' = (messages \ {m}) \cup {Reply(r)}
                               /\ r.found => r.address \in Hosts /\ registry[m.domain] = r.address
    <3>1. registry[m.domain] \in Hosts \cup {None}
      BY <2>1 DEF TypeOK
    <3>2. CASE registry[m.domain] = None
      BY <1>3, <3>2, MessageTypes DEF GetAddressWithDomain
    <3>3. CASE registry[m.domain] # None
      <4>1. PICK h \in Hosts : h = registry[m.domain]
        BY <3>1, <3>3
      <4>2. messages' = (messages \ {m}) \cup {Reply(Found(h))}
        BY <1>3, <3>3, <4>1 DEF GetAddressWithDomain
      <4> QED
        BY <4>1, <4>2, MessageTypes
    <3> QED
      BY <3>2, <3>3
  <2>3. Reply(r).kind = "response" /\ Reply(r).response = r
    BY MessageKinds
  <2>4. \A n \in Rest' : n = Reply(r)
    <3>1. \A n \in Rest' : n \in Rest \ {m} \/ n = Reply(r)
      BY <2>2 DEF Rest
    <3> QED
      BY <2>1, <3>1 DEF CallInv
  <2>5. ASSUME stack # <<>>, stack[1].step = "ask" PROVE TrueSince(stack[1], r)'
    <3>1. stack[1].since <= clock /\ clock # Never
      <4>1. 1 \in DOMAIN stack
        BY <2>5 DEF TypeOK, DnsTypeOK
      <4> QED
        BY <4>1, NeverAssumption DEF PastInv, TypeOK
    <3>2. m.domain = stack[1].domain
      BY <1>3, <2>1, <2>5 DEF CallInv
    <3> QED
      BY <1>1, <2>1, <2>2, <3>1, <3>2 DEF TrueSince, LastAt
  <2>6. ASSUME stack # <<>>, stack[1].step = "ask", NEW n \in Rest'
        PROVE  n.kind = "response" /\ TrueSince(stack[1], n.response)'
    <3>1. n = Reply(r)
      BY <2>4
    <3>2. n.kind = "response" /\ n.response = r
      BY <2>3, <3>1
    <3> QED
      BY <2>5, <2>6, <3>2
  <2> QED
    BY <1>1, <2>1, <2>4, <2>6, CallStill
<1>4. CASE Beats \/ HearsHeartbeat \/ GetDNSServerAddress
  <2>1. \A p : Here(p).kind = "here"
    BY MessageKinds
  <2>2. \A n \in messages' : n \in messages \/ n = Beat \/ n = Where \/ n.kind = "here"
    BY <1>4, <2>1 DEF Beats, HearsHeartbeat, Heartbeat, HearHeartbeat, GetDNSServerAddress, SendMessage
  <2> QED
    BY <1>2, <2>2
<1> QED
  BY <1>3, <1>4 DEF ServerServes

\* An answer is given to the one call there is.
LEMMA CallHears ==
  ASSUME TypeOK, PastInv, CallInv, [Next]_vars, NEW m \in messages, Hear(m), Unchanged
  PROVE  CallInv'
<1>1. /\ stack \in Seq(Calls) /\ stack # <<>> /\ Len(stack) = 1 /\ 1 \in DOMAIN stack
      /\ Top = stack[1] /\ Top \in Calls /\ Top.answer = None
  <2>1. stack \in Seq(Calls) /\ stack # <<>> /\ Len(stack) <= 1 /\ Top.answer = None
    BY DEF TypeOK, DnsTypeOK, CallInv, Hear
  <2>2. Len(stack) = 1 /\ 1 \in DOMAIN stack
    <3>1. Len(stack) \in Nat \ {0} /\ DOMAIN stack = 1 .. Len(stack)
      BY <2>1
    <3> QED
      BY <2>1, <3>1
  <2>3. Top = stack[Len(stack)] /\ Top \in Calls
    BY <2>1, StackTypes DEF Top
  <2> QED
    BY <2>1, <2>2, <2>3
<1>2. /\ messages' = messages \ {m}
      /\ UNCHANGED <<clock, registry, until>>
  BY DEF Hear, Unchanged, registryVars
<1>3. Rest' \subseteq Rest
  BY <1>2 DEF Rest
<1>4. m \in Message
  BY DEF TypeOK, DnsTypeOK
<1>5. CASE m.kind = "here" /\ Give("search", m.place)
  <2>1. m.place \in Places
    BY <1>4, <1>5, MessageFields
  <2>2. /\ stack' \in Seq(Calls) /\ Len(stack') = Len(stack) /\ DOMAIN stack' = DOMAIN stack
        /\ \/ stack'[1] = stack[1]
           \/ stack[1].step = "search" /\ stack'[1] = [stack[1] EXCEPT !.answer = m.place]
    BY <1>1, <1>5, <2>1, GiveTypes
  <2>3. CASE stack'[1] = stack[1]
    <3>1. stack' = stack
      BY <1>1, <2>2, <2>3
    <3> QED
      BY <1>3, <3>1, CallStill DEF CallInv
  <2>4. CASE stack[1].step = "search" /\ stack'[1] = [stack[1] EXCEPT !.answer = m.place]
    <3>1. stack'[1].step = "search"
      BY <1>1, <2>4 DEF Calls, CallsAt
    <3>2. Rest' = {}
      BY <1>3, <2>4 DEF CallInv
    <3> QED
      BY <1>1, <2>2, <3>1, <3>2 DEF CallInv
  <2> QED
    BY <2>2, <2>3, <2>4
<1>6. CASE m.kind = "response" /\ Give("ask", m.response)
  <2>1. m.response \in Responses /\ m \in Rest /\ m.response # None
    BY <1>4, <1>6, MessageFields, ResponseFields DEF Rest
  <2>2. stack[1].step # "search"
    BY <2>1 DEF CallInv
  <2>3. /\ stack' \in Seq(Calls) /\ Len(stack') = Len(stack) /\ DOMAIN stack' = DOMAIN stack
        /\ stack'[1] = [stack[1] EXCEPT !.answer = m.response]
    <3>1. stack' \in Seq(Calls) /\ Len(stack') = Len(stack) /\ DOMAIN stack' = DOMAIN stack
      <4>1. "ask" \in {"search", "ask"} /\ ("ask" = "search" => m.response \in Places)
        OBVIOUS
      <4> QED
        BY <1>1, <1>6, <2>1, <4>1, GiveTypes
    <3>2. stack'[1] = [stack[1] EXCEPT !.answer = m.response]
      BY <1>1, <1>6, <2>2 DEF Give
    <3> QED
      BY <3>1, <3>2
  <2>4. /\ stack'[1].step = stack[1].step /\ stack'[1].domain = stack[1].domain
        /\ stack'[1].since = stack[1].since /\ stack'[1].answer = m.response
    BY <1>1, <2>3 DEF Calls, CallsAt
  <2>5. Rest' = {}
    <3>1. \A n \in Rest : n = m
      BY <2>1 DEF CallInv
    <3>2. m \notin Rest'
      BY <1>2 DEF Rest
    <3> QED
      BY <1>3, <3>1, <3>2
  <2>6. ASSUME stack[1].step = "ask" PROVE TrueSince(stack[1], stack[1].answer)'
    <3>1. TrueSince(stack[1], m.response)
      BY <1>1, <1>6, <2>1, <2>6 DEF CallInv
    <3> QED
      BY <1>2, <2>4, <3>1 DEF TrueSince, LastAt
  <2> QED
    BY <1>1, <2>3, <2>4, <2>5, <2>6 DEF CallInv
<1> QED
  BY <1>5, <1>6 DEF Hear

\* One call at most, and one message at most that belongs to it.
LEMMA CallNew ==
  ASSUME NEW c, c.step # "ask" \/ (c.answer = None /\ \A m \in Rest' : m.kind = "question" /\ m.domain = c.domain),
         stack' = <<c>>, \A m, n \in Rest' : m = n, c.answer = None, c.step = "search" => Rest' = {}
  PROVE  CallInv'
<1>1. stack' # <<>> /\ Len(stack') = 1 /\ stack'[1] = c
  OBVIOUS
<1> QED
  BY <1>1 DEF CallInv

LEMMA CallNone == ASSUME stack' = <<>>, Rest' = {} PROVE CallInv'
BY DEF CallInv

\* The program sends, with the address it has or after a lookup.
LEMMA CallSends ==
  ASSUME TypeOK, CallInv, ~disturbed', NEW d \in Domains, SendWithCache(d) \/ SendWithLookup(d)
  PROVE  CallInv'
<1>1. stack = <<>> /\ Rest = {}
  <2>1. Sends
    BY DEF SendWithCache, SendWithLookup
  <2>2. stack = <<>>
    BY <2>1 DEF Sends
  <2> QED
    BY <2>2 DEF CallInv
<1>2. \A c : Append(stack, c) = <<c>>
  BY <1>1
<1>3. ASSUME NEW h, SendMessage(Request(h)), Begin(Call("send", d, h, clock)) PROVE CallInv'
  <2> DEFINE c == Call("send", d, h, clock)
  <2>1. stack' = <<Call("send", d, h, clock)>>
    BY <1>2, <1>3 DEF Begin
  <2>2. \A m \in Rest' : m = Request(h)
    BY <1>1, <1>3 DEF Rest, SendMessage
  <2>3. PICK e : e = Call("send", d, h, clock)
    OBVIOUS
  <2>4. e.step = "send" /\ e.answer = None
    BY <2>3 DEF Call
  <2> QED
    BY <2>1, <2>2, <2>3, <2>4, CallNew
<1>4. CASE SendWithCache(d)
  <2>1. PICK h : h = cache[d].address
    OBVIOUS
  <2> QED
    BY <1>3, <1>4, <2>1 DEF SendWithCache
<1>5. CASE SendWithLookup(d) /\ Search(d, clock)
  <2>1. PICK e : e = Call("search", d, None, clock)
    OBVIOUS
  <2>2. stack' = <<e>> /\ messages' = messages \cup {Where}
    BY <1>2, <1>5, <2>1 DEF Search, Begin, SendMessage
  <2>3. Rest' = {}
    BY <1>1, <2>2, MessageKinds DEF Rest
  <2>4. e.step = "search" /\ e.answer = None
    BY <2>1 DEF Call
  <2> QED
    BY <2>2, <2>3, <2>4, CallNew
<1>6. CASE SendWithLookup(d) /\ Ask(d, clock)
  <2>1. PICK e : e = Call("ask", d, None, clock)
    OBVIOUS
  <2>2. PICK q : q = Question(known, d)
    OBVIOUS
  <2>3. stack' = <<e>> /\ messages' = messages \cup {q}
    BY <1>2, <1>6, <2>1, <2>2 DEF Ask, Begin, SendMessage
  <2>4. q.kind = "question" /\ q.domain = d
    BY <2>2, MessageKinds
  <2>5. \A m \in Rest' : m = q
    BY <1>1, <2>3 DEF Rest
  <2>6. e.step = "ask" /\ e.answer = None /\ e.domain = d
    BY <2>1 DEF Call
  <2> QED
    BY <2>3, <2>4, <2>5, <2>6, CallNew
<1> QED
  BY <1>4, <1>5, <1>6 DEF SendWithLookup

\* The call goes on, or returns.
LEMMA CallThread ==
  ASSUME TypeOK, CallInv, ~disturbed', Thread
  PROVE  CallInv'
<1>1. /\ stack \in Seq(Calls) /\ stack # <<>> /\ Len(stack) = 1
      /\ Top = stack[1] /\ Top \in Calls /\ Front(stack) = <<>>
  <2>1. stack \in Seq(Calls) /\ stack # <<>> /\ Len(stack) <= 1
    BY DEF TypeOK, DnsTypeOK, CallInv, Thread, AddressFound, AddressMissing, AskTimesOut, SendReturns, SendTimesOut,
      ServerFound, ServerFoundTooLate, SearchTimesOut, Answered, Waits
  <2>2. Len(stack) = 1
    <3>1. Len(stack) \in Nat \ {0}
      BY <2>1
    <3>2. \A n \in Nat \ {0} : n <= 1 => n = 1
      OBVIOUS
    <3>3. Len(stack) <= 1
      BY <2>1
    <3> QED
      BY <3>1, <3>2, <3>3
  <2>3. Top = stack[Len(stack)] /\ Top \in Calls /\ Front(stack) \in Seq(Calls) /\ Len(Front(stack)) = Len(stack) - 1
    BY <2>1, StackTypes DEF Top
  <2>4. Front(stack) = <<>>
    BY <2>2, <2>3
  <2> QED
    BY <2>1, <2>2, <2>3, <2>4
<1>2. \A c : Append(Front(stack), c) = <<c>>
  BY <1>1
<1>3. Top.step = "search" \/ Top.answer # None => Rest = {}
  BY <1>1 DEF CallInv
<1>4. CASE AddressFound
  <2>1. Answered("ask") /\ Top.answer.found /\ Rest = {}
    BY <1>3, <1>4 DEF AddressFound, Answered
  <2>2. Top.answer.address # None
    <3>1. TrueSince(Top, Top.answer)
      BY <2>1, AskAnswered
    <3> QED
      BY <2>1, <3>1, NoneAssumption DEF TrueSince
  <2>3. PICK e, q : e = Call("send", Top.domain, Top.answer.address, clock) /\ q = Request(Top.answer.address)
    OBVIOUS
  <2>4. stack' = <<e>> /\ messages' = messages \cup {q}
    BY <1>2, <1>4, <2>2, <2>3 DEF AddressFound, GoOn, SendMessage
  <2>5. \A m \in Rest' : m = q
    BY <2>1, <2>4 DEF Rest
  <2>6. e.step = "send" /\ e.answer = None
    BY <2>3 DEF Call
  <2> QED
    BY <2>4, <2>5, <2>6, CallNew
<1>5. CASE AddressMissing \/ SendReturns \/ ServerFoundTooLate
  <2>1. stack' = <<>> /\ messages' = messages /\ Top.answer # None
    BY <1>1, <1>5 DEF AddressMissing, SendReturns, ServerFoundTooLate, Leave, Answered
  <2>2. Rest' = {}
    BY <1>3, <2>1 DEF Rest
  <2> QED
    BY <2>1, <2>2, CallNone
<1>6. CASE ServerFound(clock)
  <2>1. Rest = {}
    BY <1>3, <1>6 DEF ServerFound, Answered
  <2>2. PICK e, q : e = Call("ask", Top.domain, None, clock) /\ q = Question(Top.answer, Top.domain)
    OBVIOUS
  <2>3. stack' = <<e>> /\ messages' = messages \cup {q}
    BY <1>2, <1>6, <2>2 DEF ServerFound, GoOn, SendMessage
  <2>4. q.kind = "question" /\ q.domain = Top.domain
    BY <2>2, MessageKinds
  <2>5. \A m \in Rest' : m = q
    BY <2>1, <2>3 DEF Rest
  <2>6. e.step = "ask" /\ e.answer = None /\ e.domain = Top.domain
    BY <2>2 DEF Call
  <2> QED
    BY <2>3, <2>4, <2>5, <2>6, CallNew
<1>7. CASE SearchTimesOut
  <2>1. Top.step = "search" /\ Top.answer = None /\ messages' = messages
    BY <1>7 DEF SearchTimesOut, Waits
  <2>2. Rest' = {}
    BY <1>3, <2>1 DEF Rest
  <2>3. CASE Top.try < Tries
    <3>1. PICK e : e = [Top EXCEPT !.try = Top.try + 1]
      OBVIOUS
    <3>2. stack' = <<e>>
      BY <1>2, <1>7, <2>3, <3>1 DEF SearchTimesOut, GoOn
    <3>3. e.step = "search" /\ e.answer = None
      BY <1>1, <2>1, <3>1 DEF Calls, CallsAt
    <3> QED
      BY <2>2, <3>2, <3>3, CallNew
  <2>4. CASE ~(Top.try < Tries)
    BY <1>1, <1>7, <2>2, <2>4, CallNone DEF SearchTimesOut, Leave
  <2> QED
    BY <2>3, <2>4
<1>8. ~AskTimesOut /\ ~SendTimesOut
  BY DEF AskTimesOut, SendTimesOut
<1> QED
  BY <1>4, <1>5, <1>6, <1>7, <1>8 DEF Thread

LEMMA InvStep == Inv /\ [Next]_vars => Inv'
<1> SUFFICES ASSUME Inv, [Next]_vars PROVE Inv'
  OBVIOUS
<1>1. TypeOK /\ PastInv /\ TypeOK' /\ PastInv'
  BY TypeStep, PastStep DEF Inv
<1>2. ASSUME ~disturbed' PROVE CacheInv' /\ CallInv'
  <2>1. CacheInv /\ CallInv
    BY <1>1, <1>2, CalmBefore DEF Inv
  <2>2. CacheInv'
    BY <1>1, <2>1, CacheStep
  <2>3. CASE UNCHANGED vars
    <3>1. stack' = stack /\ Rest' \subseteq Rest
      BY <2>3 DEF vars, dnsVars, Rest
    <3> QED
      BY <1>1, <2>1, <2>2, <3>1, CallStill DEF CallInv
  <2>4. CASE Next
    BY <1>1, <1>2, <2>1, <2>2, <2>4, CallWorld, CallServer, CallThread, CallSends, CallHears DEF Next
  <2> QED
    BY <2>3, <2>4
<1> QED
  BY <1>1, <1>2 DEF Inv

-----------------------------------------------------------------------------
(* Which steps use an address. *)

\* A step that only takes calls away, or changes them, begins no request.
LEMMA NoUse ==
  ASSUME TypeOK, CallInv, NEW d, NEW h, Uses(d, h),
         \/ stack' = stack
         \/ stack # <<>> /\ stack' = Front(stack)
         \/ stack # <<>> /\ Top.answer = None /\ Len(stack') = Len(stack)
  PROVE  FALSE
<1>1. stack \in Seq(Calls) /\ Len(stack) \in Nat /\ Len(stack) <= 1 /\ stack' # <<>>
  BY DEF TypeOK, DnsTypeOK, CallInv, Uses
<1>2. stack # <<>> => Len(stack) = 1 /\ Front(stack) \in Seq(Calls) /\ Len(Front(stack)) = Len(stack) - 1
  <2>1. stack # <<>> => Len(stack) \in Nat \ {0}
    BY <1>1
  <2>2. \A n \in Nat \ {0} : n <= 1 => n = 1
    OBVIOUS
  <2> QED
    BY <1>1, <2>1, <2>2, StackTypes
<1>3. \A c : Len(Append(stack, c)) = Len(stack) + 1
  BY <1>1
<1>4. Len(stack) + 1 # Len(stack) /\ Len(stack) + 1 # Len(stack) - 1
  BY <1>1
<1>5. CASE stack' = stack
  <2>1. stack' # Append(stack, Last(stack'))
    BY <1>3, <1>4, <1>5
  <2> QED
    BY <1>5, <2>1 DEF Uses, Answered, Top
<1>6. CASE stack # <<>> /\ stack' = Front(stack)
  <2>1. stack' \in Seq(Calls)
    BY <1>2, <1>6
  <2>2. Len(stack) = 1 /\ Len(stack') = Len(stack) - 1
    BY <1>2, <1>6
  <2>3. Len(stack') = 0
    BY <2>2
  <2> QED
    BY <1>1, <2>1, <2>3
<1>7. CASE stack # <<>> /\ Top.answer = None /\ Len(stack') = Len(stack)
  BY <1>3, <1>4, <1>7 DEF Uses, Answered
<1> QED
  BY <1>5, <1>6, <1>7

LEMMA UseStep ==
  ASSUME Inv, [Next]_vars, ~disturbed', NEW d \in Domains, NEW h \in Hosts, Uses(d, h)
  PROVE  LastAt(d, h) # Never /\ clock < LastAt(d, h) + longest' + Ttl
<1>1. TypeOK /\ PastInv /\ CacheInv /\ CallInv
  BY CalmBefore DEF Inv
<1>2. stack \in Seq(Calls) /\ clock \in Nat /\ longest \in Nat /\ Ttl \in Nat \ {0}
  BY <1>1, HttpBoundsAssumption DEF TypeOK, DnsTypeOK
<1>3. ASSUME NEW c, stack' = Append(stack, c) PROVE c.step = "send" /\ c.domain = d /\ c.address = h
  <2>1. Last(stack') = c
    BY <1>2, <1>3 DEF Last
  <2> QED
    BY <2>1 DEF Uses
<1>4. CASE \E e \in Domains : SendWithCache(e)
  <2>1. PICK e \in Domains : SendWithCache(e)
    BY <1>4
  <2>2. PICK c : c = Call("send", e, cache[e].address, clock)
    OBVIOUS
  <2>3. stack' = Append(stack, c) /\ longest' = longest /\ cache[e] # None /\ cache[e].expires > clock
    BY <2>1, <2>2 DEF SendWithCache, Begin, IsFresh
  <2>4. c.domain = e /\ c.address = cache[e].address
    BY <2>2 DEF Call
  <2>5. e = d /\ cache[e].address = h
    BY <1>3, <2>3, <2>4
  <2>6. LastAt(d, h) # Never /\ cache[d].expires <= LastAt(d, h) + longest + Ttl
    BY <1>1, <2>3, <2>5 DEF CacheInv
  <2>7. LastAt(d, h) \in Nat /\ cache[d].expires \in Nat
    <3>1. cache[d] \in Entry
      BY <1>1, <2>3, <2>5 DEF TypeOK
    <3> QED
      BY <1>1, <2>6, <3>1, LastTypes DEF Entry
  <2>8. \A x, t, a, l, n \in Nat : x > t /\ x <= a + l + n => t < a + l + n
    OBVIOUS
  <2> QED
    BY <1>2, <2>3, <2>5, <2>6, <2>7, <2>8
<1>5. CASE \E e \in Domains : SendWithLookup(e)
  <2>1. PICK e \in Domains : SendWithLookup(e)
    BY <1>5
  <2>2. PICK step \in {"search", "ask"} : stack' = Append(stack, Call(step, e, None, clock))
    BY <2>1 DEF SendWithLookup, Search, Ask, Begin
  <2>3. PICK c : c = Call(step, e, None, clock)
    OBVIOUS
  <2>4. c.step = step
    BY <2>3 DEF Call
  <2> QED
    BY <1>3, <2>2, <2>3, <2>4
<1>6. CASE AddressFound
  <2>1. /\ Answered("ask") /\ Top.answer.found
        /\ longest' = IF clock - Top.since > longest THEN clock - Top.since ELSE longest
    BY <1>6 DEF AddressFound
  <2>2. /\ Top \in Calls /\ stack # <<>> /\ Top.since \in 0 .. MaxTime
        /\ TrueSince(Top, Top.answer)
    BY <1>1, <2>1, AskAnswered
  <2>3. PICK c : c = Call("send", Top.domain, Top.answer.address, clock)
    OBVIOUS
  <2>4. stack' = Append(Front(stack), c)
    <3>1. Top.answer.address # None
      BY <2>1, <2>2, NoneAssumption DEF TrueSince
    <3> QED
      BY <1>6, <2>3, <3>1 DEF AddressFound, GoOn
  <2>5. Last(stack') = c
    <3>1. Front(stack) \in Seq(Calls)
      BY <1>2, <2>2, StackTypes
    <3>2. \A s \in Seq(Calls) : Last(Append(s, c)) = c
      BY DEF Last
    <3> QED
      BY <2>4, <3>1, <3>2
  <2>6. Top.domain = d /\ Top.answer.address = h
    BY <2>3, <2>5 DEF Uses, Call
  <2>7. LastAt(d, h) # Never /\ Top.since <= LastAt(d, h)
    BY <2>1, <2>2, <2>6 DEF TrueSince
  <2>8. LastAt(d, h) \in Nat /\ longest' \in Nat /\ clock - Top.since <= longest'
    <3>1. \A u, l \in Nat : \A n : n = (IF clock - u > l THEN clock - u ELSE l) => n \in Nat /\ clock - u <= n
      BY <1>2
    <3>2. LastAt(d, h) \in Nat
      BY <1>1, <2>7, LastTypes
    <3> QED
      BY <1>2, <2>1, <2>2, <3>1, <3>2
  <2>9. \A t, u, a, l \in Nat, n \in Nat \ {0} : t - u <= l /\ u <= a => t < a + l + n
    OBVIOUS
  <2>10. Top.since \in Nat
    BY <2>2
  <2>11. clock < LastAt(d, h) + longest' + Ttl
    BY <1>2, <2>7, <2>8, <2>9, <2>10
  <2> QED
    BY <2>7, <2>11
<1>7. CASE ServerFound(clock)
  <2>1. PICK c : c = Call("ask", Top.domain, None, clock)
    OBVIOUS
  <2>2. stack # <<>> /\ Top.step = "search" /\ stack' = Append(Front(stack), c)
    BY <1>7, <2>1 DEF ServerFound, Answered, GoOn
  <2>3. ~Answered("ask")
    BY <2>2 DEF Answered
  <2>4. Len(stack') = Len(stack)
    <3>1. Front(stack) \in Seq(Calls) /\ Len(Front(stack)) = Len(stack) - 1 /\ Len(stack) \in Nat \ {0}
      BY <1>2, <2>2, StackTypes
    <3>2. \A s \in Seq(Calls) : Len(Append(s, c)) = Len(s) + 1
      OBVIOUS
    <3> QED
      BY <2>2, <3>1, <3>2
  <2>5. Len(Append(stack, Last(stack'))) # Len(stack)
    BY <1>2
  <2> QED
    BY <2>3, <2>4, <2>5 DEF Uses
<1>8. CASE SearchTimesOut
  <2>1. stack # <<>> /\ Top.answer = None
    BY <1>8 DEF SearchTimesOut, Waits
  <2>2. stack' = Front(stack) \/ \E c : stack' = Append(Front(stack), c)
    BY <1>8 DEF SearchTimesOut, Leave, GoOn
  <2>3. \A c : Len(Append(Front(stack), c)) = Len(stack)
    <3>1. Front(stack) \in Seq(Calls) /\ Len(Front(stack)) = Len(stack) - 1 /\ Len(stack) \in Nat \ {0}
      BY <1>2, <2>1, StackTypes
    <3>2. \A s \in Seq(Calls) : \A c : Len(Append(s, c)) = Len(s) + 1
      OBVIOUS
    <3> QED
      BY <3>1, <3>2
  <2> QED
    BY <1>1, <2>1, <2>2, <2>3, NoUse
<1>9. CASE AddressMissing \/ AskTimesOut \/ SendReturns \/ SendTimesOut \/ ServerFoundTooLate
  <2>1. stack # <<>> /\ stack' = Front(stack)
    BY <1>9 DEF AddressMissing, AskTimesOut, SendReturns, SendTimesOut, ServerFoundTooLate, Answered, Waits, Leave
  <2> QED
    BY <1>1, <2>1, NoUse
<1>10. CASE \E m \in messages : Hear(m)
  <2>1. stack # <<>> /\ Top.answer = None /\ \E step, a : Give(step, a)
    BY <1>10 DEF Hear
  <2>2. Len(stack') = Len(stack)
    <3>1. DOMAIN stack' = DOMAIN stack /\ stack' = [i \in DOMAIN stack |-> stack'[i]]
      BY <2>1 DEF Give
    <3>2. DOMAIN stack = 1 .. Len(stack) /\ Len(stack) \in Nat
      BY <1>2
    <3>3. stack' = [i \in 1 .. Len(stack) |-> stack'[i]]
      BY <3>1, <3>2
    <3>4. \A n \in Nat : Len([i \in 1 .. n |-> stack'[i]]) = n
      OBVIOUS
    <3> QED
      BY <3>2, <3>3, <3>4
  <2> QED
    BY <1>1, <2>1, <2>2, NoUse
<1>11. CASE World \/ Beats \/ HearsHeartbeat \/ ServerServes \/ UNCHANGED vars
  <2>1. stack' = stack
    BY <1>11 DEF World, Tick, Lose, Respond, Register, Unregister, ServerStarts, ServerStops, Beats, HearsHeartbeat,
      ServerServes, Heartbeat, HearHeartbeat, GetDNSServerAddress, GetAddressWithDomain, vars, dnsVars
  <2> QED
    BY <1>1, <2>1, NoUse
<1> QED
  BY <1>4, <1>5, <1>6, <1>7, <1>8, <1>9, <1>10, <1>11 DEF Next, Thread

(* A client whose calls never wait in vain or inside one another sends no     *)
(* request to an address the domain left more than Ttl and the duration of a  *)
(* lookup before.                                                            *)
THEOREM UsesAreRecentCorrect == Spec => UsesAreRecent
<1>1. Inv /\ [Next]_vars =>
        [\A d \in Domains, h \in Hosts :
           Uses(d, h) /\ ~disturbed' => LastAt(d, h) # Never /\ clock < LastAt(d, h) + longest' + Ttl]_vars
  BY UseStep
<1> QED
  BY <1>1, InitInv, InvStep, PTL DEF Spec, UsesAreRecent
=============================================================================

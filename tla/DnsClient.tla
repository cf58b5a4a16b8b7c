------------------------------ MODULE DnsClient ------------------------------
(***************************************************************************)
(* A computer that looks for the DNS server and asks it, and the loop of    *)
(* the server (src/DNS/Client/Client.lua, Hosting/HostExtensions.lua,       *)
(* src/DNS/Server/__main.lua).                                              *)
(*                                                                         *)
(* The client waits for a heartbeat of the server before it starts, asks    *)
(* all computers where the server is with one broadcast, and keeps what it  *)
(* hears for as long as it runs.  Every wait pumps signals, so that the     *)
(* handler of another message may begin a call of its own on top: the calls *)
(* of the computer are a stack, and an answer, which names no question, is  *)
(* given to each call that waits for its kind.                              *)
(*                                                                         *)
(* A message may be lost at any time, also because its port is not open,    *)
(* and may arrive late and in any order.  Two equal messages count as one.  *)
(* Whether the server answers is left open: RestRpc is about that.          *)
(***************************************************************************)
EXTENDS Naturals, Sequences, SequencesExt

CONSTANTS
  Domains,
  Hosts,   \* the computers that serve the domains
  Places,  \* the computers the DNS server may run on
  None,    \* nil
  Tries,   \* how often Static__GetServerAddress waits: 10 in the code
  MaxTime  \* bound: the clock of the game

ASSUME DnsBoundsAssumption == Tries \in Nat \ {0} /\ MaxTime \in Nat

VARIABLES
  server,    \* where the server runs, None while it does not
  started,   \* the client has heard a heartbeat
  known,     \* the address in m_apiClient
  stack,     \* the calls of the client that wait, the innermost last
  messages   \* under way

dnsVars == <<server, started, known, stack, messages>>

-----------------------------------------------------------------------------
(* The response to a request: an address, or a page, which has no field      *)
(* IPAddress, or a failure.                                                  *)
Found(h) == [found |-> TRUE, address |-> h]
Page == Found(None)
Missing == [found |-> FALSE, address |-> None]
Responses == [found : BOOLEAN, address : Hosts \cup {None}]
ASSUME NoneAssumption == None \notin Hosts \cup Places \cup Responses

Where == [kind |-> "where"]
Beat == [kind |-> "heartbeat"]
Here(p) == [kind |-> "here", place |-> p]
Question(p, d) == [kind |-> "question", to |-> p, domain |-> d]
Request(h) == [kind |-> "request", to |-> h]
Reply(r) == [kind |-> "response", response |-> r]

Message ==
  {Where, Beat} \cup [kind : {"here"}, place : Places]
    \cup [kind : {"question"}, to : Places, domain : Domains]
    \cup [kind : {"request"}, to : Hosts]
    \cup [kind : {"response"}, response : Responses]

\* A call for a domain: it searches for the server, has asked it, or has sent a
\* request to the address it was told; since when; and what it was answered.
Call(step, d, h, now) ==
  [step |-> step, domain |-> d, address |-> h, try |-> 1, since |-> now, answer |-> None]

CallsAt(steps, answers) ==
  [step : steps, domain : Domains, address : Hosts \cup {None},
   try : 1 .. Tries, since : 0 .. MaxTime, answer : answers \cup {None}]
Calls == CallsAt({"search"}, Places) \cup CallsAt({"ask", "send"}, Responses)

Top == Last(stack)
Waits(step) == stack # <<>> /\ Top.step = step /\ Top.answer = None
Answered(step) == stack # <<>> /\ Top.step = step /\ Top.answer # None

\* The program, or a handler the innermost wait has dispatched, runs.
ProgramRuns == started /\ (stack # <<>> => Top.answer = None)

DnsTypeOK ==
  /\ server \in Places \cup {None}
  /\ started \in BOOLEAN
  /\ known \in Places \cup {None}
  /\ stack \in Seq(Calls)
  /\ messages \subseteq Message

DnsInit ==
  /\ server = None
  /\ started = FALSE
  /\ known = None
  /\ stack = <<>>
  /\ messages = {}

SendMessage(m) == messages' = messages \cup {m}
Begin(call) == stack' = Append(stack, call)
GoOn(call) == stack' = Append(Front(stack), call)
Leave == stack' = Front(stack)

-----------------------------------------------------------------------------
(* The server. *)

\* RunCycle returns when no signal is left for the server, and the loop of Run
\* begins again; a client that has started has closed the port.
Heartbeat ==
  /\ server # None
  /\ Where \notin messages
  /\ \A m \in messages : m.kind = "question" => m.to # server
  /\ IF started THEN UNCHANGED messages ELSE SendMessage(Beat)
  /\ UNCHANGED <<server, started, known, stack>>

GetDNSServerAddress ==
  /\ server # None
  /\ Where \in messages
  /\ messages' = (messages \ {Where}) \cup {Here(server)}
  /\ UNCHANGED <<server, started, known, stack>>

\* The endpoint answers with the address the domain has now.
GetAddressWithDomain(m, h) ==
  /\ m.kind = "question" /\ m.to = server
  /\ messages' = (messages \ {m}) \cup {Reply(IF h = None THEN Missing ELSE Found(h))}
  /\ UNCHANGED <<server, started, known, stack>>

-----------------------------------------------------------------------------
(* The client. *)

HearHeartbeat ==
  /\ Beat \in messages
  /\ started' = TRUE
  /\ messages' = messages \ {Beat}
  /\ UNCHANGED <<server, known, stack>>

\* Static__GetServerAddress, up to its first wait.
Search(d, now) ==
  /\ known = None
  /\ SendMessage(Where)
  /\ Begin(Call("search", d, None, now))
  /\ UNCHANGED <<server, started, known>>

\* InternalRequest and Send of the rest client, up to the wait.
Ask(d, now) ==
  /\ known # None
  /\ SendMessage(Question(known, d))
  /\ Begin(Call("ask", d, None, now))
  /\ UNCHANGED <<server, started, known>>

\* The event of m is triggered: each call that waits for it has its answer.
Give(step, answer) ==
  stack' = [i \in DOMAIN stack |->
              IF (stack[i].step = "search") = (step = "search") /\ stack[i].answer = None
                THEN [stack[i] EXCEPT !.answer = answer] ELSE stack[i]]

Hear(m) ==
  /\ stack # <<>> /\ Top.answer = None
  /\ \/ m.kind = "here" /\ Give("search", m.place)
     \/ m.kind = "response" /\ Give("ask", m.response)
  /\ messages' = messages \ {m}
  /\ UNCHANGED <<server, started, known>>

\* An answer in time: m_apiClient is made, and asked.
ServerFound(now) ==
  /\ Answered("search") /\ Top.try < Tries
  /\ known' = Top.answer
  /\ SendMessage(Question(Top.answer, Top.domain))
  /\ GoOn(Call("ask", Top.domain, None, now))
  /\ UNCHANGED <<server, started>>

\* `if try == 10' raises, also when that wait was answered.
ServerFoundTooLate ==
  /\ Answered("search") /\ Top.try = Tries
  /\ Leave
  /\ UNCHANGED <<server, started, known, messages>>

\* A wrong loop that tries once more.
SearchOnceMore ==
  /\ Waits("search")
  /\ IF Top.try <= Tries THEN GoOn([Top EXCEPT !.try = Top.try + 1]) ELSE Leave
  /\ UNCHANGED <<server, started, known, messages>>

\* A wrong loop that does not count.
SearchForEver ==
  /\ Waits("search")
  /\ UNCHANGED dnsVars

SearchTimesOut ==
  /\ Waits("search")
  /\ IF Top.try < Tries THEN GoOn([Top EXCEPT !.try = Top.try + 1]) ELSE Leave
  /\ UNCHANGED <<server, started, known, messages>>
=============================================================================

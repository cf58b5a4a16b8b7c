----------------------------- MODULE HttpClient -----------------------------
(***************************************************************************)
(* Requests to domains (src/Net/Http/Client.lua): the address of a domain   *)
(* comes from a cache or from the DNS server, and the request goes to that  *)
(* address, whether or not the domain is still served there.                *)
(*                                                                         *)
(* The clock is computer.time(), the time of the game, which has nothing to *)
(* do with the seconds the waits count.  The registry is the AddressBook of *)
(* the server, one address per domain; other computers change it.           *)
(***************************************************************************)
EXTENDS DnsClient

CONSTANTS
  Never,       \* a domain was never at an address
  Ttl,         \* how long an address is cached: 7200 in the code
  MaxSends,    \* bound: calls of Send
  MaxDepth,    \* bound: calls inside one another
  MaxChanges   \* bound: changes of the registry, and moves of the server

ASSUME HttpBoundsAssumption == Ttl \in Nat \ {0} /\ MaxSends \in Nat /\ MaxDepth \in Nat /\ MaxChanges \in Nat
ASSUME NeverAssumption == Never \notin Nat

VARIABLES
  clock,
  registry,   \* the address of each domain
  until,      \* history: when a domain last stopped being at an address
  cache,      \* m_cache
  sends,      \* history: calls of Send
  changes,    \* history: changes of the registry, and moves of the server
  longest,    \* history: the longest time between a question and its use
  disturbed   \* history: a call ran inside another, or waited in vain

registryVars == <<registry, until>>
historyVars == <<sends, changes>>
clientVars == <<cache, longest, disturbed>>
vars == <<dnsVars, clock, registryVars, historyVars, clientVars>>

Entry == [address : Hosts \cup {None}, expires : Nat]

TypeOK ==
  /\ DnsTypeOK
  /\ clock \in 0 .. MaxTime
  /\ registry \in [Domains -> Hosts \cup {None}]
  /\ until \in [Domains -> [Hosts -> (0 .. MaxTime) \cup {Never}]]
  /\ cache \in [Domains -> Entry \cup {None}]
  /\ sends \in 0 .. MaxSends
  /\ changes \in 0 .. MaxChanges
  /\ longest \in 0 .. MaxTime
  /\ disturbed \in BOOLEAN

Init ==
  /\ DnsInit
  /\ clock = 0
  /\ registry = [d \in Domains |-> None]
  /\ until = [d \in Domains |-> [h \in Hosts |-> Never]]
  /\ cache = [d \in Domains |-> None]
  /\ sends = 0
  /\ changes = 0
  /\ longest = 0
  /\ disturbed = FALSE

-----------------------------------------------------------------------------
(* The world: time, the network, other computers and their users. *)

Tick ==
  /\ clock < MaxTime
  /\ clock' = clock + 1
  /\ UNCHANGED <<dnsVars, registryVars, historyVars, clientVars>>

Lose(m) ==
  /\ messages' = messages \ {m}
  /\ UNCHANGED <<server, started, known, stack, clock, registryVars, historyVars, clientVars>>

Changes == changes < MaxChanges /\ changes' = changes + 1

Register(d, h) ==
  /\ Changes
  /\ server # None /\ registry[d] = None
  /\ registry' = [registry EXCEPT ![d] = h]
  /\ UNCHANGED <<dnsVars, clock, until, sends, clientVars>>

Unregister(d) ==
  /\ Changes
  /\ server # None /\ registry[d] # None
  /\ registry' = [registry EXCEPT ![d] = None]
  /\ until' = [until EXCEPT ![d] = [until[d] EXCEPT ![registry[d]] = clock]]
  /\ UNCHANGED <<dnsVars, clock, sends, clientVars>>

\* The server starts, on a computer of its own or another; its files come along.
ServerStarts(p) ==
  /\ server = None
  /\ server' = p
  /\ UNCHANGED <<started, known, stack, messages, clock, registryVars, historyVars, clientVars>>

ServerStops ==
  /\ Changes
  /\ server # None
  /\ server' = None
  /\ UNCHANGED <<started, known, stack, messages, clock, registryVars, sends, clientVars>>

\* A server of a domain answers.
Respond(m) ==
  /\ m.kind = "request"
  /\ messages' = (messages \ {m}) \cup {Reply(Page)}
  /\ UNCHANGED <<server, started, known, stack, clock, registryVars, historyVars, clientVars>>

-----------------------------------------------------------------------------
(* HttpClient:Send. *)

Sends ==
  /\ ProgramRuns
  /\ sends < MaxSends /\ Len(stack) < MaxDepth
  /\ sends' = sends + 1
  /\ disturbed' = (disturbed \/ stack # <<>>)

\* A wrong GetAddress that uses an address at the time it expires.
IsFreshAtExpiry(d) == cache[d] # None /\ cache[d].expires >= clock

IsFresh(d) == cache[d] # None /\ cache[d].expires > clock

\* The cached address is used; a cached nil means 404 at once.
SendWithCache(d) ==
  /\ Sends
  /\ IsFresh(d) /\ cache[d].address # None
  /\ SendMessage(Request(cache[d].address))
  /\ Begin(Call("send", d, cache[d].address, clock))
  /\ UNCHANGED <<server, started, known, clock, registryVars, changes, cache, longest>>

SendWithLookup(d) ==
  /\ Sends
  /\ ~IsFresh(d)
  /\ Search(d, clock) \/ Ask(d, clock)
  /\ UNCHANGED <<clock, registryVars, changes, cache, longest>>

\* GetWithDomain has the address: it is cached from now on, and used.
AddressFound ==
  /\ Answered("ask") /\ Top.answer.found
  /\ cache' = [cache EXCEPT ![Top.domain] = [address |-> Top.answer.address, expires |-> clock + Ttl]]
  /\ longest' = IF clock - Top.since > longest THEN clock - Top.since ELSE longest
  /\ IF Top.answer.address = None
       THEN Leave /\ UNCHANGED messages
       ELSE /\ SendMessage(Request(Top.answer.address))
            /\ GoOn(Call("send", Top.domain, Top.answer.address, clock))
  /\ UNCHANGED <<server, started, known, clock, registryVars, historyVars, disturbed>>

\* GetWithDomain returned nil: the address that was cached is forgotten.
Forget == cache' = [cache EXCEPT ![Top.domain] = None]

AddressMissing ==
  /\ Answered("ask") /\ ~Top.answer.found
  /\ Forget
  /\ Leave
  /\ UNCHANGED <<server, started, known, messages, clock, registryVars, historyVars, longest, disturbed>>

AskTimesOut ==
  /\ Waits("ask")
  /\ Forget
  /\ Leave
  /\ disturbed' = TRUE
  /\ UNCHANGED <<server, started, known, messages, clock, registryVars, historyVars, longest>>

SendReturns ==
  /\ Answered("send")
  /\ Leave
  /\ UNCHANGED <<server, started, known, messages, clock, registryVars, historyVars, clientVars>>

SendTimesOut ==
  /\ Waits("send")
  /\ Leave
  /\ disturbed' = TRUE
  /\ UNCHANGED <<server, started, known, messages, clock, registryVars, historyVars, cache, longest>>

-----------------------------------------------------------------------------
Unchanged == UNCHANGED <<clock, registryVars, historyVars, clientVars>>

\* What the thread of the client does by itself.
Thread ==
  \/ AddressFound \/ AddressMissing \/ AskTimesOut \/ SendReturns \/ SendTimesOut
  \/ (ServerFound(clock) \/ ServerFoundTooLate \/ SearchTimesOut) /\ Unchanged

Beats == Heartbeat /\ Unchanged
HearsHeartbeat == HearHeartbeat /\ Unchanged

ServerServes ==
  \/ GetDNSServerAddress /\ Unchanged
  \/ \E m \in messages : m.kind = "question" /\ GetAddressWithDomain(m, registry[m.domain]) /\ Unchanged

World ==
  \/ Tick \/ ServerStops
  \/ \E m \in messages : Lose(m) \/ Respond(m)
  \/ \E d \in Domains, h \in Hosts : Register(d, h)
  \/ \E d \in Domains : Unregister(d)
  \/ \E p \in Places : ServerStarts(p)

Next ==
  \/ World \/ Beats \/ HearsHeartbeat \/ ServerServes \/ Thread
  \/ \E d \in Domains : SendWithCache(d) \/ SendWithLookup(d)
  \/ \E m \in messages : Hear(m) /\ Unchanged

Spec == Init /\ [][Next]_vars

(* The client goes on whenever it can, because waits time out.  Nothing is    *)
(* asked of the server, which may never run, or of the network.              *)
FairSpec == Spec /\ WF_vars(Thread)

-----------------------------------------------------------------------------
\* When the domain was last at the address.
LastAt(d, h) == IF registry[d] = h THEN clock ELSE until[d][h]

\* The step begins a request to the address of a domain.
Uses(d, h) ==
  /\ stack' # <<>>
  /\ Last(stack').step = "send" /\ Last(stack').answer = None
  /\ Last(stack').domain = d /\ Last(stack').address = h
  /\ stack' = Append(stack, Last(stack')) \/ Answered("ask")

(* A computer whose calls never wait in vain or inside one another sends no  *)
(* request to an address the domain left more than Ttl, and the duration of  *)
(* a lookup, before; and none to an address of another domain.               *)
UsesAreRecent ==
  [][\A d \in Domains, h \in Hosts :
       Uses(d, h) /\ ~disturbed' =>
         LastAt(d, h) # Never /\ clock < LastAt(d, h) + longest' + Ttl]_vars

(* Every call of Send returns, also when there is no server to find, and when *)
(* the calls of handlers run inside it: each search gives up at last.         *)
SendsReturn == (stack # <<>>) ~> (stack = <<>>)
=============================================================================

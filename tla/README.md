# TLA+ models of FiGiL

FiGiL is a library of Lua packages, and a few programs made of them, for the computers of
FicsIt-Networks (programmable computers in the game Satisfactory): an event loop, a network
client, a REST layer, a small file database, a DNS service, a service to control factories
remotely, and a loader that fetches packages over HTTP.  This directory specifies the parts
that keep state, checks them with TLC on small instances and proves, with TLAPS, what should
hold for every instance.

Paths below are those of the repository: `src/Core/Event/init.lua` and so on.  (PROJECT.json
prefixes them with the directory the repository is checked out in.)

## 1. The system

Every computer runs one Lua thread.  Two computers share nothing but network messages, which
are delivered as signals in a bounded queue and are dropped when nobody listens on their port
or the queue is full.

The hard part of the system is what looks like concurrency on that one thread.  Waiting does
not suspend the caller: `EventPullAdapter:Wait` pulls the next signal and dispatches it, and
the code that waits for an answer (`NetworkClient:WaitForEvent`) calls it in a loop.  So while
a call waits, handlers run *on top of it*; they may change everything the waiting call read
before, trigger the event that is being triggered, wait themselves, and keep the waiting call
from returning.  The other two sources of trouble are lost, late and repeated messages, which
carry no identifiers, and computers that stop between two writes to the file system.

### Inventory

| component | source | state | operations | what makes it correct |
|---|---|---|---|---|
| Core.Event, Core.Task | `src/Core/Event/init.lua`, `src/Core/Common/Task.lua` | lists of permanent and once tasks; thread, closed flag and traceback of each task | AddTask, AddTaskOnce, Remove, RemoveOnce, Trigger; Execute, Close, Traceback, LogError | once means once; no listener is skipped; a failing listener does not stop the others |
| Event pump | `src/Core/Event/EventPullAdapter.lua` | one Event per signal name | Wait, WaitForAll, Run, onEventPull | every signal reaches its listeners; waits end |
| Net.Core | `src/Net/Core/NetworkClient.lua`, `NetworkPort.lua`, `NetworkFuture.lua`, `src/Adapter/Computer/NetworkCard.lua` | ports open on the card, NetworkPort objects, an Event per event name | AddTask, AddTaskOnce, WaitForEvent, OpenPort, ClosePort, executeNetworkPort, RemoveNetworkPort | a listener's port is open; a port without listeners is closed; no message passes a waiting call by |
| Database | `src/Database/DbTable.lua`, `src/Core/FileSystem/File.lua` | a directory, `m_dataChanged` | Get, pairs, Set, Delete, ObjectChanged, Save | cache and files agree; stops lose little |
| DNS server | `src/DNS/Server` | a DbTable of addresses | Create, DeleteById, DeleteByUrl, GetWithId, GetWithDomain, heartbeat, address request | one address per domain; deleted means deleted |
| DNS client | `src/DNS/Client` | the server's address, a REST client | WaitForHeartbeat, GetServerAddress, requests | the server is found in spite of lost messages |
| Net.Rest, Net.Http | `src/Net/Rest`, `src/Net/Http` | endpoints; cache of addresses | Send, onMessageReceived, Invoke | an answer belongs to its request; every request is answered |
| Core.Watchable | `src/Core/Common/Watchable.lua` | an Event, `m_IsSetup` | AddTask..., RemoveTask..., Trigger, Check | set up exactly as long as somebody listens |
| Callback services | `src/Services/Callback` | callbacks by id and method | AddCallback, RemoveCallback, Send, Invoke | a callback is called for its own messages, until removed |
| FactoryControl server | `src/FactoryControl/Server` | controllers, features and watchers over DbTables | Create/Delete/Modify of controllers and features, Watch, Unwatch, onFeatureInvoked | unique names; the last update is stored and sent once to every watcher |
| FactoryControl client | `src/FactoryControl/Client` | features, watched features | Connect, AddFeature, WatchFeature, UnwatchFeature | a watched feature follows the server's |
| Loader | `Github-Loading/Loader.lua`, `GithubLoaderInGame.lua`, `Loader/*_PackageLoader.lua` | downloaded files, version and info files, loaded modules | CheckVersion, downloadFiles, LoadPackage, GetModule | the files of one version belong together, also after a stop |
| Loader's Event, Listener, Logger | `Github-Loading/Loader/10_Event.lua` ... | lists of functions | AddListener, AddListenerOnce, Trigger | once means once |
| Hosting | `src/Hosting` | services, ready tasks | Ready, Run, RunCycle | sets up the components above, then pumps |
| Json | `src/Core/Json` | the classes a serializer knows | AddClass, AddTypesFromStatic, Serialize, Deserialize | what is read is what was written; writing leaves the program's value alone |
| UUID, Path, Cache | `src/Core/Common`, `src/Core/FileSystem/Path.lua` | none, or a table | New, Normalize, Get | ids are unique; normal forms are stable |
| Class system, utilities | `Github-Loading/Loader/Utils` | none | | language level, taken as given |
| PowerPlant, Test | `src/PowerPlant`, `src/Test` | none | | small programs over the above |
| Lua bundler | `Tools/Lua-Bundler` | none | | sequential build tool |

How they interact: a signal enters `EventPullAdapter`, which triggers the Event of its name;
for `NetworkMessage` that is `NetworkClient:networkMessageReceived`, which looks up the
NetworkPort and triggers the Event of the message's name; there sit REST controllers, callback
services, heartbeats, or the once task of a waiting call.  REST endpoints call databases and,
in FactoryControl, send messages of their own and wait for the answers, which re-enters all of
the above.

Vendored or generated, and left aside: `Code-Server`, `Tools/Curl`, `docu`, LuaUnit,
`Packages` (the bundled copies of `src`).

## 2. The modules

### CoreEvent — one event, its tasks and the activations of Trigger

`funcs` is `m_funcs`; `onceTables` holds every table `m_onceFuncs` was ever bound to, the
current one last, because `Trigger` assigns a *new* table at its end while outer activations
still iterate the old one.  `stack` is the sequence of `Trigger` activations; a frame says in
which of the two `ipairs` loops it is, where in which table, and whether a body is running.
Each turn of a loop is two steps: `NextPermanent`/`NextOnce` (up to the first instruction of
the body) and the end of the body, `BodyReturns`, `BodyFails` or `LogErrorRaises`.  Between
them the body may do anything the program may: register, remove, trigger again.  The end of a
body includes what `Trigger` calls after `Execute`: `Close` and `LogError`.  `Close` returns
early when the task is closed already; then a failed task has no traceback, and `LogError`,
which concatenates it, raises: the action `LogErrorRaises` unwinds one activation.

Left out: `CopyTo` and `Listeners` (used to copy loggers), `Task:Resume` and `Task:State`, which
nothing calls.

### NetworkClient — ports, listeners and the pump of one computer

`open` is the card's `m_openPorts` together with the ports the card really receives on,
`ports` the keys of `m_ports`, `handlers` the permanent tasks, `once` the once tasks of waits,
`queue` the signal queue.  `stack` is the call stack: a frame is a `WaitForEvent` that loops, or
the dispatch of a message, which visits the port of the message and then the port `*`, and at
each looks up the NetworkPort, runs the permanent task and serves the once tasks.  A dispatch
starts only from the main loop or from the loop of the innermost wait (`Pumps`), and a wait
returns only when it is the innermost frame.

Decisions: one client per computer (a second `NetworkCard` for the same card ignores the cached
instance, `NetworkCard.lua:23-25`; no program in `src` has two).  `CreateEventFuture` and the
`Wait` that follows it are one step, as in `Net.Rest.Api.Client:Send`, where only a send lies
between.  The once task of a wait is not a body that can wait, so the once tasks of an event are
served in one step; errors and re-entrance inside one event are CoreEvent's subject.  No message
has the name `all`, which `NetworkPort:Execute` treats specially.  `Dispose`, `RemoveTask`,
`RemoveCallableEvent` and `CloseAll` have no caller in `src` after the start.

### DbTable, AddressDatabase, AddressBook — the DNS server's database

DbTable has the operators of a table: `files` is the directory, `dataChanged` is
`m_dataChanged`, `opened` the file that `File.Static__WriteAll` has emptied and not written yet,
`left` what the running `Save` still has to write.  A file in that state is `Torn`: decoding it
raises an error.  AddressDatabase composes them into the requests of the DNS server; each change
is followed by a `Save` of everything ever read, one file at a time, in any order.  `Crash` may
happen between any two steps and keeps only `files`.

Decisions: an address is reduced to its domain, which is what the lookups compare; ids are
fresh (`NewId`), which the UUID generator only makes likely (see the hazards); `pairs` visits
files in any order; one request is served at a time, because no endpoint of the DNS server
waits for the network.

AddressBook is the abstract specification: a partial map from ids to domains without files,
caches or saves.  `AddressDatabase!Book` is the refinement mapping: an address is in the book
with the object that was read, if one was, and with its file otherwise.  The mapping shows what
the cache means: an address that was read cannot be removed.

### RestRpc, RemoteCall — requests between computers

`calls` says from and to which computer each request was sent, `messages` what is under way,
`stack` is the call stack of each computer: the requests it waits for, and handlers whose body
runs on top of a wait.  A request is served in one step by `NoEndpoint`, `NoParameters`,
`EndpointFails` or `EndpointSucceeds`, which are the ways through `onMessageReceived`, `Invoke`
and `Execute`.  The last one sends nothing: the task that `EndpointBase:AddEndpoint` registers
drops the endpoint's response.  `Deliver` gives a response to *every* Send of the computer that
still waits, as each has a once task for the same event on the same return port.

Decisions: the network is a set, so messages arrive in any order, and `Lose` covers loss on the
way, full queues and closed ports; it also covers a response that the once task of a Send that
timed out swallows, because nothing else can be listening.  The number of a request is history,
the code's messages carry none, and nothing in an action but bookkeeping depends on it.  No
endpoint in `src` waits for the network, so serving is not interrupted; other handlers
(`HandlerStarts`, `HandlerEnds`) may run inside a Send and Send themselves.  That each waiting
Send keeps its port and its once task is `ListenersHear` of NetworkClient.  Which endpoint a URL
selects is abstracted to found or not.

`lapses` counts, for each computer, the Sends that timed out or ran inside another, and
`disturbed` are the computers that have any; `OwnAnswer` speaks of the others.  The exception is
the code's: after one timeout the next Send takes the late answer for its own, and leaves its own
answer to the one after it, for ever.  `StaleIsBounded` says what holds of all computers: besides the
message of the call it waits for, a computer has no more messages under way than it has lapses, so
one timeout cannot become several stale answers, or several late executions.  What is not said,
because the code does not promise it: that a request a program sends again after a 408 is executed
once, and that a 404 tells whether an endpoint ran.  `onMessageReceived` answers 404 when it finds no
endpoint, and the DNS endpoints return 404 from their own work (`DNS/Server/Endpoints.lua:36, 47, 58`),
which only the missing `return` keeps from being sent.

RemoteCall is the abstract specification: calls, which endpoints ran, and what each caller can be
sure of, without messages or stacks.  An endpoint runs only while its caller knows nothing, and a
caller is told once, which stands.  `RestRpc!Told` is the refinement mapping: the answer a Send got,
as long as its computer is not disturbed.  A response that is delivered to another Send, or again, is
a step RemoteCall does not have.

### Loader — the start of a computer

`published` is what the server would answer now: the version of the loader and of each package.
It may rise between any two requests (`Publish`, `PublishPackage`).  `disk`, `current`, `info`
and `data` are the files, and the only thing that survives the end of a start; the other
variables belong to the running one.  `Run` of `GithubLoaderInGame.lua` is followed phase by
phase: `bootstrap` fetches or keeps `Loader.lua`, `fetch` goes through `LoaderFiles`, `check` is
`CheckVersion`, which restarts with `force` when it finds another version, `load` and `data` are
`DownloadPackage` and `Package:Download` of one package after the other, `run` is the program.
`Stop` is the end of a start for whatever reason; the second disjunct of each action that writes,
`StopInCheckVersion` and `StopInLoadPackage` are its end between opening a file and writing it.

Decisions: a file is the version it belongs to, and a publication replaces all files of the
loader, or of a package, at once and never by an older one.  Of the order of `LoaderFiles` it is
kept that `Version.latest.txt` comes last; `Kept` stands for the files that `MustFetch` keeps
when they exist.  A file cut off is `Empty`: it exists, loads without an error and returns nil,
so who needs it fails.  So is a `Loader.lua` that holds an error page, which is written without
a look at its code.  Any other download that fails, a missing module, a panic and an error of
the program are `Stop`.  `loaderForceDownload` and `programForceDownload` start as false; a
computer whose user sets them downloads everything, which `force` covers for the loader.  An
option is chosen and names its packages; they are loaded in any order, and one that several
require is asked for more than once (`LoadedPackage`).

`since` and `interrupted` are history.  `interrupted` holds the loader from a stop in the pass
that was to fetch a new version until a later pass fetches everything, and a package from a stop
between its two files until its data is fetched again.  `LoadedIsCurrent` and `DataNotOlder`
except these, because there the code gives no such guarantee: `CheckVersion` has written the new
version by then, and Info is new, so the next start finds nothing to do.  `since` is what was published
when the running start began.  `UpToDate` compares with it what the start ends up with, every file of
the loader and the data of every package: most of them are kept from earlier starts, and only the
version file and the index tell that they may be.  It has the same exceptions.

### DnsClient, HttpClient — finding the DNS server, and what a cached address is worth

DnsClient has the actions of a computer that looks for the DNS server and of the server's loop;
HttpClient extends it with `HttpClient:Send`, its cache and the world around: game time, other
computers that register and unregister domains, a server that stops and starts elsewhere, and a
network that loses.  `stack` holds the calls of the client that wait, each in one of three steps:
`search` (`Static__GetServerAddress`, with its number of the try), `ask` (the lookup at the DNS
server) and `send` (the request itself).  `started` is the end of the ready task that waits, with no
timeout, for a heartbeat; `known` the address in `m_apiClient`, which nothing resets.  `until`
remembers when a domain was last at an address, `since` in a call when the lookup began.

Decisions: `clock` is `computer.time()`, game time, which stands in no relation to the seconds of a
timeout, so a wait may time out at any clock.  `Heartbeat` is possible when nothing is queued for
the server, because `RunCycle` returns only then; the requests of other clients, which may hold it back
for as long as they keep coming, are not modelled, and nothing is claimed of when a client starts.  Whether the server answers is left open here:
the finding of RestRpc (a successful answer is dropped) makes the answered lookups a possibility
the code was written for, and the behaviours here include those without any.  Two equal messages
count as one; a call is given every answer of its kind, as answers carry no number.  A request
whose URL names an address instead of a domain uses no state of the client and is left out.

`disturbed` says that a call ran inside another or waited in vain.  Then a late or foreign answer
may be cached under the wrong domain for the whole `Ttl`, and `UsesAreRecent` excepts it.

### Watchable — set up while somebody listens

`funcs` and `onceFuncs` are the numbers of listeners, `isSetup` is `m_IsSetup`, and `stack` holds
the callbacks and triggers under way.  `Check` reads the count and the flag when an operation ends
and starts a callback; the flag changes when the callback returns (`SetupReturns`, `CloseReturns`),
and not at all when it raises.  While a callback runs every operation may be called again on top of
it, because callbacks may wait for the network.  The four `some...`/`none...` variables remember
that this happened: they name the exceptions in the properties, each of which is necessary.

Decisions: both callbacks are given.  Which listeners a trigger executes, and errors that leave an
inner trigger, are CoreEvent's subject.  The only users of the class in `src` are the features
of FactoryControl, so the callbacks are arbitrary.

### JsonSerializer — how values are written and read

A value is a tree: a function from positions (`<<>>` for the value itself, `Append(p, i)` for the
i-th entry of the table at `p`) to what is there, an atom, a list, an instance or a coded instance
(`__Type`, `__Data`).  The code calls itself on the entries of a table; the operators say what becomes
of every position at once, from the table it is in and its own contents: `Encode` is `serializeClass`
of the instances at a set of positions, `deserializeInternal` its inverse.  There is no recursion in
the module, so it can be proved about.  The entries of an instance are what its `Serialize`
returns; `Placed` puts `"%nil%"` in place of nil, and `Arguments` is what `table.unpack` finds when
`deserializeClass` has put nil back.  That is `#` of a table with holes, for which Lua only promises
an index before a nil; `Lengths` has all of them, unless the array is full, where every version of
Lua finds its end first.  `After` is what is left of the program's own value, because plain tables
are changed in place: the instances somewhere below a plain table (`InPlace`) are coded.

Left out: the text itself (escapes, numbers beyond 14 digits), lists with nil, cyclic values and
tables with other keys than strings or 1, 2, ..., which raise; a value reached by two ways is two
values.  A class that is not known raises; `Deserialize` then has no step.

## 3. The runs

| run | instance | shows |
|---|---|---|
| `core_event` | 2 permanent and 2 once tasks, nesting 2, 3 triggers, logger, removal anywhere (1.26 million states) | `NoRepeat`, `OnceBound`, `OnceIsOnce`, `ActivationsAreComplete`, `ErrorsStayInside` |
| `core_event_traceback` | one task of each kind | violated: `Task:Traceback` does not always return a string |
| `network_client` | one numbered port and `*`, two event names, a task on each port, two waits on any port, 3 signals, queue of 2, call stack of 6 (127,571 states) | `ListenersHear`, `PortsHaveListeners`, `NoMissedMessage`, `WaitsReturn` |
| `network_client_any` | a task for the event name `*` | violated: such a task is never executed |
| `address_database` | 4 ids, 3 domains, 2 stops (7,499 states up to symmetry; deadlock checked) | `UniqueDomains`, `CacheMatchesFiles`, `LossIsBounded`, `ImplementsAddressBook` |
| `address_database_delete` | 3 ids, 2 domains | violated: a deleted address comes back |
| `rest_rpc` | 2 computers, each client and server, 3 requests, call stacks of 3, one other signal (120,397 states) | `OwnAnswer`, `StaleIsBounded`, `ImplementsRemoteCall`, `SendsReturn` |
| `rest_rpc_answers` | 2 computers, 2 requests | violated: a request whose endpoint succeeds gets no response |
| `loader` | one kept file, one package asked for twice, 3 versions of each, any number of starts (1.03 million states; deadlock checked) | `LoadedIsCurrent`, `UpToDate`, `DataNotOlder`, `StartsEnd` |
| `http_client` | 2 domains, 1 host, 1 place for the server, 2 tries, 2 Sends inside one another, 2 changes of registry or server, clock to 2, addresses cached for 1 (179,622 states) | `UsesAreRecent`, `SendsReturn` |
| `watchable` | 2 listeners of each kind, calls four deep (24,560 states; deadlock checked) | `ListenersAreHeard`, `NobodyIsServed`, `Alternate` |
| `json_serializer` | classes of up to 6 fields, lists and instances up to four deep (607 values, 6,424 states) | `RoundTrip`, `ChangedInPlace`, `WireIsStable` |

Why the bounds are enough: re-entrance needs two activations of one event and a third trigger
to see what the first two left behind; two tasks of each kind tell order, skipping and repetition
apart.  On the network, two nested waits, a handler below or above them and three messages give
every order in which a port can lose its last listener while another appears; `*` and one number
are the two kinds of port, and ports of different numbers do not influence each other.  Four ids
and three domains let a domain be created, lost, created again and saved over while others are
being saved; two stops let a stop hit the Save that follows a stop.  Two computers wait for one
another already; a third request is what a late answer of the first can be given to while the
second is nested, and one handler is what lets a Send run inside a Send.
Three versions let the server publish a second one while the first update is under way, and again
while the restart fetches it; kept files do not influence each other, nor do packages, and
`Loader.lua`, the options and the version file are there besides.
Two domains tell an answer for one from an answer for the other; two Sends are one that caches and
one that uses, or one inside the other; a clock to 2 with a life of 1 has a time before, at and after
expiry; two changes move a domain away, or the server away and back.  Four calls of a watchable inside one
another are a callback, a trigger on top of it whose body calls again, and the callback of that call.  Six fields
include every way in which an array can be full, nearly full or half full; nesting four deep has every
kind of value inside every other.

Deadlock is not checked where the system may stop: a program that has been given no more signals
(the bounds on triggers, messages and requests) waits for ever.

**Fairness** (`NetworkClient!FairSpec`, for `WaitsReturn`): weak fairness of the thread's own
steps taken together.  There is one Lua thread; it goes on as long as it can, it pulls what is
queued, the bodies of tasks end, and `event.pull` with a timeout returns when the queue stays
empty.  No fairness is assumed of the network or of the program that registers and waits.  The
bound on messages makes the network go quiet; with steady traffic `WaitsReturn` is false, because
each signal starts the timeout anew, and the hazards list says so.  `RestRpc!FairSpec`, for
`SendsReturn`, is the same for every computer: its thread goes on while it can deliver, serve,
return or time out.  Nothing makes the network deliver; the bound on requests makes it go quiet.
`Loader!FairSpec`, for `StartsEnd`: a start takes its next step or ends, because requests are
answered or fail and files are written or not.  No computer is made to start, and no server to
publish; the bound on versions is what limits the restarts of one start, each of which needs a
newer version.
`HttpClient!FairSpec`, for `SendsReturn`: the client's thread goes on when it can, because its waits
time out.  Nothing is assumed of the server, which may never run, of the network, or of who sends.

## 4. The proofs

`CoreEvent_proofs`, `NetworkClient_proofs`, `AddressDatabase_proofs`, `RestRpc_proofs`,
`Loader_proofs`, `HttpClient_proofs`, `Watchable_proofs` and `JsonSerializer_proofs` prove, for all
values of the constants that satisfy the modules' assumptions:

* **CoreEvent**: `TypeCorrect`; `NoRepeatCorrect`, through the invariant `OnceInv` (the tables
  hold no task twice, hold only registered tasks, and what a once loop has served lies behind its
  position in its own table), because `NoRepeat` alone says nothing of where the next
  registration may put a task; `ErrorsStayInsideCorrect`, through `FlatInv` (without
  re-entrance there is at most one activation and the task it runs is open, so `Close` makes
  the traceback).  `ActivationsAreCompleteCorrect`, through `DueInv`: a permanent task an activation
  found when it began and has not executed lies ahead of it in `m_funcs`, as long as nobody takes
  tasks out.  `OnceIsOnceCorrect`, through `CountInv`: the once tasks up to the position of the one
  loop have run once, those behind it and those of a table nobody iterates have not.
  `OnceBoundCorrect`, through `ShareInv`: while a table is current, each run of one of its tasks was
  by an activation that is still on the stack or that an error cut short, because one that ends
  replaces the table; once it is replaced, only the activations that are already in it (`Ahead`) can
  run its tasks, once each, and they are not those that have (`Served`).
* **NetworkClient**: `TypeOK /\ ListenersHear /\ PortsHaveListeners /\ NoMissedMessage` is
  inductive, and the four are corollaries.  They need each other: a message passes a wait by
  unless its once task is registered where `ListenersHear` says.
* **AddressDatabase**: `TypeOK /\ FilesInBook /\ BookUnique /\ CacheInv /\ PhaseInv` is inductive.
  `UniqueDomains` alone is not: a Save may bring back an object whose domain was given away,
  unless no domain of a *read* object is ever given away, which is `BookUnique`; `CacheInv` says
  where cache and file may differ, `PhaseInv` what each phase of a request has open.  From it
  follow `UniqueDomainsCorrect`, `CacheMatchesFilesCorrect` and `Implementation`
  (`Spec => ImplementsAddressBook`), which maps every step to a step of the AddressBook or to a
  stutter.  `LossIsBoundedCorrect` needs `LossInv` besides: the file a creation is saving is open or
  already whole, so that the only file a stop can tear is the opened one.
* **RestRpc**: `TypeOK /\ NetInv /\ AnswerInv /\ StackInv /\ CalmInv` is inductive.  `OwnAnswer`
  alone is not, because it says nothing of messages under way: `NetInv` and `AnswerInv` say that a
  request has at most one message in the world, and none once its answer was given to somebody;
  `StackInv` that a computer waits for its own requests, and that handlers run on top of a Send;
  `CalmInv` that an undisturbed computer waits in its outermost Send only and has the answers to all
  other requests, so that a response can only be the one it waits for.  `OwnAnswerCorrect` follows, for
  any number of computers.  `StaleIsBoundedCorrect` follows by counting, one lemma for each kind of
  step: a Send adds a message and is waited for or is a lapse, a delivery takes one away and ends at
  most one wait that counts, and a timeout of the outermost Send turns the wait into a lapse.
  `Implementation` (`Spec => ImplementsRemoteCall`): a request with a message under way was not
  answered to an undisturbed caller (`OpenFacts`), so serving it is `Execute` and delivering its
  response is `Tell`; a timeout or a nested Send is what makes a caller unsure; every other step
  leaves the RemoteCall alone.
* **Loader**: `TypeOK /\ LoaderInv /\ PackageInv` is inductive.  `LoadedIsCurrent` speaks of the end
  of a start only.  `KeptInv` carries it from one start to the next: the files that the next start
  will keep are of the current version, or the server has a newer one.  `PassInv` carries it through
  a pass: what is fetched before the version file is at least as new as the current version; if
  the version file, fetched last, still says the current version, nothing newer can have been
  fetched before, since the server's version never falls.  `LatestInv` says that the version the start
  settled on is not older than what was published when it began, which with `LoadedIsCurrent` gives
  `UpToDateCorrect` for the loader's files, and with `PackageInv` for the data of the packages.
  `PackageInv` relates the two files of a package: older data is missing, unreadable, about to be
  fetched by force, or remembered as interrupted.
* **HttpClient**: `TypeOK /\ PastInv /\ (~disturbed => CacheInv /\ CallInv)` is inductive.
  `UsesAreRecent` is about one step; what makes it true is known earlier.  `PastInv` says that
  nothing remembered lies in the future, `CallInv` that an undisturbed client has one call at most
  and at most one message of its own under way, whose content was true at some time since the call
  began, and `CacheInv` how far an entry's expiry lies behind the time its address was last right.
  `LastSteps` carries both forward: when a domain was last at an address never moves back.
  `UsesAreRecentCorrect` follows for any domains, hosts, tries, life of entries and loss.
* **Watchable**: `TypeOK /\ FlagInv /\ CallbackInv /\ OnceInv` is inductive.  `ListenersAreHeard` and
  `NobodyIsServed` speak of an empty stack only; `FlagInv` says of every stack which callback under
  way, or which exception, accounts for a flag that does not fit the count.  `CallbackInv` says that a
  callback whose reason is gone was called into; `OnceInv` that two callbacks of a kind, or one the
  flag does not wait for, are under way only then, from which `AlternateCorrect` follows.

* **JsonSerializer**: everything is a function of the value before the first `Serialize` (`Inv`), so
  the proofs are about operators.  `EncodeFacts`, `EncodeKinds` and `EncodeTree` say what `Encode`
  makes of each position, for values of any depth and width.  `EncodeTwice`: coding some of the
  instances and then the others is coding all of them at once, which with `AfterFacts` makes
  `WireIsStableCorrect`.  `FirstInPlace`: among the instances below a plain table one is directly in
  a plain table - the shortest position, by `LeastNumber`, where the library's well-foundedness of
  finite sets stands in for induction over numbers - which makes `ChangedInPlaceCorrect`.
  `DecodeEncoded`: of a safe value every array that holds nil is full, so `table.unpack` finds all of
  it, and `RoundTripCorrect` follows.

Every invariant and action property that a passing run checks is thus a theorem.  Only model-checked:
`WaitsReturn`, `SendsReturn` (of RestRpc and of HttpClient) and `StartsEnd`, because
liveness under fairness is out of the prover's reach, and the four violations.

## 5. Findings

* `Task:Traceback` is said to return a string (`Task.lua:117`) and returns nil for a task that
  was executed again inside its own body and fails afterwards; `LogError` then raises and the
  listeners after it are not executed.
* `NetworkClient:AddTask` registers under `"*"` when it is given no event name; `NetworkPort:Execute`
  looks for `all`.  Such a task never runs.
* `DbTable:Delete` leaves the object in `m_dataChanged`, and the next Save writes it back;
  `AddressDatabase:DeleteByUrl`, which reads what it deletes, never deletes anything.
* `EndpointBase:AddEndpoint` wraps every endpoint in a function without `return`; `Endpoint:Invoke`,
  said to return a response (`Endpoint.lua:97`), raises on the missing one, and a request whose
  endpoint did its work is never answered, also where the answer would be the endpoint's own 404.

## 6. Not modelled, and why

* **FactoryControl and Callback services.**  At this commit no program that needs them gets past
  loading: `FactoryControl/Core/__events.lua` registers `ControllerDto` with the serializer, the class
  is declared abstract (`ControllerDto.lua:29`), `JsonSerializer:AddClass` raises for abstract classes
  (`JsonSerializer.lua:53`), and the package loader does not catch errors of `OnLoaded`.  A model would
  describe behaviour the program does not have.  The programs of PowerPlant need the same package.
* **UUID, Path, Cache**: pure functions over strings and a table of weak references.  That ids are
  fresh is an assumption (`NewId`); the generator is seeded with whole seconds, see the hazards.
* **Loader's Event and Logger, Hosting**: lists of functions called in order, and the set-up of the
  components above.
* **Class system, Lua bundler, test programs, vendored tools** (`Code-Server` and `Tools/Curl` are
  other projects' web server and client, with their C headers): language level, build time, or not
  this program.
* In the modelled parts: the payload of messages, logging and user interface components, on which no
  property depends; and what each module's section above names.

## 7. Plan

Every invariant and action property has its theorem.  What is left:

1. An abstract installation (a start is one step that runs one published version, or fails), with the
   Loader shown to implement it as long as no update is cut off.
2. FactoryControl, when it loads again: controllers over `DbTable`, watchers and callbacks.

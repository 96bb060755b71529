# Specifications of based

TLA+ models of *based* (`packages/client`, `packages/server`, the commands of
`packages/cli`), their model-checking runs and machine-checked proofs. Paths
below are relative to `src/packages/`.

A program observes a function by name. Its callers share one entry, one cached
value and one queue per subscription id; the queue goes out over a websocket
that may break. The server keeps one instance of the function per id, shared by
all connections, and sends full values or diffs. Nobody tests the orders in
which closes, answers, updates, reconnects and awaited lookups may interleave:
that is what the models are for.

## The system

| Part | State | Operations | What makes it correct |
|---|---|---|---|
| Client subscriptions (`client/src/subscriptions`, `queue.ts`, `Client.ts`) | `subscriptions[id]` with `cnt` and `subscribers`, `cache[id]`, `subscriptionQueue`, `connected`, `drainInProgress` | `observe`, `get`, close, incoming data, diff and error, `drainQueue`, `onOpen`, `onClose` | count and ids fit the subscribers; all observers hold the cached value; the server is asked for what is needed, also after a reconnect |
| Shared observables (`server/.../functions/observable`) | `server.subscriptions`, `client.subscriptions`, per instance `clients`, `clientsCnt`, `dataListeners`, `checksum`, `lastDiff`, `removeTimer` | `subscribeObservable`, `getObservable`, `subscribeFunction`, `unsubscribe`, `sendData`, `update`, `destroyIfEmpty`, `Client.destroy` | an instance lives exactly as long as it is used; every entry holds the version the next diff starts from; the registry names live instances |
| Websocket session (`client/src/websocket`, `server/.../messageParser.ts`, `closeListener.ts`) | sockets, frames on their way | connect, reconnect, close on either side, a frame of messages | the observer ends with the last version |
| Connecting (`client/src/websocket`) | `connection.ws`, timers, `activityListeners` | `connect`, retries, hide and show, `disconnect` | somebody always is there who connects again |
| Per-user observables (`.../observable/Observable.ts`) | a `UserEmitter` per client with type and close function, `clientsCnt`, timer | the same requests, one function run per client, `restart` | counted exactly; every run is closed once |
| Observable configuration (`handlers/configuration/observable`) | as a shared observable, an interval, `fnCleanup` | the same requests | as many subscriptions to the functions as starts and renewals made; a get that was noted is answered; diffs start from what clients hold |
| Database subscriptions (`handlers/subscription`) | `clients`, `clientsCnt`, `removeTimer`, `retryTimer`, `errorState` | subscribe, unsubscribe, retry, data and error of the database client | kept while used, removed when unused, clients hold the last version |
| Backpressure (`server/src/Client.ts`) | `backpressureQueue`, `totalBp`, `closed` | `send`, `drain`, `destroy` | delivery in order, the total counts what is queued, what waits goes out |
| Tokens of the client (`client/src/auth.ts`, `token.ts`) | `token`, `auth`, `beingAuth`, storage | `auth`, `login`, `logout`, renewal, Token replies | client and server have the same token; who waits is answered, unless the server never replies |
| Tokens of the server (`handlers/token.ts`, `Client.token`) | `_token`, `_unpackedToken`, `authorizeInProgress` | set, decode, authorize again, renew | the decoded form is that of the token, but for a decode that the token overtook |
| Requests (`client/src/request.ts`, `handleRequests.ts`, `authorize.ts`, the handlers) | `requestCallbacks`, `queue`, batches | request, authorization, answer, retry after `renewToken` | each is in one place, answered at most once and in the end; only granted ones are handled |
| Function cache and secrets (`server/src/getFromConfig.ts`, `index.ts`, `secrets.ts`) | `config.functions` with `cnt`, `secretTimeouts` | `getFunction`, `getSecret`, the idle loops | idle ones are cleared, used ones are not |
| Functions calling functions (`BasedServerClient.ts`) | listeners, promises, close functions | `get`, `observe`, `observeUntil`, `call` | a listener can be detached by somebody |
| Tracking (`client/src/track.ts`, `handlers/track`) | what is tracked, counters | track, untrack, events, reconnect, deletion | the server counts what clients track |
| HTTP (`handlers/rest`), forms and files (`handlers/rest/file`, `client/src/file`) | a response, its body, streams, progress | read, refuse, answer, abort; lines of a form; chunks of a file | a response is ended once; streams end; progress is true |
| Copy (`handlers/copy`) | the tree read, the objects to set | one traversal, the writes | the copy has the shape of the tree |
| cli | a process and its options | the commands | nothing is removed unconfirmed, but for the commands that remove at once; code 0 means success |
| Emitter, observable object, `get-service`, react and vue bindings | small | | |
| graphql, ids, data-record, templates, uws | none, or I/O | | |

Components meet in messages (client and server), in callbacks (subscribers,
`dataListeners`, a function's `update`) and in shared tables
(`server.subscriptions`, `client.subscriptions`). Everything runs on event
loops: a handler is atomic up to its next `await`, a timer or a message may
come at each one. Nothing is persisted. The hard behaviours are state read
before an await and used after it, messages that cross each other, connections
lost with requests on their way, timers that race new users of what they
remove, and long legal call sequences that wear out the counters. The
`hazards` of `PROJECT.json` list them line by line with the properties that
would catch them.

## Modules

| Module | Models | Lines |
|---|---|---|
| `Messages` | the messages about one subscription id, shared by the others | `types/src/index.ts` |
| `SharedObservable` | the server side of one id, any number of connections and server-side callers | `SharedObservable.ts`, `observable/index.ts` |
| `SharedObservableProofs` | its inductive invariant and theorems | |
| `ClientSubscriptions` | the client side of one id, with a server that may answer anything | `client/src/subscriptions/*`, `queue.ts`, `Client.ts` |
| `ClientSubscriptionsProofs` | its two inductive invariants, of the entry and of the queue, and theorems | |
| `LiveQuery` | both, over connections that break: instantiates the two modules | `messageParser.ts`, `handleRequests.ts`, `websocket/index.ts`, `closeListener.ts` |
| `LiveQueryProofs` | that each component of it is the one modelled alone, what follows from that, that one observer converges and, at a server that does not authorize, that all who come and go are served | |
| `Connection` | the websockets of one client | `websocket/index.ts`, `urlLoader.ts` |
| `UserObservable` | one per-user function, its emitters and runs | `observable/Observable.ts` |
| `ConfigObservable` | the instances of the configuration | `configuration/observable/index.ts` |
| `DbSubscription` | one database subscription | `handlers/subscription/index.ts` |
| `OrderedDelivery` | abstract: what a client may count on when it is sent to | |
| `Backpressure` | how the server writes to sockets; implements `OrderedDelivery` | `server/src/Client.ts` |
| `ServerToken` | the token of one connection and the runs of its handler | `handlers/token.ts`, `Client.ts` |
| `ClientAuth` | the token of a client, its waiting callers, the replies | `auth.ts`, `token.ts`, `index.ts` |
| `Requests` | requests, their batches, authorization, handlers, answers | `request.ts`, `handleRequests.ts`, `authorize.ts`, handlers |
| `ServerCaller` | what a function of the server does with others | `BasedServerClient.ts` |
| `FunctionCache` | functions and secrets, and the loops that forget them | `getFromConfig.ts`, `index.ts`, `secrets.ts` |
| `Tracking` | a client that tracks over one connection after another, frames that are refused or overtaken, the counters of the server | `track.ts`, `handlers/track` |
| `CopyTree` | the traversal of a copy | `handlers/copy` |
| `RestRequest`, `FormUpload`, `Upload` | HTTP requests, forms, files | `handlers/rest`, `client/src/file` |
| `Cli` | the commands | `cli/src` |
| `RequestsProofs` | the inductive invariant of `Requests` and its theorems | |
| `ServerClientsProofs` | the same for `Backpressure`, `DbSubscription` and `UserObservable` | |
| `ServerProofs` | the same for `ServerToken`, `RestRequest`, `ServerCaller`, `FormUpload`, `Upload`, `ConfigObservable`, `FunctionCache` | |
| `ClientProofs` | the same for `Connection`, `ClientAuth`, `Tracking`, `Cli` | |
| `RecursionFacts` | induction over the naturals and over what a recursion computes, stated of sets and functions | |
| `Parts` | the sixteen modules from `Connection` on, side by side, their properties and what is assumed of their constants | |
| other `MC...` | symmetry sets for TLC | |

### How state and steps correspond to the code

*Payloads are versions.* The server hashes each published object, clients
compare checksums only. A version stands for an object and its checksum. The
client cache keeps `value` and `checksum` apart, because they may disagree;
`None` as a value is `null`. `applyPatch` succeeds on the version a diff was
made from and fails on any other.

*SharedObservable.* `obs[i]` is one `SharedFunctionObservable`; several may be
alive for one id because a handler awaits `getFunction` before it makes one, so
`calls` holds the handlers that wait, with what they read before (`old`).
`get` is the third field of `clients[id]` (0 `"sub"`, 1 `"get"`, 2 `"both"`).
`sent` is the output of the last step; a step sends at most one message to each
receiver, and a destroyed client gets none. One step is one handler up to its
first await, or from there to its end; a `removeTimer` that is set may fire at
any time. A function may publish before its first await (`FirstPublications`)
and after it was removed (`Update` asks only that the instance was made).

*ClientSubscriptions.* `cnt = 0` stands for "no entry". `subscribers` keeps the
slots that `++cnt` names; `handle[p]` is the slot that the close function of
caller `p` would remove. A get that is answered from the cache is one step, a
get that waits ends in the step that answers it. `asked` is a history variable:
what the frames of this connection asked for. `Push` sets the drain timer when
there is a connection; `Drain` sends the whole queue as one frame.

*LiveQuery.* Every connection of the program is a new `Client` object of the
server. With `Authorizes` a frame waits for `authorize()` of its requests
(`handleRequests.ts:24-62`), each for its own time: later frames of the connection may
be handled before it, and it may be handled after the close. Without, frames are
handled in order. Either way a frame that is handled is handled message by message, and
nothing else happens at the server in between (`busy`): it loops over what was
granted without an await. That `authorize()` refuses is left out here and modelled in
`Requests`. The server may notice a lost socket before or after
the program does; a frame sent on a socket the server has closed is lost, and
so is what was on its way down when the program disconnects. What was on its
way up may still be handled.

*The other modules* name their variables after the fields of the code where one
has it, prefixed where two parts would share a name (`dbClients`, `trackQueue`).
A step is a handler up to its first await, or from there to the next; a timer
that is set may fire at any time. History variables say what the code forgets:
`doubled` (a client that was counted twice), `overrun` (a run started over
another), `outdated` (what was being decoded when the token changed),
`early` and `orphan` (subscriptions to the functions made before the start or never
ended), `requoted` (a message encoded twice), `amiss` (the last word on a key was
refused or overtaken), `unanswered` (the server will not reply to a token),
`formSent` and `cut` (the last boundary of a form was sent; a chunk ended within
it), `apart`, `unasked`, `unsaid`, `lost`. They stand in the properties where the code has an exception
of its own, which the comment of the property names: the property says what
holds but for that exception. External are the database client, the functions a
program registers, the websocket and HTTP library and the admin server: each
may answer, fail or report at any moment.

## Runs

| Run | Bounds | Shows |
|---|---|---|
| `callers` | 1 connection, 1 server-side caller, 2 versions, 2 instances, 2 lookups | `TypeOK`, `InstancesSound`, `InstancesCurrent`, `RegisteredIsLive`, `ListedHasEntry` |
| `leak` | 1 connection, 1 instance | `NothingLeftBehind` is violated |
| `program` | 3 callers, 3 slots, queue of 3, 2 versions | counts, handles, cache and queue of the client |
| `slots` | 3 callers, 1 version | `ObserverStaysSubscribed` is violated |
| `steady` | 1 caller, 2 connections, 2 instances, 2 lookups, 3 messages or frames each way, a server that authorizes | `Converged`, `ObserverSees`, `CacheIsGenuine` for a caller that does not come back while connected |
| `reopen` | 2 callers, 2 slots, 2 connections, 2 instances, 1 lookup at a time, 1 version, 1 message or frame each way, no authorization | `ObserverIsServed` for callers that come and go |
| `overtaken` | 1 caller, 1 connection, 1 instance, a server that authorizes | `ObserverIsServed` is violated |
| `stale`, `null_data`, `gets` | 1 caller, 1 connection | `Converged`, `CacheIsGenuine`, `GetsAnswered` are violated for one that does |
| `parts` | the table below | one to three properties of each of sixteen modules |
| `config_diff` | 1 client, 1 instance, 2 publications | `ConfigCacheIsGenuine` is violated |

Why the bounds are enough to be interesting: two instances and two lookups are
what it takes to replace an instance in the registry while it still serves; two
connections meet in `steady`, `reopen` and, for any number, in the theorems;
two versions give diffs that apply and diffs that do not, and a function that
returns to an old version; three callers are needed for a slot collision;
queues of three hold one request of each kind that can be queued together. The
bounds are `Instances`, `Calls` (server), `MaxSlot`, `MaxQueue` (client),
`MaxConnections`, `MaxFlight` (session): each is a guard that delays or stops a
step and never changes its effect. Where all connections may be used up or
closed for good, deadlock is not checked; in `program` it is.

"When nothing is on its way" (`Quiet`) replaces "eventually" in `LiveQuery`: a
quiet state in which an observer is stale stays stale until the function
publishes again.

### The sum of the parts

The modules of `parts` share no variable and never call one another in what they
model, so all interleavings of two of them say no more than each alone.
`Parts` starts in one of the sixteen (`part`) and lets only that one step: the
states are the sum, about 219000, not the product. Each module also runs on its
own under the same bounds.

| Part | Bounds | Properties |
|---|---|---|
| `Backpressure` | 2 clients, 4 sends each, queue of 2 (50 in the code), 4 waiting in all (5000); the second and third message are strings | `ImplementsDelivery`, `TotalCoversQueues`, `SentGoesOut` |
| `DbSubscription` | 2 clients, 3 versions, count up to 3 | `UsedIsKept`, `ListedIsCurrent`, `UnusedIsRemoved` |
| `ConfigObservable` | 1 client, 1 server listener, 2 instances, 2 publications of the first | `ConfigFunctionsCounted`, `ConfigGetAnswered` |
| `UserObservable` | 1 client with listeners of the server, 2 runs at a time | `UserCountExact`, `UserRunsEnd` |
| `ServerToken` | 2 tokens and none, 1 subscription, 2 overlapping runs | `UnpackedIsAccounted` |
| `Requests` | 2 callers, 3 ids (one repetition) | `RequestAccounted`, `OnlyGrantedHandled`, `RequestEnds` |
| `ServerCaller` | 2 operations of any kind | `ListenersOwned` |
| `FunctionCache` | 2 functions and secrets | `ClearsOnlyIdle`, `IdleIsForgotten` |
| `Tracking` | 1 key, 4 calls or connections | `ActivityAgrees` |
| `Connection` | 3 websockets | `NeverStranded` |
| `CopyTree` | every acyclic tree of 4 nodes and shared children | `ShapeKept` |
| `ClientAuth` | 2 tokens, 2 calls of `auth` and the like | `TokenInStep` |
| `RestRequest` | 2 requests, 2 chunks each | `AnsweredOnce` |
| `Upload` | 2 uploads of 2 chunks that share the url | `ProgressTrue` |
| `FormUpload` | 3 files, 10 lines in any chunks | `FilesEnd` |
| `Cli` | every command under every combination of options | `SureFirst`, `SuccessIsTrue` |

The numbers are what the cases need: a full queue and a full total while another
client is not full; two instances, so that the timer of one meets the other in
the registry; a third id for a request that is repeated; a third socket for a
connection that breaks while the page is hidden; four nodes for a diamond.

### Liveness and its fairness

Five properties say that something happens in the end. The fairness they use is
weak and only on steps that need nobody's goodwill:

* timers that are set fire: `RemoveTimeout` and `Retry` (`DbSubscription`),
  `RemoveTimeout` and the interval `Tick` (`ConfigObservable`), the drain timer
  of the client (`Requests`), the pass of the idle loop (`FunctionCache`);
* a websocket that holds bytes drains or is closed: the server sets
  `idleTimeout` on it (`server/src/index.ts:136`), so `Reads`;
* a promise the server awaits settles: authorization, handlers, `clear()`, the
  renewal of a token; frames of a connection that stays are delivered.

Nothing says that a client sends, that a connection comes back, or that a call
succeeds: `ConfigGetAnswered` is about the gets that the server noted (one that
finds a registered subscription is neither noted nor answered,
`configuration/index.ts:29-30`, and stays in `waits`), `RequestEnds` holds while the connection stays, `IdleIsForgotten` while
no `clear()` throws, `UnusedIsRemoved` if no client was counted twice. Bounded
counters (`MaxSends`, `MaxIds`) end what would otherwise go on, and the
properties are stated so that reaching the bound does not make them true.

### What the violated properties say

* `NothingLeftBehind`: a connection that closes while `subscribeObservable`
  awaits is subscribed after its `destroy()` (`observable/index.ts:165`); its
  instance is never removed. An Unsubscribe handled in the same window finds
  nothing to remove either (`observable/index.ts:148`): the entry made afterwards
  stays as long as the connection. The tests of `client/test/functions.ts` expect an
  empty `server.subscriptions`.
* `ObserverStaysSubscribed`: `get`, `observe`, an answer, `observe`: the second
  observer takes the id of the first (`addSubscriber.ts:28`), which gets no
  more data although it did not close.
* `ObserverIsServed`, at a server that authorizes: an observer closes and observes
  again; the `authorize()` of the Subscription settles before that of the Unsubscribe
  in the frame before it (`handleRequests.ts:62`), the server finds an entry, then
  removes it, and nothing more is sent.
* `Converged`: close, an update that is dropped because there is no entry,
  observe before the drain timer: the withdrawn Unsubscribe leaves the server
  with the old entry, which it only flags (`observable/index.ts:184`).
* `CacheIsGenuine`: an answer "you have it" to a checksum the cache has left
  stores `null` as the value (`incomingSubscription.ts:77`).
* `GetsAnswered`: `getObservable` answers nothing to a connection that has an
  entry (`observable/index.ts:44`). With `MayReopen` false, three
  connections and one slot it is violated as well: after a reconnect a get whose
  request was lost is repeated as a Subscription that wants no data if the
  checksum is still right (`sendAllSubscriptions.ts:89`), and a server at that
  version sends none.
* `ConfigCacheIsGenuine`: a client that subscribes again with the version before
  the last gets a diff that names that version twice; it patches its data and
  keeps the old checksum (`configuration/observable/index.ts:305`).

When two lookups of one connection overlap, a get and a subscription can also
make two instances. `client.subscriptions` then names one of them; when the get
is answered the name goes, and the observer is served by an instance it cannot
unsubscribe from. With two lookup slots `ObserverIsServed` is therefore violated
even for one caller that comes back; with one it holds for all (`reopen`, and
`ObserversAreServed` below). The cause is the one of `NothingLeftBehind`.

Each property of a passing run has a mutant, a small change of a modelled
definition of the kind a bug would make (`Mutant` in the modules), under
which TLC finds the property violated.

## Proofs

TLAPS checks the theorems for all values of the constants, from the assumptions
named in the modules: `Clients` is finite, receivers are disjoint, `None` is
nobody and no version, 0 is no caller; `MaxSlot`, `MaxConnections`, `MaxSockets`,
`MaxIds`, `Size` and the bounds of a form are natural numbers. Those of the parts are assumed in
`Parts` (`ClientsAreFinite`, `NoneIsNoVersion`, `ZeroIsNoCaller`,
`BoundsAreNumbers`), so TLC evaluates
them for the instance it explores. What is proved of a part is proved of the
`Spec` of `Parts`: one lemma per part (`TokenPart`, `DbPart`, ...) says that a step of
`Parts` is a step of the part or leaves it as it is, and the rest of the proof is
about the part alone.

Five theorems of `LiveQuery` have a hypothesis. Four assume `Steady`: `MayReopen`
is false and there is at most one caller; the server may authorize or not. It is what the run `steady` explores,
and without it `Converged` and `CacheIsGenuine` are violated (`stale`,
`null_data`); connections, slots, instances, lookups, versions and messages on
their way are any number. `ObserversAreServed` assumes `~Authorizes`,
without which frames overtake (`overtaken`), and `[]Alone`, of the behaviour: no lookup begins while another awaits, which is what `reopen` explores
with its one lookup slot. Callers that come back, connections, slots, instances
and messages are any number; without the second there is the other counterexample above.

Few of the properties are inductive. For each component the table says which
invariant is and what it adds; the proof of a step has a lemma per action, and
operators on one record (an instance, an emitter, a response, an upload) have
lemmas of their own that hold for any record, which the actions then cite.

| Theorem | States | What its invariant adds |
|---|---|---|
| `TypeCorrect`, `InstancesAreSound`, `InstancesAreCurrent`, `RegistryIsLive`, `ListsAreEntries` | the five of `SharedObservable` | an exact `clientsCnt` needs that a client is subscribed only where it has no entry; a live registry needs that only unused live instances have a timer *and* that any timer empties the registry, whoever is registered |
| `CountCovers`, `ObserversHoldTheCache`, `HandlesAreRight` | three of `ClientSubscriptions` | joining raises the count by one and occupies at most one more slot, even one that was taken; leaving lowers it by exactly the number that leave |
| `QueueIsRight`, `ServerKnows`, `TypeCorrect` | `QueueMatchesEntry`, `ServerIsAsked`, the types of the client | as long as there is an entry the server is or will be asked for it, also when its last subscriber is just gone (`EntryIsAsked`); without a connection nothing was asked |
| `ClientImplemented`, `ServerSteps` | every step of `LiveQuery` is a step of `ClientSubscriptions` or leaves the client as it is; the same for `SharedObservable` | what is on the wire (`WireOK`): frames of messages that a handler is for, answers that the client is ready for, on a connection that was made |
| `ClientHolds`, `ServerHolds` | what is proved of the two alone, in `LiveQuery` | both invariants, with `WireOK` (`LInv`) |
| `CacheStaysGenuine`, `ObserversStayServed`, `AnswersConverge`, `ObserversSeeTheData` | `CacheIsGenuine`, `ObserverIsServed`, `Converged`, `ObserverSees`, if there is one caller that does not come back while it is connected (`Steady`) | each connection carries one request, so there is nothing it could overtake, which is queued, on its way, awaited by the server, entered, or answered (`Followed`); what is on its way down, applied message by message to the cache, gives the version of the entry (`InChain`, `Latest`); together `SInv` |
| `ObserversAreServed` | `ObserverIsServed`, for any callers, as long as the server does not authorize and lookups do not overlap | one instance lives, it is the registered one, and who has an entry is listed with it (`Serving`); while the lookup of a Subscription awaits nobody else makes an instance (`Looking`); the last word of the program, that it subscribes, is on its way with no Unsubscribe in its frame or behind it (`Ordered`), or the server has it and no Unsubscribe follows (`Wanted`); together `OInv` |
| `InOrderAlways`, `DeliveryImplemented` | `NothingOvertakes`; `ImplementsDelivery`, step by step | what the socket was given and what waits are together 1, 2, ... up to `sends`; a socket that holds nothing has nothing waiting behind it. The abstract module counts a string that had to wait as given in vain (`lost`): `drain()` encodes it again (`Client.ts:301`) and the client drops it |
| `TotalCovers` | `TotalCoversQueues` | nothing; the cardinalities of the backlog before and after each step |
| `UsedStays`, `ListedStaysCurrent` | `UsedIsKept`, `ListedIsCurrent` | the version noted for a client relates to the one it holds; versions begin again at 0 only where no client is left, so each of the two needs the other |
| `UserCounts`, `RunsEndWithTheEmitter` | `UserCountExact`, `UserRunsEnd` | an emitter that is destroyed is there; the second timer of an instance needs a listener; `init()` that finds a run is what `overrun` notes |
| `UnpackedStaysAccounted` | `UnpackedIsAccounted` | nothing; it says that whatever was decoded is of the current token, or of one whose decode the change of token overtook |
| `ResponseEndsOnce` | `AnsweredOnce` | who holds the response at each stage: the body that is read, the `Client`, the stream |
| `ListenersStayOwned` | `ListenersOwned` | which await, answer or close function each kind of operation still has |
| `FormFilesEnd` | `FilesEnd`: a stream is closed exactly if the boundary behind its file was recognized | only the last file can be open, and what `isWriting`, `formSent` and `cut` say of it (`FormInv`, `Ended`). A last file whose boundary is missing or cut by the end of a chunk stays open, after the response as well (`formStream.ts:209-211`) |
| `ProgressStaysTrue` | `ProgressTrue` | what each stage of an upload has sent, received and yet to say; that the url asked for is the one waited for |
| `ConfigSubscriptionsCounted` | `ConfigFunctionsCounted` | which stages of an instance have a cleanup function, and that an instance not made yet is as new |
| `OnlyIdleIsCleared` | `ClearsOnlyIdle`, an action property | `idle` is at least the count of each function that is there, and the loop waits in one `clear()` at a time |
| `ClientComesBack` | `NeverStranded` | a listener is that of a socket that was made, a timer to the background runs in a hidden page, a socket not made yet is active |
| `TokenStaysInStep` | `TokenInStep` | the last token on its way is the client's; who is between a token and its reply (`beingAuth`) has one on its way, unless nothing was asked (`unasked`) or the server let the token go without a reply (`unanswered`: no authorize function, or one that throws, `token.ts:28-30`, 128, 147, 168); a renewal may set the tokens apart (`apart`); nothing is on its way without a connection |
| `ActivityStaysTrue` | `ActivityAgrees` | for each key the last word on it is in the queue, or else on its way, or else known to the server, and right (`UpToDate`), unless the server refused it, took it too early or was never told (`amiss`, `unsaid`); the two counters agree without exception of that kind; lemmas about the last word of a concatenation and of a tail |
| `RemovalsAreSure`, `SuccessStaysTrue` | `SureFirst`, `SuccessIsTrue`, for every order of answers and failures | of the eight commands that remove something, before each step that removes there is a question among the steps that are left, unless the user was sure (`Asked`), or nobody is asked and nobody can become sure (`Quiet`, for the commands and options of `AtOnce`); the steps left of a command that is not lenient put every failure in the exit code (`Telling`). Both are lemmas about the 34 programs and what the first step leaves of them |
| `RefusedAreNotHandled` | `OnlyGrantedHandled` | what `authorize()` leaves of a batch: after each turn of its loop the requests before the index are granted, those after it unseen, those taken out refused (`Taken`) |
| `RequestsStayAccounted` | `RequestAccounted` | no request is in two places, two batches or two answers; a caller has at most one request in a place, and has one while it waits; ids are used in order |

Two operators go through a sequence of any length: `Without` through the queue of
the client, `Split` through a batch of requests. Both are recursive functions
over `0..n`. `RecursionFacts` proves, by induction on a set of numbers, that such
a function exists and that what one step keeps all steps keep. `WithoutIs` and
`SplitIs` say what they return, and the rest of the proofs uses only that.

Cardinalities come from `FiniteSetTheorems`, and the order of `Backpressure` from
`SequenceTheorems`. A theorem about an instance that is fair or not is proved
from `Init` and `Next` alone.

Only model-checked:

* liveness under fairness (`SentGoesOut`, `UnusedIsRemoved`, `ConfigGetAnswered`,
  `RequestEnds`, `IdleIsForgotten`), out of the prover's reach;
* `ShapeKept`: the recursion of `CopyTree` goes through a graph in whatever order
  it meets the nodes; what it computes is an induction over data for which
  `RecursionFacts` is too weak.

## Not modelled

In the live query: `restart()` and the close function of a shared function (of
the other observables they are modelled); `error()`, which does nothing;
`authError` and logout of subscriptions in the client; requests by query instead
of by name (they take the same path in the client, and `DbSubscription` on the
server); callbacks that call back into the client before they return; the
branch of `addSubscriber` that rewrites a queued Subscription, which
`QueueMatchesEntry` shows dead. `LiveQuery` takes `send()` as immediate and in
order: a socket that keeps up. `OrderedDelivery` promises the order for every socket, but of an
observable's updates, which are strings, those that had to wait reach the client encoded
twice (`lost`), and the server does not send them again; this is not fed into
`LiveQuery`. Nor are requests that `authorize()` refuses.

What some properties leave open, because the code does not do better:
`TotalCoversQueues` bounds the total from below only, since queues are emptied
without lowering it (`Client.ts:295`, 328, 341); a client counted twice by a database
subscription (`doubled`) is exempt from `UnusedIsRemoved`, so its leak is described and
not refuted; `ClearsOnlyIdle` is about when `clear()` begins, not about a use while
it is awaited; `SuccessIsTrue` says nothing of `backups delete-all` without the fancy
output, which does nothing and exits with 0 (`deleteAllBackups.ts:56-81`): no step of
it fails.

In the parts: payloads, formats and validation; what a database query means;
routes, headers and the playground page of HTTP; reading files in a browser or
in node; the deployment of functions and the log viewer of the cli beyond their
first steps.

Outside: the event emitter and the observable object (lists of callbacks that run
at once on one thread); `openListener.ts` and `upgradeListener.ts` (they build a
`Client`); `get-service` (a call that answers or fails); the react and vue
bindings (when they run is decided by the frameworks); data-record (byte layouts
and floating point); graphql and ids (translations without state); templates,
helpers, build scripts and the vendored `uws`.

## Plan

If the model grows: `restart()` of the shared observable, after
`UserObservable`; the parallel loops of `cli/src/deploy/deployFunctions.ts`. To
prove: what a recursion through a graph computes, for `ShapeKept`.

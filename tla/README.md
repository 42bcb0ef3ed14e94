# A TLA+ model of http-to-grpc-gateway

The repository is a gateway that takes `POST` requests with two headers - `Method`, the
gRPC method to call, and `Addr`, the server to call - and answers with the JSON of the
gRPC response. Each request dials its own gRPC connection, finds the descriptors of the
method (server reflection, protoset or proto files), invokes the RPC and writes the
response. A test tree holds two demonstration servers, of which `bankdemo` keeps state.

This directory holds a formal model of it: TLA+ modules translated from the Go code,
configurations that check them with TLC, and proofs that TLAPS checks. `PROJECT.json`
lists the components, runs, mutants, findings, hazards and theorems, and maps every
definition that models code to the lines it models.

    tlc -workers 2 -config Gateway_http.cfg MCGateway     # one run
    tlapm Gateway_proofs.tla                              # one module of proofs

## 1. Inventory

### Components, their state and their operations

| Component | State | Operations | Concurrency and failure |
|---|---|---|---|
| HTTP request handler (`internal/server/endpoint.go`, `internal/util/async`, `internal/ack`) | per request: the handler goroutine, the worker goroutine, the `*grpc.ClientConn`, the unbuffered channel `done`, the context, the response | `registerWithServe`, `dial`, `invoke` | two goroutines per request; a 3 s timer, the request's context and `done` in one `select`; nothing stops the worker; panics recovered in two places |
| Registries (`internal/registry/http`, `.../local`) | none; the local one reads the configuration | `Register` | called twice per request, once by each goroutine |
| Configuration file (`internal/config/config.go` 317-391) | `conf`, `once`, the registry map | `Conf`, `readInConfig`, `LocalRegistry` | loaded lazily by the first request; the pointer is tested without synchronisation and set before the file is decoded |
| Command-line flags (`internal/config/config.go` 1-316) | package variables, written once at start, except that `AddlHeaders` is appended to by every request | `MultiString.Set` and the like | the array behind `AddlHeaders` is shared by all requests |
| Dialling helper (`gateway.go` `BlockingDial`) | channel `result` of capacity 1 | `BlockingDial`, the dialer, `writeResult` | three parties race for one place in the channel; time-out |
| RPC invocation (`invoke.go`) | per RPC: stream, event handler's status | `InvokeRPC` and the four call kinds; `invokeBidi` runs a sender goroutine | sender and receiver share the context and the first error; `wg.Wait` before `cancel` |
| Descriptor sources (`desc_source.go`, part of `config.go`) | per request: maps of loaded files | `FindSymbol`, `resolveFileDescriptor`, `WriteProtoset`, `CompositeSource` | recursion over file dependencies, fallback from one source to another |
| Command-line tool (`cmd/main.go`) | the connection, the reflection client, `config.Exit` | `main`, `cmd`: list, describe, invoke | sequential, with some thirty places where it may fail; `os.Exit` runs no deferred call |
| Request parsers, formatters, event handler (`format.go`) | `NumResponses`, `Status`, the request counters | `Next`, `OnReceiveResponse`, ... | run by sender and receiver of an RPC |
| Gateway helpers (`gateway.go`) | none | `MetadataFromHeaders`, listing, templates, TLS | pure, but `MetadataFromHeaders` reads the shared header array |
| Demo bank (`internal/testing/cmd/bankdemo`: `bank.go`, `db.go`, `main.go`) | accounts under a lock per map and per account, a transaction log, a file flushed every 5 s | open, close, deposit, withdraw, transfer, flush, load | non-atomic transfer; flush clones the accounts while they change; restart from the file |
| Demo support chat (`bankdemo/chat.go`) | sessions, the queue of sessions awaiting an agent, listeners | enter, resume, hang up, accept, leave, messages both ways | streams, monitors and cleanup goroutines over two levels of locks |
| Demo authentication, test server, logger, indentation, proto helpers, hello-world, generated code | none that lasts | | |

### How they interact

`endpoint.go` calls a registry (which may read the configuration), then `BlockingDial`,
and starts the worker. The worker calls the registry again, builds header slices from the
shared flags, creates a descriptor source, calls `InvokeRPC`, and writes the response
through the event handler and `ack`. Handler and worker meet only at `done`, share the
response and the connection, and both see the request's context, which net/http cancels
when the handler returns or the client has gone. Requests share just two things: the
configuration file and the array behind `AddlHeaders`. The demo servers are on the far
side of an RPC and share nothing with the gateway. The command-line tool is another user
of the descriptor sources, `BlockingDial` and `InvokeRPC`, for one call at a time.

### What is hard, and what makes each part correct

The list of hazards, each at its line, is in `PROJECT.json`. In short:

* the handler may leave - by timer, by context, by a failed write - while the worker is at
  any point of its work: who may still write, what is closed, who waits for whom for good;
* a failed step does not stop what follows it: after "system error" the handler goes on
  with a nil connection, and a worker that is refused says nothing to anyone;
* the configuration is read while it is loaded;
* a ready connection may find the one place in the result channel taken;
* header slices of concurrent requests share an array;
* the error an RPC reports depends on which goroutine of `invokeBidi` is first, and the
  call only returns when both are done;
* the command-line tool may fail at any step with a connection open, and only a replaced
  `config.Exit` closes it; one descriptor set may mix files of the server and local ones;
* the demo bank makes a transfer in four critical sections, and copies its accounts to a
  file while they change, in slices that share their arrays with the live ones;
* the demo chat hands a session from the queue to an agent under two locks in turn, and
  its goroutines read a variable that their stream assigns again.

## 2. What is modelled

| Module | Models | Extends |
|---|---|---|
| `LocalRegistry` | the lazy load of `config.yml` and the lookups racing with it | |
| `Gateway` | the request handler: handler, worker, client, context, response, connection | `LocalRegistry` |
| `BlockingDial` | one call of `BlockingDial` with its dialer and connector goroutine | |
| `HeaderSlices` | the header slices of `invoke`, for concurrent requests | |
| `Invoke` | one call of `InvokeRPC`: the four call kinds, `invokeBidi`'s two goroutines, the event handler | |
| `RpcContract` | the abstract call: messages, then one end (an instance in `Invoke`) | |
| `Descriptors` | pure algorithms: loading a descriptor set, collecting imports, writing a set, message templates | |
| `Command` | the command-line tool, from flags to exit status | `Descriptors` |
| `Bank` | the demo bank: accounts, requests, background saver, stop, kill and restart | |
| `Ledger` | what its accounts promise (an instance in `Bank`) | |
| `Chat` | the demo chat: sessions, queue, streams and their goroutines | |
| `MC...` | values of the constants for TLC | the module they are about |
| `LocalRegistry_proofs`, `Gateway_proofs`, `Invoke_proofs`, `BlockingDial_proofs`, `HeaderSlices_proofs`, `Command_proofs`, `Chat_proofs`, `Bank_proofs` | theorems | the module they are about |

### LocalRegistry

`call[a]` is the call of `registerLocal.Register` a goroutine is in, `published` is
`conf # nil`, `once` the `sync.Once`. The goroutine that enters the `Once` runs
`readInConfig` step by step: `ReadFails` or `Publish` (line 360 sets the pointer, before
`Unmarshal`), then the elements of the registry list. mapstructure decodes the first one
into a map of its own and stores it (`DecodeFirst`); later ones are inserted into the
stored map key by key (`BeginInsert`, `StoreKey`, `EndInsert`), and a lookup in that time
may be caught by the Go runtime, which ends the process (`LookupThrows`, `up`). That is
the undefined behaviour of the race; it is a nondeterministic choice between the outcomes
a build shows. An interleaving of whole memory operations is assumed: a weak memory
model could also let a goroutine that sees the pointer miss earlier stores, which adds no
outcome here, since the pointer is published before anything else is stored.

A service is looked up by its name. Of its address only this is kept: whether an element
gives one or leaves it blank (`""` or null). A blank address is inserted like any other, over
one that an earlier element gave, and `Register` then refuses the service (`local.go` 37-40):
the registry does not only grow. `DefinedBy(k)` is what the first `k` elements define, later
ones over earlier ones, and `Configured` what the file does; `registry` is the set of services
that have an address.

### Gateway

One action per step of handler or worker that another goroutine or the client can
observe. `handler[r]` and `worker[r]` say where the goroutines are: `"lookup"` is inside
`registerLocal.Register`, where the actions of `LocalRegistry` move the call - the actors
of that module are the pairs of a request and a goroutine. The mapping:

* `HandlerPanics` / `HandlerRegisters` / `HandlerAsks` / `HandlerAnswered` / `Dialed` /
  `DialFails` are `dial()`; `SystemError` is lines 48-58, the write *and* the start of
  the worker, for the handler goes on; `SystemErrorUnwritten` the return when even that
  write fails;
* `Timeout`, `Cancelled`, `Receive` are the cases of the `select`. `Receive` is one step
  with the worker's send, `done` being unbuffered. `Leave` is the handler's return, on
  which net/http cancels the context;
* `WorkerRegisters` / `WorkerAsks` / `WorkerAnswered` are the second `Register`;
  `NoConnection`, `LoadFails`, `LoadSucceeds` the head of `invoke`; `RpcPanics`,
  `RpcFails`, `RpcEnds`, `RpcResponds` what `InvokeRPC` may do, each with the deferred
  `reset()`;
* `BodySent`, `ClientGone`, `NoticeGone` are the client and net/http.

What is written is a sequence of entries, each an envelope, a message or a status, and
each marked `late` when the handler had returned by then. A write that fails because the
client has gone changes nothing the model keeps, except in `SystemErrorUnwritten`.

### BlockingDial

`result` is the channel, `dropped` what `writeResult` threw away. grpc is external: it
attempts, tries again after temporary failures, and returns when it has a connection, a
permanent failure (`FailOnNonTempDialError`) or a done context. `Return` is the caller's
return from the helper together with the deferred `cancel` of `dial()`.

### HeaderSlices

The array behind `config.AddlHeaders`, with the slices of several requests in it. A Go
string is two words, so a racing reader may see a torn one: the model stores and reads
word by word. `append` either stores in the spare room (`StoreWord`), or copies to a new
array (`BeginGrow`, `Grow`, `EndGrow`) while others go on storing.

### Invoke

`main` is the goroutine that calls `InvokeRPC`, `sender` the one `invokeBidi` starts.
`Resolve` is everything up to the choice of the call kind; `ReadRequest` the reading of
the one message of a unary or server-streaming call; `Open` / `OpenFails` the stub's
opening of the stream, `OpenFails` with the panic of `invokeServerStream` on a nil stream;
`UploadRead` / `UploadSend` the loop of `invokeClientStream`; `Await` the wait for a single
response; `Receive` / `ReceiveEnds` the download loop of the other two; `Report` the choice
of the error and of what is told to the handler; `Return` the deferred `wg.Wait` and
`cancel`, with what `endpoint.go` 264-288 writes. `SenderReads`, `SenderSends` and
`SenderStores` are the sender; `cancel()` and the storing of its error are two steps,
between which `main` may report.

A body is a sequence of items: a message, a message grpc cannot send, or an error of the
parser - which is also what a client that goes away in the middle leaves (`BodyComes`).
Both request parsers look alike from here. A read may return an item before the whole
body has come, and the end only after. The call's context is `"done"` when the request is
over, `"cancelled"` when a deferred or explicit `cancel`, or a failed `SendMsg`, ended it.
grpc and the server are external; a lost connection is an end with an error. A server
that answers OK to a unary or client-streaming call has sent its one response. Response
headers are left out: they are only logged, and waiting for them is waiting for what
follows them. A call without a descriptor source panics at once (line 97); that outcome
is `RpcPanics` of `Gateway`, which knows the flags.

`RpcContract` is what the caller relies on. `Invoke` implements it with its own variables
`rpc` and `written`.

### Descriptors and Command

A file is a name and a content: the names it imports, the message types it defines and those
it uses; it also defines one symbol with its own name. A set of resolved files is a function
from names to contents: a *world*, since a descriptor in Go holds its imports by reference and
not by name. `World` says what one is: it is `Closed`, `Acyclic` and `Linked`, as `protoc` and
the `desc` package see to. `Links` is the check of `desc.CreateFileDescriptor`, whose error
`resolveFileDescriptor` returns (`desc_source.go` 110-113): what a file uses it defines itself
or imports. A use that nothing defines stands for whatever else that function refuses in a
file, such as a name defined twice.

Each recursion of the code is two definitions: the body, with the function it calls as a
parameter, and the recursive function on the tuple of its arguments. `ResolveFile` and `Resolve`
are `resolveFileDescriptor`; that it does not remember the files it is in is modelled by the
depth of the calls, which on a cycle passes the number of files and then never ends
(`"overflow"`, a crash of the process). `AddFile` and `AddFiles` are `addFile` of the parsed
files, `AddFileToSet` and `AddFilesToSet` the writing of a set, `Unfold` and `Template`
`makeTemplate`. The fields of a message are a sequence, each with its type and the oneof it is a
member of: `dm.SetField` clears the other members of a oneof, so that `Shown` keeps the last one
only. Scalar fields, which are not set at all, and the fixed templates of `google.protobuf.Any`
and its like are left out of `Template`.

`Command` has one action per phase of `main` and `cmd`; `pc` names the next one. An
action that may fail has a disjunct with the `Exit` of `fail`: 1 for an error, 2 for a
misuse. `Exit` runs `reset` only once `hook` is set, that is once line 318 has replaced
`config.Exit`. `cc` and `refClient` are what `reset` closes. A composite source is the
union of what `FindSymbol` may find on the server and in the files, for the server may
fail at any single call. `InvokeRPC` only returns or panics, after which the deferred `reset`
still runs; what happens in it is `Invoke`'s.

### Bank and Ledger

An account is a position in `heap`, the pointer the code hands around, so that a request
may hold an account that has been closed. A request is `LookupSource`, `LookupDest`,
`Debit`, `Credit`: one critical section each, of `accounts.mu` or `account.mu`. `Deposit` and
`Withdraw` are transfers from and to the outside. The slices of account numbers are
modelled with their arrays: `closeAccount` moves elements within an array that the copy
being flushed shares. A flush is `StartSave` (or `ServeReturns`, for the last one), a
`CopyList` for each customer, a `CopyAccount` for each number, `Marshal`, `Truncate` and
`Write`. A nil account that is dereferenced ends the process (`Die`), as does `Kill`; `Load`
is the next start. Balances wrap at the width of `MaxInt32`.

Two pieces of code that take several steps are one action. `closeAccount` reads the balance and
deletes the account later, both under `accounts.mu`: nobody can look the account up in between,
and what a request that already holds it enters there in between is as if entered after the
close, for the account is found by nobody either way. `json.Marshal` reads the shared arrays
element by element while a close may shift them; `Marshal` reads them at once, and no property
is about a file made by such a flush, the last flush apart, which no request disturbs.

`outside`, `lost` and `stranded` are history: the money that came in less what went out since the
last start, what transfers lost whose credit was refused, and what lies in accounts nobody can
find. An account is stranded when a request that held it while it was closed enters something
there, or when its number is given out again (`Reachable` are the others).

`Ledger` is the abstract bank: accounts are lists of entries whose sum stays between zero
and the largest int32, and an account is closed only at zero. `Bank` implements it for the
accounts made since the last start (`Entries`, `Closed`); those restored from the file come first
in the heap and have no balances.

### Chat

A stream is a pair of a client and its handler; `stream[p].at` is where the handler is. The
calls are split where the code changes locks: `acceptSession` (the server's lock) and
`JoinSession` (the session's), `closeSession`, `Publish`, `Send` for each listener, `Unlist`.
`Send` is one listener's turn in the loop that holds the session's read lock, so that
`Free` keeps the writers out. A channel has one place; `Take`, `Show` are the monitor
goroutine and `Drain` the goroutine of `cleanup`; both read the stream's variable `ch` each
time round, which may be the channel of a later session (`Ch`). `Break` is the end of a
stream's context. What is said is its author; an entry is its position in the history, and
`End` is the nil entry that tells agents of the end. What a monitor still shows of an earlier
session does not count as seen in the present one (`OfSession`).

## 3. What the runs check

| Run | Instance | Question |
|---|---|---|
| `local_registry` | 3 goroutines, 3 services (one not in the file), 2 elements, the second with a blank for a service of the first | is the load exclusive, lossless, and are misses only ever due to its being under way or failed; does every lookup return |
| `gateway_http` | 1 request, headers good, bad or without `Addr`; registry `http` or unknown; files that load or not; up to 2 messages | every path of the two goroutines |
| `gateway_local` | 2 requests, 4 goroutines over the configuration of `local_registry` | when do the two lookups of a request disagree; what stays open; is only what the file has an address for dialled |
| `gateway_shutdown` | as `gateway_http` | violated: is the connection closed when `invoke` is over |
| `blocking_dial` | up to 3 attempts | where may a ready connection end up; does the goroutine end |
| `header_slices` | 2 requests; room for one and for two headers; two reflection headers, one RPC header, an own header for one request | when are RPC headers exact; how wrong can they be otherwise |
| `header_slices_excluded` | the same | violated: is a reflection header ever sent with an RPC |
| `invoke` | each call kind; bodies of up to 2 items of 3 sorts, cut short or not; up to 2 responses | what an OK promises, what the server is told of an upload, who cancelled, what is left behind; does the call stop; is it the abstract call |
| `invoke_status` | the same | violated: has every call that ended a status |
| `command` | up to 4 arguments; 3 files, descriptor sets of up to 3 entries, with a definition and a use of a type; worlds of up to 3 files; 5 message graphs, with oneofs | is anything left open at the end; what do the descriptor algorithms compute |
| `bank` | 2 clients, 2 customers, 3 accounts, 4 requests or saves, 1 restart, integers of 3 bits | is `Bank` a `Ledger`; where is the money that came in; who owns a number; what does a stop save |
| `chat` | 2 customer streams, 2 agents, 3 channels, 3 messages or joins | is a session ever forgotten; does anybody in it miss a message; does everything get stuck |

### Properties

* `OneLoader`, `RegistryIsPrefix`, `MissOnlyUnloaded`, `CallsReturn` (LocalRegistry).
  `MissOnlyUnloaded` is the one a user notices: "not found" for a service which the file, read
  to its end, has an address for is possible only from a request that arrived during the first
  load, or for good after a failed one. All of them are about a process that runs on: that the
  Go runtime may end it (`LookupThrows`) is a step no property forbids.
* `LeakOnlyBeforeDefer`: on every path but two the connection is closed. One is the finding
  below; the other is a worker whose lookup misses the service after the handler has dialled,
  which then returns in silence. `MissedOnlyIfBlanked`: the two lookups are made at two moments
  of a load, and the second misses what let the first dial only if one element of the file gives
  the service an address and a later one leaves it blank; a failed load takes nothing back.
  `LateOnlyAfterEarlyExit`, `SystemErrorIsAlone`, `RefusedNeverFinishes`, `CompleteReply`: what
  the response may hold and how handler and worker may part. `Answered`, `Settled`: liveness.
* `OneHolder`, `LostOnlyToRetryOrExpiry`, `NoConnAfterReturn`, `ConnectorEnds`
  (BlockingDial).
* `ReflStaysOut`, `RpcExact`, `TradedInPlace` (HeaderSlices): the exact conditions under
  which sharing the array does no harm, and a bound on the harm when they fail.
* `AllDelivered`, `WholeUpload`, `CancelledForAReason`, `NothingLeftBehind`,
  `ImplementsContract`, `StopsWhenOver` (Invoke). `CancelledForAReason` is the strongest
  that holds of the race in `invokeBidi`: bad request data may be reported as a
  cancellation, but nothing else is. `StopsWhenOver` needs the body to have come:
  `wg.Wait` keeps a call whose server has long ended it until the sender's read returns.

* `NothingLeftOpen` (Command): whichever of its failures ends the tool, `reset` has run.
  `LoadDecides`: a descriptor set is loaded exactly if it is closed, acyclic and linked, refused
  only for a missing import or a use that nothing defines, and overflows the stack only on a
  cycle. `ProtosetReloads`: what the tool writes it can load when the sources agree. When they do
  not, the set may hold the server's version of one file and the local version of another that
  uses a type only the local version of the first defines; it is still in order and without
  duplicates, and is refused for that use and nothing else. `TemplateComplete`: a template leaves
  out a message-typed field only where a type is nested in itself, and the members of a oneof
  before the last.
* `ImplementsLedger`, `Conserved`, `OneOwner`, `StopSaves` (Bank). `Conserved` names every
  way money gets lost while the server runs: the credit of a transfer overflows after the debit,
  a request enters something in an account that was closed meanwhile, or a number is given out
  again. That a start restores no balances is not such a way but the end of the account: the
  sums begin anew. `ImplementsLedger` does not object to entries in a closed account, as `Ledger`
  allows them. `OneOwner` holds
  until the first restart with restored accounts: the file has no `LastAccountNum`, so that
  numbers are given out again. `StopSaves` holds unless the background saver was still
  writing: nothing waits for it.
* `Attended`, `NothingMissed` (Chat). A session that is open is in the queue, and only once,
  just when no agent has joined it or is about to, in spite of the two locks. (`support.proto`
  74-76 has several agents in one session; see below.) Nobody in a session misses a
  message, with one exception, which is a race of the code: the drain of a stream's last
  session may start only after the stream has entered the next one, and then empties that
  one's channel. Neither says that entries come in order, which two monitors on a channel may
  change, nor that an agent who is shown a session that is over is told so.

Each has a mutant in `PROJECT.json`: a plausible bug, defined just before the definition it
replaces, that the run finds. They are used nowhere else.

### Findings

* `gateway_shutdown`: `invoke` returns before `defer reset()` (line 202) when a descriptor
  file cannot be loaded, so the connection stays open, against the comment of line 191.
* `header_slices_excluded`: with six `-H` flags (room for two more) a header of
  `-reflect-header` can be sent with another request's RPC, against the flag's text.
* `invoke_status`: a client-streaming or bidirectional call whose stream cannot be opened
  ends without error and without status; `endpoint.go` 283 takes the nil status for OK, and
  the client gets an empty response.

Other divergences seen and not run as violations: the comment at `endpoint.go` 72-73
speaks of two seconds and of a processed request where the timer is 3 s and means a
time-out; `gateway.go` 619 says that only the first result is needed, though the second
may be the connection (`LostOnlyToRetryOrExpiry` says when); the test against `X-` after
`ToTitle` (`endpoint.go` 256) only forwards a header named exactly `X-`; a worker whose
handler left early stays blocked on `done` for good. In the command-line tool:
`config.go` 117-123 says that `-protoset-out` also works when an RPC is invoked, but that
path writes no file; line 154 of `main.go` warns that `-reflect-header` is not used with
protosets, though with `-use-reflection` it is; lines 472-474 speak of output that can be
piped into another gateway, while each message is wrapped in an envelope; the comment of
`MakeTemplate` (`gateway.go` 394-400) has every nested message fleshed out, while `SetField`
(505-506) keeps one member of a oneof (`TemplateComplete` says what is left out). In the
configuration file a blank address in a later element of the list removes the service
(`config.go` 362, `local.go` 37-40), and a request that is looked up on both sides of that moment
leaves its connection open (`MissedOnlyIfBlanked`, `LeakOnlyBeforeDefer`).

In the demo servers: `support.proto` 74-76 says that several agents may be connected to one
session, and 78-79 that an agent's message goes to "any other connected support agents", while
an agent gets into a session only through the queue, which the session is not in while an agent
is there (`Attended`, on purpose, states what the code does); a restored account has no balance,
and numbers are given out again because the file has no `LastAccountNum`; an account closed
between a request's lookup and its entry takes the money with it; an agent may be given a session
that was closed meanwhile and is not told; an agent that leaves a session closes it for
the customer as well; the id of a closed session goes back to the queue and makes a later
accept fail; resuming an unknown session ends the server.

### Bounds, and why they are enough

* Requests meet only in the configuration and in the header array, which have runs with
  several of them; `gateway_http` therefore has one request. Two requests give four
  goroutines in `gateway_local`: a loader, a waiter, and two that find the pointer set.
* Two elements of the list are the least with an in-place insertion. The second has two keys in
  the runs, an address and a blank for the service of the first, so that they may come in either
  order; the proofs hold for any. `gateway_http`, whose requests do not use the file, has one.
* `MaxMessages` (2, or 1) bounds at which place of the response a message may be written,
  which no property depends on; it only keeps the response finite.
* `MaxAttempts` = 3: the first attempt, a retry, and one more while the report of the
  first is still in the channel.
* The two values of spare room in `header_slices` are those of three and six `-H` flags,
  for which `append` grew the array to four and eight.
* Bodies of two items in `invoke` are the least in which something follows a message: a
  second message where one is wanted, an error in the middle of an upload. The items are
  all sorts, in all orders, and a client may cut the body at any place. Two responses are
  the least of which one can be missing.

* Three files are the least with an import behind an import and a second way to it. Descriptor
  sets of two entries have all imports, present and missing, and names given twice; those of three
  entries have different names and at most one import each, which includes every cycle and chain
  of three. One type, defined by at most one file and used by at most one, tells a set that links
  from one that does not. The worlds are those of up to three files without types, for the
  orders of imports, and those of two files in which one uses what the other defines, for sources
  that disagree. The message graphs include a recursion, a type met on two paths and oneofs.
* Integers of 3 bits with deposits of 2: the second one overflows. `MaxWork` = 4 allows for
  opening two accounts, a transfer, and a close or a save in the middle of it. With one
  customer's accounts copied and another's still to come both slices can be shared.
* In `chat` three channels let a stream go from one session to the next, or a session
  change its customer stream or its agent; one of the customer streams only resumes
  (`Starter`), the agents are interchangeable. `MaxWork` bounds customers' joins and
  messages together.

`CHECK_DEADLOCK FALSE` stands in every configuration but that of `chat` because every system
here ends: its requests, its call or its process. That nobody waits for good before that
is what the liveness properties say. `chat` has a step `Finished` for the quiet end, so
that a deadlock is the whole server waiting.

### Fairness

The Go scheduler runs every goroutine that can run: weak fairness of each goroutine's
steps. The timer of the `select` and the context of `dial` always fire, so `HandlerStep`
is always eventually possible. An RPC is only bound to stop once its context is done
*and* the body of the request was sent: `GatewayFairness` asks for no more, for the
sender of a streaming call waits in a read of the body which the context does not
interrupt. `StopsWhenOver` of `Invoke` shows that the code
bears this out. Nothing is assumed of the client, of the network attempts in `BlockingDial`,
or of `LookupThrows`. In `Invoke` the two goroutines are fair where the code does not wait
for others: reads of the body once it has come, the rest once the context has ended, which
is when grpc returns from whatever it waits in; of the server nothing is assumed. `Answered` and
`Settled` would hold vacuously of a process that is down, and say so (`\/ ~up`). `Command`,
`Bank` and `Chat` state no fairness: their properties are safety properties.

## 4. What is proved

The proofs hold for any set of requests and goroutines, any services, files and bodies. They
rest on the assumptions on the constants (`ElementAssumption`, `ActorAssumption`,
`GatewayAssumption`, `InvokeAssumption`, `StreamAssumption`, `BankAssumption` and the like), which
TLC evaluates on each run. Two say what is given to the tool: `DescriptorsAssumption`, that there
are finitely many files and message types, and `CommandAssumption`, that the parsed files and
those of the server are `World`s - `protoc`, or the parser, has resolved their imports and their
uses of types and refused cycles. Of a descriptor set, which may be any file a user names, nothing
is assumed but its form: it may have imports that are missing, uses that nothing defines, cycles,
and several entries with a name.

`LocalRegistry_proofs`: `RegistryTypes`, `OnceExcludes`, `RegistryIsWhatWasDecoded`, and
the action property `OnlyUnloadedMisses`. The inductive invariant `RegistryIInv` adds to
the three state properties that the keys still to come are of the next element, and that
a load that ended without an error has decoded all. The argument: the `Once` is running
exactly while some goroutine is inside `readInConfig`, so there is one; only it writes,
and each of its steps either takes a key from `todo` and adds it to `registry` or, when it is
blank, removes it from there, or starts the next element when nothing of the last is left
(`DefinedByNext`). Hence a loaded registry is
the whole file (`LoadedIsWhole`), and `Lookup` cannot miss.

`Gateway_proofs`: `GatewayTypes`; every safety invariant of the runs of `Gateway`; and
`GatewayUsesRegistry`, that the gateway's steps are steps of `LocalRegistry` or leave it
alone. The last one is what carries `RegistryIInv` over to the gateway. `GatewayIInv` has
four more parts:

* `Control(r)`: which places of the two goroutines go together. That the worker is
  started just when the handler enters the `select`, that it is in the RPC only with an
  open connection, and that headers that were refused once are refused again;
* `Lookups(r)`: a service that let the handler dial is in the registry from then on, or is one
  that the file blanks (`Blanked`); a worker that missed it after that has asked for such a one.
  Needed because the worker's result depends on the registry at a later time; `InsideEffect`
  shows that the registry loses nothing but what is blanked;
* `FoundIsRegistered`: a result "found" is still true of the registry when it is used, or the
  service is blanked;
* `Reply(r)`: what the response holds, given the worker's and handler's places.

Each is preserved by the steps of the same request (one lemma for the handler's actions,
one for the others), by those of other requests (`OthersUntouched`, `UntouchedKept`), and
by the configuration's (`ConfigStepKeeps`).

`Invoke_proofs`: every safety property of `Invoke`, for bodies of any length and any number
of responses, and `CallImplementsContract`. `IInv` is the conjunction of the four state
properties with the types and

* `Control`: which places of `main` go with which stream, error and status, and that only
  a bidirectional call with an open stream has a sender. `CallImplementsContract` needs
  that the call is running until `main` is over;
* `Delivery`: a loop that ended without an error has delivered all that was served;
* `Reasons`: a context cancelled from inside has a sender that failed, or failed `SendMsg`;
* `Upload`: how the messages read and the messages sent differ at each place.

There is one lemma per action, and in it one step per part of the invariant.

`BlockingDial_proofs`: `ConnectionHasOneHolder`, `LostToRetryOrExpiry` and the action property
`NoConnectionAfterReturn`, for any number of attempts. The invariant adds to the types

* `ConnInv`: no connection is in the channel, with the caller or dropped before the
  connector has reported it, and then it is in exactly one of these places;
* `AttemptsInv`: an error that was reported while the connector dials on, or has succeeded,
  is that of an earlier attempt;
* `CtxInv`: the context is done once the caller has returned.

`HeaderSlices_proofs`: the three properties of `HeaderSlices`, `ReflectionHeadersStayOut`,
`RpcHeadersExact` and `WordsTradedInPlace`, for any number of requests, any headers and any
spare room. The invariant follows each place of the shared array on its own:

* `SliceInv`: the slice of a request is in the shared array, what is stored and what is yet to
  be stored together being what it is meant to hold (`Meant`); or it is being copied; or it has
  an array of its own. Whatever lies in the shared array at a place was stored there by some
  request whose slice fits (`StoredAt`);
* `SeenInv`: each word an RPC has read is the one meant for its place or one stored there.

`OthersUndisturbed` is the lemma that a request's step leaves what the others have alone. The
three properties follow from what `Stored` can then hold: `RpcHeadersExact` because with nothing
but `Rpc` ever stored all requests store the same words, so that the races are on equal values.

`Command_proofs`: `ToolLeavesNothingOpen`, for every command line, every set of files and
every message type. The steps are divided at the one that replaces `config.Exit`: before it
nothing is open, after it `Exit` resets (`NothingYet`, `Hooked`); the verb that was parsed
decides where the divide is crossed to (`VerbKnown`).

The other three theorems are about what the recursions of `Descriptors` compute, for any files
and any types. The library's induction theorems cannot be used here, because their parameter is an
operator; so each recursion is proved by the least counterexample of a set of naturals
(`AllNats`), the number being a measure of what is left to do. The same goes for `FoldLeft`, whose
value is found round by round (`FoldValue`, `FoldRule`).

* `TemplateIsComplete`. The recursion goes over `Shown`, the types that stay set. The measure is the number of types not on the path: `ChainsUnfolded` shows
  that `makeTemplate` returns the chains in which a type comes up again, if at all, only at the
  end (`Chains`); those are the ones the property asks for.
* `LoadingIsDecided`. `ResolveExists` goes down from the depth at which a call returns at once. The
  calls on the stack are in files of which each imports the next (`Above`), so that more calls
  than files mean a cycle; a call that returns has resolved its file, every import before its
  importer (`Sound`, `Fine`), or there is an import that is missing or a use that nothing defines
  (`LoadOutcome`). The state invariant
  `BeingLoaded` ties this to the phase `LoadProtosets`.
* `WhatIsWrittenReloads`. `AddFiles` and `AddFilesToSet` enter a name before they go down, so the
  measure is the number of names not entered (`Descends`, `FixedPoint`, and `FixedPointMeets` for
  what such a recursion has done when it returns). While a set is written some names are entered
  but not written; these are the files that are being written just now (`Wrote`, `Ordered`), and
  in an acyclic world no file below imports one of them. So every import is written before its
  importer (`ProtosetInOrder`), and a set in that order is closed and acyclic, therefore loaded by
  what `LoadingIsDecided` rests on (`InOrderLoads`); it links when the sources its files came from
  agree, for then each is written as the others know it (`InOrderLinks`), and if it does not link
  it is refused without an overflow (`InOrderRefused`). The state invariant `SourcesHold` says
  that the sources `WriteProtoset` reads from are worlds: the parsed files after `AddFiles`, the
  loaded set because it was `Sound`, and the server's by assumption.

`Chat_proofs`: `SessionsAttended`, for any streams and any number of sessions. The property
speaks of the queue and the agents of a session; which handler takes which step depends on
more, so the invariant adds to the types

* `KnownInv`: queue and handlers name sessions that exist, a handler is in one in every step
  that needs one, and only an agent is ever about to join;
* `MembersInv`: the agents of a session are those whose stream has joined it. Needed where an
  agent leaves: it was in the session, so it was the only one, and the session that goes back
  to the queue was not in it;
* `ListedInv`: an open session is listed, for it is unlisted by who has closed it. Needed where
  an agent takes a session that is not listed out of the queue and gives up: it was closed;
* `AttendedInv`: the property without cardinalities, and that it is one agent at most who has
  joined an open session or is about to.

`QuietStep` is the lemma that a step which leaves those alone preserves the invariant; starting,
accepting, joining and leaving a session have proofs of their own. `RemoveAtKeeps` and
`AppendKeeps` say what happens to the places of the other sessions in the queue.

`NothingIsMissed`, the other theorem of `Chat_proofs`, is about every entry on its way from who
says it to who is to be shown it. Its invariant, `NewsInv`, stands on the one above and says of
each stream

* `Registered`: in a session, it is known there by its channel, which is open, its own and not
  being drained. Needed so that `Publish` finds everyone an entry is due to, and so that a drain
  that takes the channel stays on it, which is the exception the property makes;
* `Served`: its goroutines are on channels of its own. This is what makes a step of one stream
  leave the others as they were, whatever channel a late goroutine finds in `ch`;
* `Author`: what it is saying is the entry of the history it made. Needed because `Publish`
  chooses by who speaks, and `Due` by who made the entry;
* `Informed`: the property, also while the handler is saying something itself.

The steps are proved by kind. Those of a handler that says nothing (`StaysNews`), gets a channel
(`JoinsNews`) or ends (`OverNews`), and those of its goroutines (`OwnNews`), concern that stream
only (`OthersFollow`, from `Aside`); saying and sending (`PublicNews`) concern the whole session,
and there an entry may only go from the handler into the channel, and from none to the handler.

`Bank_proofs`: `EveryNumberOwned`, for any clients, customers and amounts, lists of any length,
and servers that die at any point. Numbers are never equal because each is one more than the
last, but the lists are slices of arrays and the server may start from a file in which numbers
are missing, so the invariant says besides the property (`OwnInv`, with the places of the arrays
in place of the lists, and no number beyond `last`)

* `ListsInv`: each list is the beginning of an array of its own. Needed where a number is stored
  in place, or moved by the closing of an account: the lists of the others stay as they are;
* `CustomersInv`, `SaverInv`, `FileInv`: what a copy under way, a copy on its way to the file and
  the file have in common. If a copy has no account, every list in it is empty, for the first
  account of the first list that has one was copied or the server died. Needed where the server
  starts from the file: with accounts some are restored, and nothing is promised; without, the
  lists have nothing to own.

`SameStep` is the lemma for steps that leave the tables alone, `Grown` the one for copies whose
arrays the tables share, and `AppendedIs`, `ShiftedIs` say what Go's `append` does to an array.
Three more theorems stand on that invariant:

* `MoneyConserved`, with `MoneyInv`: a request holds accounts of the heap and amounts of int32,
  every balance is between zero and `MaxInt32`, and no two numbers stand for the same account
  (part of `NumbersInv`). The last is needed because the sum is over the accounts that a number
  stands for: closing one takes an account out of it, whose balance is zero, and giving a number
  out again takes out the account it stood for (`NumberGivenOut`), whose balance becomes
  stranded. The bounds are needed because the code adds first and
  refuses afterwards: with both operands in that range the wrapped sum of an addition that is not
  refused is the true sum (`WrapIs`). The rest is a sum over all accounts and one over all
  clients, of which a step changes one term in each;
* `AccountsImplementLedger`, with `LedgerInv`: the restored accounts come first in the heap, each
  new one holds the sum of its entries, and no two numbers stand for the same new account - so
  that taking one number out of `byNumber` closes one account, and numbers given out again close
  none. Each step of the bank is an opening, an entry, a closing, a restart or a stutter;
* `StoppedMeansSaved`, with `StopInv`: once `Serve` has returned no request is left, so that the
  tables are frozen; what `main` has copied so far equals them, in the order it copies, and at the
  end they are whole. Without an overlapping background save (`raced`) nobody else writes.

The sums are `SumFunction` of the community modules, a fold over a set. What the proofs need of
it - an empty sum, a term changed, a term added, a sum of zeros (`SumExcept`, `SumAppend`, ...) -
is derived from the definition: `SumsExist` and `SumsUnique` take the least counterexample of a
set of naturals (`AllNats`), for an induction theorem with an operator as its parameter cannot be
used here.

Only model-checked are the liveness properties, for fairness and `ENABLED` are out of the
prover's reach: `StopsWhenOver` of `Invoke`, `CallsReturn` of `LocalRegistry`, `Answered` and
`Settled` of `Gateway`, and `ConnectorEnds` of `BlockingDial`. Every invariant and every action
property of a run that passes is stated by a theorem. The three properties that fail have
counterexamples in their runs.

## 5. What is not modelled, and the plan

Left out of the modelled components, and why:

* `AllExtensionsForType`, the extension registry and the `anyResolver` of `format.go`: they
  decide how a message is printed. `GetAllFiles` and `EnsureExtensions` have no user here.
* In `Bank`: requests that are refused for their amount, type or customer (they change
  nothing), `AccountNumbers` (written, never read), and a data file whose write was cut
  short by a full disk.
* In `Chat`: which session an agent is given is any that waits, in place of the first or
  the one named; a monitor starts with the snapshot; the channels of a stream whose context
  is done are no longer followed, for nobody sees what is in them; and a `sync.RWMutex`
  that makes new readers wait for a waiting writer - the model allows more interleavings.
* In `Command`: what is printed and warned of, and the time-out of `-max-time`, which ends a
  dial or an RPC as a failure does.

Never to be modelled: wording and layout of responses and descriptor texts, TLS set-up
beyond its failing, the logger, the examples, the test server and the generated code - pure
functions or input and output with no state; the library code (grpc, net/http, viper,
mapstructure) beyond what its callers rely on.

What could follow: an abstract request (accepted, answered once by a whole reply or an
early exit) that `Gateway` implements by a refinement mapping, with `Gateway`'s RPC steps as
steps of `RpcContract`; and liveness of `Chat` (each `Send` ends) on a smaller instance.

# A verification of grpcbackend_cpp

`grpcbackend_cpp` is the C++ side of an Apache module that hands HTTP requests
and WebSocket connections to a backend over gRPC.  This directory models the
library's concurrent core in TLA+, checks it with TLC on small instances, and
proves the properties of the WebSocket connection, the hub, the HTTP connection,
the router, the JSON-RPC dispatcher, the server's shutdown and the static files
with TLAPS for every value of the constants.

## 1. The system

| Component | Source | State it keeps | Operations | What makes it correct |
|---|---|---|---|---|
| Workers | `src/handler.cpp` `async_task`, `src/server.cpp` | one completion queue and one thread each | take a completion, run its continuation, swallow `std::exception` | completions of a queue run one after the other |
| WebSocket connection | `handler.cpp` 11-177 | `response_queue` under `response_queue_lck`, the atomic `done` | `send_message`, `close`; completions of the call, of Read and of Write | one Write at a time in order, one Finish, disconnect told first, nothing forgotten |
| WebSocket hub | `websocket/hub.cpp` | groups (`cons` under `cons_lck`, a handler), a group attribute per connection | `on_connect`, `on_message`, `on_disconnect`, `set_connection_group`, `broadcast`, `close_group`, `close_all` | a connection is in one group, the one its attribute names; nobody waits for ever |
| HTTP connection | `handler.cpp` 179-473 | `m_read_lck`, `m_write_lck`, `m_read_done`, `m_headers_sent`, `m_finished`, `m_resp` | `read_body`, `read_body_full`, `skip_body`, `send_body`, `end`, `set_status`, `set_header` | one Read and one Write, one callback per call, one end |
| HTTP router | `http/router.cpp`, `http/mw/*`, `http/route/filesystem_route_handler.cpp` | the published `routing_info`, `_routing_update_mtx` | `route`, `use`, `notfound`, `error`, `on_request`, middleware, `handle_exception` | no update lost, a request sees one configuration, every request is answered once |
| Server | `server.cpp` | completion queues, threads, the flag `exit`, the service and the hub | `start_server`, `shutdown_server` | every worker ends, every connection is told, nothing is destroyed that is in use |
| JSON-RPC | `util/json_rpc.cpp` | handlers, the answers of a batch | dispatch a call or a batch | one answer per call |
| Static files | `uri.cpp`, `filesystem.cpp`, `http/route/filesystem_route_handler.cpp`, patterns in `http/router.cpp` | the files, which others change | parse and code resources and forms, match routes, look up, open and list files | answers go by name, a file that stays is served, links lead to what they name |
| MIME table, attributes | headers | tables | look-ups | - |

How they interact.  The worker of a connection calls the user's handlers: the
hub for WebSockets, the router for HTTP.  Those call the application's handlers,
which call back into the connection, the hub or the router on the same thread.
Other threads (workers of other connections in a broadcast, threads of the
application) call the same objects.  Everything is shared by `shared_ptr`, so a
callback may arrive long after whoever registered it has gone.

What is hard: two mutexes taken in opposite orders through a callback; a mutex
held from one completion to another (`lck.release()`); a flag tested outside the
lock that guards what it protects; two ends of a connection that both finish
it; exceptions that leave a completion half done; branches that should return
and do not; connections wrapped by middleware and unwrapped by callbacks; routes
that change under a request; a shutdown that overtakes calls that are still
arriving; files that change between two looks at them.  `PROJECT.json` lists each at its line ("hazards").

## 2. The modules

| Module | Extends / instance of | What it is |
|---|---|---|
| `WsOutbox` | - | abstract first-in first-out outbox |
| `WsConnection` | `Outbox == INSTANCE WsOutbox WITH sent <- wire, shut <- done` | the WebSocket connection |
| `WsConnectionProofs` | `WsConnection`, TLAPS | its theorems |
| `Membership` | - | abstract groups, entered and left at one moment |
| `WsHub` | `Groups == INSTANCE Membership WITH phase <- phases` | the hub, composed with reduced connections |
| `WsHubProofs` | `WsHub`, TLAPS | its theorems |
| `HttpConnection` | - | one HTTP request and its response |
| `HttpConnectionProofs` | `HttpConnection`, TLAPS | its theorems |
| `RoutingTable` | - | abstract table, changed and taken at one moment each |
| `HttpRouter` | `Table == INSTANCE RoutingTable WITH table <- routing, ...` | routing, middleware, exceptions, the file handler |
| `HttpRouterProofs` | `HttpRouter`, `Induction`, TLAPS | its theorems |
| `JsonRpc` | - | one message to the JSON-RPC dispatcher; checked without an MC module, its constants are plain model values |
| `JsonRpcProofs` | `JsonRpc`, `Induction`, TLAPS | its theorems |
| `Server` | - | start, shutdown, the threads of the queues and reduced calls; checked without an MC module |
| `ServerProofs` | `Server`, TLAPS | its theorems |
| `Uri` | - | resources, queries, forms, percent coding |
| `FileSystems` | `Uri` | the files of the operating system and of an archive |
| `Routes` | `Uri` | route patterns, what they match, their parameters |
| `StaticFiles` | `FileSystems`, `Routes` | a request for a file, composing the three |
| `StaticFilesProofs` | `StaticFiles`, `Induction`, TLAPS | its theorems |
| `Induction` | TLAPS and its library | induction over numbers and recursion, stated with sets and functions |
| `MCWsConnection`, `MCWsHub`, `MCHttpConnection`, `MCHttpRouter`, `MCStaticFiles` | the above | values for the constants |

### WsConnection

The worker is a thread with a position `wpc`: between completions (`"next"`) or
inside a call of the user's handler, which is where other threads can interleave.
`disc_read` and `disc_write` are `on_disconnect` called from `on_message` (client's
CLOSE) and from `send_cb` (server's CLOSE written); in the second the worker holds
`response_queue_lck`.  `rd` says which completion the reading side waits for;
`rd = "none"` means no Read is armed.  `send_message` and `close` are two steps in
every thread: the check of `done` puts the message in `pend[t]`, `QueueResponse`
pushes it under the lock.  `WriteDone` is `send_cb` up to its first call of user
code, with the write of the next message it makes before that call.  Writes
complete in order, so `acked` counts the reported ones and `wire` holds all; the
properties compare both with `response_queue` and the history `accepted`.

`HandlerThrows` is an exception out of a handler: `async_task` catches it and what
comes after the call in the continuation is not done: `done` is not set, the Read
is not armed, the response with the headers is not queued.  `send_cb` catches the
exceptions of a message's callback, which then differ from a return in nothing.
A handler that sends or closes from `disc_write` waits for ever for the lock its own thread
holds; the model has it (`ws_throws`), and nothing forbids or promises it.

The client and gRPC are the environment.  The contract assumed of gRPC is: a Read
or a Write that was started completes once; messages arrive in order; a Read
fails only after the client has gone or Finish was called; a write's `ok` may be
false, which the code ignores.

### WsHub

`members[g]` is `cons` of a group, `attr[c]` the group attribute (`"unset"` before
`on_connect`, `"reset"` after `attr->group.reset()`).  A worker's callback
(`cb[w]`) and each thread's operation (`op[t]`) hold their local variables, in
particular the group read before a lock is taken.  Locks follow from where the
threads are: `Holds(t, g)` while `broadcast` or `close_all` goes through a group,
`QueueFree(c)` is false while `send_cb` of `c` calls `on_disconnect`.  Taking and
giving a lock back within one step of the code is one action guarded by
`GroupFree`.  Of a connection only what the hub depends on is kept: an armed Read,
`done`, the CLOSEs in its queue, and whether one of them is being written although
`done` is set; messages other than CLOSE never block.  `Calls` says which operation
is called from which place: the application and handlers are the environment.

`Membership` is what the hub promises of groups: a connection enters one, moves out of it and
into the next, and leaves, each at one moment, and once it has left no group has it again.
The hub takes several steps for each, with those of other threads in between: the attribute
is set in one, the set changed in another, `on_disconnect` takes the connection out and resets the
attribute later.  `Phase` says which step is the moment: a connection is `"new"` until it
is inserted, `"moving"` from its removal to its next insertion, `"gone"` from its removal in
`on_disconnect` on.

### HttpConnection

What a thread does is a stack of frames: user code, a call waiting for its mutex
(`Locking(o)`), and a call that fell through without it (`GoingOn(o)`): where the
state is wrong for the call, `read_body`, `send_body` and `end` unlock, call the
callback with `false` and, for want of a `return`, start the operation after that.
`reads` and `writes` are the operations under way, `wire` records for each message
whether it carried status and headers, `head` that `m_resp` holds them.
Completions run on the worker when it is not busy.  `Throw` is `handle_exception`
(`router.cpp` 208-237), called by every callback and by `on_request`: a status and,
unless the connection `is_finished`, an `end` ("abort").  A mutex unlocked without
being held, which is undefined, is modelled as the usual outcome: it is free.
A stream's helper used after its deletion is a choice of both ways it can go on.

A `program` is an application: which calls it makes from which threads, how many, whether
the worker's user code is careful, that is keeps to the rules of `MayCall` (read until the
body is read, then answer; one call at a time; none after `end`; no exception while a call
other than `end` is under way), and whether it throws.  `Init` picks one of `Programs` and
no step changes it, so one run covers them all.

### HttpRouter

`Load` and `Store` are the two halves of every configuring call; `_routing_update_mtx`
is held between them, so they do not overlap.  A request keeps the `info` it loaded in
`OnRequest`.  `MiddlewareStep` runs the next middleware: `logger` passes the request
on, `mime` wraps the connection if the target's extension has a type, `rewrite` wraps
it and changes the target, `later` is a middleware of the application that reads the
body and goes on from the callback (`Resume`, where the router's try blocks are left
behind), `throws` one that throws.  `wraps` are the wrappers around the connection;
a call at a level goes through those below it, which is how `Ended` and `SetType` find
out whether a Content-Type is added.  A route's pattern is the set of targets it
matches; the route chosen is the first.  `keys_fit` false is a pattern with groups of
its own, which fails the size check.  `FileAnswer` is the callback of `skip_body`, with
the bare connection.  `HandleException` works at the level where the exception is
caught: the connection that was routed inside the try block of `do_routing`, the bare
one elsewhere.  The application's `notfound` and `error` handlers are asked there, and by
`do_routing` (`Refuse`), without a look at what the response has come to: they may end it or not
(`Replies`), and where they end it a second time the history `again` counts it; with
`ErrorThrows` they may also throw before or after that (`Breaks`), and then are asked once more by
`on_request` if it was `do_routing` that called them.

`RoutingTable` is what the router promises: a call that configures it takes effect at one
moment, once, on all that was configured before; a request takes the table at one moment
and keeps it.  `ImplementsTable` says that the router keeps the promise, with `Store` for the moment of
a call and `OnRequest` for that of a request.

### JsonRpc

One message is followed from `handle_message` to its response; messages share nothing
but the registered methods, and `register_method` is called before the first.  `next`
is the loop over the contexts, `held` the contexts functions keep.  `Respond` is
`respond` and `error` down to the callback of the context: for a single call it sends
at once, for a batch it is `handle_result`.  `CallFunction` lets a function answer, keep
the call or throw, `Terminates` is the exception of `get_method`, which is `noexcept`.
Two rules are assumed of the application: a call is answered once, and the answers of a
batch do not overlap, since `handle_result` has no lock.

### Server

`worker[w]` is what the thread of queue `w` does, or the completion it handles; `under[w]`
are the operations gRPC has under way for it, `ready[w]` the completions it has not taken.
Only completions whose continuation does something become ready: a call that did not come,
a Read that failed, a Finish that is over do nothing (`Inert`).  A call is reduced to the
operations it starts and the hub it enters and leaves: `Connect` to `ServerCloses` are the
handlers of `WsConnection` and `WsHub` with one message for the headers, one CLOSE of `close_all`, and one
of the application for the connections in `Closed` (`AppCloses`, `AppQueues`), which it may also never close;
`pending` is what waits behind the message that is being written.
`shutdown_server` is followed step by step by `phase`: `close_all`, which holds the hub's lock (`HubFree`)
while it queues a CLOSE for one member after the other (`CloseEach`), each under the lock of that
member's queue (`QueueFree`), which `send_cb` holds while `on_disconnect` waits for the hub's
(`ServerCloses`); the `Shutdown` of the
server, which waits until no call is live and makes them all fail at its deadline
(`Deadline`), then for each queue (`turn`) its `Shutdown` and the join of its thread, then
the service and the hub.  `by` is the thread that makes the call; a worker inside it runs
nothing else, so that joining itself throws (`JoinThrows`).  `Start` on a queue that has
been shut ends the program (`aborted`), as the assertion of gRPC does.  `cut` remembers what
may cut calls short: a client that breaks off, the deadline, a thread that had not
registered yet when the shutdown began, a shutdown called by a handler, a close of the application that
is still under way when it begins or comes after it.

The contract assumed of gRPC: a server that stops gives back the calls it was asked for and
accepts no new ones; it is stopped when no call is live; the operations of a call that is
gone complete with `ok` false; `Next` returns false when a queue was shut and nothing is
left of it.

### Uri, FileSystems, Routes, StaticFiles

Texts are sequences of bytes, because what these modules compute is about single characters:
slashes, dots, percent signs.  `Uri` has the parts of a resource, `Query` left encoded as
in the constructor, `FormData` decoded as in `parse_formdata`, and the coding, where the
"byte" 256 stands for the exception of a wrong digit.  The loops of `uri.cpp` are recursive
functions: `Read`, `Code` and `Turn` are their bodies, what they carry from turn to turn is
the value of the function.  A file system is a map from names to a
version of a file, a directory or something else; a version stands for its size, bytes and time
of modification together, so two versions written within the one second the time is rounded
to are not told apart by the code and are left out here.  `ProperName` says what the names in a
file system are like (`SitesHoldFiles`): no empty name and no dot in them, a slash behind every name but that of a
file.  `Fixed` is `zip_fix_path` with its loop, whose body is `Taken`; `Resolved` is what the operating
system makes of a path, by the names in it (`Names`, `Joined`); a path that ends in a slash, or in a dot behind
one, asks for a directory and finds no file (`AsksDirectory`).  `Routes` has the pattern of a
route as parts and `Shares` the ways a path can be shared out among them: it is cut at slashes
(`Cuts`), and each part has to fit what is between two cuts.  Regular expressions
of the application other than the `.*` of `serve_dir`, which matches what has no line end, are not interpreted.  `Quoted` escapes
character after character as the code does, and `Reads` is what the result matches, one character
at a time (`Scan`).

`StaticFiles` follows one request.  `CheckExists`, then the four looks of `get_file` (`Canonical`,
`Status`, `LastWriteTime`, `FileSize`), `Open` or `List`, and each chunk that is read (`Send`) are the looks at
the file system of `filesystem_route_handler::on_request` and of `send_body` with a stream; `Change` may
come between any two of them, `history` holds what was there in turn.  The opened file (`stream`) is the
one the name stood for then: written in place it reads what was written, replaced or removed
what it was.  An archive does not change, so the same steps do for it.  A chunk is what one read
returns, of one version, and a write is one moment.  After a listing the client may follow one of its
links (`Follow`), as clients do: what follows a `#` is dropped, what has no place in a path is
percent-encoded (`AsSent`), and the rest goes behind the directory of the resource it came
from.  Paths with dots, which a client would take out, are not followed.
`PathsGoDown` leaves out requests, directories and names with `..`: the operating system would follow it
to the directory above, an archive looks for it as a name.  The requests with a `form` are those to
an application's route that reads it.

## 3. What is checked

Every `CHECK_DEADLOCK FALSE` is there because the system does stop: a connection ends,
a request is over, the application owes no further call.

| Run | Bounds | What it shows |
|---|---|---|
| `ws_connection` | 2 other threads, 2 messages, 2 closes, 2 client messages under way; no exceptions; no send or close from `on_disconnect` under `send_cb` | `NoMessageAfterDisconnect`; under fairness `CloseDisconnects`, `EveryMessageSettles` |
| `ws_throws` | 2 other threads, 3 messages, 2 closes, 3 client messages; exceptions, calls from anywhere | `FrontIsInFlight`, `FinishedOnceAfterDisconnect`, `NoWriteAfterFinish`, `ImplementsOutbox` |
| `hub_groups` | 2 connections, each on its worker, 1 application thread, 2 groups | `NoStaleMember`, `GroupStableWhileIterated`, `ImplementsMembership`, with moves from `on_connect` and `on_message`, broadcasts and `close_all` |
| `hub_closing` | the same, `close_group` instead of broadcasts | `MembershipMatchesAttr`; under fairness `DisconnectsFinish`, `OperationsFinish` |
| `hub_deadlock` | the same, a broadcast and a `close_group` | violated: `BroadcastFinishes` |
| `http` | three programs: the worker alone with care and exceptions, 6 calls; the worker reads and 2 threads send, 6 calls; any 3 calls of the worker and a thread, with exceptions. Body of up to 2 messages, 3 chunks | `NoSelfDeadlock`, `HeadFirstOrLast`, `NothingAfterFinish`, `OneReadOneWrite`, `CallbacksMatchCalls`, `NoCallForgotten`; under fairness `CallsSettle` |
| `router_setup` | 1 request, 4 targets, 6 updates in every order, exceptions, `notfound` and `error` handlers that may end or not, and throw | `UpdatesKept`, `ServedBySnapshot`, `EndedOnce`, `OneContentType`, `ImplementsTable`; under fairness `EveryRequestAnswered` |
| `router_not_found` | the example application, 1 request | violated: `NotFoundAnswered` |
| `router_mime` | the example application, 1 request | violated: `DetectedTypeSent` |
| `json_batch` | batches of up to 3 requests of every form, 2 methods, 2 values | `TypeOK`, `OneResponse`, `NothingOpenAfterResponse`, `ResponseMatches`; under fairness `EveryMessageAnswered` |
| `server` | 2 queues, 1 thread that shuts down, or a handler; 1 WebSocket with 1 HTTP request, or 1 WebSocket that the application may close | `ServiceOutlivesThreads`, `MembersTold`, `CleanWhenUncut`; under fairness `ShutdownEnds`, which leaves out the one crossing of locks |
| `static_files` | 31 resources, 3 If-Modified-Since, 6 file systems, listings or not, 2 changes, 2 chunks of a body; forms of up to 2 parameters from 6 words | `AnsweredByName`, `FilesStayServed`, `LinksLead`, `FormSurvives` |

Why the bounds are enough.  Two threads beside the worker are the least for two pushes
to race each other and a completion; three messages make a queue with a front, a middle
and an end; two closes let a CLOSE be queued behind another and one be pushed after the
connection is done.  Two connections on two workers are what the lock cycle and every
race of the hub needs; two groups what a move needs.  Requests share nothing but the
routing information, so one request against all orders of six updates says what more
would.  A batch of three has a first, a middle and a last request, each answered at once or
later.  Two queues are the least for the shutdown of one to meet a thread of another that still runs; one
call of each kind gives every order of arrival, connection and close against every step of the
shutdown, and calls share nothing but the hub's set.  The HTTP request and the close of the application are
kept apart (`Apart`), as they meet in nothing but the queue; the proofs hold for every `Apart`, the empty
one included.  Two changes put a file's removal and return, or
two versions, between any two looks of a request; two chunks have the body of a file change on the way.  `MaxCloses`, `MaxInbox`, `MaxBody`,
`MaxChunks`, the limit of a program and `MaxChanges` are bounds of the models only; the proofs hold
for every value of them.  The modules whose theorems state it keep a type invariant; for the
others the runs check properties about hazards instead.

Symmetry is used in safety runs only: over threads and messages in `ws_throws`, over
connection-and-worker pairs in `hub_groups`.

### Fairness

The code's scheduling justifies: a handler of the user returns; a thread inside an
operation goes on, and gets a mutex that is free again and again (`SF`, since other
threads take it in between); a completion queue is first in first out, so a completion
that is there is taken in the end even if the worker is busy with others in between
(`SF` on `Read` and `WriteDone`).  The application
answers the calls it keeps in the end (`JsonRpc`).  The threads of the server and the one that
shuts it down get on, gRPC completes what it can, and the deadline of the shutdown passes
(`Server`, one `WF` for
all of them: each step uses up some of what is bounded, so that none can keep another from its turn).  Nothing is assumed of the client, of the application's
willingness to call, of arrivals, or of updates.

### Findings

- `hub_deadlock`: `broadcast` holds a group's `cons_lck` and takes each member's
  `response_queue_lck`; a member's `send_cb`, after its CLOSE was written, holds
  `response_queue_lck` and waits in `hub::on_disconnect` for `cons_lck`.  Neither worker
  goes on.  `close_all` has the same order as `broadcast`: a shutdown that meets a connection which the
  application has just closed may wait for ever (`LocksCrossed` in `Server`).  `close_group` has not, as it
  goes through a copy of the set.
- `router_not_found`: without a `notfound` handler a request without a route gets its
  status set and is never ended, so the client hears nothing; the unit test looks at
  the status of a dummy connection and cannot tell.
- `router_mime`: `skip_body` gives its callback the bare connection, so the wrapper of
  `mime_type` is bypassed by the file handler, the one it was made for.

Further behaviour of the code that the models show and no document contradicts is listed
under "hazards" in `PROJECT.json`: messages sent before `on_connect` returns overtake the
response with the headers; messages queued behind a CLOSE are written after it;
`on_disconnect` is delivered twice when both sides close, and never when a Read fails;
`end` with a body repeats status and headers after `send_body`; two threads that move one
connection leave it in two groups; behind a middleware that has read the body the file
handler answers twice; a shutdown called by a handler is never finished; a call cut by the
deadline may end the program in an operation on a shut queue; a directory with a socket in
it cannot be listed; the links of a listing without a slash at the end of its path lead one
directory too high, and names with a space, a `#` or the like are not found again, since links are not
encoded and paths not decoded; a file written while it is answered is sent with the time, the length and
chunks of different versions; an application's error handler that ends the response ends it a second
time if the handler that threw had ended it.

## 4. What is proved

`WsConnectionProofs` proves, from `ConstantsOK` alone unless said otherwise, for any
threads, messages and bounds:

| Theorem | Property |
|---|---|
| `TypeCorrect` | `TypeOK`, the types on which the others rest; no run of its own |
| `OneWriteAtATime` | `FrontIsInFlight` |
| `Refinement` | `ImplementsOutbox`: the initial states and every step of the connection map to those of `WsOutbox` |
| `FinishOnceHolds` | `FinishedOnceAfterDisconnect` |
| `NoLateMessage` | `NoMessageAfterDisconnect`, assuming handlers do not throw |
| `NoLateWrite` | `NoWriteAfterFinish` |

`FrontIsInFlight` is not inductive: that the front of the queue is the message on the wire
needs to know that the queue is what was accepted and not yet acknowledged.  `QueueInv`
says so: `response_queue` is `accepted` from `acked + 1` on, `wire` is a prefix of
`accepted` one longer than `acked` at most, and exactly one longer while the queue is not
empty and the connection not done.  Only `Enqueue` and `WriteDone` change the queue; each
has a lemma, and the refinement reuses the invariant on both sides of a step.
`EndInv` adds that a worker inside `on_disconnect` has counted the call, which makes
`done => disconnects > 0` inductive.  `DisconnectedInv` says that after a disconnect
either the connection is done, or the worker is still in `on_disconnect`, or no Read is
armed.  `CallInv` says that the worker's own pending message was checked in the handler it
is still in, and `BeginInv` that nothing ends a connection before `on_connect` has run;
together they say that for the worker the check of `done` and the push are one.

`WsHubProofs`:

| Theorem | Property | Assuming |
|---|---|---|
| `StableWhileIterated` | `GroupStableWhileIterated` | nothing |
| `NobodyStaysBehind` | `NoStaleMember` | `OnlyOwnMoves` |
| `InOneGroup` (a corollary) | a connection is in one group at most | `OnlyOwnMoves` |
| `MembersAreNamed` | `MembershipMatchesAttr` | `OnlyOwnMoves`, `NoCloseAll` |
| `Refinement` | `ImplementsMembership` | `OnlyOwnMoves` |

However the hub is used, its locks have one holder (`LockInv`): a thread that starts to go through
a group needs the lock free, and every other step that changes `members[g]` needs it free too.
`OnlyOwnMoves` says that a connection is moved by its own `on_connect` and `on_message` only, the
handlers the hub gives it to while it is connected; nothing in the code asks for that, but without
it the properties are false: two threads that move one connection leave it in two groups, and a
move from `on_disconnect` puts it back into one.  The invariant then follows a connection between the steps of
a move: who moves it runs a handler of it (`MoveInv`), on the one worker it has, and has read the
attribute that is still there; it is a member of the group its attribute names unless it has been taken
out of one and not yet put into the next (`Between`, `MemberInv`).  `NoCloseAll` is there because
`close_all` empties the groups and leaves the attributes.

For `Refinement` each step of the hub is a step of `Membership` or leaves groups and phases
alone.  It needs `NamedInv`: a connection whose callbacks run has a group, since the attribute is
set before the first message is read and reset only when everything is over; so `on_disconnect`
always finds the group to take it out of, and a move never brings back who has gone.

`HttpConnectionProofs`:

| Theorem | Property | Assuming |
|---|---|---|
| `NothingForgotten` | `NoCallForgotten` | nothing: any program, with or without care |
| `OneOfEach` | `OneReadOneWrite` | `Ruled` |
| `WorkerGoesOn` | `NoSelfDeadlock` | `Ruled` |
| `HeadLeads` | `HeadFirstOrLast` | `Ruled` |
| `AnsweredOnce` | `CallbacksMatchCalls` | `Ruled` |
| `EndsOnce` | `NothingAfterFinish` | `Ruled` |

`NothingForgotten` is a count: the calls made are no more than the callbacks given, the operations under way and the
threads that wait for a mutex, and each step changes the two sides alike or adds to the
second, when a refused call goes on (`Tally`).  With care and without exceptions no call goes on, the sides stay equal
(`Matched`), and each call has its one callback.  `Ruled` says what care means: either the worker makes all calls, or it reads, nobody
throws, and other threads only send.  These are the careful programs of the run `http`, and no wider
class will do: a thread that streams the answer while the worker throws or ends makes the worker wait for a mutex
that a completion it would have to handle itself gives back.  The invariant says who may be inside an operation
when: reads before the end of the body and only on the worker (`ReadInv`), writes after it and
before the end (`WriteInv`), the worker alone in one operation or with one under way (`AloneInv`), or one
sender with the mutex and the others waiting for it (`BesideInv`).

`HttpRouterProofs`:

| Theorem | Property | Assuming |
|---|---|---|
| `NoUpdateLost` | `UpdatesKept` | nothing |
| `Snapshot` | `ServedBySnapshot` | nothing |
| `OneType` | `OneContentType` | nothing |
| `AnsweredOnce` | `EndedOnce` | `FilesFirst` |
| `Refinement` | `ImplementsTable` | nothing |

With the mutex there is one update at a time, and it changes a copy of what is still published
(`UpdateInv`); so what is stored has every update before it.  A request is where the chains of the
information it took have brought it: it has run the first of its global middleware, then the first
of its route's (`GlobalInv`, `LocalInv`), its target is what the rewriting ones among them made of it, which
`RewrittenTimes` counts (a recursive function whose equations are shown first), and the wrappers around
the connection are those they added.  `FilesFirst` is needed because behind a middleware that has
read the body the file handler answers twice (see the findings' list above).  `EndedOnce` counts the
ends made by the application's own handlers on a response that was ended apart (`again`): the rest
is one at most, because `handle_exception` asks `is_finished` before its own.  `Refinement` takes
the steps of the router one by one: `Store` is `Configure` of the table, for which no call may be
stored twice (`MadeOnce`), `OnRequest` is `Take`, and every other step changes neither.

`JsonRpcProofs` proves of the JSON-RPC dispatcher, for any methods and batches of any length:
`TypeCorrect` (`TypeOK`), `RespondsOnce` (`OneResponse`), `RespondsLast`
(`NothingOpenAfterResponse`) and `RespondsInOrder` (`ResponseMatches`).  `OneResponse` is not
inductive: a second answer would send a second response if the map could be complete before
the last answer.  `SentInv` says that a response is only there once all calls are answered, and
`MapInv` that the entries of `result_map` are the calls answered; a set of positions as large
as the batch is the whole batch (`FullMap`), so an answer to an open call finds no response
sent.  `Values` says that the map holds what the functions answered; that the loop of
`handle_result` over it lists the answers to the requests with an id, each in its
place, is shown turn by turn with `Induction` (`Lists`).

`ServerProofs` proves of the server, for any number of queues, any calls and any threads that
shut it down, from `ServerConstants`: `ObjectsOutliveThreads` (`ServiceOutlivesThreads`), `AllTold` (`MembersTold`)
and `CleanShutdown` (`CleanWhenUncut`).  The first property
speaks of the end only; the invariant `IInv` says how it comes about: the threads of the queues
before `turn` have ended or were never started (`JoinedInOrder`), and the service is destroyed when
`turn` is past the last queue (`DestroyedLast`).  What could break it is a thread that is
started again: `ExitFirst` says that `exit` is set before the first join, and `StartServer` asks
for it not to be set.  No thread that has ended takes a step, which needs that a
completion is never mistaken for the end of a thread.  For `AllTold` a member of
the hub is followed from `close_all` on: it is one of those still to be closed (`left`), or a CLOSE is on its
way: being written, ready, in the worker's hand or as far as `on_disconnect`, or waiting in `pending`
behind a message that is being written (`CloseComes`, `Closing`); what is owed is on the queue of its
call (`Placed`), and a thread ends only when its queue is empty (`EndedIsEmpty`), so when all have been joined
nothing is owed and everybody has been told.  For `CleanShutdown` the calls are followed
from one operation to the next (`BeginsOnce`, `HttpInOrder`, `WsInOrder`): unless something cuts them short
they end by being finished (`FinishedIfGone`), and are over before the first queue is shut (`OverBeforeShut`).

`StaticFilesProofs` has four theorems.

| Theorem | Property | Assuming |
|---|---|---|
| `FilesServed` | `FilesStayServed` | `SitesHoldFiles`, `PathsGoDown` |
| `FormsComeBack` | `FormSurvives` | `FormsAreTexts` |
| `ListingLeads` | `LinksLead` | `SitesHoldFiles`, `PathsGoDown`, `ServedAsDirectory` |
| `AnswersByName` | `AnsweredByName` | `SitesHoldFiles`, `PathsGoDown`, `ServedByName` |

It proves, for any requests, `FilesServed` (`FilesStayServed`), from `SitesHoldFiles`, for any files
and any number of changes and chunks: what is there now is the last of the history (`Past`); what the looks have
brought so far are versions of the history in turn (`InOrder`), and the next look appends the last of it
(`TurnNow`), or another chunk what the stream reads, which is as late as the last chunk (`TurnAgain`); and
a file that stays one is taken for one by every look (`Stays`).  And it proves `FormsComeBack` (`FormSurvives`), for forms of any number of parameters with
any bytes in them, sent to resources without a query (`FormsAreTexts`): what a client codes with `url_encode` is
what `parse_formdata` gives to the handler.  No separator is left in an encoded text (`CodeIs`), so a turn
of the loop takes exactly the next parameter (`TurnIs`) and is split where its key ends (`PairIs`);
where `url_decode` has read the code of a character it has that character more (`DecodedEncoded`).

`ListingLeads` is about `serve_dir` as the example application calls it: `ServedAsDirectory` says that
its uri and its directory end in a slash and that the uri has no regular expression of its own.  Of the
requests it only asks that they are texts.  The links it speaks of are those a client sends as they
are, character by character (`SentIs`): the code does not encode the others.  A directory
given without the slash would run into the names behind it (`publica`), and a uri without it would
make `{fs_path:.*}` a piece of its last part, where it is no parameter any more.  `LinksLead`
is not inductive: it speaks of the second request of a client only.  `LinkInv` carries over what the first one leaves:
`Listing` ties the links of an answer to what the path of the request was read as, and `Leading`
says that the request made of a link is routed to the directory, that its path exists and is nothing
special, up to the answer; `WellNamed` that names stay proper whatever is written or removed.  The
step in which the client follows a link (`LinkFollow`) is where the recursions meet, and the lemmas
that come before it take them one by one.

 * What the client puts together (`LinkResolved`) is the path of the listing with the name behind
   it, and this is its own path, since it has no query: no character that is sent as it is begins one
   (`LinkFound`, `PathSame`).
 * A path that the route matches can be cut in one way only, up to the open end (`CutsAgree`),
   because each part before it says how long its share is: quoted text is matched by texts of its own
   length (`ReadsLength`), a parameter by what has no slash.  So a name behind such a path goes to the
   open end and to the parameter `fs_path`, and to nothing else (`ParamBehind`).
 * Either file system reads a name behind the path of a directory as that name behind what it
   reads the path as (`SaidBehind`): the operating system because the names of a path with a slash in it
   are those of its two parts (`NamesParted`), an archive because
   `zip_fix_path` erases nothing of a name (`FixedBehind`).  Both read a proper name as itself (`SaidName`).
 * What `get_files` cuts off an entry is what has to be put behind the directory to name it
   again (`EntryListed`, `EntryFound`).

`AnswersByName` says of every resource, not only of those a listing leads to, that the answer is
that of the names in it, and in both directions: what is named is found, and what is found is
named.  `ServedByName` asks for more than `ServedAsDirectory`: a uri without parameters, with
one slash between its parts; literal routes without parameters, written as the paths they stand for
(`/a/b`, not `/a//b/`, which would answer `/a/b`); the directory in an archive given
as the archive names it, up to a leading `./` or `/`; and an If-Modified-Since that is of a version of the file or missing.
The uri, directory and routes of the example application are like that, and so are those
of `static_files`.  The inductive invariant is
`NameInv`: besides `LinkInv` it has that a request on its way belongs to the directory and to no literal route
(`Placed`).  That what existed at the first look still does where nothing has changed, and that the entry and
the stream are what is there, is part of the invariant of `FilesServed` already (`Quiet`).  `PathsGoDown`
is what makes the names of a path what the operating system goes by; it holds of the code only
without `..`, which is why the module assumes it.  It rests on four facts about the texts.

 * A quoted text is matched by itself and by nothing else (`QuotedReads`).  `Quoted` goes through the
   text fourteen times, and it is right because the backslash comes first: what a later turn puts in front
   of a character is not taken for a character of the text by any turn behind it (`QuotedAppend`, `OrderOnce`).
 * A route without parameters matches its own path alone (`LiteralMatches`), and that of `serve_dir` what
   starts with its uri and goes on without line ends, which then is the parameter (`DirMatches`).  To
   take the parts of a route one after the other along a path (`Walk`) is the same as for
   the path to start with the parts put together (`WalkStarts`, `StartsWalk`).
 * `zip_fix_path`, one loop over characters, and the names of a path, another, go along with each
   other over every tidy path, from character to character (`Along`, `AlongNext`): at its end the
   one has kept the names of the other (`FixedOrderly`).  What makes a path untidy is what `LeftByZip` says:
   three slashes, or a dot that means nothing, anywhere but at its front.
 * Whatever a path ends in, what is found is what is named: a path that asks for a directory finds only
   that (`FindsDirectory`), any other the file or the directory of its names (`FindsOther`).  What is listed is
   what has one name more than the directory (`EntriesInside`, `ListsInside`).

The proof is also what showed a mistake in the model: `Resolved` used to take a regular file's path
with `/.` behind it for that of the file, which the operating system does not find.  It is a resource of
`static_files` now.

`Induction` holds what these proofs know of loops.  The induction theorems of the library
take a predicate, which the provers cannot instantiate; `SetInduction` says the same of the set of the
numbers at which a formula holds, and follows from the well-foundedness of the order.  `Recursion` gives the function a
recursive definition asks for, `Agreement` says that there is one only, and together they
open the definitions by `LET f[i \in ...]` of the models.

Only model-checked: all liveness, since fairness and `ENABLED` are beyond the prover.  Every
invariant and every action property of a passing run is the property of a theorem.

## 5. What is not modelled

Contents of messages, headers, logging, buffer hints, statistics.  Of the hub: `add_group`
and `set_default_handler` after the start, groups without a handler, `get_connection_group`.
Of the router: `set_debug_mode`, regular expressions in routes other than `.*`, log
output.  Of JSON-RPC: parsing, contents of answers, contexts answered
twice or at the same time.  Of the server: its destruction while another thread shuts it down,
a `start_server` that runs beside a shutdown.  Of the files: symbolic links and `..` (excluded by
`PathsGoDown`), a file replaced by a directory or a directory that goes, versions within one second, a listing
that is read while its directory changes (`get_files` is one look), writes that a read meets half done, the opening of archives, dates and sizes as text,
`get_filename`, `get_extension` and the look-up of parameters of a resource.  The MIME table
and the attributes are look-ups in maps.  Third-party and generated code (picojson, gRPC,
protobuf) and the client, example and build files are left out, except as environments.

## 6. Plan

1. done: `WsOutbox`, `WsConnection`, their proofs.
2. done: `WsHub`, composing connections with groups.
3. done: `HttpConnection`.
4. done: `HttpRouter`.
5. done: `JsonRpc`.
6. done: `Server`.
7. done: `Uri`, `FileSystems`, `Routes`, composed by `StaticFiles`.
8. done: `RoutingTable`, refined by `HttpRouter`.
9. done: theorems about every component, one module of proofs for each.
10. done: `Membership`, refined by `WsHub`.
11. done: `AnsweredByName` as a theorem, the last of the invariants.
12. Left out: an answer given once, as an abstract specification of `HttpConnection`, would say again
   what `HeadFirstOrLast` and `NothingAfterFinish` say, and hold for careful users only.

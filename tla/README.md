# kankakee: specifications

TLA+ models of the C++ network classes in `src/include` that `src/src/kankakee.cpp`
exposes to Python, and of the programs in `src/examples` where they decide how
those classes are used.

## Inventory

| part | state it keeps | operations | talks to | modules |
|---|---|---|---|---|
| `Server` (`Server.h`, `WinServer.h`, `MacServer.h`) | `sock`, `running`, what wakes the thread (`wake_fd`, an event, a kqueue) | `start`, `stop`, the detached thread `receive` | clients over TCP; Python callbacks `serverCallback`, `errorCallback` | `Server`, `ServerPromise`, `ServerProperties`, `WinServer`, `MacServer` |
| `Client` (`Client.h`, `WinClient.h`) | endpoint, timeout; a copy per request in a detached thread | `setEndpoint`, `transmit`, `run` | a server over TCP; `clientCallback`, `errorCallback` | `Exchange` (the bytes of one request), `ClientPool` (many requests) |
| `Listener` (`Listener.h`) | `sock`, `running` | constructor, `start`, `stop`, thread `listen` | a multicast group; `listenCallback`, `errorCallback` | `Listener` |
| `Broadcaster` (`Broadcaster.h`, `WinBroadcaster.h`) | `sock`, `broadcast_address` | constructor, `send`, `recv`, `enableLoopback` | a multicast group | `Broadcaster` |
| `NetUtil` (`GnuNetUtil.h`, `WinNetUtil.h`, `MacNetUtil.h`) | none between calls | `getAllAdapters` | `ip`, `nmcli`; Windows' tables; CoreFoundation, `netstat` | `LinuxNetUtil`, `WinNetUtil`, `MacNetUtil` |
| binding (`kankakee.cpp`) | none | no call releases the GIL | Python | in all of the above |
| `tui.py`, `server.py` | event subscriptions, timers, a notification server | subscribe, renew, unsubscribe, notifications | cameras over HTTP | `Subscriptions`, `Notifier` |
| `camera.py` | the list of cameras | discovery | cameras over UDP and HTTP | `Discovery` |
| `nlohmann/json` (vendored) | a document | parse, dump, five binary formats, pointers, patches | `GnuNetUtil.h` parses with it what `ip -j` prints | `Json` and the modules it extends |

What makes each part correct:

* `Server`: one receiver per object, every accepted connection closed exactly once, nothing
  left of it after a `stop()` that returned, every `stop()` effective in the end;
* `Client` and the server's half of an exchange: a request is seen whole and answered
  whole, or somebody reports it; both ends come to an end; each request goes on with its own
  descriptor and calls back;
* `Listener`: datagrams once and in order, silence after `stop()`, no foreign descriptor
  touched, no thread on a destroyed object;
* `Broadcaster`: nothing that was received is lost, and who hears what is sent;
* `NetUtil`: an adapter is described as the machine had it at some moment of the call, the
  mask agrees with the prefix length, the best route wins, nothing but the known is leaked;
* subscriptions: each recorded once, no timer that nobody can stop, and a key leaves no more
  chains of renewals than were in flight and a new one; one notification server, known to
  whoever has to shut it down;
* discovery: a camera is shown once, and shown if it answered;
* JSON: what was written is read back, a part of it is not; exactly the grammar is
  accepted; a patch leads from one document to the other.

What is hard in this code, and where (`PROJECT.json`, "hazards", has the list):

* `start()` and `stop()` run with the GIL held, the receive thread needs the
  GIL for its callbacks, and `stop()` waits for that thread: five seconds, on Windows for ever;
* `sock`, `running` and `pfds` are shared by the threads without a lock, and
  `close(sock); sock = -1` is not one step;
* what wakes the thread outlives it: `wake_fd` that is not read, a manual-reset event, a
  kqueue event that nobody retrieved;
* `start()` that fails leaves `sock` set, and its descriptor open;
* every error inside an iteration goes through the fallback close;
* the end of a request is found where a segment happens to end;
* objects are reused in an order nobody wrote a test for;
* in the ONVIF examples renewals run on worker threads against the list that the main thread
  clears, and two workers may start a notification server each;
* the adapters are put together from several questions to a network that may change
  between them.

## Plan and composition

The plan of the project, in the order of what matters to the program: `Server` with its
promise and proofs; `Exchange`; `Listener`; then `WinServer` and `MacServer`, variants with
a state of their own; `ClientPool`; `Subscriptions`, `Notifier`, `Discovery`;
`Broadcaster`; the three NetUtils; JSON. All of this is done. Open: see "Not modelled".

Modules refine each other where the code does. A `Server` and a `ClientPool` see a request as one
step, `Exchange` looks into that step; `Server` implements `ServerPromise`; `Json` composes
the parser, the builders, the serializer and the binary formats. `WinServer` and `MacServer`
implement the same `ServerPromise`, as far as it is one about safety. What has no state in common
is not composed: `MCOnvif` and `MCHost` put small modules into one run, where a variable
`part` chooses the one that moves. Each part keeps its own variables, the
others stay in an initial state, and every property speaks of one part, so that the run shows of
each part what a run of its own would; its fairness is that part's.

## Server

`Server.tla` is `Server.h` on Linux plus what the kernel keeps for it.

| model | code |
|---|---|
| `sock`, `running`, `pollFd`, `wake` | the fields `sock`, `running`, `pfds[0].fd`, and whether the counter of `wake_fd` is not zero |
| `files` | the descriptor table of the process: closed, a fresh socket, the listening socket, a client connection, a file of other code |
| `gil`, `call` | who executes `start()` or `stop()`, and at which step; Python code of any other thread waits while `gil` is not `Nobody` |
| `pc[t]`, `client[t]`, `peer[t]` | where thread `t` is in `receive()`, its local `client`, the connection behind it |
| `status[c]` | a client: not connected, in the backlog, accepted, answered, disconnected |
| `phase` | the outcome of the owner's last call; `misused` and `stale` are history variables for the properties |

Every action is one step between two points where another thread can see the
difference: the system calls of `initialize()`, `running = false` and the write to
`wake_fd` in `stop()`, the loop test, `poll`, the read of `wake_fd`, `accept`, the
request, the callback, the response, the three places that close, and the two halves of
`close(sock); sock = -1`. `accept()` and `close()` use `sock` as it is then, `poll()` uses
`pollFd`, as in the code. `MayStart` says how the owner behaves:

* `"once"`: `echo_server.py`, one `start()` per object, `stop()` repeated while it throws;
* `"restart"`: also `start()` after a normal `stop()` or after a failed `start()`, and
  `stop()` at any time;
* `"any"`: every order, `start()` on a started server included (`misused`).

Abstractions. Time is not modelled: the five seconds of `stop()` may be over whenever the
socket is still open, the timeouts of `recv` and `send` may strike whenever they wait.
`Recv` and `Send` are one step each, so a client that trickles bytes for ever is outside
this model. Races on the plain fields are interleavings of whole reads and writes.
`std::thread` failing to start a thread, and a Python `errorCallback` that raises inside
`catch`, end the process and are left out.

Failing system calls and raising callbacks are counted and bounded by `MaxFaults`.
A failed `start()` leaks its descriptor, and with no descriptor left `accept()` fails for
ever; `Fds` is large enough for `MaxFaults` leaks, the socket, one client and a file of others.

The descriptor table is that of the process, so other code may open and close files at any
moment (`OtherOpens`, `OtherCloses`, at most `MaxOthers` at a time), and whoever opens one
gets the lowest free number. That matters after a `close()` that reported an error
(`Server.h:284-286`): it has released the number, `client` still holds it, and the fallback
close (lines 293-296) may hit a file that was opened in between. What that code does with
its file gone is not followed, and none of its files is a socket bound to the server's port.

`ServerPromise.tla` is the abstract specification: port, queue, one client served at a
time, the port given up only at the end and not opened again, everything over after `stop()`
returned.
`ServerProperties.tla` holds the properties, the refinement mapping (`Abstract`) and the
inductive invariants.

Fairness (`FairSpec`): threads and native calls run (weak fairness); callbacks and the
acquisition of the GIL by a waiting thread are strongly fair, because CPython makes the
holder of the GIL yield to a waiting thread when it returns to the interpreter. Clients
need not connect and the owner need not call anything.

### Runs

| run | question | bounds |
|---|---|---|
| `server_any` | any order of calls: one receiver at most, every number it keeps refers to what it stands for (`DescriptorsKept`: it polls the listening socket, loses no client, closes nobody else's descriptor but in a fallback close after a `close()` that reported an error); unless started twice nothing is left after `stop()`, no orphan listening socket, and `stop()` never returns to a callback | 2 threads, 2 clients, 4 descriptors, 1 fault, 1 file of others, no `errorCallback` |
| `server_restart` | object reused: the loop ends only for a `stop()` or a wake left by an earlier one; every client is resolved, `stop()` takes effect in the end | 2 threads, 2 clients, 5 descriptors, 2 faults, 1 file of others |
| `server_once` | object used as in `echo_server.py`: implements `ServerPromise` with its fairness | 2 threads, 2 clients, 4 descriptors, 1 fault, 1 file of others |
| `server_quit` | expected violation: the `QUIT` request of `echo_server.py` is not answered, because `stop()` inside the callback can only time out | as `server_once`, 3 descriptors |

Two threads are one more than may ever be active (`OneReceiver`), so a third adds nothing;
two clients are one in service and one in the queue; one fault reaches each error path
and two put a leaked descriptor and a second failure into one behaviour. Deadlock is
checked where the owner may always call again; a server used once really ends.

What the runs taught: a stale wake makes the next `start()` on the same object die at
once with `running` still true (`LeavesOnlyWhenStopped` names it as `stale`); a `start()`
on a started server never creates a second receiver but leaves the first socket listening
for good (`NoOrphanListener` holds only without misuse); a `start()` that failed in
`bind()` makes every later `stop()` throw; the fallback close may close a file of other code
(`NoForeignClose` names when), but never the listener or a client.

### Proofs

`ServerProofs.tla` proves for every set of threads, clients and descriptors, every bound
and every discipline:

* `ServerTypes`: the type invariant;
* `ServerOneReceiver`, through `ReceiverInv`: an active thread implies a listening socket,
  `bind()` refuses a second one, only an active thread closes it, and no local `client`
  names it. `OneReceiver` alone is not inductive: without the socket nothing would keep
  `StartRun` from adding a second thread;
* `ServerStoppedIsQuiet`, `ServerNoOrphan`, `ServerSelfStop`, through `LifeInv`: without
  misuse there is at most one live thread, it lives only while the owner believes the
  server started, and it never lives without `sock`; so `stop()` sees `sock = -1` only
  when the thread has gone;
* `ServerLeavesOnlyWhenStopped`, through `WakeInv`: where `running` and `wake` are both set,
  the wake-up is older than the last `start()`;
* `ServerDescriptorsKept`, through `DescriptorInv`: who polls or holds a number is the only
  one to close what it refers to, and without misuse no `start()` takes a number while it is
  held; that an iteration may end by forgetting `client` needs that its connection has been
  closed when `realert` is reached. `HeldInv` says when `client` may refer to something
  else, the exception of `NoForeignClose`: once the answer was sent and `close()` has
  reported an error. Other code takes free numbers and closes its own, which disturbs none of
  this;

* `ServerImplementsPromise`: under the discipline `"once"` every step maps to a step of
  `ServerPromise` or to a stutter, through `OnceInv` (`start()` finds no wake-up and no thread,
  and its thread polls what it opened) and `ServedInv` (an open connection is the local `client`
  of a thread that has yet to close it). The promise opens one port once, so it is one about
  that discipline only.

The assumptions are those of `Server.tla`: descriptors are positive, the sets do not
overlap. `CallInv`, that the GIL is held exactly during a call, serves them all; `IInv` is the
whole invariant. Liveness, and with it the fairness of the promise in `KeepsPromise`, is
model-checked only.

## Exchange

`Exchange.tla` follows one request and its response through both ends: `Client::run()` and
the part of `Server::receive()` between `accept()` and the end of the iteration.

| model | code |
|---|---|
| `request`, `accum`, `received` | `Client::request`, the local `accum`, the size of the local `received` |
| `cpc`, `outcome` | where `run()` is, and which callback it ended with (or that the program exited) |
| `spc`, `taken`, `input`, `seen` | where the server is, the bytes that `recv()` has returned, the stream `input`, what `serverCallback` was given |
| `rsent` | the local `accum` of `sendServerResponse()` |
| `hangup`, `failed` | FIN or RST from the server's side; an exception, or `stop()`, ended the server's work |

A `send()` or `recv()` moves any number of bytes that buffer and data allow (`ClientSend`,
`ServerRecv`, `ServerSend`, `ClientRecv`), so every cut of the stream is explored. The
request consists of ordinary bytes, NUL, CR and LF, because `std::string(buffer)` stops at
a NUL and the end is recognised by `endsWith("\r\n")` after a segment; of the response
only the length matters. `WithoutEnd` is `substr(0, length() - 2)` with its wrap-around.

`ClientFail` collects the exceptions of `run()`: its `return` leaves the connection open, so
the server ends by its own timeout (`ServerTimeout`, `ServerSendFail`). `ServerClose` sends
RST where bytes are unread, and `ServerGone` is the reset of the backlog when `stop()`
closes the listening socket. After RST, bytes that have arrived may still be read or may be
lost.

| run | question | bounds |
|---|---|---|
| `exchange` | does the callback see a line of the request (`SeenIsLine`), is a shortened response always reported (`ReplyIsWholeOrReported`), is a request of one line never reset (`OneLineIsNeverReset`), do both ends come to an end (`BothEnd`)? | six requests of up to 6 bytes: one line, two lines, a NUL, no line end, one byte, none; `Window` 4, `RecvSize` 3, `ResponseLength` 5 |

The response is longer than the window, which is longer than the receive buffer, and the
longest request is longer than both: each loop turns more than once and each side can be
made to wait. Deadlock is not checked since an exchange ends. Fairness is weak fairness of
either end: each runs in a thread of its own and every wait has a timeout.

What it taught: a request with a line end in the middle is answered as soon as a segment
happens to end there, the rest may turn the close into a reset; a client that hits a timeout
between two segments is not told apart by the server from one that is slow; and after an
exception of the server's `send()` the client calls `clientCallback` with a part of the
response, as end of file is all that marks the end.

`ExchangeProofs.tla` proves for every set of requests, response length, buffer and window:
`ExchangeTypes`; `ExchangeSeenIsLine`, through `LineInv` (`input` is the prefix of the
request that was taken: `recv()` appends the next segment, `ConcatAdjacentSubSeq`) and
`EndsOnce` (an exit, which excuses the server, is not overwritten);
`ExchangeReplyIsWhole`, through `ReplyInv` (FIN without an exception follows the whole
response); `ExchangeOneLineIsNeverReset`, through `FramedInv` (with one line end, at the
end, all of the request was taken when the callback is due, so nothing is unread at
`close()`). `SeenIsLine` and `OneLineIsNeverReset` speak of requests without NUL: with one
the callback may see less, and a CR and an LF around a NUL may be joined. `BothEnd` is
model-checked only.

## Listener

`Listener.tla` is `Listener.h` with the socket's receive buffer.

| model | code |
|---|---|
| `sock`, `running` | `sock > -1`, `running`; only the constructor opens a socket, so one number is enough |
| `file`, `dangling` | what that number refers to: the listener's socket, nothing, another's descriptor; whether a `close()` that reported an error left it in `sock`, and whether `start()` has used it since |
| `arrived`, `buffer`, `heard` | datagrams that reached the host, that are in the receive buffer, that were given to `listenCallback` |
| `stopping`, `phase` | `stop()` is waiting with the GIL; the outcome of the owner's last call |
| `pc[t]`, `held[t]` | where thread `t` is in `listen()`, and the datagram it read |

The steps are the loop test, `recvfrom`, the callback, the alert, `close(sock)` and
`sock = -1`; `Start`, `Stop`, `StopReturn` or `StopTimeout`, and `Destroy` for the
destructor. `discipline` is chosen at the start and never changes: `"once"` (start, stop until
it returns, drop), `"restart"` (also start a stopped object, and stop at any time), `"any"`
(also twice, which sets `misused`).

| run | question | bounds |
|---|---|---|
| `listener` | under every discipline datagrams come once and in order; unless started twice, or again after a failing `close()`, no foreign descriptor is touched; unless started twice nothing comes after a normal `stop()`, `stop()` takes effect; the thread has ended when an object used once is dropped, and what the kernel accepted is heard until `stop()` | 2 threads, 3 datagrams, 2 in the buffer, 2 faults |

Three datagrams against a buffer of two let the kernel drop one and keep a later one; two
threads are the listener's own and the one of another `start()`. Fairness is that of
`Server`: threads run, `stop()` gives up after five seconds, the GIL is strongly fair.
Time is not modelled; a datagram that does not arrive is one that does not happen;
`recvfrom` on a descriptor that belongs to somebody else is an error in the model.

What it taught: `start()` after `stop()` finds no socket, its thread calls `errorCallback`
with `EBADF` again and again without a pause, and a second `stop()` succeeds at once
although that thread may still be in its callback, so only a listener used once may be
dropped safely. Two starts lead to two closes of one number. A `close()` that reports an
error (lines 158-159) throws past `sock = -1`: every later `stop()` waits its five seconds and
throws, and the thread of a later `start()` reads, and in the end closes, whatever has been
given the number since, as does `~Listener()`. `NoForeignUse` has that `start()` as its
exception, and `StopTakesEffect` asks there only that the listener's own socket is closed.

`WinListener.h` is the same listener statement for statement, but for a `stop()` that sleeps
half a second before it looks, which a model without time cannot tell apart, and a
destructor that hands the socket to `close()`, which is not the function for it.

`ListenerProofs.tla` proves for any threads, bounds and discipline: `ListenerTypes`;
`ListenerNoForeignUse` and `ListenerSilentAfterStop`, through `LifeInv` (while the socket is
open at most one thread lives and the owner knows of it; once a failing `close()` has left
the number, the thread is on its way out); `ListenerNoUseAfterDestroy`,
through `OnceInv`; `ListenerHeardInOrder`, also for a listener started twice, through
`ApartInv` (heard, held and buffered datagrams are apart, and the buffered ones are the
last) and `OrderInv` (without a second start they also follow each other). The two liveness
properties are model-checked only.

## Server on Windows and on macOS

`WinServer.tla` and `MacServer.tla` are written like `Server.tla`, for an owner who calls
`start()` only when no thread of the object lives (`phase` new, failed or stopped): one thread
is enough, and the descriptors are not numbered.

| model | `WinServer.h` | `MacServer.h` |
|---|---|---|
| `enabled`, `running` | the two flags, which exchange their meanings: `stop()` resets `enabled`, the thread resets `running` at its very end | `running` |
| what wakes | `shutdown`: the manual-reset event; `accepts`: FD_ACCEPT, recorded once and armed again by `accept()` | `registered`, `trigger`: EVFILT_USER; `timer`: the one-shot timer of a `send()` that had to wait |
| `call` | `stop()`: `set`, then `wait` without a limit | `trigger`, then `wait` for five seconds |
| `pc = "blocked"` | `send()` waits for an event of the socket or the shutdown | does not exist: `SendAgain` tries again |
| history | `swallowed`: a waiting `send()` took FD_ACCEPT; `stopped` | `asked`, `stale`, `late` |

| run | question | bounds |
|---|---|---|
| `win_server` | no client leaks and no thread outlives its object (`ServerKept`); a queued client is announced unless a waiting `send()` swallowed the event; one response at most is cut unreported, and nobody is accepted after it (`CutIsTheLast`); a stopped server accepts nobody again; `stop()` returns or is in the deadlock with a callback, and then for good; clients are resolved | 3 clients, one of which stops the server from its callback, 1 fault, restart |
| `mac_server` | the loop ends only for a `stop()` or for a trigger left by an earlier one; one client at most is accepted after the stop; nothing is left after `stop()`; `stop()` takes effect and clients are resolved, unless one that does not read holds the thread (`ServesOn`) | 3 clients, one that stops, one that is deaf, 1 fault, restart |

Three clients are one in service, one queued when its event is lost, and one that
comes later still and finds no event either. Fairness is that of `Server`.

What they taught: on Windows a callback and `stop()` wait for each other without
a limit, and the shutdown event is never reset, so that `start()` after `stop()` succeeds and
serves nobody; a `send()` that has to wait waits for the events of `accept()` and of `stop()`,
and whichever ends it leaves the server deaf: the response that was cut is its last;
on macOS `stop()` has no power over a `send()` whose client does not read.

`WinServerProofs.tla` and `MacServerProofs.tla` prove, for any clients, any number of faults
and a `stop()` at any time, all that the two runs check but liveness:

* both have `LifeInv` (while a thread lives the socket is there and the owner believes the
  server started) and `ClientInv` (the open client is the local `client`, and it is closed
  before it is forgotten); with them `WinServerKept` and `MacServerKept`;
* `WinServerQueueIsAnnounced`, through `AnnounceInv`: FD_ACCEPT that is taken sends the thread
  to `accept()`, unless a `send()` took it. Without this step between the two
  `QueueIsAnnounced` is not inductive;
* `WinServerCutIsTheLast`, through `CutInv`: after a cut the thread is not at `accept()`, and
  has no way back to it, as the shutdown event is set, or FD_ACCEPT is taken and nothing but
  `accept()` arms it; a `start()` comes after a `stop()`, which sets the event;
* `WinServerStoppedForGood`, through
  `StopInv`: where a `stop()` has returned the event is set and the thread is not at `accept()`;
* `WinServerDeadlockIsForGood`: in the deadlock nobody but a new client can take a step, neither
  the owner nor Python nor the thread; it is the safety half of `StopReturns`;
* `MacServerLeavesOnlyWhenStopped`, through `WakeInv`: nothing but a trigger resets `running`,
  and it is that of a `stop()` after the last `start()` or `start()` found it; one late
  client at most, in `MacServerKept`, through `LateInv`: who has served it does not return to
  `accept()`.

* `WinServerImplementsPromise` and `MacServerImplementsPromise`: where the object is started
  once (`Restart` is FALSE), every step maps to a step of `ServerPromise` or to a stutter. A
  client whose response was cut is one that was disconnected. On Windows the end has begun when
  `enabled` is reset. On macOS it is the `stop()` that asked; where no thread lives, that is a
  `stop()` about to return. `OnceInv` is what a
  second `start()` would break: nothing asks for the end before a `stop()` does, and whoever is
  served has an open connection.

That `stop()` returns or takes effect and that clients are resolved is model-checked only. The
fairness of the promise, which `Server` keeps, is not promised on these systems: on Windows there
is the deadlock, on macOS the client that does not read.

## Clients

`ClientPool.tla`: `addr` is the object, `target`, `sock`, `got`, `ended` are the copy
that each `transmit()` runs on, `owner` the descriptor table, `calls` the callbacks. `system`,
which no step changes, chooses `CatchWindows` (on to `closesocket()` and `clientCallback`) or
`CatchPosix` (`return` without `close()`). Checked by `host` as `ClientsKept`: three
requests, two descriptors, two endpoints, two faults, so that one request can meet a table
that failures have emptied. A response is a count of chunks; its bytes are `Exchange`'s.

`HostProofs.tla` proves `ClientPoolKept`, that is `ClientsKept` for any number of
requests, descriptors and endpoints and for both systems, if the sign for "no
descriptor" is neither a descriptor nor a request. The invariant has four parts besides types:
where each request goes (`GoesWhereMeant`), what its callbacks so far say of its way
(`CallsInv`: on Windows one error may be followed by a second), that a descriptor in
use is its own (`SockInv`), and, the other way round, that the table names nobody but those
who use the descriptor and those who failed (`OwnerInv`). The last two need each other: that
`close()` frees nobody else's number follows from the first, that a number given out again
has no user left from the second.

## Broadcaster

`Broadcaster.tla`: the constructor's calls one after the other (`option`), `send()`,
`recv()` datagram by datagram, `enableLoopback()`, the destructor, on Linux or Windows.
`broadcast_address` is the field that `send()` reads and `recvfrom()` writes. `host` checks
`NothingLost` (every text taken from the socket is returned in order; on Windows a `recv()`
that throws loses what it had) and `WhoHears`, which follows a conversation over any calls:
from the first answer on nobody joins it who has not heard the object, has no datagram on the
way to it and is not its current address (`NobodyNewHears`); and on POSIX nobody of
this machine is ever in it unless `enableLoopback(true)` was called
(`SilentWithoutLoopback`). `IP_MULTICAST_LOOP` is an option of the sending socket on POSIX,
of the receiving one on Windows (`Hear`): there the switch that the constructor turns off
keeps no member on this machine from hearing the object, so that the second half is not
claimed of Windows. Two sends, one fault, a host and a local member: an answer can change
who hears the next question. Datagrams of 8192 bytes and more are left out. `system` chooses
Linux or Windows and never changes; `texts` and `looped` are histories: the texts taken, and
whether loopback was ever asked for.

`HostProofs.tla` proves both, `BroadcasterNothingLost` and `BroadcasterWhoHears`, for any
peers, sends and faults, if no host is a socket of this machine and the group is
neither (`GroupAssumption`). `NothingLost` needs `LostByFault`, that a descriptor is lost by a
fault only. `WhoHears` is about the steps that change who takes part (`PartyStep`): a `send()`
reaches the current address, an answer comes from one who was asked, and `recv()` makes a
sender the address. Its second half needs that the option's default is gone when the
constructor ends (`LoopbackIsAsked`), and that an object that is being constructed has heard
nobody (`NobodyYet`).

## Network adapters

Each module is one call of `getAllAdapters()` while the machine changes (`Change`).

* `LinuxNetUtil`: four kinds of commands, one action each; `ParseIpRouteOutput`,
  `ParseLine` and `prefixLengthToMask` are operators. Two interfaces, addresses with and
  without a broadcast, four routing tables, one change. The JSON text of `ip -j` is the subject
  of `Json`; here it is the fields that are read.
* `WinNetUtil`: `GetAdaptersInfo` and `GetAdaptersAddresses` with their buffers and tries,
  `getBroadcast` bit by bit, where an address and a mask are the sets of their bits (four in the
  run). Four adapters against a first buffer for one, two changes: just what three tries stand.
* `MacNetUtil`: the functions for one interface after the other, `owned` counts what was created or
  copied and not released. Two interfaces, one of whose names contains the other's, two service tables.

`AdaptersAreTrue` compares the result with what the machine had at some moment of the call
(`seen`), written without the program's loops, and bounds what is lost. What it taught: on
macOS a gateway may be another interface's, and every call leaks references; on
Linux an address without a broadcast keeps that of the one before, and `dhcp` of an
interface without an address is not initialized.

What `HostProofs.tla` proves of the three, each as an instance of its own with any constants:

* `MacAdaptersAreTrue`: all of macOS' part of `AdaptersAreTrue`. `ListsAssumption` says that
  the tables are sequences of records, one of them a longest. The invariant has the types,
  `AdapterInv` (the adapter under way is as true as those of `result`) and `LossInv` (what is
  lost of each kind is bounded by the interfaces that the loop has passed). That a moment once
  seen stays seen (`StaysTrue`) carries the adapters in `result` over every step. Least and
  greatest places in a sequence need well-founded induction (`LeastNatural`, `FirstAndLast`).
* `WinAdaptersAreTrue`: all of Windows' part, for any width of an address. No buffer is kept, a
  quiet configuration is listed in full, an empty list took three tries, and a broadcast address
  is the highest of its adapter's network. `TriesInv` counts: each try after the first was made
  in vain because the configuration had changed since the one before. `TableInv` says that
  without a change the table, and what was built from it, is the configuration's.
* `LinuxAdaptersAreTrue`: all of Linux' part. Names and addresses are those of one moment, the
  mask has as many bits as the prefix length says, a gateway is the one of the last default
  route of its interface, a priority the lowest metric, the type is the one nmcli
  printed. `MomentsInv` says of which moment the output of each command is, `ResultInv`
  what has been joined from it.

`HostAdaptersAreTrue` puts the three together: `AdaptersAreTrue` of the composition that the
run checks, under the assumptions of the three modules, since a step of a part is a step of its module.

Linux' assumptions are what the kernel and nmcli give: prefix lengths from 0 to 32, the default
routes printed before the others, types that are neither empty nor begin or end with a
blank. `getAllAdapters()` consists of loops, over addresses, routes, tokens and characters, which
the model writes as folds. A fold is a recursive function, CHOSEN by its equation, so a proof
has to show that such a function exists and what it is after each element. Both are
done without an induction theorem that takes an operator: the least element at which the claim
would fail exists (`LeastNatural`), is not the first, and follows from the one before it.
`LoopRuns` and `LoopValue` say this once for a loop over places 1..n; the lemmas about the
gateway, the broadcast, the metrics and the tokens of a route line, and the mask, use them.

## ONVIF examples

* `Subscriptions` (`tui.py`): one camera; keys and timers on the main thread, renewals on
  workers. `refs` is `camera.subscription_references`, `timer` and `worker` are what
  each subscription has, `plan` the number of topics still to do. A pull key whose request
  is not answered raises into `on_key()`, which logs it and goes on with the interface: the
  topics done so far stay recorded, the others are not asked for. `SubscriptionsKept`: a
  running timer can be stopped, nothing is recorded twice, and after a key no more chains of
  renewals go on than were in flight and one. Two topics, three ids, three keys, one lost
  request.
* `Notifier` (`tui.py`, `server.py`): `httpd` is the attribute that workers set and reset,
  `pc` each `http_server_worker()`. `ServerKept`: the server that serves is known, unless two
  workers raced; `NotifierEnds`: `on_unmount()` comes back, what was read is shown or given
  up, and the server ends unless a camera stalls for ever in the body of its notification,
  which `rfile.read()` waits for without a timeout and `server_close()` for its handler. Two
  workers, two notifications, one failing `bind()`. A notification that cannot be parsed
  raises in its handler (`Read`).
* `Discovery` (`camera.py`): answers within the window, the filter address by address, the
  pool, the tree. `CamerasShown`, `AllAnswersAreShown`. Three cameras, two of which share an
  address and one of which names an address twice, with an IPv6 address and a host name among
  them; two threads, three answers.

`onvif` checks the three. Fairness: worker threads, pool and main thread are scheduled, and
every request that the program makes to a camera ends, as it has a timeout; nothing makes
a camera go on that is sending a notification.

`onvif_unsubscribe` is an expected violation: the help text says
that 'u' unsubscribes all events, but of several topics only the first was recorded.

What is proved:

* `OnvifProofs.tla` about `Notifier`: `NotifierServerKept`, for any workers and notifications.
  `ServerIsKnown` is not inductive: a second worker may find the port bound and reset
  `httpd`. `OneWorker` says that there is none as long as nobody was started beside a live one;
  `HandlerInv` ties a notification in a handler to a server that has not been closed;
* `SubscriptionsProofs.tla`: `SubscriptionsAreKept`, for any topics, subscriptions, keys and
  lost requests. `FewChains` counts, so the proof is one about cardinalities: a renewal
  hands its chain to its heir, `StopInv` says that what the loop of `unsubscribe_events()` has
  passed is stopped and that no renewal has begun since the key, `ChainInv` that the one chain
  more begins only where nothing is recorded; `FreshInv` and `TimerInv` give every worker a
  subscription of its own with a timer that was never set, `PlanInv` ties the loop over the
  topics to the key;
* `OnvifProofs.tla` about the composition that the run checks: `OnvifSubscriptionsKept` takes
  the result over from `SubscriptionsProofs`, as a step of the part is a step of the module;
  `OnvifCamerasShown` is proved there, for any cameras, addresses (repeated, shared or of no
  use), answers and pool. `JobsInv` says what the two loops have made of the addresses that
  they have passed, `PhaseInv` that filtering waits for the window and the pool for the filter,
  `TreeInv` that what is shown is the address of a job that was taken.

The search for the invariant of `Subscriptions` showed what the code does not keep, one chain of
renewals for each topic: a key that is pressed while a renewal is in flight leaves two chains of
one topic, and both still go on when the next key, pressed between renewals, has only begun to
stop them. That takes a third key, so the run has three.

`NotifierEnds` and `AllAnswersAreShown` need fairness and are model-checked only.

## JSON

| module | code |
|---|---|
| `JsonValue` | the value types and `operator==`; numbers are eight bytes, a double is its IEEE 754 bits |
| `JsonSax` | the two builders, `json_sax_dom_parser` and the one with a callback |
| `JsonLexer`, `JsonNumber`, `JsonParser` | `lexer::scan`, `scan_number` and the conversion of its text, `parser::sax_parse_internal` |
| `JsonSerializer` | `serializer::dump`, its escapes and its three UTF-8 error handlers |
| `ByteReader`, `Cbor`, `Msgpack`, `Bson`, `Ubjson` | `binary_reader` and `binary_writer`, all five formats (UBJSON and BJData are one module, as in the code) |
| `JsonPointer`, `JsonPatch` | `json_pointer`, `flatten`, `unflatten`, `patch`, `diff`, `merge_patch` |
| `JsonReference` | no code: the grammar, what each format can tell apart, what a filter leaves |
| `Json` | a task that writes, may lose the end of the file and reads; or parses; or compares and patches step by step |

The modules are operators, most of them RECURSIVE like the functions of the library, so no
theorem is stated about them: `ReadsBackWhatItWrote`, `ReadsTheGrammar` and `PatchLeadsToTarget`
are model-checked only. The prover accepts no such operator in reach of a theorem, and the
claims are inductions over nested values, not over the places of a loop. Exceptions are values with the library's number. The
parser takes its tokens from a sequence that was scanned beforehand, for `scan()` depends on
nothing but the lexer. `json` asks:

* `ReadsBackWhatItWrote`: each writer against its reader, every option of UBJSON and
  BJData included; a file cut anywhere is refused, but for a number in a text;
* `ReadsTheGrammar`: the parser accepts what a recursive grammar derives, no more, also with
  comments and trailing commas; `accept()` agrees; a refused key takes its members along;
* `PatchLeadsToTarget`: `diff`, step by step; `patch` of the whole; `flatten`, `unflatten`,
  `contains`, `at`; a merge patch applied twice.

Bounds: the values hold every number at which a format changes its width, every kind of float
(zero, infinity, NaN, single and double precision), strings of each UTF-8 length and broken
ones, arrays and objects at the short forms' limits, an ndarray. The texts are all up to
three characters over the structural alphabet, up to four over that of numbers and that of
arrays, up to four inside an object. `Huge` (2^20) stands for every larger count, which no
file of the run could hold. `Decimals` is a table of the decimal texts of a few doubles:
it stands for `strtod` and for the digit generation of grisu2; `FormatBuffer` is modelled.
A BJData ndarray is given the types and the data that the reader itself produces.

What it taught: `contains()` with an empty token on an array throws 404, though the
comment above it (`json_pointer.hpp` 573-576) names 106 and 109 only.

## Not modelled

* JSON: conversions to and from C++ types, iterators, allocation, the orders `<` and
  `<=>`, input adapters of wide characters, the digits of grisu2 and strtod.
  `thirdparty/hedley` and the macros have no behaviour.
* `WinListener.h`: see Listener.
* `subscriber.py` cannot subscribe: line 117 calls `subscribe_events(camera, event)` without
  the `ip_address` that `camera.py` line 798 requires. `on_unmount()` of `tui.py`
  unsubscribes with the timers running; the interface has gone then.
* NetUtil: a metric beyond `int`, which `ls >> metric` (`GnuNetUtil.h:165`) reads as the
  greatest `int`, giving the rest of the line up; the strings of
  `MacNetUtil.h:64-71` being NULL. JSON: ndarrays of BJData with member types that its reader
  does not produce, binary subtypes above 255.
* The XML and SOAP structures and the widgets: field by field translation, no state that
  outlives a call. `scripts`, `CMakeLists.txt`: build.
* Failing `malloc`, functions that only print, datagrams of 8192 bytes and more, threads
  that cannot be created, exceptions thrown by an `errorCallback`, which end the process.
* Time. Where a timeout exists it may strike whenever its wait has not ended; a client that
  sends a byte every two seconds, and a server without descriptors whose loop spins, are in
  the list of hazards and in no run.

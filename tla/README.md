# FastMeow in TLA+

This directory holds the formal model of FastMeow: TLA+ modules for the parts
of the system where order, concurrency and failure matter, configurations with
which TLC checks them on small instances, and theorems about them with proofs
that TLAPS checks for every instance.  It is meant to be read beside the code;
`PROJECT.json` names, for every definition, the lines it stands for.

## 1. The system

FastMeow is two processes.  The *app* is a Python asyncio program that uses the
package `src/src/fastmeow`.  It starts the *sidecar*, a Go program
(`src/cmd/fastmeow-sidecar`, `src/internal`) around the WhatsApp client library
whatsmeow, and talks to it over gRPC on localhost.  RPCs go from the app to the
sidecar; one server stream, `StreamEvents`, carries events back.

| component | state it keeps | operations |
|---|---|---|
| Event bus (`internal/events/bus.go`, `StreamEvents` in `main.go`) | sequence counter, bounded channel, closed flag, drop counter, JID cache; one subscriber | `Sink` (whatsmeow's dispatch goroutine), `PumpQRChannel` (one goroutine per unpaired account), `SetAccountJID`, `Subscribe`, `Close` |
| Registry and session store (`internal/accounts`, `internal/sessions`) | key -> client entry, devices in the database | `EnsureAccount`, `Connect`, `Disconnect`, `Remove`, `Shutdown` |
| Message sender (`internal/messages`) | LRU cache of answered requests with a TTL | `SendText`, reaction, edit, revoke |
| Media handler (`internal/media`, `_media.py`) | a lock per account, a global semaphore | `Send` (client stream), `Download` (server stream) |
| Groups, receipts, presence (`internal/groups`, ...) | none | calls forwarded to whatsmeow |
| Transport and facades (`_transport.py`, `context.py`, `exceptions.py`) | the gRPC channel | one method per RPC with its deadline, translation of a status into an exception; `Ctx`, `AccountClient`, `_BoundClient` |
| Supervisor (`_supervisor.py`) | state of the child process, ready future, log queue | `start`, `wait_ready`, `stop`, `logs`, the stderr drain task |
| App (`app.py`) | handles by key, bootstrap tasks, the other parts | `start`, `stop`, `run_forever`, `add_account`, `remove_account`, the event hook |
| Manifest (`manifest.py`) | key -> jid in memory and in `accounts.json`, a lock | `open`, `close`, `register`, `update_jid`, `remove` |
| Dispatcher (`_dispatcher.py`) | one queue and worker task per account, stop flag | `start`, `stop`, reader task, worker tasks |
| Router and filters (`router.py`, `filters.py`) | the mounted routers and the registered handlers, which may change at any time | `include_router`, the decorators, `dispatch`, the expressions over `F` |
| Types (`types.py`) | none | events, enumerations, `event_from_proto` |

How they interact.  An event is born in whatsmeow, becomes wire events in
`Bus.translate`, gets a number and goes into the bus's channel, is sent by the
`StreamEvents` handler, read by the dispatcher's reader task, queued for its
account, and taken by the account's worker, which first calls the app's hook
(`_notify_handle`: state of the `AccountHandle`, jid in the manifest) and then
the router.  The other way, a bootstrap task per `add_account` registers the
key in the manifest, calls `EnsureAccount` and `Connect`, and feeds the replies
into the same handle that the events feed.

What is hard to get right, and to test:

* the worker loop ends on a stop flag *and* a sentinel, either of which may be
  missed; the queues are bounded, and the drain has a timeout;
* an event is numbered in one step and sent in another, by several goroutines,
  on a channel that another goroutine closes;
* the manifest writes in a thread that cannot be cancelled, while the task that
  waits for it can;
* RPC replies and events tell the same handle about the same account, in either
  order, while accounts are removed and added again under the same key, the
  sidecar's goroutine of an RPC goes on after its caller has given up, and
  either process may die in between;
* filters and handlers are awaited while routers are mounted, handlers
  registered and other accounts served, and what they raise decides who is next
  and whether the worker lives;
* a caller that lost an answer retries, and the sidecar has to tell from a
  bounded cache with a time-to-live what it has already done.

`PROJECT.json` lists the hazards at their lines, with the properties that would
notice them.

## 2. Modules

Every module starts with what it models and what it abstracts.

**`OrderedDelivery`** is the promise of the dispatcher: per account, events are
accepted, and processed one at a time in the order of acceptance; nothing is
accepted after closing.

**`Dispatcher`** is class `Dispatcher`.  A step is what a task does from one
suspension point to the next, because asyncio runs nothing else meanwhile.
`Enqueue`, `Overflow`, `StreamEnds` and `ReaderCancelled` are the reader;
`WorkerWakes`, `WorkerAdvances`, `WorkerFinishes`, `WorkerCancelled` and
`HandlerSwallowsCancel` the workers, with one turn of their loop in `Turn`;
`StopEarly`, `StopFirst`, `StopReaderGone`, `StopJoined` and `DrainTimeout` are
a call of `stop()`.  `handled` and `accepted` are history.  The module states
the refinement of `OrderedDelivery`: what is pending is the event in hand
followed by the events (not the sentinel) in the queue.

Each **`...Proofs`** module holds the theorems about the module it extends; see
section 4.

**`EventBus`** is the bus with the RPCs that register, connect and log out an
account, the `StreamEvents` handler and the shutdown goroutine.  A producer is
a goroutine that emits: `<<account, "dispatch">>` and `<<account, "pump">>`.
`Stamp` and `Send`/`SendOnClosed` are the two halves of `emit`; `EnsureAccount`
and `SetAccountJID` those of the RPC, `Pair` and `SinkPairSuccess` the pairing of
a device and its arrival at the bus, and between the halves a JID is on its way
to the cache.
**`NumberedStream`** is what the client is promised: each event takes the next
number, and is put on the way in one step or missed; what is on the way arrives
in that order, but for the event in front, which may be lost; misses are counted.
`EventBus` refines it: a goroutine between `Stamp` and `Send` holds its event,
the way is what the handler has in hand followed by the channel, and the misses
are `dropCount` and what the handler filtered or lost.

**`Manifest`** is the manifest with the tasks that call it, the threads that
write for them, failed writes, cancelled tasks and crashes.  `lockQueue` is the
asyncio lock with its FIFO waiters.  **`DurableMap`** is what the manifest
promises: a map on which each call is refused, or takes effect on its own key in
one step between its begin and its return, and which a crash leaves alone.
`Manifest` refines it: the map is the disk, and a call takes effect when its
thread moves the file.  Once a call has been cancelled or a write has failed the
abstract map promises nothing; `manifest_crash` shows why.

**`AccountLifecycle`** is one account key across the app, the sidecar, the
session store, the manifest and the phone.  The sidecar's side of each RPC is a
goroutine of its own, which goes on when its caller gives up: `EnsureFinds`,
`EnsureLoads` and `EnsureInstalls` are `EnsureAccount` before, outside and under
the registry's mutex, `ConnectGets` and `ConnectDials` are `Connect`,
`RemoveLooks` and `RemoveUnhooks` are `Disconnect` and `Remove`.
`EnsureReplies`, `ConnectReplies` and `BootRpcFails` are what the bootstrap task
sees of them.  `ApplyState`, `Fail` and `OnEvent` are the methods of
`AccountHandle`.  `BootRegister` takes any of the `EffectiveJids`: the manifest's,
the empty one, or one that the caller of `add_account` names, which `register`
may refuse.  `Emit` drops the newest event when the queue is full, like the bus.
Of the histories, `unlinked` notes a logout or a new device under a known key,
`named` a manifest entry whose jid the caller named, `missed` a pairing whose
event was dropped.

**`MediaTransfer`** is `Handler.Send` and `Handler.Download` with the gateway
handlers above them and `_media.py` at the other end.  `pc` is where a handler
is; `LockAccount`, `AcquireGlobal`, `SpoolChunk`, `SpoolEnds`, `UploadBody` and
`SendMessage` are `Send` in order, `RemoveTemp`, `ReleaseGlobal` and `Reply` its
deferred calls.  `RecvChunk` to `PumpWriteFails` are the goroutine that moves
frames into the pipe, and `OpenTarget` to `CancelDownload` the Python side of a
download.  The client is `_media.py`, which sends what it declared or raises,
or a *foreign* one, which need not.

**`Supervisor`** is class `Sidecar` and the process it runs: the lines on
stderr, the two helper tasks, a subscription to the log, and `Sidecar.stop()`.
It holds operations; **`AppLifecycle`** extends it with `FastMeow.start()` and
`stop()`, which call them, with cancellation at every await, a crash of the
Python process, and a new app on the same session directory.  Every start is an
attempt with its own `Sidecar`; `lock` is the manifest's file lock.
`ReaderRaises` is the reader's `except Exception: return`, and `RunEnds` the end
of `run_until_stopped()`, which stops the dispatcher.  A `stop()` that a handler
calls is `stuck` from then on, as on Python 3.12 and newer, unless the dispatcher
had stopped before.

**`Wire`** is what the SDK makes of an envelope: the event classes with their
attributes and predicates, the enumerations with the member for unknown numbers,
the defaults of absent fields, and `event_from_proto`.  **`Filters`** is the
expression tree of `F` and its evaluation, with the regular-expression match
that it injects; **`Router`** the mounting of routers with its cycle check, the
registration of handlers with the check of their signature, the order of the
candidates and the binding of arguments.  **`Handling`** composes them: the
reader subscribes, and the worker of each account takes an event through the
app's hook, `Router.dispatch`, handlers and `on_error`, while the program goes
on mounting and registering.  The queue between reader and worker is
`Dispatcher`'s; in `Handling` an idle worker may get any event of its account
that the subscription lets through.

**`Client`** is the table of RPCs (operation, deadline, kind of result), the
facade methods and the RPC each ends in, the hierarchy of exceptions and the
translation of a status.  **`Sending`** runs it: tasks of the program call, give
up, retry; goroutines of the sidecar validate, look into the deduplication
cache, ask WhatsApp, are refused, fail, panic or lose the answer; entries
expire and are removed, and the sidecar crashes and comes back with an empty
cache.  A ghost keeps, for each key, when it was acknowledged, whether that was
the first time, and whether its entry was taken out while fresh.  The methods are
the unary ones; those of media are `MediaTransfer`'s.

Each `MC...` module gives TLC the values that a configuration cannot spell.

A definition introduced by "A fault:" is not part of a specification: it is a
plausible slip in the definition that follows it, and stands there to show that
some property would notice.

## 3. What is model-checked

| run | instance | shows |
|---|---|---|
| `dispatcher` | 2 accounts, 2 callers of `stop()`, queues of 2, 4 events, one account whose handlers may swallow a cancellation | types; nothing lost, doubled or reordered (`Conserved`); a worker that exits has drained its queue, and none sleeps through the drain (`ShutdownDrains`); the `stop()` that does the work leaves no task behind; refinement of `OrderedDelivery`; `stop()` returns; accepted events get handled |
| `bus` | 1 account with both its goroutines, 2 events, buffer of 1, one pairing | numbers are distinct and accounted for; refinement of `NumberedStream`; an account's events carry its JID once the cache has it; emitting does not block, a client that reads gets what is buffered, shutdown completes (`Progress`) |
| `bus_closed` | buffer of 1 | *violated*: after `Close`, an emission ends the process |
| `manifest` | 1 key, 2 jids, 2 tasks, 2 faults | disk equals memory when quiet; refinement of `DurableMap`; calls return |
| `manifest_crash` | 2 keys, 1 fault | *violated*: after a failed write or a cancelled task, an acknowledged call may not be on disk |
| `account` | 2 jids, 2 handles per run, room for 1 undelivered event, failing RPCs, crashes, remote logouts, re-pairing, named jids | a pairing is remembered, unless its event was dropped or another jid was named; `ready()` is answered truly; a key never has two clients that live, but for a Connect that Logout overtook |
| `media` | 2 uploads (one of a foreign client) and a download, 2 of the 3 begun, 1 account, 1 slot, bodies up to 2 chunks with 1 allowed | one upload per account and temporary files within the slots (`Quotas`), a message only for a whole body, a refusal means nothing was sent, a download that returns is whole, transfers and pumps end |
| `app` | 2 attempts, a task and a handler that call `stop()`, a log | a living sidecar's app holds the directory's lock; a start that raises and a stop that is through leave nothing (`NothingLeft`); a log is complete unless its reader gave up; `start()`, logs, and `stop()` outside handlers end (`AllEnd`) |
| `app_exit` | the same | *violated*: `stop()` has returned and the subprocess lives |
| `handling` | 3 routers in a diamond and a statement that would close a cycle, 6 handlers (one that cannot be bound, one that is refused), 5 filter expressions and a callable, 2 accounts, one of which may hang, 4 envelopes, two of unknown types | routers stay acyclic; the first handler whose filters pass takes an event, with its own match; soft events come only when a handler wants them; an account does not wait for another |
| `handling_cancel` | the same | *violated*: a `CancelledError` from something a handler awaits ends the worker |
| `sending` | 2 tasks, 2 goroutines at a time, 1 chosen key and fresh ones, a cache of 2 entries, TTL of 1, a text, a reaction and a group operation | callers are told the truth about what was done (`OutcomesAreTrue` names the answers that prove nothing); the cache answers for what it must, unless a renewed entry is removed for an expired one, and for nothing else |

With two workers `account` takes about three minutes, `sending`, `bus`, `media`
and `manifest` one to two, the others less.

The bounds.  Four events in queues of two let one account overflow with an event in
hand, let a queue be full when the sentinel is due, and let both workers be
caught by the timeout.  Two events and a buffer of one make the bus drop,
let both goroutines stand between number and send, and let one event be in the
handler's hand while the other is in the channel; that a JID lands over another
one needs two JIDs, and is covered by the proof.  Two faults let the
manifest meet a cancelled task's late thread and a failed write together.  Two
handles per run are a removed account and its successor, and room for one
undelivered event is enough to overtake a reply, to outlive the handle it was
meant for, and to be full when the next one comes.
Two uploads contend for one lock, an upload and a download for one slot, and a
source of two chunks exceeds a limit of one.  Two attempts to start are a
failed, cancelled, stopped or crashed one and its successor.  A diamond is the
smallest graph of routers in which a router is reached twice, and the mount that
would close it the smallest indirect cycle; the six handlers differ in what
makes one be passed over.  Two goroutines and a key that both tasks may use are a
request and its retry in flight together; two cache entries are the retried key
and one that pushes it out.  A text has the cache, a reaction the doubtful refusal, a
group operation WhatsApp's own refusals; the half-made settings of a group and
the methods without a result are left to the proof.  The accounts of `Dispatcher` and `Handling`, and
the keys of `Manifest`, do not share more than the models show, so that two of
them suffice to interfere; what holds for any number is the theorems' business.
A symmetry set is used only in runs without temporal properties.

Fairness.  `Dispatcher!LoopFairness`: the event loop resumes a task whose await
is over, delivers a cancellation and fires a timer.  Handlers owe nothing for
`StopReturns`; `AcceptedGetsHandled` assumes that they return
(`HandlerFairness`).  `EventBus!Fairness`: goroutines that can run do, and the
shutdown timer fires; only `BufferedIsDelivered` assumes that the client reads.
`Manifest!Fairness`: tasks are resumed and threads end, with an error if need
be.  `MediaTransfer!Fairness`: goroutines that can run do; taking the lock and
the slot is strongly fair, because Go's mutex hands over to the longest waiter
in starvation mode and blocked channel sends queue in order.  Nothing makes a
client continue, so that the end of all transfers has `ClientFairness` as its
premise, while the end of the pumps has none.  `AppLifecycle!Fairness`: the
event loop resumes tasks, and each of their waits has a timeout, but for a
handler's wait for itself; the process owes nothing, it may ignore every signal
but SIGKILL.  `Handling!Fairness`: the
event loop resumes workers, and the user's filters, handlers and hooks come back
except on the accounts in `Hanging`.  `AccountLifecycle` and `Sending` have
no fairness and no liveness property: that a call ends with its deadline is
grpc.aio's promise, not this code's.

The violated properties are quoted from comments and docs of the code; the
findings in `PROJECT.json` give the lines and the runs' counterexamples.

* `emit` on the closed channel panics; on the QR goroutine, which outlives its
  client, nobody recovers it.
* The manifest changes memory before disk and does not undo it when the write
  fails; the caller's retry finds its change in memory and returns without
  writing.
* `async with FastMeow()` promises that the subprocess is torn down.  A handler
  that calls `stop()` waits for its own worker for ever, before it comes to the
  sidecar; `stop()` then returns at once to everybody else.
* `except asyncio.CancelledError: raise` in the worker takes every
  `CancelledError` for its own cancellation.  One that comes out of what a
  handler awaits (a task of the program that was cancelled, an upload whose
  source cannot be read) ends the worker, and the account is deaf from then on.

While the models were written, the code was also found to differ from what its
docs or comments say, or from what a reader would expect, in the following
points.  They have no run of their own, because nothing in the models depends on
them or the model simply does what the code does.

Python:

* after an overflow `_enqueue` sets the stop flag; `stop()` then returns at its
  first test, and idle workers are never woken (`_dispatcher.py:611-613`);
* whether soft events are wanted is asked when the stream is opened: a soft
  handler registered later is never fed (`_dispatcher.py:589`);
* a handler with positional-only parameters passes the signature check and
  raises `TypeError` at each event (`router.py`, `_dispatcher.py`);
* a router mounted on two parents contributes its handlers twice, and a router's
  own handlers come before those of its sub-routers whatever the order of the
  statements (`router.py:290`), which the docs call the order of registration;
* `filters.py:31` says that evaluation never raises and that a missing attribute
  is always false: `~F.missing` is true, and `contains` of something that is not
  a string raises;  `F.x & callable` is an expression that is constantly true;
* `_translate` finds the cause of an error by words in its text, such as
  "invite" or "jid", which a group's or user's name may contain; UNAVAILABLE
  becomes `SidecarCrashedError` although the sidecar may live
  (`_transport.py:164`, `exceptions.py:54-55`); an invalid `target_sender_jid`
  is INTERNAL on the wire and a `TransportError` in Python;
* a `connect()` cancelled during its ping leaves its channel open
  (`_transport.py:872`);
* a `PairSuccess` that the full bus drops (`bus.go:204-213`) takes the jid with
  it: no later event writes it to the manifest, though the comment at
  `app.py:565-568` counts on the next `ConnectedEvent`, and after a restart the
  account asks for a new device;
* `add_account(jid=...)` writes the jid to the manifest before the sidecar has
  seen it (`app.py:494`); if the key's client then pairs under another one, the
  manifest keeps what the caller said and refuses the truth;
* the jid of an account that logs out on the phone stays in the manifest, and
  the next start reports drift (`app.py:226`); the QR codes run out and nothing
  asks for new ones, though the comment at `app.py:213` speaks of a retry;
* a download cancelled while its target is being opened, or whose last `close`
  raises, leaves a partial file behind (`_media.py:209-220`);
* a subscription to the log that begins after the process has ended never ends;
* a line of more than 64 KiB on stderr makes `readline()` raise, which ends the
  reader (`_supervisor.py:380-383`): the lines behind it reach nobody, among them
  perhaps "listening", and the log nevertheless ends as if it were complete;
* `Dispatcher.stop()` called by a handler gathers its own task; on Python 3.12 and
  newer the cancellation after the timeout runs round that circle until the stack
  is full (`_dispatcher.py:574-577`), and neither the call nor the worker ends.

Go:

* `Connect` reports CONNECTED for a client whose websocket is up, paired or not
  (`main.go:347`): a second `add_account` after a lost reply then ends
  `ready()`;
* two concurrent `EnsureAccount` of a new key both answer `created = true`, and
  its AlreadyExists is sent as FAILED_PRECONDITION;
* `Logout` between `Connect`'s `Get` and its dial leaves a client connected that
  no RPC reaches (`registry.go:158-160`);
* `SendText` promises that a retry is not sent twice (`sender.go:1-5`), but two
  calls with one id in flight together are both sent, and `Remove` of an expired
  entry may take the entry that another goroutine has just added
  (`sender.go:136`);
* a handler that panics answers with an empty success (`main.go:1004-1012`),
  which the methods that return nothing cannot tell from a real one;
* an error of a reaction, an edit or a revoke whose text contains "required" is
  reported as INVALID_ARGUMENT although the message may have gone out
  (`main.go:1035`, `1069`, `1103`);
* media uploads are not recognised by their request id, which
  `gateway.proto:182-183` promises (`handler.go:229`); an init frame in the
  middle of an upload is reported as UNAVAILABLE instead of INVALID_ARGUMENT
  (`main.go:856`).

## 4. What is proved

TLC has checked each inductive invariant on the instances above before it was
proved.  The constants are arbitrary, subject to the named assumptions of the
modules, which TLC evaluates on every run.

### Dispatcher

`DispatcherProofs` proves, for every set of accounts and callers, every queue
size and every number of events, with the assumptions of `Dispatcher` (queues
hold at least one element, the sentinel is not an event, stubborn accounts are
accounts):

* `TypeInvariant`;
* `Invariance`: the inductive invariant `IInv`;
* `Conservation`, `ShutdownIsSound`, `JoinIsQuiet`: the safety invariants of the
  run, and `SentinelIsLast`, on which the second rests;
* `StopClosesQueues`: the action property;
* `Refinement`: `Spec => OrderedDelivery!Spec` under the mapping.

The argument.  None of these invariants is inductive.  `SentinelLast` needs
that nothing is enqueued behind a sentinel, so that the reader is gone by the
time it is put: `StopFacts` says that a set flag means a reader that no longer
runs, that at most one call of `stop()` is past its guard, and that before it
has woken the workers no queue holds a sentinel.  `Conserved` needs that a
worker without an event in hand has none, and that a worker with one has
exactly one: `WorkerFacts`.  The lemmas on `Events` say what removing the head
of a queue and appending to it do to the events in it, and the concatenation
laws they need come from the library's theorems on sequences.  One lemma per
conjunct of `IInv` has one step per action.  `Refinement` maps `Enqueue` to
`Accept`, `WorkerFinishes` to `Process`, the two actions that set the flag to
`Close`, and everything else to a stutter.

### MediaTransfer

`MediaTransferProofs` proves, for every set of uploads, downloads and accounts,
every number of slots, every chunk limit and body length, with the assumptions
of `MediaTransfer`:

* `TypeInvariant`;
* `QuotasHold`: an account has one upload between `Lock` and `Unlock`, and there
  are no more temporary files than slots;
* `RefusalsAreClean`: a status that blames the request means nothing was sent;
* `ReturnedIsWhole`, `SentIsWhole`: what a download returns and what an upload
  sends is the whole file.

The argument.  `LockFacts` ties the owner of an account's lock to the places in
`Send` between the two calls; mutual exclusion is then immediate, because the
lock is a function.  For the files, `SlotFacts` says that the handlers that hold
a slot are exactly those at the places between acquisition and release, and that
a file exists only there; the bound is a cardinality lemma on subsets.
`BodyFacts` carries the length of what the file holds from the frames through
the pipe, so that an end of file that the pipe reports is the end of the
stream; `SentFacts` says that a message has gone out only at places whose status
does not blame the request.

### AppLifecycle

`AppLifecycleProofs` proves, for every number of attempts to start and every set
of tasks and handlers that stop:

* `TypeInvariant`;
* `OneSidecar`: a living sidecar is the one whose app has the lock;
* `EndsAreClean`: a start that raised and a stop that is through leave nothing;
* `LogsAreWhole`: a log that ends by itself has every line, unless the reader
  gave up.

The argument.  Apart from a crash and a cancelled rollback, the lock is given
back in two places (`RollbackEnds`, `StopManifest`), and in both nothing may live.
`ControlFacts` says that a sidecar which has not been spawned is untouched, and
that `stop()` works only for a start that has committed; `SidecarFacts` that a
`Sidecar.stop()` which is through means a dead process; `LockFacts` joins them:
from the spawn to the rollback the lock is the attempt's.  `LogFacts` follows
the end of a log back to the last line: the subscribers are told after the exit
helper is done, which is after the reader, which, if it has not raised, is after
the process.  The
lock and release facts hold while history is not `disturbed`: by a `stop()`
before `start()` was through, a handler's `stop()`, a second cancellation or a
crash; for these the run `app_exit` and the hazards say what the code does.
The lemmas `SidecarsAreSeparate` and `NoReturn` keep the steps of one sidecar
apart from the facts of another.

### EventBus

`EventBusProofs` proves, for any accounts and jids, any buffer size and any
batches that `translate` may return:

* `TypeSafety`, with the capacity of the channel;
* `NumbersAccount`: no number is given twice, and each is waiting to be sent, on
  its way, lost downstream or counted as dropped;
* `OrderOfGoroutines`: the events of a goroutine stay in the order of their
  numbers;
* `JidsAreStamped`: an action property, that once its JID has reached the cache
  an account's events are numbered with it, until a logout;
* `StreamRefinement`: `Spec => NumberedStream!Spec` under the mapping.

The argument.  What is on its way to the client (delivered, in the handler's
hand, in the channel) is one sequence, `Pipeline`, and every step leaves it as it
is, puts one event behind it (`Longer`) or takes one out of it (`Cut`).  Four
lemmas about arbitrary sequences say that cutting, appending, numbering and
letting go of a number keep the numbers distinct and each goroutine's in order;
they need that the number a goroutine holds is above all it has on its way
(`NumberFacts`), and that it holds at most one, at the head of its list
(`PendingFacts`).  The count then follows from one cardinality step per action.
`CacheFacts` says that a JID which has reached the cache, or is on its way to it,
is the one the account is paired with, so that a call which read the registry
long ago changes nothing when it writes; a logout with a JID on its way breaks
this for good, which is the exception the property states.  `PlainFacts` says
that only an event that reports a pairing has a JID before it is numbered.

For `StreamRefinement`, `Stamp` is `Number`, `Send` is `Put` or `Discard`,
`SendOnClosed` is `Discard`, `StreamSend` is `Deliver`; a filtered event, and the
one in hand when the stream breaks or the server stops, is `Lose`; everything
else is a stutter.  `WayParts` is the lemma that matters: what is in hand is
always the front of the way, because the handler takes nothing off the channel
before it has sent what it has.

### Manifest

`ManifestProofs` proves, for any keys, jids and tasks and any number of faults
and crashes:

* `TypeSafety`;
* `QuietIsSaved`: without a thread at work, the disk is the memory, unless a
  failed or late write has not been mended;
* `CrashesLoseNothing`: without faults, what was acknowledged survives;
* `Refinement`: `Spec => DurableMap!Spec` under the mapping.

The argument.  `LockFacts`: a task in a call is in the lock's queue, once, and
the one that writes is its head; so a thread that works for a task is alone
(`WriterFacts`) unless its task has been cancelled, which is a fault.  Its
snapshot is then the memory of the moment, and the memory is what was
acknowledged or attempted (`EntriesAccounted`).

`Refinement` needs `CallFacts` besides: without faults no call has failed, and a
call that waits for its thread is one that the abstract map allows, with a
memory that differs from the disk at its key alone, by what the call asks for.
This is inductive because whoever holds the lock and has not yet changed the
memory sees the disk in it (`HolderSeesDisk`), so that the code, which judges a
call by its memory, judges it as the abstract map does (`CallsAreJudgedAlike`).

### AccountLifecycle

`AccountLifecycleProofs` proves, for any jids and users, any kinds of removal and
any bounds on handles and undelivered events:

* `TypeSafety`;
* `ReadyAnswers`: a handle shows a failure exactly when its bootstrap failed or
  was cancelled or it is logged out, and a failure, like a login, has woken
  `ready()`;
* `RegistryKeepsOneClient`: a connected client is the registered one, one that
  Logout is about to disconnect, or one that a Connect had in hand;
* `PairingsAreRemembered`: unless a device was logged out, once nothing is on its
  way the manifest has the jid of the registered client; or none, if in this run
  the event of a pairing found the queue full, or one that the caller of
  `add_account` named.

The argument.  `TasksMatch` ties a handle's bootstrap to the goroutine of its RPC;
`UnbornIsUnknown` says that a handle which does not exist yet is unknown to the
registry, the queue and the RPCs, so that a new one starts clean; and
`DialsAreHeld` that a goroutine which is about to dial has the registered client
or one that Logout has marked.

`PairingsAreRemembered` speaks of settled states only; what holds on the way
there is `PairingInv`.  Its centre is `KnownOrOnItsWay`: while a client is paired
and a handle is registered, the manifest has the jid, or the handle's task has
yet to ask, is asking with no jid, or has the answer to such a question, or the
event of the pairing is in the queue.  For this to be kept when the task stores
what it was told, replies and events must name the client's jid (`NewsIsTrue`),
a goroutine must ask with the jid its task had read (`AsksAsTold`), and the
manifest must not have another one (`JidsAgree`), unless the caller named it
(`NamedIsJid`: what is named is a jid); a removal does not disturb it
because it empties the registry before the manifest (`OneToPair`,
`EntryIsThere`).  The whole is conditional on a process that runs and on a
history without logout, and a restart re-establishes it, since the session store
and the manifest are what survives.

### Handling

`HandlingProofs` proves, for any finite set of routers, any mounts and
registrations, any filters, handlers, accounts and events:

* `RoutersAcyclic`: `include_router` never closes a cycle, for the specification
  of the routers alone; `RoutersUndisturbed`: every step of the composed system
  is for the routers one of theirs or none; `NoCycle`: hence no router ever
  reaches itself;
* `CollectFinds`: what `_collect_for` returns, for any tree or diamond: exactly
  the handlers of the class on the routers that a traversal meets;
* `SoftFinds`: `has_soft_event_handlers` is true exactly when a router that a
  traversal meets has a handler for a soft event;
* `MatchIsOwn`: the match that a filter expression of any depth offers is that of
  one of its own regular expressions outside negations, and the event matches it;
* `HandlingTypeOK`: types;
* `TheFirstMatchWins`: the first candidate of the snapshot whose filters pass and
  that does not skip takes the event, with the first match its filters offer;
* `SoftComesOnDemand`: the stream is opened with soft events exactly when a
  router under the root has a handler for one, and otherwise none comes.

The argument.  The traversals and the evaluation of filters are recursive
functions, and the library's induction theorems take an operator as a parameter,
which the provers cannot instantiate.  The first part of the module therefore
derives induction over the naturals as a statement about sets (`Induction`),
and recursion as one about functions (`Recursion`), from the well-foundedness of
the strict subset ordering on finite sets, which is an ordinary theorem.
`CollectComputes` and `SoftComputes` say that the code's recursion is an
iteration by depth.  What it finds is stated without paths: `Layers[t][d]` are
the routers from which `t` is reached in at most `d` steps; layers grow until
they stop, before there are more of them than routers (`LayersEnd`), and the
last has the routers that reach `t`, neither more nor less (`LastLayer`).  For
filters, `TreeRecursion` gives the solution of a recursion over the nodes, and
`NodeNeedsChildren` that `Evaluate` is one.

Acyclic is stated without paths too: every non-empty set of routers has a member
that mounts none of the set.  The check before a mount computes the routers that
the new one reaches; that set is closed, so a set that violates the property
after the mount would violate it before, or contain the mounting router.
`RouterInv` adds that a handler is in the set of its own router and class only
(`SetsMatch`); `OnlyMore` says that statements of the program only add.
`WorkerInv` is one worker: the candidates before the current one have declined
(refused or skipped), the filters before the current one have passed, and the
match it carries is the first that those offer.  It does not look at the routers
again, so that the program may go on mounting; what it needs of them is in the
snapshot, which `CollectIsSnapshot` describes at the moment it is taken.
`HandlingInv` puts these together with the subscription.

### Sending

`SendingProofs` proves, for any tasks, keys, number of goroutines, capacity and
TTL:

* `TranslateStaysInside`: `_translate` yields an exception of the hierarchy,
  whatever the status;
* `Typed`: types hold, and the cache keeps its limit and has one entry per key;
* `CallersAreToldTheTruth`: "ok" of a method with a result means done, "deduped"
  that WhatsApp took a message under this key, a refusal that nothing was done;
  the refusals that prove nothing (`Doubtful`) are those of group settings, and
  for a reaction, an edit or a revoke its own error and `InvalidJIDError`;
* `CacheIsSound`: the cache answers for every acknowledged text that is young
  and recent enough, and for no send that failed.  The one exception is a text
  that was acknowledged twice: the goroutine that found the first entry expired
  may remove the second (`sender.go:136`).  What was acknowledged once is not
  lost that way.

The argument.  `Owned` ties each waiting task to the goroutine that works for it;
`Told` says what each place of a goroutine and each answer imply about WhatsApp;
`Remembers` relates the age and rank of an entry to the history of its key, which
needs the lemmas on removing from and appending to a bounded sequence, and says
of a goroutine about to remove an entry that its key was acknowledged longer ago
than the TTL or again since (`Dropping`); and that what has an entry was
delivered, on which the truth of "deduped" rests.

### Only model-checked

The liveness properties: `StopReturns`, `AcceptedGetsHandled`, `Progress`,
`CallsReturn`, `TransfersEnd`, `AllEnd` and `EventsConclude`.  Their proofs need
ENABLED of the fair actions, which the prover does not reason about.
Every invariant and every action property that a run checks, and each of the
three refinements, is proved.

## 5. What is not modelled

* The generated gRPC code, and the smoke-test command, a manual tool.
* The wording of messages, logging, the file format of the manifest, the search
  for the sidecar's binary and the parsing of its lines.
* `Bus.translate` and `converter.go`: mappings of field to field, without state;
  the models keep the kinds of the events and whether building a message fails.
* The requests to whatsmeow that groups, receipts and presence forward; the
  models keep what a caller gets back, and that `UpdateGroupSettings`, which
  makes several in a row, may fail between them.
* In `Handling`, a filter that raises (a string predicate on something that is not
  a string), which no property depends on, and the app's own `on_event` hook, which
  awaits the user's QR callbacks (`app.py:228-232`) before the handlers run; its
  effect on the manifest is `AccountLifecycle`'s.
* Several account keys in one instance of `AccountLifecycle`: keys share no state
  but the manifest's lock, which `Manifest` has.

## 6. Where this stands

Every component with state of its own has a module, eight modules have theorems,
and three components are shown to implement an abstract specification.  What is
left:

1. an abstract specification of the deduplication cache (a bounded memory of what
   was sent), refined by `Sending`;
2. a composition of `AccountLifecycle` with `Dispatcher`'s stop, so that the
   events which a drain still handles meet a manifest that is being closed.

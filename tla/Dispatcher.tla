----------------------------- MODULE Dispatcher -----------------------------
(***************************************************************************)
(* src/src/fastmeow/_dispatcher.py:488-686, class Dispatcher.              *)
(*                                                                         *)
(* One reader task moves the events of the gateway stream into one bounded *)
(* queue per account; one worker task per account, created on the first    *)
(* event of the account, takes them out and runs the on_event hook, the    *)
(* router and, when that raises, the on_error hook.  stop() cancels the    *)
(* reader, puts a None sentinel in every queue that has room, waits for    *)
(* the workers and cancels those that outlast drain_timeout.               *)
(*                                                                         *)
(* asyncio runs one task at a time, from one suspension point to the next: *)
(* an action is such a stretch.  `async with self._lock` never suspends    *)
(* here, since no holder of the lock suspends while holding it.            *)
(*                                                                         *)
(* Abstractions: an event is the number the stream gives it; the router    *)
(* and the user's handlers are steps that return, raise, or never end.     *)
(* The initial state is the one after start(): the App creates, starts     *)
(* and publishes the dispatcher before anybody can call stop().            *)
(***************************************************************************)
EXTENDS Naturals, Sequences

CONSTANTS
    Accounts,   \* the account keys
    Callers,    \* the tasks that may call stop(): the user's, run_forever's
    QueueSize,  \* per_account_queue_size
    None,       \* the sentinel
    Stubborn,   \* accounts whose handlers may swallow a CancelledError
    MaxEvents   \* bound: number of events the stream yields

ASSUME QueueSizeAssumption == QueueSize \in Nat \ {0}
ASSUME NoneAssumption == None \notin Nat
ASSUME StubbornAssumption == Stubborn \subseteq Accounts
ASSUME MaxEventsAssumption == MaxEvents \in Nat

VARIABLES
    read,      \* number of events taken off the stream so far
    reader,    \* the reader task
    stopped,   \* the asyncio.Event _stopped
    worker,    \* [Accounts -> WorkerStates]: the account's task
    queue,     \* [Accounts -> Seq(Nat \cup {None})]: the account's queue
    current,   \* [Accounts -> Seq(Nat)]: the event in the worker's hands
    handled,   \* [Accounts -> Seq(Nat)]: history, events gone through a worker
    accepted,  \* [Accounts -> Seq(Nat)]: history, events put in the queue
    cancelled, \* accounts whose worker has a cancellation pending
    stopPc     \* [Callers -> StopStates]: where each call of stop() is

vars == <<read, reader, stopped, worker, queue, current, handled, accepted,
          cancelled, stopPc>>

ReaderStates == {"running", "cancelling", "cancelled", "eof", "failed", "overflow"}
Busy == {"hook", "route", "error"}
Dead == {"exited", "cancelled"}
WorkerStates == {"none", "created", "get"} \cup Busy \cup Dead
StopStates == {"idle", "reader", "drain", "abort", "joined", "early"}

Alive(a) == worker[a] \notin Dead \cup {"none"}
HasRoom(a) == Len(queue[a]) < QueueSize

Init ==
    /\ read = 0
    /\ reader = "running"
    /\ stopped = FALSE
    /\ worker = [a \in Accounts |-> "none"]
    /\ queue = [a \in Accounts |-> <<>>]
    /\ current = [a \in Accounts |-> <<>>]
    /\ handled = [a \in Accounts |-> <<>>]
    /\ accepted = [a \in Accounts |-> <<>>]
    /\ cancelled = {}
    /\ stopPc = [c \in Callers |-> "idle"]

-----------------------------------------------------------------------------
(* The reader: _read_loop, _enqueue, _get_worker.                          *)

NextEvent ==
    /\ reader = "running"
    /\ read < MaxEvents
    /\ read' = read + 1

(* A fault: the queue grows beyond its size.                               *)
EnqueueBeyond(a) ==
    /\ NextEvent
    /\ worker' = [worker EXCEPT ![a] = IF @ = "none" THEN "created" ELSE @]
    /\ queue' = [queue EXCEPT ![a] = Append(@, read + 1)]
    /\ accepted' = [accepted EXCEPT ![a] = Append(@, read + 1)]
    /\ UNCHANGED <<reader, stopped, current, handled, cancelled, stopPc>>

(* The event goes to its account's queue; the first one creates the worker. *)
Enqueue(a) ==
    /\ NextEvent
    /\ HasRoom(a)
    /\ worker' = [worker EXCEPT ![a] = IF @ = "none" THEN "created" ELSE @]
    /\ queue' = [queue EXCEPT ![a] = Append(@, read + 1)]
    /\ accepted' = [accepted EXCEPT ![a] = Append(@, read + 1)]
    /\ UNCHANGED <<reader, stopped, current, handled, cancelled, stopPc>>

(* The queue is full: BackpressureError ends the reader (611-622).         *)
Overflow(a) ==
    /\ NextEvent
    /\ ~HasRoom(a)
    /\ stopped' = TRUE
    /\ reader' = "overflow"
    /\ UNCHANGED <<worker, queue, current, handled, accepted, cancelled, stopPc>>

(* The stream ends cleanly or with an error; nobody else notices.          *)
StreamEnds ==
    /\ reader = "running"
    /\ reader' \in {"eof", "failed"}
    /\ UNCHANGED <<read, stopped, worker, queue, current, handled, accepted,
                   cancelled, stopPc>>

ReaderCancelled ==
    /\ reader = "cancelling"
    /\ reader' = "cancelled"
    /\ UNCHANGED <<read, stopped, worker, queue, current, handled, accepted,
                   cancelled, stopPc>>

-----------------------------------------------------------------------------
(* The workers: _account_loop.                                             *)

(* A fault: the loop leaves on _stopped without looking at the queue.      *)
TurnIgnoringQueue(a) ==
    IF stopped
    THEN /\ worker' = [worker EXCEPT ![a] = "exited"]
         /\ current' = [current EXCEPT ![a] = <<>>]
         /\ UNCHANGED queue
    ELSE IF queue[a] = <<>>
    THEN /\ worker' = [worker EXCEPT ![a] = "get"]
         /\ current' = [current EXCEPT ![a] = <<>>]
         /\ UNCHANGED queue
    ELSE /\ worker' = [worker EXCEPT ![a] = "hook"]
         /\ queue' = [queue EXCEPT ![a] = Tail(@)]
         /\ current' = [current EXCEPT ![a] = <<Head(queue[a])>>]

(* A fault: the newest event first.                                        *)
TurnTakingNewest(a) ==
    \/ /\ queue[a] = <<>>
       /\ worker' = [worker EXCEPT ![a] = IF stopped THEN "exited" ELSE "get"]
       /\ current' = [current EXCEPT ![a] = <<>>]
       /\ UNCHANGED queue
    \/ LET last == queue[a][Len(queue[a])] IN
       /\ queue[a] # <<>>
       /\ queue' = [queue EXCEPT ![a] = SubSeq(@, 1, Len(@) - 1)]
       /\ worker' = [worker EXCEPT ![a] = IF last = None THEN "exited" ELSE "hook"]
       /\ current' = [current EXCEPT ![a] = IF last = None THEN <<>> ELSE <<last>>]

(* One turn of the loop, from its top to the first suspension (663-669).   *)
Turn(a) ==
    \/ /\ queue[a] = <<>>
       /\ worker' = [worker EXCEPT ![a] = IF stopped THEN "exited" ELSE "get"]
       /\ current' = [current EXCEPT ![a] = <<>>]
       /\ UNCHANGED queue
    \/ /\ queue[a] # <<>>
       /\ queue' = [queue EXCEPT ![a] = Tail(@)]
       /\ \/ /\ Head(queue[a]) = None
             /\ worker' = [worker EXCEPT ![a] = "exited"]
             /\ current' = [current EXCEPT ![a] = <<>>]
          \/ /\ Head(queue[a]) # None
             /\ worker' = [worker EXCEPT ![a] = "hook"]
             /\ current' = [current EXCEPT ![a] = <<Head(queue[a])>>]

(* The task runs for the first time, or its queue.get() has something.     *)
WorkerWakes(a) ==
    /\ a \notin cancelled
    /\ \/ worker[a] = "created"
       \/ worker[a] = "get" /\ queue[a] # <<>>
    /\ Turn(a)
    /\ UNCHANGED <<read, reader, stopped, handled, accepted, cancelled, stopPc>>

(* The task goes from one await of the loop body to the next: the hook     *)
(* returned or raised an Exception (-> route) or something worse           *)
(* (-> error); the router raised (route -> error).                         *)
WorkerAdvances(a) ==
    /\ a \notin cancelled
    /\ \/ worker[a] = "hook" /\ worker' = [worker EXCEPT ![a] = "route"]
       \/ worker[a] \in {"hook", "route"} /\ worker' = [worker EXCEPT ![a] = "error"]
    /\ UNCHANGED <<read, reader, stopped, queue, current, handled, accepted,
                   cancelled, stopPc>>

(* The router, or the on_error hook, is done with the event: next turn.    *)
WorkerFinishes(a) ==
    /\ a \notin cancelled
    /\ worker[a] \in {"route", "error"}
    /\ handled' = [handled EXCEPT ![a] = @ \o current[a]]
    /\ Turn(a)
    /\ UNCHANGED <<read, reader, stopped, accepted, cancelled, stopPc>>

(* The CancelledError reaches the task at whatever it awaits and ends it.  *)
WorkerCancelled(a) ==
    /\ a \in cancelled
    /\ Alive(a)
    /\ worker' = [worker EXCEPT ![a] = "cancelled"]
    /\ UNCHANGED <<read, reader, stopped, queue, current, handled, accepted,
                   cancelled, stopPc>>

(* A user's handler or error hook catches the CancelledError and goes on.  *)
HandlerSwallowsCancel(a) ==
    /\ a \in cancelled \cap Stubborn
    /\ worker[a] \in {"route", "error"}
    /\ cancelled' = cancelled \ {a}
    /\ UNCHANGED <<read, reader, stopped, worker, queue, current, handled,
                   accepted, stopPc>>

-----------------------------------------------------------------------------
(* stop().                                                                 *)

(* Sentinels for all workers whose queue has room, then the wait (558-577). *)
WakeWorkers(c) ==
    /\ queue' = [a \in Accounts |->
                    IF worker[a] # "none" /\ HasRoom(a)
                    THEN Append(queue[a], None) ELSE queue[a]]
    /\ stopPc' = [stopPc EXCEPT ![c] =
                    IF \A a \in Accounts : worker[a] = "none" THEN "joined" ELSE "drain"]

StopEarly(c) ==
    /\ stopPc[c] = "idle"
    /\ stopped
    /\ stopPc' = [stopPc EXCEPT ![c] = "early"]
    /\ UNCHANGED <<read, reader, stopped, worker, queue, current, handled,
                   accepted, cancelled>>

StopFirst(c) ==
    /\ stopPc[c] = "idle"
    /\ ~stopped
    /\ stopped' = TRUE
    /\ \/ /\ reader = "running"
          /\ reader' = "cancelling"
          /\ stopPc' = [stopPc EXCEPT ![c] = "reader"]
          /\ UNCHANGED queue
       \/ /\ reader # "running"
          /\ WakeWorkers(c)
          /\ UNCHANGED reader
    /\ UNCHANGED <<read, worker, current, handled, accepted, cancelled>>

(* A fault: the sentinels are put with `await queue.put(None)`.            *)
StopReaderGoneBlocking(c) ==
    /\ stopPc[c] = "reader"
    /\ reader = "cancelled"
    /\ \A a \in Accounts : worker[a] # "none" => HasRoom(a)
    /\ WakeWorkers(c)
    /\ UNCHANGED <<read, reader, stopped, worker, current, handled, accepted, cancelled>>

StopReaderGone(c) ==
    /\ stopPc[c] = "reader"
    /\ reader = "cancelled"
    /\ WakeWorkers(c)
    /\ UNCHANGED <<read, reader, stopped, worker, current, handled, accepted, cancelled>>

(* A fault: stop() does not wait for the tasks it has cancelled.           *)
StopJoinedAtOnce(c) ==
    /\ stopPc[c] \in {"drain", "abort"}
    /\ stopPc[c] = "drain" => \A a \in Accounts : ~Alive(a)
    /\ stopPc' = [stopPc EXCEPT ![c] = "joined"]
    /\ UNCHANGED <<read, reader, stopped, worker, queue, current, handled,
                   accepted, cancelled>>

(* gather() has all results.  After an abort wait_for still waits for them *)
(* before it raises TimeoutError, so the loop at 579-581 finds none alive. *)
StopJoined(c) ==
    /\ stopPc[c] \in {"drain", "abort"}
    /\ \A a \in Accounts : ~Alive(a)
    /\ stopPc' = [stopPc EXCEPT ![c] = "joined"]
    /\ UNCHANGED <<read, reader, stopped, worker, queue, current, handled,
                   accepted, cancelled>>

(* drain_timeout elapses, or the task in stop() is itself cancelled:       *)
(* wait_for cancels the gather() and that cancels every unfinished task.   *)
DrainTimeout(c) ==
    /\ stopPc[c] = "drain"
    /\ \E a \in Accounts : Alive(a)
    /\ cancelled' = {a \in Accounts : Alive(a)}
    /\ stopPc' = [stopPc EXCEPT ![c] = "abort"]
    /\ UNCHANGED <<read, reader, stopped, worker, queue, current, handled, accepted>>

-----------------------------------------------------------------------------
ReaderStep == (\E a \in Accounts : Enqueue(a) \/ Overflow(a)) \/ StreamEnds \/ ReaderCancelled

WorkerStep(a) ==
    \/ WorkerWakes(a)
    \/ WorkerAdvances(a)
    \/ WorkerFinishes(a)
    \/ WorkerCancelled(a)
    \/ HandlerSwallowsCancel(a)

StopStep(c) ==
    StopEarly(c) \/ StopFirst(c) \/ StopReaderGone(c) \/ StopJoined(c) \/ DrainTimeout(c)

(* Nothing is left to do: the reader is gone and every worker is at rest.  *)
Quiescent ==
    /\ reader \notin {"running", "cancelling"}
    /\ \A a \in Accounts : ~Alive(a) \/ (worker[a] = "get" /\ queue[a] = <<>>)
    /\ \A c \in Callers : stopPc[c] \in {"joined", "early"}

Rest == Quiescent /\ UNCHANGED vars

Next ==
    \/ ReaderStep
    \/ \E a \in Accounts : WorkerStep(a)
    \/ \E c \in Callers : StopStep(c)
    \/ Rest

Spec == Init /\ [][Next]_vars

(* What the event loop guarantees: a task whose await is over is resumed,  *)
(* a pending CancelledError is delivered, a timer fires.  The stream, the  *)
(* handlers and the callers of stop() owe nothing.                         *)
LoopFairness ==
    /\ WF_vars(ReaderCancelled)
    /\ \A a \in Accounts : WF_vars(WorkerWakes(a)) /\ WF_vars(WorkerCancelled(a))
    /\ \A c \in Callers :
          /\ WF_vars(StopReaderGone(c))
          /\ WF_vars(StopJoined(c))
          /\ WF_vars(DrainTimeout(c))

(* Handlers that always return or raise.                                   *)
HandlerFairness ==
    \A a \in Accounts : WF_vars(WorkerAdvances(a) \/ WorkerFinishes(a))

FairSpec == Spec /\ LoopFairness

-----------------------------------------------------------------------------
(* Every variable has its type; one record of facts for the whole module.  *)
TypeOK ==
    /\ read \in 0..MaxEvents
    /\ reader \in ReaderStates
    /\ stopped \in BOOLEAN
    /\ worker \in [Accounts -> WorkerStates]
    /\ queue \in [Accounts -> Seq(Nat \cup {None})]
    /\ \A a \in Accounts : Len(queue[a]) <= QueueSize
    /\ current \in [Accounts -> Seq(Nat)]
    /\ handled \in [Accounts -> Seq(Nat)]
    /\ accepted \in [Accounts -> Seq(Nat)]
    /\ cancelled \subseteq Accounts
    /\ stopPc \in [Callers -> StopStates]

(* The events of a queue: stop() puts the sentinel behind all of them.     *)
Events(q) == IF q # <<>> /\ q[Len(q)] = None THEN SubSeq(q, 1, Len(q) - 1) ELSE q

(* The sentinel is only ever the last thing of a queue: nothing is put     *)
(* behind it, because the reader is gone before it is put (552-573).       *)
SentinelLast ==
    \A a \in Accounts : \A i \in 1..Len(queue[a]) :
        queue[a][i] = None => i = Len(queue[a])

(* Strict order per account, nothing lost, nothing twice (docstring 10-17): *)
(* what was accepted is what was handled, then what is in hand (or was     *)
(* when the task was cancelled), then what is queued.                      *)
Conserved ==
    \A a \in Accounts :
        accepted[a] = handled[a] \o current[a] \o Events(queue[a])

(* A worker that ends by itself has handled everything its account was     *)
(* ever given, whichever of the two exits of the loop it took (651-655).   *)
ExitedMeansDrained ==
    \A a \in Accounts : worker[a] = "exited" => handled[a] = accepted[a]

(* The call of stop() that did the work returns only when no worker runs   *)
(* any more, so that the App may close the transport the handlers use      *)
(* (app.py:395-401), and from then on nothing is accepted.                 *)
JoinedMeansQuiet ==
    (\E c \in Callers : stopPc[c] = "joined") =>
        /\ \A a \in Accounts : ~Alive(a)
        /\ reader \notin {"running", "cancelling"}

(* Nobody sleeps through the drain: a worker at an empty queue is woken by  *)
(* the sentinel, one at a full queue needs none since it looks at _stopped *)
(* when it is through (651-655).  So drain_timeout is spent on handlers.   *)
DrainNeverIdles ==
    (\E c \in Callers : stopPc[c] = "drain") =>
        \A a \in Accounts : worker[a] = "get" => queue[a] # <<>>

(* Both: a shutdown waits for handlers only, and leaves nothing behind.    *)
ShutdownDrains == ExitedMeansDrained /\ DrainNeverIdles

(* stop() never accepts an event it would then have to abandon: once       *)
(* _stopped is set, nothing enters a queue but sentinels.                  *)
NoAcceptAfterStop == [][stopped => UNCHANGED accepted]_vars

(* What makes these invariants inductive.  A call of stop() that is past   *)
(* its guard is the only one, and sentinels are put only when the reader   *)
(* is gone.                                                                *)
Stopper(c) == stopPc[c] \in {"reader", "drain", "abort", "joined"}
Woken == \E c \in Callers : stopPc[c] \in {"drain", "abort", "joined"}

StopFacts ==
    /\ stopped => reader # "running"
    /\ reader = "cancelling" => stopped
    /\ \A c \in Callers : Stopper(c) => stopped
    /\ \A c, d \in Callers : Stopper(c) /\ Stopper(d) => c = d
    /\ Woken => reader # "cancelling"
    /\ ~Woken => \A a \in Accounts : \A i \in 1..Len(queue[a]) : queue[a][i] # None

WorkerFacts ==
    \A a \in Accounts :
        /\ worker[a] = "none" => queue[a] = <<>> /\ handled[a] = <<>>
        /\ worker[a] \in {"none", "created", "get"} => current[a] = <<>>
        /\ worker[a] \in Busy => Len(current[a]) = 1
        /\ worker[a] = "exited" =>
               stopped /\ current[a] = <<>> /\ queue[a] \in {<<>>, <<None>>}

IInv ==
    /\ TypeOK
    /\ StopFacts
    /\ WorkerFacts
    /\ SentinelLast
    /\ Conserved
    /\ DrainNeverIdles
    /\ JoinedMeansQuiet

(* Refinement: the dispatcher is an OrderedDelivery.                       *)
Abstract == INSTANCE OrderedDelivery WITH
    Numbers <- 1..MaxEvents,
    pending <- [a \in Accounts |-> current[a] \o Events(queue[a])],
    processed <- handled,
    closed <- stopped

ImplementsOrderedDelivery == Abstract!Spec

(* A call of stop() returns, however slow the handlers are, unless one of  *)
(* them swallows the cancellation that ends the wait (docstring 543-547).  *)
StopReturns ==
    \A c \in Callers :
        stopPc[c] \in {"reader", "drain", "abort"}
            ~> \/ stopPc[c] = "joined"
               \/ stopPc[c] = "abort" /\ \E a \in Stubborn : Alive(a) /\ a \notin cancelled

(* With handlers that return, every accepted event is handled in the end,  *)
(* stop or no stop, unless drain_timeout cut the account's worker short.   *)
AcceptedGetsHandled ==
    HandlerFairness =>
        \A a \in Accounts : \A n \in 1..MaxEvents :
            Len(accepted[a]) >= n ~> (Len(handled[a]) >= n \/ worker[a] = "cancelled")
=============================================================================

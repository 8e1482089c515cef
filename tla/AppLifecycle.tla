----------------------------- MODULE AppLifecycle -----------------------------
(***************************************************************************)
(* Starting and stopping the app: src/src/fastmeow/app.py:308-413.         *)
(*                                                                         *)
(* start() takes the manifest's file lock, spawns a sidecar, waits for it  *)
(* to listen, opens a channel and starts the dispatcher; when a step       *)
(* raises, or the task is cancelled, it takes back what it has done.       *)
(* stop() releases everything in the opposite order.  Several tasks may    *)
(* call stop(), a handler's among them, and at any time; the first call    *)
(* sets _stopped, and the others return at once.  A handler's call waits   *)
(* for its own worker.                                                     *)
(*                                                                         *)
(* Supervisor has the sidecar's process and its Sidecar object.  A start   *)
(* that raised may be repeated, and an app that has been stopped be        *)
(* followed by a new one on the same session directory: every start() is   *)
(* an attempt of its own.                                                  *)
(*                                                                         *)
(* Abstractions: one app at a time calls start(); Dispatcher.stop(), which *)
(* the module Dispatcher has in detail, is one step, which returns unless  *)
(* a worker made the call; when open() is cancelled, the manifest it made  *)
(* is collected, and its lock with it.                                     *)
(***************************************************************************)
EXTENDS Supervisor

CONSTANTS
    Stoppers, \* the tasks that call stop()
    Handlers  \* those that are the dispatcher's own workers

ASSUME HandlersAssumption == Handlers \subseteq Stoppers

VARIABLES
    attempt,     \* the number of the last start()
    start,       \* where start() is
    started,     \* FastMeow._started
    stopped,     \* FastMeow._stopped
    stop,        \* [Stoppers -> STRING]: where each call of stop() is
    lock,        \* the attempt whose manifest has the file lock, or 0
    channels,    \* the attempts whose gRPC channel is open
    dispatchers, \* the attempts whose dispatcher runs
    disturbed    \* history: stop() before start() was through or by a
                 \* handler, a second cancellation, or a crash

appVars == <<attempt, start, started, stopped, stop, lock, channels, dispatchers, disturbed>>
vars == <<appVars, sidecarVars>>

StopFinals == {"nothing", "returned", "done", "raised", "cancelled"}

(* No call of stop() does anything any more.                               *)
Idle == \A c \in Stoppers : stop[c] \in StopFinals \cup {"idle", "stuck"}

Init ==
    /\ InitSidecar
    /\ attempt = 0
    /\ start = "idle"
    /\ started = FALSE
    /\ stopped = FALSE
    /\ stop = [c \in Stoppers |-> "idle"]
    /\ lock = 0
    /\ channels = {}
    /\ dispatchers = {}
    /\ disturbed = FALSE

-----------------------------------------------------------------------------
(* start().                                                                *)

StartCall ==
    /\ start \in {"idle", "raised"}
    /\ ~started
    /\ attempt < MaxStarts
    /\ attempt' = attempt + 1
    /\ start' = "open"
    /\ UNCHANGED <<started, stopped, stop, lock, channels, dispatchers, disturbed, sidecarVars>>

(* Manifest.open: raises when the lock is taken or the file cannot be      *)
(* read; the lock is then given back.                                      *)
OpenManifest ==
    /\ start = "open"
    /\ \/ lock = 0 /\ lock' = attempt /\ start' = "spawn"
       \/ start' = "raised" /\ UNCHANGED lock
    /\ UNCHANGED <<attempt, started, stopped, stop, channels, dispatchers, disturbed, sidecarVars>>

StartSidecar ==
    /\ start = "spawn"
    /\ \/ Spawned(attempt) /\ start' = "ready"
       \/ start' = "rollback" /\ UNCHANGED sidecarVars
    /\ UNCHANGED <<attempt, started, stopped, stop, lock, channels, dispatchers, disturbed>>

(* wait_ready: the address wins over the exit; or the timeout expires.     *)
WaitReady ==
    /\ start = "ready"
    /\ start' = IF attempt \in ready THEN "connect" ELSE "rollback"
    /\ UNCHANGED <<attempt, started, stopped, stop, lock, channels, dispatchers, disturbed, sidecarVars>>

(* Ping needs a living server.  Nothing suspends the task between the      *)
(* answer and the commit.                                                  *)
Connect ==
    /\ start = "connect"
    /\ \/ /\ proc[attempt] = "up"
          /\ channels' = channels \cup {attempt}
          /\ dispatchers' = dispatchers \cup {attempt}
          /\ started' = TRUE
          /\ start' = "started"
       \/ start' = "rollback" /\ UNCHANGED <<channels, dispatchers, started>>
    /\ UNCHANGED <<attempt, stopped, stop, lock, disturbed, sidecarVars>>

(* The task is cancelled at an await.  connect() closes its channel on     *)
(* errors of gRPC only.                                                    *)
CancelStart ==
    /\ start \in {"open", "spawn", "ready", "connect"}
    /\ start' = IF start = "open" THEN "raised" ELSE "rollback"
    /\ channels' = IF start = "connect" THEN channels \cup {attempt} ELSE channels
    /\ UNCHANGED <<attempt, started, stopped, stop, lock, dispatchers, disturbed, sidecarVars>>

(* A fault: the sidecar is not stopped.                                    *)
RollbackSkippingSidecar ==
    /\ start = "rollback"
    /\ start' = "raised"
    /\ lock' = 0
    /\ UNCHANGED <<attempt, started, stopped, stop, channels, dispatchers, disturbed, sidecarVars>>

Rollback ==
    /\ start = "rollback"
    /\ start' = "rollback_wait"
    /\ StopCalled(attempt)
    /\ UNCHANGED <<proc, stderr, helperVars, logVars>>
    /\ UNCHANGED <<attempt, started, stopped, stop, lock, channels, dispatchers, disturbed>>

(* What Sidecar.stop() raises is swallowed.                                *)
RollbackEnds ==
    /\ start = "rollback_wait"
    /\ stopping[attempt] \in {"stopped", "failed"}
    /\ start' = "raised"
    /\ lock' = 0
    /\ UNCHANGED <<attempt, started, stopped, stop, channels, dispatchers, disturbed, sidecarVars>>

(* The work of Sidecar.stop() goes undone when its caller is cancelled.    *)
Abandon(g) ==
    /\ stopping' = [stopping EXCEPT ![g] = IF @ \in {"no", "stopped", "failed"} THEN @ ELSE "abandoned"]
    /\ UNCHANGED <<proc, stderr, helperVars, logVars>>

(* A second cancellation, as the first is being rolled back: nothing holds *)
(* the manifest any more, and its lock is gone.                            *)
CancelRollback ==
    /\ start = "rollback_wait"
    /\ ~disturbed
    /\ disturbed' = TRUE
    /\ start' = "raised"
    /\ lock' = 0
    /\ Abandon(attempt)
    /\ UNCHANGED <<attempt, started, stopped, stop, channels, dispatchers>>

-----------------------------------------------------------------------------
(* stop().                                                                 *)

GoOn(c, place) == stop' = [stop EXCEPT ![c] = place]

(* Before start() has committed, there is nothing to release.              *)
StopCall(c) ==
    /\ stop[c] = "idle"
    /\ c \in Handlers => started
    /\ stopped' = TRUE
    /\ GoOn(c, IF ~started THEN "nothing" ELSE IF stopped THEN "returned" ELSE "dispatcher")
    /\ disturbed' = (disturbed \/ ~started)
    /\ UNCHANGED <<attempt, start, started, lock, channels, dispatchers, sidecarVars>>

(* Dispatcher.stop() waits for the workers, and cancels them when its time *)
(* is over.  A handler is awaited by its own gather(): its task waits for  *)
(* the gather, the gather for the task, the cancellation follows that      *)
(* circle until the stack is full, and the call never returns.  Nobody is  *)
(* awaited when the dispatcher has stopped before.                         *)
StopDispatcher(c) ==
    /\ stop[c] = "dispatcher"
    /\ dispatchers' = dispatchers \ {attempt}
    /\ GoOn(c, IF c \in Handlers /\ attempt \in dispatchers THEN "stuck" ELSE "shutdown")
    /\ disturbed' = (disturbed \/ c \in Handlers)
    /\ UNCHANGED <<attempt, start, started, stopped, lock, channels, sidecarVars>>

(* run_until_stopped(): the stream of events has ended, and the dispatcher *)
(* stops by itself.                                                        *)
RunEnds ==
    /\ attempt \in dispatchers
    /\ dispatchers' = dispatchers \ {attempt}
    /\ UNCHANGED <<attempt, start, started, stopped, stop, lock, channels, disturbed, sidecarVars>>

(* The Shutdown RPC, whose errors are swallowed.                           *)
StopShutdown(c) ==
    /\ stop[c] = "shutdown"
    /\ \/ AsksToLeave(attempt)
       \/ UNCHANGED proc
    /\ GoOn(c, "close")
    /\ UNCHANGED <<stderr, helperVars, stopping, logVars>>
    /\ UNCHANGED <<attempt, start, started, stopped, lock, channels, dispatchers, disturbed>>

StopChannel(c) ==
    /\ stop[c] = "close"
    /\ channels' = channels \ {attempt}
    /\ StopCalled(attempt)
    /\ GoOn(c, "sidecar")
    /\ UNCHANGED <<proc, stderr, helperVars, logVars>>
    /\ UNCHANGED <<attempt, start, started, stopped, lock, dispatchers, disturbed>>

(* When Sidecar.stop() raises, the manifest is not closed.                 *)
StopSidecar(c) ==
    /\ stop[c] = "sidecar"
    /\ \/ stopping[attempt] = "stopped" /\ GoOn(c, "manifest")
       \/ stopping[attempt] = "failed" /\ GoOn(c, "raised")
    /\ UNCHANGED <<attempt, start, started, stopped, lock, channels, dispatchers, disturbed, sidecarVars>>

StopManifest(c) ==
    /\ stop[c] = "manifest"
    /\ lock' = 0
    /\ GoOn(c, "done")
    /\ UNCHANGED <<attempt, start, started, stopped, channels, dispatchers, disturbed, sidecarVars>>

(* The task that stops is cancelled at an await.                           *)
CancelStop(c) ==
    /\ stop[c] \in {"dispatcher", "shutdown", "close", "sidecar", "manifest"}
    /\ ~disturbed
    /\ disturbed' = TRUE
    /\ GoOn(c, "cancelled")
    /\ \/ stop[c] = "sidecar" /\ Abandon(attempt)
       \/ stop[c] # "sidecar" /\ UNCHANGED sidecarVars
    /\ UNCHANGED <<attempt, start, started, stopped, lock, channels, dispatchers>>

-----------------------------------------------------------------------------
(* A new app in the place of one that is over as far as its user knows.    *)
Renew ==
    /\ started' = FALSE
    /\ stopped' = FALSE
    /\ start' = "idle"
    /\ stop' = [c \in Stoppers |-> "idle"]

NewApp ==
    /\ attempt < MaxStarts
    /\ \/ start = "raised"
       \/ start = "started" /\ \E c \in Stoppers : stop[c] \in StopFinals
    /\ Idle
    /\ Renew
    /\ UNCHANGED <<attempt, lock, channels, dispatchers, disturbed, sidecarVars>>

(* The Python process dies; the sidecar has a session of its own and goes  *)
(* on.                                                                     *)
Crash ==
    /\ attempt \in 1..(MaxStarts - 1)
    /\ ~disturbed
    /\ disturbed' = TRUE
    /\ Renew
    /\ lock' = 0
    /\ channels' = {}
    /\ dispatchers' = {}
    /\ stderrTask' = [g \in Attempts |-> IF stderrTask[g] = "none" THEN "none" ELSE "done"]
    /\ waitTask' = [g \in Attempts |-> IF waitTask[g] = "none" THEN "none" ELSE "done"]
    /\ stopping' = [g \in Attempts |-> IF stopping[g] = "stopped" \/ g > attempt THEN stopping[g] ELSE "abandoned"]
    /\ log' = [g \in Attempts |-> IF log[g] = "open" THEN "ended" ELSE log[g]]
    /\ UNCHANGED <<attempt, proc, stderr, ready, exited, fatal, gaveUp, inbox, missed>>

-----------------------------------------------------------------------------
StartStep ==
    OpenManifest \/ StartSidecar \/ WaitReady \/ Connect \/ Rollback \/ RollbackEnds

StopperStep(c) ==
    StopDispatcher(c) \/ StopShutdown(c) \/ StopChannel(c) \/ StopSidecar(c) \/ StopManifest(c)

Next ==
    \/ StartCall \/ StartStep \/ CancelStart \/ CancelRollback
    \/ \E c \in Stoppers : StopCall(c) \/ StopperStep(c) \/ CancelStop(c)
    \/ RunEnds \/ NewApp \/ Crash
    \/ /\ \E g \in Attempts :
              ProcessStep(g) \/ HelperStep(g) \/ StopStep(g) \/ KillTimesOut(g)
       /\ UNCHANGED appVars

Spec == Init /\ [][Next]_vars

(* The event loop runs the tasks; every wait of theirs has a timeout.  The *)
(* process owes nothing.                                                   *)
Fairness ==
    /\ WF_vars(StartStep)
    /\ \A c \in Stoppers : WF_vars(StopperStep(c))
    /\ SidecarFairness

FairSpec == Spec /\ Fairness

-----------------------------------------------------------------------------
TypeOKFlags == started \in BOOLEAN /\ stopped \in BOOLEAN /\ disturbed \in BOOLEAN

TypeOKApp ==
    /\ attempt \in 0..MaxStarts
    /\ start \in {"idle", "open", "spawn", "ready", "connect", "started", "rollback",
                  "rollback_wait", "raised"}
    /\ stop \in [Stoppers -> {"idle", "dispatcher", "shutdown", "close", "sidecar", "manifest", "stuck"}
                                 \cup StopFinals]
    /\ lock \in 0..MaxStarts
    /\ channels \subseteq Attempts
    /\ dispatchers \subseteq Attempts

(* Every variable has its type.                                            *)
TypeOK == TypeOKSidecar /\ TypeOKFlags /\ TypeOKApp

(* While a sidecar lives, its own app has the session directory's lock, so *)
(* no second sidecar opens the same databases: across failed starts,       *)
(* cancelled starts, retries, stops and new apps.                          *)
LockCoversSidecar == ~disturbed => \A g \in Living : lock = g

(* Nothing of the Sidecar of g is left: no process, no helper task.        *)
Gone(g) ==
    /\ proc[g] \notin Alive
    /\ stderrTask[g] # "running"
    /\ waitTask[g] \in {"none", "done"}

(* A start() that raises has taken back all it had acquired (310-313): the *)
(* lock, the process and its helpers, the dispatcher.                      *)
StartAtomic ==
    start = "raised" /\ ~disturbed /\ stopping[attempt] # "failed" =>
        lock # attempt /\ Gone(attempt) /\ attempt \notin dispatchers

(* A stop() that ran to its end has released everything.                   *)
StopReleases ==
    ~disturbed =>
        \A c \in Stoppers :
            stop[c] = "done" =>
                /\ lock # attempt
                /\ Gone(attempt)
                /\ attempt \notin dispatchers \cup channels

(* Both: a start that fails, and a stop, leave nothing behind.             *)
NothingLeft == StartAtomic /\ StopReleases

(* What makes these invariants inductive.  An attempt is untouched before  *)
(* its sidecar is spawned; Sidecar.stop() is through only with a process   *)
(* that is dead; a log ends behind the last line.                          *)
Untouched(g) ==
    /\ proc[g] = "none" /\ stderrTask[g] = "none" /\ waitTask[g] = "none"
    /\ stopping[g] = "no" /\ log[g] = "none"

ControlFacts ==
    /\ started <=> start = "started"
    /\ start # "idle" => attempt # 0
    /\ \A c \in Stoppers : stop[c] \notin {"idle", "nothing"} => started
    /\ \A g \in Attempts :
           g > attempt \/ (g = attempt /\ start \in {"open", "spawn"}) => Untouched(g)

SidecarFacts(g) ==
    /\ g \in exited => proc[g] = "dead"
    /\ proc[g] = "none" <=> waitTask[g] = "none"
    /\ waitTask[g] = "none" => stderrTask[g] = "none"
    /\ stopping[g] \in {"called", "grace", "killed", "tidy"} => proc[g] # "none"
    /\ stopping[g] \in {"killed", "tidy", "stopped", "failed"} => proc[g] \notin Alive
    /\ stopping[g] = "stopped" => Gone(g)

LogFacts(g) ==
    /\ log[g] # "none" => waitTask[g] # "none"
    /\ stopping[g] = "no" /\ stderrTask[g] = "done" /\ g \notin gaveUp
           => proc[g] = "dead" /\ stderr[g] = <<>>
    /\ stopping[g] = "no" /\ waitTask[g] = "done" => stderrTask[g] = "done"
    /\ stopping[g] = "no" /\ (log[g] = "ended" \/ \E i \in 1..Len(inbox[g]) : inbox[g][i] = "end")
           => waitTask[g] = "done"

LockFacts ==
    /\ lock <= attempt
    /\ \A g \in Living : lock = g
    /\ start = "open" => lock # attempt
    /\ start \in {"spawn", "ready", "connect"} => lock = attempt
    /\ start \in {"rollback", "rollback_wait", "started"} => lock \in {0, attempt}
    /\ start = "raised" => lock # attempt /\ (Gone(attempt) \/ stopping[attempt] = "failed")

ReleaseFacts ==
    /\ \A g \in dispatchers \cup channels : g <= attempt
    /\ start \in {"open", "spawn", "ready", "connect", "rollback", "rollback_wait", "raised"}
           => attempt \notin dispatchers
    /\ \A c \in Stoppers :
          /\ stop[c] \in {"shutdown", "close", "sidecar", "manifest", "done"} => attempt \notin dispatchers
          /\ stop[c] \in {"sidecar", "manifest", "done"} => attempt \notin channels
          /\ stop[c] \in {"manifest", "done"} => stopping[attempt] = "stopped"
          /\ stop[c] = "done" => lock # attempt

IInv ==
    /\ TypeOK
    /\ ControlFacts
    /\ \A g \in Attempts : SidecarFacts(g) /\ LogFacts(g)
    /\ ~disturbed => LockFacts /\ ReleaseFacts

(* A log that ends without stop() has all the process had written, unless  *)
(* the reader met a line it could not read.                                *)
LogComplete ==
    \A g \in Attempts :
        log[g] = "ended" /\ stopping[g] = "no" /\ g \notin gaveUp => stderr[g] = <<>>

(* start() returns or raises, whatever becomes of the process, and stop()  *)
(* comes to an end, even if the process ignores every request; a handler's *)
(* call does so only if it comes past the dispatcher.                      *)
CallsEnd ==
    /\ start = "open" ~> start \in {"started", "raised", "idle"}
    /\ \A c \in Stoppers \ Handlers : stop[c] = "dispatcher" ~> stop[c] \in StopFinals \cup {"idle"}
    /\ \A c \in Handlers : stop[c] = "shutdown" ~> stop[c] \in StopFinals \cup {"idle"}

(* A log ends once the process has exited, if the subscription came in     *)
(* time.                                                                   *)
LogEnds ==
    \A g \in Watched : log[g] = "open" /\ g \in exited /\ g \notin missed ~> log[g] = "ended"

(* Both: who calls start(), or stop() from a task that is no handler, or   *)
(* reads a log, does not wait for ever.                                    *)
AllEnd == CallsEnd /\ LogEnds

(* The promise of the class (app.py:250): once stop() has returned, as it  *)
(* does at the end of "async with", the subprocess is gone.                *)
SubprocessTornDown ==
    /\ \E c \in Stoppers : stop[c] \in {"returned", "done"}
    /\ Idle
    => proc[attempt] \notin Alive
=============================================================================

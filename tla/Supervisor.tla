------------------------------ MODULE Supervisor ------------------------------
(***************************************************************************)
(* The sidecar process as the Python side sees it.                         *)
(*                                                                         *)
(* src/src/fastmeow/_supervisor.py (class Sidecar) and the start and end   *)
(* of src/cmd/fastmeow-sidecar/main.go:61-182.  Every attempt to start the *)
(* app makes a Sidecar of its own.  A Sidecar has two helper tasks: one    *)
(* reads the lines the process writes to stderr, the other waits for the   *)
(* process to exit, then for the first, and then tells the subscribers of  *)
(* the log.  stop() terminates the process and cancels the helpers.        *)
(*                                                                         *)
(* This module has the operations; AppLifecycle calls them.                *)
(*                                                                         *)
(* Abstractions: of the lines of stderr, "listening" and "fatal" are kept, *)
(* so a line the reader cannot read may be among them at any place;        *)
(* time is not modelled, a timeout may expire at any moment; a process is  *)
(* reaped, its return code set and its exit event raised in one step.      *)
(***************************************************************************)
EXTENDS Naturals, Sequences, FiniteSets

CONSTANTS
    MaxStarts, \* bound: number of attempts to start the app
    Watched    \* the attempts whose log somebody may subscribe to

ASSUME MaxStartsAssumption == MaxStarts \in Nat \ {0}
ASSUME WatchedAssumption == Watched \subseteq 1..MaxStarts

Attempts == 1..MaxStarts
Lines == {"listening", "fatal"}

VARIABLES
    proc,       \* [Attempts -> STRING]: the process
    stderr,     \* [Attempts -> Seq(Lines)]: what it wrote and nobody has read
    ready,      \* the attempts whose _ready_event is set
    exited,     \* the attempts whose _exited_event is set
    fatal,      \* the attempts whose _state.fatal is set
    stderrTask, \* [Attempts -> {"none", "running", "done"}]
    waitTask,   \* [Attempts -> {"none", "waiting", "flushing", "done"}]
    stopping,   \* [Attempts -> STRING]: where Sidecar.stop() is
    log,        \* [Attempts -> STRING]: a subscription, "none", "open", "ended"
    inbox,      \* [Attempts -> Seq(Lines \cup {"end"})]: its queue
    missed,     \* history: the attempts whose subscription came too late
    gaveUp      \* history: the attempts whose reader has raised

helperVars == <<ready, exited, fatal, stderrTask, waitTask, gaveUp>>
logVars == <<log, inbox, missed>>
sidecarVars == <<proc, stderr, helperVars, stopping, logVars>>

Alive == {"booting", "up", "leaving"}
Living == {g \in Attempts : proc[g] \in Alive}

InitSidecar ==
    /\ proc = [g \in Attempts |-> "none"]
    /\ stderr = [g \in Attempts |-> <<>>]
    /\ ready = {}
    /\ exited = {}
    /\ fatal = {}
    /\ stderrTask = [g \in Attempts |-> "none"]
    /\ waitTask = [g \in Attempts |-> "none"]
    /\ stopping = [g \in Attempts |-> "no"]
    /\ log = [g \in Attempts |-> "none"]
    /\ inbox = [g \in Attempts |-> <<>>]
    /\ missed = {}
    /\ gaveUp = {}

-----------------------------------------------------------------------------
(* The process.                                                            *)

Says(g, line) == stderr' = [stderr EXCEPT ![g] = Append(@, line)]

Becomes(g, state) == proc' = [proc EXCEPT ![g] = state]

(* A step of bootstrap fails: "fatal", and exit.                           *)
BootFails(g) ==
    /\ proc[g] = "booting"
    /\ Says(g, "fatal")
    /\ Becomes(g, "dead")
    /\ UNCHANGED <<helperVars, stopping, logVars>>

(* "listening" is written before the server serves; the listener is open.  *)
Listens(g) ==
    /\ proc[g] = "booting"
    /\ Says(g, "listening")
    /\ Becomes(g, "up")
    /\ UNCHANGED <<helperVars, stopping, logVars>>

(* A fault: a state of the process that nobody else knows.                 *)
DiesOfSignal(g) ==
    /\ proc[g] \in Alive
    /\ Becomes(g, "signaled")
    /\ UNCHANGED <<stderr, helperVars, stopping, logVars>>

(* The process ends: after its graceful stop, which its own timer bounds,  *)
(* or at any time, in a crash.                                             *)
Dies(g) ==
    /\ proc[g] \in Alive
    /\ Becomes(g, "dead")
    /\ UNCHANGED <<stderr, helperVars, stopping, logVars>>

(* SIGTERM or the Shutdown RPC, once or twice.  Before main has installed  *)
(* its handler, the signal kills.                                          *)
AsksToLeave(g) ==
    \/ proc[g] = "booting" /\ proc' \in {[proc EXCEPT ![g] = s] : s \in {"dead", "leaving"}}
    \/ proc[g] = "up" /\ Becomes(g, "leaving")
    \/ proc[g] \in {"leaving", "dead"} /\ UNCHANGED proc

-----------------------------------------------------------------------------
(* The helper tasks and the subscription.                                  *)

(* Sidecar.start(), once the process is spawned.                           *)
Spawned(g) ==
    /\ Becomes(g, "booting")
    /\ stderrTask' = [stderrTask EXCEPT ![g] = "running"]
    /\ waitTask' = [waitTask EXCEPT ![g] = "waiting"]
    /\ UNCHANGED <<stderr, ready, exited, fatal, gaveUp, stopping, logVars>>

Publish(g, item) == inbox' = [inbox EXCEPT ![g] = IF log[g] = "open" THEN Append(@, item) ELSE @]

(* _drain_stderr reads a line, _handle_record notes and publishes it.      *)
ReadLine(g) ==
    /\ stderrTask[g] = "running"
    /\ stderr[g] # <<>>
    /\ stderr' = [stderr EXCEPT ![g] = Tail(@)]
    /\ ready' = IF Head(stderr[g]) = "listening" THEN ready \cup {g} ELSE ready
    /\ fatal' = IF Head(stderr[g]) = "fatal" THEN fatal \cup {g} ELSE fatal
    /\ Publish(g, Head(stderr[g]))
    /\ UNCHANGED <<proc, exited, stderrTask, waitTask, gaveUp, stopping, log, missed>>

ReadEOF(g) ==
    /\ stderrTask[g] = "running"
    /\ stderr[g] = <<>>
    /\ proc[g] = "dead"
    /\ stderrTask' = [stderrTask EXCEPT ![g] = "done"]
    /\ UNCHANGED <<proc, stderr, ready, exited, fatal, waitTask, gaveUp, stopping, logVars>>

(* readline() raises on a line of more than 64 KiB, and the reader returns *)
(* on any exception: what the process has written behind that line, and    *)
(* what it will write, stays in the pipe.                                  *)
ReaderRaises(g) ==
    /\ stderrTask[g] = "running"
    /\ stderrTask' = [stderrTask EXCEPT ![g] = "done"]
    /\ gaveUp' = gaveUp \cup {g}
    /\ UNCHANGED <<proc, stderr, ready, exited, fatal, waitTask, stopping, logVars>>

(* _wait_exit learns that the process has exited, maybe before the last    *)
(* lines have been read.                                                   *)
ExitNoticed(g) ==
    /\ waitTask[g] = "waiting"
    /\ proc[g] = "dead"
    /\ exited' = exited \cup {g}
    /\ waitTask' = [waitTask EXCEPT ![g] = "flushing"]
    /\ UNCHANGED <<proc, stderr, ready, fatal, stderrTask, gaveUp, stopping, logVars>>

(* A fault: the subscribers are told without waiting for the reader.       *)
ExitToldAtOnce(g) ==
    /\ waitTask[g] = "flushing"
    /\ waitTask' = [waitTask EXCEPT ![g] = "done"]
    /\ Publish(g, "end")
    /\ UNCHANGED <<proc, stderr, ready, exited, fatal, stderrTask, gaveUp, stopping, log, missed>>

(* It waits for the reader before it tells the subscribers.                *)
ExitTold(g) ==
    /\ waitTask[g] = "flushing"
    /\ stderrTask[g] = "done"
    /\ waitTask' = [waitTask EXCEPT ![g] = "done"]
    /\ Publish(g, "end")
    /\ UNCHANGED <<proc, stderr, ready, exited, fatal, stderrTask, gaveUp, stopping, log, missed>>

(* logs(): a queue of its own.  After the end nobody fills it.             *)
Subscribe(g) ==
    /\ g \in Watched
    /\ log[g] = "none"
    /\ waitTask[g] # "none"
    /\ log' = [log EXCEPT ![g] = "open"]
    /\ missed' = IF waitTask[g] = "done" THEN missed \cup {g} ELSE missed
    /\ UNCHANGED <<proc, stderr, helperVars, stopping, inbox>>

TakeItem(g) ==
    /\ log[g] = "open"
    /\ inbox[g] # <<>>
    /\ inbox' = [inbox EXCEPT ![g] = Tail(@)]
    /\ log' = IF Head(inbox[g]) = "end" THEN [log EXCEPT ![g] = "ended"] ELSE log
    /\ UNCHANGED <<proc, stderr, helperVars, stopping, missed>>

-----------------------------------------------------------------------------
(* Sidecar.stop().                                                         *)

StopMoves(g, place) == stopping' = [stopping EXCEPT ![g] = place]

(* It has been asked to stop: the first caller does the work.              *)
StopCalled(g) ==
    stopping' = [stopping EXCEPT ![g] =
                    IF @ # "no" THEN @ ELSE IF waitTask[g] = "none" THEN "stopped" ELSE "called"]

StopSignals(g) ==
    /\ stopping[g] = "called"
    /\ \/ g \in exited /\ StopMoves(g, "tidy") /\ UNCHANGED proc
       \/ g \notin exited /\ StopMoves(g, "grace") /\ AsksToLeave(g)
    /\ UNCHANGED <<stderr, helperVars, logVars>>

(* A fault: the wait for the exit has no end.                              *)
GraceEndless(g) ==
    /\ stopping[g] = "grace"
    /\ g \in exited
    /\ StopMoves(g, "tidy")
    /\ UNCHANGED <<proc, stderr, helperVars, logVars>>

(* A fault: when the grace period is over, the process is left alone.      *)
GraceOverGivingUp(g) ==
    /\ stopping[g] = "grace"
    /\ g \notin exited
    /\ StopMoves(g, "tidy")
    /\ UNCHANGED <<proc, stderr, helperVars, logVars>>

(* The grace period is over: SIGKILL.                                      *)
GraceOver(g) ==
    /\ stopping[g] = "grace"
    /\ g \notin exited
    /\ StopMoves(g, "killed")
    /\ Becomes(g, "dead")
    /\ UNCHANGED <<stderr, helperVars, logVars>>

(* The process has exited in time.                                         *)
StopSeesExit(g) ==
    /\ stopping[g] \in {"grace", "killed"}
    /\ g \in exited
    /\ StopMoves(g, "tidy")
    /\ UNCHANGED <<proc, stderr, helperVars, logVars>>

(* Five seconds after SIGKILL the exit has still not been noticed: raise.  *)
KillTimesOut(g) ==
    /\ stopping[g] = "killed"
    /\ g \notin exited
    /\ StopMoves(g, "failed")
    /\ UNCHANGED <<proc, stderr, helperVars, logVars>>

(* The helpers that still run are cancelled, the lines not yet read are    *)
(* lost, and the subscribers are told.                                     *)
StopTidies(g) ==
    /\ stopping[g] = "tidy"
    /\ StopMoves(g, "stopped")
    /\ stderrTask' = [stderrTask EXCEPT ![g] = "done"]
    /\ waitTask' = [waitTask EXCEPT ![g] = "done"]
    /\ Publish(g, "end")
    /\ UNCHANGED <<proc, stderr, ready, exited, fatal, gaveUp, log, missed>>

-----------------------------------------------------------------------------
(* The steps that no caller waits for.                                     *)
ProcessStep(g) == BootFails(g) \/ Listens(g) \/ Dies(g)

HelperStep(g) ==
    \/ ReadLine(g) \/ ReadEOF(g) \/ ReaderRaises(g)
    \/ ExitNoticed(g) \/ ExitTold(g)
    \/ Subscribe(g) \/ TakeItem(g)

StopStep(g) == StopSignals(g) \/ GraceOver(g) \/ StopSeesExit(g) \/ StopTidies(g)

SidecarFairness ==
    \A g \in Attempts :
        /\ WF_sidecarVars(ReadLine(g) \/ ReadEOF(g)) /\ WF_sidecarVars(ExitNoticed(g))
        /\ WF_sidecarVars(ExitTold(g)) /\ WF_sidecarVars(TakeItem(g))
        /\ WF_sidecarVars(StopStep(g))

TypeOKSidecar ==
    /\ proc \in [Attempts -> {"none", "booting", "up", "leaving", "dead"}]
    /\ stderr \in [Attempts -> Seq(Lines)]
    /\ ready \subseteq Attempts
    /\ exited \subseteq Attempts
    /\ fatal \subseteq Attempts
    /\ stderrTask \in [Attempts -> {"none", "running", "done"}]
    /\ waitTask \in [Attempts -> {"none", "waiting", "flushing", "done"}]
    /\ stopping \in [Attempts -> {"no", "called", "grace", "killed", "tidy", "stopped", "failed", "abandoned"}]
    /\ log \in [Attempts -> {"none", "open", "ended"}]
    /\ inbox \in [Attempts -> Seq(Lines \cup {"end"})]
    /\ missed \subseteq Attempts
    /\ gaveUp \subseteq Attempts
=============================================================================

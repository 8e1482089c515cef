-------------------------- MODULE AppLifecycleProofs --------------------------
(***************************************************************************)
(* The safety properties of AppLifecycle for every number of attempts and  *)
(* every set of tasks that stop.  IInv of AppLifecycle is the inductive    *)
(* invariant; there is one lemma for each of its conjuncts.                *)
(***************************************************************************)
EXTENDS AppLifecycle, TLAPS

(* An attempt is a positive number.                                        *)
LEMMA AttemptsAreNumbers == Attempts \subseteq Nat \ {0} /\ MaxStarts \in Attempts
BY MaxStartsAssumption DEF Attempts

(* The initial states satisfy the invariant.                               *)
LEMMA IInvInit == Init => IInv
<1> SUFFICES ASSUME Init PROVE IInv
  OBVIOUS
<1> USE MaxStartsAssumption DEF Init, InitSidecar, Attempts
<1>1. TypeOK
  <2>1. TypeOKFlags
    BY Zenon DEF TypeOKFlags
  <2> QED BY <2>1 DEF TypeOK, TypeOKApp, TypeOKSidecar, StopFinals
<1>2. ControlFacts
  BY DEF ControlFacts, Untouched
<1>3. ASSUME NEW g \in Attempts PROVE SidecarFacts(g) /\ LogFacts(g)
  BY DEF SidecarFacts, LogFacts, Gone, Alive
<1>4. LockFacts /\ ReleaseFacts
  BY DEF LockFacts, ReleaseFacts, Living, Alive
<1> QED BY <1>1, <1>2, <1>3, <1>4 DEF IInv

-----------------------------------------------------------------------------
(* A flag is set to TRUE or FALSE, or stays.                               *)
LEMMA FlagsStep == IInv /\ [Next]_vars => TypeOKFlags'
<1> SUFFICES ASSUME IInv, [Next]_vars PROVE TypeOKFlags'
  OBVIOUS
<1> USE DEF TypeOKFlags
<1>1. TypeOKFlags
  BY DEF IInv, TypeOK
<1>2. CASE StartCall \/ StartStep \/ CancelStart \/ CancelRollback
  BY <1>1, <1>2, Zenon
     DEF StartCall, StartStep, CancelStart, CancelRollback, OpenManifest, StartSidecar, WaitReady,
         Connect, Rollback, RollbackEnds
<1>3. ASSUME NEW c \in Stoppers, StopCall(c) \/ StopperStep(c) \/ CancelStop(c) PROVE TypeOKFlags'
  BY <1>1, <1>3, Zenon
     DEF StopCall, StopperStep, CancelStop, StopDispatcher, StopShutdown, StopChannel, StopSidecar,
         StopManifest
<1>4. CASE RunEnds \/ NewApp \/ Crash
  BY <1>1, <1>4, Zenon DEF RunEnds, NewApp, Crash, Renew
<1>5. CASE UNCHANGED appVars
  BY <1>1, <1>5, Zenon DEF appVars
<1>6. CASE UNCHANGED vars
  BY <1>5, <1>6, Zenon DEF vars
<1> QED BY <1>2, <1>3, <1>4, <1>5, <1>6, Zenon DEF Next

(* The types of start() and stop().                                        *)
LEMMA AppTypesStep == IInv /\ [Next]_vars => TypeOKApp'
<1> SUFFICES ASSUME IInv, [Next]_vars PROVE TypeOKApp'
  OBVIOUS
<1> USE MaxStartsAssumption DEF TypeOKApp, Attempts
<1>1. TypeOKApp
  BY DEF IInv, TypeOK
<1>2. start # "idle" => attempt \in Attempts
  BY <1>1 DEF IInv, ControlFacts
<1>3. CASE StartCall
  BY <1>1, <1>3 DEF StartCall
<1>4. CASE OpenManifest \/ WaitReady \/ RollbackEnds \/ StartSidecar \/ Rollback \/ CancelRollback
  <2>1. /\ UNCHANGED <<attempt, stop, channels, dispatchers>>
        /\ lock' \in {lock, attempt, 0}
    BY <1>4 DEF OpenManifest, WaitReady, RollbackEnds, StartSidecar, Rollback, CancelRollback
  <2>2. start' \in {"spawn", "raised", "connect", "rollback", "ready", "rollback_wait"}
    BY <1>4 DEF OpenManifest, WaitReady, RollbackEnds, StartSidecar, Rollback, CancelRollback
  <2> QED BY <1>1, <2>1, <2>2
<1>5. CASE Connect
  BY <1>1, <1>2, <1>5 DEF Connect
<1>6. CASE CancelStart
  BY <1>1, <1>2, <1>6 DEF CancelStart
<1>7. ASSUME NEW c \in Stoppers, StopCall(c) \/ StopperStep(c) \/ CancelStop(c) PROVE TypeOKApp'
  <2>1. UNCHANGED <<attempt, start>> /\ lock' \in {0, lock}
    BY <1>7 DEF StopCall, StopperStep, StopDispatcher, StopShutdown, StopChannel, StopSidecar,
                StopManifest, CancelStop
  <2>2. channels' \subseteq channels /\ dispatchers' \subseteq dispatchers
    BY <1>7 DEF StopCall, StopperStep, StopDispatcher, StopShutdown, StopChannel, StopSidecar,
                StopManifest, CancelStop
  <2>3. \E place \in {"nothing", "returned", "done", "raised", "cancelled", "dispatcher", "shutdown",
                      "close", "sidecar", "manifest", "stuck"} : GoOn(c, place)
    BY <1>7 DEF StopCall, StopperStep, StopDispatcher, StopShutdown, StopChannel, StopSidecar,
                StopManifest, CancelStop
  <2> QED BY <1>1, <2>1, <2>2, <2>3 DEF GoOn, StopFinals
<1>8. CASE NewApp \/ Crash
  <2>1. /\ attempt' = attempt /\ lock' \in {0, lock}
        /\ channels' \subseteq channels /\ dispatchers' \subseteq dispatchers
    BY <1>8 DEF NewApp, Crash
  <2>2. start' = "idle" /\ stop' = [c \in Stoppers |-> "idle"]
    BY <1>8 DEF NewApp, Crash, Renew
  <2> QED BY <1>1, <2>1, <2>2
<1>9. CASE UNCHANGED appVars
  BY <1>1, <1>9 DEF appVars
<1>10. CASE UNCHANGED vars
  BY <1>9, <1>10 DEF vars
<1>11. CASE RunEnds
  BY <1>1, <1>11 DEF RunEnds
<1> QED BY <1>3, <1>4, <1>5, <1>6, <1>7, <1>8, <1>9, <1>10, <1>11 DEF Next, StartStep

(* The types of the sidecars.                                              *)
LEMMA SidecarTypesStep == IInv /\ [Next]_vars => TypeOKSidecar'
<1> SUFFICES ASSUME IInv, [Next]_vars PROVE TypeOKSidecar'
  OBVIOUS
<1> USE DEF TypeOKSidecar
<1>1. TypeOKSidecar
  BY DEF IInv, TypeOK
<1>2. CASE UNCHANGED sidecarVars
  BY <1>1, <1>2 DEF sidecarVars, helperVars, logVars
<1>3. CASE StartCall \/ OpenManifest \/ WaitReady \/ RollbackEnds \/ Connect \/ CancelStart \/ RunEnds \/ NewApp
  BY <1>2, <1>3 DEF StartCall, OpenManifest, WaitReady, RollbackEnds, Connect, CancelStart, RunEnds, NewApp
<1>4. CASE StartSidecar
  <2>1. CASE Spawned(attempt)
    <3>1. /\ UNCHANGED <<stderr, ready, exited, fatal, gaveUp, stopping, log, inbox, missed>>
          /\ proc' = [proc EXCEPT ![attempt] = "booting"]
          /\ stderrTask' = [stderrTask EXCEPT ![attempt] = "running"]
          /\ waitTask' = [waitTask EXCEPT ![attempt] = "waiting"]
      BY <2>1 DEF Spawned, Becomes, logVars
    <3>2. /\ proc' \in [Attempts -> {"none", "booting", "up", "leaving", "dead"}]
          /\ stderrTask' \in [Attempts -> {"none", "running", "done"}]
          /\ waitTask' \in [Attempts -> {"none", "waiting", "flushing", "done"}]
      <4>1. /\ proc \in [Attempts -> {"none", "booting", "up", "leaving", "dead"}]
            /\ stderrTask \in [Attempts -> {"none", "running", "done"}]
            /\ waitTask \in [Attempts -> {"none", "waiting", "flushing", "done"}]
        BY <1>1
      <4> HIDE DEF TypeOKSidecar
      <4>2. proc' \in [Attempts -> {"none", "booting", "up", "leaving", "dead"}]
        BY <3>1, <4>1
      <4>3. stderrTask' \in [Attempts -> {"none", "running", "done"}]
        BY <3>1, <4>1
      <4>4. waitTask' \in [Attempts -> {"none", "waiting", "flushing", "done"}]
        BY <3>1, <4>1
      <4> QED BY <4>2, <4>3, <4>4
    <3>3. UNCHANGED <<stderr, ready, exited, fatal, gaveUp, stopping, log, inbox, missed>>
      BY <3>1
    <3> QED BY <1>1, <3>2, <3>3
  <2> QED BY <1>2, <1>4, <2>1 DEF StartSidecar
<1>5. ASSUME NEW g, StopCalled(g) \/ Abandon(g), UNCHANGED <<proc, stderr, helperVars, logVars>>
      PROVE  TypeOKSidecar'
  <2>1. stopping' \in [Attempts -> {"no", "called", "grace", "killed", "tidy", "stopped", "failed", "abandoned"}]
    <3> DEFINE Places == {"no", "called", "grace", "killed", "tidy", "stopped", "failed", "abandoned"}
    <3>1. stopping \in [Attempts -> Places]
      BY <1>1
    <3>2. "stopped" \in Places /\ "called" \in Places /\ "abandoned" \in Places
      OBVIOUS
    <3> HIDE DEF TypeOKSidecar, Places
    <3>3. ASSUME StopCalled(g) PROVE stopping' \in [Attempts -> Places]
      BY <3>1, <3>2, <3>3 DEF StopCalled
    <3>4. ASSUME Abandon(g) PROVE stopping' \in [Attempts -> Places]
      BY <3>1, <3>2, <3>4 DEF Abandon
    <3>5. stopping' \in [Attempts -> Places]
      BY <1>5, <3>3, <3>4
    <3> QED BY <3>5 DEF Places
  <2> QED BY <1>1, <1>5, <2>1 DEF helperVars, logVars
<1>6. CASE Rollback \/ CancelRollback
  BY <1>5, <1>6 DEF Rollback, CancelRollback, Abandon
<1>7. ASSUME NEW c \in Stoppers, StopCall(c) \/ StopDispatcher(c) \/ StopSidecar(c) \/ StopManifest(c)
      PROVE  TypeOKSidecar'
  BY <1>2, <1>7 DEF StopCall, StopDispatcher, StopSidecar, StopManifest
<1>8. ASSUME NEW c \in Stoppers, StopShutdown(c) PROVE TypeOKSidecar'
  BY <1>1, <1>8 DEF StopShutdown, AsksToLeave, Becomes, helperVars, logVars
<1>9. ASSUME NEW c \in Stoppers, StopChannel(c) \/ CancelStop(c) PROVE TypeOKSidecar'
  BY <1>2, <1>5, <1>9 DEF StopChannel, CancelStop, Abandon
<1>10. CASE Crash
  <2>1. /\ stderrTask' \in [Attempts -> {"none", "running", "done"}]
        /\ waitTask' \in [Attempts -> {"none", "waiting", "flushing", "done"}]
        /\ log' \in [Attempts -> {"none", "open", "ended"}]
    BY <1>1, <1>10 DEF Crash
  <2>2. stopping' \in [Attempts -> {"no", "called", "grace", "killed", "tidy", "stopped", "failed", "abandoned"}]
    BY <1>1, <1>10 DEF Crash
  <2> QED BY <1>1, <1>10, <2>1, <2>2 DEF Crash
<1>11. ASSUME NEW g \in Attempts, ProcessStep(g) \/ HelperStep(g) \/ StopStep(g) \/ KillTimesOut(g)
       PROVE  TypeOKSidecar'
  <2> USE DEF helperVars, logVars, Becomes, Says, Publish, StopMoves
  <2>1. CASE ProcessStep(g)
    <3>1. proc' \in [Attempts -> {"none", "booting", "up", "leaving", "dead"}]
      BY <1>1, <2>1 DEF ProcessStep, BootFails, Listens, Dies
    <3>2. stderr' \in [Attempts -> Seq(Lines)]
      <4>1. stderr \in [Attempts -> Seq(Lines)] /\ stderr[g] \in Seq(Lines)
        BY <1>1
      <4>2. ASSUME NEW line \in Lines, Says(g, line) PROVE stderr' \in [Attempts -> Seq(Lines)]
        BY <4>1, <4>2
      <4>3. UNCHANGED stderr \/ Says(g, "fatal") \/ Says(g, "listening")
        BY <2>1 DEF ProcessStep, BootFails, Listens, Dies
      <4> QED BY <4>1, <4>2, <4>3 DEF Lines
    <3>3. UNCHANGED <<helperVars, stopping, logVars>>
      BY <2>1 DEF ProcessStep, BootFails, Listens, Dies
    <3> HIDE DEF Says, Becomes
    <3> QED BY <1>1, <3>1, <3>2, <3>3
  <2>2. CASE ReadLine(g)
    <3>1. /\ Head(stderr[g]) \in Lines
          /\ stderr' \in [Attempts -> Seq(Lines)]
      BY <1>1, <2>2 DEF ReadLine
    <3>2. inbox' \in [Attempts -> Seq(Lines \cup {"end"})]
      BY <1>1, <2>2, <3>1 DEF ReadLine
    <3> QED BY <1>1, <2>2, <3>1, <3>2 DEF ReadLine
  <2>3. CASE ReadEOF(g) \/ ReaderRaises(g) \/ ExitNoticed(g) \/ Subscribe(g)
    BY <1>1, <2>3 DEF ReadEOF, ReaderRaises, ExitNoticed, Subscribe
  <2>4. CASE ExitTold(g)
    <3>1. inbox' \in [Attempts -> Seq(Lines \cup {"end"})]
      BY <1>1, <2>4 DEF ExitTold
    <3> QED BY <1>1, <2>4, <3>1 DEF ExitTold
  <2>5. CASE TakeItem(g)
    <3>1. inbox' \in [Attempts -> Seq(Lines \cup {"end"})]
      BY <1>1, <2>5 DEF TakeItem
    <3> QED BY <1>1, <2>5, <3>1 DEF TakeItem
  <2>6. CASE StopTidies(g)
    <3>1. inbox' \in [Attempts -> Seq(Lines \cup {"end"})]
      BY <1>1, <2>6 DEF StopTidies
    <3> QED BY <1>1, <2>6, <3>1 DEF StopTidies
  <2>7. CASE StopSignals(g)
    <3>1. proc' \in [Attempts -> {"none", "booting", "up", "leaving", "dead"}]
      <4>1. proc' \in {proc, [proc EXCEPT ![g] = "dead"], [proc EXCEPT ![g] = "leaving"]}
        BY <2>7 DEF StopSignals, AsksToLeave
      <4>2. proc \in [Attempts -> {"none", "booting", "up", "leaving", "dead"}]
        BY <1>1
      <4> HIDE DEF TypeOKSidecar
      <4>3. [proc EXCEPT ![g] = "dead"] \in [Attempts -> {"none", "booting", "up", "leaving", "dead"}]
        BY <4>2
      <4>4. [proc EXCEPT ![g] = "leaving"] \in [Attempts -> {"none", "booting", "up", "leaving", "dead"}]
        BY <4>2
      <4> QED BY <4>1, <4>2, <4>3, <4>4
    <3>2. stopping' \in [Attempts -> {"no", "called", "grace", "killed", "tidy", "stopped", "failed", "abandoned"}]
      <4> DEFINE Places == {"no", "called", "grace", "killed", "tidy", "stopped", "failed", "abandoned"}
      <4>1. stopping \in [Attempts -> Places]
        BY <1>1
      <4>2. "tidy" \in Places /\ "grace" \in Places
        OBVIOUS
      <4> HIDE DEF TypeOKSidecar, Places
      <4>3. stopping' \in [Attempts -> Places]
        BY <2>7, <4>1, <4>2 DEF StopSignals, StopMoves
      <4> QED BY <4>3 DEF Places
    <3>3. UNCHANGED <<stderr, helperVars, logVars>>
      BY <2>7 DEF StopSignals
    <3> QED BY <1>1, <3>1, <3>2, <3>3
  <2>8. CASE GraceOver(g) \/ StopSeesExit(g) \/ KillTimesOut(g)
    BY <1>1, <2>8 DEF GraceOver, StopSeesExit, KillTimesOut
  <2> QED BY <1>11, <2>1, <2>2, <2>3, <2>4, <2>5, <2>6, <2>7, <2>8 DEF HelperStep, StopStep
<1>12. CASE UNCHANGED vars
  BY <1>2, <1>12 DEF vars
<1> QED BY <1>3, <1>4, <1>6, <1>7, <1>8, <1>9, <1>10, <1>11, <1>12 DEF Next, StartStep, StopperStep

(* The three together.                                                     *)
LEMMA TypeOKStep == IInv /\ [Next]_vars => TypeOK'
BY FlagsStep, AppTypesStep, SidecarTypesStep DEF TypeOK

-----------------------------------------------------------------------------
(* What a step of the sidecars may do to attempt h.                        *)
SidecarStep(g) == ProcessStep(g) \/ HelperStep(g) \/ StopStep(g) \/ KillTimesOut(g)

(* A step of one sidecar leaves the others alone, and an untouched one     *)
(* takes none.                                                             *)
LEMMA SidecarsAreSeparate ==
  ASSUME TypeOKSidecar, NEW g \in Attempts, SidecarStep(g), NEW h \in Attempts, h # g
  PROVE  /\ proc'[h] = proc[h] /\ stderr'[h] = stderr[h]
         /\ stderrTask'[h] = stderrTask[h] /\ waitTask'[h] = waitTask[h]
         /\ stopping'[h] = stopping[h] /\ log'[h] = log[h] /\ inbox'[h] = inbox[h]
         /\ h \in exited' <=> h \in exited
         /\ h \in gaveUp' <=> h \in gaveUp
<1> USE DEF TypeOKSidecar, helperVars, logVars, Becomes, Says, Publish, StopMoves
<1>1. CASE ProcessStep(g)
  BY <1>1 DEF ProcessStep, BootFails, Listens, Dies
<1>2. CASE HelperStep(g)
  BY <1>2 DEF HelperStep, ReadLine, ReadEOF, ReaderRaises, ExitNoticed, ExitTold, Subscribe, TakeItem
<1>3. CASE StopSignals(g)
  <2>1. proc' \in {proc, [proc EXCEPT ![g] = "dead"], [proc EXCEPT ![g] = "leaving"]}
    BY <1>3 DEF StopSignals, AsksToLeave
  <2> QED BY <1>3, <2>1 DEF StopSignals
<1>4. CASE GraceOver(g) \/ StopSeesExit(g) \/ StopTidies(g) \/ KillTimesOut(g)
  BY <1>4 DEF GraceOver, StopSeesExit, StopTidies, KillTimesOut
<1> QED BY <1>1, <1>2, <1>3, <1>4 DEF SidecarStep, HelperStep, StopStep

LEMMA UntouchedRest ==
  ASSUME TypeOKSidecar, NEW g \in Attempts, Untouched(g)
  PROVE  ~SidecarStep(g)
BY DEF TypeOKSidecar, SidecarStep, Untouched, ProcessStep, BootFails, Listens, Dies, HelperStep,
       ReadLine, ReadEOF, ReaderRaises, ExitNoticed, ExitTold, Subscribe, TakeItem, StopStep, StopSignals,
       GraceOver, StopSeesExit, StopTidies, KillTimesOut, Alive

-----------------------------------------------------------------------------
(* Control.  stop() works only for a start() that has committed, and an    *)
(* attempt is untouched until its sidecar is spawned.                      *)
LEMMA ControlFactsStep == IInv /\ [Next]_vars => ControlFacts'
<1> SUFFICES ASSUME IInv, [Next]_vars PROVE ControlFacts'
  OBVIOUS
<1>1. TypeOKSidecar /\ TypeOKFlags /\ TypeOKApp /\ ControlFacts
  BY DEF IInv, TypeOK
<1>2. attempt \in 0..MaxStarts /\ \A g \in Attempts : g \in Nat \ {0}
  BY <1>1, AttemptsAreNumbers DEF TypeOKApp
<1>3. ASSUME UNCHANGED <<attempt, proc, stderrTask, waitTask, log>>,
             \A g \in Attempts : stopping'[g] = stopping[g] \/ (g <= attempt /\ start \notin {"open", "spawn"}),
             start' \in {"open", "spawn"} => start \in {"open", "spawn"}
      PROVE  \A g \in Attempts :
                g > attempt' \/ (g = attempt' /\ start' \in {"open", "spawn"}) => Untouched(g)'
  BY <1>1, <1>2, <1>3 DEF ControlFacts, Untouched
<1>4. CASE StartCall
  BY <1>1, <1>2, <1>4 DEF StartCall, ControlFacts, Untouched, sidecarVars, helperVars, logVars
<1>5. CASE OpenManifest \/ WaitReady \/ RollbackEnds \/ Connect \/ CancelStart
  <2>1. UNCHANGED <<attempt, stop, sidecarVars>>
    BY <1>5 DEF OpenManifest, WaitReady, RollbackEnds, Connect, CancelStart
  <2>2. start' # "idle" /\ start # "idle" /\ (start' \in {"open", "spawn"} => start = "open")
    BY <1>5 DEF OpenManifest, WaitReady, RollbackEnds, Connect, CancelStart
  <2>3. (started' <=> start' = "started") /\ (started => started')
    BY <1>1, <1>5 DEF OpenManifest, WaitReady, RollbackEnds, Connect, CancelStart, ControlFacts, TypeOKFlags
  <2>4. \A c \in Stoppers : stop'[c] \notin {"idle", "nothing"} => started'
    BY <1>1, <2>1, <2>3 DEF ControlFacts
  <2>5. \A g \in Attempts :
           g > attempt' \/ (g = attempt' /\ start' \in {"open", "spawn"}) => Untouched(g)'
    <3>1. UNCHANGED <<attempt, proc, stderrTask, waitTask, stopping, log>>
      BY <2>1 DEF sidecarVars, helperVars, logVars
    <3> QED BY <1>1, <2>2, <3>1 DEF ControlFacts, Untouched
  <2> QED BY <1>1, <2>1, <2>2, <2>3, <2>4, <2>5 DEF ControlFacts
<1>6. CASE StartSidecar
  <2>1. UNCHANGED <<attempt, stop, started>> /\ start = "spawn" /\ start' \in {"ready", "rollback"}
    BY <1>6 DEF StartSidecar
  <2>2. ASSUME NEW g \in Attempts, g > attempt PROVE Untouched(g)'
    <3>1. Untouched(g) /\ g # attempt
      BY <1>1, <1>2, <2>2 DEF ControlFacts
    <3> QED BY <1>1, <1>6, <3>1 DEF StartSidecar, Spawned, Becomes, Untouched, TypeOKSidecar,
                                   sidecarVars, helperVars, logVars
  <2> QED BY <1>1, <2>1, <2>2 DEF ControlFacts
<1>7. CASE Rollback \/ CancelRollback
  <2>1. /\ UNCHANGED <<attempt, stop, started, proc, helperVars, logVars>>
        /\ start \in {"rollback", "rollback_wait"} /\ start' \in {"rollback_wait", "raised"}
    BY <1>7 DEF Rollback, CancelRollback, Abandon
  <2>2. \A g \in Attempts : g # attempt => stopping'[g] = stopping[g]
    BY <1>1, <1>7 DEF Rollback, CancelRollback, Abandon, StopCalled, TypeOKSidecar
  <2> QED BY <1>1, <1>2, <1>3, <2>1, <2>2 DEF ControlFacts, helperVars, logVars
<1>8. ASSUME NEW c \in Stoppers, StopCall(c) PROVE ControlFacts'
  <2>1. UNCHANGED <<attempt, start, started, sidecarVars>>
    BY <1>8 DEF StopCall
  <2>2. \A d \in Stoppers : stop'[d] \notin {"idle", "nothing"} => started
    BY <1>1, <1>8 DEF StopCall, GoOn, ControlFacts, TypeOKApp
  <2>3. \A g \in Attempts :
           g > attempt' \/ (g = attempt' /\ start' \in {"open", "spawn"}) => Untouched(g)'
    <3>1. UNCHANGED <<attempt, proc, stderrTask, waitTask, stopping, log>>
      BY <2>1 DEF sidecarVars, helperVars, logVars
    <3> QED BY <1>1, <2>1, <3>1 DEF ControlFacts, Untouched
  <2> QED BY <1>1, <2>1, <2>2, <2>3 DEF ControlFacts
<1>9. ASSUME NEW c \in Stoppers, StopperStep(c) \/ CancelStop(c) PROVE ControlFacts'
  <2>1. stop[c] \notin {"idle", "nothing"}
    BY <1>9 DEF StopperStep, StopDispatcher, StopShutdown, StopChannel, StopSidecar, StopManifest, CancelStop
  <2>2. started /\ start = "started" /\ attempt \in Attempts
    BY <1>1, <2>1 DEF ControlFacts, TypeOKApp, Attempts
  <2>3. UNCHANGED <<attempt, start, started>>
    BY <1>9 DEF StopperStep, StopDispatcher, StopShutdown, StopChannel, StopSidecar, StopManifest, CancelStop
  <2>4. UNCHANGED <<stderrTask, waitTask, log>>
    BY <1>9 DEF StopperStep, StopDispatcher, StopShutdown, StopChannel, StopSidecar, StopManifest,
                CancelStop, Abandon, sidecarVars, helperVars, logVars
  <2>5. proc' \in {proc, [proc EXCEPT ![attempt] = "dead"], [proc EXCEPT ![attempt] = "leaving"]}
    BY <1>9 DEF StopperStep, StopDispatcher, StopShutdown, StopChannel, StopSidecar, StopManifest,
                CancelStop, Abandon, AsksToLeave, Becomes, sidecarVars
  <2>6. \A g \in Attempts : g # attempt => stopping'[g] = stopping[g]
    BY <1>1, <1>9 DEF StopperStep, StopDispatcher, StopShutdown, StopChannel, StopSidecar, StopManifest,
                      CancelStop, Abandon, StopCalled, TypeOKSidecar, sidecarVars
  <2> QED BY <1>1, <1>2, <2>2, <2>3, <2>4, <2>5, <2>6 DEF ControlFacts, Untouched, TypeOKSidecar
<1>10. CASE RunEnds \/ NewApp
  BY <1>1, <1>3, <1>10 DEF RunEnds, NewApp, Renew, ControlFacts, sidecarVars, helperVars, logVars
<1>11. CASE Crash
  <2>1. ASSUME NEW g \in Attempts, g > attempt PROVE Untouched(g)'
    BY <1>1, <1>11, <2>1 DEF Crash, ControlFacts, Untouched
  <2> QED BY <1>11, <2>1 DEF Crash, Renew, ControlFacts
<1>12. ASSUME NEW g \in Attempts, SidecarStep(g), UNCHANGED appVars PROVE ControlFacts'
  <2>1. ASSUME NEW h \in Attempts, Untouched(h) PROVE Untouched(h)'
    <3>1. h # g
      BY <1>1, <1>12, <2>1, UntouchedRest
    <3> QED BY <1>1, <1>12, <2>1, <3>1, SidecarsAreSeparate DEF Untouched
  <2> QED BY <1>1, <1>12, <2>1 DEF ControlFacts, appVars
<1>13. CASE UNCHANGED vars
  BY <1>1, <1>13 DEF vars, appVars, sidecarVars, helperVars, logVars, ControlFacts, Untouched
<1> QED BY <1>4, <1>5, <1>6, <1>7, <1>8, <1>9, <1>10, <1>11, <1>12, <1>13
        DEF Next, StartStep, SidecarStep

-----------------------------------------------------------------------------
(* The sidecar that steps keeps its facts.                                 *)
LEMMA SidecarKeepsFacts ==
  ASSUME TypeOKSidecar, NEW g \in Attempts, SidecarStep(g), SidecarFacts(g), LogFacts(g)
  PROVE  SidecarFacts(g)' /\ LogFacts(g)'
<1> USE DEF TypeOKSidecar, SidecarFacts, LogFacts, Gone, Alive, helperVars, logVars, Becomes, Says,
            StopMoves
<1>1. CASE ProcessStep(g)
  BY <1>1 DEF ProcessStep, BootFails, Listens, Dies
<1>2. CASE ReadLine(g)
  <2>1. Head(stderr[g]) # "end" /\ inbox[g] \in Seq(Lines \cup {"end"})
    BY <1>2 DEF ReadLine, Lines
  <2>2. \A i \in 1..Len(inbox'[g]) : inbox'[g][i] = "end" => i \in 1..Len(inbox[g]) /\ inbox[g][i] = "end"
    BY <1>2, <2>1 DEF ReadLine, Publish
  <2> QED BY <1>2, <2>2 DEF ReadLine
<1>3. CASE ReadEOF(g) \/ ReaderRaises(g) \/ ExitNoticed(g) \/ Subscribe(g)
  BY <1>3 DEF ReadEOF, ReaderRaises, ExitNoticed, Subscribe
<1>4. CASE ExitTold(g)
  BY <1>4 DEF ExitTold
<1>5. CASE TakeItem(g)
  <2>1. inbox[g] \in Seq(Lines \cup {"end"}) /\ inbox[g] # <<>> /\ inbox'[g] = Tail(inbox[g])
    BY <1>5 DEF TakeItem
  <2>2. \A i \in 1..Len(inbox'[g]) : i + 1 \in 1..Len(inbox[g]) /\ inbox'[g][i] = inbox[g][i + 1]
    BY <2>1
  <2>3. 1 \in 1..Len(inbox[g]) /\ Head(inbox[g]) = inbox[g][1]
    BY <2>1
  <2>4. log'[g] = "ended" => log[g] = "ended" \/ inbox[g][1] = "end"
    BY <1>5, <2>3 DEF TakeItem
  <2>5. ASSUME stopping[g] = "no" PROVE log'[g] = "ended" => waitTask[g] = "done"
    BY <2>3, <2>4, <2>5 DEF LogFacts
  <2>6. ASSUME stopping[g] = "no", NEW i \in 1..Len(inbox'[g]), inbox'[g][i] = "end"
        PROVE  waitTask[g] = "done"
    BY <2>2, <2>6 DEF LogFacts
  <2> QED BY <1>5, <2>5, <2>6 DEF TakeItem
<1>6. CASE StopSignals(g)
  <2>1. /\ UNCHANGED <<stderr, helperVars, logVars>>
        /\ stopping[g] = "called"
        /\ \/ stopping'[g] = "tidy" /\ g \in exited /\ UNCHANGED proc
           \/ stopping'[g] = "grace"
    BY <1>6 DEF StopSignals
  <2>2. proc'[g] = "none" <=> proc[g] = "none"
    BY <1>6 DEF StopSignals, AsksToLeave
  <2>3. proc[g] = "dead" => proc'[g] = "dead"
    BY <1>6 DEF StopSignals, AsksToLeave
  <2> QED BY <2>1, <2>2, <2>3
<1>7. CASE GraceOver(g)
  <2>1. /\ UNCHANGED <<stderr, helperVars, logVars>>
        /\ proc'[g] = "dead" /\ stopping[g] = "grace" /\ stopping'[g] = "killed"
    BY <1>7 DEF GraceOver
  <2> QED BY <2>1
<1>8. CASE StopSeesExit(g) \/ KillTimesOut(g)
  BY <1>8 DEF StopSeesExit, KillTimesOut
<1>9. CASE StopTidies(g)
  <2>1. /\ UNCHANGED <<proc, stderr, exited, gaveUp, log>>
        /\ stopping[g] = "tidy" /\ stopping'[g] = "stopped"
        /\ stderrTask'[g] = "done" /\ waitTask'[g] = "done"
    BY <1>9 DEF StopTidies
  <2> QED BY <2>1
<1> QED BY <1>1, <1>2, <1>3, <1>4, <1>5, <1>6, <1>7, <1>8, <1>9 DEF SidecarStep, HelperStep, StopStep

(* Sidecars.  A call of Sidecar.stop() is through only when the process is *)
(* dead, and a log ends behind the last line.                              *)
LEMMA SidecarFactsStep ==
  IInv /\ [Next]_vars => \A g \in Attempts : SidecarFacts(g)' /\ LogFacts(g)'
<1> SUFFICES ASSUME IInv, [Next]_vars, NEW g \in Attempts PROVE SidecarFacts(g)' /\ LogFacts(g)'
  OBVIOUS
<1>1. TypeOKSidecar /\ TypeOKApp /\ ControlFacts /\ SidecarFacts(g) /\ LogFacts(g)
  BY DEF IInv, TypeOK
<1>2. CASE UNCHANGED sidecarVars
  BY <1>1, <1>2 DEF SidecarFacts, LogFacts, Gone, sidecarVars, helperVars, logVars
<1>3. CASE StartCall \/ OpenManifest \/ WaitReady \/ RollbackEnds \/ Connect \/ CancelStart \/ RunEnds \/ NewApp
  BY <1>2, <1>3 DEF StartCall, OpenManifest, WaitReady, RollbackEnds, Connect, CancelStart, RunEnds, NewApp
<1>4. CASE StartSidecar
  <2>1. CASE Spawned(attempt)
    <3>1. attempt = g => Untouched(g)
      BY <1>1, <1>4 DEF StartSidecar, ControlFacts
    <3>2. /\ UNCHANGED <<stderr, ready, exited, fatal, gaveUp, stopping, log, inbox, missed>>
          /\ proc' = [proc EXCEPT ![attempt] = "booting"]
          /\ stderrTask' = [stderrTask EXCEPT ![attempt] = "running"]
          /\ waitTask' = [waitTask EXCEPT ![attempt] = "waiting"]
      BY <2>1 DEF Spawned, Becomes, logVars
    <3>3. CASE attempt = g
      BY <1>1, <3>1, <3>2, <3>3 DEF TypeOKSidecar, SidecarFacts, LogFacts, Untouched, Gone
    <3>4. CASE attempt # g
      BY <1>1, <3>2, <3>4 DEF TypeOKSidecar, SidecarFacts, LogFacts, Gone
    <3> QED BY <3>3, <3>4
  <2> QED BY <1>2, <1>4, <2>1 DEF StartSidecar
<1>5. ASSUME NEW h, StopCalled(h) \/ Abandon(h), UNCHANGED <<proc, stderr, helperVars, logVars>>
      PROVE  SidecarFacts(g)' /\ LogFacts(g)'
  <2>1. \/ stopping'[g] = stopping[g] \/ stopping'[g] = "abandoned"
        \/ stopping'[g] = "called" /\ waitTask[g] # "none" /\ stopping[g] = "no"
        \/ stopping'[g] = "stopped" /\ waitTask[g] = "none" /\ stopping[g] = "no"
    BY <1>1, <1>5 DEF StopCalled, Abandon, TypeOKSidecar
  <2>2. stopping[g] = "no" /\ waitTask[g] = "none" => stderrTask[g] # "running"
    BY <1>1 DEF SidecarFacts
  <2> QED BY <1>1, <1>5, <2>1, <2>2 DEF SidecarFacts, LogFacts, Gone, Alive, helperVars, logVars
<1>6. CASE Rollback \/ CancelRollback
  BY <1>5, <1>6 DEF Rollback, CancelRollback, Abandon
<1>7. ASSUME NEW c \in Stoppers, StopCall(c) \/ StopDispatcher(c) \/ StopSidecar(c) \/ StopManifest(c)
      PROVE  SidecarFacts(g)' /\ LogFacts(g)'
  BY <1>2, <1>7 DEF StopCall, StopDispatcher, StopSidecar, StopManifest
<1>8. ASSUME NEW c \in Stoppers, StopShutdown(c) PROVE SidecarFacts(g)' /\ LogFacts(g)'
  <2>1. UNCHANGED <<stderr, helperVars, stopping, logVars>>
    BY <1>8 DEF StopShutdown
  <2>2. proc'[g] = proc[g] \/ (proc[g] \in Alive /\ proc'[g] \in {"dead", "leaving"})
    BY <1>1, <1>8 DEF StopShutdown, AsksToLeave, Becomes, TypeOKSidecar, Alive
  <2> QED BY <1>1, <2>1, <2>2 DEF SidecarFacts, LogFacts, Gone, Alive, helperVars, logVars
<1>9. ASSUME NEW c \in Stoppers, StopChannel(c) \/ CancelStop(c)
      PROVE  SidecarFacts(g)' /\ LogFacts(g)'
  BY <1>2, <1>5, <1>9 DEF StopChannel, CancelStop, Abandon
<1>10. CASE Crash
  <2>1. /\ UNCHANGED <<proc, stderr, exited, gaveUp, inbox>>
        /\ stderrTask'[g] = IF stderrTask[g] = "none" THEN "none" ELSE "done"
        /\ waitTask'[g] = IF waitTask[g] = "none" THEN "none" ELSE "done"
        /\ stopping'[g] = IF stopping[g] = "stopped" \/ g > attempt THEN stopping[g] ELSE "abandoned"
        /\ log'[g] = IF log[g] = "open" THEN "ended" ELSE log[g]
    BY <1>10 DEF Crash
  <2>2. g > attempt => Untouched(g)
    BY <1>1 DEF ControlFacts
  <2> QED BY <1>1, <2>1, <2>2 DEF SidecarFacts, LogFacts, Gone, Alive, Untouched
<1>11. ASSUME NEW h \in Attempts, SidecarStep(h) PROVE SidecarFacts(g)' /\ LogFacts(g)'
  <2>1. CASE h = g
    BY <1>1, <1>11, <2>1, SidecarKeepsFacts
  <2>2. CASE h # g
    BY <1>1, <1>11, <2>2, SidecarsAreSeparate DEF SidecarFacts, LogFacts, Gone
  <2> QED BY <2>1, <2>2
<1>12. CASE UNCHANGED vars
  BY <1>2, <1>12 DEF vars
<1> QED BY <1>3, <1>4, <1>6, <1>7, <1>8, <1>9, <1>10, <1>11, <1>12
        DEF Next, StartStep, StopperStep, SidecarStep

-----------------------------------------------------------------------------
(* What happened out of order stays in the history.                        *)
LEMMA DisturbedStays == ASSUME IInv, [Next]_vars, ~disturbed' PROVE ~disturbed
<1> SUFFICES ASSUME disturbed PROVE disturbed'
  BY DEF IInv, TypeOK, TypeOKFlags
<1>1. CASE StartCall \/ StartStep \/ CancelStart \/ CancelRollback
  BY <1>1, Zenon
     DEF StartCall, StartStep, CancelStart, CancelRollback, OpenManifest, StartSidecar, WaitReady,
         Connect, Rollback, RollbackEnds
<1>2. ASSUME NEW c \in Stoppers, StopCall(c) \/ StopperStep(c) \/ CancelStop(c) PROVE disturbed'
  BY <1>2, Zenon
     DEF StopCall, StopperStep, CancelStop, StopDispatcher, StopShutdown, StopChannel, StopSidecar,
         StopManifest
<1>3. CASE RunEnds \/ NewApp \/ Crash
  BY <1>3, Zenon DEF RunEnds, NewApp, Crash
<1>4. CASE UNCHANGED appVars
  BY <1>4, Zenon DEF appVars
<1>5. CASE UNCHANGED vars
  BY <1>4, <1>5, Zenon DEF vars
<1> QED BY <1>1, <1>2, <1>3, <1>4, <1>5, Zenon DEF Next

(* No step of a sidecar brings it back to life, or undoes a stop().        *)
LEMMA NoReturn ==
  ASSUME TypeOKSidecar, NEW g \in Attempts, SidecarStep(g)
  PROVE  /\ proc'[g] \in Alive => proc[g] \in Alive
         /\ Gone(g) => Gone(g)'
         /\ stopping[g] = "stopped" => stopping'[g] = "stopped"
         /\ stopping[g] = "failed" => stopping'[g] = "failed"
<1> USE DEF TypeOKSidecar, Gone, Alive, helperVars, logVars, Becomes, StopMoves
<1>1. CASE ProcessStep(g)
  BY <1>1 DEF ProcessStep, BootFails, Listens, Dies
<1>2. CASE HelperStep(g)
  BY <1>2 DEF HelperStep, ReadLine, ReadEOF, ReaderRaises, ExitNoticed, ExitTold, Subscribe, TakeItem
<1>3. CASE StopSignals(g)
  <2>1. proc' \in {proc, [proc EXCEPT ![g] = "dead"]} \/ (proc[g] \in Alive /\ proc' = [proc EXCEPT ![g] = "leaving"])
    BY <1>3 DEF StopSignals, AsksToLeave
  <2>2. UNCHANGED <<stderrTask, waitTask>> /\ stopping[g] = "called"
    BY <1>3 DEF StopSignals
  <2> QED BY <2>1, <2>2
<1>4. CASE GraceOver(g) \/ StopSeesExit(g) \/ StopTidies(g) \/ KillTimesOut(g)
  BY <1>4 DEF GraceOver, StopSeesExit, StopTidies, KillTimesOut
<1> QED BY <1>1, <1>2, <1>3, <1>4 DEF SidecarStep, StopStep

(* The lock.  Where it is given back nothing lives, and where a sidecar is *)
(* spawned it is held.                                                     *)
LEMMA LockFactsStep == ASSUME IInv, [Next]_vars, ~disturbed' PROVE LockFacts'
<1>1. /\ TypeOKSidecar /\ TypeOKApp /\ ControlFacts /\ LockFacts /\ ReleaseFacts
      /\ \A g \in Attempts : SidecarFacts(g)
  BY DisturbedStays DEF IInv, TypeOK
<1>2. /\ attempt \in Nat /\ lock \in Nat /\ \A g \in Attempts : g \in Nat \ {0}
      /\ start # "idle" => attempt \in Attempts
  BY <1>1, AttemptsAreNumbers, MaxStartsAssumption DEF TypeOKApp, ControlFacts, Attempts
<1>3. start \in {"open", "spawn"} => Untouched(attempt)
  BY <1>1, <1>2 DEF ControlFacts
<1>4. CASE UNCHANGED <<attempt, start, lock, proc, stderrTask, waitTask, stopping>>
  BY <1>1, <1>4 DEF LockFacts, Living, Gone
<1>5. CASE StartCall
  BY <1>1, <1>2, <1>5 DEF StartCall, LockFacts, Living, sidecarVars
<1>6. CASE OpenManifest
  <2>1. UNCHANGED <<attempt, proc, stderrTask, waitTask>> /\ start = "open"
    BY <1>6 DEF OpenManifest, sidecarVars, helperVars
  <2>2. Gone(attempt)'
    BY <1>3, <2>1 DEF Untouched, Gone, Alive
  <2>3. lock = 0 => Living' = {}
    BY <1>1, <1>2, <2>1 DEF LockFacts, Living
  <2> QED BY <1>1, <1>2, <1>6, <2>1, <2>2, <2>3 DEF OpenManifest, LockFacts, Living
<1>7. CASE StartSidecar
  <2>1. UNCHANGED <<attempt, lock>> /\ start = "spawn" /\ lock = attempt /\ start' \in {"ready", "rollback"}
    BY <1>1, <1>7 DEF StartSidecar, LockFacts
  <2>2. proc' \in {proc, [proc EXCEPT ![attempt] = "booting"]}
    BY <1>7 DEF StartSidecar, Spawned, Becomes, sidecarVars
  <2> QED BY <1>1, <1>2, <2>1, <2>2 DEF LockFacts, Living, TypeOKSidecar
<1>8. CASE WaitReady \/ Connect
  <2>1. /\ UNCHANGED <<attempt, lock, proc>> /\ start \in {"ready", "connect"}
        /\ start' \in {"connect", "rollback", "started"}
    BY <1>8 DEF WaitReady, Connect, sidecarVars
  <2> QED BY <1>1, <2>1 DEF LockFacts, Living
<1>9. CASE CancelStart
  <2>1. /\ UNCHANGED <<attempt, lock, proc, stderrTask, waitTask>>
        /\ \/ start = "open" /\ start' = "raised"
           \/ start \in {"spawn", "ready", "connect"} /\ start' = "rollback"
    BY <1>9 DEF CancelStart, sidecarVars, helperVars
  <2>2. start = "open" => Gone(attempt)'
    BY <1>3, <2>1 DEF Untouched, Gone, Alive
  <2> QED BY <1>1, <2>1, <2>2 DEF LockFacts, Living
<1>10. CASE Rollback
  <2>1. /\ UNCHANGED <<attempt, lock, proc>> /\ start = "rollback" /\ start' = "rollback_wait"
    BY <1>10 DEF Rollback
  <2> QED BY <1>1, <2>1 DEF LockFacts, Living
<1>11. ASSUME UNCHANGED <<attempt, proc, stderrTask, waitTask, stopping>>, lock' = 0,
              start \in {"rollback_wait", "started"}, start' \in {start, "raised"},
              stopping[attempt] \in {"stopped", "failed"}
       PROVE  LockFacts'
  <2>1. Living' = {}
    BY <1>1, <1>2, <1>11 DEF LockFacts, Living, SidecarFacts
  <2>2. Gone(attempt)' \/ stopping'[attempt] = "failed"
    BY <1>1, <1>2, <1>11 DEF SidecarFacts, Gone
  <2> QED BY <1>2, <1>11, <2>1, <2>2 DEF LockFacts
<1>12. CASE RollbackEnds
  BY <1>11, <1>12 DEF RollbackEnds, sidecarVars, helperVars
<1>13. CASE CancelRollback \/ Crash
  BY <1>13 DEF CancelRollback, Crash
<1>14. ASSUME NEW c \in Stoppers, StopCall(c) \/ StopDispatcher(c) \/ StopSidecar(c) PROVE LockFacts'
  BY <1>4, <1>14 DEF StopCall, StopDispatcher, StopSidecar, sidecarVars, helperVars
<1>15. ASSUME NEW c \in Stoppers, StopShutdown(c) \/ StopChannel(c) PROVE LockFacts'
  <2>1. UNCHANGED <<attempt, start, lock>> /\ start = "started"
    BY <1>1, <1>15 DEF StopShutdown, StopChannel, ControlFacts
  <2>2. \A g \in Attempts : proc'[g] \in Alive => proc[g] \in Alive
    BY <1>1, <1>15 DEF StopShutdown, StopChannel, AsksToLeave, Becomes, TypeOKSidecar, Alive
  <2> QED BY <1>1, <2>1, <2>2 DEF LockFacts, Living
<1>16. ASSUME NEW c \in Stoppers, StopManifest(c) PROVE LockFacts'
  <2>1. start = "started" /\ stopping[attempt] = "stopped"
    BY <1>1, <1>16 DEF StopManifest, ControlFacts, ReleaseFacts
  <2> QED BY <1>11, <1>16, <2>1 DEF StopManifest, sidecarVars, helperVars
<1>17. ASSUME NEW c \in Stoppers, CancelStop(c) PROVE FALSE
  BY <1>17 DEF CancelStop
<1>18. CASE NewApp
  BY <1>1, <1>18 DEF NewApp, Renew, LockFacts, Living, sidecarVars
<1>19. ASSUME NEW g \in Attempts, SidecarStep(g), UNCHANGED appVars PROVE LockFacts'
  <2>1. \A h \in Attempts : proc'[h] \in Alive => proc[h] \in Alive
    BY <1>1, <1>19, NoReturn, SidecarsAreSeparate
  <2>2. start = "raised" => Gone(attempt)' \/ stopping'[attempt] = "failed"
    <3>1. CASE g = attempt
      BY <1>1, <1>2, <1>19, <3>1, NoReturn DEF LockFacts, appVars, Gone
    <3>2. CASE g # attempt
      BY <1>1, <1>2, <1>19, <3>2, SidecarsAreSeparate DEF LockFacts, appVars, Gone
    <3> QED BY <3>1, <3>2
  <2> QED BY <1>1, <1>19, <2>1, <2>2 DEF LockFacts, Living, appVars
<1>20. CASE UNCHANGED vars \/ RunEnds
  BY <1>4, <1>20 DEF vars, appVars, sidecarVars, helperVars, RunEnds
<1> QED BY <1>5, <1>6, <1>7, <1>8, <1>9, <1>10, <1>12, <1>13, <1>14, <1>15, <1>16, <1>17, <1>18,
           <1>19, <1>20
        DEF Next, StartStep, StopperStep, SidecarStep

(* What stop() has released stays released, and a dispatcher or a channel  *)
(* belongs to a start() that has come to it.                               *)
LEMMA ReleaseFactsStep == ASSUME IInv, [Next]_vars, ~disturbed' PROVE ReleaseFacts'
<1>1. TypeOKSidecar /\ TypeOKApp /\ ControlFacts /\ LockFacts /\ ReleaseFacts
  BY DisturbedStays DEF IInv, TypeOK
<1>2. /\ attempt \in Nat /\ \A g \in Attempts : g \in Nat \ {0}
      /\ start # "idle" => attempt \in Attempts
  BY <1>1, AttemptsAreNumbers, MaxStartsAssumption DEF TypeOKApp, ControlFacts, Attempts
<1>3. start # "started" => \A c \in Stoppers : stop[c] \in {"idle", "nothing"}
  BY <1>1 DEF ControlFacts
<1>4. CASE UNCHANGED <<attempt, start, stop, lock, channels, dispatchers, stopping>>
  BY <1>1, <1>4 DEF ReleaseFacts
<1>5. CASE StartCall
  BY <1>1, <1>2, <1>3, <1>5 DEF StartCall, ReleaseFacts, TypeOKApp
<1>6. CASE OpenManifest \/ StartSidecar \/ WaitReady \/ Rollback \/ RollbackEnds
  <2>1. UNCHANGED <<attempt, stop, channels, dispatchers>>
    BY <1>6 DEF OpenManifest, StartSidecar, WaitReady, Rollback, RollbackEnds
  <2>2. start \in {"open", "spawn", "ready", "rollback", "rollback_wait"}
    BY <1>6 DEF OpenManifest, StartSidecar, WaitReady, Rollback, RollbackEnds
  <2> QED BY <1>1, <1>3, <2>1, <2>2 DEF ReleaseFacts
<1>7. CASE Connect
  <2>1. UNCHANGED <<attempt, stop, stopping>> /\ start = "connect"
    BY <1>7 DEF Connect, sidecarVars
  <2>2. \/ UNCHANGED <<channels, dispatchers>>
        \/ /\ channels' = channels \cup {attempt} /\ dispatchers' = dispatchers \cup {attempt}
           /\ start' = "started"
    BY <1>7 DEF Connect
  <2> QED BY <1>1, <1>2, <1>3, <2>1, <2>2 DEF ReleaseFacts
<1>8. CASE CancelStart
  <2>1. /\ UNCHANGED <<attempt, stop, dispatchers>> /\ channels' \subseteq channels \cup {attempt}
        /\ start \in {"open", "spawn", "ready", "connect"}
    BY <1>8 DEF CancelStart
  <2> QED BY <1>1, <1>2, <1>3, <2>1 DEF ReleaseFacts
<1>9. CASE CancelRollback \/ Crash
  BY <1>9 DEF CancelRollback, Crash
<1>10. ASSUME NEW c \in Stoppers, StopCall(c) PROVE ReleaseFacts'
  <2>1. UNCHANGED <<attempt, start, lock, channels, dispatchers, stopping>>
    BY <1>10 DEF StopCall, sidecarVars
  <2>2. \E place \in {"nothing", "returned", "dispatcher"} : stop' = [stop EXCEPT ![c] = place]
    BY <1>10 DEF StopCall, GoOn
  <2> QED BY <1>1, <2>1, <2>2 DEF ReleaseFacts, TypeOKApp
<1>11. ASSUME NEW c \in Stoppers, StopperStep(c) PROVE ReleaseFacts'
  <2>1. stop[c] \in {"dispatcher", "shutdown", "close", "sidecar", "manifest"}
    BY <1>11 DEF StopperStep, StopDispatcher, StopShutdown, StopChannel, StopSidecar, StopManifest
  <2>2. start = "started" /\ attempt \in Attempts /\ UNCHANGED <<attempt, start>>
    BY <1>1, <1>2, <1>11, <2>1 DEF ControlFacts, StopperStep, StopDispatcher, StopShutdown, StopChannel,
                                   StopSidecar, StopManifest
  <2>3. /\ channels' \subseteq channels /\ dispatchers' \subseteq dispatchers /\ lock' \in {0, lock}
        /\ stopping[attempt] = "stopped" => stopping'[attempt] = "stopped"
    BY <1>1, <1>11, <2>2 DEF StopperStep, StopDispatcher, StopShutdown, StopChannel, StopSidecar, StopManifest,
                             StopCalled, TypeOKSidecar, sidecarVars
  <2>4. \A d \in Stoppers : d # c => stop'[d] = stop[d]
    BY <1>1, <1>11 DEF StopperStep, StopDispatcher, StopShutdown, StopChannel, StopSidecar, StopManifest,
                       GoOn, TypeOKApp
  <2>5. /\ stop'[c] \in {"shutdown", "close", "sidecar", "manifest", "done"} => attempt \notin dispatchers'
        /\ stop'[c] \in {"sidecar", "manifest", "done"} => attempt \notin channels'
        /\ stop'[c] \in {"manifest", "done"} => stopping'[attempt] = "stopped"
        /\ stop'[c] = "done" => lock' # attempt
    <3> USE <1>1, <1>2, <2>2 DEF GoOn, ReleaseFacts, TypeOKApp
    <3>1. CASE StopDispatcher(c)
      BY <3>1 DEF StopDispatcher
    <3>2. CASE StopShutdown(c)
      BY <3>2 DEF StopShutdown
    <3>3. CASE StopChannel(c)
      BY <3>3 DEF StopChannel
    <3>4. CASE StopSidecar(c)
      BY <3>4 DEF StopSidecar, sidecarVars
    <3>5. CASE StopManifest(c)
      BY <3>5 DEF StopManifest, sidecarVars
    <3> QED BY <1>11, <3>1, <3>2, <3>3, <3>4, <3>5 DEF StopperStep
  <2> QED BY <1>1, <1>2, <2>2, <2>3, <2>4, <2>5 DEF ReleaseFacts
<1>12. ASSUME NEW c \in Stoppers, CancelStop(c) PROVE FALSE
  BY <1>12 DEF CancelStop
<1>13. CASE NewApp
  BY <1>1, <1>13 DEF NewApp, Renew, ReleaseFacts
<1>14. ASSUME NEW g \in Attempts, SidecarStep(g), UNCHANGED appVars PROVE ReleaseFacts'
  <2>1. \A h \in Attempts : stopping[h] = "stopped" => stopping'[h] = "stopped"
    BY <1>1, <1>14, NoReturn, SidecarsAreSeparate
  <2>2. \A c \in Stoppers : stop[c] \in {"manifest", "done"} => attempt \in Attempts
    BY <1>1, <1>2 DEF ControlFacts
  <2> QED BY <1>1, <1>14, <2>1, <2>2 DEF ReleaseFacts, appVars
<1>15. CASE UNCHANGED vars
  BY <1>4, <1>15 DEF vars, appVars, sidecarVars
<1>16. CASE RunEnds
  BY <1>1, <1>16 DEF RunEnds, ReleaseFacts, sidecarVars
<1> QED BY <1>5, <1>6, <1>7, <1>8, <1>9, <1>10, <1>11, <1>12, <1>13, <1>14, <1>15, <1>16
        DEF Next, StartStep, SidecarStep

-----------------------------------------------------------------------------
(* The conjunction is an invariant of the specification.                   *)
THEOREM Invariance == Spec => []IInv
<1>1. IInv /\ [Next]_vars => IInv'
  BY TypeOKStep, ControlFactsStep, SidecarFactsStep, LockFactsStep, ReleaseFactsStep DEF IInv, Attempts
<1> QED BY IInvInit, <1>1, PTL DEF Spec

(* Every variable has its type, in every app and sidecar.                  *)
THEOREM TypeInvariant == Spec => []TypeOK
<1>1. IInv => TypeOK
  BY DEF IInv
<1> QED BY Invariance, <1>1, PTL

(* However starts fail, are cancelled and are repeated, and whatever the   *)
(* processes do, a sidecar that lives is the one whose app has the lock:   *)
(* no two of them ever share a session directory.                          *)
THEOREM OneSidecar == Spec => []LockCoversSidecar
<1>1. IInv => LockCoversSidecar
  BY DEF IInv, LockFacts, LockCoversSidecar
<1> QED BY Invariance, <1>1, PTL

(* A start() that raises and a stop() that comes to its end both leave     *)
(* nothing behind: no sidecar, no lock, no task, no channel.               *)
THEOREM EndsAreClean == Spec => []NothingLeft
<1>1. IInv => StartAtomic
  BY DEF IInv, LockFacts, ReleaseFacts, StartAtomic
<1>2. ASSUME IInv, ~disturbed, NEW c \in Stoppers, stop[c] = "done"
      PROVE  lock # attempt /\ Gone(attempt) /\ attempt \notin dispatchers \cup channels
  <2>1. attempt \in Attempts
    BY <1>2 DEF IInv, TypeOK, TypeOKApp, ControlFacts, Attempts
  <2>2. stopping[attempt] = "stopped" /\ lock # attempt /\ attempt \notin dispatchers \cup channels
    BY <1>2 DEF IInv, ReleaseFacts
  <2> QED BY <1>2, <2>1, <2>2 DEF IInv, SidecarFacts
<1>3. IInv => NothingLeft
  BY <1>1, <1>2 DEF StopReleases, NothingLeft
<1> QED BY Invariance, <1>3, PTL

(* A log that ends by itself has every line the process wrote, unless the  *)
(* reader gave up.                                                         *)
THEOREM LogsAreWhole == Spec => []LogComplete
<1>1. IInv => LogComplete
  BY DEF IInv, LogFacts, LogComplete
<1> QED BY Invariance, <1>1, PTL
=============================================================================

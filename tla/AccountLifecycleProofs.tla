----------------------- MODULE AccountLifecycleProofs -----------------------
(***************************************************************************)
(* Proofs about one account key, for every set of jids, every number of    *)
(* add_account calls and events, and every choice of the failures.  IInv   *)
(* of AccountLifecycle is the inductive invariant; PairingInv is inductive *)
(* relative to it, and is what PairingIsRemembered rests on.               *)
(***************************************************************************)
EXTENDS AccountLifecycle, TLAPS

Handle ==
    [state : States, woken : BOOLEAN, failed : BOOLEAN,
     boot : BootStates, asked : Jids \cup {NoJid}, reply : Replies]

Client == [jid : Jids \cup {NoJid}, ws : BOOLEAN, pump : BOOLEAN, held : BOOLEAN]

(* A handle shows a failure exactly when it is lost, and that or a login   *)
(* wakes those who wait: ReadyIsAnswered of one handle.                    *)
Lost(handle) == handle.state = "LOGGED_OUT" \/ handle.boot \in {"failed", "cancelled"}
Answered(handle) ==
    /\ Lost(handle) <=> handle.failed
    /\ Lost(handle) \/ handle.state = "CONNECTED" => handle.woken

Sound(handle) == handle \in Handle /\ Answered(handle)

(* What the tasks and the registry are to each other.                      *)
Links == OneClient /\ TasksMatch /\ UnbornIsUnknown /\ DialsAreHeld

(* IInv, said of each handle and each client.                              *)
LEMMA IInvParts ==
  IInv <=> /\ TypeOK /\ Links
           /\ \A h \in HandleIds : Answered(handles[h])
BY DEF IInv, Links, ReadyIsAnswered, Answered, Lost

-----------------------------------------------------------------------------
(* The operators on handles.                                               *)

(* A new handle is sound.                                                  *)
LEMMA NewIsSound ==
  /\ Sound(NewHandle)
  /\ \A boot \in BootStates \ {"failed", "cancelled"} : Sound([NewHandle EXCEPT !.boot = boot])
BY DEF Sound, Answered, Lost, NewHandle, Handle, States, BootStates, Booting, NoReply, Replies

(* _apply_state keeps a sound handle sound, whatever state it is told; it  *)
(* touches nothing of the task.                                            *)
LEMMA ApplyStateIsSound ==
  ASSUME NEW handle, Sound(handle), NEW state \in States
  PROVE  /\ Sound(ApplyState(handle, state))
         /\ ApplyState(handle, state).boot = handle.boot
<1>1. CASE \/ handle.state = "LOGGED_OUT"
           \/ /\ handle.state = "CONNECTED"
              /\ state \in {"PAIRING", "CONNECTING", "UNSPECIFIED"}
  BY <1>1 DEF ApplyState
<1>2. CASE /\ handle.state # "LOGGED_OUT"
           /\ ~(handle.state = "CONNECTED" /\ state \in {"PAIRING", "CONNECTING", "UNSPECIFIED"})
  <2> DEFINE next == [handle EXCEPT !.state = state,
                                    !.woken = @ \/ state \in {"CONNECTED", "LOGGED_OUT"},
                                    !.failed = @ \/ state = "LOGGED_OUT"]
  <2>1. ApplyState(handle, state) = next
    BY <1>2 DEF ApplyState
  <2>2. next \in Handle /\ next.boot = handle.boot
    BY DEF Sound, Handle
  <2>3. Answered(next)
    BY <1>2 DEF Sound, Handle, Answered, Lost
  <2> QED BY <2>1, <2>2, <2>3 DEF Sound
<1> QED BY <1>1, <1>2

(* A task moves on without failing.                                        *)
LEMMA MoveIsSound ==
  ASSUME NEW handle, Sound(handle), handle.boot \notin {"failed", "cancelled"},
         NEW boot \in BootStates \ {"failed", "cancelled"},
         NEW asked \in Jids \cup {NoJid}, NEW reply \in Replies
  PROVE  Sound([handle EXCEPT !.boot = boot, !.asked = asked, !.reply = reply])
BY DEF Sound, Answered, Lost, Handle

(* A task that fails or is cancelled tells its handle.                     *)
LEMMA FailIsSound ==
  ASSUME NEW handle, Sound(handle), NEW boot \in {"failed", "cancelled"}
  PROVE  Sound(Ended(Fail(handle), boot)) /\ Ended(Fail(handle), boot).boot = boot
BY DEF Sound, Answered, Lost, Handle, Ended, Fail, BootStates, Booting, NoReply, Replies, States

Kinds == {"qr", "disconnected", "pair_success", "connected", "logged_out"}
Event == [kind : Kinds, jid : Jids \cup {NoJid}]

(* The event hook keeps a sound handle sound, and leaves the task alone.   *)
LEMMA OnEventIsSound ==
  ASSUME NEW handle, Sound(handle), NEW e \in Event
  PROVE  Sound(OnEvent(handle, e)) /\ OnEvent(handle, e).boot = handle.boot
<1>1. e.kind \in Kinds /\ e.jid \in Jids \cup {NoJid}
  BY DEF Event
<1>2. CASE e.kind = "connected"
  BY <1>1, <1>2, ApplyStateIsSound DEF OnEvent, States
<1>3. CASE e.kind = "qr"
  BY <1>1, <1>3, ApplyStateIsSound DEF OnEvent, States
<1>4. CASE e.kind = "disconnected"
  BY <1>4 DEF OnEvent, Sound, Answered, Lost, Handle, States
<1>5. CASE e.kind = "pair_success"
  BY <1>5 DEF OnEvent
<1>6. CASE e.kind = "logged_out"
  <2> DEFINE told == [handle EXCEPT !.failed = TRUE]
             out == ApplyState(told, "LOGGED_OUT")
  <2>1. OnEvent(handle, e) = out
    BY <1>6 DEF OnEvent
  <2>2. CASE handle.state = "LOGGED_OUT"
    BY <2>1, <2>2 DEF ApplyState, Sound, Answered, Lost, Handle
  <2>3. CASE handle.state # "LOGGED_OUT"
    <3> DEFINE gone == [told EXCEPT !.state = "LOGGED_OUT", !.woken = TRUE, !.failed = TRUE]
    <3>1. out = gone
      BY <2>3 DEF ApplyState, Sound, Handle
    <3>2. gone \in Handle /\ gone.boot = handle.boot
      BY DEF Sound, Handle, States
    <3>3. gone.state = "LOGGED_OUT" /\ gone.woken = TRUE /\ gone.failed = TRUE
      BY DEF Sound, Handle
    <3> HIDE DEF gone, out
    <3>4. Answered(gone)
      BY <3>3 DEF Answered, Lost
    <3> QED BY <2>1, <3>1, <3>2, <3>4 DEF Sound
  <2> QED BY <2>2, <2>3
<1> QED BY <1>1, <1>2, <1>3, <1>4, <1>5, <1>6 DEF Kinds

-----------------------------------------------------------------------------
(* A step keeps the types of the handles, and what ready() promises, when  *)
(* it gives one task a sound handle and leaves the others alone.           *)
HandlesAreSound == \A h \in HandleIds : Sound(handles[h])

(* The handles of a state that satisfies the invariant.                    *)
LEMMA HandlesOfIInv ==
  ASSUME IInv
  PROVE  /\ HandlesAreSound
         /\ handles \in [HandleIds -> Handle]
BY IInvParts DEF TypeOK, HandlesAreSound, Sound, Handle

(* One handle changes.                                                     *)
LEMMA OneHandleChanges ==
  ASSUME handles \in [HandleIds -> Handle], HandlesAreSound,
         NEW h, NEW handle, h \in HandleIds => Sound(handle),
         handles' = [handles EXCEPT ![h] = handle]
  PROVE  handles' \in [HandleIds -> Handle] /\ HandlesAreSound'
<1>1. handle \in Handle \/ h \notin HandleIds
  BY DEF Sound
<1>2. handles' \in [HandleIds -> Handle]
  BY <1>1
<1>3. ASSUME NEW g \in HandleIds PROVE Sound(handles'[g])
  BY DEF HandlesAreSound
<1> QED BY <1>2, <1>3 DEF HandlesAreSound

(* An RPC that ends gives its task a reply, or nobody.                     *)
LEMMA AnswersIsSound ==
  ASSUME IInv, NEW h \in HandleIds, NEW reply \in Replies, Answers(h, reply)
  PROVE  /\ handles' \in [HandleIds -> Handle] /\ HandlesAreSound'
         /\ rpcs' = [rpcs EXCEPT ![h] = NoRpc]
         /\ \A g \in HandleIds \ {h} : handles'[g].boot = handles[g].boot
         /\ handles[h].boot = "ensure" => handles'[h].boot = "ensured"
         /\ handles[h].boot = "connect" => handles'[h].boot = "connected"
         /\ handles[h].boot \notin {"ensure", "connect"} => handles'[h].boot = handles[h].boot
<1>1. /\ handles \in [HandleIds -> Handle] /\ HandlesAreSound
      /\ Sound(handles[h]) /\ handles[h].asked \in Jids \cup {NoJid}
  BY HandlesOfIInv DEF HandlesAreSound, Sound, Handle
<1>2. ASSUME NEW boot \in {"ensured", "connected"},
             handles[h].boot \in {"ensure", "connect"},
             handles' = [handles EXCEPT ![h].boot = boot, ![h].reply = reply]
      PROVE  /\ handles' \in [HandleIds -> Handle] /\ HandlesAreSound'
             /\ handles'[h].boot = boot
             /\ \A g \in HandleIds \ {h} : handles'[g].boot = handles[g].boot
  <2> DEFINE next == [handles[h] EXCEPT !.boot = boot, !.asked = handles[h].asked, !.reply = reply]
  <2>1. Sound(next)
    BY <1>1, <1>2, MoveIsSound DEF BootStates, Booting
  <2>2. handles' = [handles EXCEPT ![h] = next] /\ next.boot = boot
    BY <1>1, <1>2 DEF Handle
  <2> HIDE DEF next
  <2> QED BY <1>1, <2>1, <2>2, OneHandleChanges
<1>3. CASE handles[h].boot = "ensure"
  BY <1>2, <1>3 DEF Answers
<1>4. CASE handles[h].boot = "connect"
  BY <1>2, <1>4 DEF Answers
<1>5. CASE handles[h].boot \notin {"ensure", "connect"}
  BY <1>1, <1>5 DEF Answers, HandlesAreSound
<1> QED BY <1>3, <1>4, <1>5 DEF Answers

(* A reply reaches its task: it goes on, or ends in a failure.             *)
LEMMA BootResumesIsSound ==
  ASSUME IInv, NEW h \in HandleIds, handles[h].boot \in {"ensured", "connected"},
         NEW prior, NEW next \in {"connect", "done"}, BootResumes(h, prior, next)
  PROVE  /\ handles' \in [HandleIds -> Handle] /\ HandlesAreSound'
         /\ current' \in {0, current}
         /\ manifest' \in {manifest} \cup Jids
         /\ \A g \in HandleIds \ {h} : handles'[g].boot = handles[g].boot
         /\ handles'[h].boot \in {"failed", next}
<1> DEFINE reply == handles[h].reply
           told == ApplyState(handles[h], reply.state)
           later == IF next = "done" THEN Ended(told, "done")
                    ELSE [told EXCEPT !.boot = next, !.asked = reply.jid, !.reply = NoReply]
           update == reply.jid # NoJid /\ reply.jid # prior
<1>1. /\ handles \in [HandleIds -> Handle] /\ HandlesAreSound
      /\ Sound(handles[h])
      /\ reply.state \in States /\ reply.jid \in Jids \cup {NoJid}
  BY HandlesOfIInv DEF HandlesAreSound, Sound, Handle, Replies
<1>2. Sound(told) /\ told.boot = handles[h].boot
  BY <1>1, ApplyStateIsSound
<1>3. Sound(later) /\ later.boot = next
  <2>1. NoReply \in Replies
    BY DEF NoReply, Replies, States
  <2>2. ASSUME NEW asked \in Jids \cup {NoJid}
        PROVE  Sound([told EXCEPT !.boot = next, !.asked = asked, !.reply = NoReply])
    BY <1>2, <2>1, <2>2, MoveIsSound DEF BootStates, Booting
  <2>3. told \in Handle
    BY <1>2 DEF Sound
  <2> HIDE DEF told
  <2> QED BY <1>1, <2>2, <2>3 DEF Ended, Handle
<1> DEFINE ends == Ended(Fail(handles[h]), "failed")
           refused == Ended(Fail(told), "failed")
<1>4. Sound(ends) /\ ends.boot = "failed" /\ Sound(refused) /\ refused.boot = "failed"
  BY <1>1, <1>2, FailIsSound
<1>5. \/ handles' = [handles EXCEPT ![h] = ends] /\ current' = 0 /\ manifest' = manifest
      \/ handles' = [handles EXCEPT ![h] = refused] /\ current' = 0 /\ manifest' = manifest
      \/ /\ handles' = [handles EXCEPT ![h] = later] /\ current' = current
         /\ manifest' = IF update THEN reply.jid ELSE manifest
  BY DEF BootResumes, BootFails
<1>6. current' \in {0, current} /\ manifest' \in {manifest} \cup Jids
  BY <1>1, <1>5
<1> HIDE DEF told, later, ends, refused
<1>7. PICK handle : /\ Sound(handle) /\ handle.boot \in {"failed", next}
                    /\ handles' = [handles EXCEPT ![h] = handle]
  BY <1>3, <1>4, <1>5
<1> QED BY <1>1, <1>6, <1>7, OneHandleChanges

-----------------------------------------------------------------------------
(* Each step keeps the handles sound and the types.                        *)

Types ==
    /\ running \in BOOLEAN
    /\ current \in 0..MaxHandles
    /\ added \in 0..MaxHandles
    /\ remover \in [pc : {"idle", "rpc", "unhook", "manifest", "forget"},
                   how : {"logout", "disconnect"}, client : 0..MaxHandles]
    /\ manifest \in Jids \cup {NoJid, Absent}
    /\ rpcs \in [HandleIds -> Rpcs]
    /\ registered \in 0..MaxHandles
    /\ clients \in [HandleIds -> Client]
    /\ devices \subseteq Jids
    /\ events \in Seq(Event)
    /\ Len(events) <= MaxQueue
    /\ unlinked \in BOOLEAN /\ named \in BOOLEAN /\ missed \in BOOLEAN

Steady == Types /\ handles \in [HandleIds -> Handle] /\ HandlesAreSound

(* TypeOK and ReadyIsAnswered, in the parts the lemmas speak of.           *)
LEMMA SteadyIsTypeOK == Steady <=> TypeOK /\ ReadyIsAnswered
BY DEF Steady, Types, TypeOK, HandlesAreSound, Sound, Handle, Client, Event, Kinds, ReadyIsAnswered,
       Answered, Lost

(* The initial states are steady, and the registry is empty.               *)
LEMMA InitIsSound == Init => Steady /\ Links
<1> SUFFICES ASSUME Init PROVE Steady /\ Links
  OBVIOUS
<1> USE DEF Init
<1>1. Types
  <2>1. 0 \in 0..MaxHandles /\ MaxQueue >= 0 /\ Len(<<>>) = 0
    BY BoundsAssumption
  <2>2. rpcs \in [HandleIds -> Rpcs] /\ clients \in [HandleIds -> Client]
    BY <2>1 DEF NoRpc, Rpcs, NoClient, Client
  <2>3. events \in Seq(Event) /\ Len(events) <= MaxQueue
    BY <2>1
  <2>4. remover \in [pc : {"idle", "rpc", "unhook", "manifest", "forget"},
                     how : {"logout", "disconnect"}, client : 0..MaxHandles]
    BY <2>1 DEF NoRemover
  <2> QED BY <2>1, <2>2, <2>3, <2>4 DEF Types
<1>2. handles \in [HandleIds -> Handle] /\ HandlesAreSound
  BY NewIsSound DEF HandlesAreSound, Sound
<1>3. OneClient /\ TasksMatch
  BY DEF OneClient, TasksMatch, NoClient, NewHandle, NoRpc
<1>4. UnbornIsUnknown /\ DialsAreHeld
  BY DEF UnbornIsUnknown, DialsAreHeld, NoRpc, HandleIds
<1> QED BY <1>1, <1>2, <1>3, <1>4 DEF Steady, Links

(* add_account, the goroutines and the replies.                            *)
LEMMA BootKeepsTypes ==
  ASSUME IInv, NEW h \in HandleIds, BootStep(h)
  PROVE  Steady'
<1>1. Steady
  BY SteadyIsTypeOK DEF IInv
<1>2. /\ handles \in [HandleIds -> Handle] /\ HandlesAreSound /\ Sound(handles[h])
      /\ rpcs[h] \in Rpcs /\ NoRpc \in Rpcs
      /\ NoReply \in Replies /\ [NoReply EXCEPT !.ok = TRUE] \in Replies
  <2>1. 0 \in 0..MaxHandles
    BY BoundsAssumption
  <2> QED BY <1>1, <2>1, HandlesOfIInv DEF HandlesAreSound, Types, Steady, Rpcs, NoRpc, NoReply,
        Replies, States
<1>3. ASSUME NEW c \in Client PROVE Account(c) \in Replies
  BY <1>3 DEF Account, Reports, Client, Replies, States
<1>4. ASSUME NEW reply \in Replies, Answers(h, reply),
             UNCHANGED <<running, current, added, remover, manifest, devices, events, history>>,
             registered' \in 0..MaxHandles, clients' \in [HandleIds -> Client]
      PROVE  Steady'
  <2>1. rpcs' \in [HandleIds -> Rpcs] /\ handles' \in [HandleIds -> Handle] /\ HandlesAreSound'
    BY <1>1, <1>2, <1>4, AnswersIsSound DEF Steady, Types
  <2> QED BY <1>1, <1>4, <2>1 DEF history, Steady, Types
<1>5. CASE BootRegister(h)
  <2>1. CASE BootFails(h) /\ UNCHANGED <<rpcs, history>>
    <3> DEFINE ends == Ended(Fail(handles[h]), "failed")
    <3>1. Sound(ends) /\ handles' = [handles EXCEPT ![h] = ends]
      BY <1>2, <2>1, FailIsSound DEF BootFails
    <3> HIDE DEF ends
    <3>2. handles' \in [HandleIds -> Handle] /\ HandlesAreSound'
      BY <1>2, <3>1, OneHandleChanges
    <3> QED BY <1>1, <1>5, <2>1, <3>2, BoundsAssumption
            DEF BootRegister, BootFails, history, registryVars, Steady, Types
  <2>2. ASSUME NEW jid \in Jids \cup {NoJid},
               handles' = [handles EXCEPT ![h].boot = "ensure", ![h].asked = jid],
               rpcs' = [rpcs EXCEPT ![h] = [NoRpc EXCEPT !.pc = "ensure", !.jid = jid]],
               manifest' = IF manifest \in Jids THEN manifest ELSE jid,
               Notes(unlinked \/ (manifest \in Jids /\ jid = NoJid),
                     IF manifest \in Jids THEN named ELSE jid # NoJid, missed),
               current' = current
        PROVE  Steady'
    <3>1. [NoRpc EXCEPT !.pc = "ensure", !.jid = jid] \in Rpcs
      BY <1>2 DEF Rpcs, NoRpc
    <3> DEFINE next == [handles[h] EXCEPT !.boot = "ensure", !.asked = jid,
                                          !.reply = handles[h].reply]
    <3>2. Sound(next)
      <4>1. handles[h].boot = "register" /\ handles[h].reply \in Replies
        BY <1>2, <1>5 DEF BootRegister, Sound, Handle
      <4>2. "ensure" \in BootStates \ {"failed", "cancelled"}
        BY DEF BootStates, Booting
      <4> QED BY <1>2, <4>1, <4>2, MoveIsSound
    <3>3. handles' = [handles EXCEPT ![h] = next]
      BY <1>2, <2>2 DEF Handle
    <3> HIDE DEF next
    <3>4. handles' \in [HandleIds -> Handle] /\ HandlesAreSound'
      BY <1>2, <3>2, <3>3, OneHandleChanges
    <3>5. unlinked' \in BOOLEAN /\ named' \in BOOLEAN /\ missed' \in BOOLEAN
      BY <2>2 DEF Notes
    <3> QED BY <1>1, <1>5, <2>2, <3>1, <3>4, <3>5 DEF BootRegister, registryVars, Steady, Types
  <2>3. EffectiveJids \subseteq Jids \cup {NoJid}
    BY <1>1 DEF EffectiveJids, Steady, Types
  <2> QED BY <1>5, <2>1, <2>2, <2>3 DEF BootRegister
<1>6. CASE EnsureFinds(h)
  <2>1. clients[registered] \in Client
    BY <1>1, <1>6 DEF EnsureFinds, Steady, Types, HandleIds
  <2>2. PICK reply \in Replies : Answers(h, reply)
    BY <1>2, <1>3, <1>6, <2>1 DEF EnsureFinds
  <2> QED BY <1>1, <1>4, <1>6, <2>2 DEF EnsureFinds, registryVars, Steady, Types
<1>7. CASE EnsureLoads(h)
  <2>1. CASE rpcs' = [rpcs EXCEPT ![h].pc = "install"] /\ UNCHANGED handles
    <3>1. rpcs' \in [HandleIds -> Rpcs]
      BY <1>1, <1>2, <2>1 DEF Rpcs, Steady, Types
    <3>2. HandlesAreSound'
      BY <1>2, <2>1 DEF HandlesAreSound
    <3> QED BY <1>1, <1>7, <2>1, <3>1, <3>2 DEF EnsureLoads, registryVars, history, Steady, Types
  <2>2. CASE Answers(h, NoReply)
    BY <1>1, <1>2, <1>4, <1>7, <2>2 DEF EnsureLoads, registryVars, Steady, Types
  <2> QED BY <1>7, <2>1, <2>2 DEF EnsureLoads
<1>8. CASE EnsureInstalls(h)
  <2>1. CASE registered = 0
    <3>1. [NoClient EXCEPT !.jid = rpcs[h].jid] \in Client
      BY <1>2 DEF NoClient, Client, Rpcs
    <3>2. clients' \in [HandleIds -> Client] /\ registered' \in 0..MaxHandles
      BY <1>1, <1>8, <2>1, <3>1 DEF EnsureInstalls, Steady, Types, HandleIds
    <3> QED BY <1>3, <1>4, <1>8, <2>1, <3>2 DEF EnsureInstalls
  <2>2. CASE registered # 0
    <3>1. clients[registered] \in Client
      BY <1>1, <2>2 DEF Steady, Types, HandleIds
    <3> QED BY <1>1, <1>3, <1>4, <1>8, <2>2, <3>1 DEF EnsureInstalls, Steady, Types
  <2> QED BY <2>1, <2>2
<1>9. CASE EnsureReplies(h)
  <2>1. /\ handles' \in [HandleIds -> Handle] /\ HandlesAreSound'
        /\ current' \in 0..MaxHandles
        /\ manifest' \in {manifest} \cup Jids
    BY <1>1, <1>9, BootResumesIsSound, BoundsAssumption DEF EnsureReplies, Steady, Types
  <2>2. rpcs' \in [HandleIds -> Rpcs]
    <3>1. [NoRpc EXCEPT !.pc = "connect"] \in Rpcs
      BY <1>2 DEF Rpcs, NoRpc
    <3> QED BY <1>1, <1>9, <3>1 DEF EnsureReplies, Steady, Types
  <2> QED BY <1>1, <1>9, <2>1, <2>2 DEF EnsureReplies, registryVars, history, Steady, Types
<1>10. CASE ConnectGets(h)
  <2>1. CASE registered = 0
    BY <1>1, <1>2, <1>4, <1>10, <2>1 DEF ConnectGets, registryVars, Steady, Types
  <2>2. CASE registered # 0 /\ clients[registered].ws
    <3>1. clients[registered] \in Client
      BY <1>1, <2>2 DEF Steady, Types, HandleIds
    <3>2. Reports("CONNECTED", clients[registered].jid) \in Replies
      BY <3>1 DEF Reports, Replies, States, Client
    <3> QED BY <1>1, <1>4, <1>10, <2>2, <3>2 DEF ConnectGets, registryVars, Steady, Types
  <2>3. CASE registered # 0 /\ ~clients[registered].ws
    <3>1. rpcs' = [rpcs EXCEPT ![h].pc = "dial", ![h].client = registered] /\ UNCHANGED handles
      BY <1>10, <2>3 DEF ConnectGets
    <3>2. rpcs' \in [HandleIds -> Rpcs]
      BY <1>1, <1>2, <3>1 DEF Rpcs, Steady, Types
    <3>3. HandlesAreSound'
      BY <1>2, <3>1 DEF HandlesAreSound
    <3> QED BY <1>1, <1>10, <3>1, <3>2, <3>3 DEF ConnectGets, registryVars, history, Steady, Types
  <2> QED BY <2>1, <2>2, <2>3
<1>11. CASE ConnectDials(h)
  <2> DEFINE c == rpcs[h].client
  <2>1. c \in HandleIds /\ clients[c] \in Client
    BY <1>1, <1>11 DEF ConnectDials, IInv, DialsAreHeld, Steady, Types
  <2>2. CASE Answers(h, NoReply) /\ UNCHANGED clients
    BY <1>1, <1>2, <1>4, <1>11, <2>2 DEF ConnectDials, Steady, Types
  <2>3. CASE /\ clients' = [clients EXCEPT ![c].ws = TRUE, ![c].pump = @ \/ clients[c].jid = NoJid]
             /\ Answers(h, Reports("CONNECTING", clients[c].jid))
    <3>1. clients' \in [HandleIds -> Client]
      BY <1>1, <2>1, <2>3 DEF Client, Steady, Types
    <3>2. Reports("CONNECTING", clients[c].jid) \in Replies
      BY <2>1 DEF Reports, Replies, States, Client
    <3> QED BY <1>1, <1>4, <1>11, <2>3, <3>1, <3>2 DEF ConnectDials, Steady, Types
  <2> QED BY <1>11, <2>2, <2>3 DEF ConnectDials
<1>12. CASE ConnectReplies(h)
  <2>1. /\ handles' \in [HandleIds -> Handle] /\ HandlesAreSound'
        /\ current' \in 0..MaxHandles
        /\ manifest' \in {manifest} \cup Jids
    BY <1>1, <1>12, BootResumesIsSound, BoundsAssumption DEF ConnectReplies, Steady, Types
  <2> QED BY <1>1, <1>12, <2>1 DEF ConnectReplies, sidecarVars, registryVars, history, Steady, Types
<1>13. CASE BootRpcFails(h)
  <2> DEFINE ends == Ended(Fail(handles[h]), "failed")
  <2>1. Sound(ends) /\ handles' = [handles EXCEPT ![h] = ends]
    BY <1>2, <1>13, FailIsSound DEF BootRpcFails, BootFails
  <2> HIDE DEF ends
  <2>2. handles' \in [HandleIds -> Handle] /\ HandlesAreSound'
    BY <1>2, <2>1, OneHandleChanges
  <2> QED BY <1>1, <1>13, <2>2, BoundsAssumption
          DEF BootRpcFails, BootFails, sidecarVars, registryVars, history, Steady, Types
<1> QED BY <1>5, <1>6, <1>7, <1>8, <1>9, <1>10, <1>11, <1>12, <1>13 DEF BootStep

(* The other steps: remove_account, the phone, the hook, stop and restart. *)
LEMMA OthersKeepTypes ==
  ASSUME IInv,
         AddAccount \/ RemoveStep \/ (\E c \in HandleIds : ClientStep(c)) \/ Notify \/ Stop \/ Restart
           \/ UNCHANGED vars
  PROVE  Steady'
<1>1. Steady
  BY SteadyIsTypeOK DEF IInv
<1>2. /\ handles \in [HandleIds -> Handle] /\ HandlesAreSound
      /\ 0 \in 0..MaxHandles
  BY <1>1, BoundsAssumption DEF Steady
<1>3. ASSUME UNCHANGED handles PROVE handles' \in [HandleIds -> Handle] /\ HandlesAreSound'
  BY <1>2, <1>3 DEF HandlesAreSound
<1>4. CASE AddAccount
  <2> DEFINE new == [NewHandle EXCEPT !.boot = "register"]
  <2>1. Sound(new) /\ handles' = [handles EXCEPT ![added + 1] = new]
    BY <1>4, NewIsSound DEF AddAccount, BootStates, Booting
  <2> HIDE DEF new
  <2>2. handles' \in [HandleIds -> Handle] /\ HandlesAreSound'
    BY <1>2, <2>1, OneHandleChanges
  <2>3. added' \in 0..MaxHandles /\ current' \in 0..MaxHandles
    BY <1>1, <1>4, BoundsAssumption DEF AddAccount, Steady, Types
  <2> QED BY <1>1, <1>4, <2>2, <2>3 DEF AddAccount, sidecarVars, registryVars, history, Steady, Types
<1>5. CASE RemoveStep
  <2>1. UNCHANGED <<handles, running, added, events, rpcs>> /\ current' \in {0, current}
    BY <1>5 DEF RemoveStep, RemoveAccount, RemoveLooks, RemoveUnhooks, RemoveFromManifest, RemoveHandle,
                sidecarVars, registryVars
  <2> DEFINE Remover == [pc : {"idle", "rpc", "unhook", "manifest", "forget"},
                         how : {"logout", "disconnect"}, client : 0..MaxHandles]
  <2>2. remover' \in Remover
    <3>1. remover \in Remover /\ NoRemover \in Remover /\ registered \in 0..MaxHandles
      BY <1>1, <1>2 DEF Steady, Types, NoRemover
    <3>2. ASSUME NEW how \in Removals, RemoveAccount(how) PROVE remover' \in Remover
      BY <3>1, <3>2, RemovalsAssumption DEF RemoveAccount, NoRemover
    <3>3. CASE RemoveLooks
      BY <3>1, <3>3 DEF RemoveLooks
    <3>4. CASE RemoveUnhooks
      BY <1>2, <3>1, <3>4 DEF RemoveUnhooks
    <3>5. CASE RemoveFromManifest \/ RemoveHandle
      BY <3>1, <3>5 DEF RemoveFromManifest, RemoveHandle
    <3> QED BY <1>5, <3>2, <3>3, <3>4, <3>5 DEF RemoveStep
  <2>3. clients' \in [HandleIds -> Client] /\ registered' \in {0, registered}
    <3>1. CASE RemoveLooks
      <4>1. CASE UNCHANGED <<registered, clients>>
        BY <1>1, <4>1 DEF Steady, Types
      <4>2. ASSUME NEW held \in BOOLEAN, clients' = [clients EXCEPT ![registered].held = held],
                   registered' = 0
            PROVE  clients' \in [HandleIds -> Client] /\ registered' \in {0, registered}
        BY <1>1, <4>2 DEF Client, Steady, Types
      <4> QED BY <3>1, <4>1, <4>2 DEF RemoveLooks
    <3>2. CASE RemoveUnhooks
      BY <1>1, <3>2 DEF RemoveUnhooks, Client, Steady, Types
    <3>3. CASE ~RemoveLooks /\ ~RemoveUnhooks
      BY <1>1, <1>5, <3>3 DEF RemoveStep, RemoveAccount, RemoveFromManifest, RemoveHandle, sidecarVars,
                              registryVars, Steady, Types
    <3> QED BY <3>1, <3>2, <3>3
  <2>4. devices' \subseteq devices /\ manifest' \in {manifest, Absent}
    BY <1>5 DEF RemoveStep, RemoveAccount, RemoveLooks, RemoveUnhooks, RemoveFromManifest, RemoveHandle,
                sidecarVars, registryVars
  <2>5. unlinked' \in BOOLEAN /\ named' \in BOOLEAN /\ missed' \in BOOLEAN
    BY <1>1, <1>5 DEF RemoveStep, RemoveAccount, RemoveLooks, RemoveUnhooks, RemoveFromManifest,
                      RemoveHandle, Notes, history, Steady, Types
  <2> QED BY <1>1, <1>2, <1>3, <2>1, <2>2, <2>3, <2>4, <2>5 DEF Steady, Types
<1>6. ASSUME NEW c \in HandleIds, ClientStep(c) PROVE Steady'
  <2> USE DEF Steady, Types
  <2>1. UNCHANGED <<appVars, manifest, rpcs, registered>>
    BY <1>6 DEF ClientStep, QrCode, QrTimeout, Pair, LogsIn, Drops, RemoteLogout, sidecarVars,
                registryVars
  <2>2. clients[c] \in Client /\ clients[c].jid \in Jids \cup {NoJid}
    BY <1>1 DEF Client
  <2>3. PICK kind \in Kinds, jid \in Jids \cup {NoJid} : Emit(kind, jid)
    BY <1>6, <2>2 DEF ClientStep, QrCode, QrTimeout, Pair, LogsIn, Drops, RemoteLogout, Kinds
  <2>4. /\ events' \in Seq(Event)
        /\ Len(events') <= MaxQueue
    <3>1. [kind |-> kind, jid |-> jid] \in Event
      BY DEF Event
    <3> QED BY <1>1, <2>3, <3>1, BoundsAssumption DEF Emit
  <2>5. clients' \in [HandleIds -> Client]
    <3>1. CASE QrCode(c) \/ LogsIn(c) \/ Drops(c)
      BY <1>1, <3>1 DEF QrCode, LogsIn, Drops, sidecarVars, registryVars
    <3>2. CASE QrTimeout(c) \/ RemoteLogout(c)
      <4>1. PICK new \in Client : clients' = [clients EXCEPT ![c] = new]
        <5>1. CASE QrTimeout(c)
          <6> DEFINE new == [clients[c] EXCEPT !.pump = FALSE, !.ws = FALSE]
          <6>1. new \in Client /\ clients' = [clients EXCEPT ![c] = new]
            BY <1>1, <2>2, <5>1 DEF QrTimeout, Client
          <6> QED BY <6>1
        <5>2. CASE RemoteLogout(c)
          <6> DEFINE new == [clients[c] EXCEPT !.jid = NoJid, !.ws = FALSE]
          <6>1. new \in Client /\ clients' = [clients EXCEPT ![c] = new]
            BY <1>1, <2>2, <5>2 DEF RemoteLogout, Client
          <6> QED BY <6>1
        <5> QED BY <3>2, <5>1, <5>2
      <4> QED BY <1>1, <4>1
    <3>3. ASSUME NEW j \in Jids, Pair(c, j) PROVE clients' \in [HandleIds -> Client]
      BY <1>1, <2>2, <3>3 DEF Pair, Client
    <3> QED BY <1>6, <3>1, <3>2, <3>3 DEF ClientStep
  <2>6. devices' \subseteq Jids
    BY <1>1, <1>6 DEF ClientStep, QrCode, QrTimeout, Pair, LogsIn, Drops, RemoteLogout, sidecarVars,
                      registryVars
  <2>7. unlinked' \in BOOLEAN /\ named' \in BOOLEAN /\ missed' \in BOOLEAN
    BY <1>1, <2>3 DEF Emit, Notes
  <2> QED BY <1>1, <1>3, <2>1, <2>4, <2>5, <2>6, <2>7 DEF appVars
<1>7. CASE Notify
  <2>1. /\ Head(events) \in Event
        /\ events' \in Seq(Event)
        /\ Len(events') <= MaxQueue
    <3>1. events \in Seq(Event) /\ Len(events) <= MaxQueue /\ events # <<>> /\ events' = Tail(events)
      BY <1>1, <1>7 DEF Notify, Steady, Types
    <3> QED BY <3>1, BoundsAssumption
  <2>2. handles' \in [HandleIds -> Handle] /\ HandlesAreSound'
    <3>1. CASE current = 0
      BY <1>3, <1>7, <3>1 DEF Notify
    <3>2. CASE current # 0
      <4> DEFINE told == OnEvent(handles[current], Head(events))
      <4>1. current \in HandleIds /\ Sound(handles[current])
        BY <1>1, <3>2 DEF Steady, Types, HandleIds, HandlesAreSound
      <4>2. Sound(told) /\ handles' = [handles EXCEPT ![current] = told]
        BY <1>7, <2>1, <3>2, <4>1, OnEventIsSound DEF Notify
      <4> HIDE DEF told
      <4> QED BY <1>2, <4>2, OneHandleChanges
    <3> QED BY <3>1, <3>2
  <2>3. manifest' \in Jids \cup {NoJid, Absent}
    BY <1>1, <1>7, <2>1 DEF Notify, Event, Steady, Types
  <2> QED BY <1>1, <1>7, <2>1, <2>2, <2>3 DEF Notify, sidecarVars, registryVars, history, Steady, Types
<1>8. ASSUME SidecarEnds PROVE /\ rpcs' \in [HandleIds -> Rpcs] /\ registered' \in 0..MaxHandles
                              /\ clients' \in [HandleIds -> Client]
  BY <1>2, <1>8 DEF SidecarEnds, NoRpc, Rpcs, NoClient, Client
<1>9. <<>> \in Seq(Event) /\ Len(<<>>) <= MaxQueue
  BY BoundsAssumption
<1>10. CASE Stop
  <2>1. ASSUME NEW h \in HandleIds PROVE Sound(handles'[h])
    <3>1. Sound(handles[h])
      BY <1>2 DEF HandlesAreSound
    <3>2. Sound(Ended(Fail(handles[h]), "cancelled"))
      BY <3>1, FailIsSound
    <3> QED BY <1>10, <3>1, <3>2 DEF Stop
  <2>2. handles' \in [HandleIds -> Handle] /\ HandlesAreSound'
    <3>1. \A h \in HandleIds : handles'[h] \in Handle
      BY <2>1 DEF Sound
    <3>2. handles' = [h \in HandleIds |-> handles'[h]]
      BY <1>10 DEF Stop
    <3> QED BY <2>1, <3>1, <3>2 DEF HandlesAreSound
  <2> QED BY <1>1, <1>8, <1>9, <1>10, <2>2 DEF Stop, history, Steady, Types
<1>11. CASE Restart
  <2>1. handles' \in [HandleIds -> Handle] /\ HandlesAreSound'
    BY <1>11, NewIsSound DEF Restart, HandlesAreSound, Sound
  <2> QED BY <1>1, <1>2, <1>8, <1>9, <1>11, <2>1 DEF Restart, NoRemover, Steady, Types
<1>12. CASE UNCHANGED vars
  BY <1>1, <1>3, <1>12 DEF vars, appVars, sidecarVars, registryVars, history, Steady, Types
<1> QED BY <1>4, <1>5, <1>6, <1>7, <1>10, <1>11, <1>12

-----------------------------------------------------------------------------
(* Each step keeps the links between the tasks, their RPCs and the         *)
(* registry.                                                               *)

(* The links speak of nothing else.                                        *)
LEMMA LinksUnchanged ==
  ASSUME Links, UNCHANGED <<added, handles, rpcs, registered, clients, remover>>
  PROVE  Links'
BY DEF Links, OneClient, TasksMatch, UnbornIsUnknown, Unborn, DialsAreHeld

(* A task or an RPC moves on; no client is made, and none is dialled that  *)
(* is not the registered one.                                              *)
LEMMA TasksMove ==
  ASSUME IInv, NEW h \in HandleIds,
         UNCHANGED <<added, registered, clients, remover>>,
         rpcs' \in [HandleIds -> Rpcs],
         \A g \in HandleIds \ {h} : handles'[g].boot = handles[g].boot /\ rpcs'[g] = rpcs[g],
         h <= added, handles'[h].boot # "register",
         handles'[h].boot \in {"none", "register", "ensured", "connected"} => rpcs'[h].pc = "none",
         ~Unborn(h) => rpcs'[h].pc \notin {"ensure", "install"},
         rpcs'[h].client \in {0, rpcs[h].client}
           \/ (registered # 0 /\ rpcs'[h].client = registered),
         rpcs'[h].pc = "dial" => \/ rpcs'[h] = rpcs[h]
                                 \/ registered # 0 /\ rpcs'[h].client = registered
  PROVE  Links'
<1>1. OneClient'
  BY DEF IInv, OneClient
<1>2. added \in 0..MaxHandles /\ registered \in 0..MaxHandles
  BY DEF IInv, TypeOK
<1>3. TasksMatch'
  BY <1>2 DEF IInv, TasksMatch, HandleIds
<1>4. UnbornIsUnknown'
  <2> SUFFICES ASSUME NEW c \in HandleIds, Unborn(c)'
               PROVE  registered # c /\ \A g \in HandleIds : rpcs'[g].client # c
    BY DEF UnbornIsUnknown
  <2>1. Unborn(c)
    BY <1>2 DEF Unborn, HandleIds
  <2>2. c # 0 /\ registered # c /\ \A g \in HandleIds : rpcs[g].client # c
    BY <2>1 DEF IInv, UnbornIsUnknown, HandleIds
  <2> QED BY <2>2
<1>5. DialsAreHeld'
  <2> SUFFICES ASSUME NEW g \in HandleIds, rpcs'[g].pc = "dial"
               PROVE  /\ rpcs'[g].client \in HandleIds
                      /\ registered = rpcs'[g].client \/ clients[rpcs'[g].client].held
    BY DEF DialsAreHeld
  <2>1. CASE g = h
    <3>1. CASE rpcs'[h] = rpcs[h]
      BY <2>1, <3>1 DEF IInv, DialsAreHeld
    <3>2. CASE registered # 0 /\ rpcs'[h].client = registered
      BY <1>2, <2>1, <3>2 DEF HandleIds
    <3> QED BY <2>1, <3>1, <3>2
  <2>2. CASE g # h
    BY <2>2 DEF IInv, DialsAreHeld
  <2> QED BY <2>1, <2>2
<1> QED BY <1>1, <1>3, <1>4, <1>5 DEF Links

(* The steps of the tasks and of their RPCs.                               *)
LEMMA BootKeepsLinks ==
  ASSUME IInv, NEW h \in HandleIds, BootStep(h)
  PROVE  Links'
<1>1. Steady /\ Steady' /\ Links
  BY SteadyIsTypeOK, BootKeepsTypes DEF IInv, Links
<1>2. /\ rpcs \in [HandleIds -> Rpcs] /\ rpcs' \in [HandleIds -> Rpcs]
      /\ handles \in [HandleIds -> Handle]
      /\ added \in 0..MaxHandles /\ registered \in 0..MaxHandles
      /\ clients \in [HandleIds -> Client]
      /\ h \in Nat \ {0}
  BY <1>1, BoundsAssumption DEF Steady, Types, HandleIds
<1>3. rpcs[h].pc # "none" => handles[h].boot \notin {"none", "register", "ensured", "connected"}
  BY DEF IInv, TasksMatch
<1>4. handles[h].boot # "none" => h <= added
  BY <1>2 DEF IInv, TasksMatch
<1>5. ASSUME NEW reply \in Replies, Answers(h, reply), rpcs[h].pc # "none"
      PROVE  /\ h <= added
             /\ handles'[h].boot \notin {"none", "register"}
             /\ rpcs'[h] = NoRpc
             /\ \A g \in HandleIds \ {h} : handles'[g].boot = handles[g].boot /\ rpcs'[g] = rpcs[g]
  BY <1>2, <1>3, <1>4, <1>5, AnswersIsSound
<1>6. ASSUME NEW reply \in Replies, Answers(h, reply), rpcs[h].pc # "none",
             UNCHANGED <<added, registered, clients, remover>>
      PROVE  Links'
  BY <1>2, <1>5, <1>6, TasksMove DEF NoRpc
<1>7. CASE BootRegister(h)
  <2>1. h <= added /\ Unborn(h) /\ rpcs[h].pc = "none"
    BY <1>3, <1>4, <1>7 DEF BootRegister, Unborn
  <2>2. CASE BootFails(h) /\ UNCHANGED rpcs
    <3>1. /\ handles'[h].boot = "failed"
          /\ \A g \in HandleIds \ {h} : handles'[g].boot = handles[g].boot
      BY <1>1, <1>2, <2>2, FailIsSound DEF BootFails, Steady, HandlesAreSound
    <3> QED BY <1>2, <1>7, <2>1, <2>2, <3>1, TasksMove DEF BootRegister, registryVars
  <2>3. ASSUME NEW jid,
               handles' = [handles EXCEPT ![h].boot = "ensure", ![h].asked = jid],
               rpcs' = [rpcs EXCEPT ![h] = [NoRpc EXCEPT !.pc = "ensure", !.jid = jid]]
        PROVE  Links'
    <3>1. handles'[h].boot = "ensure" /\ rpcs'[h].pc = "ensure" /\ rpcs'[h].client = 0
      BY <1>2, <2>3 DEF Handle, NoRpc
    <3> QED BY <1>2, <1>7, <2>1, <2>3, <3>1, TasksMove DEF BootRegister, registryVars
  <2> QED BY <1>7, <2>2, <2>3 DEF BootRegister, history
<1>8. CASE EnsureFinds(h)
  <2>1. clients[registered] \in Client
    BY <1>2, <1>8 DEF EnsureFinds, HandleIds
  <2>2. /\ NoReply \in Replies /\ [NoReply EXCEPT !.ok = TRUE] \in Replies
        /\ Account(clients[registered]) \in Replies
    BY <2>1 DEF Account, Reports, Client, NoReply, Replies, States
  <2>3. PICK reply \in Replies : Answers(h, reply)
    BY <1>8, <2>2 DEF EnsureFinds
  <2> QED BY <1>6, <1>8, <2>3 DEF EnsureFinds, registryVars
<1>9. CASE EnsureLoads(h)
  <2>1. CASE Answers(h, NoReply)
    <3>1. NoReply \in Replies
      BY DEF NoReply, Replies, States
    <3> QED BY <1>6, <1>9, <2>1, <3>1 DEF EnsureLoads, registryVars
  <2>2. CASE rpcs' = [rpcs EXCEPT ![h].pc = "install"] /\ UNCHANGED handles
    <3>1. rpcs'[h].pc = "install" /\ rpcs'[h].client = rpcs[h].client
      BY <1>2, <2>2 DEF Rpcs
    <3>2. Unborn(h) /\ h <= added /\ handles[h].boot \notin {"none", "register", "ensured", "connected"}
      BY <1>3, <1>4, <1>9 DEF EnsureLoads, Unborn
    <3> QED BY <1>2, <1>9, <2>2, <3>1, <3>2, TasksMove DEF EnsureLoads, registryVars
  <2> QED BY <1>9, <2>1, <2>2 DEF EnsureLoads
<1>10. CASE EnsureInstalls(h)
  <2>1. ASSUME NEW c \in Client PROVE Account(c) \in Replies
    BY <2>1 DEF Account, Reports, Client, Replies, States
  <2>2. CASE registered # 0
    <3>1. clients[registered] \in Client
      BY <1>2, <2>2 DEF HandleIds
    <3> QED BY <1>6, <1>10, <2>1, <2>2, <3>1 DEF EnsureInstalls
  <2>3. CASE registered = 0
    <3> DEFINE new == [NoClient EXCEPT !.jid = rpcs[h].jid]
    <3>1. new \in Client /\ new.ws = FALSE
      BY <1>2 DEF NoClient, Client, Rpcs
    <3>2. clients' = [clients EXCEPT ![h] = new] /\ registered' = h /\ UNCHANGED <<added, remover>>
      BY <1>10, <2>3 DEF EnsureInstalls
    <3>3. clients'[h] = new /\ \A c \in HandleIds \ {h} : clients'[c] = clients[c]
      BY <1>2, <3>2
    <3> HIDE DEF new
    <3>4. Answers(h, Account(new)) /\ Account(new) \in Replies /\ rpcs[h].pc = "install"
      BY <1>10, <2>1, <2>3, <3>1, <3>3 DEF EnsureInstalls
    <3>5. /\ h <= added
          /\ handles'[h].boot \notin {"none", "register"}
          /\ rpcs'[h] = NoRpc
          /\ \A g \in HandleIds \ {h} : handles'[g].boot = handles[g].boot /\ rpcs'[g] = rpcs[g]
      BY <1>5, <3>4
    <3>6. OneClient'
      <4> SUFFICES ASSUME NEW c \in HandleIds, clients'[c].ws, c # h
                   PROVE  (remover.pc = "unhook" /\ c = remover.client) \/ clients[c].held
        BY <3>2, <3>3 DEF OneClient
      <4> QED BY <2>3, <3>3 DEF IInv, OneClient, HandleIds
    <3>7. TasksMatch'
      BY <1>2, <3>2, <3>5 DEF IInv, TasksMatch, HandleIds, NoRpc
    <3>8. Unborn(h) /\ \A g \in HandleIds : rpcs[g].client # h
      BY <3>4 DEF IInv, UnbornIsUnknown, Unborn
    <3>9. UnbornIsUnknown'
      <4> SUFFICES ASSUME NEW c \in HandleIds, Unborn(c)'
                   PROVE  h # c /\ \A g \in HandleIds : rpcs'[g].client # c
        BY <3>2 DEF UnbornIsUnknown
      <4>1. c # h /\ Unborn(c)
        BY <1>2, <3>2, <3>5 DEF Unborn, NoRpc, HandleIds
      <4> QED BY <1>2, <3>5, <4>1 DEF IInv, UnbornIsUnknown, NoRpc, HandleIds
    <3>10. DialsAreHeld'
      <4> SUFFICES ASSUME NEW g \in HandleIds, rpcs'[g].pc = "dial"
                   PROVE  rpcs'[g].client \in HandleIds /\ clients'[rpcs'[g].client].held
        BY DEF DialsAreHeld
      <4>1. g # h /\ rpcs'[g] = rpcs[g]
        BY <3>5 DEF NoRpc
      <4> QED BY <2>3, <3>3, <3>8, <4>1 DEF IInv, DialsAreHeld, HandleIds
    <3> QED BY <3>6, <3>7, <3>9, <3>10 DEF Links
  <2> QED BY <2>2, <2>3
<1>11. CASE EnsureReplies(h)
  <2>1. /\ \A g \in HandleIds \ {h} : handles'[g].boot = handles[g].boot
        /\ handles'[h].boot \in {"failed", "connect"}
    BY <1>11, BootResumesIsSound DEF EnsureReplies
  <2>2. rpcs[h].pc = "none" /\ h <= added
    BY <1>3, <1>4, <1>11 DEF EnsureReplies
  <2>3. CASE handles'[h].boot = "connect"
    <3>1. rpcs' = [rpcs EXCEPT ![h] = [NoRpc EXCEPT !.pc = "connect"]]
      BY <1>11, <2>3 DEF EnsureReplies
    <3>2. rpcs'[h].pc = "connect" /\ rpcs'[h].client = 0
      BY <1>2, <3>1 DEF NoRpc
    <3> QED BY <1>2, <1>11, <2>1, <2>2, <2>3, <3>1, <3>2, TasksMove DEF EnsureReplies, registryVars
  <2>4. CASE handles'[h].boot = "failed"
    BY <1>2, <1>11, <2>1, <2>2, <2>4, TasksMove DEF EnsureReplies, registryVars
  <2> QED BY <2>1, <2>3, <2>4
<1>12. CASE ConnectGets(h)
  <2>1. CASE registered = 0
    <3>1. NoReply \in Replies
      BY DEF NoReply, Replies, States
    <3> QED BY <1>6, <1>12, <2>1, <3>1 DEF ConnectGets, registryVars
  <2>2. CASE registered # 0 /\ clients[registered].ws
    <3>1. clients[registered] \in Client
      BY <1>2, <2>2 DEF HandleIds
    <3>2. Reports("CONNECTED", clients[registered].jid) \in Replies
      BY <3>1 DEF Reports, Replies, States, Client
    <3> QED BY <1>6, <1>12, <2>2, <3>2 DEF ConnectGets, registryVars
  <2>3. CASE registered # 0 /\ ~clients[registered].ws
    <3>1. rpcs' = [rpcs EXCEPT ![h].pc = "dial", ![h].client = registered] /\ UNCHANGED handles
      BY <1>12, <2>3 DEF ConnectGets
    <3>2. rpcs'[h].pc = "dial" /\ rpcs'[h].client = registered
      BY <1>2, <3>1 DEF Rpcs
    <3>3. h <= added /\ handles[h].boot \notin {"none", "register", "ensured", "connected"}
      BY <1>3, <1>4, <1>12 DEF ConnectGets
    <3> QED BY <1>2, <1>12, <2>3, <3>1, <3>2, <3>3, TasksMove DEF ConnectGets, registryVars
  <2> QED BY <2>1, <2>2, <2>3
<1>13. CASE ConnectDials(h)
  <2> DEFINE c == rpcs[h].client
  <2>1. c \in HandleIds /\ (registered = c \/ clients[c].held) /\ clients[c] \in Client
    BY <1>2, <1>13 DEF ConnectDials, IInv, DialsAreHeld
  <2>2. NoReply \in Replies /\ Reports("CONNECTING", clients[c].jid) \in Replies
    BY <2>1 DEF NoReply, Reports, Replies, States, Client
  <2>3. CASE UNCHANGED clients
    BY <1>6, <1>13, <2>2, <2>3 DEF ConnectDials
  <2>4. CASE clients' = [clients EXCEPT ![c].ws = TRUE, ![c].pump = @ \/ clients[c].jid = NoJid]
    <3>0. \A d \in HandleIds : clients[d].held => clients'[d].held
      BY <1>2, <2>1, <2>4 DEF Client
    <3>1. \A d \in HandleIds \ {c} : clients'[d] = clients[d]
      BY <1>2, <2>1, <2>4
    <3>2. PICK reply \in Replies : Answers(h, reply)
      BY <1>13, <2>2 DEF ConnectDials
    <3>3. /\ h <= added
          /\ handles'[h].boot \notin {"none", "register"}
          /\ rpcs'[h] = NoRpc
          /\ \A g \in HandleIds \ {h} : handles'[g].boot = handles[g].boot /\ rpcs'[g] = rpcs[g]
      BY <1>5, <1>13, <3>2 DEF ConnectDials
    <3>4. UNCHANGED <<added, registered, remover>>
      BY <1>13 DEF ConnectDials
    <3>5. OneClient'
      <4> SUFFICES ASSUME NEW d \in HandleIds, clients'[d].ws
                   PROVE  \/ d = registered
                          \/ remover.pc = "unhook" /\ d = remover.client
                          \/ clients'[d].held
        BY <3>4 DEF OneClient
      <4>1. CASE d = c
        BY <2>1, <3>0, <4>1
      <4>2. CASE d # c
        <5>1. clients'[d] = clients[d]
          BY <3>1, <4>2
        <5> QED BY <5>1 DEF IInv, OneClient
      <4> QED BY <4>1, <4>2
    <3>6. TasksMatch'
      BY <1>2, <3>3, <3>4 DEF IInv, TasksMatch, HandleIds, NoRpc
    <3>7. UnbornIsUnknown'
      <4> SUFFICES ASSUME NEW d \in HandleIds, Unborn(d)'
                   PROVE  registered # d /\ \A g \in HandleIds : rpcs'[g].client # d
        BY <3>4 DEF UnbornIsUnknown
      <4>1. Unborn(d)
        BY <1>2, <3>3, <3>4 DEF Unborn, NoRpc, HandleIds
      <4> QED BY <1>2, <3>3, <4>1 DEF IInv, UnbornIsUnknown, NoRpc, HandleIds
    <3>8. DialsAreHeld'
      <4> SUFFICES ASSUME NEW g \in HandleIds, rpcs'[g].pc = "dial"
                   PROVE  /\ rpcs'[g].client \in HandleIds
                          /\ registered = rpcs'[g].client \/ clients'[rpcs'[g].client].held
        BY <3>4 DEF DialsAreHeld
      <4>1. g # h /\ rpcs'[g] = rpcs[g]
        BY <3>3 DEF NoRpc
      <4>2. /\ rpcs[g].client \in HandleIds
            /\ registered = rpcs[g].client \/ clients[rpcs[g].client].held
        BY <4>1 DEF IInv, DialsAreHeld
      <4>3. clients[rpcs[g].client].held => clients'[rpcs[g].client].held
        BY <3>0, <4>2
      <4> QED BY <4>1, <4>2, <4>3
    <3> QED BY <3>5, <3>6, <3>7, <3>8 DEF Links
  <2> QED BY <1>13, <2>3, <2>4 DEF ConnectDials
<1>14. CASE ConnectReplies(h)
  <2>1. /\ \A g \in HandleIds \ {h} : handles'[g].boot = handles[g].boot
        /\ handles'[h].boot \in {"failed", "done"}
    BY <1>14, BootResumesIsSound DEF ConnectReplies
  <2>2. rpcs[h].pc = "none" /\ h <= added
    BY <1>3, <1>4, <1>14 DEF ConnectReplies
  <2> QED BY <1>2, <1>14, <2>1, <2>2, TasksMove DEF ConnectReplies, sidecarVars, registryVars
<1>15. CASE BootRpcFails(h)
  <2>1. Sound(handles[h])
    BY <1>1 DEF Steady, HandlesAreSound
  <2>2. /\ handles'[h].boot = "failed"
        /\ \A g \in HandleIds \ {h} : handles'[g].boot = handles[g].boot
    BY <1>2, <1>15, <2>1, FailIsSound DEF BootRpcFails, BootFails
  <2>3. h <= added
    BY <1>4, <1>15 DEF BootRpcFails, Booting
  <2>4. ~Unborn(h) => rpcs[h].pc \notin {"ensure", "install"}
    BY DEF Unborn
  <2>5. UNCHANGED <<added, registered, clients, remover>> /\ rpcs' = rpcs
    BY <1>15 DEF BootRpcFails, sidecarVars, registryVars
  <2>6. OneClient' /\ DialsAreHeld'
    BY <2>5 DEF IInv, OneClient, DialsAreHeld
  <2>7. TasksMatch'
    <3> SUFFICES ASSUME NEW g \in HandleIds
                 PROVE  /\ g > added => handles'[g].boot = "none"
                        /\ handles'[g].boot \in {"none", "register", "ensured", "connected"}
                               => rpcs[g].pc = "none"
      BY <2>5 DEF TasksMatch
    <3>1. CASE g = h
      BY <1>2, <2>2, <2>3, <3>1
    <3>2. CASE g # h
      BY <2>2, <3>2 DEF IInv, TasksMatch
    <3> QED BY <3>1, <3>2
  <2>8. \A c \in HandleIds : Unborn(c)' => Unborn(c)
    BY <2>2, <2>5 DEF Unborn
  <2>9. UnbornIsUnknown'
    BY <2>5, <2>8 DEF IInv, UnbornIsUnknown
  <2> QED BY <2>6, <2>7, <2>9 DEF Links
<1> QED BY <1>7, <1>8, <1>9, <1>10, <1>11, <1>12, <1>13, <1>14, <1>15 DEF BootStep

(* The other steps.                                                        *)
LEMMA OthersKeepLinks ==
  ASSUME IInv,
         AddAccount \/ RemoveStep \/ (\E c \in HandleIds : ClientStep(c)) \/ Notify \/ Stop \/ Restart
           \/ UNCHANGED vars
  PROVE  Links'
<1>1. Steady /\ Links
  BY SteadyIsTypeOK DEF IInv, Links
<1>2. /\ handles \in [HandleIds -> Handle] /\ HandlesAreSound
      /\ added \in 0..MaxHandles /\ registered \in 0..MaxHandles /\ MaxHandles \in Nat
      /\ clients \in [HandleIds -> Client]
  BY <1>1, BoundsAssumption DEF Steady, Types
<1>3. CASE AddAccount
  <2>1. /\ added' = added + 1 /\ added + 1 \in HandleIds
        /\ handles' = [handles EXCEPT ![added + 1] = [NewHandle EXCEPT !.boot = "register"]]
        /\ UNCHANGED <<remover, rpcs, registered, clients>>
    BY <1>2, <1>3 DEF AddAccount, HandleIds, sidecarVars, registryVars
  <2>2. /\ handles'[added + 1].boot = "register"
        /\ \A h \in HandleIds \ {added + 1} : handles'[h] = handles[h]
    BY <1>2, <2>1 DEF NewHandle
  <2>3. rpcs[added + 1].pc = "none"
    <3>1. handles[added + 1].boot = "none"
      BY <1>2, <2>1 DEF IInv, TasksMatch
    <3> QED BY <2>1, <3>1 DEF IInv, TasksMatch
  <2>4. TasksMatch'
    <3>1. ASSUME NEW h \in HandleIds
          PROVE  /\ h > added + 1 => handles'[h].boot = "none"
                 /\ handles'[h].boot \in {"none", "register", "ensured", "connected"}
                        => rpcs[h].pc = "none"
      <4>1. CASE h = added + 1
        BY <1>2, <2>3, <4>1
      <4>2. CASE h # added + 1
        BY <1>2, <2>2, <4>2 DEF IInv, TasksMatch, HandleIds
      <4> QED BY <4>1, <4>2
    <3> QED BY <2>1, <3>1 DEF TasksMatch
  <2>5. UnbornIsUnknown'
    <3> SUFFICES ASSUME NEW c \in HandleIds, Unborn(c)'
                 PROVE  registered # c /\ \A h \in HandleIds : rpcs[h].client # c
      BY <2>1 DEF UnbornIsUnknown
    <3>1. Unborn(c)
      <4>1. c > added + 1 \/ handles'[c].boot = "register" \/ rpcs[c].pc \in {"ensure", "install"}
        BY <2>1 DEF Unborn
      <4>2. CASE c = added + 1
        BY <1>2, <4>2 DEF Unborn
      <4>3. CASE c # added + 1
        BY <1>2, <2>2, <4>1, <4>3 DEF Unborn, HandleIds
      <4> QED BY <4>2, <4>3
    <3> QED BY <3>1 DEF IInv, UnbornIsUnknown
  <2>6. OneClient' /\ DialsAreHeld'
    BY <2>1 DEF IInv, OneClient, DialsAreHeld
  <2> QED BY <2>4, <2>5, <2>6 DEF Links
<1>4. CASE RemoveStep
  <2>1. UNCHANGED <<added, handles, rpcs>>
    BY <1>4 DEF RemoveStep, RemoveAccount, RemoveLooks, RemoveUnhooks, RemoveFromManifest, RemoveHandle,
                sidecarVars, registryVars
  <2>2. TasksMatch'
    BY <2>1 DEF IInv, TasksMatch
  <2>3. CASE UNCHANGED <<registered, clients>> /\ remover.pc # "unhook"
    BY <2>1, <2>2, <2>3 DEF IInv, Links, OneClient, UnbornIsUnknown, Unborn, DialsAreHeld
  <2>4. CASE RemoveLooks /\ registered # 0 /\ remover.how # "disconnect"
    <3>1. PICK held \in BOOLEAN :
             /\ clients' = [clients EXCEPT ![registered].held = held]
             /\ held = \E h \in HandleIds : rpcs[h].pc = "dial" /\ rpcs[h].client = registered
      BY <2>4 DEF RemoveLooks
    <3>2. /\ registered \in HandleIds /\ clients'[registered].held = held
          /\ \A c \in HandleIds : clients'[c].ws => clients[c].ws
          /\ \A c \in HandleIds \ {registered} : clients'[c] = clients[c]
      <4>1. registered \in HandleIds
        BY <1>2, <2>4 DEF HandleIds
      <4>2. clients' = [clients EXCEPT ![registered] = [clients[registered] EXCEPT !.held = held]]
        BY <3>1
      <4>3. clients[registered] \in Client
        BY <1>2, <4>1
      <4> QED BY <1>2, <4>1, <4>2, <4>3 DEF Client
    <3>3. /\ registered' = 0 /\ remover.pc = "rpc"
          /\ remover'.pc = "unhook" /\ remover'.client = registered
      BY <1>1, <2>4 DEF RemoveLooks, Steady, Types
    <3>4. OneClient'
      BY <3>2, <3>3 DEF IInv, OneClient
    <3>5. UnbornIsUnknown'
      BY <2>1, <3>3 DEF IInv, UnbornIsUnknown, Unborn, HandleIds
    <3>6. DialsAreHeld'
      BY <2>1, <3>1, <3>2, <3>3 DEF IInv, DialsAreHeld
    <3> QED BY <2>2, <3>4, <3>5, <3>6 DEF Links
  <2>5. CASE RemoveUnhooks
    <3>1. /\ clients' = [clients EXCEPT ![remover.client].ws = FALSE]
          /\ registered' = registered
      BY <2>5 DEF RemoveUnhooks
    <3>2. /\ \A c \in HandleIds : clients'[c].held = clients[c].held
          /\ \A c \in HandleIds : clients'[c].ws => clients[c].ws /\ c # remover.client
      BY <1>2, <3>1 DEF Client
    <3>3. OneClient'
      BY <3>1, <3>2 DEF IInv, OneClient
    <3>4. UnbornIsUnknown' /\ DialsAreHeld'
      BY <2>1, <3>1, <3>2 DEF IInv, UnbornIsUnknown, Unborn, DialsAreHeld
    <3> QED BY <2>2, <3>3, <3>4 DEF Links
  <2>6. CASE RemoveLooks /\ (registered = 0 \/ remover.how = "disconnect")
    BY <2>3, <2>6 DEF RemoveLooks
  <2>7. CASE ~RemoveLooks /\ ~RemoveUnhooks
    BY <1>4, <2>3, <2>7 DEF RemoveStep, RemoveAccount, RemoveFromManifest, RemoveHandle, sidecarVars,
                            registryVars
  <2> QED BY <2>4, <2>5, <2>6, <2>7
<1>5. ASSUME NEW c \in HandleIds, ClientStep(c) PROVE Links'
  <2>1. UNCHANGED <<added, handles, rpcs, registered, remover>>
    BY <1>5 DEF ClientStep, QrCode, QrTimeout, Pair, LogsIn, Drops, RemoteLogout, appVars, sidecarVars,
                registryVars
  <2>2. /\ \A d \in HandleIds : clients[d].held => clients'[d].held
        /\ \A d \in HandleIds : clients'[d].ws => clients[d].ws
    <3>1. CASE QrCode(c) \/ LogsIn(c) \/ Drops(c)
      BY <3>1 DEF QrCode, LogsIn, Drops, sidecarVars, registryVars
    <3>2. CASE QrTimeout(c)
      BY <1>2, <3>2 DEF QrTimeout, Client
    <3>3. CASE RemoteLogout(c)
      BY <1>2, <3>3 DEF RemoteLogout, Client
    <3>4. ASSUME NEW j \in Jids, Pair(c, j)
          PROVE  /\ \A d \in HandleIds : clients[d].held => clients'[d].held
                 /\ \A d \in HandleIds : clients'[d].ws => clients[d].ws
      <4>1. clients' = [clients EXCEPT ![c] = [clients[c] EXCEPT !.jid = j, !.pump = FALSE]]
        BY <3>4 DEF Pair
      <4>2. clients[c] \in Client
        BY <1>2, <1>5
      <4> QED BY <1>2, <4>1, <4>2 DEF Client
    <3> QED BY <1>5, <3>1, <3>2, <3>3, <3>4 DEF ClientStep
  <2>3. OneClient'
    BY <2>1, <2>2 DEF IInv, OneClient
  <2>4. TasksMatch' /\ UnbornIsUnknown'
    BY <2>1 DEF IInv, TasksMatch, UnbornIsUnknown, Unborn
  <2>5. DialsAreHeld'
    BY <2>1, <2>2 DEF IInv, DialsAreHeld
  <2> QED BY <2>3, <2>4, <2>5 DEF Links
<1>6. CASE Notify
  <2>1. UNCHANGED <<added, rpcs, registered, clients, remover>>
    BY <1>6 DEF Notify, sidecarVars, registryVars
  <2>2. \A h \in HandleIds : handles'[h].boot = handles[h].boot
    <3>1. CASE current = 0
      BY <1>6, <3>1 DEF Notify
    <3>2. CASE current # 0
      <4> DEFINE told == OnEvent(handles[current], Head(events))
      <4>1. /\ current \in HandleIds /\ Sound(handles[current])
            /\ events \in Seq(Event) /\ events # <<>>
        BY <1>1, <1>6, <3>2 DEF Notify, Steady, Types, HandleIds, HandlesAreSound
      <4>2. Head(events) \in Event
        BY <4>1
      <4>3. told.boot = handles[current].boot /\ handles' = [handles EXCEPT ![current] = told]
        BY <1>6, <3>2, <4>1, <4>2, OnEventIsSound DEF Notify
      <4> HIDE DEF told
      <4> QED BY <1>2, <4>1, <4>3
    <3> QED BY <3>1, <3>2
  <2> QED BY <2>1, <2>2 DEF IInv, Links, OneClient, TasksMatch, UnbornIsUnknown, Unborn, DialsAreHeld
<1>7. ASSUME SidecarEnds PROVE OneClient' /\ UnbornIsUnknown' /\ DialsAreHeld'
  BY <1>7 DEF SidecarEnds, NoRpc, NoClient, OneClient, UnbornIsUnknown, DialsAreHeld, HandleIds
<1>8. CASE Stop
  <2>1. \A h \in HandleIds : handles'[h].boot \in {handles[h].boot, "cancelled"}
    <3>1. \A h \in HandleIds : Ended(Fail(handles[h]), "cancelled").boot = "cancelled"
      BY <1>2, FailIsSound DEF HandlesAreSound
    <3> QED BY <1>8, <3>1 DEF Stop
  <2>2. \A h \in HandleIds : handles[h].boot = "none" => handles'[h].boot = "none"
    BY <1>8 DEF Stop, Booting
  <2>3. TasksMatch'
    BY <1>8, <2>1, <2>2 DEF IInv, TasksMatch, Stop, SidecarEnds, NoRpc
  <2> QED BY <1>7, <1>8, <2>3 DEF Stop, Links
<1>9. CASE Restart
  <2>1. TasksMatch'
    BY <1>9 DEF Restart, SidecarEnds, TasksMatch, NewHandle, NoRpc
  <2> QED BY <1>7, <1>9, <2>1 DEF Restart, Links
<1>10. CASE UNCHANGED vars
  BY <1>1, <1>10, LinksUnchanged DEF vars, appVars, sidecarVars, registryVars
<1> QED BY <1>3, <1>4, <1>5, <1>6, <1>8, <1>9, <1>10

-----------------------------------------------------------------------------
(* The initial states satisfy the invariant.                               *)
LEMMA IInvInit == Init => IInv
BY InitIsSound, SteadyIsTypeOK DEF IInv, Links

(* Every step keeps it.                                                    *)
LEMMA IInvStep == IInv /\ [Next]_vars => IInv'
<1> SUFFICES ASSUME IInv, [Next]_vars PROVE IInv'
  OBVIOUS
<1>1. Steady' /\ Links'
  BY BootKeepsTypes, BootKeepsLinks, OthersKeepTypes, OthersKeepLinks DEF Next
<1>2. Steady' <=> TypeOK' /\ ReadyIsAnswered'
  BY DEF Steady, Types, TypeOK, HandlesAreSound, Sound, Handle, Client, Event, Kinds,
         ReadyIsAnswered, Answered, Lost
<1> QED BY <1>1, <1>2 DEF IInv, Links

(* Every behaviour satisfies the invariant.                                *)
LEMMA SpecIInv == Spec => []IInv
BY IInvInit, IInvStep, PTL DEF Spec

(* The variables keep their types, whatever fails and whenever.            *)
THEOREM TypeSafety == Spec => []TypeOK
<1>1. IInv => TypeOK
  BY DEF IInv
<1> QED BY SpecIInv, <1>1, PTL

(* ready() is answered, in whatever order RPC replies, events, removals    *)
(* and the end of the app come (app.py 127-204, 516-520).                  *)
THEOREM ReadyAnswers == Spec => []ReadyIsAnswered
<1>1. IInv => ReadyIsAnswered
  BY DEF IInv
<1> QED BY SpecIInv, <1>1, PTL

(* A key never has two connected clients within reach of an RPC, however   *)
(* many EnsureAccount and Connect calls race (registry.go 157-170,         *)
(* 215-240).                                                               *)
THEOREM RegistryKeepsOneClient == Spec => []OneClient
<1>1. IInv => OneClient
  BY DEF IInv
<1> QED BY SpecIInv, <1>1, PTL

-----------------------------------------------------------------------------
(* Pairings are remembered.  PairingInv is proved on top of IInv, for the  *)
(* states of a run of the app in which no device has been unlinked.        *)
Parts == OneToPair /\ JidsAgree /\ NewsIsTrue /\ AsksAsTold /\ EntryIsThere /\ KnownOrOnItsWay

(* What IInv says of the types, and of the dials: without a logout, they   *)
(* dial the registered client.                                             *)
LEMMA PairingTypes ==
  ASSUME IInv
  PROVE  /\ handles \in [HandleIds -> Handle] /\ rpcs \in [HandleIds -> Rpcs]
         /\ clients \in [HandleIds -> Client] /\ events \in Seq(Event)
         /\ registered # 0 => registered \in HandleIds
         /\ current # 0 => current \in HandleIds
         /\ manifest \in Jids \cup {NoJid, Absent}
         /\ OneToPair => \A h \in HandleIds : rpcs[h].pc = "dial" =>
                                     registered # 0 /\ rpcs[h].client = registered
<1>1. Steady
  BY SteadyIsTypeOK DEF IInv
<1>2. registered \in 0..MaxHandles /\ current \in 0..MaxHandles /\ MaxHandles \in Nat
  BY <1>1, BoundsAssumption DEF Steady, Types
<1>3. ASSUME OneToPair, NEW h \in HandleIds, rpcs[h].pc = "dial"
      PROVE  registered # 0 /\ rpcs[h].client = registered
  BY <1>3 DEF IInv, DialsAreHeld, OneToPair, HandleIds
<1> QED BY <1>1, <1>2, <1>3 DEF Steady, Types, HandleIds


(* _apply_state leaves the task's part of the handle alone.                *)
LEMMA ApplyStateKeepsTask ==
  ASSUME NEW handle \in Handle, NEW state \in States
  PROVE  /\ ApplyState(handle, state).asked = handle.asked
         /\ ApplyState(handle, state).reply = handle.reply
         /\ ApplyState(handle, state).boot = handle.boot
BY DEF ApplyState, Handle

(* So does the event hook.                                                 *)
LEMMA OnEventKeepsTask ==
  ASSUME NEW handle \in Handle, NEW e \in Event
  PROVE  /\ OnEvent(handle, e).asked = handle.asked
         /\ OnEvent(handle, e).reply = handle.reply
         /\ OnEvent(handle, e).boot = handle.boot
<1>1. e.kind \in Kinds /\ e.jid \in Jids \cup {NoJid}
  BY DEF Event
<1>2. CASE e.kind \in {"connected", "qr"}
  BY <1>1, <1>2, ApplyStateKeepsTask DEF OnEvent, States
<1>3. CASE e.kind \in {"disconnected", "pair_success"}
  BY <1>3 DEF OnEvent, Handle
<1>4. CASE e.kind = "logged_out"
  <2> DEFINE told == [handle EXCEPT !.failed = TRUE]
  <2>1. told \in Handle
    BY DEF Handle
  <2>2. told.asked = handle.asked /\ told.reply = handle.reply /\ told.boot = handle.boot
    BY DEF Handle
  <2>3. OnEvent(handle, e) = ApplyState(told, "LOGGED_OUT")
    BY <1>4 DEF OnEvent
  <2> HIDE DEF told
  <2> QED BY <2>1, <2>2, <2>3, ApplyStateKeepsTask DEF States
<1> QED BY <1>1, <1>2, <1>3, <1>4 DEF Kinds

(* A step that leaves the handles, the manifest, the RPCs and the jids of  *)
(* the clients alone, and at most adds an event that names no pairing.     *)
LEMMA UnmovedKeepsPairing ==
  ASSUME IInv, Parts,
         UNCHANGED <<current, handles, manifest, rpcs, registered, named>>, missed => missed',
         \A c \in HandleIds : /\ clients'[c].jid = clients[c].jid
                              /\ clients'[c].held => clients[c].held
                              /\ clients'[c].pump => clients[c].pump,
         remover'.pc \in {"unhook", "manifest", "forget"} => registered # 0,
         remover.pc = "forget" => remover'.pc = "forget",
         \/ events' = events
         \/ \E e \in Event : e.kind # "pair_success" /\ events' = Append(events, e)
  PROVE  Parts'
<1>1. /\ registered # 0 => registered \in HandleIds
      /\ events \in Seq(Event)
  BY PairingTypes
<1>2. /\ \A i \in DOMAIN events' : events'[i].kind = "pair_success" =>
             i \in DOMAIN events /\ events'[i] = events[i]
      /\ \A i \in DOMAIN events : i \in DOMAIN events' /\ events'[i] = events[i]
  <2>1. CASE events' = events
    BY <2>1
  <2>2. ASSUME NEW e \in Event, e.kind # "pair_success", events' = Append(events, e)
        PROVE  /\ \A i \in DOMAIN events' : events'[i].kind = "pair_success" =>
                     i \in DOMAIN events /\ events'[i] = events[i]
               /\ \A i \in DOMAIN events : i \in DOMAIN events' /\ events'[i] = events[i]
    BY <1>1, <2>2
  <2> QED BY <2>1, <2>2
<1>3. Paired' <=> Paired
  BY <1>1 DEF Paired
<1>4. OneToPair'
  BY DEF Parts, OneToPair
<1>5. JidsAgree' /\ AsksAsTold' /\ EntryIsThere'
  BY <1>1 DEF Parts, JidsAgree, Asking, AsksAsTold, EntryIsThere
<1>6. NewsIsTrue'
  BY <1>1, <1>2, <1>3 DEF Parts, NewsIsTrue, Paired
<1>7. KnownOrOnItsWay'
  BY <1>1, <1>2, <1>3 DEF Parts, KnownOrOnItsWay, OnItsWay, Paired
<1> QED BY <1>4, <1>5, <1>6, <1>7 DEF Parts

(* What an RPC that ends does to its task.                                 *)
LEMMA AnswersTells ==
  ASSUME IInv, NEW h \in HandleIds, NEW reply \in Replies, Answers(h, reply)
  PROVE  /\ \A g \in HandleIds \ {h} : handles'[g] = handles[g] /\ rpcs'[g] = rpcs[g]
         /\ rpcs'[h] = NoRpc
         /\ handles'[h].asked = handles[h].asked
         /\ handles[h].boot = "ensure" => handles'[h].boot = "ensured"
         /\ handles[h].boot = "connect" => handles'[h].boot = "connected"
         /\ IF handles[h].boot \in {"ensure", "connect"} THEN handles'[h].reply = reply
            ELSE handles'[h] = handles[h]
<1>1. handles \in [HandleIds -> Handle] /\ rpcs \in [HandleIds -> Rpcs]
  BY PairingTypes
<1>2. \A g \in HandleIds \ {h} : rpcs'[g] = rpcs[g]
  BY <1>1 DEF Answers
<1>3. rpcs'[h] = NoRpc
  BY <1>1 DEF Answers
<1>4. CASE handles[h].boot = "ensure"
  <2>1. handles' = [handles EXCEPT ![h] = [handles[h] EXCEPT !.boot = "ensured", !.reply = reply]]
    BY <1>4 DEF Answers
  <2> QED BY <1>1, <1>2, <1>3, <1>4, <2>1 DEF Handle
<1>5. CASE handles[h].boot = "connect"
  <2>1. handles' = [handles EXCEPT ![h] = [handles[h] EXCEPT !.boot = "connected", !.reply = reply]]
    BY <1>5 DEF Answers
  <2> QED BY <1>1, <1>2, <1>3, <1>5, <2>1 DEF Handle
<1>6. CASE handles[h].boot \notin {"ensure", "connect"}
  <2>1. handles' = handles
    BY <1>6 DEF Answers
  <2> QED BY <1>2, <1>3, <1>6, <2>1
<1> QED BY <1>4, <1>5, <1>6

(* An RPC that ends, with a reply that tells no jid but the registered     *)
(* client's, and tells it to a task that asked without one.                *)
LEMMA AnswerKeepsPairing ==
  ASSUME IInv, Parts, NEW h \in HandleIds, NEW reply \in Replies, Answers(h, reply),
         UNCHANGED <<current, remover, manifest, events, named, missed>>,
         OneToPair', JidsAgree',
         Paired => /\ Paired'
                   /\ clients'[registered'].jid = clients[registered].jid,
         Paired' => Paired \/ named \/ manifest = clients'[registered'].jid,
         reply.jid # NoJid => Paired' /\ reply.jid = clients'[registered'].jid,
         Paired' /\ handles[h].boot = "ensure" /\ handles[h].asked = NoJid /\ reply.ok
             => reply.jid # NoJid
  PROVE  Parts'
<1>1. /\ \A g \in HandleIds \ {h} : handles'[g] = handles[g] /\ rpcs'[g] = rpcs[g]
      /\ rpcs'[h] = NoRpc
      /\ handles'[h].asked = handles[h].asked
      /\ handles[h].boot = "ensure" => handles'[h].boot = "ensured"
      /\ handles[h].boot = "connect" => handles'[h].boot = "connected"
      /\ IF handles[h].boot \in {"ensure", "connect"} THEN handles'[h].reply = reply
         ELSE handles'[h] = handles[h]
  BY AnswersTells
<1>2. current # 0 => current \in HandleIds
  BY PairingTypes
<1>3. NewsIsTrue'
  <2>1. \A i \in DOMAIN events' : events'[i].kind = "pair_success" =>
             Paired' /\ events'[i].jid = clients'[registered'].jid
    BY DEF Parts, NewsIsTrue
  <2>2. ASSUME NEW g \in HandleIds, handles'[g].reply.jid # NoJid
        PROVE  Paired' /\ handles'[g].reply.jid = clients'[registered'].jid
    <3>1. CASE handles'[g] = handles[g]
      BY <2>2, <3>1 DEF Parts, NewsIsTrue
    <3>2. CASE handles'[g].reply = reply
      BY <2>2, <3>2
    <3> QED BY <1>1, <3>1, <3>2
  <2> QED BY <2>1, <2>2 DEF NewsIsTrue
<1>4. AsksAsTold'
  BY <1>1 DEF Parts, AsksAsTold, Asking
<1>5. EntryIsThere'
  BY <1>1, <1>2 DEF Parts, EntryIsThere
<1>6. KnownOrOnItsWay'
  <2> SUFFICES ASSUME Paired', current # 0, remover.pc # "forget",
                      manifest # clients'[registered'].jid,
                      ~(missed /\ manifest = NoJid), ~named
               PROVE  OnItsWay(handles[current])'
    BY DEF KnownOrOnItsWay
  <2>1. Paired /\ OnItsWay(handles[current])
    BY DEF Parts, KnownOrOnItsWay
  <2>2. CASE handles'[current] = handles[current]
    BY <2>1, <2>2 DEF OnItsWay
  <2>3. CASE \E i \in DOMAIN events : events[i].kind = "pair_success"
    BY <2>3 DEF OnItsWay
  <2>4. CASE current = h /\ handles[h].boot = "ensure" /\ handles[h].asked = NoJid
    BY <1>1, <2>4 DEF OnItsWay
  <2>5. CASE current = h /\ handles[h].boot = "connect"
    BY <2>1, <2>5 DEF OnItsWay
  <2> QED BY <1>1, <1>2, <2>1, <2>2, <2>3, <2>4, <2>5 DEF OnItsWay
<1> QED BY <1>3, <1>4, <1>5, <1>6 DEF Parts

(* The answer to a call that left the registry alone.                      *)
LEMMA AnswerAboutRegistered ==
  ASSUME IInv, Parts, NEW h \in HandleIds, NEW reply \in Replies, Answers(h, reply),
         UNCHANGED <<current, remover, manifest, events, registered, named, missed>>,
         \A c \in HandleIds : /\ clients'[c].jid = clients[c].jid
                              /\ ~clients'[c].held
                              /\ clients'[c].pump => c = registered,
         reply.jid # NoJid => Paired /\ reply.jid = clients[registered].jid,
         Paired /\ handles[h].boot = "ensure" /\ handles[h].asked = NoJid /\ reply.ok
             => reply.jid # NoJid
  PROVE  Parts'
<1>1. /\ \A g \in HandleIds \ {h} : rpcs'[g] = rpcs[g]
      /\ rpcs'[h] = NoRpc
  BY AnswersTells
<1>2. registered # 0 => registered \in HandleIds
  BY PairingTypes
<1>3. OneToPair'
  BY DEF Parts, OneToPair
<1>4. JidsAgree'
  BY <1>1, <1>2 DEF Parts, JidsAgree, Asking, NoRpc
<1>5. /\ Paired <=> Paired'
      /\ Paired => clients'[registered'].jid = clients[registered].jid
  BY <1>2 DEF Paired
<1> QED BY <1>3, <1>4, <1>5, AnswerKeepsPairing

(* What an account's reply says.                                           *)
LEMMA AccountTells ==
  ASSUME NEW c \in Client
  PROVE  Account(c) \in Replies /\ Account(c).ok /\ Account(c).jid = c.jid
BY DEF Account, Reports, Client, Replies, States

(* The goroutines of EnsureAccount and Connect.                            *)
LEMMA CallsKeepPairing ==
  ASSUME IInv, Parts, NEW h \in HandleIds,
         EnsureFinds(h) \/ EnsureLoads(h) \/ EnsureInstalls(h) \/ ConnectGets(h) \/ ConnectDials(h)
  PROVE  Parts'
<1>1. /\ handles \in [HandleIds -> Handle] /\ rpcs \in [HandleIds -> Rpcs]
      /\ clients \in [HandleIds -> Client]
      /\ registered # 0 => registered \in HandleIds
      /\ \A g \in HandleIds : rpcs[g].pc = "dial" => registered # 0 /\ rpcs[g].client = registered
  BY PairingTypes DEF Parts
<1>2. /\ NoReply \in Replies /\ NoReply.jid = NoJid /\ ~NoReply.ok
      /\ [NoReply EXCEPT !.ok = TRUE] \in Replies /\ [NoReply EXCEPT !.ok = TRUE].jid = NoJid
  BY DEF NoReply, Replies, States
<1>3. \A c \in HandleIds : ~clients[c].held /\ (clients[c].pump => c = registered)
  BY DEF Parts, OneToPair
<1>4. handles[h].boot = "ensure" => rpcs[h].pc \in {"ensure", "install"} /\ rpcs[h].jid = handles[h].asked
  BY DEF Parts, AsksAsTold, Asking
<1>5. ASSUME NEW reply \in Replies, Answers(h, reply),
             UNCHANGED <<current, remover, manifest, events, registered, clients, named, missed>>,
             reply.jid # NoJid => Paired /\ reply.jid = clients[registered].jid,
             Paired /\ handles[h].boot = "ensure" /\ handles[h].asked = NoJid /\ reply.ok
                => reply.jid # NoJid
      PROVE  Parts'
  BY <1>3, <1>5, AnswerAboutRegistered
<1>6. ASSUME Answers(h, NoReply),
             UNCHANGED <<current, remover, manifest, events, registered, clients, named, missed>>
      PROVE  Parts'
  BY <1>2, <1>5, <1>6
<1>7. ASSUME registered # 0, Answers(h, Account(clients[registered])),
             UNCHANGED <<current, remover, manifest, events, registered, clients, named, missed>>
      PROVE  Parts'
  <2>1. /\ Account(clients[registered]) \in Replies
        /\ Account(clients[registered]).jid = clients[registered].jid
    BY <1>1, <1>7, AccountTells
  <2> QED BY <1>5, <1>7, <2>1 DEF Paired
<1>8. CASE EnsureFinds(h)
  <2>1. /\ registered # 0
        /\ UNCHANGED <<current, remover, manifest, events, registered, clients, named, missed>>
    BY <1>8 DEF EnsureFinds, registryVars, history
  <2>2. CASE rpcs[h].jid \in Jids /\ clients[registered].jid = NoJid
             /\ Answers(h, [NoReply EXCEPT !.ok = TRUE])
    BY <1>2, <1>5, <2>1, <2>2 DEF Paired
  <2> QED BY <1>6, <1>7, <1>8, <2>1, <2>2 DEF EnsureFinds
<1>9. CASE EnsureLoads(h)
  <2>1. UNCHANGED <<current, remover, manifest, events, registered, clients, named, missed>>
    BY <1>9 DEF EnsureLoads, registryVars, history
  <2>2. CASE Answers(h, NoReply)
    BY <1>6, <2>1, <2>2
  <2>3. CASE rpcs' = [rpcs EXCEPT ![h].pc = "install"] /\ UNCHANGED handles
    <3>1. /\ \A g \in HandleIds : Asking(g)' <=> Asking(g)
          /\ \A g \in HandleIds : rpcs'[g].jid = rpcs[g].jid
      BY <1>1, <1>9, <2>3 DEF EnsureLoads, Asking, Rpcs
    <3> QED BY <2>1, <2>3, <3>1 DEF Parts, OneToPair, JidsAgree, NewsIsTrue, AsksAsTold, EntryIsThere,
                                    KnownOrOnItsWay, OnItsWay, Paired
  <2> QED BY <1>9, <2>2, <2>3 DEF EnsureLoads
<1>10. CASE EnsureInstalls(h)
  <2>1. UNCHANGED <<current, remover, manifest, events, named, missed>> /\ rpcs[h].pc = "install"
    BY <1>10 DEF EnsureInstalls, history
  <2>2. CASE registered # 0
    BY <1>7, <1>10, <2>1, <2>2 DEF EnsureInstalls
  <2>3. CASE registered = 0
    <3> DEFINE new == [NoClient EXCEPT !.jid = rpcs[h].jid]
    <3>1. /\ registered' = h
          /\ clients' = [clients EXCEPT ![h] = new]
          /\ Answers(h, Account(clients'[h]))
      BY <1>10, <2>3 DEF EnsureInstalls
    <3>2. /\ new \in Client
          /\ new.jid = rpcs[h].jid /\ ~new.held /\ ~new.pump
      BY <1>1 DEF NoClient, Client, Rpcs
    <3>3. /\ clients'[h] = new
          /\ \A c \in HandleIds \ {h} : clients'[c] = clients[c]
      BY <1>1, <3>1
    <3> HIDE DEF new
    <3>4. Account(new) \in Replies /\ Account(new).jid = new.jid
      BY <3>2, AccountTells
    <3>5. named \/ manifest = new.jid
      BY <2>1, <2>3, <3>2 DEF Parts, JidsAgree, Asking
    <3>6. OneToPair'
      BY <1>3, <2>1, <2>3, <3>1, <3>2, <3>3 DEF Parts, OneToPair, HandleIds
    <3>7. JidsAgree'
      BY <2>1, <3>1, <3>3, <3>5 DEF JidsAgree, HandleIds
    <3>8. ~Paired /\ (Paired' <=> new.jid # NoJid) /\ clients'[registered'].jid = new.jid
      BY <2>3, <3>1, <3>3 DEF Paired, HandleIds
    <3>9. Answers(h, Account(new))
      BY <3>1, <3>3
    <3> QED BY <2>1, <3>4, <3>5, <3>6, <3>7, <3>8, <3>9, AnswerKeepsPairing
  <2> QED BY <2>2, <2>3
<1>11. CASE ConnectGets(h)
  <2>1. /\ UNCHANGED <<current, remover, manifest, events, registered, clients, named, missed>>
        /\ rpcs[h].pc = "connect"
    BY <1>11 DEF ConnectGets, registryVars, history
  <2>2. CASE Answers(h, NoReply)
    BY <1>6, <2>1, <2>2
  <2>3. CASE registered # 0 /\ Answers(h, Reports("CONNECTED", clients[registered].jid))
    <3>1. /\ Reports("CONNECTED", clients[registered].jid) \in Replies
          /\ Reports("CONNECTED", clients[registered].jid).jid = clients[registered].jid
      BY <1>1, <2>3 DEF Reports, Replies, States, Client
    <3> QED BY <1>5, <2>1, <2>3, <3>1 DEF Paired
  <2>4. CASE rpcs' = [rpcs EXCEPT ![h].pc = "dial", ![h].client = registered] /\ UNCHANGED handles
    <3>1. \A g \in HandleIds : /\ Asking(g)' <=> Asking(g)
                               /\ Asking(g) => rpcs'[g].jid = rpcs[g].jid
      BY <1>1, <2>1, <2>4 DEF Asking, Rpcs
    <3> QED BY <2>1, <2>4, <3>1 DEF Parts, OneToPair, JidsAgree, NewsIsTrue, AsksAsTold, EntryIsThere,
                                    KnownOrOnItsWay, OnItsWay, Paired
  <2> QED BY <1>11, <2>2, <2>3, <2>4 DEF ConnectGets
<1>12. CASE ConnectDials(h)
  <2>1. /\ UNCHANGED <<current, remover, manifest, events, registered, named, missed>>
        /\ rpcs[h].pc = "dial"
    BY <1>12 DEF ConnectDials, history
  <2>2. CASE Answers(h, NoReply) /\ UNCHANGED clients
    BY <1>6, <2>1, <2>2
  <2>3. CASE ~(Answers(h, NoReply) /\ UNCHANGED clients)
    <3> DEFINE c == registered
    <3>1. c \in HandleIds /\ rpcs[h].client = c /\ c # 0
      BY <1>1, <2>1
    <3>2. /\ clients' = [clients EXCEPT ![c].ws = TRUE, ![c].pump = @ \/ clients[c].jid = NoJid]
          /\ Answers(h, Reports("CONNECTING", clients[c].jid))
      BY <1>12, <2>3, <3>1 DEF ConnectDials
    <3>3. \A d \in HandleIds : /\ clients'[d].jid = clients[d].jid
                               /\ ~clients'[d].held
                               /\ clients'[d].pump => d = registered
      BY <1>1, <1>3, <3>1, <3>2 DEF Client
    <3>4. /\ Reports("CONNECTING", clients[c].jid) \in Replies
          /\ Reports("CONNECTING", clients[c].jid).jid = clients[c].jid
      BY <1>1, <3>1 DEF Reports, Replies, States, Client
    <3> QED BY <1>4, <2>1, <3>1, <3>2, <3>3, <3>4, AnswerAboutRegistered DEF Paired
  <2> QED BY <2>2, <2>3
<1> QED BY <1>8, <1>9, <1>10, <1>11, <1>12

(* A task ends in a failure: its handle is dropped from the app.           *)
LEMMA FailureKeepsPairing ==
  ASSUME IInv, Parts, NEW h \in HandleIds, NEW handle,
         handle.boot = "failed", handle.reply = NoReply,
         handles' = [handles EXCEPT ![h] = handle], current' = 0,
         \A g \in HandleIds : /\ Asking(g)' <=> Asking(g)
                              /\ Asking(g) => rpcs'[g].jid = rpcs[g].jid,
         UNCHANGED <<manifest, registered, clients, events, remover, named, missed>>
  PROVE  Parts'
<1>1. /\ handles'[h] = handle
      /\ \A g \in HandleIds \ {h} : handles'[g] = handles[g]
  BY PairingTypes
<1>2. OneToPair' /\ JidsAgree'
  BY DEF Parts, OneToPair, JidsAgree
<1>3. NewsIsTrue'
  <2>1. NoReply.jid = NoJid
    BY DEF NoReply
  <2> QED BY <1>1, <2>1 DEF Parts, NewsIsTrue, Paired
<1>4. AsksAsTold'
  BY <1>1 DEF Parts, AsksAsTold
<1>5. EntryIsThere' /\ KnownOrOnItsWay'
  BY DEF EntryIsThere, KnownOrOnItsWay
<1> QED BY <1>2, <1>3, <1>4, <1>5 DEF Parts

(* A task that fails has no reply left.                                    *)
LEMMA EndedHandle ==
  ASSUME NEW handle \in Handle, NEW boot
  PROVE  /\ Ended(handle, boot).boot = boot
         /\ Ended(handle, boot).reply = NoReply
         /\ Ended(Fail(handle), boot).boot = boot
         /\ Ended(Fail(handle), boot).reply = NoReply
BY DEF Ended, Fail, Handle

(* A reply reaches its task: the manifest learns the registered client's   *)
(* jid if the task did not know it, and refuses none.                      *)
LEMMA ResumingKeepsPairing ==
  ASSUME IInv, Parts, NEW h \in HandleIds, handles[h].boot \in {"ensured", "connected"},
         NEW next \in {"connect", "done"}, BootResumes(h, handles[h].asked, next),
         \A g \in HandleIds : /\ Asking(g)' <=> Asking(g)
                              /\ Asking(g) => rpcs'[g].jid = rpcs[g].jid,
         UNCHANGED <<registered, clients, events, remover, named, missed>>
  PROVE  Parts'
<1> DEFINE reply == handles[h].reply
           prior == handles[h].asked
           told == ApplyState(handles[h], reply.state)
           later == IF next = "done" THEN Ended(told, "done")
                    ELSE [told EXCEPT !.boot = next, !.asked = reply.jid, !.reply = NoReply]
           update == reply.jid # NoJid /\ reply.jid # prior
<1>1. /\ handles \in [HandleIds -> Handle] /\ handles[h] \in Handle /\ Sound(handles[h])
      /\ reply.state \in States /\ reply.jid \in Jids \cup {NoJid}
      /\ current # 0 => current \in HandleIds
      /\ manifest \in Jids \cup {NoJid, Absent}
  BY PairingTypes, HandlesOfIInv DEF HandlesAreSound, Handle, Replies
<1>2. told \in Handle
  BY <1>1, ApplyStateIsSound DEF Sound
<1>3. CASE ~reply.ok /\ BootFails(h)
  <2> DEFINE ended == Ended(Fail(handles[h]), "failed")
  <2>1. ended.boot = "failed" /\ ended.reply = NoReply
    BY <1>1, EndedHandle
  <2>2. handles' = [handles EXCEPT ![h] = ended] /\ current' = 0 /\ UNCHANGED manifest
    BY <1>3 DEF BootFails
  <2> HIDE DEF ended
  <2> QED BY <2>1, <2>2, FailureKeepsPairing
<1>4. CASE /\ handles' = [handles EXCEPT ![h] = Ended(Fail(told), "failed")]
           /\ current' = 0 /\ UNCHANGED manifest
  <2> DEFINE ended == Ended(Fail(told), "failed")
  <2>1. ended.boot = "failed" /\ ended.reply = NoReply
    BY <1>2, EndedHandle
  <2>2. handles' = [handles EXCEPT ![h] = ended]
    BY <1>4
  <2> HIDE DEF ended
  <2> QED BY <1>4, <2>1, <2>2, FailureKeepsPairing
<1>5. CASE /\ reply.ok /\ ~(update /\ UpdateJidRaises(reply.jid))
           /\ handles' = [handles EXCEPT ![h] = later]
           /\ manifest' = IF update THEN reply.jid ELSE manifest
           /\ UNCHANGED current
  <2>1. later.boot = next /\ later.reply = NoReply
    <3> HIDE DEF told
    <3> QED BY <1>2, EndedHandle DEF Handle
  <2>2. /\ handles'[h].boot = next /\ handles'[h].reply = NoReply
        /\ \A g \in HandleIds \ {h} : handles'[g] = handles[g]
    <3> HIDE DEF later
    <3> QED BY <1>1, <1>5, <2>1
  <2>3. reply.jid # NoJid => Paired /\ reply.jid = clients[registered].jid
    BY DEF Parts, NewsIsTrue
  <2>4. \/ manifest' = manifest
        \/ Paired /\ manifest' = clients[registered].jid
    BY <1>5, <2>3
  <2>5. UNCHANGED current /\ (update => manifest' = reply.jid)
    BY <1>5
  <2> HIDE DEF later, told
  <2>6. OneToPair'
    BY DEF Parts, OneToPair
  <2>7. JidsAgree'
    BY <2>4 DEF Parts, JidsAgree, Paired
  <2>8. NewsIsTrue'
    <3>1. NoReply.jid = NoJid
      BY DEF NoReply
    <3> QED BY <2>2, <3>1 DEF Parts, NewsIsTrue, Paired
  <2>9. AsksAsTold'
    BY <2>2 DEF Parts, AsksAsTold
  <2>10. EntryIsThere'
    <3> SUFFICES ASSUME manifest' = Absent, current # 0, remover.pc # "forget"
                 PROVE  handles'[current].boot = "register"
      BY <2>5 DEF EntryIsThere
    <3>1. manifest = Absent
      BY <1>5, <1>1, JidAssumption
    <3>2. handles[current].boot = "register"
      BY <3>1 DEF Parts, EntryIsThere
    <3> QED BY <1>1, <2>2, <3>2
  <2>11. KnownOrOnItsWay'
    <3> SUFFICES ASSUME Paired, current # 0, remover.pc # "forget",
                        manifest' # clients[registered].jid,
                        ~(missed /\ manifest' = NoJid), ~named
                 PROVE  OnItsWay(handles[current])'
      BY <2>5 DEF KnownOrOnItsWay, Paired
    <3>1. manifest' = manifest /\ ~update
      BY <2>3, <2>4, <2>5
    <3>2. OnItsWay(handles[current])
      BY <3>1 DEF Parts, KnownOrOnItsWay
    <3>3. CASE current # h
      BY <1>1, <2>2, <2>5, <3>2, <3>3 DEF OnItsWay
    <3>4. CASE current = h
      <4>1. reply.ok
        BY <1>5
      <4>2. ~(prior = NoJid /\ reply.jid # NoJid)
        BY <3>1
      <4>3. \E i \in DOMAIN events : events[i].kind = "pair_success"
        BY <3>2, <3>4, <4>1, <4>2 DEF OnItsWay
      <4> QED BY <4>3 DEF OnItsWay
    <3> QED BY <3>3, <3>4
  <2> QED BY <2>6, <2>7, <2>8, <2>9, <2>10, <2>11 DEF Parts
<1> QED BY <1>3, <1>4, <1>5 DEF BootResumes

(* The steps of a task and of its RPCs.                                    *)
LEMMA BootKeepsPairing ==
  ASSUME IInv, NamedIsJid, Parts, NEW h \in HandleIds, BootStep(h), ~unlinked'
  PROVE  Parts'
<1>1. /\ handles \in [HandleIds -> Handle] /\ rpcs \in [HandleIds -> Rpcs]
      /\ registered # 0 => registered \in HandleIds
      /\ current # 0 => current \in HandleIds
      /\ manifest \in Jids \cup {NoJid, Absent}
  BY PairingTypes
<1>2. ASSUME BootFails(h),
             UNCHANGED <<registered, clients, events, remover, rpcs, named, missed>>
      PROVE  Parts'
  <2> DEFINE ended == Ended(Fail(handles[h]), "failed")
  <2>1. ended.boot = "failed" /\ ended.reply = NoReply
    BY <1>1, EndedHandle
  <2>2. /\ handles' = [handles EXCEPT ![h] = ended] /\ current' = 0
        /\ UNCHANGED manifest
    BY <1>2 DEF BootFails
  <2>3. \A g \in HandleIds : (Asking(g)' <=> Asking(g)) /\ rpcs'[g].jid = rpcs[g].jid
    BY <1>2 DEF Asking
  <2> HIDE DEF ended
  <2> QED BY <1>2, <2>1, <2>2, <2>3, FailureKeepsPairing
<1>3. ASSUME BootRegister(h), NEW jid \in Jids \cup {NoJid},
             handles' = [handles EXCEPT ![h].boot = "ensure", ![h].asked = jid],
             rpcs' = [rpcs EXCEPT ![h] = [NoRpc EXCEPT !.pc = "ensure", !.jid = jid]],
             manifest \in Jids => jid \in {manifest, NoJid},
             manifest' = IF manifest \in Jids THEN manifest ELSE jid,
             Notes(unlinked \/ (manifest \in Jids /\ jid = NoJid),
                   IF manifest \in Jids THEN named ELSE jid # NoJid, missed),
             current' = current
      PROVE  Parts'
  <2>1. /\ manifest' = jid /\ jid # Absent
        /\ manifest \in Jids => manifest = jid /\ (named' <=> named)
        /\ manifest \notin Jids => (named' <=> jid # NoJid)
        /\ missed' <=> missed
    BY <1>1, <1>3, JidAssumption DEF Notes
  <2>2. /\ UNCHANGED <<current, remover, registered, clients, events>>
        /\ handles[h].boot = "register"
    BY <1>3 DEF BootRegister, registryVars
  <2>3. /\ manifest' = jid
        /\ ~named' => /\ ~named
                      /\ manifest = jid \/ (manifest = Absent /\ jid = NoJid)
    BY <1>1, <2>1, JidAssumption DEF NamedIsJid
  <2> DEFINE next == [handles[h] EXCEPT !.boot = "ensure", !.asked = jid]
             rpc == [NoRpc EXCEPT !.pc = "ensure", !.jid = jid]
  <2>4. next.boot = "ensure" /\ next.asked = jid /\ next.reply = handles[h].reply
    BY <1>1 DEF Handle
  <2>5. rpc.pc = "ensure" /\ rpc.jid = jid
    BY DEF NoRpc
  <2>6. handles' = [handles EXCEPT ![h] = next] /\ rpcs' = [rpcs EXCEPT ![h] = rpc]
    BY <1>3
  <2> HIDE DEF next, rpc
  <2>7. /\ handles'[h] = next /\ \A g \in HandleIds \ {h} : handles'[g] = handles[g]
        /\ rpcs'[h] = rpc /\ \A g \in HandleIds \ {h} : rpcs'[g] = rpcs[g]
    BY <1>1, <2>6
  <2>8. OneToPair'
    BY <2>2 DEF Parts, OneToPair
  <2>9. JidsAgree'
    <3>1. CASE registered = 0 /\ ~named'
      <4>1. ASSUME NEW g \in HandleIds \ {h}, Asking(g) PROVE rpcs[g].jid = jid
        <5>1. rpcs[g].jid = manifest /\ rpcs[g].jid \in Jids \cup {NoJid}
          BY <1>1, <2>3, <3>1, <4>1 DEF Parts, JidsAgree, Rpcs
        <5> QED BY <2>3, <3>1, <5>1, JidAssumption
      <4>2. ASSUME NEW g \in HandleIds, Asking(g)' PROVE rpcs'[g].jid = jid
        BY <2>5, <2>7, <4>1, <4>2 DEF Asking
      <4> QED BY <2>2, <2>3, <3>1, <4>2 DEF JidsAgree
    <3>2. CASE registered # 0 /\ ~named'
      BY <2>2, <2>3, <3>2 DEF Parts, JidsAgree
    <3>3. CASE named'
      BY <3>3 DEF JidsAgree
    <3> QED BY <3>1, <3>2, <3>3
  <2>10. NewsIsTrue'
    BY <2>2, <2>4, <2>7 DEF Parts, NewsIsTrue, Paired
  <2>11. AsksAsTold'
    BY <2>4, <2>5, <2>7 DEF Parts, AsksAsTold, Asking
  <2>12. EntryIsThere'
    BY <2>1 DEF EntryIsThere
  <2>13. KnownOrOnItsWay'
    <3> SUFFICES ASSUME Paired, current # 0, remover.pc # "forget",
                        manifest' # clients[registered].jid,
                        ~(missed' /\ manifest' = NoJid), ~named'
                 PROVE  OnItsWay(handles[current])'
      BY <2>2 DEF KnownOrOnItsWay, Paired
    <3>1. CASE current = h
      <4>1. jid = NoJid
        BY <2>1, <2>2, <2>3, <2>9 DEF JidsAgree, Paired
      <4> QED BY <2>2, <2>4, <2>7, <3>1, <4>1 DEF OnItsWay
    <3>2. CASE current # h
      <4>1. manifest # clients[registered].jid
        <5>1. clients[registered].jid \in Jids
          BY <1>1, PairingTypes DEF Paired, Client
        <5> QED BY <2>3, <5>1, JidAssumption
      <4>2. ~named /\ ~(missed /\ manifest = NoJid)
        BY <2>1, <2>3, JidAssumption
      <4>3. OnItsWay(handles[current])
        BY <4>1, <4>2 DEF Parts, KnownOrOnItsWay
      <4> QED BY <1>1, <2>2, <2>7, <3>2, <4>3 DEF OnItsWay
    <3> QED BY <3>1, <3>2
  <2> QED BY <2>8, <2>9, <2>10, <2>11, <2>12, <2>13 DEF Parts
<1>4. CASE BootRegister(h)
  <2>1. EffectiveJids \subseteq Jids \cup {NoJid}
    BY <1>1 DEF EffectiveJids
  <2> QED BY <1>2, <1>3, <1>4, <2>1 DEF BootRegister, registryVars, history
<1>5. CASE EnsureReplies(h)
  <2>1. /\ handles[h].boot = "ensured" /\ BootResumes(h, handles[h].asked, "connect")
        /\ UNCHANGED <<registered, clients, events, remover, named, missed>>
        /\ \/ rpcs' = rpcs
           \/ rpcs' = [rpcs EXCEPT ![h] = [NoRpc EXCEPT !.pc = "connect"]]
    BY <1>5 DEF EnsureReplies, registryVars, history
  <2>2. rpcs[h].pc = "none"
    BY <2>1 DEF IInv, TasksMatch
  <2>3. \A g \in HandleIds : /\ Asking(g)' <=> Asking(g)
                             /\ Asking(g) => rpcs'[g].jid = rpcs[g].jid
    BY <1>1, <2>1, <2>2 DEF Asking, NoRpc
  <2> QED BY <2>1, <2>3, ResumingKeepsPairing
<1>6. CASE ConnectReplies(h)
  <2>1. /\ handles[h].boot = "connected" /\ BootResumes(h, handles[h].asked, "done")
        /\ UNCHANGED <<registered, clients, events, remover, rpcs, named, missed>>
    BY <1>6 DEF ConnectReplies, sidecarVars, registryVars, history
  <2>2. \A g \in HandleIds : (Asking(g)' <=> Asking(g)) /\ rpcs'[g].jid = rpcs[g].jid
    BY <2>1 DEF Asking
  <2> QED BY <2>1, <2>2, ResumingKeepsPairing
<1>7. CASE BootRpcFails(h)
  BY <1>2, <1>7 DEF BootRpcFails, sidecarVars, registryVars, history
<1> QED BY <1>4, <1>5, <1>6, <1>7, CallsKeepPairing DEF BootStep

(* The event hook: the manifest learns the jid of a pairing, unless its    *)
(* entry is still to come, from the task of the handle.                    *)
LEMMA NotifyKeepsPairing ==
  ASSUME IInv, Parts, Notify
  PROVE  Parts'
<1>1. /\ handles \in [HandleIds -> Handle] /\ events \in Seq(Event) /\ events # <<>>
      /\ current # 0 => current \in HandleIds
      /\ UNCHANGED <<current, remover, rpcs, registered, clients, named, missed>>
      /\ events' = Tail(events)
  BY PairingTypes DEF Notify, sidecarVars, registryVars, history
<1> DEFINE e == Head(events)
<1>2. e \in Event /\ 1 \in DOMAIN events /\ e = events[1]
  BY <1>1
<1>3. \A i \in DOMAIN events' : i + 1 \in DOMAIN events /\ events'[i] = events[i + 1]
  BY <1>1
<1>4. \A i \in DOMAIN events : i = 1 \/ (i - 1 \in DOMAIN events' /\ events'[i - 1] = events[i])
  BY <1>1
<1>5. /\ current = 0 => handles' = handles /\ manifest' = manifest
      /\ current # 0 => /\ handles' = [handles EXCEPT ![current] = OnEvent(handles[current], e)]
                        /\ manifest' = IF e.kind = "pair_success" /\ ~UpdateJidRaises(e.jid)
                                       THEN e.jid ELSE manifest
  BY DEF Notify
<1>6. e.kind = "pair_success" => Paired /\ e.jid = clients[registered].jid
  BY <1>2 DEF Parts, NewsIsTrue
<1>7. manifest' = manifest \/ (Paired /\ manifest' = clients[registered].jid)
  BY <1>5, <1>6
<1>8. \A g \in HandleIds : /\ handles'[g].boot = handles[g].boot
                           /\ handles'[g].asked = handles[g].asked
                           /\ handles'[g].reply = handles[g].reply
  <2>1. CASE current = 0
    BY <1>5, <2>1
  <2>2. CASE current # 0
    <3> DEFINE told == OnEvent(handles[current], e)
    <3>1. /\ told.boot = handles[current].boot /\ told.asked = handles[current].asked
          /\ told.reply = handles[current].reply
      BY <1>1, <1>2, <2>2, OnEventKeepsTask
    <3>2. handles' = [handles EXCEPT ![current] = told]
      BY <1>5, <2>2
    <3> HIDE DEF told
    <3> QED BY <1>1, <2>2, <3>1, <3>2
  <2> QED BY <2>1, <2>2
<1>9. OneToPair'
  BY <1>1 DEF Parts, OneToPair
<1>10. JidsAgree'
  BY <1>1, <1>7 DEF Parts, JidsAgree, Asking, Paired
<1>11. NewsIsTrue'
  BY <1>1, <1>3, <1>8 DEF Parts, NewsIsTrue, Paired
<1>12. AsksAsTold'
  BY <1>1, <1>8 DEF Parts, AsksAsTold, Asking
<1>13. EntryIsThere'
  <2>1. ~Paired \/ clients[registered].jid # Absent
    BY PairingTypes, JidAssumption DEF Paired, Client
  <2>2. manifest' = Absent => manifest = Absent
    BY <1>7, <2>1
  <2> QED BY <1>1, <1>8, <2>2 DEF Parts, EntryIsThere
<1>14. KnownOrOnItsWay'
  <2> SUFFICES ASSUME Paired, current # 0, remover.pc # "forget",
                      manifest' # clients[registered].jid,
                      ~(missed /\ manifest' = NoJid), ~named
               PROVE  OnItsWay(handles[current])'
    BY <1>1 DEF KnownOrOnItsWay, Paired
  <2>1. manifest' = manifest
    BY <1>7
  <2>2. OnItsWay(handles[current])
    BY <2>1 DEF Parts, KnownOrOnItsWay
  <2>3. CASE e.kind = "pair_success"
    <3>1. UpdateJidRaises(clients[registered].jid)
      BY <1>5, <1>6, <2>3
    <3>2. manifest = Absent
      BY <2>1, <3>1 DEF UpdateJidRaises, Parts, JidsAgree, Paired
    <3>3. handles[current].boot = "register"
      BY <3>2 DEF Parts, EntryIsThere
    <3> QED BY <1>1, <1>8, <3>3 DEF OnItsWay
  <2>4. ASSUME NEW i \in DOMAIN events, events[i].kind = "pair_success", e.kind # "pair_success"
        PROVE  \E j \in DOMAIN events' : events'[j].kind = "pair_success"
    BY <1>2, <1>4, <2>4
  <2> QED BY <1>1, <1>8, <2>2, <2>3, <2>4 DEF OnItsWay
<1> QED BY <1>9, <1>10, <1>11, <1>12, <1>13, <1>14 DEF Parts

(* The phone scans a code: it can only be the registered client's, so      *)
(* nothing has named a jid before.                                         *)
LEMMA PairKeepsPairing ==
  ASSUME IInv, NamedIsJid, Parts, NEW c \in HandleIds, NEW jid \in Jids, Pair(c, jid), ~unlinked'
  PROVE  Parts'
<1> DEFINE e == [kind |-> "pair_success", jid |-> jid]
<1>1. /\ clients \in [HandleIds -> Client] /\ events \in Seq(Event)
      /\ UNCHANGED <<current, handles, remover, manifest, rpcs, registered>>
      /\ clients[c].pump /\ clients[c].jid = NoJid
      /\ clients' = [clients EXCEPT ![c] = [clients[c] EXCEPT !.jid = jid, !.pump = FALSE]]
      /\ named' <=> named
      /\ events' = Append(events, e) \/ (events' = events /\ missed')
      /\ manifest \in Jids \cup {NoJid, Absent}
  BY PairingTypes DEF Pair, Emit, Notes, appVars
<1>2. registered = c /\ registered # 0 /\ ~Paired
  BY <1>1 DEF Parts, OneToPair, HandleIds, Paired
<1>3. /\ clients'[c].jid = jid /\ ~clients'[c].pump
      /\ clients'[c].held = clients[c].held
      /\ \A d \in HandleIds \ {c} : clients'[d] = clients[d]
  BY <1>1 DEF Client
<1>4. /\ e.kind = "pair_success" /\ e.jid = jid
      /\ events' # events => /\ Len(events) + 1 \in DOMAIN events'
                              /\ events'[Len(events) + 1] = e
      /\ \A i \in DOMAIN events' : events'[i] = e \/ (i \in DOMAIN events /\ events'[i] = events[i])
  BY <1>1
<1>5. Paired' /\ clients'[registered'].jid = jid
  BY <1>1, <1>2, <1>3, JidAssumption DEF Paired
<1>6. OneToPair'
  BY <1>1, <1>2, <1>3 DEF Parts, OneToPair
<1>7. JidsAgree' /\ AsksAsTold' /\ EntryIsThere'
  BY <1>1, <1>2, <1>5 DEF Parts, JidsAgree, AsksAsTold, Asking, EntryIsThere
<1>8. NewsIsTrue'
  <2>1. /\ \A i \in DOMAIN events : events[i].kind # "pair_success"
        /\ \A h \in HandleIds : handles[h].reply.jid = NoJid
    BY <1>2 DEF Parts, NewsIsTrue
  <2> HIDE DEF e
  <2> QED BY <1>1, <1>4, <1>5, <2>1 DEF NewsIsTrue
<1>9. KnownOrOnItsWay'
  <2> HIDE DEF e
  <2>1. CASE events' # events
    BY <1>4, <2>1 DEF KnownOrOnItsWay, OnItsWay
  <2>2. CASE events' = events /\ missed'
    <3> SUFFICES ASSUME current # 0, remover.pc # "forget", ~named, manifest # NoJid
                 PROVE  OnItsWay(handles[current])'
      BY <1>1, <2>2 DEF KnownOrOnItsWay
    <3>1. manifest = Absent
      BY <1>1, <1>2 DEF Parts, JidsAgree
    <3> QED BY <1>1, <3>1 DEF Parts, EntryIsThere, OnItsWay
  <2> QED BY <1>1, <2>1, <2>2
<1> QED BY <1>6, <1>7, <1>8, <1>9 DEF Parts

(* The other steps of the app, the removals and the phone, but for those   *)
(* that unlink a device.                                                   *)
LEMMA OthersKeepPairing ==
  ASSUME IInv, NamedIsJid, Parts, ~unlinked',
         AddAccount \/ RemoveStep \/ (\E c \in HandleIds : ClientStep(c)) \/ Notify \/ UNCHANGED vars
  PROVE  Parts'
<1>1. /\ handles \in [HandleIds -> Handle] /\ clients \in [HandleIds -> Client]
      /\ registered # 0 => registered \in HandleIds
      /\ current # 0 => current \in HandleIds
      /\ remover.pc \in {"unhook", "manifest", "forget"} => registered # 0
  BY PairingTypes DEF Parts, OneToPair
<1>2. CASE AddAccount
  <2> DEFINE h == added + 1
             new == [NewHandle EXCEPT !.boot = "register"]
  <2>1. /\ h \in HandleIds /\ current' = h
        /\ handles' = [handles EXCEPT ![h] = new]
        /\ UNCHANGED <<remover, manifest, rpcs, registered, clients, events, named>>
    <3>1. added \in 0..MaxHandles /\ MaxHandles \in Nat
      BY BoundsAssumption DEF IInv, TypeOK
    <3> QED BY <1>2, <3>1 DEF AddAccount, HandleIds, sidecarVars, registryVars, history
  <2>2. new.boot = "register" /\ new.reply.jid = NoJid
    BY DEF NewHandle, NoReply
  <2> HIDE DEF new, h
  <2>3. /\ handles'[h] = new /\ handles'[current'] = new
        /\ \A g \in HandleIds \ {h} : handles'[g] = handles[g]
    BY <1>1, <2>1
  <2>4. OneToPair' /\ JidsAgree'
    BY <2>1 DEF Parts, OneToPair, JidsAgree, Asking
  <2>5. NewsIsTrue'
    BY <2>1, <2>2, <2>3 DEF Parts, NewsIsTrue, Paired
  <2>6. AsksAsTold'
    BY <2>1, <2>2, <2>3 DEF Parts, AsksAsTold, Asking
  <2>7. EntryIsThere' /\ KnownOrOnItsWay'
    BY <2>2, <2>3 DEF EntryIsThere, KnownOrOnItsWay, OnItsWay
  <2> QED BY <2>4, <2>5, <2>6, <2>7 DEF Parts
<1>3. ASSUME NEW how \in Removals, RemoveAccount(how) PROVE Parts'
  <2>1. UNCHANGED <<current, handles, manifest, rpcs, registered, clients, events, named, missed>>
    BY <1>3 DEF RemoveAccount, sidecarVars, registryVars, history
  <2>2. remover.pc = "idle" /\ remover'.pc = "rpc"
    BY <1>3 DEF RemoveAccount, NoRemover
  <2> QED BY <2>1, <2>2, UnmovedKeepsPairing
<1>4. CASE RemoveLooks
  <2>1. /\ UNCHANGED <<current, handles, manifest, rpcs, registered, clients, events, named, missed>>
        /\ remover.pc = "rpc"
        /\ registered = 0 => remover'.pc = "idle"
    BY <1>4 DEF RemoveLooks, NoRemover, Notes, history
  <2> QED BY <2>1, UnmovedKeepsPairing
<1>5. CASE RemoveUnhooks
  <2>1. /\ UNCHANGED <<current, handles, manifest, rpcs, registered, events, named, missed>>
        /\ remover.pc = "unhook"
        /\ clients' = [clients EXCEPT ![remover.client].ws = FALSE]
    BY <1>5 DEF RemoveUnhooks, history
  <2>2. \A c \in HandleIds : /\ clients'[c].jid = clients[c].jid
                             /\ clients'[c].held = clients[c].held
                             /\ clients'[c].pump = clients[c].pump
    BY <1>1, <2>1 DEF Client
  <2> QED BY <1>1, <2>1, <2>2, UnmovedKeepsPairing
<1>6. CASE RemoveFromManifest
  <2>1. /\ UNCHANGED <<current, handles, rpcs, registered, clients, events>>
        /\ manifest' = Absent /\ remover'.pc = "forget" /\ registered # 0
    <3>1. remover \in [pc : {"idle", "rpc", "unhook", "manifest", "forget"},
                       how : {"logout", "disconnect"}, client : 0..MaxHandles]
      BY DEF IInv, TypeOK
    <3> QED BY <1>1, <1>6, <3>1 DEF RemoveFromManifest, sidecarVars, registryVars
  <2>2. OneToPair' /\ JidsAgree' /\ NewsIsTrue' /\ AsksAsTold'
    BY <2>1 DEF Parts, OneToPair, JidsAgree, NewsIsTrue, AsksAsTold, Asking, Paired
  <2>3. EntryIsThere' /\ KnownOrOnItsWay'
    BY <2>1 DEF EntryIsThere, KnownOrOnItsWay
  <2> QED BY <2>2, <2>3 DEF Parts
<1>7. CASE RemoveHandle
  <2>1. /\ UNCHANGED <<handles, manifest, rpcs, registered, clients, events, named>>
        /\ current' = 0 /\ remover'.pc = "idle"
    BY <1>7 DEF RemoveHandle, NoRemover, sidecarVars, registryVars, history
  <2>2. OneToPair' /\ JidsAgree' /\ NewsIsTrue' /\ AsksAsTold'
    BY <2>1 DEF Parts, OneToPair, JidsAgree, NewsIsTrue, AsksAsTold, Asking, Paired
  <2>3. EntryIsThere' /\ KnownOrOnItsWay'
    BY <2>1 DEF EntryIsThere, KnownOrOnItsWay
  <2> QED BY <2>2, <2>3 DEF Parts
<1>8. ASSUME NEW c \in HandleIds, ClientStep(c) PROVE Parts'
  <2>1. ASSUME NEW kind \in Kinds \ {"pair_success"}, Emit(kind, NoJid)
        PROVE  /\ named' = named /\ (missed => missed')
               /\ \/ events' = events
                  \/ \E e \in Event : e.kind # "pair_success" /\ events' = Append(events, e)
    <3>1. /\ [kind |-> kind, jid |-> NoJid] \in Event
          /\ [kind |-> kind, jid |-> NoJid].kind # "pair_success"
      BY DEF Event
    <3>2. named \in BOOLEAN
      BY DEF IInv, TypeOK
    <3> QED BY <2>1, <3>1, <3>2 DEF Emit, Notes
  <2>2. CASE QrCode(c) \/ LogsIn(c) \/ Drops(c)
    <3>1. UNCHANGED <<current, handles, remover, manifest, rpcs, registered, clients>>
      BY <2>2 DEF QrCode, LogsIn, Drops, appVars, sidecarVars, registryVars
    <3>2. \E kind \in Kinds \ {"pair_success"} : Emit(kind, NoJid)
      BY <2>2 DEF QrCode, LogsIn, Drops, Kinds
    <3> QED BY <1>1, <2>1, <3>1, <3>2, UnmovedKeepsPairing
  <2>3. CASE QrTimeout(c)
    <3>1. /\ UNCHANGED <<current, handles, remover, manifest, rpcs, registered>>
          /\ clients' = [clients EXCEPT ![c] = [clients[c] EXCEPT !.pump = FALSE, !.ws = FALSE]]
          /\ Emit("disconnected", NoJid)
      BY <2>3 DEF QrTimeout, appVars
    <3>2. \A d \in HandleIds : /\ clients'[d].jid = clients[d].jid
                               /\ clients'[d].held = clients[d].held
                               /\ clients'[d].pump => clients[d].pump
      BY <1>1, <3>1 DEF Client
    <3>3. "disconnected" \in Kinds \ {"pair_success"}
      BY DEF Kinds
    <3> QED BY <1>1, <2>1, <3>1, <3>2, <3>3, UnmovedKeepsPairing
  <2>4. ~RemoteLogout(c)
    BY DEF RemoteLogout, Emit, Notes
  <2> QED BY <1>8, <2>2, <2>3, <2>4, PairKeepsPairing DEF ClientStep
<1>9. CASE UNCHANGED vars
  BY <1>1, <1>9, UnmovedKeepsPairing DEF vars, appVars, sidecarVars, registryVars, history
<1> QED BY <1>2, <1>3, <1>4, <1>5, <1>6, <1>7, <1>8, <1>9, NotifyKeepsPairing DEF RemoveStep

(* A new run of the app, or the first: nothing is registered.              *)
NothingToPair ==
    /\ current = 0 /\ registered = 0 /\ events = <<>> /\ remover = NoRemover
    /\ clients = [c \in HandleIds |-> NoClient]
    /\ rpcs = [h \in HandleIds |-> NoRpc]
    /\ handles = [h \in HandleIds |-> NewHandle]

(* Nothing can be forgotten then.                                          *)
LEMMA NewRunHasParts == NothingToPair => Parts
<1> SUFFICES ASSUME NothingToPair PROVE Parts
  OBVIOUS
<1>1. /\ \A c \in HandleIds : ~clients[c].held /\ ~clients[c].pump
      /\ \A h \in HandleIds : /\ ~Asking(h) /\ handles[h].boot = "none"
                              /\ handles[h].reply.jid = NoJid
      /\ remover.pc = "idle"
  BY DEF NothingToPair, NoClient, NoRpc, Asking, NewHandle, NoReply, NoRemover
<1>2. current = 0 /\ registered = 0 /\ events = <<>>
  BY DEF NothingToPair
<1> QED BY <1>1, <1>2 DEF Parts, OneToPair, JidsAgree, NewsIsTrue, AsksAsTold, EntryIsThere,
                          KnownOrOnItsWay

(* PairingInv holds at first.                                              *)
LEMMA PairingInvInit == Init => PairingInv
<1>1. Init => NothingToPair
  BY DEF Init, NothingToPair
<1>2. Init => NamedIsJid
  BY DEF Init, NamedIsJid
<1> QED BY <1>1, <1>2, NewRunHasParts DEF PairingInv, Parts

(* A run of the app without an unlinked device is a new one or goes on.    *)
LEMMA SameRun ==
  ASSUME [Next]_vars, running', ~unlinked', ~Restart
  PROVE  running /\ ~unlinked
<1>1. ~Stop
  BY DEF Stop
<1>2. running
  <2>1. ASSUME NEW h \in HandleIds, BootStep(h) PROVE running
    BY <2>1 DEF BootStep, BootRegister, EnsureFinds, EnsureLoads, EnsureInstalls, EnsureReplies,
                ConnectGets, ConnectDials, ConnectReplies, BootRpcFails
  <2>2. RemoveStep => running
    BY DEF RemoveStep, RemoveAccount, RemoveLooks, RemoveUnhooks, RemoveFromManifest, RemoveHandle
  <2>3. (AddAccount \/ Notify \/ \E c \in HandleIds : ClientStep(c)) => running
    BY DEF AddAccount, Notify, ClientStep
  <2>4. UNCHANGED vars => running
    BY DEF vars, appVars
  <2> QED BY <1>1, <2>1, <2>2, <2>3, <2>4 DEF Next
<1>3. ~unlinked
  <2>1. ASSUME NEW h \in HandleIds, BootStep(h), ~BootRegister(h) PROVE unlinked' = unlinked
    BY <2>1 DEF BootStep, EnsureFinds, EnsureLoads, EnsureInstalls, EnsureReplies, ConnectGets,
                ConnectDials, ConnectReplies, BootRpcFails, history
  <2>2. ASSUME RemoveStep, ~RemoveLooks PROVE unlinked' = unlinked
    BY <2>2 DEF RemoveStep, RemoveAccount, RemoveUnhooks, RemoveFromManifest, RemoveHandle, history
  <2>3. RemoveLooks => unlinked' = unlinked \/ unlinked'
    BY DEF RemoveLooks, Notes, history
  <2>4. ASSUME NEW c \in HandleIds, ClientStep(c) PROVE ~unlinked
    BY <2>4 DEF ClientStep, QrCode, QrTimeout, Pair, LogsIn, Drops, RemoteLogout, Emit, Notes
  <2>5. AddAccount \/ Notify \/ UNCHANGED vars => unlinked' = unlinked
    BY DEF AddAccount, Notify, vars, history
  <2>6. ASSUME NEW h \in HandleIds, BootRegister(h) PROVE ~unlinked
    BY <2>6 DEF BootRegister, Notes, history
  <2> QED BY <1>1, <2>1, <2>2, <2>3, <2>4, <2>5, <2>6 DEF Next
<1> QED BY <1>2, <1>3

(* Only a jid is ever named: one that the manifest has is only replaced    *)
(* when the entry is removed.                                              *)
LEMMA NamedStep ==
  ASSUME IInv, NamedIsJid, [Next]_vars
  PROVE  NamedIsJid'
<1>1. manifest \in Jids \cup {NoJid, Absent} /\ events \in Seq(Event)
  BY PairingTypes
<1>2. ASSUME NEW h \in HandleIds, BootRegister(h) PROVE NamedIsJid'
  <2>1. EffectiveJids \subseteq Jids \cup {NoJid}
    BY <1>1 DEF EffectiveJids
  <2> QED BY <1>2, <2>1 DEF BootRegister, BootFails, Notes, NamedIsJid, history
<1>3. ASSUME NEW h \in HandleIds, EnsureReplies(h) \/ ConnectReplies(h) PROVE NamedIsJid'
  <2>1. manifest' \in {manifest} \cup Jids
    BY <1>3, BootResumesIsSound DEF EnsureReplies, ConnectReplies
  <2> QED BY <1>3, <2>1 DEF EnsureReplies, ConnectReplies, NamedIsJid, history
<1>4. ASSUME NEW h \in HandleIds, BootStep(h), ~BootRegister(h), ~EnsureReplies(h), ~ConnectReplies(h)
      PROVE  NamedIsJid'
  BY <1>4 DEF BootStep, EnsureFinds, EnsureLoads, EnsureInstalls, ConnectGets, ConnectDials,
              BootRpcFails, BootFails, NamedIsJid, history
<1>5. RemoveStep => NamedIsJid'
  BY DEF RemoveStep, RemoveAccount, RemoveLooks, RemoveUnhooks, RemoveFromManifest, RemoveHandle,
         NamedIsJid, Notes, history
<1>6. ASSUME NEW c \in HandleIds, ClientStep(c) PROVE NamedIsJid'
  BY <1>6 DEF ClientStep, QrCode, QrTimeout, Pair, LogsIn, Drops, RemoteLogout, Emit, Notes,
              NamedIsJid
<1>7. Notify => NamedIsJid'
  BY JidAssumption DEF Notify, UpdateJidRaises, NamedIsJid, history
<1>8. AddAccount \/ Stop \/ Restart \/ UNCHANGED vars => NamedIsJid'
  BY DEF AddAccount, Stop, Restart, vars, NamedIsJid, history
<1> QED BY <1>2, <1>3, <1>4, <1>5, <1>6, <1>7, <1>8 DEF Next

(* Every step keeps PairingInv.                                            *)
LEMMA PairingInvStep == IInv /\ PairingInv /\ [Next]_vars => PairingInv'
<1>1. ASSUME IInv, PairingInv, [Next]_vars, running', ~unlinked' PROVE Parts'
  <2>1. CASE Restart
    <3>1. NothingToPair'
      BY <2>1 DEF Restart, SidecarEnds, NothingToPair
    <3>2. NothingToPair' => Parts'
      BY NewRunHasParts, PTL
    <3> QED BY <3>1, <3>2
  <2>2. CASE ~Restart
    <3>1. Parts
      BY <1>1, <2>2, SameRun DEF PairingInv, Parts
    <3>2. ~Stop
      BY <1>1 DEF Stop
    <3>3. NamedIsJid
      BY <1>1 DEF PairingInv
    <3> QED BY <1>1, <2>2, <3>1, <3>2, <3>3, BootKeepsPairing, OthersKeepPairing DEF Next
  <2> QED BY <2>1, <2>2
<1>2. ASSUME IInv, PairingInv, [Next]_vars PROVE NamedIsJid'
  BY <1>2, NamedStep DEF PairingInv
<1> QED BY <1>1, <1>2 DEF PairingInv, Parts

(* Once things have settled, a registered account that is paired is in the *)
(* manifest under its jid, whatever raced, crashed or timed out before, as *)
(* long as no device was unlinked (app.py:565-568); it is there without a  *)
(* jid only if the event of the pairing found the queue full (bus.go       *)
(* 204-213), and with another jid only if add_account was given that one.  *)
THEOREM PairingsAreRemembered == Spec => []PairingIsRemembered
<1>1. Spec => []PairingInv
  BY PairingInvInit, PairingInvStep, SpecIInv, PTL DEF Spec
<1>2. PairingInv => PairingIsRemembered
  BY DEF PairingInv, PairingIsRemembered, Settled, KnownOrOnItsWay, OnItsWay, Paired, NamedIsJid
<1> QED BY <1>1, <1>2, PTL
=============================================================================

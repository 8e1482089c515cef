-------------------------- MODULE AccountLifecycle --------------------------
(***************************************************************************)
(* The life of one account key, from add_account to remove_account and     *)
(* across restarts:                                                        *)
(*   - src/src/fastmeow/app.py: AccountHandle, add_account, the bootstrap  *)
(*     task, remove_account, the event hook _notify_handle, stop();        *)
(*   - the EnsureAccount, Connect, Disconnect and Logout handlers of       *)
(*     src/cmd/fastmeow-sidecar/main.go with accounts.Registry and         *)
(*     sessions.Store;                                                     *)
(*   - external, from how the sidecar uses it: the whatsmeow client (QR    *)
(*     codes, pairing, connection, logout from the phone).                 *)
(*                                                                         *)
(* The app, the sidecar's handlers and the phone interleave: an RPC is a   *)
(* goroutine of the sidecar, which looks into the registry, works outside  *)
(* its mutex, and comes back to it, and goes on when the app has given the *)
(* call up; its reply reaches the awaiting task in a step of its own.  The *)
(* events come to the hook through one queue, in order (see EventBus and   *)
(* Dispatcher), but for those that find it full and are dropped, and the   *)
(* hook finds the handle by the key.                                       *)
(*                                                                         *)
(* Abstractions: one account key; the manifest's calls are atomic (see     *)
(* Manifest); one remove_account at a time, whose RPC ends before the app  *)
(* gives it up; two jids of one phone differ, but not to the registry,     *)
(* which compares users only; a handle's own jid, which nothing here       *)
(* reads, and the jid of an event other than a pairing, are left out.      *)
(***************************************************************************)
EXTENDS Naturals, Sequences

CONSTANTS
    Jids,         \* the jids pairing can yield
    NoJid,        \* the empty jid: an unpaired device or manifest entry
    Absent,       \* no manifest entry
    User,         \* [Jids -> users]: what jidsEqual compares
    Removals,     \* subset of {"logout", "disconnect"}: how accounts are removed
    Hazards,      \* subset of {"rpc", "crash", "remote_logout", "fresh", "jid"}
    MaxHandles,   \* bound: number of add_account calls per run of the app
    MaxQueue      \* number of undelivered events there is room for

ASSUME JidAssumption == NoJid \notin Jids /\ Absent \notin Jids /\ NoJid # Absent
ASSUME RemovalsAssumption == Removals \subseteq {"logout", "disconnect"}
ASSUME BoundsAssumption == MaxHandles \in Nat /\ MaxQueue \in Nat

HandleIds == 1..MaxHandles

VARIABLES
    running,  \* the app has started and not stopped
    current,  \* FastMeow._handles[key]: a handle's number, or 0
    added,    \* number of add_account calls in this run of the app
    handles,  \* [HandleIds -> handle]: AccountHandle and its bootstrap task
    remover,  \* the task in remove_account
    manifest, \* the manifest entry
    rpcs,     \* [HandleIds -> goroutine]: the RPC of each bootstrap task
    registered, \* the client in the sidecar's registry, or 0
    clients,  \* [HandleIds -> client]: the one each EnsureAccount made
    devices,  \* the devices in the sidecar's session store
    events,   \* the events on their way to _notify_handle
    unlinked, \* history: a device was logged out, or a known one not asked for
    named,    \* history: the manifest's jid is one that add_account was given
    missed    \* history: in this run, the event of a pairing was dropped

appVars == <<running, current, added, handles, remover>>
registryVars == <<registered, clients, devices>>
sidecarVars == <<rpcs, registryVars>>
history == <<unlinked, named, missed>>
vars == <<appVars, manifest, sidecarVars, events, history>>

States == {"UNSPECIFIED", "UNPAIRED", "PAIRING", "CONNECTING", "CONNECTED",
           "DISCONNECTED", "LOGGED_OUT"}

(* The await a bootstrap task is at: "ensure" and "connect" wait for the   *)
(* goroutine of the RPC, "ensured" and "connected" for its reply.          *)
Booting == {"register", "ensure", "ensured", "connect", "connected"}
BootStates == {"none"} \cup Booting \cup {"done", "failed", "cancelled"}

Replies == [ok : BOOLEAN, state : States, jid : Jids \cup {NoJid}]
NoReply == [ok |-> FALSE, state |-> "UNSPECIFIED", jid |-> NoJid]

(* woken and failed are the _connected event and _terminal_failure; asked  *)
(* and reply are the task's, and gone when it ends.                        *)
NewHandle ==
    [state |-> "UNSPECIFIED", woken |-> FALSE, failed |-> FALSE,
     boot |-> "none", asked |-> NoJid, reply |-> NoReply]

(* ws: the websocket is up; pump: the QR goroutine runs; held, of the      *)
(* history: a Connect had it in hand when Logout took it out.              *)
NoClient == [jid |-> NoJid, ws |-> FALSE, pump |-> FALSE, held |-> FALSE]

(* The goroutine of an RPC: what it was asked for, or has loaded, and the  *)
(* client it has in hand.                                                  *)
NoRpc == [pc |-> "none", jid |-> NoJid, client |-> 0]
Rpcs == [pc : {"none", "ensure", "install", "connect", "dial"},
         jid : Jids \cup {NoJid}, client : 0..MaxHandles]

NoRemover == [pc |-> "idle", how |-> "disconnect", client |-> 0]

Init ==
    /\ running = TRUE
    /\ current = 0
    /\ added = 0
    /\ handles = [h \in HandleIds |-> NewHandle]
    /\ remover = NoRemover
    /\ manifest = Absent
    /\ rpcs = [h \in HandleIds |-> NoRpc]
    /\ registered = 0
    /\ clients = [c \in HandleIds |-> NoClient]
    /\ devices = {}
    /\ events = <<>>
    /\ unlinked = FALSE /\ named = FALSE /\ missed = FALSE

(* What the history becomes: once something is unlinked, the rest of it    *)
(* says nothing more and is forgotten.                                     *)
Notes(isUnlinked, isNamed, isMissed) ==
    /\ unlinked' = isUnlinked
    /\ named' = (isNamed /\ ~isUnlinked)
    /\ missed' = (isMissed /\ ~isUnlinked)

-----------------------------------------------------------------------------
(* AccountHandle and the manifest as the tasks use them.                   *)

(* A fault: an RPC result always wins.                                     *)
ApplyStateBlindly(handle, state) ==
    [handle EXCEPT !.state = state,
                   !.woken = @ \/ state \in {"CONNECTED", "LOGGED_OUT"},
                   !.failed = @ \/ state = "LOGGED_OUT"]

(* _apply_state                                                            *)
ApplyState(handle, state) ==
    IF handle.state = "LOGGED_OUT" THEN handle
    ELSE IF /\ handle.state = "CONNECTED"
            /\ state \in {"PAIRING", "CONNECTING", "UNSPECIFIED"} THEN handle
    ELSE [handle EXCEPT !.state = state,
                       !.woken = @ \/ state \in {"CONNECTED", "LOGGED_OUT"},
                       !.failed = @ \/ state = "LOGGED_OUT"]

(* _fail                                                                   *)
Fail(handle) == [handle EXCEPT !.woken = TRUE, !.failed = TRUE]

(* update_jid raises ManifestError.                                        *)
UpdateJidRaises(jid) == manifest \notin {NoJid, jid}

(* The task of a handle ends.                                              *)
Ended(handle, boot) == [handle EXCEPT !.boot = boot, !.asked = NoJid, !.reply = NoReply]

-----------------------------------------------------------------------------
(* add_account and the bootstrap task.                                     *)

AddAccount ==
    /\ running
    /\ current = 0
    /\ added < MaxHandles
    /\ added' = added + 1
    /\ current' = added + 1
    /\ handles' = [handles EXCEPT ![added + 1] = [NewHandle EXCEPT !.boot = "register"]]
    /\ UNCHANGED <<running, remover, manifest, sidecarVars, events, history>>

(* The bootstrap task fails; the handle registered under the key is        *)
(* dropped, whichever it is (517-520).                                     *)
BootFails(h) ==
    /\ handles' = [handles EXCEPT ![h] = Ended(Fail(@), "failed")]
    /\ current' = 0
    /\ UNCHANGED manifest

(* A fault: no default for a key that the manifest does not have.          *)
BootRegisterWithoutDefault(h) ==
    /\ running
    /\ handles[h].boot = "register"
    /\ handles' = [handles EXCEPT ![h].boot = "ensure", ![h].asked = manifest]
    /\ rpcs' = [rpcs EXCEPT ![h] = [NoRpc EXCEPT !.pc = "ensure", !.jid = manifest]]
    /\ UNCHANGED <<running, current, added, remover, manifest, registryVars, events, history>>

(* The effective jid is the manifest's, or the empty one for a new device, *)
(* unless the caller names one ("jid") or asks for a new device ("fresh"). *)
(* register() refuses another jid than the manifest has; it stores the     *)
(* jid unless the key has one.                                             *)
EffectiveJids ==
    {IF manifest = Absent THEN NoJid ELSE manifest}
        \cup (IF "fresh" \in Hazards THEN {NoJid} ELSE {})
        \cup (IF "jid" \in Hazards THEN Jids ELSE {})

BootRegister(h) ==
    /\ running
    /\ handles[h].boot = "register"
    /\ \E jid \in EffectiveJids :
           \/ /\ manifest \in Jids /\ jid \notin {manifest, NoJid}
              /\ BootFails(h)
              /\ UNCHANGED <<rpcs, history>>
           \/ /\ manifest \in Jids => jid \in {manifest, NoJid}
              /\ handles' = [handles EXCEPT ![h].boot = "ensure", ![h].asked = jid]
              /\ rpcs' = [rpcs EXCEPT ![h] = [NoRpc EXCEPT !.pc = "ensure", !.jid = jid]]
              /\ manifest' = IF manifest \in Jids THEN manifest ELSE jid
              /\ Notes(unlinked \/ (manifest \in Jids /\ jid = NoJid),
                       IF manifest \in Jids THEN named ELSE jid # NoJid, missed)
              /\ UNCHANGED current
    /\ UNCHANGED <<running, added, remover, registryVars, events>>

(* The goroutine of an RPC ends; its reply is for the task that waits.     *)
Answers(h, reply) ==
    /\ rpcs' = [rpcs EXCEPT ![h] = NoRpc]
    /\ handles' = CASE handles[h].boot = "ensure" ->
                          [handles EXCEPT ![h].boot = "ensured", ![h].reply = reply]
                    [] handles[h].boot = "connect" ->
                          [handles EXCEPT ![h].boot = "connected", ![h].reply = reply]
                    [] OTHER -> handles

Reports(state, jid) == [ok |-> TRUE, state |-> state, jid |-> jid]
Account(c) == Reports(IF c.jid = NoJid THEN "UNPAIRED"
                      ELSE IF c.ws THEN "CONNECTED" ELSE "DISCONNECTED", c.jid)

(* EnsureAccount of a key that is registered.                              *)
EnsureFinds(h) ==
    /\ running
    /\ rpcs[h].pc = "ensure" /\ registered # 0
    /\ LET jid == rpcs[h].jid
           here == clients[registered].jid
       IN  \/ /\ jid \in Jids /\ here \in Jids /\ User[jid] # User[here]
              /\ Answers(h, NoReply)
           \* device.ID is nil: the handler panics, is recovered, and the
           \* reply is an empty message
           \/ /\ jid \in Jids /\ here = NoJid
              /\ Answers(h, [NoReply EXCEPT !.ok = TRUE])
           \/ /\ jid \in Jids => here \in Jids /\ User[jid] = User[here]
              /\ Answers(h, Account(clients[registered]))
    /\ UNCHANGED <<running, current, added, remover, manifest, registryVars, events, history>>

(* EnsureAccount of one that is not: outside the mutex it makes a device,  *)
(* or loads the one asked for, which the store may not have (manifest/db   *)
(* drift).                                                                 *)
EnsureLoads(h) ==
    /\ running
    /\ rpcs[h].pc = "ensure" /\ registered = 0
    /\ IF rpcs[h].jid \in devices \cup {NoJid}
       THEN rpcs' = [rpcs EXCEPT ![h].pc = "install"] /\ UNCHANGED handles
       ELSE Answers(h, NoReply)
    /\ UNCHANGED <<running, current, added, remover, manifest, registryVars, events, history>>

(* A fault: the registry is not looked into again.                         *)
EnsureInstallsUnchecked(h) ==
    /\ running
    /\ rpcs[h].pc = "install"
    /\ registered' = h
    /\ clients' = [clients EXCEPT ![h] = [NoClient EXCEPT !.jid = rpcs[h].jid]]
    /\ Answers(h, Account(clients'[h]))
    /\ UNCHANGED <<running, current, added, remover, manifest, devices, events, history>>

(* Back under the mutex, it registers its client unless another has won.   *)
EnsureInstalls(h) ==
    /\ running
    /\ rpcs[h].pc = "install"
    /\ \/ /\ registered = 0
          /\ registered' = h
          /\ clients' = [clients EXCEPT ![h] = [NoClient EXCEPT !.jid = rpcs[h].jid]]
          /\ Answers(h, Account(clients'[h]))
       \/ /\ registered # 0
          /\ Answers(h, Account(clients[registered]))
          /\ UNCHANGED <<registered, clients>>
    /\ UNCHANGED <<running, current, added, remover, manifest, devices, events, history>>

(* The reply reaches the task: the handle learns the account's state, and  *)
(* the manifest its jid if the task did not know it yet.                   *)
BootResumes(h, prior, next) ==
    LET reply == handles[h].reply
        told == ApplyState(handles[h], reply.state)
        later == IF next = "done" THEN Ended(told, "done")
                 ELSE [told EXCEPT !.boot = next, !.asked = reply.jid, !.reply = NoReply]
        update == reply.jid # NoJid /\ reply.jid # prior
    IN  \/ /\ ~reply.ok
           /\ BootFails(h)
        \/ /\ reply.ok /\ update /\ UpdateJidRaises(reply.jid)
           /\ handles' = [handles EXCEPT ![h] = Ended(Fail(told), "failed")]
           /\ current' = 0
           /\ UNCHANGED manifest
        \/ /\ reply.ok
           /\ ~(update /\ UpdateJidRaises(reply.jid))
           /\ handles' = [handles EXCEPT ![h] = later]
           /\ manifest' = IF update THEN reply.jid ELSE manifest
           /\ UNCHANGED current

(* The task keeps the jid EnsureAccount reported, to compare with (512).   *)
EnsureReplies(h) ==
    /\ running
    /\ handles[h].boot = "ensured"
    /\ BootResumes(h, handles[h].asked, "connect")
    /\ rpcs' = IF handles'[h].boot = "connect"
               THEN [rpcs EXCEPT ![h] = [NoRpc EXCEPT !.pc = "connect"]] ELSE rpcs
    /\ UNCHANGED <<running, added, remover, registryVars, events, history>>

(* Connect in the sidecar gets the client.  One whose websocket is up is   *)
(* reported connected, paired or not (main.go:347-349).                    *)
ConnectGets(h) ==
    /\ running
    /\ rpcs[h].pc = "connect"
    /\ \/ registered = 0 /\ Answers(h, NoReply)
       \/ /\ registered # 0 /\ clients[registered].ws
          /\ Answers(h, Reports("CONNECTED", clients[registered].jid))
       \/ /\ registered # 0 /\ ~clients[registered].ws
          /\ rpcs' = [rpcs EXCEPT ![h].pc = "dial", ![h].client = registered]
          /\ UNCHANGED handles
    /\ UNCHANGED <<running, current, added, remover, manifest, registryVars, events, history>>

(* It connects the client it got, whatever has become of it; an unpaired   *)
(* one with a QR goroutine.  One that is connected by now refuses; and the *)
(* network may fail ("rpc"), with a QR goroutine that has nothing to say.  *)
ConnectDials(h) ==
    /\ running
    /\ rpcs[h].pc = "dial"
    /\ LET c == rpcs[h].client IN
       \/ /\ clients[c].ws \/ "rpc" \in Hazards
          /\ Answers(h, NoReply)
          /\ UNCHANGED clients
       \/ /\ ~clients[c].ws
          /\ clients' = [clients EXCEPT ![c].ws = TRUE, ![c].pump = @ \/ clients[c].jid = NoJid]
          /\ Answers(h, Reports("CONNECTING", clients[c].jid))
    /\ UNCHANGED <<running, current, added, remover, manifest, registered, devices, events, history>>

ConnectReplies(h) ==
    /\ running
    /\ handles[h].boot = "connected"
    /\ BootResumes(h, handles[h].asked, "done")
    /\ UNCHANGED <<running, added, remover, sidecarVars, events, history>>

(* The task gets an error, as at its deadline; the goroutine goes on, or   *)
(* was never begun and never goes on.                                      *)
BootRpcFails(h) ==
    /\ "rpc" \in Hazards
    /\ running
    /\ handles[h].boot \in Booting \ {"register"}
    /\ BootFails(h)
    /\ UNCHANGED <<running, added, remover, sidecarVars, events, history>>

-----------------------------------------------------------------------------
(* remove_account.                                                         *)

RemoveAccount(how) ==
    /\ running
    /\ remover.pc = "idle"
    /\ current # 0
    /\ remover' = [NoRemover EXCEPT !.pc = "rpc", !.how = how]
    /\ UNCHANGED <<running, current, added, handles, manifest, sidecarVars, events, history>>

(* Logout or Disconnect in the sidecar: of an unknown account they fail,   *)
(* and remove_account raises; Logout takes the client out of the registry. *)
RemoveLooks ==
    /\ running
    /\ remover.pc = "rpc"
    /\ \/ /\ registered = 0
          /\ remover' = NoRemover
          /\ UNCHANGED <<registered, clients, history>>
       \/ /\ registered # 0
          /\ remover' = [remover EXCEPT !.pc = "unhook", !.client = registered]
          /\ IF remover.how = "disconnect" THEN UNCHANGED <<registered, clients, history>>
             ELSE /\ registered' = 0
                  /\ clients' = [clients EXCEPT ![registered].held =
                        \E h \in HandleIds : rpcs[h].pc = "dial" /\ rpcs[h].client = registered]
                  /\ Notes(TRUE, named, missed)
    /\ UNCHANGED <<running, current, added, handles, manifest, rpcs, devices, events>>

(* Then it disconnects the client, and Logout deletes its device.  The     *)
(* reply may be lost ("rpc").                                              *)
RemoveUnhooks ==
    /\ running
    /\ remover.pc = "unhook"
    /\ clients' = [clients EXCEPT ![remover.client].ws = FALSE]
    /\ devices' = IF remover.how = "logout" THEN devices \ {clients[remover.client].jid}
                  ELSE devices
    /\ \/ remover' = [remover EXCEPT !.pc = "manifest", !.client = 0]
       \/ "rpc" \in Hazards /\ remover' = NoRemover
    /\ UNCHANGED <<running, current, added, handles, manifest, rpcs, registered, events, history>>

RemoveFromManifest ==
    /\ running
    /\ remover.pc = "manifest"
    /\ manifest' = Absent
    /\ named' = FALSE
    /\ remover' = [remover EXCEPT !.pc = "forget"]
    /\ UNCHANGED <<running, current, added, handles, sidecarVars, events, unlinked, missed>>

(* del self._handles[key]: a KeyError if the handle is gone already.       *)
RemoveHandle ==
    /\ running
    /\ remover.pc = "forget"
    /\ current' = 0
    /\ remover' = NoRemover
    /\ UNCHANGED <<running, added, handles, manifest, sidecarVars, events, history>>

-----------------------------------------------------------------------------
(* The phone and the whatsmeow client.                                     *)

(* A full queue drops the newest event.                                    *)
Emit(kind, jid) ==
    LET full == Len(events) >= MaxQueue IN
    /\ events' = IF full THEN events ELSE Append(events, [kind |-> kind, jid |-> jid])
    /\ Notes(unlinked \/ kind = "logged_out", named, missed \/ (full /\ kind = "pair_success"))

(* A code is shown.  The QR goroutine outlives its client.                 *)
QrCode(c) ==
    /\ clients[c].pump
    /\ Emit("qr", NoJid)
    /\ UNCHANGED <<appVars, manifest, sidecarVars>>

(* The codes have run out: whatsmeow disconnects the client.               *)
QrTimeout(c) ==
    /\ clients[c].pump
    /\ clients' = [clients EXCEPT ![c].pump = FALSE, ![c].ws = FALSE]
    /\ Emit("disconnected", NoJid)
    /\ UNCHANGED <<appVars, manifest, rpcs, registered, devices>>

(* The phone scans a code: the device is stored with its new jid.          *)
Pair(c, jid) ==
    /\ clients[c].pump /\ clients[c].ws /\ clients[c].jid = NoJid
    /\ jid \notin devices
    /\ clients' = [clients EXCEPT ![c].jid = jid, ![c].pump = FALSE]
    /\ devices' = devices \cup {jid}
    /\ Emit("pair_success", jid)
    /\ UNCHANGED <<appVars, manifest, rpcs, registered>>

Online(c) == clients[c].ws /\ clients[c].jid # NoJid

(* The paired client has logged in.                                        *)
LogsIn(c) ==
    /\ Online(c)
    /\ Emit("connected", NoJid)
    /\ UNCHANGED <<appVars, manifest, sidecarVars>>

(* The paired client loses its connection; it reconnects by itself.        *)
Drops(c) ==
    /\ Online(c)
    /\ Emit("disconnected", NoJid)
    /\ UNCHANGED <<appVars, manifest, sidecarVars>>

(* The user unlinks the device on the phone: whatsmeow deletes the device. *)
RemoteLogout(c) ==
    /\ "remote_logout" \in Hazards
    /\ Online(c)
    /\ devices' = devices \ {clients[c].jid}
    /\ clients' = [clients EXCEPT ![c].jid = NoJid, ![c].ws = FALSE]
    /\ Emit("logged_out", NoJid)
    /\ UNCHANGED <<appVars, manifest, rpcs, registered>>

-----------------------------------------------------------------------------
(* _notify_handle and AccountHandle._on_event.                             *)

OnEvent(handle, e) ==
    CASE e.kind = "connected"    -> ApplyState(handle, "CONNECTED")
      [] e.kind = "disconnected" -> IF handle.state = "CONNECTED"
                                    THEN [handle EXCEPT !.state = "DISCONNECTED"]
                                    ELSE handle
      [] e.kind = "pair_success" -> handle
      [] e.kind = "logged_out"   -> ApplyState([handle EXCEPT !.failed = TRUE],
                                               "LOGGED_OUT")
      [] e.kind = "qr"           -> ApplyState(handle, "PAIRING")

(* A fault: the hook does not persist the jid of a pairing.                *)
NotifyForgetting ==
    /\ running
    /\ events # <<>>
    /\ events' = Tail(events)
    /\ handles' = IF current = 0 THEN handles
                  ELSE [handles EXCEPT ![current] = OnEvent(@, Head(events))]
    /\ UNCHANGED <<running, current, added, remover, manifest, sidecarVars, history>>

Notify ==
    /\ running
    /\ events # <<>>
    /\ events' = Tail(events)
    /\ \/ /\ current = 0
          /\ UNCHANGED <<handles, manifest>>
       \/ /\ current # 0
          /\ LET e == Head(events)
             IN  /\ handles' = [handles EXCEPT ![current] = OnEvent(@, e)]
                 \* the error of a refused update is logged and dropped
                 /\ manifest' = IF e.kind = "pair_success" /\ ~UpdateJidRaises(e.jid)
                                THEN e.jid ELSE manifest
    /\ UNCHANGED <<running, current, added, remover, sidecarVars, history>>

-----------------------------------------------------------------------------
SidecarEnds ==
    /\ rpcs' = [h \in HandleIds |-> NoRpc]
    /\ registered' = 0
    /\ clients' = [c \in HandleIds |-> NoClient]

(* FastMeow.stop(): the bootstrap tasks are cancelled and tell their       *)
(* handles, then the sidecar is stopped and nothing of the app runs.       *)
Stop ==
    /\ running
    /\ remover.pc = "idle"
    /\ running' = FALSE
    /\ handles' = [h \in HandleIds |->
                      IF handles[h].boot \in Booting
                      THEN Ended(Fail(handles[h]), "cancelled")
                      ELSE handles[h]]
    /\ SidecarEnds
    /\ events' = <<>>
    /\ UNCHANGED <<current, added, remover, manifest, devices, history>>

(* A new run of the program, after stop() or a crash of app and sidecar.   *)
Restart ==
    /\ ~running \/ "crash" \in Hazards
    /\ running' = TRUE
    /\ current' = 0
    /\ added' = 0
    /\ handles' = [h \in HandleIds |-> NewHandle]
    /\ remover' = NoRemover
    /\ SidecarEnds
    /\ events' = <<>>
    /\ missed' = FALSE
    /\ UNCHANGED <<manifest, devices, unlinked, named>>

-----------------------------------------------------------------------------
BootStep(h) ==
    \/ BootRegister(h)
    \/ EnsureFinds(h)
    \/ EnsureLoads(h)
    \/ EnsureInstalls(h)
    \/ EnsureReplies(h)
    \/ ConnectGets(h)
    \/ ConnectDials(h)
    \/ ConnectReplies(h)
    \/ BootRpcFails(h)

RemoveStep ==
    \/ \E how \in Removals : RemoveAccount(how)
    \/ RemoveLooks
    \/ RemoveUnhooks
    \/ RemoveFromManifest
    \/ RemoveHandle

ClientStep(c) ==
    /\ running
    /\ \/ QrCode(c)
       \/ QrTimeout(c)
       \/ \E jid \in Jids : Pair(c, jid)
       \/ LogsIn(c)
       \/ Drops(c)
       \/ RemoteLogout(c)

Next ==
    \/ AddAccount
    \/ \E h \in HandleIds : BootStep(h)
    \/ RemoveStep
    \/ \E c \in HandleIds : ClientStep(c)
    \/ Notify
    \/ Stop
    \/ Restart

Spec == Init /\ [][Next]_vars

-----------------------------------------------------------------------------
(* Every variable has its type.                                            *)
TypeOK ==
    /\ running \in BOOLEAN
    /\ current \in 0..MaxHandles
    /\ added \in 0..MaxHandles
    /\ handles \in [HandleIds ->
          [state : States, woken : BOOLEAN, failed : BOOLEAN,
           boot : BootStates, asked : Jids \cup {NoJid}, reply : Replies]]
    /\ remover \in [pc : {"idle", "rpc", "unhook", "manifest", "forget"},
                   how : {"logout", "disconnect"}, client : 0..MaxHandles]
    /\ manifest \in Jids \cup {NoJid, Absent}
    /\ rpcs \in [HandleIds -> Rpcs]
    /\ registered \in 0..MaxHandles
    /\ clients \in [HandleIds -> [jid : Jids \cup {NoJid}, ws : BOOLEAN,
                                  pump : BOOLEAN, held : BOOLEAN]]
    /\ devices \subseteq Jids
    /\ events \in Seq([kind : {"qr", "disconnected", "pair_success", "connected", "logged_out"},
                       jid : Jids \cup {NoJid}])
    /\ Len(events) <= MaxQueue
    /\ unlinked \in BOOLEAN /\ named \in BOOLEAN /\ missed \in BOOLEAN

(* Once bootstraps, removals and events have settled, a registered account *)
(* that is paired is in the manifest under the jid of its device, so that  *)
(* the next start needs no new pairing (app.py:565-568), whatever crashed, *)
(* stopped or timed out before.  If the queue was full when the pairing    *)
(* was reported, the manifest may have no jid; it has a wrong one only if  *)
(* the caller of add_account named it.  Not so once a device has been      *)
(* logged out, or a new one asked for under a key whose jid is known: the  *)
(* manifest keeps the old jid then, and refuses the new one.               *)
Settled ==
    /\ running
    /\ current # 0 /\ handles[current].boot = "done"
    /\ remover.pc = "idle"
    /\ events = <<>>

PairingIsRemembered ==
    Settled /\ ~unlinked /\ registered # 0 /\ clients[registered].jid # NoJid
        => \/ manifest = clients[registered].jid
           \/ missed /\ manifest = NoJid
           \/ named /\ manifest \in Jids

(* A key never has two clients: one that is connected is the registered    *)
(* one, or Logout is about to disconnect it.  Not so when a Connect had it *)
(* in hand when Logout took it out: it stays connected, and no RPC can     *)
(* reach it (registry.go 157-170, 215-240, main.go 342-366).               *)
OneClient ==
    \A c \in HandleIds :
        clients[c].ws => \/ c = registered
                         \/ remover.pc = "unhook" /\ c = remover.client
                         \/ clients[c].held

(* Whatever order RPC replies and events come in, ready() is answered:     *)
(* a handle shows a failure exactly when its bootstrap failed or was       *)
(* cancelled, at whichever await, or it is logged out, for good; and a     *)
(* failure, like a login, wakes those who wait (app.py 127-204, 516-520).  *)
ReadyIsAnswered ==
    \A h \in HandleIds :
        LET handle == handles[h]
            lost == handle.state = "LOGGED_OUT" \/ handle.boot \in {"failed", "cancelled"}
        IN  /\ lost <=> handle.failed
            /\ lost \/ handle.state = "CONNECTED" => handle.woken

-----------------------------------------------------------------------------
(* The inductive invariant.                                                *)

(* The RPC of a task is there from the await of its reply on; an RPC of a  *)
(* task that gave up may be there as well, but none before the first.      *)
TasksMatch ==
    \A h \in HandleIds :
        /\ h > added => handles[h].boot = "none"
        /\ handles[h].boot \in {"none", "register", "ensured", "connected"} => rpcs[h].pc = "none"

(* EnsureAccount of a handle's task has not made its client.               *)
Unborn(c) ==
    c > added \/ handles[c].boot = "register" \/ rpcs[c].pc \in {"ensure", "install"}

UnbornIsUnknown ==
    \A c \in HandleIds :
        Unborn(c) => registered # c /\ \A h \in HandleIds : rpcs[h].client # c

(* A Connect dials the registered client, or one that Logout took out.     *)
DialsAreHeld ==
    \A h \in HandleIds :
        LET c == rpcs[h].client IN
        rpcs[h].pc = "dial" => c \in HandleIds /\ (registered = c \/ clients[c].held)

IInv == TypeOK /\ ReadyIsAnswered /\ OneClient /\ TasksMatch /\ UnbornIsUnknown /\ DialsAreHeld

-----------------------------------------------------------------------------
(* The invariant behind PairingIsRemembered.  It speaks of a run of the    *)
(* app in which no device has been unlinked, during which a client that    *)
(* is registered stays registered.                                         *)

(* The registered client is paired.                                        *)
Paired == registered # 0 /\ clients[registered].jid # NoJid

Asking(h) == rpcs[h].pc \in {"ensure", "install"}

(* Only the registered client can be paired, and whoever removes has seen  *)
(* one.                                                                    *)
OneToPair ==
    /\ \A c \in HandleIds : ~clients[c].held /\ (clients[c].pump => c = registered)
    /\ remover.pc \in {"unhook", "manifest", "forget"} => registered # 0

(* Before there is a client, everybody asks for the manifest's jid; after, *)
(* the manifest has the client's jid or none; but not when the caller of   *)
(* add_account named the jid.                                              *)
JidsAgree ==
    ~named =>
    IF registered = 0 THEN \A h \in HandleIds : Asking(h) => rpcs[h].jid = manifest
    ELSE manifest \in {clients[registered].jid, NoJid, Absent}

(* Events and replies that name a jid name that of the registered client.  *)
NewsIsTrue ==
    /\ \A i \in DOMAIN events :
          events[i].kind = "pair_success" => Paired /\ events[i].jid = clients[registered].jid
    /\ \A h \in HandleIds : LET jid == handles[h].reply.jid IN
          jid # NoJid => Paired /\ jid = clients[registered].jid

AsksAsTold ==
    \A h \in HandleIds : handles[h].boot = "ensure" => Asking(h) /\ rpcs[h].jid = handles[h].asked

(* A handle whose task has registered its key has an entry, until it is    *)
(* being removed.                                                          *)
EntryIsThere ==
    manifest = Absent /\ current # 0 /\ remover.pc # "forget" => handles[current].boot = "register"

(* The manifest is about to learn the jid: the current handle's task has   *)
(* yet to ask for the account, is asking for it or has the answer without  *)
(* knowing the jid before; or the event of the pairing is on its way.      *)
OnItsWay(handle) ==
    \/ handle.boot = "register"
    \/ handle.boot = "ensure" /\ handle.asked = NoJid
    \/ /\ handle.boot = "ensured" /\ handle.asked = NoJid
       /\ handle.reply.ok => handle.reply.jid # NoJid
    \/ \E i \in DOMAIN events : events[i].kind = "pair_success"

KnownOrOnItsWay ==
    Paired /\ current # 0 /\ remover.pc # "forget" =>
        \/ manifest = clients[registered].jid
        \/ missed /\ manifest = NoJid
        \/ named
        \/ OnItsWay(handles[current])

(* Only a jid can have been named.                                         *)
NamedIsJid == named => manifest \in Jids

PairingInv ==
    /\ NamedIsJid
    /\ running /\ ~unlinked =>
           OneToPair /\ JidsAgree /\ NewsIsTrue /\ AsksAsTold /\ EntryIsThere /\ KnownOrOnItsWay
==============================================================================

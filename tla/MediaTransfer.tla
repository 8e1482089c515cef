---------------------------- MODULE MediaTransfer ----------------------------
(***************************************************************************)
(* Media uploads and downloads.                                            *)
(*                                                                         *)
(* src/internal/media/handler.go (Send, Download) with the two gateway     *)
(* handlers of src/cmd/fastmeow-sidecar/main.go:818-895, and, at the other *)
(* end of the streams, src/src/fastmeow/_media.py.                         *)
(*                                                                         *)
(* An upload is two goroutines: the handler waits for its account's lock   *)
(* and for one of the GlobalLimit slots, spools the body to a temporary    *)
(* file, uploads it and sends the message; the pump moves the client's     *)
(* frames to the handler through an io.Pipe, and so stands still while the *)
(* handler waits.  A download takes a slot only; the Python side writes    *)
(* its chunks to a file, each file operation in a thread.                  *)
(*                                                                         *)
(* Abstractions: data is counted in chunks, so MaxBytes is a number of     *)
(* chunks; a frame passes from the client to the pump's Recv in one step,  *)
(* which also stands for a frame under way when the client cancels; the    *)
(* checks of the init frame are one bit, the length apart.                 *)
(***************************************************************************)
EXTENDS Naturals, FiniteSets

CONSTANTS
    Uploads,     \* the SendMedia calls
    Foreign,     \* the uploads whose client is not _media.py
    Downloads,   \* the DownloadMedia calls
    Accounts,
    None,        \* the owner of a free lock
    GlobalLimit, \* capacity of globalSem
    MaxBytes,    \* MaxMediaBytes, in chunks
    MaxSource,   \* bound: the longest body a client streams
    MediaSize,   \* the length of what is downloaded
    MaxStarted,  \* bound: the calls that are begun
    Old,         \* a target file as it was before its download
    Gone         \* a target file that has been removed

ASSUME CallsAssumption == Foreign \subseteq Uploads /\ Uploads \cap Downloads = {}
ASSUME NoneAssumption == None \notin Uploads
ASSUME SizesAssumption ==
    /\ GlobalLimit \in Nat \ {0}
    /\ {MaxBytes, MaxSource, MediaSize} \subseteq Nat

Transfers == Uploads \cup Downloads

VARIABLES
    pc,        \* [Transfers -> STRING]: where the gateway's handler is
    request,   \* [Uploads -> Requests \cup {NoRequest}]: the init frame
    left,      \* [Uploads -> Nat]: what the client's source still holds
    given,     \* [Uploads -> Nat]: what the pump has received
    pump,      \* [Uploads -> {"none", "recv", "chunk", "done"}]
    pipe,      \* [Uploads -> {"open", "eof", "broken", "closed"}]
    spooled,   \* [Transfers -> Nat]: the length of the temporary file
    locks,     \* [Accounts -> Uploads \cup {None}]: accountMux
    slots,     \* the transfers that hold globalSem
    temps,     \* the transfers whose temporary file exists
    cancelled, \* the transfers whose context is done
    sent,      \* history: the uploads whose message has gone out
    result,    \* [Transfers -> codes]: the status the handler ends with
    streamed,  \* [Downloads -> Nat]: chunks given to stream.Send
    taken,     \* [Downloads -> Nat]: chunks read by the client
    py,        \* [Downloads -> STRING]: where write_download_to is
    file       \* [Downloads -> Nat \cup {Old, Gone}]: the target file

pumpVars == <<left, given, pump, pipe>>
handlerVars == <<pc, spooled, locks, slots, temps, sent, result>>
downloadVars == <<streamed, taken, py, file>>
vars == <<pumpVars, handlerVars, downloadVars, request, cancelled>>

Requests == [account : Accounts, declared : 0..MaxSource]
NoRequest == [account |-> None, declared |-> 0]

Init ==
    /\ pc = [t \in Transfers |-> "idle"]
    /\ request = [u \in Uploads |-> NoRequest]
    /\ left = [u \in Uploads |-> 0]
    /\ given = [u \in Uploads |-> 0]
    /\ pump = [u \in Uploads |-> "none"]
    /\ pipe = [u \in Uploads |-> "open"]
    /\ spooled = [t \in Transfers |-> 0]
    /\ locks = [a \in Accounts |-> None]
    /\ slots = {}
    /\ temps = {}
    /\ cancelled = {}
    /\ sent = {}
    /\ result = [t \in Transfers |-> "none"]
    /\ streamed = [d \in Downloads |-> 0]
    /\ taken = [d \in Downloads |-> 0]
    /\ py = [d \in Downloads |-> "idle"]
    /\ file = [d \in Downloads |-> Old]

-----------------------------------------------------------------------------
(* The client of an upload and the pump.                                   *)

(* The handler of t goes to step p, or ends with a code by way of step p.  *)
GoTo(t, p) ==
    /\ pc' = [pc EXCEPT ![t] = p]
    /\ UNCHANGED result

(* A fault: an error keeps the name it has in the media package.           *)
EndWithUnmapped(t, code, p) ==
    /\ pc' = [pc EXCEPT ![t] = p]
    /\ result' = [result EXCEPT ![t] = IF code = "OK" THEN code ELSE "media: error"]

EndWith(t, code, p) ==
    /\ pc' = [pc EXCEPT ![t] = p]
    /\ result' = [result EXCEPT ![t] = code]

(* One call more may begin: a bound of the model.                          *)
MayStart(t) == pc[t] = "idle" /\ Cardinality({x \in Transfers : pc[x] # "idle"}) < MaxStarted

(* The init frame names a registered account: the pump starts, and Send    *)
(* checks the frame.  _media.py declares the length of its source, never   *)
(* 0; the source may still shrink or grow.                                 *)
SendMedia(u) ==
    /\ MayStart(u)
    /\ \E r \in Requests, size \in 0..MaxSource :
          /\ u \notin Foreign => r.declared > 0
          /\ request' = [request EXCEPT ![u] = r]
          /\ left' = [left EXCEPT ![u] = size]
          /\ \/ EndWith(u, "INVALID_ARGUMENT", "reply")
             \/ r.declared > MaxBytes /\ EndWith(u, "RESOURCE_EXHAUSTED", "reply")
             \/ r.declared <= MaxBytes /\ GoTo(u, "lock")
    /\ pump' = [pump EXCEPT ![u] = "recv"]
    /\ UNCHANGED <<given, pipe, spooled, locks, slots, temps, sent, downloadVars, cancelled>>

(* The first frame is no init frame, or its account is unknown.            *)
SendMediaRefused(u) ==
    /\ MayStart(u)
    /\ pc' = [pc EXCEPT ![u] = "done"]
    /\ \E code \in {"INVALID_ARGUMENT", "NOT_FOUND"} : result' = [result EXCEPT ![u] = code]
    /\ UNCHANGED <<pumpVars, spooled, locks, slots, temps, sent, downloadVars, request, cancelled>>

(* The pump's end of the pipe is closed, unless the handler closed it.     *)
ClosePipe(u, how) ==
    /\ pump' = [pump EXCEPT ![u] = "done"]
    /\ pipe' = [pipe EXCEPT ![u] = IF @ = "open" THEN how ELSE @]

RecvChunk(u) ==
    /\ pump[u] = "recv"
    /\ pc[u] # "done"
    /\ left[u] > 0
    /\ left' = [left EXCEPT ![u] = @ - 1]
    /\ given' = [given EXCEPT ![u] = @ + 1]
    /\ pump' = [pump EXCEPT ![u] = "chunk"]
    /\ UNCHANGED <<pipe, handlerVars, downloadVars, request, cancelled>>

(* _media.py ends its stream only when it has sent what it declared.       *)
RecvEnd(u) ==
    /\ pump[u] = "recv"
    /\ pc[u] # "done"
    /\ left[u] = 0
    /\ u \in Foreign \/ given[u] = request[u].declared
    /\ ClosePipe(u, "eof")
    /\ UNCHANGED <<left, given, handlerVars, downloadVars, request, cancelled>>

(* A fault: a frame that is no chunk ends the body.                        *)
RecvInitAsEnd(u) ==
    /\ pump[u] = "recv"
    /\ pc[u] # "done"
    /\ u \in Foreign
    /\ ClosePipe(u, "eof")
    /\ UNCHANGED <<left, given, handlerVars, downloadVars, request, cancelled>>

(* A second init frame.                                                    *)
RecvInit(u) ==
    /\ pump[u] = "recv"
    /\ pc[u] # "done"
    /\ u \in Foreign
    /\ ClosePipe(u, "broken")
    /\ UNCHANGED <<left, given, handlerVars, downloadVars, request, cancelled>>

(* Recv fails once the context is done.                                    *)
RecvFails(u) ==
    /\ pump[u] = "recv"
    /\ u \in cancelled
    /\ ClosePipe(u, "broken")
    /\ UNCHANGED <<left, given, handlerVars, downloadVars, request, cancelled>>

(* The handler has closed its end while the pump waits to write.           *)
PumpWriteFails(u) ==
    /\ pump[u] = "chunk"
    /\ pipe[u] = "closed"
    /\ pump' = [pump EXCEPT ![u] = "done"]
    /\ UNCHANGED <<left, given, pipe, handlerVars, downloadVars, request, cancelled>>

(* iter_send_requests raises when its source has not the declared length,  *)
(* and the call with it.                                                   *)
SourceChanged(u) ==
    /\ u \in Uploads \ Foreign
    /\ pump[u] = "recv"
    /\ left[u] = 0
    /\ given[u] # request[u].declared
    /\ cancelled' = cancelled \cup {u}
    /\ UNCHANGED <<pumpVars, handlerVars, downloadVars, request>>

(* A caller cancels, or the connection goes.                               *)
Cancel(t) ==
    /\ pc[t] \notin {"idle", "done"}
    /\ cancelled' = cancelled \cup {t}
    /\ UNCHANGED <<pumpVars, handlerVars, downloadVars, request>>

-----------------------------------------------------------------------------
(* Handler.Send.                                                           *)

(* A fault: each upload locks a mutex of its own.                          *)
LockOwnMutex(u) ==
    /\ pc[u] = "lock"
    /\ locks' = [locks EXCEPT ![request[u].account] = u]
    /\ GoTo(u, "slot")
    /\ UNCHANGED <<pumpVars, spooled, slots, temps, sent, downloadVars, request, cancelled>>

LockAccount(u) ==
    /\ pc[u] = "lock"
    /\ locks[request[u].account] = None
    /\ locks' = [locks EXCEPT ![request[u].account] = u]
    /\ GoTo(u, "slot")
    /\ UNCHANGED <<pumpVars, spooled, slots, temps, sent, downloadVars, request, cancelled>>

(* A slot, and a temporary file, which may fail.                           *)
AcquireGlobal(t) ==
    /\ pc[t] = "slot"
    /\ Cardinality(slots) < GlobalLimit
    /\ slots' = slots \cup {t}
    /\ \/ /\ temps' = temps \cup {t}
          /\ GoTo(t, IF t \in Uploads THEN "spool" ELSE "fetch")
       \/ EndWith(t, "UNAVAILABLE", "unslot") /\ UNCHANGED temps
    /\ UNCHANGED <<pumpVars, spooled, locks, sent, downloadVars, request, cancelled>>

(* io.Copy reads one chunk more than is allowed, then no further.          *)
SpoolChunk(u) ==
    /\ pc[u] = "spool"
    /\ pump[u] = "chunk"
    /\ spooled[u] <= MaxBytes
    /\ spooled' = [spooled EXCEPT ![u] = @ + 1]
    /\ pump' = [pump EXCEPT ![u] = "recv"]
    /\ UNCHANGED <<left, given, pipe, pc, locks, slots, temps, sent, result, downloadVars, request, cancelled>>

(* The error of a broken pipe is wrapped, and no sentinel of               *)
(* mediaErrToStatus matches it.                                            *)
SpoolEnds(u) ==
    /\ pc[u] = "spool"
    /\ LET declared == request[u].declared
           mismatch == declared # 0 /\ declared # spooled[u]
       IN  \/ spooled[u] > MaxBytes /\ EndWith(u, "RESOURCE_EXHAUSTED", "clean")
           \/ pipe[u] = "broken" /\ EndWith(u, "UNAVAILABLE", "clean")
           \/ /\ spooled[u] <= MaxBytes /\ pipe[u] = "eof"
              /\ \/ mismatch /\ EndWith(u, "FAILED_PRECONDITION", "clean")
                 \/ ~mismatch /\ GoTo(u, "upload")
    /\ UNCHANGED <<pumpVars, spooled, locks, slots, temps, sent, downloadVars, request, cancelled>>

(* cli.UploadReader: fails, at the latest when the context is done.        *)
UploadBody(u) ==
    /\ pc[u] = "upload"
    /\ \/ u \notin cancelled /\ GoTo(u, "send")
       \/ EndWith(u, "UNAVAILABLE", "clean")
    /\ UNCHANGED <<pumpVars, spooled, locks, slots, temps, sent, downloadVars, request, cancelled>>

(* A fault: a failed send is blamed on the request.                        *)
SendMessageBlamed(u) ==
    /\ pc[u] = "send"
    /\ \/ EndWith(u, "OK", "clean") /\ sent' = sent \cup {u}
       \/ EndWith(u, "INVALID_ARGUMENT", "clean") /\ sent' \in {sent, sent \cup {u}}
    /\ UNCHANGED <<pumpVars, spooled, locks, slots, temps, downloadVars, request, cancelled>>

(* cli.SendMessage: when it fails, the message may have gone out.          *)
SendMessage(u) ==
    /\ pc[u] = "send"
    /\ \/ EndWith(u, "OK", "clean") /\ sent' = sent \cup {u}
       \/ EndWith(u, "UNAVAILABLE", "clean") /\ sent' \in {sent, sent \cup {u}}
    /\ UNCHANGED <<pumpVars, spooled, locks, slots, temps, downloadVars, request, cancelled>>

-----------------------------------------------------------------------------
(* The deferred calls of Send and Download, last deferred first.           *)

RemoveTemp(t) ==
    /\ pc[t] = "clean"
    /\ temps' = temps \ {t}
    /\ GoTo(t, "unslot")
    /\ UNCHANGED <<pumpVars, spooled, locks, slots, sent, downloadVars, request, cancelled>>

(* A fault: a transfer that fails keeps its slot.                          *)
ReleaseGlobalIfOK(t) ==
    /\ pc[t] = "unslot"
    /\ slots' = IF result[t] = "OK" THEN slots \ {t} ELSE slots
    /\ GoTo(t, IF t \in Uploads THEN "reply" ELSE "done")
    /\ UNCHANGED <<pumpVars, spooled, locks, temps, sent, downloadVars, request, cancelled>>

ReleaseGlobal(t) ==
    /\ pc[t] = "unslot"
    /\ slots' = slots \ {t}
    /\ GoTo(t, IF t \in Uploads THEN "reply" ELSE "done")
    /\ UNCHANGED <<pumpVars, spooled, locks, temps, sent, downloadVars, request, cancelled>>

(* The locals of an upload are gone when its call ends.                    *)
Forget(u) ==
    /\ request' = [request EXCEPT ![u] = NoRequest]
    /\ left' = [left EXCEPT ![u] = 0]
    /\ given' = [given EXCEPT ![u] = 0]
    /\ spooled' = [spooled EXCEPT ![u] = 0]

Unlock(u) == locks' = [a \in Accounts |-> IF locks[a] = u THEN None ELSE locks[a]]

(* Send gives its account back and returns, the gateway closes the pipe    *)
(* and ends the call, and with it the context.                             *)
Reply(u) ==
    /\ pc[u] = "reply"
    /\ Unlock(u)
    /\ pipe' = [pipe EXCEPT ![u] = "closed"]
    /\ GoTo(u, "done")
    /\ cancelled' = cancelled \cup {u}
    /\ Forget(u)
    /\ UNCHANGED <<pump, slots, temps, sent, downloadVars>>

-----------------------------------------------------------------------------
(* Handler.Download.                                                       *)

(* The call is under way before write_download_to opens its file.  The     *)
(* account may be unknown, or the MediaInfo incomplete.                    *)
DownloadMedia(d) ==
    /\ MayStart(d)
    /\ py' = [py EXCEPT ![d] = "opening"]
    /\ \/ GoTo(d, "slot")
       \/ \E code \in {"INVALID_ARGUMENT", "NOT_FOUND"} : EndWith(d, code, "done")
    /\ UNCHANGED <<pumpVars, spooled, locks, slots, temps, sent, streamed, taken, file, request, cancelled>>

DownloadToFile(d) ==
    /\ pc[d] = "fetch"
    /\ \/ /\ d \notin cancelled
          /\ spooled' = [spooled EXCEPT ![d] = MediaSize]
          /\ GoTo(d, "stream")
       \/ /\ \E code \in {"DATA_LOSS", "UNAVAILABLE"} : EndWith(d, code, "clean")
          /\ UNCHANGED spooled
    /\ UNCHANGED <<pumpVars, locks, slots, temps, sent, downloadVars, request, cancelled>>

(* stream.Send waits for the client to read what it has.                   *)
StreamChunk(d) ==
    /\ pc[d] = "stream"
    /\ streamed[d] < spooled[d]
    /\ \/ /\ taken[d] = streamed[d]
          /\ streamed' = [streamed EXCEPT ![d] = @ + 1]
          /\ UNCHANGED <<pc, result>>
       \/ /\ d \in cancelled
          /\ EndWith(d, "UNAVAILABLE", "clean")
          /\ UNCHANGED streamed
    /\ UNCHANGED <<pumpVars, spooled, locks, slots, temps, sent, taken, py, file, request, cancelled>>

StreamEnds(d) ==
    /\ pc[d] = "stream"
    /\ streamed[d] = spooled[d]
    /\ EndWith(d, "OK", "clean")
    /\ UNCHANGED <<pumpVars, spooled, locks, slots, temps, sent, downloadVars, request, cancelled>>

-----------------------------------------------------------------------------
(* write_download_to.                                                      *)

Turn(d, p) == py' = [py EXCEPT ![d] = p]

(* The call of d is over for its client: the context is done.              *)
Drop(d) == cancelled' = cancelled \cup {d}

(* open(path, "wb") empties the file; or it raises.                        *)
OpenTarget(d) ==
    /\ py[d] = "opening"
    /\ \/ /\ file' = [file EXCEPT ![d] = 0]
          /\ Turn(d, "reading")
          /\ UNCHANGED cancelled
       \/ Turn(d, "raised") /\ Drop(d) /\ UNCHANGED file
    /\ UNCHANGED <<pumpVars, handlerVars, streamed, taken, request>>

TakeChunk(d) ==
    /\ py[d] = "reading"
    /\ taken[d] < streamed[d]
    /\ taken' = [taken EXCEPT ![d] = @ + 1]
    /\ Turn(d, "writing")
    /\ UNCHANGED <<pumpVars, handlerVars, streamed, file, request, cancelled>>

WriteChunk(d) ==
    /\ py[d] = "writing"
    /\ \/ file' = [file EXCEPT ![d] = @ + 1] /\ Turn(d, "reading")
       \/ Turn(d, "failed") /\ UNCHANGED file
    /\ UNCHANGED <<pumpVars, handlerVars, streamed, taken, request, cancelled>>

(* A fault: any end of the stream is its good end.                         *)
StreamOverHoweverEnded(d) ==
    /\ py[d] = "reading"
    /\ pc[d] = "done" \/ d \in cancelled
    /\ Turn(d, "closing")
    /\ UNCHANGED <<pumpVars, handlerVars, streamed, taken, file, request, cancelled>>

(* The stream is over: an OK status comes after all the chunks, an error   *)
(* may overtake some.                                                      *)
StreamOver(d) ==
    /\ py[d] = "reading"
    /\ \/ /\ pc[d] = "done" /\ result[d] = "OK"
          /\ taken[d] = streamed[d]
          /\ Turn(d, "closing")
       \/ /\ (pc[d] = "done" /\ result[d] # "OK") \/ d \in cancelled
          /\ Turn(d, "failed")
    /\ UNCHANGED <<pumpVars, handlerVars, streamed, taken, file, request, cancelled>>

(* The close after the last chunk is not in the try block: when it raises, *)
(* nothing removes the file.                                               *)
CloseTarget(d) ==
    /\ py[d] = "closing"
    /\ Turn(d, "returned") \/ Turn(d, "raised")
    /\ UNCHANGED <<pumpVars, handlerVars, streamed, taken, file, request, cancelled>>

(* After a failure: close, then unlink, whose error is swallowed.          *)
Unlink(d) ==
    /\ py[d] = "failed"
    /\ Drop(d)
    /\ \/ file' = [file EXCEPT ![d] = Gone] /\ Turn(d, "raised")
       \/ Turn(d, "not_removed") /\ UNCHANGED file
    /\ UNCHANGED <<pumpVars, handlerVars, streamed, taken, request>>

(* The task is cancelled at an await.  The thread it waits for goes on, if *)
(* it had started: a file may be emptied, written to or removed that       *)
(* nobody waits for.                                                       *)
CancelDownload(d) ==
    /\ py[d] \in {"opening", "reading", "writing", "closing", "failed"}
    /\ Drop(d)
    /\ \/ py[d] = "opening" /\ file' \in {file, [file EXCEPT ![d] = 0]} /\ Turn(d, "raised")
       \/ py[d] = "reading" /\ UNCHANGED file /\ Turn(d, "failed")
       \/ py[d] = "writing" /\ file' \in {file, [file EXCEPT ![d] = @ + 1]} /\ Turn(d, "failed")
       \/ py[d] = "closing" /\ UNCHANGED file /\ Turn(d, "raised")
       \/ py[d] = "failed" /\ file' \in {file, [file EXCEPT ![d] = Gone]} /\ Turn(d, "raised")
    /\ UNCHANGED <<pumpVars, handlerVars, streamed, taken, request>>

-----------------------------------------------------------------------------
Client(u) == RecvChunk(u) \/ RecvEnd(u) \/ SourceChanged(u)

Pump(u) == RecvFails(u) \/ PumpWriteFails(u)

Release(t) == RemoveTemp(t) \/ ReleaseGlobal(t)

Send(u) ==
    SpoolChunk(u) \/ SpoolEnds(u) \/ UploadBody(u) \/ SendMessage(u) \/ Release(u) \/ Reply(u)

Download(d) == DownloadToFile(d) \/ StreamChunk(d) \/ StreamEnds(d) \/ Release(d)

Reader(d) ==
    OpenTarget(d) \/ TakeChunk(d) \/ WriteChunk(d) \/ StreamOver(d) \/ CloseTarget(d)
        \/ Unlink(d)

Next ==
    \/ \E u \in Uploads :
          \/ SendMedia(u) \/ SendMediaRefused(u) \/ RecvInit(u) \/ Client(u) \/ Pump(u)
          \/ LockAccount(u) \/ Send(u)
    \/ \E d \in Downloads : DownloadMedia(d) \/ Download(d) \/ Reader(d) \/ CancelDownload(d)
    \/ \E t \in Transfers : AcquireGlobal(t) \/ Cancel(t)

Spec == Init /\ [][Next]_vars

(* The sidecar's goroutines run.  The mutex and the channel hand over to   *)
(* those that wait in turn, so nobody who keeps waiting is passed over for *)
(* ever.                                                                   *)
Fairness ==
    /\ \A u \in Uploads : WF_vars(Send(u)) /\ WF_vars(Pump(u)) /\ SF_vars(LockAccount(u))
    /\ \A d \in Downloads : WF_vars(Download(d))
    /\ \A t \in Transfers : SF_vars(AcquireGlobal(t))

FairSpec == Spec /\ Fairness

(* The clients go on with what they began: nothing in the code makes them. *)
ClientFairness ==
    /\ \A u \in Uploads : WF_vars(Client(u))
    /\ \A d \in Downloads : WF_vars(Reader(d))

-----------------------------------------------------------------------------
Codes == {"none", "OK", "INVALID_ARGUMENT", "NOT_FOUND", "RESOURCE_EXHAUSTED",
          "FAILED_PRECONDITION", "DATA_LOSS", "UNAVAILABLE"}

Places == {"idle", "lock", "slot", "spool", "upload", "send", "fetch", "stream",
           "clean", "unslot", "reply", "done"}

(* Every variable has its type.                                            *)
TypeOK ==
    /\ pc \in [Transfers -> Places]
    /\ request \in [Uploads -> Requests \cup {NoRequest}]
    /\ left \in [Uploads -> 0..MaxSource]
    /\ given \in [Uploads -> 0..MaxSource]
    /\ pump \in [Uploads -> {"none", "recv", "chunk", "done"}]
    /\ pipe \in [Uploads -> {"open", "eof", "broken", "closed"}]
    /\ spooled \in [Transfers -> Nat]
    /\ locks \in [Accounts -> Uploads \cup {None}]
    /\ slots \subseteq Transfers
    /\ temps \subseteq Transfers
    /\ cancelled \subseteq Transfers
    /\ sent \subseteq Uploads
    /\ result \in [Transfers -> Codes]
    /\ streamed \in [Downloads -> Nat]
    /\ taken \in [Downloads -> Nat]
    /\ py \in [Downloads -> {"idle", "opening", "reading", "writing", "closing", "failed",
                             "returned", "raised", "not_removed"}]
    /\ file \in [Downloads -> Nat \cup {Old, Gone}]

(* The steps of Send between the account's lock and its release.           *)
Locked == {"slot", "spool", "upload", "send", "clean", "unslot"}

(* An account has one upload at a time between lock and unlock             *)
(* (handler.go:166-168).                                                   *)
OnePerAccount ==
    \A u, v \in Uploads :
        u # v /\ pc[u] \in Locked /\ pc[v] \in Locked => request[u].account # request[v].account

(* The disk never holds more temporary files than there are slots: a file  *)
(* is gone before its slot is given back, on every path (169-185).         *)
FilesWithinLimit == Cardinality(temps) <= GlobalLimit

(* Both: the limits on uploads hold.                                       *)
Quotas == OnePerAccount /\ FilesWithinLimit

(* A message goes out only for a body that was streamed to its end, in     *)
(* full, within the limit and of the declared length: never for one cut    *)
(* off by a cancelled call, a broken connection or a changed source.       *)
SentWhole ==
    [][\A u \in sent' \ sent :
          /\ pipe[u] = "eof" /\ left[u] = 0
          /\ spooled[u] = given[u]
          /\ spooled[u] <= MaxBytes
          /\ request[u].declared \in {0, spooled[u]}]_vars

(* A status that blames the request means that no message went out, so the *)
(* client may correct it and send again (main.go:898-910).                 *)
RefusedMeansNotSent ==
    \A u \in Uploads :
        result[u] \in {"INVALID_ARGUMENT", "NOT_FOUND", "RESOURCE_EXHAUSTED", "FAILED_PRECONDITION"}
            => u \notin sent

(* A download that returns has written the whole file.                     *)
ReturnedMeansWhole == \A d \in Downloads : py[d] = "returned" => file[d] = MediaSize

(* What makes these invariants inductive: who holds a lock, a slot or a    *)
(* file, how far the body has come, and which results a message, or a      *)
(* whole file, leaves possible.                                            *)
Slotted == {"spool", "upload", "send", "fetch", "stream", "clean", "unslot"}
Over == {"clean", "unslot", "reply", "done"}

LockFacts ==
    \A u \in Uploads :
        /\ pc[u] \notin {"idle", "done"} => request[u] \in Requests
        /\ pc[u] \in Locked => locks[request[u].account] = u

SlotFacts ==
    /\ IsFiniteSet(slots) /\ Cardinality(slots) <= GlobalLimit
    /\ \A t \in Transfers : t \in slots <=> pc[t] \in Slotted
    /\ \A t \in temps : pc[t] \in Slotted \ {"unslot"}

Body(u) ==
    /\ left[u] + given[u] <= MaxSource
    /\ pc[u] = "idle" =>
           pump[u] = "none" /\ pipe[u] = "open" /\ given[u] = 0 /\ spooled[u] = 0
    /\ pipe[u] = "closed" => pc[u] = "done"
    /\ pipe[u] = "eof" => pump[u] = "done" /\ left[u] = 0
    /\ pc[u] # "done" => given[u] = spooled[u] + (IF pump[u] = "chunk" THEN 1 ELSE 0)
    /\ pc[u] \in {"upload", "send"} =>
           /\ pipe[u] = "eof"
           /\ spooled[u] <= MaxBytes
           /\ request[u].declared \in {0, spooled[u]}

BodyFacts == \A u \in Uploads : Body(u)

SentFacts == \A u \in sent : pc[u] \in Over /\ result[u] \in {"OK", "UNAVAILABLE"}

Fetched(d) ==
    /\ pc[d] = "stream" => spooled[d] = MediaSize
    /\ result[d] = "OK" => pc[d] \in Over /\ streamed[d] = MediaSize
    /\ py[d] \in {"idle", "opening"} => taken[d] = 0
    /\ py[d] = "idle" <=> pc[d] = "idle"
    /\ py[d] = "reading" => file[d] = taken[d]
    /\ py[d] = "writing" => file[d] \in Nat /\ file[d] + 1 = taken[d]
    /\ py[d] \in {"closing", "returned"} => file[d] = MediaSize

DownloadFacts == \A d \in Downloads : Fetched(d)

IInv == TypeOK /\ LockFacts /\ SlotFacts /\ BodyFacts /\ SentFacts /\ DownloadFacts

(* As long as the clients go on or give up, every transfer ends, however   *)
(* many wait for the same lock and slots, and whichever of them fail.      *)
TransfersEnd ==
    /\ ClientFairness => <>[](\A t \in Transfers : pc[t] \in {"idle", "done"})
    /\ <>[](\A u \in Uploads : pc[u] = "done" => pump[u] \in {"none", "done"})
=============================================================================

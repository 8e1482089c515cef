------------------------- MODULE MediaTransferProofs -------------------------
(***************************************************************************)
(* The safety properties of MediaTransfer for every number of uploads,     *)
(* downloads and accounts, every limit and every length.  IInv of          *)
(* MediaTransfer is the inductive invariant; there is one lemma for each   *)
(* of its conjuncts.                                                       *)
(***************************************************************************)
EXTENDS MediaTransfer, FiniteSetTheorems, TLAPS

(* A name is an upload or a download, never both.                          *)
LEMMA Disjoint == Uploads \cap Downloads = {}
BY CallsAssumption

(* Nobody holds a free lock.                                               *)
LEMMA FreeIsNobody == \A u \in Uploads : u # None
BY NoneAssumption

(* The initial states satisfy the invariant.                               *)
LEMMA IInvInit == Init => IInv
<1> SUFFICES ASSUME Init PROVE IInv
  OBVIOUS
<1> USE DEF Init
<1>1. TypeOK
  BY SizesAssumption DEF TypeOK, Requests, NoRequest, Codes, Places
<1>2. LockFacts
  BY DEF LockFacts, Locked, Transfers
<1>3. SlotFacts
  <2>1. IsFiniteSet({}) /\ Cardinality({}) = 0
    BY FS_EmptySet
  <2> QED BY <2>1, SizesAssumption DEF SlotFacts, Slotted, Transfers
<1>4. BodyFacts
  BY SizesAssumption DEF BodyFacts, Body, Transfers
<1>5. SentFacts
  BY DEF SentFacts
<1>6. DownloadFacts
  BY DEF DownloadFacts, Fetched, Transfers
<1> QED BY <1>1, <1>2, <1>3, <1>4, <1>5, <1>6 DEF IInv

-----------------------------------------------------------------------------
(* Types are preserved.  That lengths stay within their bounds needs that  *)
(* what a client has left and what it has given add up to its source.      *)
LEMMA TypeOKStep == IInv /\ [Next]_vars => TypeOK'
<1> SUFFICES ASSUME IInv, [Next]_vars PROVE TypeOK'
  OBVIOUS
<1> USE DEF TypeOK, Codes, Places, Transfers, GoTo, EndWith
<1>1. TypeOK
  BY DEF IInv
<1>2. ASSUME NEW u \in Uploads, SendMedia(u) \/ SendMediaRefused(u) PROVE TypeOK'
  <2>1. CASE SendMedia(u)
    BY <1>1, <2>1, SizesAssumption DEF MayStart, SendMedia, downloadVars, Requests
  <2>2. CASE SendMediaRefused(u)
    BY <1>1, <2>2 DEF MayStart, SendMediaRefused, downloadVars, pumpVars
  <2> QED BY <1>2, <2>1, <2>2
<1>3. ASSUME NEW u \in Uploads,
             RecvInit(u) \/ Client(u) \/ Pump(u)
      PROVE  TypeOK'
  <2> USE DEF handlerVars, downloadVars, pumpVars, ClosePipe
  <2>1. left[u] + given[u] <= MaxSource
    BY DEF IInv, BodyFacts, Body
  <2>2. CASE RecvChunk(u)
    BY <1>1, <2>1, <2>2, SizesAssumption DEF RecvChunk
  <2>3. CASE RecvEnd(u)
    BY <1>1, <2>3 DEF RecvEnd
  <2>4. CASE RecvInit(u)
    BY <1>1, <2>4 DEF RecvInit
  <2>5. CASE RecvFails(u)
    BY <1>1, <2>5 DEF RecvFails
  <2>6. CASE PumpWriteFails(u)
    BY <1>1, <2>6 DEF PumpWriteFails
  <2>7. CASE SourceChanged(u)
    BY <1>1, <2>7 DEF SourceChanged
  <2> QED BY <1>3, <2>2, <2>3, <2>4, <2>5, <2>6, <2>7 DEF Client, Pump
<1>4. ASSUME NEW t \in Transfers, Cancel(t) \/ AcquireGlobal(t) \/ Release(t) PROVE TypeOK'
  <2> USE DEF handlerVars, downloadVars, pumpVars
  <2>1. CASE Cancel(t)
    BY <1>1, <2>1 DEF Cancel
  <2>2. CASE AcquireGlobal(t)
    BY <1>1, <2>2 DEF AcquireGlobal
  <2>3. CASE RemoveTemp(t)
    BY <1>1, <2>3 DEF RemoveTemp
  <2>4. CASE ReleaseGlobal(t)
    BY <1>1, <2>4 DEF ReleaseGlobal
  <2> QED BY <1>4, <2>1, <2>2, <2>3, <2>4 DEF Release
<1>5. ASSUME NEW u \in Uploads,
             LockAccount(u) \/ SpoolChunk(u) \/ SpoolEnds(u) \/ UploadBody(u) \/ SendMessage(u)
                 \/ Reply(u)
      PROVE  TypeOK'
  <2> USE DEF downloadVars, pumpVars
  <2>1. CASE LockAccount(u)
    BY <1>1, <2>1 DEF LockAccount
  <2>2. CASE SpoolChunk(u)
    BY <1>1, <2>2 DEF SpoolChunk
  <2>3. CASE SpoolEnds(u)
    BY <1>1, <2>3 DEF SpoolEnds
  <2>4. CASE UploadBody(u)
    BY <1>1, <2>4 DEF UploadBody
  <2>5. CASE SendMessage(u)
    BY <1>1, <2>5 DEF SendMessage
  <2>6. CASE Reply(u)
    BY <1>1, <2>6, SizesAssumption DEF Reply, Unlock, Forget
  <2> QED BY <1>5, <2>1, <2>2, <2>3, <2>4, <2>5, <2>6
<1>6. ASSUME NEW d \in Downloads,
             DownloadMedia(d) \/ DownloadToFile(d) \/ StreamChunk(d) \/ StreamEnds(d)
      PROVE  TypeOK'
  <2> USE DEF downloadVars, pumpVars
  <2>1. CASE DownloadMedia(d)
    BY <1>1, <2>1 DEF MayStart, DownloadMedia
  <2>2. CASE DownloadToFile(d)
    BY <1>1, <2>2, SizesAssumption DEF DownloadToFile
  <2>3. CASE StreamChunk(d)
    BY <1>1, <2>3 DEF StreamChunk
  <2>4. CASE StreamEnds(d)
    BY <1>1, <2>4 DEF StreamEnds
  <2> QED BY <1>6, <2>1, <2>2, <2>3, <2>4
<1>7. ASSUME NEW d \in Downloads, Reader(d) \/ CancelDownload(d) PROVE TypeOK'
  <2> USE DEF handlerVars, pumpVars, Turn, Drop
  <2>1. py[d] = "writing" => file[d] \in Nat
    BY <1>7 DEF IInv, DownloadFacts, Fetched
  <2>2. CASE OpenTarget(d)
    BY <1>1, <2>2 DEF OpenTarget
  <2>3. CASE TakeChunk(d)
    BY <1>1, <2>3 DEF TakeChunk
  <2>4. CASE WriteChunk(d)
    BY <1>1, <2>1, <2>4 DEF WriteChunk
  <2>5. CASE StreamOver(d)
    BY <1>1, <2>5 DEF StreamOver
  <2>6. CASE CloseTarget(d)
    BY <1>1, <2>6 DEF CloseTarget
  <2>7. CASE Unlink(d)
    BY <1>1, <2>7 DEF Unlink
  <2>8. CASE CancelDownload(d)
    BY <1>1, <2>1, <2>8 DEF CancelDownload
  <2> QED BY <1>7, <2>2, <2>3, <2>4, <2>5, <2>6, <2>7, <2>8 DEF Reader
<1>8. CASE UNCHANGED vars
  BY <1>1, <1>8 DEF vars, pumpVars, handlerVars, downloadVars
<1> QED BY <1>2, <1>3, <1>4, <1>5, <1>6, <1>7, <1>8 DEF Next, Send, Download

-----------------------------------------------------------------------------
(* Locks.  Only LockAccount takes one, and only a free one; only Reply     *)
(* gives one back, and only its own.                                       *)
LEMMA LockFactsStep == IInv /\ [Next]_vars => LockFacts'
<1> SUFFICES ASSUME IInv, [Next]_vars, NEW v \in Uploads
             PROVE  /\ pc'[v] \notin {"idle", "done"} => request'[v] \in Requests
                    /\ pc'[v] \in Locked => locks'[request'[v].account] = v
  BY DEF LockFacts
<1> USE DEF Transfers, GoTo, EndWith, Locked
<1>1. TypeOK /\ LockFacts
  BY DEF IInv
<1>2. /\ pc \in [Transfers -> Places] /\ request \in [Uploads -> Requests \cup {NoRequest}]
      /\ locks \in [Accounts -> Uploads \cup {None}]
  BY <1>1 DEF TypeOK
<1>3. /\ pc[v] \notin {"idle", "done"} => request[v] \in Requests
      /\ pc[v] \in Locked => locks[request[v].account] = v
  BY <1>1 DEF LockFacts
<1>4. request[v] \in Requests => request[v].account \in Accounts
  BY DEF Requests
<1>5. CASE UNCHANGED <<pc, request, locks>>
  BY <1>3, <1>5
<1>6. ASSUME NEW u \in Uploads, SendMedia(u) \/ SendMediaRefused(u)
      PROVE  /\ pc'[v] \notin {"idle", "done"} => request'[v] \in Requests
             /\ pc'[v] \in Locked => locks'[request'[v].account] = v
  BY <1>2, <1>3, <1>6 DEF MayStart, SendMedia, SendMediaRefused
<1>7. ASSUME NEW u \in Uploads, RecvInit(u) \/ Client(u) \/ Pump(u)
      PROVE  UNCHANGED <<pc, request, locks>>
  BY <1>7 DEF Client, Pump, RecvInit, RecvChunk, RecvEnd, SourceChanged, RecvFails,
              PumpWriteFails, handlerVars
<1>8. ASSUME NEW u \in Uploads, LockAccount(u)
      PROVE  /\ pc'[v] \notin {"idle", "done"} => request'[v] \in Requests
             /\ pc'[v] \in Locked => locks'[request'[v].account] = v
  <2>1. CASE u = v
    BY <1>2, <1>3, <1>4, <1>8, <2>1 DEF LockAccount
  <2>2. CASE u # v
    BY <1>2, <1>3, <1>4, <1>8, <2>2, FreeIsNobody DEF LockAccount
  <2> QED BY <2>1, <2>2
<1>9. ASSUME NEW t \in Transfers,
             Cancel(t) \/ AcquireGlobal(t) \/ Release(t)
      PROVE  /\ pc'[v] \notin {"idle", "done"} => request'[v] \in Requests
             /\ pc'[v] \in Locked => locks'[request'[v].account] = v
  BY <1>2, <1>3, <1>9, Disjoint DEF Cancel, AcquireGlobal, Release, RemoveTemp, ReleaseGlobal, handlerVars
<1>10. ASSUME NEW u \in Uploads, SpoolChunk(u) \/ SpoolEnds(u) \/ UploadBody(u) \/ SendMessage(u)
       PROVE  /\ pc'[v] \notin {"idle", "done"} => request'[v] \in Requests
              /\ pc'[v] \in Locked => locks'[request'[v].account] = v
  BY <1>2, <1>3, <1>10 DEF SpoolChunk, SpoolEnds, UploadBody, SendMessage
<1>11. ASSUME NEW u \in Uploads, Reply(u)
       PROVE  /\ pc'[v] \notin {"idle", "done"} => request'[v] \in Requests
              /\ pc'[v] \in Locked => locks'[request'[v].account] = v
  <2>1. CASE u = v
    BY <1>2, <1>11, <2>1 DEF Reply
  <2>2. CASE u # v
    BY <1>2, <1>3, <1>4, <1>11, <2>2 DEF Reply, Forget, Unlock
  <2> QED BY <2>1, <2>2
<1>12. ASSUME NEW d \in Downloads,
              DownloadMedia(d) \/ DownloadToFile(d) \/ StreamChunk(d) \/ StreamEnds(d)
       PROVE  pc'[v] = pc[v] /\ UNCHANGED <<request, locks>>
  BY <1>2, <1>12, Disjoint DEF MayStart, DownloadMedia, DownloadToFile, StreamChunk, StreamEnds
<1>13. ASSUME NEW d \in Downloads, Reader(d) \/ CancelDownload(d)
       PROVE  UNCHANGED <<pc, request, locks>>
  BY <1>13 DEF Reader, OpenTarget, TakeChunk, WriteChunk, StreamOver, CloseTarget, Unlink,
               CancelDownload, handlerVars
<1>14. CASE UNCHANGED vars
  BY <1>5, <1>14 DEF vars, handlerVars
<1> QED BY <1>3, <1>5, <1>6, <1>7, <1>8, <1>9, <1>10, <1>11, <1>12, <1>13, <1>14
        DEF Next, Send, Download

-----------------------------------------------------------------------------
(* Slots.  A transfer has one from AcquireGlobal to ReleaseGlobal, and its *)
(* file is gone before.                                                    *)
LEMMA SlotFactsStep == IInv /\ [Next]_vars => SlotFacts'
<1> SUFFICES ASSUME IInv, [Next]_vars PROVE SlotFacts'
  OBVIOUS
<1> USE DEF Transfers, GoTo, EndWith, Slotted
<1>1. TypeOK /\ SlotFacts
  BY DEF IInv
<1>2. pc \in [Transfers -> Places] /\ slots \subseteq Transfers /\ temps \subseteq Transfers
  BY <1>1 DEF TypeOK
<1>3. CASE UNCHANGED <<pc, slots, temps>>
  BY <1>1, <1>3 DEF SlotFacts
<1>4. ASSUME NEW u \in Uploads,
             SendMedia(u) \/ SendMediaRefused(u) \/ LockAccount(u) \/ SpoolChunk(u) \/ SpoolEnds(u)
                 \/ UploadBody(u) \/ SendMessage(u) \/ Reply(u)
      PROVE  SlotFacts'
  <2>1. UNCHANGED <<slots, temps>> /\ \A t \in Transfers : t # u => pc'[t] = pc[t]
    BY <1>2, <1>4 DEF MayStart, SendMedia, SendMediaRefused, LockAccount, SpoolChunk, SpoolEnds, UploadBody,
                      SendMessage, Reply
  <2>2. /\ pc'[u] \in Slotted <=> pc[u] \in Slotted
        /\ pc[u] \in Slotted \ {"unslot"} => pc'[u] \in Slotted \ {"unslot"}
    BY <1>2, <1>4 DEF MayStart, SendMedia, SendMediaRefused, LockAccount, SpoolChunk, SpoolEnds, UploadBody,
                      SendMessage, Reply
  <2> QED BY <1>1, <1>2, <2>1, <2>2 DEF SlotFacts
<1>5. ASSUME NEW u \in Uploads, RecvInit(u) \/ Client(u) \/ Pump(u)
      PROVE  UNCHANGED <<pc, slots, temps>>
  BY <1>5 DEF Client, Pump, RecvInit, RecvChunk, RecvEnd, SourceChanged, RecvFails,
              PumpWriteFails, handlerVars
<1>6. ASSUME NEW t \in Transfers, AcquireGlobal(t) PROVE SlotFacts'
  <2>1. IsFiniteSet(slots) /\ Cardinality(slots) < GlobalLimit /\ t \notin slots
    BY <1>1, <1>6 DEF SlotFacts, AcquireGlobal
  <2>2. IsFiniteSet(slots') /\ Cardinality(slots') = Cardinality(slots) + 1
    BY <1>6, <2>1, FS_AddElement DEF AcquireGlobal
  <2>3. Cardinality(slots) \in Nat
    BY <2>1, FS_CardinalityType
  <2>4. Cardinality(slots') <= GlobalLimit
    BY <2>1, <2>2, <2>3, SizesAssumption
  <2>5. \A s \in Transfers : s \in slots' <=> pc'[s] \in Slotted
    BY <1>1, <1>2, <1>6 DEF SlotFacts, AcquireGlobal
  <2>6. \A s \in temps' : pc'[s] \in Slotted \ {"unslot"}
    BY <1>1, <1>2, <1>6 DEF SlotFacts, AcquireGlobal
  <2> QED BY <2>2, <2>4, <2>5, <2>6 DEF SlotFacts
<1>7. ASSUME NEW t \in Transfers, RemoveTemp(t) PROVE SlotFacts'
  BY <1>1, <1>2, <1>7 DEF SlotFacts, RemoveTemp
<1>8. ASSUME NEW t \in Transfers, ReleaseGlobal(t) PROVE SlotFacts'
  <2>1. IsFiniteSet(slots') /\ Cardinality(slots') <= Cardinality(slots)
    BY <1>1, <1>8, FS_Subset DEF SlotFacts, ReleaseGlobal
  <2>2. Cardinality(slots) \in Nat /\ Cardinality(slots') \in Nat
    BY <1>1, <2>1, FS_CardinalityType DEF SlotFacts
  <2>3. Cardinality(slots') <= GlobalLimit
    BY <1>1, <2>1, <2>2, SizesAssumption DEF SlotFacts
  <2>4. /\ \A s \in Transfers : s \in slots' <=> pc'[s] \in Slotted
        /\ \A s \in temps' : pc'[s] \in Slotted \ {"unslot"}
    BY <1>1, <1>2, <1>8 DEF SlotFacts, ReleaseGlobal
  <2> QED BY <2>1, <2>3, <2>4 DEF SlotFacts
<1>9. ASSUME NEW d \in Downloads,
             DownloadMedia(d) \/ DownloadToFile(d) \/ StreamChunk(d) \/ StreamEnds(d)
      PROVE  SlotFacts'
  <2>1. UNCHANGED <<slots, temps>> /\ \A t \in Transfers : t # d => pc'[t] = pc[t]
    BY <1>2, <1>9 DEF MayStart, DownloadMedia, DownloadToFile, StreamChunk, StreamEnds
  <2>2. /\ pc'[d] \in Slotted <=> pc[d] \in Slotted
        /\ pc[d] \in Slotted \ {"unslot"} => pc'[d] \in Slotted \ {"unslot"}
    BY <1>2, <1>9 DEF MayStart, DownloadMedia, DownloadToFile, StreamChunk, StreamEnds
  <2> QED BY <1>1, <1>2, <2>1, <2>2 DEF SlotFacts
<1>10. ASSUME NEW d \in Downloads, Reader(d) \/ CancelDownload(d)
       PROVE  UNCHANGED <<pc, slots, temps>>
  BY <1>10 DEF Reader, OpenTarget, TakeChunk, WriteChunk, StreamOver, CloseTarget, Unlink,
               CancelDownload, handlerVars
<1>11. ASSUME NEW t \in Transfers, Cancel(t) PROVE UNCHANGED <<pc, slots, temps>>
  BY <1>11 DEF Cancel, handlerVars
<1>12. CASE UNCHANGED vars
  BY <1>3, <1>12 DEF vars, handlerVars
<1> QED BY <1>3, <1>4, <1>5, <1>6, <1>7, <1>8, <1>9, <1>10, <1>11, <1>12
        DEF Next, Send, Download, Release

-----------------------------------------------------------------------------
(* The body.  What the pump has received is what the handler has spooled,  *)
(* and at most one chunk more; at "eof" the source is empty.               *)
LEMMA BodyFactsStep == IInv /\ [Next]_vars => BodyFacts'
<1> SUFFICES ASSUME IInv, [Next]_vars, NEW v \in Uploads PROVE Body(v)'
  BY DEF BodyFacts
<1> USE DEF Transfers, GoTo, EndWith, Body
<1>1. Body(v)
  BY DEF IInv, BodyFacts
<1>2. /\ pc \in [Transfers -> Places] /\ request \in [Uploads -> Requests \cup {NoRequest}]
      /\ left \in [Uploads -> 0..MaxSource] /\ given \in [Uploads -> 0..MaxSource]
      /\ pump \in [Uploads -> {"none", "recv", "chunk", "done"}]
      /\ pipe \in [Uploads -> {"open", "eof", "broken", "closed"}]
      /\ spooled \in [Transfers -> Nat]
  BY DEF IInv, TypeOK
<1>3. ASSUME UNCHANGED <<pumpVars, request>>, pc'[v] = pc[v], spooled'[v] = spooled[v]
      PROVE  Body(v)'
  BY <1>1, <1>3 DEF pumpVars
<1>4. ASSUME NEW u \in Uploads, SendMedia(u) PROVE Body(v)'
  BY <1>1, <1>2, <1>4, SizesAssumption DEF MayStart, SendMedia
<1>5. ASSUME NEW u \in Uploads, SendMediaRefused(u) \/ LockAccount(u) \/ UploadBody(u) \/ SendMessage(u)
      PROVE  Body(v)'
  BY <1>1, <1>2, <1>5 DEF MayStart, SendMediaRefused, LockAccount, UploadBody, SendMessage, pumpVars
<1>6. ASSUME NEW u \in Uploads, RecvInit(u) \/ Client(u) \/ Pump(u) PROVE Body(v)'
  <2> USE DEF handlerVars, pumpVars, ClosePipe
  <2>1. CASE RecvChunk(u)
    BY <1>1, <1>2, <2>1, SizesAssumption DEF RecvChunk
  <2>2. CASE RecvEnd(u) \/ RecvInit(u) \/ RecvFails(u)
    BY <1>1, <1>2, <2>2 DEF RecvEnd, RecvInit, RecvFails
  <2>3. CASE PumpWriteFails(u)
    BY <1>1, <1>2, <2>3 DEF PumpWriteFails
  <2>4. CASE SourceChanged(u)
    BY <1>3, <2>4 DEF SourceChanged
  <2> QED BY <1>6, <2>1, <2>2, <2>3, <2>4 DEF Client, Pump
<1>7. ASSUME NEW u \in Uploads, SpoolChunk(u) PROVE Body(v)'
  BY <1>1, <1>2, <1>7 DEF SpoolChunk
<1>8. ASSUME NEW u \in Uploads, SpoolEnds(u) PROVE Body(v)'
  BY <1>1, <1>2, <1>8, SizesAssumption DEF SpoolEnds, pumpVars
<1>9. ASSUME NEW u \in Uploads, Reply(u) PROVE Body(v)'
  BY <1>1, <1>2, <1>9, SizesAssumption DEF Reply, Forget
<1>10. ASSUME NEW t \in Transfers, AcquireGlobal(t) \/ Release(t) PROVE Body(v)'
  BY <1>1, <1>2, <1>10 DEF AcquireGlobal, Release, RemoveTemp, ReleaseGlobal, pumpVars
<1>11. ASSUME NEW t \in Transfers, Cancel(t) PROVE Body(v)'
  BY <1>3, <1>11 DEF Cancel, handlerVars
<1>12. ASSUME NEW d \in Downloads,
              DownloadMedia(d) \/ DownloadToFile(d) \/ StreamChunk(d) \/ StreamEnds(d)
       PROVE  Body(v)'
  BY <1>2, <1>3, <1>12, Disjoint DEF MayStart, DownloadMedia, DownloadToFile, StreamChunk, StreamEnds, pumpVars
<1>13. ASSUME NEW d \in Downloads, Reader(d) \/ CancelDownload(d) PROVE Body(v)'
  BY <1>3, <1>13 DEF Reader, OpenTarget, TakeChunk, WriteChunk, StreamOver, CloseTarget, Unlink,
                     CancelDownload, handlerVars
<1>14. CASE UNCHANGED vars
  BY <1>3, <1>14 DEF vars, handlerVars
<1> QED BY <1>4, <1>5, <1>6, <1>7, <1>8, <1>9, <1>10, <1>11, <1>12, <1>13, <1>14
        DEF Next, Send, Download

-----------------------------------------------------------------------------
(* A message goes out in SendMessage only, and no later step changes the   *)
(* status of its call.                                                     *)
LEMMA SentFactsStep == IInv /\ [Next]_vars => SentFacts'
<1> SUFFICES ASSUME IInv, [Next]_vars, NEW v \in sent'
             PROVE  pc'[v] \in Over /\ result'[v] \in {"OK", "UNAVAILABLE"}
  BY DEF SentFacts
<1> USE DEF Transfers, GoTo, EndWith, Over
<1>1. /\ pc \in [Transfers -> Places] /\ result \in [Transfers -> Codes] /\ sent \subseteq Uploads
      /\ v \in sent => pc[v] \in Over /\ result[v] \in {"OK", "UNAVAILABLE"}
  BY DEF IInv, TypeOK, SentFacts
<1>2. CASE UNCHANGED <<pc, result, sent>>
  BY <1>1, <1>2
<1>3. ASSUME NEW u \in Uploads,
             SendMedia(u) \/ SendMediaRefused(u) \/ LockAccount(u) \/ SpoolChunk(u) \/ SpoolEnds(u)
                 \/ UploadBody(u) \/ Reply(u)
      PROVE  pc'[v] \in Over /\ result'[v] \in {"OK", "UNAVAILABLE"}
  BY <1>1, <1>3 DEF MayStart, SendMedia, SendMediaRefused, LockAccount, SpoolChunk, SpoolEnds, UploadBody, Reply
<1>4. ASSUME NEW u \in Uploads, SendMessage(u)
      PROVE  pc'[v] \in Over /\ result'[v] \in {"OK", "UNAVAILABLE"}
  BY <1>1, <1>4 DEF SendMessage
<1>5. ASSUME NEW u \in Uploads, RecvInit(u) \/ Client(u) \/ Pump(u)
      PROVE  UNCHANGED <<pc, result, sent>>
  BY <1>5 DEF Client, Pump, RecvInit, RecvChunk, RecvEnd, SourceChanged, RecvFails,
              PumpWriteFails, handlerVars
<1>6. ASSUME NEW t \in Transfers, Cancel(t) \/ AcquireGlobal(t) \/ Release(t)
      PROVE  pc'[v] \in Over /\ result'[v] \in {"OK", "UNAVAILABLE"}
  BY <1>1, <1>6 DEF Cancel, AcquireGlobal, Release, RemoveTemp, ReleaseGlobal, handlerVars
<1>7. ASSUME NEW d \in Downloads,
             DownloadMedia(d) \/ DownloadToFile(d) \/ StreamChunk(d) \/ StreamEnds(d)
      PROVE  pc'[v] \in Over /\ result'[v] \in {"OK", "UNAVAILABLE"}
  BY <1>1, <1>7, Disjoint DEF MayStart, DownloadMedia, DownloadToFile, StreamChunk, StreamEnds
<1>8. ASSUME NEW d \in Downloads, Reader(d) \/ CancelDownload(d)
      PROVE  UNCHANGED <<pc, result, sent>>
  BY <1>8 DEF Reader, OpenTarget, TakeChunk, WriteChunk, StreamOver, CloseTarget, Unlink,
              CancelDownload, handlerVars
<1>9. CASE UNCHANGED vars
  BY <1>2, <1>9 DEF vars, handlerVars
<1> QED BY <1>2, <1>3, <1>4, <1>5, <1>6, <1>7, <1>8, <1>9 DEF Next, Send, Download

-----------------------------------------------------------------------------
(* Downloads.  The target file grows with the chunks taken, and "OK" comes *)
(* when all have been streamed.                                            *)
LEMMA DownloadFactsStep == IInv /\ [Next]_vars => DownloadFacts'
<1> SUFFICES ASSUME IInv, [Next]_vars, NEW v \in Downloads PROVE Fetched(v)'
  BY DEF DownloadFacts
<1> USE DEF Transfers, GoTo, EndWith, Over, Fetched
<1>1. Fetched(v)
  BY DEF IInv, DownloadFacts
<1>2. /\ pc \in [Transfers -> Places] /\ result \in [Transfers -> Codes]
      /\ spooled \in [Transfers -> Nat]
      /\ streamed \in [Downloads -> Nat] /\ taken \in [Downloads -> Nat]
      /\ DOMAIN py = Downloads /\ DOMAIN file = Downloads
  BY DEF IInv, TypeOK
<1>3. ASSUME UNCHANGED downloadVars,
             pc'[v] = pc[v], spooled'[v] = spooled[v], result'[v] = result[v]
      PROVE  Fetched(v)'
  BY <1>1, <1>3 DEF downloadVars
<1>4. ASSUME NEW u \in Uploads,
             SendMedia(u) \/ SendMediaRefused(u) \/ LockAccount(u) \/ SpoolChunk(u) \/ SpoolEnds(u)
                 \/ UploadBody(u) \/ SendMessage(u) \/ Reply(u)
      PROVE  Fetched(v)'
  <2>1. u # v
    BY Disjoint
  <2> QED BY <1>2, <1>3, <1>4, <2>1
          DEF MayStart, SendMedia, SendMediaRefused, LockAccount, SpoolChunk, SpoolEnds, UploadBody,
              SendMessage, Reply, Forget, downloadVars
<1>5. ASSUME NEW u \in Uploads, RecvInit(u) \/ Client(u) \/ Pump(u) PROVE Fetched(v)'
  BY <1>3, <1>5 DEF Client, Pump, RecvInit, RecvChunk, RecvEnd, SourceChanged, RecvFails,
                    PumpWriteFails, handlerVars
<1>6. ASSUME NEW t \in Transfers, Cancel(t) PROVE Fetched(v)'
  BY <1>3, <1>6 DEF Cancel, handlerVars
<1>7. ASSUME NEW t \in Transfers, AcquireGlobal(t) \/ Release(t) PROVE Fetched(v)'
  BY <1>1, <1>2, <1>7, Disjoint DEF AcquireGlobal, Release, RemoveTemp, ReleaseGlobal, downloadVars
<1>8. ASSUME NEW d \in Downloads, DownloadMedia(d) PROVE Fetched(v)'
  BY <1>1, <1>2, <1>8 DEF MayStart, DownloadMedia
<1>9. ASSUME NEW d \in Downloads, DownloadToFile(d) \/ StreamEnds(d) PROVE Fetched(v)'
  BY <1>1, <1>2, <1>9 DEF DownloadToFile, StreamEnds, downloadVars
<1>10. ASSUME NEW d \in Downloads, StreamChunk(d) PROVE Fetched(v)'
  BY <1>1, <1>2, <1>10 DEF StreamChunk
<1>11. ASSUME NEW d \in Downloads, Reader(d) \/ CancelDownload(d) PROVE Fetched(v)'
  <2> USE DEF handlerVars, Turn, Drop
  <2>1. CASE OpenTarget(d)
    BY <1>1, <1>2, <2>1 DEF OpenTarget
  <2>2. CASE TakeChunk(d)
    BY <1>1, <1>2, <2>2 DEF TakeChunk
  <2>3. CASE WriteChunk(d)
    BY <1>1, <1>2, <2>3 DEF WriteChunk
  <2>4. CASE StreamOver(d)
    BY <1>1, <1>2, <2>4 DEF StreamOver
  <2>5. CASE CloseTarget(d) \/ Unlink(d)
    BY <1>1, <1>2, <2>5 DEF CloseTarget, Unlink
  <2>6. CASE CancelDownload(d)
    BY <1>1, <1>2, <2>6 DEF CancelDownload
  <2> QED BY <1>11, <2>1, <2>2, <2>3, <2>4, <2>5, <2>6 DEF Reader
<1>12. CASE UNCHANGED vars
  BY <1>3, <1>12 DEF vars, handlerVars
<1> QED BY <1>4, <1>5, <1>6, <1>7, <1>8, <1>9, <1>10, <1>11, <1>12 DEF Next, Send, Download

-----------------------------------------------------------------------------
(* The invariant holds in every reachable state.                           *)
THEOREM Invariance == Spec => []IInv
<1>1. IInv /\ [Next]_vars => IInv'
  BY TypeOKStep, LockFactsStep, SlotFactsStep, BodyFactsStep, SentFactsStep, DownloadFactsStep
     DEF IInv
<1> QED BY IInvInit, <1>1, PTL DEF Spec

(* Every variable keeps its type; in particular, no client makes the       *)
(* counters exceed its source (handler.go, _media.py).                     *)
THEOREM TypeInvariant == Spec => []TypeOK
<1>1. IInv => TypeOK
  BY DEF IInv
<1> QED BY Invariance, <1>1, PTL

(* However many transfers there are, each account has at most one upload   *)
(* between Lock and Unlock, and there are never more temporary files than  *)
(* slots (handler.go:166-185, 276-285).                                    *)
THEOREM QuotasHold == Spec => []Quotas
<1>1. ASSUME LockFacts PROVE OnePerAccount
  <2> SUFFICES ASSUME NEW u \in Uploads, NEW v \in Uploads, u # v,
                      pc[u] \in Locked, pc[v] \in Locked
               PROVE  request[u].account # request[v].account
    BY DEF OnePerAccount
  <2>1. locks[request[u].account] = u /\ locks[request[v].account] = v
    BY <1>1 DEF LockFacts
  <2> QED BY <2>1
<1>2. ASSUME IInv PROVE FilesWithinLimit
  <2>1. temps \subseteq slots
    BY <1>2 DEF IInv, SlotFacts, TypeOK
  <2>2. IsFiniteSet(slots) /\ Cardinality(slots) <= GlobalLimit
    BY <1>2 DEF IInv, SlotFacts
  <2>3. IsFiniteSet(temps) /\ Cardinality(temps) <= Cardinality(slots)
    BY <2>1, <2>2, FS_Subset
  <2>4. Cardinality(temps) \in Nat /\ Cardinality(slots) \in Nat
    BY <2>2, <2>3, FS_CardinalityType
  <2> QED BY <2>2, <2>3, <2>4, SizesAssumption DEF FilesWithinLimit
<1>3. IInv => Quotas
  BY <1>1, <1>2 DEF IInv, Quotas
<1> QED BY Invariance, <1>3, PTL

(* A status that blames the request is never given to a call whose message *)
(* went out (main.go:898-910).                                             *)
THEOREM RefusalsAreClean == Spec => []RefusedMeansNotSent
<1>1. IInv => RefusedMeansNotSent
  BY DEF IInv, SentFacts, RefusedMeansNotSent
<1> QED BY Invariance, <1>1, PTL

(* write_download_to returns only when the file is whole (_media.py).      *)
THEOREM ReturnedIsWhole == Spec => []ReturnedMeansWhole
<1>1. IInv => ReturnedMeansWhole
  BY DEF IInv, DownloadFacts, Fetched, ReturnedMeansWhole
<1> QED BY Invariance, <1>1, PTL

(* Whatever its client does, a message goes out only for a body that came  *)
(* to its end, in full, within the limit and of the declared length        *)
(* (handler.go:186-222).                                                   *)
THEOREM SentIsWhole == Spec => SentWhole
<1>1. ASSUME IInv, [Next]_vars, NEW v \in sent' \ sent
      PROVE  /\ pipe[v] = "eof" /\ left[v] = 0
             /\ spooled[v] = given[v]
             /\ spooled[v] <= MaxBytes
             /\ request[v].declared \in {0, spooled[v]}
  <2>1. PICK u \in Uploads : SendMessage(u)
    BY <1>1 DEF Next, Send, Download, Client, Pump, Release, Reader,
                MayStart, SendMedia, SendMediaRefused, RecvInit, RecvChunk, RecvEnd, SourceChanged, RecvFails,
                PumpWriteFails, LockAccount, SpoolChunk, SpoolEnds, UploadBody, Reply, RemoveTemp,
                ReleaseGlobal, AcquireGlobal, Cancel, DownloadMedia, DownloadToFile, StreamChunk,
                StreamEnds, OpenTarget, TakeChunk, WriteChunk, StreamOver, CloseTarget, Unlink,
                CancelDownload, handlerVars, vars
  <2>2. v = u /\ v \in Uploads /\ pc[v] = "send"
    BY <1>1, <2>1 DEF SendMessage
  <2>3. Body(v) /\ spooled[v] \in Nat
    BY <1>1, <2>2 DEF IInv, TypeOK, BodyFacts, Transfers
  <2> QED BY <2>2, <2>3 DEF Body
<1>2. IInv /\ [Next]_vars =>
          [\A u \in sent' \ sent :
              /\ pipe[u] = "eof" /\ left[u] = 0
              /\ spooled[u] = given[u]
              /\ spooled[u] <= MaxBytes
              /\ request[u].declared \in {0, spooled[u]}]_vars
  BY <1>1
<1> QED BY Invariance, <1>2, PTL DEF Spec, SentWhole
=============================================================================

------------------------------ MODULE EventBus ------------------------------
(***************************************************************************)
(* src/internal/events/bus.go (Bus: emit, Sink, PumpQRChannel, Subscribe,  *)
(* Close and the JID cache) with its users in                              *)
(* src/cmd/fastmeow-sidecar/main.go: the RPCs that register, connect and   *)
(* log out an account, the StreamEvents handler that empties the bus, and  *)
(* the shutdown goroutine that closes it.                                  *)
(*                                                                         *)
(* Every account has two goroutines that put events on the bus: whatsmeow's *)
(* dispatch goroutine, which calls Sink, and the PumpQRChannel goroutine   *)
(* that Connect starts for an unpaired account.  emit takes the number     *)
(* (seq.Add) and sends the event (the select) in two steps, and other      *)
(* goroutines run in between.                                              *)
(*                                                                         *)
(* External, from how the sidecar uses whatsmeow: a panic in an event      *)
(* handler is recovered by the dispatch goroutine; Disconnect stops new    *)
(* events of a client, but neither an event being dispatched nor the QR    *)
(* channel, which lives under context.Background() (main.go:357).          *)
(*                                                                         *)
(* A JID reaches the cache after the account has it: EnsureAccount seeds   *)
(* the cache with what it read off the registry (main.go:305, 322), and    *)
(* whatsmeow pairs the device before it dispatches PairSuccess (bus.go:146). *)
(* In between anything may happen.                                         *)
(*                                                                         *)
(* Abstractions: an event is its kind; one QR goroutine per account at a   *)
(* time; EnsureAccount calls that read the same JID are one; emit takes    *)
(* the number and reads the cache in one step, Logout removes the entry    *)
(* and deletes the device in one.                                          *)
(***************************************************************************)
EXTENDS Naturals, Sequences, FiniteSets

CONSTANTS
    Accounts,
    Jids,       \* the JIDs an account can be paired with
    NoJid,      \* the empty JID
    Batches,    \* what translate() can return: sequences of wire event kinds
    BufferSize, \* capacity of the channel
    MaxEvents,  \* bound: number of events the goroutines emit
    MaxPairings \* bound: number of pairings

ASSUME BufferSizeAssumption == BufferSize \in Nat \ {0}
ASSUME BoundsAssumption == MaxEvents \in Nat /\ MaxPairings \in Nat
ASSUME BatchesAssumption == \A b \in Batches : Len(b) \in Nat
ASSUME NoJidAssumption == NoJid \notin Jids

VARIABLES
    seq,         \* the counter Bus.seq
    buffer,      \* the channel Bus.out
    closed,      \* Bus.out is closed
    dropCount,   \* Bus.dropCount
    jids,        \* the cache Bus.jids
    clients,     \* accounts in the registry
    paired,      \* [Accounts -> JID]: the ID of the whatsmeow device
    pairings,    \* number of pairings so far
    seeding,     \* EnsureAccount calls between registry and cache: <<account, JID>>
    pairSuccess, \* pairings whose PairSuccess Sink has not got yet: <<account, JID>>
    told,        \* history: has the account's JID reached the cache?
    pumping,     \* accounts whose PumpQRChannel goroutine runs
    todo,        \* [Producers -> Seq(event)]: what the goroutine has to emit
    stamped,     \* producers that have numbered the head of their todo
    begun,       \* number of events that goroutines have begun to emit
    stream,      \* the StreamEvents handler: "none", "open" or "ended"
    includeSoft, \* its request's include_soft_events
    inHand,      \* the event it has received and is sending
    sent,        \* history: the events the client was sent
    lost,        \* history: number of events filtered or lost on the way
    phase,       \* the shutdown goroutine
    crashed      \* an unrecovered panic has ended the process

busVars == <<seq, buffer, closed, dropCount>>
jidVars == <<jids, seeding, pairSuccess, told>>
accountVars == <<clients, paired, pairings, pumping, jidVars>>
producerVars == <<todo, stamped, begun>>
streamVars == <<stream, includeSoft, inHand, sent>>
mainVars == <<phase, crashed>>
vars == <<busVars, accountVars, producerVars, streamVars, lost, mainVars>>

Producers == Accounts \X {"dispatch", "pump"}
AccountOf(p) == p[1]
Phases == {"up", "disconnected", "closed", "stopped"}
Kinds == {"qr", "pair_success"} \cup
         UNION {{b[i] : i \in 1..Len(b)} : b \in Batches}

(* What a wire event carries; "from" is the goroutine that emitted it.     *)
Event(p, kind, jid) == [seq |-> 0, from |-> p, kind |-> kind, jid |-> jid]

IsSoftEvent(e) == e.kind \in {"receipt", "presence", "chat_presence"}

Running == phase # "stopped" /\ ~crashed

Init ==
    /\ seq = 0 /\ buffer = <<>> /\ closed = FALSE /\ dropCount = 0
    /\ jids = [a \in Accounts |-> NoJid]
    /\ clients = {}
    /\ paired \in [Accounts -> Jids \cup {NoJid}]
    /\ pairings = 0
    /\ pumping = {}
    /\ seeding = {} /\ pairSuccess = {}
    /\ told = [a \in Accounts |-> "no"]
    /\ todo = [p \in Producers |-> <<>>] /\ stamped = {} /\ begun = 0
    /\ stream = "none" /\ includeSoft = FALSE /\ inHand = <<>> /\ sent = <<>>
    /\ lost = 0
    /\ phase = "up" /\ crashed = FALSE

-----------------------------------------------------------------------------
(* The RPCs on accounts.                                                   *)

(* A JID of account a is on its way to the cache.                          *)
Arriving(a) == \E jid \in Jids : <<a, jid>> \in seeding \cup pairSuccess

(* History: the JID of account a gets to the cache.                        *)
Told(a) == told' = [told EXCEPT ![a] = IF @ = "overtaken" THEN "overtaken" ELSE "yes"]

(* registry.EnsureAccount: the account is registered, and the call has     *)
(* read the JID of its device.                                             *)
EnsureAccount(a) ==
    /\ Running
    /\ clients' = clients \cup {a}
    /\ seeding' = IF paired[a] = NoJid THEN seeding ELSE seeding \cup {<<a, paired[a]>>}
    /\ UNCHANGED <<busVars, jids, pairSuccess, told, paired, pairings,
                   pumping, producerVars, streamVars, lost, mainVars>>

(* A fault: the reply tells the app the JID, the cache does not get it.    *)
ReplyUnseeded(a, jid) ==
    /\ Running
    /\ <<a, jid>> \in seeding
    /\ seeding' = seeding \ {<<a, jid>>}
    /\ Told(a)
    /\ UNCHANGED <<busVars, jids, pairSuccess, clients, paired, pairings,
                   pumping, producerVars, streamVars, lost, mainVars>>

(* The rest of the call: the JID it has read goes to the cache, then to    *)
(* the app in the reply.                                                   *)
SetAccountJID(a, jid) ==
    /\ Running
    /\ <<a, jid>> \in seeding
    /\ seeding' = seeding \ {<<a, jid>>}
    /\ jids' = [jids EXCEPT ![a] = jid]
    /\ Told(a)
    /\ UNCHANGED <<busVars, pairSuccess, clients, paired, pairings,
                   pumping, producerVars, streamVars, lost, mainVars>>

(* Connect of an account that is not paired starts the QR goroutine.       *)
Connect(a) ==
    /\ Running
    /\ a \in clients
    /\ paired[a] = NoJid
    /\ pumping' = pumping \cup {a}
    /\ UNCHANGED <<busVars, jidVars, clients, paired, pairings, producerVars,
                   streamVars, lost, mainVars>>

(* Logout: the entry and the device go, the JID cache keeps its entry, and *)
(* a JID on its way to the cache goes on.                                  *)
Logout(a) ==
    /\ Running
    /\ a \in clients
    /\ clients' = clients \ {a}
    /\ paired' = [paired EXCEPT ![a] = NoJid]
    /\ told' = [told EXCEPT ![a] = IF Arriving(a) \/ @ = "overtaken" THEN "overtaken" ELSE "no"]
    /\ UNCHANGED <<busVars, jids, seeding, pairSuccess, pairings, pumping,
                   producerVars, streamVars, lost, mainVars>>

-----------------------------------------------------------------------------
(* The goroutines that emit.                                               *)

Begin(p, events) ==
    /\ todo[p] = <<>>
    /\ begun + Len(events) <= MaxEvents
    /\ todo' = [todo EXCEPT ![p] = events]
    /\ begun' = begun + Len(events)
    /\ UNCHANGED stamped

(* Sink, called with an event that translate() turns into a batch.         *)
Sink(a, batch) ==
    /\ Running
    /\ phase = "up"
    /\ a \in clients
    /\ Begin(<<a, "dispatch">>,
             [i \in 1..Len(batch) |-> Event(<<a, "dispatch">>, batch[i], NoJid)])
    /\ UNCHANGED <<busVars, accountVars, streamVars, lost, mainVars>>

(* External: the code is scanned and whatsmeow pairs the device.           *)
Pair(a, jid) ==
    /\ Running
    /\ phase = "up"
    /\ a \in pumping \cap clients
    /\ paired[a] = NoJid
    /\ pairings < MaxPairings
    /\ pairings' = pairings + 1
    /\ paired' = [paired EXCEPT ![a] = jid]
    /\ pairSuccess' = pairSuccess \cup {<<a, jid>>}
    /\ UNCHANGED <<busVars, jids, seeding, told, clients, pumping,
                   producerVars, streamVars, lost, mainVars>>

(* Sink, called with PairSuccess: the cache first, then the event.         *)
SinkPairSuccess(a, jid) ==
    /\ Running
    /\ <<a, jid>> \in pairSuccess
    /\ pairSuccess' = pairSuccess \ {<<a, jid>>}
    /\ jids' = [jids EXCEPT ![a] = jid]
    /\ Told(a)
    /\ Begin(<<a, "dispatch">>, <<Event(<<a, "dispatch">>, "pair_success", jid)>>)
    /\ UNCHANGED <<busVars, seeding, clients, paired, pairings, pumping,
                   streamVars, lost, mainVars>>

(* PumpQRChannel takes an item: a code, or a timeout or an error, which    *)
(* qrItemToResp reports as a disconnect and the bus treats alike.  The     *)
(* item "success" emits nothing.                                           *)
PumpItem(a) ==
    /\ Running
    /\ a \in pumping
    /\ Begin(<<a, "pump">>, <<Event(<<a, "pump">>, "qr", NoJid)>>)
    /\ UNCHANGED <<busVars, accountVars, streamVars, lost, mainVars>>

(* The QR channel is closed.                                               *)
PumpEnds(a) ==
    /\ Running
    /\ a \in pumping
    /\ todo[<<a, "pump">>] = <<>>
    /\ pumping' = pumping \ {a}
    /\ UNCHANGED <<busVars, jidVars, clients, paired, pairings, producerVars,
                   streamVars, lost, mainVars>>

(* A fault: the number is read off the counter, which stays as it is.      *)
StampWithoutAdding(p) ==
    /\ Running
    /\ todo[p] # <<>> /\ p \notin stamped
    /\ stamped' = stamped \cup {p}
    /\ todo' = [todo EXCEPT ![p] =
                   <<[Head(@) EXCEPT !.seq = seq + 1]>> \o Tail(@)]
    /\ UNCHANGED <<busVars, accountVars, begun, streamVars, lost, mainVars>>

(* emit up to the select: the number and, if need be, the cached JID.      *)
Stamp(p) ==
    /\ Running
    /\ todo[p] # <<>> /\ p \notin stamped
    /\ stamped' = stamped \cup {p}
    /\ seq' = seq + 1
    /\ LET e == Head(todo[p])
           jid == IF e.jid = NoJid THEN jids[AccountOf(p)] ELSE e.jid
       IN  todo' = [todo EXCEPT ![p] =
                       <<[e EXCEPT !.seq = seq + 1, !.jid = jid]>> \o Tail(@)]
    /\ UNCHANGED <<buffer, closed, dropCount, accountVars, begun, streamVars,
                   lost, mainVars>>

Ready(p) == Running /\ p \in stamped

Sent(p) ==
    /\ stamped' = stamped \ {p}
    /\ todo' = [todo EXCEPT ![p] = Tail(@)]
    /\ UNCHANGED <<begun, accountVars, streamVars>>

(* A fault: the buffer has no limit.                                       *)
SendUnbounded(p) ==
    /\ Ready(p)
    /\ ~closed
    /\ buffer' = Append(buffer, Head(todo[p]))
    /\ Sent(p)
    /\ UNCHANGED <<seq, closed, dropCount, lost, mainVars>>

(* A fault: a full channel drops its oldest event and takes the new one.   *)
SendDroppingOldest(p) ==
    /\ Ready(p)
    /\ ~closed
    /\ \/ /\ Len(buffer) < BufferSize
          /\ buffer' = Append(buffer, Head(todo[p]))
          /\ UNCHANGED dropCount
       \/ /\ Len(buffer) >= BufferSize
          /\ buffer' = Append(Tail(buffer), Head(todo[p]))
          /\ dropCount' = dropCount + 1
    /\ Sent(p)
    /\ UNCHANGED <<seq, closed, lost, mainVars>>

(* The select of emit on an open channel: queue the event or drop it.      *)
Send(p) ==
    /\ Ready(p)
    /\ ~closed
    /\ \/ /\ Len(buffer) < BufferSize
          /\ buffer' = Append(buffer, Head(todo[p]))
          /\ UNCHANGED dropCount
       \/ /\ Len(buffer) >= BufferSize
          /\ dropCount' = dropCount + 1
          /\ UNCHANGED buffer
    /\ Sent(p)
    /\ UNCHANGED <<seq, closed, lost, mainVars>>

(* The select of emit on a closed channel panics: whatsmeow recovers it on *)
(* its dispatch goroutine, and the rest of the batch is not emitted; on    *)
(* the QR goroutine nobody does.                                           *)
SendOnClosed(p) ==
    /\ Ready(p)
    /\ closed
    /\ crashed' = (p[2] = "pump")
    /\ stamped' = stamped \ {p}
    /\ todo' = [todo EXCEPT ![p] = <<>>]
    /\ lost' = lost + 1
    /\ UNCHANGED <<busVars, accountVars, begun, streamVars, phase>>

-----------------------------------------------------------------------------
(* The StreamEvents handler.  A second call panics in Subscribe, is        *)
(* recovered and returns: it changes nothing.                              *)

StreamEvents(soft) ==
    /\ Running
    /\ stream = "none"
    /\ stream' = "open"
    /\ includeSoft' = soft
    /\ UNCHANGED <<busVars, accountVars, producerVars, inHand, sent, lost, mainVars>>

(* A fault: a soft event that is not wanted is not taken off the channel.  *)
StreamReceiveWanted ==
    /\ Running
    /\ stream = "open" /\ inHand = <<>> /\ buffer # <<>>
    /\ ~IsSoftEvent(Head(buffer)) \/ includeSoft
    /\ buffer' = Tail(buffer)
    /\ inHand' = <<Head(buffer)>>
    /\ UNCHANGED <<seq, closed, dropCount, accountVars, producerVars, stream,
                   includeSoft, sent, lost, mainVars>>

StreamReceive ==
    /\ Running
    /\ stream = "open" /\ inHand = <<>> /\ buffer # <<>>
    /\ buffer' = Tail(buffer)
    /\ \/ /\ IsSoftEvent(Head(buffer)) /\ ~includeSoft
          /\ lost' = lost + 1
          /\ UNCHANGED inHand
       \/ /\ ~IsSoftEvent(Head(buffer)) \/ includeSoft
          /\ inHand' = <<Head(buffer)>>
          /\ UNCHANGED lost
    /\ UNCHANGED <<seq, closed, dropCount, accountVars, producerVars, stream,
                   includeSoft, sent, mainVars>>

StreamSend ==
    /\ Running
    /\ inHand # <<>>
    /\ sent' = sent \o inHand
    /\ inHand' = <<>>
    /\ UNCHANGED <<busVars, accountVars, producerVars, stream, includeSoft, lost, mainVars>>

(* The client went away: the context is done, or Send returns an error.    *)
StreamBreaks ==
    /\ Running
    /\ stream = "open"
    /\ stream' = "ended"
    /\ lost' = lost + Len(inHand)
    /\ inHand' = <<>>
    /\ UNCHANGED <<busVars, accountVars, producerVars, includeSoft, sent, mainVars>>

(* The channel is closed and empty.                                        *)
StreamEof ==
    /\ Running
    /\ stream = "open" /\ inHand = <<>> /\ buffer = <<>> /\ closed
    /\ stream' = "ended"
    /\ UNCHANGED <<busVars, accountVars, producerVars, includeSoft, inHand, sent,
                   lost, mainVars>>

-----------------------------------------------------------------------------
(* The shutdown goroutine of main().                                       *)

(* A signal or the Shutdown RPC: registry.Shutdown disconnects all clients. *)
DisconnectClients ==
    /\ Running
    /\ phase = "up"
    /\ phase' = "disconnected"
    /\ clients' = {}
    /\ UNCHANGED <<busVars, jidVars, paired, pairings, pumping, producerVars,
                   streamVars, lost, crashed>>

CloseBus ==
    /\ Running
    /\ phase = "disconnected"
    /\ phase' = "closed"
    /\ closed' = TRUE
    /\ UNCHANGED <<seq, buffer, dropCount, accountVars, producerVars, streamVars,
                   lost, crashed>>

(* GracefulStop has waited for the stream, or Stop() cuts it after 10 s.   *)
StopServer ==
    /\ Running
    /\ phase = "closed"
    /\ phase' = "stopped"
    /\ stream' = IF stream = "open" THEN "ended" ELSE stream
    /\ lost' = lost + Len(inHand)
    /\ inHand' = <<>>
    /\ UNCHANGED <<busVars, accountVars, producerVars, includeSoft, sent, crashed>>

-----------------------------------------------------------------------------
AccountStep ==
    \E a \in Accounts :
        \/ EnsureAccount(a)
        \/ \E jid \in Jids : SetAccountJID(a, jid)
        \/ Connect(a)
        \/ Logout(a)

ProducerStep ==
    \/ \E a \in Accounts :
          \/ \E batch \in Batches : Sink(a, batch)
          \/ \E jid \in Jids : Pair(a, jid) \/ SinkPairSuccess(a, jid)
          \/ PumpItem(a)
          \/ PumpEnds(a)
    \/ \E p \in Producers : Stamp(p) \/ Send(p) \/ SendOnClosed(p)

StreamStep ==
    \/ \E soft \in BOOLEAN : StreamEvents(soft)
    \/ StreamReceive
    \/ StreamSend
    \/ StreamBreaks
    \/ StreamEof

MainStep == DisconnectClients \/ CloseBus \/ StopServer

(* The process has ended.                                                  *)
Exited == ~Running /\ UNCHANGED vars

Next == AccountStep \/ ProducerStep \/ StreamStep \/ MainStep \/ Exited

Spec == Init /\ [][Next]_vars

(* The Go scheduler runs what can run: the goroutines that emit, and the   *)
(* shutdown goroutine once it is triggered, whose timer fires.             *)
Fairness ==
    /\ \A p \in Producers : WF_vars(Stamp(p)) /\ WF_vars(Send(p) \/ SendOnClosed(p))
    /\ WF_vars(CloseBus)
    /\ WF_vars(StopServer)

(* A client that stays and reads: the handler's sends return.              *)
ClientFairness == WF_vars(StreamReceive) /\ WF_vars(StreamSend)

FairSpec == Spec /\ Fairness

-----------------------------------------------------------------------------
Events ==
    [seq : Nat, from : Producers, kind : Kinds, jid : Jids \cup {NoJid}]

(* Every variable has its type.                                            *)
TypeOK ==
    /\ seq \in Nat
    /\ buffer \in Seq(Events) /\ Len(buffer) <= BufferSize
    /\ closed \in BOOLEAN
    /\ dropCount \in Nat
    /\ jids \in [Accounts -> Jids \cup {NoJid}]
    /\ clients \subseteq Accounts
    /\ paired \in [Accounts -> Jids \cup {NoJid}]
    /\ pairings \in 0..MaxPairings
    /\ pumping \subseteq Accounts
    /\ seeding \subseteq Accounts \X Jids /\ pairSuccess \subseteq Accounts \X Jids
    /\ told \in [Accounts -> {"no", "yes", "overtaken"}]
    /\ todo \in [Producers -> Seq(Events)]
    /\ stamped \subseteq Producers
    /\ begun \in 0..MaxEvents
    /\ stream \in {"none", "open", "ended"}
    /\ includeSoft \in BOOLEAN
    /\ inHand \in Seq(Events) /\ Len(inHand) <= 1
    /\ sent \in Seq(Events)
    /\ lost \in Nat
    /\ phase \in Phases
    /\ crashed \in BOOLEAN

(* What left the goroutines and was not dropped, in the order it left.     *)
Pipeline == sent \o inHand \o buffer

(* The numbers are a faithful account of the events: each number the bus   *)
(* gave is on its way, delivered, lost downstream, or counted as dropped,  *)
(* so that a gap the client sees is a drop the sidecar counted; and no     *)
(* number is given twice.                                                  *)
Accounting ==
    /\ seq = Cardinality(stamped) + Len(Pipeline) + dropCount + lost
    /\ \A i, j \in 1..Len(Pipeline) : Pipeline[i].seq = Pipeline[j].seq => i = j
    /\ \A p, q \in stamped : Head(todo[p]).seq = Head(todo[q]).seq => p = q
    /\ \A i \in 1..Len(Pipeline), p \in stamped : Pipeline[i].seq # Head(todo[p]).seq

(* The events of one goroutine reach the client in the order they were     *)
(* numbered, which is the order they happened in: all that remains of the  *)
(* order promised at bus.go:7 when two goroutines emit for one account.    *)
GoroutineOrder ==
    \A i, j \in 1..Len(Pipeline) :
        i < j /\ Pipeline[i].from = Pipeline[j].from => Pipeline[i].seq < Pipeline[j].seq

(* Refinement: what numbers the events and brings them to the client is a  *)
(* NumberedStream, in which only the next event in line is ever lost.      *)
Holding == [p \in Producers |-> IF p \in stamped THEN <<Head(todo[p])>> ELSE <<>>]
Way == inHand \o buffer

Stream == INSTANCE NumberedStream WITH
    Jids <- Jids \cup {NoJid},
    last <- seq,
    held <- Holding,
    way <- Way,
    delivered <- sent,
    missed <- dropCount + lost

ImplementsNumberedStream == Stream!Spec

(* Once a JID has reached the cache, by an EnsureAccount that is about to  *)
(* tell it to the app or by PairSuccess, every event of the account that   *)
(* has none of its own is numbered with the JID the account is paired with *)
(* (bus.go:178-186), whoever paired it, and whatever calls and pairings    *)
(* are under way: a call that read the registry earlier does not take the  *)
(* JID back.  Only a logout ends it; and when the logout overtakes a JID   *)
(* on its way to the cache, which may then land over the JID of a new      *)
(* pairing, nothing is promised any more.                                  *)
PairedEventsCarryJid ==
    [][\A p \in Producers :
          /\ p \in stamped' \ stamped
          /\ told[AccountOf(p)] = "yes"
          /\ Head(todo[p]).kind # "pair_success"
          => paired[AccountOf(p)] # NoJid /\ Head(todo'[p]).jid = paired[AccountOf(p)]]_vars

(* Emitting never waits for anybody (bus.go:134-137): without subscriber,  *)
(* with a slow one or with a full buffer, every emission ends.             *)
SinkNeverBlocks ==
    \A p \in Producers : todo[p] # <<>> ~> (todo[p] = <<>> \/ ~Running)

(* An event in the buffer is taken for a client that stays and reads: it   *)
(* is sent, or filtered for it, whatever is in front of it.                *)
BufferedIsDelivered ==
    ClientFairness =>
        \A n \in 1..MaxEvents :
            (\E i \in 1..Len(buffer) : buffer[i].seq = n) /\ stream = "open"
                ~> \/ \A i \in 1..Len(buffer) : buffer[i].seq # n
                   \/ stream # "open"
                   \/ ~Running

(* The shutdown goroutine gets through, whatever the client does.          *)
ShutdownCompletes == phase = "disconnected" ~> (phase = "stopped" \/ crashed)

(* All three: nobody in the sidecar waits for ever.                        *)
Progress == SinkNeverBlocks /\ BufferedIsDelivered /\ ShutdownCompletes

(* The comment of Close (bus.go:120-121): after Close, Sink does nothing;  *)
(* in particular no emission ends the process.                             *)
CloseMakesSinkNoOp == ~crashed

-----------------------------------------------------------------------------
(* The inductive invariant.                                                *)

(* A goroutine emits its own events; one that has numbered an event has    *)
(* it in front.                                                            *)
PendingFacts ==
    /\ IsFiniteSet(stamped)
    /\ \A p \in Producers : \A i \in 1..Len(todo[p]) : todo[p][i].from = p
    /\ \A p \in stamped : todo[p] # <<>> /\ Head(todo[p]).seq \in 1..seq

(* The numbers on their way were given, before those still to be sent.     *)
NumberFacts ==
    /\ \A i \in 1..Len(Pipeline) : Pipeline[i].seq \in 1..seq
    /\ \A i \in 1..Len(Pipeline), p \in stamped :
          Pipeline[i].from = p => Pipeline[i].seq < Head(todo[p]).seq

(* What is on its way to the cache, or has got there, is the JID of the    *)
(* account, unless a logout has overtaken it; only an event that tells of  *)
(* a pairing has a JID before it is numbered.                              *)
CacheFacts ==
    /\ \A a \in Accounts : told[a] = "yes" => paired[a] # NoJid /\ jids[a] = paired[a]
    /\ \A a \in Accounts, jid \in Jids :
          told[a] # "overtaken" /\ <<a, jid>> \in seeding \cup pairSuccess => jid = paired[a]

PlainFacts ==
    \A p \in Producers : \A i \in 1..Len(todo[p]) :
        /\ todo[p][i].kind # "pair_success" /\ (p \notin stamped \/ i # 1)
        => todo[p][i].jid = NoJid

JidFacts == CacheFacts /\ PlainFacts

IInv == TypeOK /\ Accounting /\ GoroutineOrder /\ PendingFacts /\ NumberFacts /\ JidFacts
=============================================================================

-------------------------- MODULE DispatcherProofs --------------------------
(***************************************************************************)
(* Theorems about Dispatcher, for any accounts, callers, queue size and    *)
(* number of events.  IInv of Dispatcher is the inductive invariant; the   *)
(* safety properties are read off it.                                      *)
(***************************************************************************)
EXTENDS Dispatcher, SequenceTheorems, TLAPS

-----------------------------------------------------------------------------
(* Queues and the events in them.                                          *)

(* Sentinels, if any, are the last element.                                *)
Ended(q) == \A i \in 1..Len(q) : q[i] = None => i = Len(q)

(* Without a sentinel.                                                     *)
Plain(q) == \A i \in 1..Len(q) : q[i] # None

(* A sequence is its head before its tail.                                 *)
LEMMA HeadBeforeTail ==
  ASSUME NEW S, NEW q \in Seq(S), q # <<>>
  PROVE  q = <<Head(q)>> \o Tail(q)
<1>1. Len(q) \in Nat \ {0} /\ Head(q) = q[1]
  BY EmptySeq
<1>2. SubSeq(q, 1, Len(q)) = <<q[1]>> \o SubSeq(q, 2, Len(q))
  BY <1>1, SubSeqRecursiveFirst
<1> QED BY <1>1, <1>2, SubSeqFull, TailIsSubSeq

(* A queue without a sentinel is its events.                               *)
LEMMA EventsOfPlain ==
  ASSUME NEW q \in Seq(Nat \cup {None}), Plain(q)
  PROVE  q \in Seq(Nat) /\ Events(q) = q
<1>1. q = <<>> \/ Len(q) \in 1..Len(q)
  BY EmptySeq, LenProperties
<1>2. Events(q) = q
  BY <1>1 DEF Plain, Events
<1>3. \A i \in 1..Len(q) : q[i] \in Nat
  BY DEF Plain
<1>4. q \in Seq(Nat)
  <2>1. Len(q) \in Nat /\ q = [i \in 1..Len(q) |-> q[i]]
    BY LenProperties
  <2>2. [i \in 1..Len(q) |-> q[i]] \in Seq(Nat)
    BY <1>3, <2>1, IsASeq
  <2> QED BY <2>1, <2>2
<1> QED BY <1>2, <1>4

(* The events of a queue are numbers.                                      *)
LEMMA EventsType ==
  ASSUME NEW q \in Seq(Nat \cup {None}), Ended(q)
  PROVE  Events(q) \in Seq(Nat)
<1>1. CASE Plain(q)
  BY <1>1, EventsOfPlain
<1>2. CASE ~Plain(q)
  <2>1. q # <<>> /\ q[Len(q)] = None
    BY <1>2 DEF Plain, Ended
  <2>2. Events(q) = SubSeq(q, 1, Len(q) - 1)
    BY <2>1 DEF Events
  <2>3. \A i \in 1..(Len(q) - 1) : q[i] \in Nat
    BY DEF Ended
  <2> QED BY <2>2, <2>3, SubSeqProperties
<1> QED BY <1>1, <1>2

(* The sentinel is no event: putting it behind them changes none.          *)
LEMMA EventsAppendNone ==
  ASSUME NEW q \in Seq(Nat \cup {None}), Plain(q)
  PROVE  Events(Append(q, None)) = q /\ Ended(Append(q, None))
<1> DEFINE r == Append(q, None)
<1>1. /\ r \in Seq(Nat \cup {None})
      /\ Len(r) = Len(q) + 1
      /\ r # <<>>
      /\ r[Len(r)] = None
      /\ \A i \in 1..Len(q) : r[i] = q[i]
  BY AppendProperties
<1>2. Ended(r)
  BY <1>1 DEF Ended, Plain
<1>3. Events(r) = SubSeq(r, 1, Len(q))
  BY <1>1 DEF Events
<1>4. SubSeq(r, 1, Len(q)) = q
  BY <1>1, SubSeqProperties, SeqEqual
<1> QED BY <1>2, <1>3, <1>4

(* An event is added at the end of the events.                             *)
LEMMA EventsAppend ==
  ASSUME NEW q \in Seq(Nat \cup {None}), Plain(q), NEW n \in Nat
  PROVE  /\ Events(Append(q, n)) = Append(Events(q), n)
         /\ Plain(Append(q, n))
<1>1. n # None
  BY NoneAssumption
<1>2. Plain(Append(q, n)) /\ Append(q, n) \in Seq(Nat \cup {None})
  BY <1>1, AppendProperties DEF Plain
<1> QED BY <1>2, EventsOfPlain

(* A sentinel at the head is all there is.                                 *)
LEMMA EventsNoneHead ==
  ASSUME NEW q \in Seq(Nat \cup {None}), Ended(q), q # <<>>, Head(q) = None
  PROVE  q = <<None>> /\ Events(q) = <<>> /\ Tail(q) = <<>>
<1>1. Len(q) = 1
  BY EmptySeq DEF Ended
<1>2. q = <<None>>
  BY <1>1
<1> QED BY <1>2 DEF Events

(* Lists of events are put together in any grouping.                       *)
LEMMA EventsAssociative ==
  \A s, t, u \in Seq(Nat) : (s \o t) \o u = s \o (t \o u)
BY ConcatAssociative

(* Taking the head takes the first event.                                  *)
LEMMA EventsTail ==
  ASSUME NEW q \in Seq(Nat \cup {None}), Ended(q), q # <<>>, Head(q) # None
  PROVE  /\ Head(q) \in Nat
         /\ Events(q) = <<Head(q)>> \o Events(Tail(q))
         /\ Ended(Tail(q))
         /\ Plain(q) => Plain(Tail(q))
<1> DEFINE t == Tail(q)
<1>1. /\ Head(q) \in Nat
      /\ t \in Seq(Nat \cup {None})
      /\ Len(q) \in Nat \ {0}
      /\ Len(t) = Len(q) - 1
      /\ \A i \in 1..Len(t) : t[i] = q[i + 1]
      /\ Head(q) = q[1]
  BY HeadTailProperties, EmptySeq
<1> HIDE DEF t
<1>2. Ended(t) /\ (Plain(q) => Plain(t))
  BY <1>1 DEF Ended, Plain
<1>3. Events(q) = <<Head(q)>> \o Events(t)
  <2>1. CASE q[Len(q)] # None
    <3>1. t # <<>> => t[Len(t)] = q[Len(q)]
      BY <1>1, EmptySeq
    <3>2. Events(q) = q /\ Events(t) = t
      BY <2>1, <3>1 DEF Events
    <3> QED BY <3>2, HeadBeforeTail DEF t
  <2>2. CASE q[Len(q)] = None
    <3>1. Len(q) > 1
      BY <1>1, <2>2, EmptySeq
    <3>2. Events(q) = SubSeq(q, 1, Len(q) - 1)
      BY <2>2 DEF Events
    <3>3. Events(t) = SubSeq(t, 1, Len(t) - 1)
      <4>1. t # <<>> /\ t[Len(t)] = None
        BY <1>1, <2>2, <3>1, EmptySeq
      <4> QED BY <4>1 DEF Events
    <3>4. SubSeq(q, 1, Len(q) - 1) = <<q[1]>> \o SubSeq(q, 2, Len(q) - 1)
      <4>1. PICK n \in 1..Len(q) : n = Len(q) - 1
        BY <1>1, <3>1
      <4>2. SubSeq(q, 1, n) = <<q[1]>> \o SubSeq(q, 2, n)
        BY <1>1, SubSeqRecursiveFirst
      <4> QED BY <4>1, <4>2
    <3>5. SubSeq(q, 2, Len(q) - 1) = SubSeq(t, 1, Len(t) - 1)
      BY <1>1, <3>1, SubSeqProperties, SeqEqual
    <3> QED BY <1>1, <3>2, <3>3, <3>4, <3>5
  <2> QED BY <2>1, <2>2
<1> QED BY <1>1, <1>2, <1>3 DEF t

-----------------------------------------------------------------------------
(* Types.                                                                  *)

(* A turn of a worker keeps the types.                                     *)
LEMMA TurnType ==
  ASSUME TypeOK, NEW a \in Accounts, Turn(a)
  PROVE  /\ worker' \in [Accounts -> WorkerStates]
         /\ queue' \in [Accounts -> Seq(Nat \cup {None})]
         /\ \A b \in Accounts : Len(queue'[b]) <= QueueSize
         /\ current' \in [Accounts -> Seq(Nat)]
<1>1. worker' \in [Accounts -> WorkerStates]
  BY DEF TypeOK, Turn, WorkerStates, Busy, Dead
<1>2. CASE UNCHANGED queue /\ current' = [current EXCEPT ![a] = <<>>]
  BY <1>1, <1>2, EmptySeq DEF TypeOK
<1>3. CASE queue[a] # <<>> /\ queue' = [queue EXCEPT ![a] = Tail(@)]
  <2>1. /\ queue[a] \in Seq(Nat \cup {None})
        /\ Len(queue[a]) \in Nat \ {0}
        /\ Len(queue[a]) <= QueueSize
    BY <1>3, EmptySeq DEF TypeOK
  <2>2. /\ Head(queue[a]) \in Nat \cup {None}
        /\ Tail(queue[a]) \in Seq(Nat \cup {None})
        /\ Len(Tail(queue[a])) = Len(queue[a]) - 1
    BY <1>3, <2>1, HeadTailProperties
  <2>3. Len(Tail(queue[a])) <= QueueSize
    BY <2>1, <2>2, QueueSizeAssumption
  <2>4. /\ queue' \in [Accounts -> Seq(Nat \cup {None})]
        /\ \A b \in Accounts : Len(queue'[b]) <= QueueSize
    BY <1>3, <2>2, <2>3 DEF TypeOK
  <2>5. current' \in [Accounts -> Seq(Nat)]
    <3>1. CASE current' = [current EXCEPT ![a] = <<>>]
      BY <3>1, EmptySeq DEF TypeOK
    <3>2. CASE Head(queue[a]) # None /\ current' = [current EXCEPT ![a] = <<Head(queue[a])>>]
      <4>1. <<Head(queue[a])>> \in Seq(Nat)
        BY <2>2, <3>2
      <4> QED BY <3>2, <4>1 DEF TypeOK
    <3> QED BY <1>3, <3>1, <3>2 DEF Turn
  <2> QED BY <1>1, <2>4, <2>5
<1> QED BY <1>2, <1>3 DEF Turn

(* The types hold initially.                                               *)
LEMMA TypeInit == Init => TypeOK
<1> SUFFICES ASSUME Init PROVE TypeOK
  OBVIOUS
<1>1. /\ queue \in [Accounts -> Seq(Nat \cup {None})]
      /\ \A a \in Accounts : Len(queue[a]) <= QueueSize
  BY EmptySeq, QueueSizeAssumption DEF Init
<1>2. /\ current \in [Accounts -> Seq(Nat)]
      /\ handled \in [Accounts -> Seq(Nat)]
      /\ accepted \in [Accounts -> Seq(Nat)]
  BY EmptySeq DEF Init
<1>3. reader \in ReaderStates /\ stopped \in BOOLEAN
  BY DEF Init, ReaderStates
<1>4. read \in 0..MaxEvents
  BY MaxEventsAssumption DEF Init
<1>5. /\ worker \in [Accounts -> WorkerStates]
      /\ cancelled \subseteq Accounts
      /\ stopPc \in [Callers -> StopStates]
  BY DEF Init, WorkerStates, StopStates
<1> QED BY <1>1, <1>2, <1>3, <1>4, <1>5 DEF TypeOK

(* The sentinels respect the size of the queues.                           *)
LEMMA WakeType ==
  ASSUME TypeOK, NEW c \in Callers, WakeWorkers(c)
  PROVE  /\ queue' \in [Accounts -> Seq(Nat \cup {None})]
         /\ \A a \in Accounts : Len(queue'[a]) <= QueueSize
         /\ stopPc' \in [Callers -> StopStates]
<1>1. ASSUME NEW a \in Accounts
      PROVE  queue'[a] \in Seq(Nat \cup {None}) /\ Len(queue'[a]) <= QueueSize
  <2>1. CASE worker[a] # "none" /\ HasRoom(a)
    <3>1. queue'[a] = Append(queue[a], None)
      BY <2>1 DEF WakeWorkers
    <3>2. /\ queue[a] \in Seq(Nat \cup {None})
          /\ Len(queue[a]) \in Nat
          /\ Len(queue[a]) < QueueSize
      BY <2>1, LenProperties DEF TypeOK, HasRoom
    <3>3. /\ Append(queue[a], None) \in Seq(Nat \cup {None})
          /\ Len(Append(queue[a], None)) = Len(queue[a]) + 1
      BY <3>2, AppendProperties
    <3> QED BY <3>1, <3>2, <3>3, QueueSizeAssumption
  <2>2. CASE ~(worker[a] # "none" /\ HasRoom(a))
    BY <2>2 DEF WakeWorkers, TypeOK
  <2> QED BY <2>1, <2>2
<1>2. queue' \in [Accounts -> Seq(Nat \cup {None})]
  BY <1>1 DEF WakeWorkers
<1>3. stopPc' \in [Callers -> StopStates]
  BY DEF TypeOK, WakeWorkers, StopStates
<1> QED BY <1>1, <1>2, <1>3

(* Every step keeps the types.                                             *)
LEMMA TypeStep == TypeOK /\ [Next]_vars => TypeOK'
<1> SUFFICES ASSUME TypeOK, [Next]_vars PROVE TypeOK'
  OBVIOUS
<1> USE DEF ReaderStates, StopStates
<1>1. ASSUME NEW a \in Accounts, Enqueue(a) PROVE TypeOK'
  <2>1. read + 1 \in 0..MaxEvents /\ read + 1 \in Nat
    BY <1>1, MaxEventsAssumption DEF Enqueue, NextEvent, TypeOK
  <2>2. /\ queue[a] \in Seq(Nat \cup {None})
        /\ Len(queue[a]) \in Nat
        /\ Len(queue[a]) < QueueSize
    BY <1>1, LenProperties DEF TypeOK, Enqueue, HasRoom
  <2>3. /\ Append(queue[a], read + 1) \in Seq(Nat \cup {None})
        /\ Len(Append(queue[a], read + 1)) = Len(queue[a]) + 1
    BY <2>1, <2>2, AppendProperties
  <2>4. Len(Append(queue[a], read + 1)) <= QueueSize
    BY <2>2, <2>3, QueueSizeAssumption
  <2>5. Append(accepted[a], read + 1) \in Seq(Nat)
    BY <2>1, AppendProperties DEF TypeOK
  <2>6. /\ queue' \in [Accounts -> Seq(Nat \cup {None})]
        /\ \A b \in Accounts : Len(queue'[b]) <= QueueSize
    BY <1>1, <2>3, <2>4 DEF Enqueue, TypeOK
  <2>7. accepted' \in [Accounts -> Seq(Nat)]
    BY <1>1, <2>5 DEF Enqueue, TypeOK
  <2>8. worker' \in [Accounts -> WorkerStates]
    BY <1>1 DEF Enqueue, TypeOK, WorkerStates
  <2> QED BY <1>1, <2>1, <2>6, <2>7, <2>8 DEF Enqueue, NextEvent, TypeOK
<1>2. ASSUME NEW a \in Accounts, Overflow(a) PROVE TypeOK'
  BY <1>2, MaxEventsAssumption DEF Overflow, NextEvent, TypeOK
<1>3. CASE StreamEnds \/ ReaderCancelled
  BY <1>3 DEF StreamEnds, ReaderCancelled, TypeOK
<1>4. ASSUME NEW a \in Accounts, WorkerWakes(a) PROVE TypeOK'
  BY <1>4, TurnType DEF WorkerWakes, TypeOK
<1>5. ASSUME NEW a \in Accounts, WorkerAdvances(a) PROVE TypeOK'
  BY <1>5 DEF WorkerAdvances, TypeOK, WorkerStates, Busy
<1>6. ASSUME NEW a \in Accounts, WorkerFinishes(a) PROVE TypeOK'
  <2>1. handled[a] \o current[a] \in Seq(Nat)
    BY ConcatProperties DEF TypeOK
  <2>2. handled' \in [Accounts -> Seq(Nat)]
    BY <1>6, <2>1 DEF WorkerFinishes, TypeOK
  <2> QED BY <1>6, <2>2, TurnType DEF WorkerFinishes, TypeOK
<1>7. ASSUME NEW a \in Accounts, WorkerCancelled(a) \/ HandlerSwallowsCancel(a)
      PROVE  TypeOK'
  BY <1>7 DEF WorkerCancelled, HandlerSwallowsCancel, TypeOK, WorkerStates, Dead
<1>8. ASSUME NEW c \in Callers, StopEarly(c) \/ StopJoined(c) \/ DrainTimeout(c)
      PROVE  TypeOK'
  BY <1>8 DEF StopEarly, StopJoined, DrainTimeout, TypeOK
<1>9. ASSUME NEW c \in Callers, StopFirst(c) PROVE TypeOK'
  BY <1>9, WakeType DEF StopFirst, TypeOK
<1>10. ASSUME NEW c \in Callers, StopReaderGone(c) PROVE TypeOK'
  BY <1>10, WakeType DEF StopReaderGone, TypeOK
<1>11. CASE UNCHANGED vars
  BY <1>11 DEF vars, TypeOK
<1> QED BY <1>1, <1>2, <1>3, <1>4, <1>5, <1>6, <1>7, <1>8, <1>9, <1>10, <1>11
    DEF Next, ReaderStep, WorkerStep, StopStep, Rest

(* Types hold throughout.                                                  *)
THEOREM TypeInvariant == Spec => []TypeOK
BY TypeInit, TypeStep, PTL DEF Spec

-----------------------------------------------------------------------------
(* What one turn of a worker and one round of sentinels do.                *)

(* What the invariant says of one queue.                                   *)
LEMMA IInvQueues ==
  ASSUME IInv, NEW a \in Accounts
  PROVE  /\ queue[a] \in Seq(Nat \cup {None})
         /\ Ended(queue[a])
         /\ Events(queue[a]) \in Seq(Nat)
         /\ ~Woken => Plain(queue[a])
<1>1. queue[a] \in Seq(Nat \cup {None}) /\ Ended(queue[a])
  BY DEF IInv, TypeOK, SentinelLast, Ended
<1>2. ~Woken => Plain(queue[a])
  BY DEF IInv, StopFacts, Plain
<1> QED BY <1>1, <1>2, EventsType

(* A sentinel was put by a call of stop().                                 *)
LEMMA SentinelMeansStopped ==
  ASSUME IInv, NEW a \in Accounts, ~Plain(queue[a])
  PROVE  Woken /\ stopped
<1>1. Woken
  BY IInvQueues
<1> QED BY <1>1 DEF Woken, IInv, StopFacts, Stopper

(* A turn takes at most one event out of the queue, into the worker's      *)
(* hands, and leaves the loop only when there is nothing left to take.     *)
LEMMA TurnFacts ==
  ASSUME IInv, NEW a \in Accounts, Turn(a)
  PROVE  /\ Ended(queue'[a])
         /\ Plain(queue[a]) => Plain(queue'[a])
         /\ Events(queue[a]) = current'[a] \o Events(queue'[a])
         /\ Events(queue'[a]) \in Seq(Nat) /\ current'[a] \in Seq(Nat)
         /\ worker'[a] \in {"get", "hook", "exited"}
         /\ worker'[a] = "exited" => stopped /\ current'[a] = <<>> /\ queue'[a] = <<>>
         /\ worker'[a] = "get" => ~stopped /\ current'[a] = <<>>
         /\ worker'[a] = "hook" => Len(current'[a]) = 1
         /\ \A b \in Accounts \ {a} :
               worker'[b] = worker[b] /\ queue'[b] = queue[b] /\ current'[b] = current[b]
<1>1. /\ worker \in [Accounts -> WorkerStates]
      /\ queue \in [Accounts -> Seq(Nat \cup {None})]
      /\ current \in [Accounts -> Seq(Nat)]
  BY DEF IInv, TypeOK
<1>2. /\ queue[a] \in Seq(Nat \cup {None})
      /\ Ended(queue[a])
      /\ Events(queue[a]) \in Seq(Nat)
  BY IInvQueues
<1>3. \A b \in Accounts \ {a} :
         worker'[b] = worker[b] /\ queue'[b] = queue[b] /\ current'[b] = current[b]
  BY <1>1 DEF Turn
<1>4. CASE queue[a] = <<>>
  <2>1. /\ worker'[a] = IF stopped THEN "exited" ELSE "get"
        /\ current'[a] = <<>>
        /\ queue'[a] = <<>>
    BY <1>1, <1>4 DEF Turn
  <2>2. Events(<<>>) = <<>>
    BY DEF Events
  <2>3. <<>> = <<>> \o <<>> /\ <<>> \in Seq(Nat)
    BY EmptySeq, ConcatEmptySeq
  <2> QED BY <1>2, <1>3, <1>4, <2>1, <2>2, <2>3
<1>5. CASE queue[a] # <<>> /\ Head(queue[a]) = None
  <2>1. worker'[a] = "exited" /\ current'[a] = <<>> /\ queue'[a] = Tail(queue[a])
    BY <1>1, <1>5 DEF Turn
  <2>2. queue[a] = <<None>> /\ Events(queue[a]) = <<>> /\ Tail(queue[a]) = <<>>
    BY <1>2, <1>5, EventsNoneHead
  <2>3. ~Plain(queue[a])
    BY <2>2 DEF Plain
  <2>4. stopped
    BY <2>3, SentinelMeansStopped
  <2>5. Events(<<>>) = <<>> /\ Ended(<<>>)
    BY EmptySeq DEF Events, Ended
  <2>6. <<>> = <<>> \o <<>> /\ <<>> \in Seq(Nat)
    BY EmptySeq, ConcatEmptySeq
  <2> QED BY <1>3, <2>1, <2>2, <2>3, <2>4, <2>5, <2>6
<1>6. CASE queue[a] # <<>> /\ Head(queue[a]) # None
  <2>1. worker'[a] = "hook" /\ current'[a] = <<Head(queue[a])>> /\ queue'[a] = Tail(queue[a])
    BY <1>1, <1>6 DEF Turn
  <2>2. /\ Head(queue[a]) \in Nat
        /\ Events(queue[a]) = <<Head(queue[a])>> \o Events(Tail(queue[a]))
        /\ Ended(Tail(queue[a]))
        /\ Plain(queue[a]) => Plain(Tail(queue[a]))
    BY <1>2, <1>6, EventsTail
  <2>3. Tail(queue[a]) \in Seq(Nat \cup {None})
    BY <1>2, <1>6, HeadTailProperties
  <2>4. Events(Tail(queue[a])) \in Seq(Nat)
    BY <2>2, <2>3, EventsType
  <2>5. <<Head(queue[a])>> \in Seq(Nat)
    BY <2>2
  <2>6. Len(<<Head(queue[a])>>) = 1
    OBVIOUS
  <2> QED BY <1>3, <2>1, <2>2, <2>4, <2>5, <2>6
<1> QED BY <1>4, <1>5, <1>6

(* Only the first call of stop() puts sentinels, and puts them once.       *)
LEMMA WakeFacts ==
  ASSUME IInv, NEW c \in Callers, WakeWorkers(c), ~Woken, NEW a \in Accounts
  PROVE  /\ Ended(queue'[a])
         /\ Events(queue'[a]) = Events(queue[a])
         /\ worker[a] # "none" => queue'[a] # <<>>
         /\ worker[a] = "none" => queue'[a] = queue[a]
         /\ queue[a] = <<>> => queue'[a] \in {<<>>, <<None>>}
<1>1. queue[a] \in Seq(Nat \cup {None}) /\ Ended(queue[a]) /\ Plain(queue[a])
  BY IInvQueues
<1>2. CASE worker[a] # "none" /\ HasRoom(a)
  <2>1. queue'[a] = Append(queue[a], None)
    BY <1>2 DEF WakeWorkers
  <2>2. Events(queue'[a]) = queue[a] /\ Ended(queue'[a])
    BY <1>1, <2>1, EventsAppendNone
  <2>3. Events(queue[a]) = queue[a]
    BY <1>1, EventsOfPlain
  <2>4. queue'[a] # <<>>
    BY <1>1, <2>1, AppendProperties
  <2>5. queue[a] = <<>> => queue'[a] = <<None>>
    BY <2>1
  <2> QED BY <1>2, <2>2, <2>3, <2>4, <2>5
<1>3. CASE ~(worker[a] # "none" /\ HasRoom(a))
  <2>1. queue'[a] = queue[a]
    BY <1>3 DEF WakeWorkers
  <2>2. ASSUME worker[a] # "none" PROVE queue[a] # <<>>
    <3>1. Len(queue[a]) >= QueueSize
      BY <1>1, <1>3, <2>2, LenProperties, QueueSizeAssumption DEF HasRoom
    <3> QED BY <3>1, EmptySeq, QueueSizeAssumption
  <2> QED BY <1>1, <2>1, <2>2
<1> QED BY <1>2, <1>3

-----------------------------------------------------------------------------
(* The invariant holds initially.                                          *)
LEMMA IInvInit == Init => IInv
<1> SUFFICES ASSUME Init PROVE IInv
  OBVIOUS
<1>1. TypeOK
  BY TypeInit
<1>2. StopFacts
  BY EmptySeq DEF Init, StopFacts, Stopper, Woken
<1>3. WorkerFacts
  BY DEF Init, WorkerFacts, Busy
<1>4. SentinelLast
  BY EmptySeq DEF Init, SentinelLast
<1>5. Conserved
  <2>1. Events(<<>>) = <<>>
    BY DEF Events
  <2>2. <<>> \o <<>> \o <<>> = <<>>
    BY EmptySeq, ConcatEmptySeq
  <2> QED BY <2>1, <2>2 DEF Init, Conserved
<1>6. DrainNeverIdles /\ JoinedMeansQuiet
  BY DEF Init, DrainNeverIdles, JoinedMeansQuiet
<1> QED BY <1>1, <1>2, <1>3, <1>4, <1>5, <1>6 DEF IInv

-----------------------------------------------------------------------------
(* Every step preserves the invariant, one conjunct at a time.             *)

(* Who may still call stop(), and what is then true of reader and queues.  *)
LEMMA StopFactsStep == IInv /\ [Next]_vars => StopFacts'
<1> SUFFICES ASSUME IInv, [Next]_vars PROVE StopFacts'
  OBVIOUS
<1> USE DEF Stopper, Woken
<1>1. TypeOK /\ StopFacts
  BY DEF IInv
<1>2. ASSUME NEW a \in Accounts, Enqueue(a) PROVE StopFacts'
  <2>1. reader = "running" /\ ~stopped /\ ~Woken
    BY <1>1, <1>2 DEF Enqueue, NextEvent, StopFacts
  <2>2. /\ queue[a] \in Seq(Nat \cup {None}) /\ Plain(queue[a])
        /\ read + 1 \in Nat
    BY <1>1, <2>1, IInvQueues DEF TypeOK
  <2>3. Plain(Append(queue[a], read + 1))
    BY <2>2, EventsAppend
  <2>4. \A b \in Accounts : Plain(queue'[b])
    BY <1>1, <1>2, <2>1, <2>3, IInvQueues DEF Enqueue, TypeOK
  <2> QED BY <1>1, <1>2, <2>1, <2>4 DEF Enqueue, NextEvent, StopFacts, Plain
<1>3. ASSUME NEW a \in Accounts, Overflow(a) PROVE StopFacts'
  BY <1>1, <1>3 DEF Overflow, NextEvent, StopFacts
<1>4. CASE StreamEnds \/ ReaderCancelled
  BY <1>1, <1>4 DEF StreamEnds, ReaderCancelled, StopFacts
<1>5. ASSUME NEW a \in Accounts, WorkerWakes(a) \/ WorkerFinishes(a) PROVE StopFacts'
  <2>1. Turn(a) /\ UNCHANGED <<reader, stopped, stopPc>>
    BY <1>5 DEF WorkerWakes, WorkerFinishes
  <2>2. \A b \in Accounts : Plain(queue[b]) => Plain(queue'[b])
    BY <2>1, TurnFacts
  <2>3. ~Woken => \A b \in Accounts : Plain(queue[b])
    BY IInvQueues
  <2> QED BY <1>1, <2>1, <2>2, <2>3 DEF StopFacts, Plain
<1>6. ASSUME NEW a \in Accounts,
             WorkerAdvances(a) \/ WorkerCancelled(a) \/ HandlerSwallowsCancel(a)
      PROVE  StopFacts'
  BY <1>1, <1>6 DEF WorkerAdvances, WorkerCancelled, HandlerSwallowsCancel, StopFacts
<1>7. ASSUME NEW c \in Callers, StopEarly(c) \/ StopJoined(c) \/ DrainTimeout(c)
      PROVE  StopFacts'
  BY <1>1, <1>7 DEF StopEarly, StopJoined, DrainTimeout, StopFacts, TypeOK
<1>8. ASSUME NEW c \in Callers, StopFirst(c) PROVE StopFacts'
  <2>1. ~stopped /\ reader # "cancelling" /\ \A d \in Callers : ~Stopper(d)
    BY <1>1, <1>8 DEF StopFirst, StopFacts
  <2> QED BY <1>1, <1>8, <2>1 DEF StopFirst, WakeWorkers, StopFacts, TypeOK
<1>9. ASSUME NEW c \in Callers, StopReaderGone(c) PROVE StopFacts'
  BY <1>1, <1>9 DEF StopReaderGone, WakeWorkers, StopFacts, TypeOK
<1>10. CASE UNCHANGED vars
  BY <1>1, <1>10 DEF vars, StopFacts
<1> QED BY <1>2, <1>3, <1>4, <1>5, <1>6, <1>7, <1>8, <1>9, <1>10
    DEF Next, ReaderStep, WorkerStep, StopStep, Rest

(* The call that puts the sentinels is the first to do so.                 *)
LEMMA FirstToWake ==
  ASSUME IInv, NEW c \in Callers, StopFirst(c) \/ StopReaderGone(c)
  PROVE  ~Woken
<1>1. CASE StopFirst(c)
  BY <1>1 DEF StopFirst, IInv, StopFacts, Stopper, Woken
<1>2. CASE StopReaderGone(c)
  BY <1>2 DEF StopReaderGone, IInv, StopFacts, Stopper, Woken
<1> QED BY <1>1, <1>2

(* What a worker that has not begun, waits, or has ended still holds.      *)
LEMMA WorkerFactsStep == IInv /\ [Next]_vars => WorkerFacts'
<1> SUFFICES ASSUME IInv, [Next]_vars PROVE WorkerFacts'
  OBVIOUS
<1> USE DEF Busy
<1>1. TypeOK /\ StopFacts /\ WorkerFacts
  BY DEF IInv
<1>2. ASSUME NEW a \in Accounts, Enqueue(a) PROVE WorkerFacts'
  BY <1>1, <1>2 DEF Enqueue, NextEvent, WorkerFacts, TypeOK, StopFacts
<1>3. CASE \/ \E a \in Accounts : Overflow(a)
           \/ StreamEnds \/ ReaderCancelled
           \/ \E c \in Callers : StopEarly(c) \/ StopJoined(c) \/ DrainTimeout(c)
  BY <1>1, <1>3 DEF Overflow, StreamEnds, ReaderCancelled, StopEarly, StopJoined,
     DrainTimeout, WorkerFacts
<1>4. ASSUME NEW a \in Accounts, WorkerWakes(a) \/ WorkerFinishes(a) PROVE WorkerFacts'
  <2>1. Turn(a) /\ UNCHANGED stopped
    BY <1>4 DEF WorkerWakes, WorkerFinishes
  <2>2. \A b \in Accounts \ {a} : handled'[b] = handled[b]
    BY <1>1, <1>4 DEF WorkerWakes, WorkerFinishes, TypeOK
  <2> QED BY <1>1, <2>1, <2>2, TurnFacts DEF WorkerFacts
<1>5. ASSUME NEW a \in Accounts,
             WorkerAdvances(a) \/ WorkerCancelled(a) \/ HandlerSwallowsCancel(a)
      PROVE  WorkerFacts'
  BY <1>1, <1>5 DEF WorkerAdvances, WorkerCancelled, HandlerSwallowsCancel,
     WorkerFacts, TypeOK, Alive, Dead
<1>6. ASSUME NEW c \in Callers, StopFirst(c) \/ StopReaderGone(c) PROVE WorkerFacts'
  <2>1. UNCHANGED <<worker, current, handled>> /\ stopped'
    BY <1>1, <1>6 DEF StopFirst, StopReaderGone, StopFacts, Stopper
  <2>2. CASE UNCHANGED queue
    BY <1>1, <2>1, <2>2 DEF WorkerFacts
  <2>3. CASE WakeWorkers(c)
    <3>1. ~Woken
      BY <1>6, FirstToWake
    <3>2. \A a \in Accounts : queue[a] # <<None>>
      <4>1. \A a \in Accounts : Plain(queue[a])
        BY <3>1, IInvQueues
      <4>2. ~Plain(<<None>>)
        BY DEF Plain
      <4> QED BY <4>1, <4>2
    <3> QED BY <1>1, <2>1, <2>3, <3>1, <3>2, WakeFacts DEF WorkerFacts
  <2> QED BY <1>6, <2>2, <2>3 DEF StopFirst, StopReaderGone
<1>7. CASE UNCHANGED vars
  BY <1>1, <1>7 DEF vars, WorkerFacts
<1> QED BY <1>2, <1>3, <1>4, <1>5, <1>6, <1>7
    DEF Next, ReaderStep, WorkerStep, StopStep, Rest

(* Nothing is put behind a sentinel.                                       *)
LEMMA SentinelLastStep == IInv /\ [Next]_vars => SentinelLast'
<1> SUFFICES ASSUME IInv, [Next]_vars, NEW b \in Accounts PROVE Ended(queue'[b])
  BY DEF SentinelLast, Ended
<1>1. TypeOK /\ StopFacts /\ Ended(queue[b])
  BY IInvQueues DEF IInv
<1>2. ASSUME NEW a \in Accounts, Enqueue(a) PROVE Ended(queue'[b])
  <2>1. ~Woken
    BY <1>1, <1>2 DEF Enqueue, NextEvent, StopFacts, Woken, Stopper
  <2>2. queue[a] \in Seq(Nat \cup {None}) /\ Plain(queue[a]) /\ read + 1 \in Nat
    BY <1>1, <2>1, IInvQueues DEF TypeOK
  <2>3. Plain(Append(queue[a], read + 1))
    BY <2>2, EventsAppend
  <2>4. Ended(Append(queue[a], read + 1))
    BY <2>3 DEF Plain, Ended
  <2> QED BY <1>1, <1>2, <2>4 DEF Enqueue, TypeOK
<1>3. ASSUME NEW a \in Accounts, WorkerWakes(a) \/ WorkerFinishes(a)
      PROVE  Ended(queue'[b])
  BY <1>1, <1>3, TurnFacts DEF WorkerWakes, WorkerFinishes
<1>4. ASSUME NEW c \in Callers, StopFirst(c) \/ StopReaderGone(c) PROVE Ended(queue'[b])
  BY <1>1, <1>4, FirstToWake, WakeFacts DEF StopFirst, StopReaderGone
<1>5. CASE UNCHANGED queue
  BY <1>1, <1>5
<1> QED BY <1>2, <1>3, <1>4, <1>5
    DEF Next, ReaderStep, WorkerStep, StopStep, Rest, vars, Overflow, StreamEnds,
        ReaderCancelled, WorkerAdvances, WorkerCancelled, HandlerSwallowsCancel,
        StopEarly, StopJoined, DrainTimeout

(* An event moves from the queue to the worker and on, in order.           *)
LEMMA ConservedStep == IInv /\ [Next]_vars => Conserved'
<1> SUFFICES ASSUME IInv, [Next]_vars, NEW b \in Accounts
             PROVE  accepted'[b] = handled'[b] \o current'[b] \o Events(queue'[b])
  BY DEF Conserved
<1>1. /\ TypeOK /\ StopFacts /\ WorkerFacts
      /\ accepted[b] = handled[b] \o current[b] \o Events(queue[b])
  BY DEF IInv, Conserved
<1>2. /\ handled[b] \in Seq(Nat) /\ current[b] \in Seq(Nat)
      /\ Events(queue[b]) \in Seq(Nat)
  BY <1>1, IInvQueues DEF TypeOK
<1>3. handled[b] \o current[b] \in Seq(Nat)
  BY <1>2, ConcatProperties
<1> DEFINE Goal == accepted'[b] = handled'[b] \o current'[b] \o Events(queue'[b])
<1>4. CASE UNCHANGED <<accepted, handled, current, queue>>
  BY <1>1, <1>4
<1>5. ASSUME NEW a \in Accounts, Enqueue(a) PROVE Goal
  <2>1. CASE a # b
    BY <1>1, <1>5, <2>1 DEF Enqueue, TypeOK
  <2>2. CASE a = b
    <3>1. ~Woken
      BY <1>1, <1>5 DEF Enqueue, NextEvent, StopFacts, Woken, Stopper
    <3>2. queue[b] \in Seq(Nat \cup {None}) /\ Plain(queue[b]) /\ read + 1 \in Nat
      BY <1>1, <3>1, IInvQueues DEF TypeOK
    <3>3. Events(queue'[b]) = Append(Events(queue[b]), read + 1)
      BY <1>1, <1>5, <2>2, <3>2, EventsAppend DEF Enqueue, TypeOK
    <3>4. accepted'[b] = Append(accepted[b], read + 1)
      BY <1>1, <1>5, <2>2 DEF Enqueue, TypeOK
    <3>5. <<read + 1>> \in Seq(Nat)
      BY <3>2
    <3>6. Append(accepted[b], read + 1) = accepted[b] \o <<read + 1>>
      BY <1>1, <3>2, AppendIsConcat DEF TypeOK
    <3>7. Append(Events(queue[b]), read + 1) = Events(queue[b]) \o <<read + 1>>
      BY <1>2, <3>2, AppendIsConcat
    <3>8. (handled[b] \o current[b]) \o Events(queue[b]) \o <<read + 1>>
          = (handled[b] \o current[b]) \o (Events(queue[b]) \o <<read + 1>>)
      BY <1>2, <1>3, <3>5, EventsAssociative
    <3> QED BY <1>1, <1>5, <3>3, <3>4, <3>6, <3>7, <3>8 DEF Enqueue
  <2> QED BY <2>1, <2>2
<1>6. ASSUME NEW a \in Accounts, WorkerWakes(a) PROVE Goal
  <2>1. CASE a # b
    BY <1>1, <1>6, <2>1, TurnFacts DEF WorkerWakes
  <2>2. CASE a = b
    <3>1. Events(queue[b]) = current'[b] \o Events(queue'[b])
      BY <1>6, <2>2, TurnFacts DEF WorkerWakes
    <3>2. current[b] = <<>>
      BY <1>1, <1>6, <2>2 DEF WorkerWakes, WorkerFacts
    <3>3. handled[b] \o current[b] = handled[b]
      BY <1>2, <3>2, ConcatEmptySeq
    <3>4. current'[b] \in Seq(Nat) /\ Events(queue'[b]) \in Seq(Nat)
      BY <1>6, <2>2, TurnFacts DEF WorkerWakes
    <3>5. handled[b] \o (current'[b] \o Events(queue'[b]))
          = handled[b] \o current'[b] \o Events(queue'[b])
      BY <1>2, <3>4, EventsAssociative
    <3> QED BY <1>1, <1>6, <3>1, <3>3, <3>5 DEF WorkerWakes
  <2> QED BY <2>1, <2>2
<1>7. ASSUME NEW a \in Accounts, WorkerFinishes(a) PROVE Goal
  <2>1. CASE a # b
    BY <1>1, <1>7, <2>1, TurnFacts DEF WorkerFinishes, TypeOK
  <2>2. CASE a = b
    <3>1. Events(queue[b]) = current'[b] \o Events(queue'[b])
      BY <1>7, <2>2, TurnFacts DEF WorkerFinishes
    <3>2. handled'[b] = handled[b] \o current[b]
      BY <1>1, <1>7, <2>2 DEF WorkerFinishes, TypeOK
    <3>3. current'[b] \in Seq(Nat) /\ Events(queue'[b]) \in Seq(Nat)
      BY <1>7, <2>2, TurnFacts DEF WorkerFinishes
    <3>4. (handled[b] \o current[b]) \o (current'[b] \o Events(queue'[b]))
          = ((handled[b] \o current[b]) \o current'[b]) \o Events(queue'[b])
      BY <1>3, <3>3, EventsAssociative
    <3> QED BY <1>1, <1>7, <3>1, <3>2, <3>4 DEF WorkerFinishes
  <2> QED BY <2>1, <2>2
<1>8. ASSUME NEW c \in Callers, StopFirst(c) \/ StopReaderGone(c) PROVE Goal
  <2>1. UNCHANGED <<accepted, handled, current>>
    BY <1>8 DEF StopFirst, StopReaderGone
  <2>2. Events(queue'[b]) = Events(queue[b])
    BY <1>8, FirstToWake, WakeFacts DEF StopFirst, StopReaderGone
  <2> QED BY <1>1, <2>1, <2>2
<1> QED BY <1>4, <1>5, <1>6, <1>7, <1>8
    DEF Next, ReaderStep, WorkerStep, StopStep, Rest, vars, Overflow, StreamEnds,
        ReaderCancelled, WorkerAdvances, WorkerCancelled, HandlerSwallowsCancel,
        StopEarly, StopJoined, DrainTimeout

(* Every waiting worker has something to wake up for while stop() drains.  *)
LEMMA DrainNeverIdlesStep == IInv /\ [Next]_vars => DrainNeverIdles'
<1> SUFFICES ASSUME IInv, [Next]_vars,
                    NEW c \in Callers, stopPc'[c] = "drain",
                    NEW b \in Accounts, worker'[b] = "get"
             PROVE  queue'[b] # <<>>
  BY DEF DrainNeverIdles
<1>1. TypeOK /\ StopFacts /\ DrainNeverIdles
  BY DEF IInv
<1>2. CASE UNCHANGED <<queue, worker, stopPc>>
  BY <1>1, <1>2 DEF DrainNeverIdles
<1>3. ASSUME NEW a \in Accounts, Enqueue(a) PROVE FALSE
  BY <1>1, <1>3 DEF Enqueue, NextEvent, StopFacts, Stopper
<1>4. ASSUME NEW a \in Accounts, WorkerWakes(a) \/ WorkerFinishes(a)
      PROVE  queue'[b] # <<>>
  <2>1. Turn(a) /\ stopPc[c] = "drain"
    BY <1>4 DEF WorkerWakes, WorkerFinishes
  <2>2. stopped
    BY <1>1, <2>1 DEF StopFacts, Stopper
  <2> QED BY <1>1, <2>1, <2>2, TurnFacts DEF DrainNeverIdles
<1>5. ASSUME NEW a \in Accounts, WorkerAdvances(a) \/ WorkerCancelled(a)
      PROVE  queue'[b] # <<>>
  <2>1. worker[b] = "get" /\ queue'[b] = queue[b] /\ stopPc[c] = "drain"
    BY <1>1, <1>5 DEF WorkerAdvances, WorkerCancelled, TypeOK
  <2> QED BY <1>1, <2>1 DEF DrainNeverIdles
<1>6. ASSUME NEW d \in Callers, StopEarly(d) \/ StopJoined(d) \/ DrainTimeout(d)
      PROVE  queue'[b] # <<>>
  <2>1. stopPc[c] = "drain" /\ UNCHANGED <<queue, worker>>
    BY <1>1, <1>6 DEF StopEarly, StopJoined, DrainTimeout, TypeOK
  <2> QED BY <1>1, <2>1 DEF DrainNeverIdles
<1>7. ASSUME NEW d \in Callers, StopFirst(d) \/ StopReaderGone(d)
      PROVE  queue'[b] # <<>>
  <2>1. ~Woken /\ UNCHANGED worker
    BY <1>7, FirstToWake DEF StopFirst, StopReaderGone
  <2>2. WakeWorkers(d)
    BY <1>1, <1>7, <2>1 DEF StopFirst, StopReaderGone, TypeOK, Woken
  <2> QED BY <2>1, <2>2, WakeFacts
<1> QED BY <1>2, <1>3, <1>4, <1>5, <1>6, <1>7
    DEF Next, ReaderStep, WorkerStep, StopStep, Rest, vars, Overflow, StreamEnds,
        ReaderCancelled, HandlerSwallowsCancel

(* Once stop() has joined, reader and workers are gone for good.           *)
LEMMA JoinedMeansQuietStep == IInv /\ [Next]_vars => JoinedMeansQuiet'
<1> SUFFICES ASSUME IInv, [Next]_vars, NEW c \in Callers, stopPc'[c] = "joined"
             PROVE  /\ \A a \in Accounts : ~Alive(a)'
                    /\ reader' \notin {"running", "cancelling"}
  BY DEF JoinedMeansQuiet
<1> DEFINE Quiet == /\ \A a \in Accounts : ~Alive(a)
                    /\ reader \notin {"running", "cancelling"}
<1>1. TypeOK /\ StopFacts /\ JoinedMeansQuiet
  BY DEF IInv
<1>2. ASSUME stopPc[c] = "joined", Quiet PROVE Quiet'
  <2>1. ASSUME NEW a \in Accounts, Enqueue(a) \/ Overflow(a) PROVE FALSE
    BY <1>2, <2>1 DEF Enqueue, Overflow, NextEvent
  <2>2. ASSUME NEW a \in Accounts, WorkerStep(a) PROVE FALSE
    BY <1>2, <2>2 DEF WorkerStep, WorkerWakes, WorkerAdvances, WorkerFinishes,
       WorkerCancelled, HandlerSwallowsCancel, Alive, Dead
  <2>3. CASE StreamEnds \/ ReaderCancelled \/ \E d \in Callers : StopStep(d)
    BY <1>2, <2>3 DEF StreamEnds, ReaderCancelled, StopStep, StopEarly, StopFirst,
       StopReaderGone, StopJoined, DrainTimeout, Alive
  <2>4. CASE UNCHANGED vars
    BY <1>2, <2>4 DEF vars, Alive
  <2> QED BY <2>1, <2>2, <2>3, <2>4 DEF Next, ReaderStep, Rest
<1>3. CASE stopPc[c] = "joined"
  BY <1>1, <1>2, <1>3 DEF JoinedMeansQuiet
<1>4. CASE stopPc[c] # "joined"
  <2>1. PICK d \in Callers : StopStep(d)
    BY <1>4 DEF Next, ReaderStep, WorkerStep, Rest, vars, Enqueue, Overflow, StreamEnds,
       ReaderCancelled, WorkerWakes, WorkerAdvances, WorkerFinishes, WorkerCancelled,
       HandlerSwallowsCancel
  <2>2. CASE StopJoined(d)
    <3>1. Woken /\ stopped
      BY <1>1, <2>2 DEF StopJoined, Woken, StopFacts, Stopper
    <3> QED BY <1>1, <2>2, <3>1 DEF StopJoined, StopFacts, Alive
  <2>3. CASE StopFirst(d) \/ StopReaderGone(d)
    <3>1. WakeWorkers(d) /\ d = c /\ UNCHANGED worker
      BY <1>1, <1>4, <2>3 DEF StopFirst, StopReaderGone, WakeWorkers, TypeOK
    <3>2. \A a \in Accounts : worker[a] = "none"
      BY <1>1, <3>1 DEF WakeWorkers, TypeOK
    <3>3. reader' \notin {"running", "cancelling"}
      BY <1>1, <1>4, <2>3, <3>1 DEF StopFirst, StopReaderGone, StopFacts, TypeOK
    <3> QED BY <3>1, <3>2, <3>3 DEF Alive
  <2>4. ~StopEarly(d) /\ ~DrainTimeout(d)
    BY <1>1, <1>4 DEF StopEarly, DrainTimeout, TypeOK
  <2> QED BY <2>1, <2>2, <2>3, <2>4 DEF StopStep
<1> QED BY <1>3, <1>4

(* Every step preserves the whole invariant.                               *)
LEMMA IInvStep == IInv /\ [Next]_vars => IInv'
<1>1. IInv /\ [Next]_vars => TypeOK'
  BY TypeStep DEF IInv
<1> QED BY <1>1, StopFactsStep, WorkerFactsStep, SentinelLastStep, ConservedStep,
    DrainNeverIdlesStep, JoinedMeansQuietStep DEF IInv

-----------------------------------------------------------------------------
(* The theorems.                                                           *)

(* The inductive invariant.                                                *)
THEOREM Invariance == Spec => []IInv
BY IInvInit, IInvStep, PTL DEF Spec

(* No event is lost, duplicated or reordered within its account, whatever  *)
(* the order in which reader, workers, handlers and stop() run.            *)
THEOREM Conservation == Spec => []Conserved
<1>1. IInv => Conserved
  BY DEF IInv
<1> QED BY <1>1, Invariance, PTL

(* A sentinel is behind every event of its queue.                          *)
THEOREM SentinelIsLast == Spec => []SentinelLast
<1>1. IInv => SentinelLast
  BY DEF IInv
<1> QED BY <1>1, Invariance, PTL

(* A worker that ends by itself has handled all that its account was       *)
(* given, and while stop() drains every waiting worker has been woken.     *)
THEOREM ShutdownIsSound == Spec => []ShutdownDrains
<1>1. ASSUME IInv, NEW a \in Accounts, worker[a] = "exited"
      PROVE  handled[a] = accepted[a]
  <2>1. current[a] = <<>> /\ queue[a] \in {<<>>, <<None>>}
    BY <1>1 DEF IInv, WorkerFacts
  <2>2. Events(queue[a]) = <<>>
    <3>1. Events(<<>>) = <<>>
      BY DEF Events
    <3>2. CASE queue[a] = <<None>>
      <4>1. /\ queue[a] \in Seq(Nat \cup {None}) /\ Ended(queue[a])
            /\ queue[a] # <<>> /\ Head(queue[a]) = None
        BY <1>1, <3>2, IInvQueues
      <4> QED BY <4>1, EventsNoneHead
    <3> QED BY <2>1, <3>1, <3>2
  <2>3. handled[a] \in Seq(Nat) /\ accepted[a] = handled[a] \o <<>> \o <<>>
    BY <1>1, <2>1, <2>2 DEF IInv, TypeOK, Conserved
  <2> QED BY <2>3, ConcatEmptySeq
<1>2. IInv => ShutdownDrains
  BY <1>1 DEF ShutdownDrains, ExitedMeansDrained, IInv
<1> QED BY <1>2, Invariance, PTL

(* When stop() returns to its first caller nothing runs any more.          *)
THEOREM JoinIsQuiet == Spec => []JoinedMeansQuiet
<1>1. IInv => JoinedMeansQuiet
  BY DEF IInv
<1> QED BY <1>1, Invariance, PTL

(* After stop() or an overflow no event enters a queue.                    *)
THEOREM StopClosesQueues == Spec => NoAcceptAfterStop
<1>1. IInv /\ [Next]_vars => [stopped => UNCHANGED accepted]_vars
  <2> SUFFICES ASSUME IInv, [Next]_vars, stopped PROVE UNCHANGED accepted
    OBVIOUS
  <2>1. reader # "running"
    BY DEF IInv, StopFacts
  <2> QED BY <2>1
      DEF Next, ReaderStep, WorkerStep, StopStep, Rest, vars, Enqueue, Overflow, NextEvent,
          StreamEnds, ReaderCancelled, WorkerWakes, WorkerAdvances, WorkerFinishes,
          WorkerCancelled, HandlerSwallowsCancel, StopEarly, StopFirst, StopReaderGone,
          StopJoined, DrainTimeout
<1> QED BY <1>1, Invariance, PTL DEF Spec, NoAcceptAfterStop

-----------------------------------------------------------------------------
(* Refinement.                                                             *)

(* The abstract pending events: in the worker's hands, then in the queue.  *)
Pending(a) == current[a] \o Events(queue[a])

(* One element before a list: its head, and the list behind it.            *)
LEMMA OneBefore ==
  ASSUME NEW s \in Seq(Nat), Len(s) = 1, NEW t \in Seq(Nat)
  PROVE  /\ s \o t # <<>>
         /\ Head(s \o t) \in Nat
         /\ s = <<Head(s \o t)>>
         /\ Tail(s \o t) = t
<1> DEFINE u == s \o t
<1>1. Len(t) \in Nat
  BY LenProperties
<1>2. /\ u \in Seq(Nat)
      /\ Len(u) = Len(s) + Len(t)
      /\ \A i \in 1..Len(s) + Len(t) : u[i] = IF i <= Len(s) THEN s[i] ELSE t[i - Len(s)]
  BY ConcatProperties
<1> HIDE DEF u
<1>3. u[1] = s[1]
  BY <1>1, <1>2
<1>4. ASSUME NEW i \in 1..Len(t) PROVE u[i + 1] = t[i]
  <2>1. i + 1 \in 1..Len(s) + Len(t) /\ ~(i + 1 <= Len(s)) /\ (i + 1) - Len(s) = i
    BY <1>1
  <2> QED BY <1>2, <2>1
<1>5. /\ u \in Seq(Nat)
      /\ Len(u) = 1 + Len(t)
      /\ Len(t) \in Nat
      /\ u[1] = s[1]
      /\ \A i \in 1..Len(t) : u[i + 1] = t[i]
  BY <1>1, <1>2, <1>3, <1>4
<1>6. u # <<>>
  BY <1>5, EmptySeq
<1>7. /\ Head(u) \in Nat /\ Head(u) = u[1]
      /\ Tail(u) \in Seq(Nat)
      /\ Len(Tail(u)) = Len(u) - 1
      /\ \A i \in 1..Len(Tail(u)) : Tail(u)[i] = u[i + 1]
  BY <1>5, <1>6, HeadTailProperties
<1>8. Tail(u) = t
  <2>1. Len(Tail(u)) = Len(t)
    BY <1>5, <1>7
  <2>2. \A i \in 1..Len(Tail(u)) : Tail(u)[i] = t[i]
    BY <1>5, <1>7, <2>1
  <2> QED BY <1>7, <2>1, <2>2, SeqEqual
<1>9. s = <<s[1]>>
  <2>1. s[1] \in Nat
    BY ElementOfSeq
  <2>2. <<s[1]>> \in Seq(Nat) /\ Len(<<s[1]>>) = 1
    BY <2>1
  <2> QED BY <2>2, SeqEqual
<1> QED BY <1>5, <1>6, <1>7, <1>8, <1>9 DEF u

(* Pending events are numbers.                                             *)
LEMMA PendingType ==
  ASSUME IInv, NEW a \in Accounts
  PROVE  /\ Pending(a) \in Seq(Nat)
         /\ current[a] \in Seq(Nat)
         /\ Events(queue[a]) \in Seq(Nat)
<1>1. current[a] \in Seq(Nat) /\ Events(queue[a]) \in Seq(Nat)
  BY IInvQueues DEF IInv, TypeOK
<1> QED BY <1>1, ConcatProperties DEF Pending

(* Accepting an event puts it behind the pending ones of its account.      *)
LEMMA EnqueueAccepts ==
  ASSUME IInv, NEW a \in Accounts, Enqueue(a)
  PROVE  /\ ~stopped
         /\ read + 1 \in 1..MaxEvents
         /\ Pending(a)' = Append(Pending(a), read + 1)
         /\ \A b \in Accounts \ {a} : Pending(b)' = Pending(b)
<1>1. ~stopped /\ ~Woken
  BY DEF IInv, StopFacts, Enqueue, NextEvent, Woken, Stopper
<1>2. read + 1 \in 1..MaxEvents /\ read + 1 \in Nat
  BY MaxEventsAssumption DEF IInv, TypeOK, Enqueue, NextEvent
<1>3. queue[a] \in Seq(Nat \cup {None}) /\ Plain(queue[a])
  BY <1>1, IInvQueues
<1>4. /\ queue'[a] = Append(queue[a], read + 1)
      /\ \A b \in Accounts \ {a} : queue'[b] = queue[b]
      /\ current' = current
  BY DEF Enqueue, IInv, TypeOK
<1>5. Events(queue'[a]) = Append(Events(queue[a]), read + 1)
  BY <1>2, <1>3, <1>4, EventsAppend
<1>6. current[a] \o (Events(queue[a]) \o <<read + 1>>)
      = (current[a] \o Events(queue[a])) \o <<read + 1>>
  <2>1. <<read + 1>> \in Seq(Nat)
    BY <1>2
  <2> QED BY <2>1, PendingType, EventsAssociative
<1>7. Append(Events(queue[a]), read + 1) = Events(queue[a]) \o <<read + 1>>
  BY <1>2, PendingType, AppendIsConcat
<1>8. Append(Pending(a), read + 1) = Pending(a) \o <<read + 1>>
  BY <1>2, PendingType, AppendIsConcat
<1>9. Pending(a)' = Append(Pending(a), read + 1)
  BY <1>4, <1>5, <1>6, <1>7, <1>8 DEF Pending
<1> QED BY <1>1, <1>2, <1>4, <1>9 DEF Pending

(* Taking an event out of the queue leaves it pending.                     *)
LEMMA WakeKeepsPending ==
  ASSUME IInv, NEW a \in Accounts, WorkerWakes(a), NEW b \in Accounts
  PROVE  Pending(b)' = Pending(b)
<1>1. CASE b # a
  BY <1>1, TurnFacts DEF WorkerWakes, Pending
<1>2. CASE b = a
  <2>1. current[a] = <<>>
    BY DEF WorkerWakes, IInv, WorkerFacts
  <2>2. Pending(a) = Events(queue[a])
    BY <2>1, PendingType, ConcatEmptySeq DEF Pending
  <2> QED BY <1>2, <2>2, TurnFacts DEF WorkerWakes, Pending
<1> QED BY <1>1, <1>2

(* Being done with an event is processing the oldest pending one.          *)
LEMMA FinishProcesses ==
  ASSUME IInv, NEW a \in Accounts, WorkerFinishes(a)
  PROVE  /\ Pending(a) # <<>>
         /\ Pending(a)' = Tail(Pending(a))
         /\ handled' = [handled EXCEPT ![a] = Append(@, Head(Pending(a)))]
         /\ \A b \in Accounts \ {a} : Pending(b)' = Pending(b)
<1>1. Len(current[a]) = 1
  BY DEF WorkerFinishes, IInv, WorkerFacts, Busy
<1>2. /\ Pending(a) # <<>>
      /\ Head(Pending(a)) \in Nat
      /\ current[a] = <<Head(Pending(a))>>
      /\ Tail(Pending(a)) = Events(queue[a])
  BY <1>1, PendingType, OneBefore DEF Pending
<1>3. Pending(a)' = Events(queue[a])
  BY TurnFacts DEF WorkerFinishes, Pending
<1>4. handled[a] \o current[a] = Append(handled[a], Head(Pending(a)))
  <2>1. handled[a] \in Seq(Nat)
    BY DEF IInv, TypeOK
  <2> QED BY <1>2, <2>1, AppendIsConcat
<1>5. \A b \in Accounts \ {a} : Pending(b)' = Pending(b)
  BY TurnFacts DEF WorkerFinishes, Pending
<1> QED BY <1>2, <1>3, <1>4, <1>5 DEF WorkerFinishes

(* Sentinels are no events.                                                *)
LEMMA StopKeepsPending ==
  ASSUME IInv, NEW c \in Callers, StopFirst(c) \/ StopReaderGone(c), NEW b \in Accounts
  PROVE  Pending(b)' = Pending(b)
BY FirstToWake, WakeFacts DEF StopFirst, StopReaderGone, Pending

(* The dispatcher implements OrderedDelivery: reading an event accepts it, *)
(* being done with it processes it, stop() and overflow close the queues,  *)
(* and every other step leaves the abstract state alone.                   *)
THEOREM Refinement == Spec => ImplementsOrderedDelivery
<1> DEFINE pend == [a \in Accounts |-> current[a] \o Events(queue[a])]
<1>1. Init => Abstract!Init
  <2> SUFFICES ASSUME Init PROVE Abstract!Init
    OBVIOUS
  <2>1. Events(<<>>) = <<>>
    BY DEF Events
  <2>2. <<>> \o <<>> = <<>>
    BY EmptySeq, ConcatEmptySeq
  <2> QED BY <2>1, <2>2 DEF Init, Abstract!Init
<1>2. IInv /\ [Next]_vars => [Abstract!Next]_(Abstract!vars)
  <2> SUFFICES ASSUME IInv, [Next]_vars PROVE [Abstract!Next]_(Abstract!vars)
    OBVIOUS
  <2> USE DEF Pending
  <2>1. ASSUME NEW a \in Accounts, Enqueue(a) PROVE Abstract!Next
    <3>1. PICK n \in 1..MaxEvents : n = read + 1
      BY <2>1, EnqueueAccepts
    <3>2. pend' = [pend EXCEPT ![a] = Append(@, n)]
      BY <2>1, <3>1, EnqueueAccepts
    <3>3. UNCHANGED <<handled, stopped>> /\ ~stopped
      BY <2>1, EnqueueAccepts DEF Enqueue
    <3>4. Abstract!Accept(a, n)
      BY <3>2, <3>3 DEF Abstract!Accept
    <3> QED BY <3>4 DEF Abstract!Next
  <2>2. ASSUME NEW a \in Accounts, WorkerFinishes(a) PROVE Abstract!Next
    <3>1. pend' = [pend EXCEPT ![a] = Tail(@)]
      BY <2>2, FinishProcesses
    <3>2. UNCHANGED stopped
      BY <2>2 DEF WorkerFinishes
    <3>3. pend[a] # <<>> /\ handled' = [handled EXCEPT ![a] = Append(@, Head(pend[a]))]
      BY <2>2, FinishProcesses
    <3>4. Abstract!Process(a)
      BY <3>1, <3>2, <3>3 DEF Abstract!Process
    <3> QED BY <3>4 DEF Abstract!Next
  <2>3. ASSUME NEW c \in Callers, StopFirst(c) PROVE Abstract!Next
    <3>1. pend' = pend
      BY <2>3, StopKeepsPending
    <3> QED BY <2>3, <3>1 DEF StopFirst, Abstract!Next, Abstract!Close
  <2>4. ASSUME NEW a \in Accounts, Overflow(a) PROVE Abstract!Next
    BY <2>4 DEF Overflow, Abstract!Next, Abstract!Close
  <2>5. ASSUME NEW a \in Accounts, WorkerWakes(a) PROVE UNCHANGED Abstract!vars
    <3>1. pend' = pend
      BY <2>5, WakeKeepsPending
    <3> QED BY <2>5, <3>1 DEF WorkerWakes, Abstract!vars
  <2>6. ASSUME NEW c \in Callers, StopReaderGone(c) PROVE UNCHANGED Abstract!vars
    <3>1. pend' = pend
      BY <2>6, StopKeepsPending
    <3> QED BY <2>6, <3>1 DEF StopReaderGone, Abstract!vars
  <2>7. CASE UNCHANGED <<current, queue, handled, stopped>>
    BY <2>7 DEF Abstract!vars
  <2> QED BY <2>1, <2>2, <2>3, <2>4, <2>5, <2>6, <2>7
      DEF Next, ReaderStep, WorkerStep, StopStep, Rest, vars, StreamEnds, ReaderCancelled,
          WorkerAdvances, WorkerCancelled, HandlerSwallowsCancel, StopEarly, StopJoined,
          DrainTimeout
<1> QED BY <1>1, <1>2, Invariance, PTL DEF Spec, ImplementsOrderedDelivery, Abstract!Spec
=============================================================================

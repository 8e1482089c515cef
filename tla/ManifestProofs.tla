--------------------------- MODULE ManifestProofs ---------------------------
(***************************************************************************)
(* Proofs about the manifest, for any keys, jids and tasks and any number  *)
(* of cancelled calls and failed writes.  IInv of Manifest is the          *)
(* inductive invariant: the lock covers memory and write, so that the      *)
(* thread a task waits for has the memory to write.  The refinement of     *)
(* DurableMap needs CallFacts besides: without faults, that thread makes   *)
(* of the disk what its task's call asks for.                              *)
(***************************************************************************)
EXTENDS Manifest, SequenceTheorems, TLAPS

Pcs == {"idle", "called", "writing", "written", "failed"}
Writer == [task : Tasks \cup {Nobody}, snapshot : Maps]

(* What a call asks for.                                                   *)
LEMMA CallsAreTyped ==
  \A c \in Calls : c.key \in Keys /\ c.jid \in Values
BY DEF Calls, Values

(* The head of the lock's queue holds it, and nobody else does.            *)
LEMMA HolderIsUnique ==
  ASSUME TypeOK, NEW t, NEW u, Holds(t), Holds(u)
  PROVE  t = u
BY DEF Holds

(* The queue without its head.                                             *)
LEMMA QueueLeaves ==
  ASSUME TypeOK, LockFacts, NEW t \in Tasks, Holds(t)
  PROVE  /\ Tail(lockQueue) \in Seq(Tasks)
         /\ Len(Tail(lockQueue)) = Len(lockQueue) - 1
         /\ \A i \in 1..Len(Tail(lockQueue)) : /\ Tail(lockQueue)[i] = lockQueue[i + 1]
                                               /\ Tail(lockQueue)[i] # t
         /\ \A i, j \in 1..Len(Tail(lockQueue)) : Tail(lockQueue)[i] = Tail(lockQueue)[j] => i = j
<1>1. lockQueue \in Seq(Tasks) /\ lockQueue # <<>> /\ lockQueue[1] = t /\ Len(lockQueue) \in Nat \ {0}
  BY DEF TypeOK, Holds
<1>2. /\ Tail(lockQueue) \in Seq(Tasks) /\ Len(Tail(lockQueue)) = Len(lockQueue) - 1
      /\ \A i \in 1..(Len(lockQueue) - 1) : Tail(lockQueue)[i] = lockQueue[i + 1]
  BY <1>1
<1>3. \A i, j \in 1..Len(lockQueue) : lockQueue[i] = lockQueue[j] => i = j
  BY DEF LockFacts
<1>4. ASSUME NEW i \in 1..(Len(lockQueue) - 1)
      PROVE  Tail(lockQueue)[i] = lockQueue[i + 1] /\ lockQueue[i + 1] # t
  BY <1>1, <1>2, <1>3
<1>5. ASSUME NEW i \in 1..(Len(lockQueue) - 1), NEW j \in 1..(Len(lockQueue) - 1),
             Tail(lockQueue)[i] = Tail(lockQueue)[j]
      PROVE  i = j
  BY <1>1, <1>2, <1>3, <1>5
<1> QED BY <1>2, <1>4, <1>5

(* The queue without one of its tasks.                                     *)
LEMMA QueueCancels ==
  ASSUME TypeOK, LockFacts, NEW n \in 1..Len(lockQueue)
  PROVE  LET q == RemoveAt(lockQueue, n) IN
         /\ q \in Seq(Tasks)
         /\ Len(q) = Len(lockQueue) - 1
         /\ \A i \in 1..Len(q) : i < n => q[i] = lockQueue[i]
         /\ \A i \in 1..Len(q) : i >= n => q[i] = lockQueue[i + 1]
         /\ \A i \in 1..Len(q) : q[i] # lockQueue[n]
         /\ \A i, j \in 1..Len(q) : q[i] = q[j] => i = j
<1> DEFINE q == RemoveAt(lockQueue, n)
           l == Len(lockQueue)
           before == SubSeq(lockQueue, 1, n - 1)
           after == SubSeq(lockQueue, n + 1, l)
<1>1. lockQueue \in Seq(Tasks) /\ l \in Nat /\ n \in Nat /\ 1 <= n /\ n <= l
  BY DEF TypeOK
<1>2. \A i \in 1..l : lockQueue[i] \in Tasks
  BY <1>1
<1>3. /\ before \in Seq(Tasks) /\ Len(before) = n - 1
      /\ \A i \in 1..(n - 1) : before[i] = lockQueue[i]
  <2>1. \A i \in 1..(n - 1) : lockQueue[i] \in Tasks
    BY <1>1, <1>2
  <2>2. /\ SubSeq(lockQueue, 1, n - 1) \in Seq(Tasks)
        /\ Len(SubSeq(lockQueue, 1, n - 1)) = IF 1 <= n - 1 THEN (n - 1) - 1 + 1 ELSE 0
        /\ \A i \in 1..((n - 1) - 1 + 1) : SubSeq(lockQueue, 1, n - 1)[i] = lockQueue[1 + i - 1]
    BY <1>1, <2>1, SubSeqProperties
  <2> QED BY <1>1, <2>2
<1>4. /\ after \in Seq(Tasks) /\ Len(after) = l - n
      /\ \A i \in 1..(l - n) : after[i] = lockQueue[n + i]
  <2>1. \A i \in (n + 1)..l : lockQueue[i] \in Tasks
    BY <1>1, <1>2
  <2>2. /\ SubSeq(lockQueue, n + 1, l) \in Seq(Tasks)
        /\ Len(SubSeq(lockQueue, n + 1, l)) = IF n + 1 <= l THEN l - (n + 1) + 1 ELSE 0
        /\ \A i \in 1..(l - (n + 1) + 1) : SubSeq(lockQueue, n + 1, l)[i] = lockQueue[n + 1 + i - 1]
    BY <1>1, <2>1, SubSeqProperties
  <2> QED BY <1>1, <2>2
<1> HIDE DEF before, after
<1>5. /\ q \in Seq(Tasks) /\ Len(q) = l - 1
      /\ \A i \in 1..(l - 1) : q[i] = IF i <= n - 1 THEN before[i] ELSE after[i - (n - 1)]
  <2>1. q = before \o after
    BY DEF before, after, RemoveAt
  <2>2. /\ before \o after \in Seq(Tasks)
        /\ Len(before \o after) = Len(before) + Len(after)
        /\ \A i \in 1..(Len(before) + Len(after)) :
              (before \o after)[i] = IF i <= Len(before) THEN before[i] ELSE after[i - Len(before)]
    BY <1>3, <1>4, ConcatProperties
  <2>3. Len(before) + Len(after) = l - 1
    BY <1>1, <1>3, <1>4
  <2> QED BY <1>3, <2>1, <2>2, <2>3
<1> HIDE DEF q
<1>5a. q \in Seq(Tasks) /\ Len(q) = l - 1
  BY <1>5
<1>6. ASSUME NEW i \in 1..Len(q) PROVE q[i] = IF i <= n - 1 THEN before[i] ELSE after[i - (n - 1)]
  BY <1>5
<1>7. ASSUME NEW i \in 1..Len(q), i < n PROVE q[i] = lockQueue[i]
  <2>1. i <= n - 1 /\ i \in 1..(n - 1)
    BY <1>1, <1>7
  <2> QED BY <1>3, <1>6, <2>1
<1>8. ASSUME NEW i \in 1..Len(q), i >= n PROVE q[i] = lockQueue[i + 1]
  <2> HIDE DEF l
  <2>0. i \in 1..(l - 1)
    BY <1>5a
  <2>1. i \in 1..(l - 1) /\ ~(i <= n - 1)
    BY <1>1, <1>8, <2>0
  <2>2. i - (n - 1) \in 1..(l - n) /\ n + (i - (n - 1)) = i + 1
    BY <1>1, <2>1
  <2>3. after[i - (n - 1)] = lockQueue[n + (i - (n - 1))]
    BY <1>4, <2>2
  <2> QED BY <1>6, <2>1, <2>2, <2>3
<1>9. \A i, j \in 1..l : lockQueue[i] = lockQueue[j] => i = j
  BY DEF LockFacts
<1>10. ASSUME NEW i \in 1..Len(q)
       PROVE  \E m \in 1..l : m # n /\ q[i] = lockQueue[m] /\ m = IF i < n THEN i ELSE i + 1
  <2> HIDE DEF l
  <2>1. i \in 1..(l - 1)
    BY <1>5a
  <2>2. CASE i < n
    BY <1>1, <1>7, <2>1, <2>2
  <2>3. CASE i >= n
    <3>1. i + 1 \in 1..l /\ i + 1 # n /\ ~(i < n)
      BY <1>1, <2>1, <2>3
    <3> QED BY <1>8, <2>3, <3>1
  <2>4. i < n \/ i >= n
    BY <1>1, <2>1
  <2> QED BY <2>2, <2>3, <2>4
<1>11. ASSUME NEW i \in 1..Len(q) PROVE q[i] # lockQueue[n]
  <2> HIDE DEF l
  <2>1. PICK m \in 1..l : m # n /\ q[i] = lockQueue[m]
    BY <1>10
  <2>2. n \in 1..l
    BY <1>1
  <2> QED BY <1>9, <2>1, <2>2
<1>12. ASSUME NEW i \in 1..Len(q), NEW j \in 1..Len(q), q[i] = q[j] PROVE i = j
  <2> HIDE DEF l
  <2>1. PICK m \in 1..l : q[i] = lockQueue[m] /\ m = IF i < n THEN i ELSE i + 1
    BY <1>10
  <2>2. PICK k \in 1..l : q[j] = lockQueue[k] /\ k = IF j < n THEN j ELSE j + 1
    BY <1>10
  <2>3. m = k
    BY <1>9, <1>12, <2>1, <2>2
  <2>4. i \in 1..(l - 1) /\ j \in 1..(l - 1)
    BY <1>5a
  <2> QED BY <1>1, <2>1, <2>2, <2>3, <2>4
<1> QED BY <1>5a, <1>7, <1>8, <1>11, <1>12 DEF q

-----------------------------------------------------------------------------
(* The types.                                                              *)
LEMMA TypeOKStep ==
  ASSUME IInv, [Next]_vars
  PROVE  TypeOK'
<1> USE DEF TypeOK
<1>1. TypeOK /\ LockFacts
  BY DEF IInv
<1>2. CASE Open \/ Close
  BY <1>1, <1>2 DEF Open, Close, lockVars, historyVars
<1>3. CASE Crash
  <2>1. <<>> \in Seq(Tasks)
    OBVIOUS
  <2> QED BY <1>1, <1>3, <2>1 DEF Crash, historyVars
<1>4. ASSUME NEW t \in Tasks, NEW c \in Calls, Enter(t, c) PROVE TypeOK'
  <2>1. lockQueue' \in Seq(Tasks)
    BY <1>1, <1>4 DEF Enter
  <2> QED BY <1>1, <1>4, <2>1 DEF Enter, historyVars
<1>5. ASSUME NEW t \in Tasks, Leave(t), Holds(t)
      PROVE  /\ lockQueue' \in Seq(Tasks)
             /\ pc' \in [Tasks -> {"idle", "called", "writing", "written", "failed"}]
             /\ call' \in [Tasks -> Calls \cup {NoCall}]
  BY <1>1, <1>5, QueueLeaves DEF Leave
<1>6. ASSUME NEW k \in Keys, Ack(k)
      PROVE  acked' \in Maps /\ attempted' \in [Keys -> SUBSET Values]
  BY <1>1, <1>6 DEF Ack, Maps
<1>7. ASSUME NEW t \in Tasks, pc[t] # "idle"
      PROVE  call[t].key \in Keys /\ call[t].jid \in Values
  BY <1>1, <1>7, CallsAreTyped DEF LockFacts
<1>8. ASSUME NEW t \in Tasks, Refuse(t) PROVE TypeOK'
  BY <1>1, <1>5, <1>8 DEF Refuse, historyVars
<1>9. ASSUME NEW t \in Tasks, Keep(t) PROVE TypeOK'
  BY <1>1, <1>5, <1>6, <1>7, <1>9 DEF Keep
<1>10. ASSUME NEW t \in Tasks, Mutate(t) PROVE TypeOK'
  <2>1. call[t].key \in Keys /\ call[t].jid \in Values
    BY <1>7, <1>10 DEF Mutate
  <2>2. entries' \in Maps /\ attempted' \in [Keys -> SUBSET Values]
    BY <1>1, <1>10, <2>1 DEF Mutate, Maps
  <2>3. writers' \subseteq Writer
    <3>1. [task |-> t, snapshot |-> entries'] \in Writer
      BY <2>2 DEF Writer
    <3>2. writers' = writers \cup {[task |-> t, snapshot |-> entries']} /\ writers \subseteq Writer
      BY <1>1, <1>10 DEF Mutate, Writer
    <3> QED BY <3>1, <3>2
  <2> QED BY <1>1, <1>10, <2>2, <2>3 DEF Mutate, Writer
<1>11. ASSUME NEW t \in Tasks, Returns(t) PROVE TypeOK'
  <2>1. Holds(t) /\ call[t].key \in Keys
    BY <1>1, <1>7, <1>11 DEF Returns, LockFacts
  <2>2. acked' \in Maps /\ attempted' \in [Keys -> SUBSET Values]
    BY <1>1, <1>6, <1>11, <2>1 DEF Returns
  <2> QED BY <1>1, <1>5, <1>11, <2>1, <2>2 DEF Returns
<1>12. ASSUME NEW t \in Tasks, Cancel(t) PROVE TypeOK'
  <2>1. lockQueue' \in Seq(Tasks)
    BY <1>1, <1>12, QueueCancels DEF Cancel
  <2>2. writers' \subseteq Writer
    BY <1>1, <1>12 DEF Cancel, Writer
  <2>3. faults' \in 0..MaxFaults
    BY <1>1, <1>12, MaxFaultsAssumption DEF Cancel
  <2>4. torn' \in BOOLEAN
    BY <1>1, <1>12 DEF Cancel
  <2> QED BY <1>1, <1>12, <2>1, <2>2, <2>3, <2>4 DEF Cancel, Writer
<1>13. ASSUME NEW w \in writers, Write(w) \/ WriteFails(w) PROVE TypeOK'
  <2>1. w \in Writer /\ w.snapshot \in Maps
    BY <1>1, <1>13 DEF Writer
  <2>2. faults' \in 0..MaxFaults
    BY <1>1, <1>13, MaxFaultsAssumption DEF Write, WriteFails
  <2>3. /\ pc' \in [Tasks -> {"idle", "called", "writing", "written", "failed"}]
        /\ disk' \in Maps /\ torn' \in BOOLEAN /\ writers' \subseteq writers
    BY <1>1, <1>13, <2>1 DEF Write, WriteFails
  <2> QED BY <1>1, <1>13, <2>2, <2>3 DEF Write, WriteFails
<1>14. CASE UNCHANGED vars
  BY <1>1, <1>14 DEF vars, lockVars, historyVars
<1> QED BY <1>2, <1>3, <1>4, <1>8, <1>9, <1>10, <1>11, <1>12, <1>13, <1>14 DEF Next, TaskStep

(* The lock is one: nobody is in the queue twice, and who writes holds it. *)
LEMMA LockFactsStep ==
  ASSUME IInv, [Next]_vars
  PROVE  LockFacts'
<1>1. /\ TypeOK /\ LockFacts
      /\ pc \in [Tasks -> Pcs] /\ lockQueue \in Seq(Tasks) /\ Len(lockQueue) \in Nat
      /\ \A i \in 1..Len(lockQueue) : lockQueue[i] \in Tasks
  BY DEF IInv, TypeOK, Pcs
<1>2. CASE Open \/ Close
  BY <1>1, <1>2 DEF LockFacts, Open, Close, lockVars, Holds
<1>3. CASE Crash
  BY <1>1, <1>3 DEF LockFacts, Crash, Holds
<1>4. ASSUME NEW t \in Tasks, NEW c \in Calls, Enter(t, c) PROVE LockFacts'
  <2>1. /\ lockQueue' \in Seq(Tasks) /\ Len(lockQueue') = Len(lockQueue) + 1
        /\ \A i \in 1..Len(lockQueue) : lockQueue'[i] = lockQueue[i] /\ lockQueue'[i] # t
        /\ lockQueue'[Len(lockQueue) + 1] = t
    BY <1>1, <1>4 DEF Enter, LockFacts
  <2>2. \A i, j \in 1..Len(lockQueue') : lockQueue'[i] = lockQueue'[j] => i = j
    BY <1>1, <2>1 DEF LockFacts
  <2>3. \A i \in 1..Len(lockQueue') : pc'[lockQueue'[i]] # "idle"
    BY <1>1, <1>4, <2>1 DEF Enter, LockFacts
  <2>4. \A u \in Tasks : pc'[u] \in {"writing", "written", "failed"} => Holds(u)'
    <3>1. \A u \in Tasks : Holds(u) => Holds(u)'
      BY <1>1, <2>1 DEF Holds
    <3> QED BY <1>1, <1>4, <3>1 DEF Enter, LockFacts
  <2>5. \A u \in Tasks : pc'[u] # "idle" => call'[u] \in Calls
    BY <1>1, <1>4 DEF Enter, LockFacts, TypeOK
  <2> QED BY <1>4, <2>2, <2>3, <2>4, <2>5 DEF LockFacts, Enter
<1>5. ASSUME NEW t \in Tasks, Leave(t), Holds(t), opened' = opened PROVE LockFacts'
  <2>1. /\ Len(lockQueue') \in Nat
        /\ \A i \in 1..Len(lockQueue') : /\ i + 1 \in 1..Len(lockQueue)
                                         /\ lockQueue'[i] = lockQueue[i + 1]
                                         /\ lockQueue'[i] # t
        /\ \A i, j \in 1..Len(lockQueue') : lockQueue'[i] = lockQueue'[j] => i = j
    <3> DEFINE q == Tail(lockQueue)
    <3>1. /\ q \in Seq(Tasks)
          /\ Len(q) = Len(lockQueue) - 1
          /\ \A i \in 1..Len(q) : q[i] = lockQueue[i + 1] /\ q[i] # t
          /\ \A i, j \in 1..Len(q) : q[i] = q[j] => i = j
      BY <1>1, <1>5, QueueLeaves
    <3>2. lockQueue' = q
      BY <1>5 DEF Leave
    <3> HIDE DEF q
    <3>3. Len(q) \in Nat /\ \A i \in 1..Len(q) : i + 1 \in 1..Len(lockQueue)
      BY <1>1, <3>1
    <3> QED BY <3>1, <3>2, <3>3
  <2>2. \A i \in 1..Len(lockQueue') : pc'[lockQueue'[i]] # "idle"
    BY <1>1, <1>5, <2>1 DEF Leave, LockFacts
  <2>3. \A u \in Tasks : pc'[u] \in {"writing", "written", "failed"} => Holds(u)'
    BY <1>1, <1>5 DEF Leave, LockFacts, Holds
  <2>4. \A u \in Tasks : pc'[u] # "idle" => call'[u] \in Calls
    BY <1>1, <1>5 DEF Leave, LockFacts, TypeOK
  <2>5. opened'
    BY <1>1, <1>5 DEF LockFacts, Holds
  <2> QED BY <2>1, <2>2, <2>3, <2>4, <2>5 DEF LockFacts
<1>6. ASSUME NEW t \in Tasks, Refuse(t) \/ Keep(t) \/ Returns(t) PROVE LockFacts'
  BY <1>1, <1>5, <1>6 DEF Refuse, Keep, Returns, LockFacts
<1>7. ASSUME NEW t \in Tasks, NEW pcOfT \in Pcs \ {"idle"}, pc[t] # "idle", Holds(t),
             pc' = [pc EXCEPT ![t] = pcOfT], UNCHANGED <<opened, lockQueue, call>>
      PROVE  LockFacts'
  BY <1>1, <1>7 DEF LockFacts, Holds, Pcs
<1>8. ASSUME NEW t \in Tasks, Mutate(t) PROVE LockFacts'
  BY <1>7, <1>8 DEF Mutate, Pcs
<1>9. ASSUME NEW t \in Tasks, Cancel(t) PROVE LockFacts'
  <2>1. PICK n \in 1..Len(lockQueue) :
           /\ lockQueue[n] = t
           /\ lockQueue' = RemoveAt(lockQueue, n)
    BY <1>9 DEF Cancel
  <2>2. /\ lockQueue' \in Seq(Tasks) /\ Len(lockQueue') = Len(lockQueue) - 1
        /\ \A i \in 1..Len(lockQueue') : i < n => lockQueue'[i] = lockQueue[i]
        /\ \A i \in 1..Len(lockQueue') : i >= n => lockQueue'[i] = lockQueue[i + 1]
        /\ \A i \in 1..Len(lockQueue') : lockQueue'[i] # t
        /\ \A i, j \in 1..Len(lockQueue') : lockQueue'[i] = lockQueue'[j] => i = j
    BY <1>1, <2>1, QueueCancels
  <2>3. /\ pc' = [pc EXCEPT ![t] = "idle"] /\ call' = [call EXCEPT ![t] = NoCall]
        /\ opened' = opened
    BY <1>9 DEF Cancel
  <2>4. ASSUME NEW i \in 1..Len(lockQueue') PROVE pc'[lockQueue'[i]] # "idle"
    <3>1. CASE i < n
      BY <1>1, <2>2, <2>3, <2>4, <3>1 DEF LockFacts
    <3>2. CASE i >= n
      <4>1. i + 1 \in 1..Len(lockQueue)
        BY <1>1, <2>2, <2>4
      <4> QED BY <1>1, <2>2, <2>3, <2>4, <3>2, <4>1 DEF LockFacts
    <3>3. i < n \/ i >= n
      BY <1>1, <2>2
    <3> QED BY <3>1, <3>2, <3>3
  <2>5. ASSUME NEW u \in Tasks, pc'[u] \in {"writing", "written", "failed"} PROVE Holds(u)'
    <3>1. u # t /\ Holds(u) /\ lockQueue[1] = u /\ Len(lockQueue) >= 1
      BY <1>1, <2>3, <2>5 DEF LockFacts, Holds
    <3>2. n # 1 /\ Len(lockQueue') >= 1
      <4>1. n # 1
        BY <2>1, <3>1
      <4>2. n \in Nat /\ Len(lockQueue) \in Nat
        BY <1>1, <2>1
      <4>3. 1 <= n /\ n <= Len(lockQueue) /\ Len(lockQueue') = Len(lockQueue) - 1
        BY <1>1, <2>1, <2>2
      <4> QED BY <4>1, <4>2, <4>3
    <3>3. lockQueue'[1] = u
      <4>1. n \in Nat \ {0} /\ Len(lockQueue') \in Nat
        BY <1>1, <2>1, <2>2
      <4>2. 1 \in 1..Len(lockQueue') /\ 1 < n
        BY <3>2, <4>1
      <4> QED BY <2>2, <3>1, <4>2
    <3> QED BY <2>2, <3>2, <3>3 DEF Holds
  <2>6. \A u \in Tasks : pc'[u] # "idle" => call'[u] \in Calls
    BY <1>1, <2>3 DEF LockFacts, TypeOK
  <2>7. opened'
    BY <1>1, <2>1, <2>3 DEF LockFacts
  <2> QED BY <2>2, <2>4, <2>5, <2>6, <2>7 DEF LockFacts
<1>10. ASSUME NEW w \in writers, Write(w) \/ WriteFails(w) PROVE LockFacts'
  <2>1. UNCHANGED <<opened, lockQueue, call>>
    BY <1>10 DEF Write, WriteFails
  <2>2. CASE w.task = Nobody
    BY <1>1, <1>10, <2>1, <2>2 DEF Write, WriteFails, LockFacts, Holds
  <2>3. CASE w.task # Nobody
    <3>1. w.task \in Tasks /\ pc[w.task] = "writing" /\ Holds(w.task)
      BY <1>1, <2>3 DEF IInv, TypeOK, WriterFacts, LockFacts
    <3>2. pc' = [pc EXCEPT ![w.task] = "written"] \/ pc' = [pc EXCEPT ![w.task] = "failed"]
      BY <1>10, <2>3 DEF Write, WriteFails
    <3> QED BY <1>7, <2>1, <3>1, <3>2 DEF Pcs
  <2> QED BY <2>2, <2>3
<1>11. CASE UNCHANGED vars
  BY <1>1, <1>11 DEF vars, lockVars, LockFacts, Holds
<1> QED BY <1>2, <1>3, <1>4, <1>6, <1>8, <1>9, <1>10, <1>11 DEF Next, TaskStep

(* Two threads that tasks wait for do not exist: both would hold the lock. *)
LEMMA NoWriterBeside ==
  ASSUME IInv, NEW t \in Tasks, Holds(t), pc[t] # "writing"
  PROVE  \A w \in writers : w.task = Nobody
<1> SUFFICES ASSUME NEW w \in writers, w.task # Nobody PROVE FALSE
  OBVIOUS
<1>1. w.task \in Tasks /\ pc[w.task] = "writing"
  BY DEF IInv, TypeOK, WriterFacts
<1>2. Holds(w.task)
  BY <1>1 DEF IInv, LockFacts
<1> QED BY <1>1, <1>2, HolderIsUnique DEF IInv

(* A thread that a task waits for has the memory to write; only cancelled  *)
(* calls leave others.                                                     *)
LEMMA WriterFactsStep ==
  ASSUME IInv, [Next]_vars
  PROVE  WriterFacts'
<1>1. /\ TypeOK /\ LockFacts /\ WriterFacts
      /\ pc \in [Tasks -> Pcs] /\ writers \subseteq Writer /\ faults \in Nat
  BY MaxFaultsAssumption DEF IInv, TypeOK, Pcs, Writer
<1>2. CASE Close
  BY <1>1, <1>2 DEF WriterFacts, Close, lockVars, historyVars
<1>3. CASE Open
  <2>1. \A w \in writers : w.task = Nobody
    <3>1. ASSUME NEW w \in writers, w.task # Nobody PROVE FALSE
      <4>1. w.task \in Tasks /\ pc[w.task] = "writing"
        BY <1>1, <3>1 DEF WriterFacts, Writer
      <4> QED BY <1>1, <1>3, <4>1 DEF LockFacts, Open, Holds
    <3> QED BY <3>1
  <2> QED BY <1>1, <1>3, <2>1 DEF WriterFacts, Open, lockVars
<1>4. CASE Crash
  BY <1>1, <1>4 DEF WriterFacts, Crash, historyVars
<1>5. ASSUME NEW t \in Tasks, pc[t] # "writing", UNCHANGED <<writers, entries, faults, torn>>,
             \A u \in Tasks \ {t} : pc'[u] = pc[u]
      PROVE  WriterFacts'
  BY <1>1, <1>5 DEF WriterFacts, Writer
<1>6. ASSUME NEW t \in Tasks, NEW c \in Calls, Enter(t, c) PROVE WriterFacts'
  BY <1>1, <1>5, <1>6 DEF Enter, historyVars
<1>7. ASSUME NEW t \in Tasks, Refuse(t) \/ Keep(t) \/ Returns(t) PROVE WriterFacts'
  <2>1. pc[t] # "writing" /\ UNCHANGED <<writers, entries, faults, torn>> /\ Leave(t)
    BY <1>7 DEF Refuse, Keep, Returns, historyVars
  <2> QED BY <1>1, <1>5, <2>1 DEF Leave
<1>8. ASSUME NEW t \in Tasks, Mutate(t) PROVE WriterFacts'
  <2>1. \A w \in writers : w.task = Nobody
    BY <1>8, NoWriterBeside DEF Mutate
  <2>2. /\ writers' = writers \cup {[task |-> t, snapshot |-> entries']}
        /\ pc'[t] = "writing" /\ UNCHANGED <<faults, torn>>
    BY <1>1, <1>8 DEF Mutate
  <2>3. t # Nobody
    BY NobodyAssumption
  <2> QED BY <1>1, <2>1, <2>2, <2>3 DEF WriterFacts
<1>9. ASSUME NEW t \in Tasks, Cancel(t) PROVE WriterFacts'
  <2>1. faults' # 0 /\ entries' = entries /\ pc' = [pc EXCEPT ![t] = "idle"]
    BY <1>1, <1>9 DEF Cancel
  <2>2. ASSUME NEW w \in writers', w.task # Nobody PROVE w \in writers /\ w.task # t
    BY <1>9, <2>2 DEF Cancel
  <2> QED BY <1>1, <2>1, <2>2 DEF WriterFacts, Writer
<1>10. ASSUME NEW w \in writers, Write(w) \/ WriteFails(w) PROVE WriterFacts'
  <2>1. /\ writers' = writers \ {w} /\ entries' = entries
        /\ faults' = 0 => faults = 0 /\ ~WriteFails(w)
    BY <1>1, <1>10 DEF Write, WriteFails
  <2>2. ASSUME NEW v \in writers, v # w, v.task # Nobody PROVE pc'[v.task] = pc[v.task]
    <3>1. v.task \in Tasks /\ pc[v.task] = "writing" /\ v.snapshot = entries
      BY <1>1, <2>2 DEF WriterFacts, Writer
    <3>2. CASE w.task = Nobody
      BY <1>10, <3>2 DEF Write, WriteFails
    <3>3. CASE w.task # Nobody
      <4>1. w.task \in Tasks /\ pc[w.task] = "writing" /\ w.snapshot = entries
        BY <1>1, <3>3 DEF WriterFacts, Writer
      <4>2. v.task = w.task
        BY <1>1, <3>1, <4>1, HolderIsUnique DEF LockFacts
      <4>3. v = w
        BY <1>1, <3>1, <4>1, <4>2 DEF Writer
      <4> QED BY <2>2, <4>3
    <3> QED BY <3>2, <3>3
  <2>3. faults' = 0 => ~torn'
    BY <1>1, <1>10, <2>1 DEF Write, WriterFacts
  <2> QED BY <1>1, <2>1, <2>2, <2>3 DEF WriterFacts
<1>11. CASE UNCHANGED vars
  BY <1>1, <1>11 DEF vars, lockVars, historyVars, WriterFacts
<1> QED BY <1>2, <1>3, <1>4, <1>6, <1>7, <1>8, <1>9, <1>10, <1>11 DEF Next, TaskStep

(* The quiet disk is the memory.                                           *)
LEMMA QuietStep ==
  ASSUME IInv, [Next]_vars
  PROVE  QuietMeansSaved'
<1> USE DEF QuietMeansSaved
<1>1. QuietMeansSaved /\ WriterFacts
  BY DEF IInv
<1>2. CASE Open \/ Close \/ Crash
  BY <1>1, <1>2 DEF Open, Close, Crash, historyVars
<1>3. ASSUME NEW t \in Tasks, TaskStep(t) PROVE QuietMeansSaved'
  <2>1. CASE Mutate(t)
    BY <2>1 DEF Mutate
  <2>2. CASE Cancel(t)
    BY <1>1, <2>2 DEF Cancel
  <2>3. CASE Refuse(t) \/ Keep(t) \/ Returns(t) \/ \E c \in Calls : Enter(t, c)
    BY <1>1, <2>3 DEF Refuse, Keep, Returns, Enter, historyVars
  <2> QED BY <1>3, <2>1, <2>2, <2>3 DEF TaskStep
<1>4. ASSUME NEW w \in writers, Write(w) \/ WriteFails(w) PROVE QuietMeansSaved'
  BY <1>1, <1>4 DEF Write, WriteFails, WriterFacts
<1>5. CASE UNCHANGED vars
  BY <1>1, <1>5 DEF vars, lockVars, historyVars
<1> QED BY <1>2, <1>3, <1>4, <1>5 DEF Next

(* While nothing is cancelled and no write fails, memory and disk have     *)
(* what was acknowledged, or what a call cut off has attempted since.      *)
LEMMA AccountedStep ==
  ASSUME IInv, [Next]_vars
  PROVE  AckedSurvives' /\ EntriesAccounted'
<1> USE DEF AckedSurvives, AckedOnDisk, EntriesAccounted
<1>1. /\ TypeOK /\ LockFacts /\ WriterFacts /\ QuietMeansSaved /\ AckedSurvives /\ EntriesAccounted
      /\ faults \in Nat /\ acked \in [Keys -> Values] /\ attempted \in [Keys -> SUBSET Values]
      /\ entries \in [Keys -> Values]
  BY MaxFaultsAssumption DEF IInv, TypeOK, Maps
<1>2. CASE Open \/ Close \/ Crash
  BY <1>1, <1>2 DEF Open, Close, Crash, historyVars
<1>3. ASSUME NEW t \in Tasks, TaskStep(t) PROVE AckedSurvives' /\ EntriesAccounted'
  <2>1. CASE Mutate(t)
    <3>1. call[t].key \in Keys /\ call[t].jid \in Values
      BY <1>1, <2>1, CallsAreTyped DEF Mutate, LockFacts
    <3>2. /\ entries' = [entries EXCEPT ![call[t].key] = call[t].jid]
          /\ attempted' = [attempted EXCEPT ![call[t].key] = @ \cup {call[t].jid}]
          /\ UNCHANGED <<opened, disk, acked, faults>>
      BY <2>1 DEF Mutate
    <3> QED BY <1>1, <3>1, <3>2
  <2>2. CASE Cancel(t)
    BY <1>1, <2>2 DEF Cancel
  <2>3. ASSUME pc[t] # "writing", Holds(t), NEW k \in Keys, Ack(k),
               UNCHANGED <<opened, entries, disk, faults>>
        PROVE  AckedSurvives' /\ EntriesAccounted'
    <3>1. faults = 0 => writers = {} /\ ~torn
      BY <1>1, <2>3, NoWriterBeside DEF WriterFacts
    <3>2. opened
      BY <1>1, <2>3 DEF LockFacts, Holds
    <3>3. faults = 0 => disk = entries
      BY <1>1, <3>1, <3>2 DEF QuietMeansSaved
    <3> QED BY <1>1, <2>3, <3>3 DEF Ack
  <2>4. CASE Keep(t)
    BY <1>1, <2>3, <2>4, CallsAreTyped DEF Keep, LockFacts
  <2>5. CASE Returns(t)
    <3>1. Holds(t) /\ pc[t] # "writing" /\ call[t].key \in Keys
      BY <1>1, <2>5, CallsAreTyped DEF Returns, LockFacts
    <3>2. CASE Ack(call[t].key)
      BY <2>3, <2>5, <3>1, <3>2 DEF Returns
    <3>3. CASE UNCHANGED <<acked, attempted>>
      BY <1>1, <2>5, <3>3 DEF Returns
    <3> QED BY <2>5, <3>2, <3>3 DEF Returns
  <2>6. CASE Refuse(t) \/ \E c \in Calls : Enter(t, c)
    BY <1>1, <2>6 DEF Refuse, Enter, historyVars
  <2> QED BY <1>3, <2>1, <2>2, <2>4, <2>5, <2>6 DEF TaskStep
<1>4. ASSUME NEW w \in writers, Write(w) PROVE AckedSurvives' /\ EntriesAccounted'
  <2>1. faults = 0 => w.snapshot = entries /\ opened
    <3>1. faults = 0 => w.task # Nobody /\ w.task \in Tasks
      BY <1>1 DEF WriterFacts, TypeOK
    <3> QED BY <1>1, <3>1 DEF WriterFacts, LockFacts, Holds
  <2> QED BY <1>1, <1>4, <2>1 DEF Write
<1>5. ASSUME NEW w \in writers, WriteFails(w) PROVE AckedSurvives' /\ EntriesAccounted'
  BY <1>1, <1>5 DEF WriteFails
<1>6. CASE UNCHANGED vars
  BY <1>1, <1>6 DEF vars, lockVars, historyVars
<1> QED BY <1>2, <1>3, <1>4, <1>5, <1>6 DEF Next

-----------------------------------------------------------------------------
(* The initial states satisfy the invariant.                               *)
LEMMA IInvInit == Init => IInv
<1> SUFFICES ASSUME Init PROVE IInv
  OBVIOUS
<1> USE DEF Init
<1>1. TypeOK
  <2>1. <<>> \in Seq(Tasks) /\ 0 \in 0..MaxFaults
    BY MaxFaultsAssumption
  <2>2. entries \in Maps
    BY DEF Maps, Values
  <2> QED BY <2>1, <2>2 DEF TypeOK
<1>2. LockFacts /\ WriterFacts
  BY DEF LockFacts, WriterFacts
<1>3. QuietMeansSaved /\ AckedSurvives /\ EntriesAccounted
  BY DEF QuietMeansSaved, AckedSurvives, AckedOnDisk, EntriesAccounted
<1> QED BY <1>1, <1>2, <1>3 DEF IInv

(* Every step keeps it.                                                    *)
LEMMA IInvStep == IInv /\ [Next]_vars => IInv'
BY TypeOKStep, LockFactsStep, WriterFactsStep, QuietStep, AccountedStep DEF IInv

(* Every behaviour satisfies the invariant.                                *)
LEMMA SpecIInv == Spec => []IInv
BY IInvInit, IInvStep, PTL DEF Spec

(* The variables keep their types: the lock's queue holds tasks, and       *)
(* every snapshot is a whole map.                                          *)
THEOREM TypeSafety == Spec => []TypeOK
<1>1. IInv => TypeOK
  BY DEF IInv
<1> QED BY SpecIInv, <1>1, PTL

(* Whatever calls interleave, are cancelled or fail, a quiet disk is the   *)
(* memory unless a failed or late write has gone unmended (manifest.py     *)
(* 229-290).                                                               *)
THEOREM QuietIsSaved == Spec => []QuietMeansSaved
<1>1. IInv => QuietMeansSaved
  BY DEF IInv
<1> QED BY SpecIInv, <1>1, PTL

(* Crashes alone take nothing that was acknowledged (manifest.py 11-12).   *)
THEOREM CrashesLoseNothing == Spec => []AckedSurvives
<1>1. IInv => AckedSurvives
  BY DEF IInv
<1> QED BY SpecIInv, <1>1, PTL

-----------------------------------------------------------------------------
(* Refinement.                                                             *)

(* Where disk and memory agree, the code and the abstract map judge a call *)
(* alike.                                                                  *)
LEMMA CallsAreJudgedAlike ==
  ASSUME NEW c \in Calls, disk = entries, entries \in Maps
  PROVE  /\ Refuses(c) <=> ~Durable!Allowed(c)
         /\ ~Refuses(c) /\ Keeps(c) => Durable!After(c) = disk[c.key]
         /\ ~Keeps(c) => Durable!After(c) = c.jid
<1> DEFINE v == entries[c.key]
<1>1. /\ c.key \in Keys /\ v \in Values /\ disk[c.key] = v
      /\ c.op \in {"register", "update", "remove"}
  BY DEF Calls, Maps
<1>2. CASE c.op = "register"
  <2>1. c.jid \in Jids \cup {Unpaired}
    BY <1>2 DEF Calls
  <2> QED BY <1>1, <1>2, <2>1, ValuesAssumption DEF Refuses, Keeps, Durable!Allowed, Durable!After, Values
<1>3. CASE c.op = "update"
  <2>1. c.jid \in Jids
    BY <1>3 DEF Calls
  <2> QED BY <1>1, <1>3, <2>1, ValuesAssumption DEF Refuses, Keeps, Durable!Allowed, Durable!After, Values
<1>4. CASE c.op = "remove"
  <2>1. c.jid = Absent
    BY <1>4 DEF Calls
  <2> QED BY <1>1, <1>4, <2>1, ValuesAssumption DEF Refuses, Keeps, Durable!Allowed, Durable!After, Values
<1> QED BY <1>1, <1>2, <1>3, <1>4

(* A task that holds the lock and has no thread sees the disk in memory.   *)
LEMMA HolderSeesDisk ==
  ASSUME IInv, faults = 0, NEW t \in Tasks, Holds(t), pc[t] # "writing"
  PROVE  disk = entries /\ entries \in Maps
<1>1. writers = {} /\ ~torn
  BY NoWriterBeside DEF IInv, WriterFacts
<1>2. opened
  BY DEF IInv, LockFacts, Holds
<1> QED BY <1>1, <1>2 DEF IInv, QuietMeansSaved, TypeOK

(* What the refinement needs of the tasks holds at first.                  *)
LEMMA CallFactsInit == Init => CallFacts
BY DEF Init, CallFacts

(* Every step keeps it.                                                    *)
LEMMA CallFactsStep == IInv /\ CallFacts /\ [Next]_vars => CallFacts'
<1> SUFFICES ASSUME IInv, CallFacts, [Next]_vars PROVE CallFacts'
  OBVIOUS
<1>1. /\ TypeOK /\ LockFacts /\ WriterFacts
      /\ pc \in [Tasks -> Pcs] /\ call \in [Tasks -> Calls \cup {NoCall}]
      /\ faults \in Nat
  BY MaxFaultsAssumption DEF IInv, TypeOK, Pcs
<1>2. \A t \in Tasks : pc[t] = "idle" => call[t] = NoCall
  BY DEF CallFacts
<1>3. ASSUME \A t \in Tasks : pc'[t] = "idle" => call'[t] = NoCall,
             faults' = 0 =>
                 \A t \in Tasks : /\ pc'[t] # "failed"
                                  /\ pc'[t] = "writing" => pc[t] = "writing" /\ call'[t] = call[t]
                                                           /\ entries' = entries /\ disk' = disk,
             faults' = 0 => faults = 0
      PROVE  CallFacts'
  BY <1>3 DEF CallFacts, Durable!Allowed, Durable!After
<1>4. CASE Open \/ Close
  <2>1. Open => \A t \in Tasks : pc[t] # "writing"
    BY <1>1 DEF Open, LockFacts, Holds
  <2>2. UNCHANGED <<pc, call, disk, faults>> /\ (Close => entries' = entries)
    BY <1>4 DEF Open, Close, lockVars, historyVars
  <2> QED BY <1>2, <1>3, <1>4, <2>1, <2>2 DEF CallFacts
<1>5. CASE Crash
  BY <1>3, <1>5 DEF Crash, CallFacts
<1>6. ASSUME NEW t \in Tasks, NEW c \in Calls, Enter(t, c) PROVE CallFacts'
  BY <1>1, <1>2, <1>3, <1>6 DEF Enter, historyVars, CallFacts
<1>7. ASSUME NEW t \in Tasks, Refuse(t) \/ Keep(t) \/ Returns(t) PROVE CallFacts'
  <2>1. /\ pc' = [pc EXCEPT ![t] = "idle"] /\ call' = [call EXCEPT ![t] = NoCall]
        /\ UNCHANGED <<entries, disk, faults>>
    BY <1>7 DEF Refuse, Keep, Returns, Leave, historyVars
  <2> QED BY <1>1, <1>2, <1>3, <2>1 DEF CallFacts
<1>8. ASSUME NEW t \in Tasks, Mutate(t) PROVE CallFacts'
  <2>1. /\ pc' = [pc EXCEPT ![t] = "writing"] /\ UNCHANGED <<call, disk, faults>>
        /\ entries' = [entries EXCEPT ![call[t].key] = call[t].jid]
        /\ pc[t] = "called" /\ Holds(t) /\ ~Refuses(call[t]) /\ ~Keeps(call[t])
    BY <1>8 DEF Mutate
  <2>2. \A u \in Tasks : pc[u] = "writing" => u = t
    BY <1>1, <2>1, HolderIsUnique DEF LockFacts
  <2>3. \A u \in Tasks : pc'[u] = "writing" => u = t
    BY <1>1, <2>1, <2>2
  <2>4. ASSUME faults = 0
        PROVE  /\ Durable!Allowed(call[t])
               /\ entries' = [disk EXCEPT ![call[t].key] = Durable!After(call[t])]
    <3>1. disk = entries /\ entries \in Maps /\ call[t] \in Calls
      BY <1>1, <2>1, <2>4, HolderSeesDisk DEF LockFacts
    <3>2. Durable!Allowed(call[t]) /\ Durable!After(call[t]) = call[t].jid
      BY <2>1, <3>1, CallsAreJudgedAlike
    <3> QED BY <2>1, <3>1, <3>2
  <2>5. /\ \A u \in Tasks : pc'[u] = "idle" => call'[u] = NoCall
        /\ faults = 0 => \A u \in Tasks : pc'[u] # "failed"
    BY <1>1, <1>2, <2>1 DEF CallFacts
  <2>6. Durable!Allowed(call[t]) => Durable!Allowed(call[t])'
    BY <2>1 DEF Durable!Allowed
  <2>7. Durable!After(call[t])' = Durable!After(call[t])
    BY <2>1 DEF Durable!After
  <2> QED BY <2>1, <2>3, <2>4, <2>5, <2>6, <2>7 DEF CallFacts
<1>9. ASSUME NEW t \in Tasks, Cancel(t) PROVE CallFacts'
  BY <1>1, <1>2, <1>3, <1>9 DEF Cancel, CallFacts
<1>10. ASSUME NEW w \in writers, Write(w) \/ WriteFails(w) PROVE CallFacts'
  <2>1. \A t \in Tasks : pc'[t] = "idle" => call'[t] = NoCall
    BY <1>1, <1>2, <1>10 DEF Write, WriteFails
  <2>2. faults' = 0 => faults = 0 /\ Write(w)
    BY <1>1, <1>10 DEF Write, WriteFails
  <2>3. ASSUME faults = 0, Write(w), NEW t \in Tasks PROVE pc'[t] \notin {"failed", "writing"}
    <3>1. w.task \in Tasks /\ pc[w.task] = "writing" /\ Holds(w.task)
      BY <1>1, <2>3 DEF WriterFacts, TypeOK, LockFacts
    <3>2. pc' = [pc EXCEPT ![w.task] = "written"]
      BY <1>1, <2>3 DEF Write, WriterFacts
    <3>3. pc[t] = "writing" => t = w.task
      BY <1>1, <3>1, HolderIsUnique DEF LockFacts
    <3> QED BY <1>1, <2>3, <3>1, <3>2, <3>3 DEF CallFacts
  <2> QED BY <1>3, <2>1, <2>2, <2>3
<1>11. CASE UNCHANGED vars
  BY <1>2, <1>3, <1>11 DEF vars, lockVars, CallFacts
<1> QED BY <1>4, <1>5, <1>6, <1>7, <1>8, <1>9, <1>10, <1>11 DEF Next, TaskStep

(* While no call is cancelled and no write fails, the manifest is an       *)
(* atomic map that survives crashes: a call is refused, or takes effect on *)
(* its key alone as its thread moves the file, before it returns           *)
(* (manifest.py 226-290, 336-363).                                         *)
THEOREM Refinement == Spec => ImplementsDurableMap
<1> DEFINE done == [t \in Tasks |-> pc[t] = "written"]
<1>1. Init => Durable!Init
  <2> SUFFICES ASSUME Init PROVE Durable!Init
    OBVIOUS
  <2>1. disk \in [Keys -> Values] /\ call = [t \in Tasks |-> NoCall]
    BY DEF Init, Maps
  <2>2. done = [t \in Tasks |-> FALSE]
    BY DEF Init
  <2>3. ~(faults > 0)
    BY DEF Init
  <2>4. (faults > 0) = FALSE
    <3> HIDE DEF done
    <3> DEFINE b == faults > 0
    <3>1. ~b
      BY <2>3
    <3>2. b \in BOOLEAN
      BY SMT DEF Init
    <3> HIDE DEF b
    <3>3. b = FALSE
      BY <3>1, <3>2
    <3> QED BY <3>3 DEF b
  <2> QED BY <2>1, <2>2, <2>4 DEF Durable!Init
<1>2. IInv /\ CallFacts /\ [Next]_vars => [Durable!Next]_(Durable!vars)
  <2> SUFFICES ASSUME IInv, CallFacts, [Next]_vars PROVE [Durable!Next]_(Durable!vars)
    OBVIOUS
  <2>1. /\ TypeOK /\ LockFacts /\ WriterFacts
        /\ pc \in [Tasks -> Pcs] /\ call \in [Tasks -> Calls \cup {NoCall}]
        /\ faults \in Nat
    BY MaxFaultsAssumption DEF IInv, TypeOK, Pcs
  <2>2. \A t \in Tasks : pc[t] # "idle" => call[t] \in Calls /\ call[t] # NoCall
    BY <2>1 DEF LockFacts, Calls, NoCall
  <2>3. ASSUME faults' > 0 PROVE Durable!Next
    BY <2>3 DEF Durable!Next, Durable!Break
  <2>4. CASE Open \/ Close
    BY <2>4 DEF Open, Close, lockVars, historyVars, Durable!vars
  <2>5. CASE Crash
    <3>1. Durable!Crash
      BY <2>5 DEF Crash, historyVars, Durable!Crash
    <3> QED BY <3>1 DEF Durable!Next
  <2>6. ASSUME NEW t \in Tasks, NEW c \in Calls, Enter(t, c) PROVE Durable!Next
    <3>1. UNCHANGED <<disk, faults>> /\ call' = [call EXCEPT ![t] = c] /\ call[t] = NoCall
      BY <2>6 DEF Enter, historyVars, CallFacts
    <3>2. done' = done
      BY <2>1, <2>6 DEF Enter
    <3>3. Durable!Begin(t, c)
      BY <3>1, <3>2 DEF Durable!Begin
    <3> QED BY <3>3 DEF Durable!Next
  <2>7. ASSUME NEW t \in Tasks, pc' = [pc EXCEPT ![t] = "idle"]
        PROVE  done' = [done EXCEPT ![t] = FALSE]
    BY <2>1, <2>7
  <2>8. ASSUME NEW t \in Tasks, Refuse(t), faults = 0 PROVE Durable!Next
    <3>1. /\ UNCHANGED <<disk, faults>> /\ call' = [call EXCEPT ![t] = NoCall]
          /\ pc' = [pc EXCEPT ![t] = "idle"] /\ pc[t] = "called" /\ Holds(t)
          /\ Refuses(call[t])
      BY <2>8 DEF Refuse, Leave, historyVars
    <3>2. ~Durable!Allowed(call[t])
      BY <2>2, <2>8, <3>1, HolderSeesDisk, CallsAreJudgedAlike
    <3>3. done' = done
      BY <2>1, <3>1
    <3>4. Durable!Refuse(t)
      BY <2>2, <3>1, <3>2, <3>3 DEF Durable!Refuse
    <3> QED BY <3>4 DEF Durable!Next
  <2>9. ASSUME NEW t \in Tasks, Keep(t), faults = 0 PROVE Durable!Next
    <3>1. /\ UNCHANGED <<disk, faults>> /\ call' = [call EXCEPT ![t] = NoCall]
          /\ pc' = [pc EXCEPT ![t] = "idle"] /\ pc[t] = "called" /\ Holds(t)
          /\ ~Refuses(call[t]) /\ Keeps(call[t])
      BY <2>9 DEF Keep, Leave
    <3>2. Durable!Allowed(call[t]) /\ Durable!After(call[t]) = disk[call[t].key]
      BY <2>2, <2>9, <3>1, HolderSeesDisk, CallsAreJudgedAlike
    <3>3. Durable!Return(t)
      BY <2>2, <2>7, <3>1, <3>2 DEF Durable!Return
    <3> QED BY <3>3 DEF Durable!Next
  <2>10. ASSUME NEW t \in Tasks, Mutate(t) PROVE UNCHANGED Durable!vars
    <3>1. done' = done
      BY <2>1, <2>10 DEF Mutate
    <3> QED BY <2>10, <3>1 DEF Mutate, Durable!vars
  <2>11. ASSUME NEW t \in Tasks, Returns(t), faults = 0 PROVE Durable!Next
    <3>1. /\ UNCHANGED <<disk, faults>> /\ call' = [call EXCEPT ![t] = NoCall]
          /\ pc' = [pc EXCEPT ![t] = "idle"] /\ pc[t] = "written"
      BY <2>11 DEF Returns, Leave, CallFacts
    <3>2. Durable!Return(t)
      BY <2>2, <2>7, <3>1 DEF Durable!Return
    <3> QED BY <3>2 DEF Durable!Next
  <2>12. ASSUME NEW w \in writers, Write(w), faults = 0 PROVE Durable!Next
    <3> DEFINE t == w.task
    <3>1. t \in Tasks /\ t # Nobody /\ pc[t] = "writing" /\ w.snapshot = entries
      BY <2>1, <2>12 DEF WriterFacts, TypeOK
    <3>2. /\ disk' = entries /\ pc' = [pc EXCEPT ![t] = "written"]
          /\ UNCHANGED <<call, faults>>
      BY <2>12, <3>1 DEF Write
    <3>3. /\ Durable!Allowed(call[t])
          /\ entries = [disk EXCEPT ![call[t].key] = Durable!After(call[t])]
      BY <2>12, <3>1 DEF CallFacts
    <3>4. done' = [done EXCEPT ![t] = TRUE] /\ ~done[t]
      BY <2>1, <3>1, <3>2
    <3>5. Durable!TakeEffect(t)
      BY <2>2, <3>1, <3>2, <3>3, <3>4 DEF Durable!TakeEffect
    <3> QED BY <3>1, <3>5 DEF Durable!Next
  <2>13. CASE UNCHANGED vars
    BY <2>13 DEF vars, lockVars, Durable!vars
  <2>14. ASSUME NEW t \in Tasks, Cancel(t) PROVE faults' > 0
    BY <2>1, <2>14 DEF Cancel
  <2>15. ASSUME NEW w \in writers, WriteFails(w) PROVE faults' > 0
    BY <2>1, <2>15 DEF WriteFails
  <2>16. faults # 0 => faults' > 0
    BY <2>1, <2>14, <2>15 DEF Next, TaskStep, Open, Close, Crash, Enter, Refuse, Keep, Mutate, Returns,
                  Write, historyVars, vars
  <2> QED BY <2>3, <2>4, <2>5, <2>6, <2>8, <2>9, <2>10, <2>11, <2>12, <2>13, <2>14, <2>15, <2>16
          DEF Next, TaskStep
<1>3. Spec => []CallFacts
  BY CallFactsInit, CallFactsStep, SpecIInv, PTL DEF Spec
<1> QED BY <1>1, <1>2, <1>3, SpecIInv, PTL DEF Spec, ImplementsDurableMap, Durable!Spec
=============================================================================

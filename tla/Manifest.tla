------------------------------ MODULE Manifest ------------------------------
(***************************************************************************)
(* src/src/fastmeow/manifest.py: the map account_key -> jid that survives  *)
(* restarts, one copy in memory and one on disk.                           *)
(*                                                                         *)
(* Every mutation takes an asyncio.Lock, changes the memory, and waits,    *)
(* lock in hand, for a thread that writes a snapshot of the memory to a    *)
(* temporary file and moves it over the old one.  The thread cannot be     *)
(* stopped: a task cancelled while it waits gives the lock back and leaves *)
(* the thread running, unless the executor had not started it.             *)
(*                                                                         *)
(* Abstractions: a key is Absent, Unpaired (the empty jid) or has a jid;   *)
(* a write is one step, since the move is all the disk shows of it; only   *)
(* the holder of the session directory's file lock opens the manifest, and *)
(* close() is called when no mutation is in flight (App.stop(),            *)
(* app.py:382-407), orphaned threads excepted.                             *)
(***************************************************************************)
EXTENDS Naturals, SequencesExt

CONSTANTS
    Keys,
    Jids,
    Absent,     \* no entry
    Unpaired,   \* the entry has the empty jid
    Tasks,      \* the asyncio tasks that call the manifest
    MaxFaults   \* bound: number of cancelled tasks and failed writes

ASSUME ValuesAssumption == Absent \notin Jids /\ Unpaired \notin Jids /\ Absent # Unpaired
ASSUME MaxFaultsAssumption == MaxFaults \in Nat

Values == Jids \cup {Absent, Unpaired}
Maps == [Keys -> Values]

(* The mutations: register(key, jid), update_jid(key, jid), remove(key).   *)
Calls ==
    [op : {"register"}, key : Keys, jid : Jids \cup {Unpaired}]
        \cup [op : {"update"}, key : Keys, jid : Jids]
        \cup [op : {"remove"}, key : Keys, jid : {Absent}]

VARIABLES
    opened,    \* Manifest._opened
    entries,   \* Manifest._entries
    disk,      \* the contents of accounts.json
    lockQueue, \* Manifest._mutex: its holder, then its waiters in order
    call,      \* [Tasks -> Calls \cup {NoCall}]: the call a task is in
    pc,        \* [Tasks -> {"idle", "called", "writing", "written", "failed"}]
    writers,   \* the threads: who waits for each, and its snapshot
    faults,    \* number of faults so far
    acked,     \* history: the value of each key by the last call that returned
    attempted, \* history: the values later calls tried to give to each key
    torn       \* history: a write failed or came late, and none has mended it

lockVars == <<lockQueue, call, pc>>
historyVars == <<acked, attempted, torn>>
vars == <<opened, entries, disk, lockVars, writers, faults, historyVars>>

NoCall == [op |-> "none"]

(* Whom an orphaned thread works for.                                      *)
Nobody == "nobody"

ASSUME NobodyAssumption == Nobody \notin Tasks

Init ==
    /\ opened = FALSE
    /\ entries = [k \in Keys |-> Absent]
    /\ disk \in Maps
    /\ lockQueue = <<>>
    /\ call = [t \in Tasks |-> NoCall]
    /\ pc = [t \in Tasks |-> "idle"]
    /\ writers = {}
    /\ faults = 0
    /\ acked = disk
    /\ attempted = [k \in Keys |-> {}]
    /\ torn = FALSE

Holds(t) == lockQueue # <<>> /\ Head(lockQueue) = t

-----------------------------------------------------------------------------
(* open(): the memory is what the disk has.                                *)
Open ==
    /\ ~opened
    /\ opened' = TRUE
    /\ entries' = disk
    /\ torn' = FALSE
    /\ UNCHANGED <<disk, lockVars, writers, faults, acked, attempted>>

Close ==
    /\ opened
    /\ lockQueue = <<>>
    /\ opened' = FALSE
    /\ UNCHANGED <<entries, disk, lockVars, writers, faults, historyVars>>

(* The process dies, between any two steps.                                *)
Crash ==
    /\ opened
    /\ opened' = FALSE
    /\ lockQueue' = <<>>
    /\ call' = [t \in Tasks |-> NoCall]
    /\ pc' = [t \in Tasks |-> "idle"]
    /\ writers' = {}
    /\ UNCHANGED <<entries, disk, faults, historyVars>>

-----------------------------------------------------------------------------
(* The mutations.                                                          *)

(* A task calls and queues up for the lock.                                *)
Enter(t, c) ==
    /\ opened
    /\ pc[t] = "idle"
    /\ call' = [call EXCEPT ![t] = c]
    /\ pc' = [pc EXCEPT ![t] = "called"]
    /\ lockQueue' = Append(lockQueue, t)
    /\ UNCHANGED <<opened, entries, disk, writers, faults, historyVars>>

(* The call raises ManifestError (238-243, 259-266).                       *)
Refuses(c) ==
    \/ /\ c.op = "register" /\ c.jid \in Jids
       /\ entries[c.key] \in Jids \ {c.jid}
    \/ /\ c.op = "update"
       /\ entries[c.key] \in {Absent} \cup (Jids \ {c.jid})

(* The call returns without writing (244-245, 267-268, 279-281).           *)
Keeps(c) ==
    \/ c.op = "register" /\ entries[c.key] # Absent /\ c.jid \in {entries[c.key], Unpaired}
    \/ c.op = "update" /\ entries[c.key] = c.jid
    \/ c.op = "remove" /\ entries[c.key] = Absent

(* The task has left the lock and its call.                                *)
Leave(t) ==
    /\ lockQueue' = Tail(lockQueue)
    /\ pc' = [pc EXCEPT ![t] = "idle"]
    /\ call' = [call EXCEPT ![t] = NoCall]

(* The call has returned: its key has the value it has in memory.          *)
Ack(k) ==
    /\ acked' = [acked EXCEPT ![k] = entries[k]]
    /\ attempted' = [attempted EXCEPT ![k] = {}]

Refuse(t) ==
    /\ pc[t] = "called" /\ Holds(t)
    /\ Refuses(call[t])
    /\ Leave(t)
    /\ UNCHANGED <<opened, entries, disk, writers, faults, historyVars>>

Keep(t) ==
    /\ pc[t] = "called" /\ Holds(t)
    /\ ~Refuses(call[t])
    /\ Keeps(call[t])
    /\ Leave(t)
    /\ Ack(call[t].key)
    /\ UNCHANGED <<opened, entries, disk, writers, faults, torn>>

(* A fault: the lock covers the memory only, not the write.                *)
MutateReleasingLock(t) ==
    /\ pc[t] = "called" /\ Holds(t)
    /\ ~Refuses(call[t])
    /\ ~Keeps(call[t])
    /\ LET k == call[t].key
       IN  /\ entries' = [entries EXCEPT ![k] = call[t].jid]
           /\ attempted' = [attempted EXCEPT ![k] = @ \cup {call[t].jid}]
    /\ writers' = writers \cup {[task |-> t, snapshot |-> entries']}
    /\ pc' = [pc EXCEPT ![t] = "writing"]
    /\ lockQueue' = Tail(lockQueue)
    /\ UNCHANGED <<opened, disk, call, faults, acked, torn>>

(* A fault: the entry is the whole request, not its jid.                   *)
MutateStoringRequest(t) ==
    /\ pc[t] = "called" /\ Holds(t)
    /\ ~Refuses(call[t])
    /\ ~Keeps(call[t])
    /\ LET k == call[t].key
       IN  /\ entries' = [entries EXCEPT ![k] = call[t]]
           /\ attempted' = [attempted EXCEPT ![k] = @ \cup {call[t].jid}]
    /\ writers' = writers \cup {[task |-> t, snapshot |-> entries']}
    /\ pc' = [pc EXCEPT ![t] = "writing"]
    /\ UNCHANGED <<opened, disk, lockQueue, call, faults, acked, torn>>

(* The memory changes, and a thread gets a snapshot to write.              *)
Mutate(t) ==
    /\ pc[t] = "called" /\ Holds(t)
    /\ ~Refuses(call[t])
    /\ ~Keeps(call[t])
    /\ LET k == call[t].key
       IN  /\ entries' = [entries EXCEPT ![k] = call[t].jid]
           /\ attempted' = [attempted EXCEPT ![k] = @ \cup {call[t].jid}]
    /\ writers' = writers \cup {[task |-> t, snapshot |-> entries']}
    /\ pc' = [pc EXCEPT ![t] = "writing"]
    /\ UNCHANGED <<opened, disk, lockQueue, call, faults, acked, torn>>

(* A fault: the file gets only what the snapshot adds.                     *)
WriteMerging(w) ==
    /\ w \in writers
    /\ writers' = writers \ {w}
    /\ disk' = [k \in Keys |-> IF w.snapshot[k] = Absent THEN disk[k] ELSE w.snapshot[k]]
    /\ torn' = (w.task = Nobody)
    /\ pc' = IF w.task = Nobody THEN pc ELSE [pc EXCEPT ![w.task] = "written"]
    /\ UNCHANGED <<opened, entries, lockQueue, call, faults, acked, attempted>>

(* _write_atomic moves the snapshot over the file.                         *)
Write(w) ==
    /\ w \in writers
    /\ writers' = writers \ {w}
    /\ disk' = w.snapshot
    /\ torn' = (w.task = Nobody)
    /\ pc' = IF w.task = Nobody THEN pc ELSE [pc EXCEPT ![w.task] = "written"]
    /\ UNCHANGED <<opened, entries, lockQueue, call, faults, acked, attempted>>

(* _write_atomic raises: the file is what it was, the memory stays ahead.  *)
WriteFails(w) ==
    /\ w \in writers
    /\ faults < MaxFaults
    /\ faults' = faults + 1
    /\ writers' = writers \ {w}
    /\ torn' = TRUE
    /\ pc' = IF w.task = Nobody THEN pc ELSE [pc EXCEPT ![w.task] = "failed"]
    /\ UNCHANGED <<opened, entries, disk, lockQueue, call, acked, attempted>>

(* A fault: the caller of a failed write keeps the lock.                   *)
ReturnsKeepingLock(t) ==
    /\ pc[t] \in {"written", "failed"}
    /\ pc' = [pc EXCEPT ![t] = "idle"]
    /\ call' = [call EXCEPT ![t] = NoCall]
    /\ \/ pc[t] = "written" /\ lockQueue' = Tail(lockQueue) /\ Ack(call[t].key)
       \/ pc[t] = "failed" /\ UNCHANGED <<lockQueue, acked, attempted>>
    /\ UNCHANGED <<opened, entries, disk, writers, faults, torn>>

(* The task resumes after its thread: the call returns or raises.          *)
Returns(t) ==
    /\ pc[t] \in {"written", "failed"}
    /\ Leave(t)
    /\ \/ pc[t] = "written" /\ Ack(call[t].key)
       \/ pc[t] = "failed" /\ UNCHANGED <<acked, attempted>>
    /\ UNCHANGED <<opened, entries, disk, writers, faults, torn>>

(* The task is cancelled as it waits for the lock, or for its thread,      *)
(* which goes on without it or had not been started.                       *)
Cancel(t) ==
    /\ faults < MaxFaults
    /\ faults' = faults + 1
    /\ pc[t] # "idle"
    /\ \E i \in 1..Len(lockQueue) :
          /\ lockQueue[i] = t
          /\ lockQueue' = RemoveAt(lockQueue, i)
    /\ pc' = [pc EXCEPT ![t] = "idle"]
    /\ call' = [call EXCEPT ![t] = NoCall]
    /\ LET mine == {w \in writers : w.task = t}
       IN  /\ \/ writers' = (writers \ mine) \cup
                               {[task |-> Nobody, snapshot |-> w.snapshot] : w \in mine}
              \/ writers' = writers \ mine
           /\ torn' = (torn \/ mine # {})
    /\ UNCHANGED <<opened, entries, disk, acked, attempted>>

-----------------------------------------------------------------------------
TaskStep(t) ==
    \/ \E c \in Calls : Enter(t, c)
    \/ Refuse(t)
    \/ Keep(t)
    \/ Mutate(t)
    \/ Returns(t)
    \/ Cancel(t)

Next ==
    \/ Open \/ Close \/ Crash
    \/ \E t \in Tasks : TaskStep(t)
    \/ \E w \in writers : Write(w) \/ WriteFails(w)

Spec == Init /\ [][Next]_vars

(* The event loop resumes tasks, and every thread ends.                    *)
Fairness ==
    /\ \A t \in Tasks :
          WF_vars(Refuse(t)) /\ WF_vars(Keep(t)) /\ WF_vars(Mutate(t)) /\ WF_vars(Returns(t))
    /\ WF_vars(\E w \in writers : w.task # Nobody /\ (Write(w) \/ WriteFails(w)))

FairSpec == Spec /\ Fairness

-----------------------------------------------------------------------------
(* Every variable has its type.                                            *)
TypeOK ==
    /\ opened \in BOOLEAN
    /\ entries \in Maps
    /\ disk \in Maps
    /\ lockQueue \in Seq(Tasks)
    /\ call \in [Tasks -> Calls \cup {NoCall}]
    /\ pc \in [Tasks -> {"idle", "called", "writing", "written", "failed"}]
    /\ writers \subseteq [task : Tasks \cup {Nobody}, snapshot : Maps]
    /\ faults \in 0..MaxFaults
    /\ acked \in Maps
    /\ attempted \in [Keys -> SUBSET Values]
    /\ torn \in BOOLEAN

(* When no thread runs, the disk is the memory, unless a failed or late    *)
(* write has gone unmended: the next write of any key mends it, since it   *)
(* carries a snapshot of all keys.                                         *)
QuietMeansSaved == opened /\ writers = {} /\ ~torn => disk = entries

(* What a call has acknowledged is on the disk at every point, so that a   *)
(* crash cannot take it; the disk may be ahead by calls that were cut off. *)
AckedOnDisk ==
    \A k \in Keys : disk[k] \in {acked[k]} \cup attempted[k]

(* Crashes alone lose nothing: while no call is cancelled and no write     *)
(* fails, what was acknowledged survives.                                  *)
AckedSurvives == faults = 0 => AckedOnDisk

(* Refinement: while no call is cancelled and no write fails, the manifest *)
(* is a DurableMap, the map being the disk: a call takes effect as its     *)
(* thread moves the file.                                                  *)
Durable == INSTANCE DurableMap WITH
    map <- disk,
    done <- [t \in Tasks |-> pc[t] = "written"],
    broken <- faults > 0

ImplementsDurableMap == Durable!Spec

(* Every call returns or raises: the lock is given back on every path.     *)
CallsReturn == \A t \in Tasks : pc[t] # "idle" ~> pc[t] = "idle"

(* The docstring's promise (11-12): the registry is "crash-safe", whatever *)
(* becomes of the calls.                                                   *)
CrashSafe == AckedOnDisk

-----------------------------------------------------------------------------
(* The inductive invariant.                                                *)

(* A task in a call is in the queue, once; the one that has gone on to     *)
(* change the memory is its head.                                          *)
LockFacts ==
    /\ ~opened => lockQueue = <<>>
    /\ \A i, j \in 1..Len(lockQueue) : lockQueue[i] = lockQueue[j] => i = j
    /\ \A i \in 1..Len(lockQueue) : pc[lockQueue[i]] # "idle"
    /\ \A t \in Tasks : pc[t] \in {"writing", "written", "failed"} => Holds(t)
    /\ \A t \in Tasks : pc[t] # "idle" => call[t] \in Calls

(* A thread that a task waits for has the memory to write.                 *)
WriterFacts ==
    /\ \A w \in writers : w.task # Nobody => pc[w.task] = "writing" /\ w.snapshot = entries
    /\ faults = 0 => ~torn /\ \A w \in writers : w.task # Nobody

(* Without faults the memory too is what was acknowledged or attempted.    *)
EntriesAccounted ==
    faults = 0 /\ opened => \A k \in Keys : entries[k] \in {acked[k]} \cup attempted[k]

IInv == TypeOK /\ LockFacts /\ WriterFacts /\ QuietMeansSaved /\ AckedSurvives /\ EntriesAccounted

(* For the refinement: without faults, a thread writes what its task's     *)
(* call makes of the disk.                                                 *)
CallFacts ==
    /\ \A t \in Tasks : pc[t] = "idle" => call[t] = NoCall
    /\ faults = 0 => \A t \in Tasks :
          /\ pc[t] # "failed"
          /\ pc[t] = "writing" =>
                /\ Durable!Allowed(call[t])
                /\ entries = [disk EXCEPT ![call[t].key] = Durable!After(call[t])]
=============================================================================

-------------------------------- MODULE Sending --------------------------------
(***************************************************************************)
(* The outbound side: tasks of the program (handlers, or code of its own)  *)
(* call the unary methods of Client, the sidecar runs one goroutine for    *)
(* each request, and text messages go through the deduplication cache of   *)
(* messages.Sender.  WhatsApp itself is external: what was asked of it may *)
(* have been done, refused, or lost without an answer.                     *)
(*                                                                         *)
(* A key stands for an account and a client_msg_id that the program chose; *)
(* Fresh for one that the SDK generates, which never comes again.  Time is *)
(* what the cache can tell: the age of its entries.                        *)
(***************************************************************************)
EXTENDS Client, Naturals, SequencesExt

CONSTANTS Tasks, Methods, Keys, Fresh, None,
          Capacity,   \* entries of the cache
          TTL,        \* the age beyond which an entry does not count
          Slots       \* bound: the goroutines at work at a time

VARIABLES up,         \* whether the sidecar is there
          call,       \* what each task waits for, or what it last got
          run,        \* what each goroutine is at
          cache,      \* the deduplication cache, least recently used first
          delivered,  \* ghost: the chosen keys under which WhatsApp took a message
          memo        \* ghost: for each key, how long ago it was acknowledged
                      \* last, how many other uses of the cache came since
                      \* its own, whether it had been acknowledged before,
                      \* and whether its entry was taken out while fresh

vars == <<up, call, run, cache, delivered, memo>>

MethodOps == {RpcOf(m).op : m \in Methods}
Results == {"ok", "deduped", "empty", "CancelledError"} \cup FastMeowErrors
Ages == 0..(TTL + 1)
Entries == [key : Keys \cup {Fresh}, age : Ages]
Memos == [age : Ages, others : 0..Capacity, again : BOOLEAN, taken : BOOLEAN]

(* The methods are the unary ones, which all have the deadline; those of   *)
(* media have a module of their own.                                       *)
ASSUME SendingAssumption ==
  /\ Capacity \in Nat \ {0} /\ TTL \in Nat
  /\ Fresh \notin Keys
  /\ None \notin Results /\ None \notin Tasks /\ None \notin Memos /\ None \notin Keys \cup {Fresh}
  /\ \A m \in Methods : RpcOf(m).deadline

Idle == [waiting |-> FALSE, op |-> None, key |-> None, out |-> None, done |-> FALSE]
Free == [pc |-> "free", owner |-> None, op |-> None, key |-> None, done |-> FALSE]

CallsOK == call \in [Tasks -> [waiting : BOOLEAN, op : MethodOps \cup {None},
                               key : Keys \cup {Fresh, None}, out : Results \cup {None},
                               done : BOOLEAN]]
RunsOK == run \in [Slots -> [pc : {"free", "look", "drop", "act", "answer"}, owner : Tasks \cup {None},
                             op : MethodOps \cup {None}, key : Keys \cup {Fresh, None}, done : BOOLEAN]]
CacheOK == /\ cache \in Seq(Entries) /\ Len(cache) <= Capacity
           /\ \A i, j \in DOMAIN cache : cache[i].key = cache[j].key => i = j \/ cache[i].key = Fresh

TypeOK ==
  /\ up \in BOOLEAN /\ CallsOK /\ RunsOK /\ CacheOK
  /\ delivered \subseteq Keys
  /\ memo \in [Keys -> Memos \cup {None}]
  /\ \A t \in Tasks : call[t].waiting <=> \E s \in Slots : run[s].owner = t

Init ==
  /\ up = TRUE
  /\ call = [t \in Tasks |-> Idle]
  /\ run = [s \in Slots |-> Free]
  /\ cache = <<>>
  /\ delivered = {}
  /\ memo = [k \in Keys |-> None]

-----------------------------------------------------------------------------
(* The cache. *)

Holds(key) == \E i \in DOMAIN cache : cache[i].key = key
Place(key) == CHOOSE i \in DOMAIN cache : cache[i].key = key
Entry(key) == cache[Place(key)]
IsFresh(key) == key # Fresh /\ Holds(key) /\ Entry(key).age <= TTL
Without(key) == IF key # Fresh /\ Holds(key) THEN RemoveAt(cache, Place(key)) ELSE cache

(* Get of a key that is there makes it the most recently used. *)
Touched(key) == Append(Without(key), Entry(key))

(* A fault: Add puts nothing out. *)
AddedBeyond(key) == Append(Without(key), [key |-> key, age |-> 0])

(* Add does so too, and puts out the least recently used entry. *)
Added(key) ==
  LET longer == Append(Without(key), [key |-> key, age |-> 0])
  IN  IF Len(longer) > Capacity THEN Tail(longer) ELSE longer

OneMore(n) == IF n < Capacity THEN n + 1 ELSE n
Older(age) == IF age > TTL THEN age ELSE age + 1

(* A key has just been acknowledged. *)
Acked(key) == [age |-> 0, others |-> 0, again |-> memo[key] # None, taken |-> FALSE]

(* Another key has been used. *)
Aside(key) == [k \in Keys |-> IF k = key \/ memo[k] = None THEN memo[k]
                              ELSE [memo[k] EXCEPT !.others = OneMore(@)]]

-----------------------------------------------------------------------------
(* The program. *)

Gets(t, op, key, out, done) ==
  call' = [call EXCEPT ![t] = [waiting |-> FALSE, op |-> op, key |-> key, out |-> out, done |-> done]]

(* Only texts have a key. *)
KeysOf(m) == IF RpcOf(m).op = "send_message" THEN Keys \cup {Fresh} ELSE {None}

(* A call: a reply outside the handler of a message is refused by Ctx,     *)
(* and with no sidecar the channel fails at once.                          *)
Call(t, m, isMessage, key) ==
  LET op == RpcOf(m).op IN
  /\ ~call[t].waiting
  /\ IF m \in DOMAIN Replies /\ ~isMessage
     THEN Gets(t, op, key, "ReplyNotAvailableError", FALSE) /\ UNCHANGED run
     ELSE IF ~up
     THEN Gets(t, op, key, Translate(op, Status("UNAVAILABLE", {})), FALSE) /\ UNCHANGED run
     ELSE LET s == CHOOSE g \in Slots : run[g] = Free IN
          /\ \E g \in Slots : run[g] = Free
          /\ run' = [run EXCEPT ![s] =
                       [pc |-> IF op = "send_message" THEN "look" ELSE "act", owner |-> t,
                        op |-> op, key |-> key, done |-> FALSE]]
          /\ call' = [call EXCEPT ![t] = [Idle EXCEPT !.waiting = TRUE, !.op = op, !.key = key]]
  /\ UNCHANGED <<up, cache, delivered, memo>>

(* The task stops waiting.  What the goroutine has done by then counts;    *)
(* what it does later, nobody hears of.                                    *)
Leaves(t, out) ==
  LET s == CHOOSE s \in Slots : run[s].owner = t IN
  /\ call[t].waiting
  /\ Gets(t, call[t].op, call[t].key, out, run[s].done)
  /\ run' = [run EXCEPT ![s].owner = None]
  /\ UNCHANGED <<up, cache, delivered, memo>>

Deadline(t) == Leaves(t, Translate(call[t].op, Status("DEADLINE_EXCEEDED", {})))

Cancelled(t) == Leaves(t, "CancelledError")

-----------------------------------------------------------------------------
(* The goroutines of the sidecar. *)

At(s, pc) == run[s].pc = pc
Goes(s, pc) == run' = [run EXCEPT ![s].pc = pc]

(* The handler returns; the task that still waits gets the answer. *)
Ends(s, out, done) ==
  /\ run' = [run EXCEPT ![s] = Free]
  /\ IF run[s].owner = None THEN UNCHANGED call ELSE Gets(run[s].owner, run[s].op, run[s].key, out, done)
  /\ UNCHANGED up

(* The request does not validate, or names no account.  The JID of a text  *)
(* is parsed after the look into the cache.                                *)
Refuse(s) ==
  /\ At(s, "look") \/ (At(s, "act") /\ ~run[s].done)
  /\ \E out \in Exceptions(run[s].op, Refusals(run[s].op)) : Ends(s, out, FALSE)
  /\ UNCHANGED <<cache, delivered, memo>>

(* A fault: reading an entry does not count as a use of it. *)
HitPeeking(s) ==
  /\ At(s, "look") /\ IsFresh(run[s].key)
  /\ Ends(s, "deduped", FALSE)
  /\ memo' = LET k == run[s].key
             IN  [Aside(k) EXCEPT ![k] = IF @ = None THEN None ELSE [@ EXCEPT !.others = 0]]
  /\ UNCHANGED <<cache, delivered>>

Hit(s) ==
  /\ At(s, "look") /\ IsFresh(run[s].key)
  /\ Ends(s, "deduped", FALSE)
  /\ cache' = Touched(run[s].key)
  /\ memo' = LET k == run[s].key
             IN  [Aside(k) EXCEPT ![k] = IF @ = None THEN None ELSE [@ EXCEPT !.others = 0]]
  /\ UNCHANGED delivered

Miss(s) ==
  /\ At(s, "look") /\ (run[s].key = Fresh \/ ~Holds(run[s].key))
  /\ Goes(s, "act")
  /\ UNCHANGED <<up, call, cache, delivered, memo>>

(* An entry that is too old is removed, in a step of its own: by then a    *)
(* goroutine with the same key may have renewed it, and the fresh entry is *)
(* taken out instead.                                                      *)
Expired(s) ==
  /\ At(s, "look") /\ run[s].key # Fresh /\ Holds(run[s].key) /\ ~IsFresh(run[s].key)
  /\ Goes(s, "drop")
  /\ cache' = Touched(run[s].key)
  /\ memo' = Aside(run[s].key)
  /\ UNCHANGED <<up, call, delivered>>

Drop(s) ==
  /\ At(s, "drop")
  /\ Goes(s, "act")
  /\ cache' = Without(run[s].key)
  /\ memo' = IF IsFresh(run[s].key) THEN [memo EXCEPT ![run[s].key].taken = TRUE] ELSE memo
  /\ UNCHANGED <<up, call, delivered>>

Took(s) == delivered' = delivered \cup ({run[s].key} \cap Keys)

(* WhatsApp does what it was asked, and says so. *)
Act(s) ==
  /\ At(s, "act")
  /\ run' = [run EXCEPT ![s].pc = "answer", ![s].done = TRUE]
  /\ Took(s)
  /\ UNCHANGED <<up, call, cache, memo>>

(* WhatsApp says no.  update_group_settings makes several requests, the    *)
(* last one a question, so a no may come after a change.                   *)
StillAsking(s) == At(s, "act") \/ (At(s, "answer") /\ run[s].op = "update_group_settings")

Denied(s) ==
  /\ StillAsking(s)
  /\ \E out \in Exceptions(run[s].op, Denials(run[s].op)) : Ends(s, out, run[s].done)
  /\ UNCHANGED <<cache, delivered, memo>>

(* What WhatsApp may have done of a request that has no good answer. *)
Lost(s, out) ==
  \/ Ends(s, out, run[s].done) /\ UNCHANGED delivered
  \/ Ends(s, out, TRUE) /\ Took(s)

(* The request fails, or its answer is lost. *)
Fails(s) ==
  /\ StillAsking(s)
  /\ \E out \in Exceptions(run[s].op, Failures(run[s].op)) : Lost(s, out)
  /\ UNCHANGED <<cache, memo>>

(* whatsmeow panics; recoverPanic leaves an empty response with status OK. *)
(* A result that is empty shows; a method without a result returns as it   *)
(* does after a success.                                                   *)
Panics(s) ==
  /\ StillAsking(s)
  /\ Lost(s, IF run[s].op \in Silent THEN "ok" ELSE "empty")
  /\ UNCHANGED <<cache, memo>>

(* Success; a text is remembered, whether its caller still waits or not. *)
Answer(s) ==
  /\ At(s, "answer")
  /\ Ends(s, "ok", TRUE)
  /\ IF run[s].op = "send_message"
     THEN /\ cache' = Added(run[s].key)
          /\ memo' = [k \in Keys |-> IF k = run[s].key THEN Acked(k) ELSE Aside(run[s].key)[k]]
     ELSE UNCHANGED <<cache, memo>>
  /\ UNCHANGED delivered

(* Time passes; the age of an entry whose key never comes again is left    *)
(* out.                                                                    *)
Tick ==
  /\ cache' = [i \in DOMAIN cache |-> IF cache[i].key = Fresh THEN cache[i]
                                      ELSE [cache[i] EXCEPT !.age = Older(@)]]
  /\ memo' = [k \in Keys |-> IF memo[k] = None THEN None ELSE [memo[k] EXCEPT !.age = Older(@)]]
  /\ UNCHANGED <<up, call, run, delivered>>

-----------------------------------------------------------------------------
(* The sidecar dies: every call that waits ends with UNAVAILABLE, and the  *)
(* cache is lost.                                                          *)
Crash ==
  /\ up
  /\ up' = FALSE
  /\ call' = [t \in Tasks |->
                IF ~call[t].waiting THEN call[t]
                ELSE [waiting |-> FALSE, op |-> call[t].op, key |-> call[t].key,
                      out |-> Translate(call[t].op, Status("UNAVAILABLE", {})),
                      done |-> \E s \in Slots : run[s].owner = t /\ run[s].done]]
  /\ run' = [s \in Slots |-> Free]
  /\ cache' = <<>>
  /\ memo' = [k \in Keys |-> None]
  /\ UNCHANGED delivered

(* The program is started again, with a new sidecar. *)
Restart ==
  /\ ~up
  /\ up' = TRUE
  /\ call' = [t \in Tasks |-> Idle]
  /\ UNCHANGED <<run, cache, delivered, memo>>

Goroutine(s) ==
  \/ Refuse(s) \/ Hit(s) \/ Miss(s) \/ Expired(s) \/ Drop(s)
  \/ Act(s) \/ Denied(s) \/ Fails(s) \/ Panics(s) \/ Answer(s)

Next ==
  \/ \E t \in Tasks :
       \/ \E m \in Methods, isMessage \in BOOLEAN : \E key \in KeysOf(m) :
            Call(t, m, isMessage, key)
       \/ Deadline(t) \/ Cancelled(t)
  \/ \E s \in Slots : Goroutine(s)
  \/ Tick \/ Crash \/ Restart

Spec == Init /\ [][Next]_vars

-----------------------------------------------------------------------------
(* Properties *)

(* The exceptions by which a caller learns that nothing was done. *)
Refusing == {"ReplyNotAvailableError", "ConfigurationError", "InvalidJIDError", "AccountNotFoundError",
             "GroupPermissionError", "InviteLinkInvalidError", "InviteLinkRevokedError"}
              \cup {Rejected[op] : op \in DOMAIN Rejected}

(* The refusals that prove nothing: a group's settings may be half made,   *)
(* and an error that came back from WhatsApp may read as one.              *)
Doubtful(op, out) ==
  \/ op = "update_group_settings"
  \/ op \in DOMAIN Rejected \ {"send_message"} /\ out \in {Rejected[op], "InvalidJIDError"}

(* A caller is told the truth, however often it retries and whoever else   *)
(* uses the same key.  "ok" means that WhatsApp has done it, where the     *)
(* method has a result to show for it: one without a result says "ok"      *)
(* after a panic too.  "deduped" means that WhatsApp took a message under  *)
(* this key.  An exception that refuses means that nothing was done, but   *)
(* for the doubtful ones (sender.go 126-137, 155-165, main.go 444-453,     *)
(* 1004-1035, groups/handler.go 228-256).                                  *)
OutcomesAreTrue ==
  \A t \in Tasks :
    LET c == call[t] IN
    /\ c.out = "ok" /\ c.op \notin Silent => c.done
    /\ c.out = "deduped" => c.key \in delivered
    /\ c.out \in Refusing /\ ~Doubtful(c.op, c.out) => ~c.done

(* A text that was sent and acknowledged is remembered for the TTL, unless *)
(* Capacity other uses of the cache came after its last: a retry within    *)
(* that window does not send it again, even if the first caller had given  *)
(* up before the answer (sender.go 126-137, 164).  One way to lose it is   *)
(* left: the removal of an expired entry takes out the one that another    *)
(* goroutine has put in its place (sender.go 136).  That takes a key that  *)
(* was acknowledged twice; what was acknowledged once is never lost so.    *)
AckedIsRemembered ==
  \A k \in Keys :
    memo[k] # None /\ memo[k].age <= TTL /\ memo[k].others < Capacity
      => IsFresh(k) \/ (memo[k].taken /\ memo[k].again)

(* What the cache answers for was delivered: no entry stands for a send    *)
(* that failed (sender.go 20-21).                                          *)
CachedWasDelivered == \A i \in DOMAIN cache : cache[i].key \in delivered \cup {Fresh}

(* Both: the cache answers for what it must, and for nothing else.         *)
CacheIsTrue == AckedIsRemembered /\ CachedWasDelivered
=============================================================================

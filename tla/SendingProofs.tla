---------------------------- MODULE SendingProofs ----------------------------
(***************************************************************************)
(* Proofs about the outbound side, for any tasks, methods, keys, slots,    *)
(* capacity and TTL: exceptions stay in the hierarchy, callers are told    *)
(* the truth, and the cache remembers what it must and only what was sent. *)
(***************************************************************************)
EXTENDS Sending, SequenceTheorems, TLAPS

(* _translate gives an exception of the package for every status of every  *)
(* operation (_transport.py 134-246).                                      *)
THEOREM TranslateStaysInside ==
  ASSUME NEW op, NEW st
  PROVE  Translate(op, st) \in FastMeowErrors
<1>1. OfGroups(st) \in FastMeowErrors
  BY DEF OfGroups, FastMeowErrors, GroupErrors, MessagingErrors
<1>2. OfMedia(op, st) \in FastMeowErrors
  BY DEF OfMedia, FastMeowErrors, MediaErrors, MessagingErrors, AccountErrors
<1>3. OfTheRest(op, st) \in FastMeowErrors
  <2>1. op \in DOMAIN Rejected => Rejected[op] \in MessagingErrors
    BY DEF Rejected, MessagingErrors
  <2> QED BY <2>1 DEF OfTheRest, FastMeowErrors, AccountErrors, SidecarErrors,
                      ConfigurationErrors, MessagingErrors
<1>4. "SidecarCrashedError" \in FastMeowErrors
  BY DEF FastMeowErrors, SidecarErrors
<1> QED BY <1>1, <1>2, <1>3, <1>4 DEF Translate

(* A deadline or a crash never reads as a refusal, and a failure only as a *)
(* doubtful one.                                                           *)
LEMMA NoFalseRefusal ==
  ASSUME NEW op, NEW h
  PROVE  /\ Translate(op, Status("DEADLINE_EXCEEDED", h)) \notin Refusing
         /\ Translate(op, Status("UNAVAILABLE", h)) \notin Refusing
         /\ \A out \in Exceptions(op, Failures(op)) : out \notin Refusing \/ Doubtful(op, out)
<1>1. /\ "TransportError" \notin Refusing /\ "SidecarCrashedError" \notin Refusing
      /\ "GroupError" \notin Refusing
      /\ "MediaUploadError" \notin Refusing /\ "MediaDownloadError" \notin Refusing
  BY DEF Refusing, Rejected
<1>2. op \in DOMAIN Rejected => op \notin GroupOps \cup {"send_media", "download_media"}
  BY DEF Rejected, GroupOps
<1>3. Translate(op, Status("DEADLINE_EXCEEDED", h)) \notin Refusing
  BY <1>1 DEF Translate, Status, OfGroups, OfMedia, OfTheRest
<1>4. \A g : Translate(op, Status("UNAVAILABLE", g)) \notin Refusing
  BY <1>1 DEF Translate, Status
<1>5. ASSUME NEW st \in Failures(op)
      PROVE  Translate(op, st) \notin Refusing \/ Doubtful(op, Translate(op, st))
  <2>1. CASE op \notin DOMAIN Rejected
    BY <1>4, <1>5, <2>1 DEF Failures
  <2>2. CASE op \in DOMAIN Rejected /\ st = Status("INTERNAL", {})
    BY <1>1, <1>2, <2>2 DEF Translate, Status, OfTheRest
  <2>3. CASE /\ op \in DOMAIN Rejected \ {"send_message"}
             /\ \E g \in Hints : st = Status("INVALID_ARGUMENT", g)
    BY <1>2, <2>3 DEF Translate, Status, OfTheRest, Doubtful
  <2> QED BY <1>5, <2>1, <2>2, <2>3 DEF Failures
<1> QED BY <1>3, <1>4, <1>5 DEF Exceptions

-----------------------------------------------------------------------------
(* What a goroutine knows of what it has done. *)
RunKnows ==
  \A s \in Slots :
    /\ run[s].done <=> run[s].pc = "answer"
    /\ run[s].pc \in {"look", "drop"} => run[s].op = "send_message"
    /\ run[s].pc = "drop" => run[s].key # Fresh
    /\ run[s].pc # "free" /\ run[s].op = "send_message" => run[s].key \in Keys \cup {Fresh}
    /\ run[s].pc = "free" => run[s].owner = None

(* A task waits exactly while one goroutine works for it, and none works   *)
(* without a sidecar.                                                      *)
Owned ==
  /\ \A t \in Tasks : call[t].waiting <=> \E s \in Slots : run[s].owner = t
  /\ \A s, g \in Slots : run[s].owner = run[g].owner => s = g \/ run[s].owner = None
  /\ ~up => \A s \in Slots : run[s].pc = "free"

Told == CallsOK /\ RunsOK /\ RunKnows /\ OutcomesAreTrue

(* An answer that may be given. *)
Honest(op, key, out, done) ==
  /\ out = "ok" /\ op \notin Silent => done
  /\ out = "deduped" => key \in delivered
  /\ out \in Refusing /\ ~Doubtful(op, out) => ~done

(* What a task is given when its call ends keeps the invariant if it is    *)
(* typed and true.                                                         *)
LEMMA GetsKeepsTold ==
  ASSUME CallsOK, OutcomesAreTrue, delivered \subseteq delivered',
         NEW t \in Tasks, NEW op \in MethodOps \cup {None}, NEW key \in Keys \cup {Fresh, None},
         NEW out \in Results, NEW done \in BOOLEAN, Gets(t, op, key, out, done),
         Honest(op, key, out, done)
  PROVE  CallsOK' /\ OutcomesAreTrue'
<1>1. CallsOK'
  BY DEF Gets, CallsOK
<1>2. /\ call'[t].op = op /\ call'[t].key = key /\ call'[t].out = out /\ call'[t].done = done
      /\ \A u \in Tasks \ {t} : call'[u] = call[u]
  BY DEF Gets, CallsOK
<1>3. OutcomesAreTrue'
  BY <1>2 DEF Honest, OutcomesAreTrue, Doubtful
<1> QED BY <1>1, <1>3

(* The calls that go on have been told nothing new. *)
LEMMA SilenceKeepsTold ==
  ASSUME CallsOK, OutcomesAreTrue, delivered \subseteq delivered', UNCHANGED call
  PROVE  CallsOK' /\ OutcomesAreTrue'
<1>1. CallsOK'
  BY DEF CallsOK
<1>2. OutcomesAreTrue'
  BY DEF OutcomesAreTrue, Doubtful
<1> QED BY <1>1, <1>2

LEMMA EndsKeepsTold ==
  ASSUME Told, NEW s \in Slots, NEW out \in Results, NEW done \in BOOLEAN, Ends(s, out, done),
         delivered \subseteq delivered', Honest(run[s].op, run[s].key, out, done)
  PROVE  Told'
<1>1. run' = [run EXCEPT ![s] = Free]
  BY DEF Ends
<1>2. RunsOK' /\ RunKnows'
  <2>1. Free.pc = "free" /\ Free.owner = None /\ Free.op = None /\ Free.key = None /\ Free.done = FALSE
    BY DEF Free
  <2>2. RunsOK'
    BY <1>1, <2>1 DEF Told, RunsOK, Free
  <2>3. RunKnows'
    BY <1>1, <2>1 DEF Told, RunsOK, RunKnows
  <2> QED BY <2>2, <2>3
<1>3. CallsOK' /\ OutcomesAreTrue'
  <2>1. CASE run[s].owner = None
    BY <2>1, SilenceKeepsTold DEF Ends, Told
  <2>2. CASE run[s].owner # None
    <3>1. /\ run[s].owner \in Tasks /\ run[s].op \in MethodOps \cup {None}
          /\ run[s].key \in Keys \cup {Fresh, None}
      BY <2>2 DEF Told, RunsOK
    <3>2. Gets(run[s].owner, run[s].op, run[s].key, out, done)
      BY <2>2 DEF Ends
    <3> QED BY <3>1, <3>2, GetsKeepsTold DEF Told
  <2> QED BY <2>1, <2>2
<1> QED BY <1>2, <1>3 DEF Told

(* What a task that leaves is given. *)
LEMMA LeavesKeepsTold ==
  ASSUME Told, Owned, NEW t \in Tasks, NEW out \in Results, out \notin {"ok", "deduped"},
         out \notin Refusing, Leaves(t, out)
  PROVE  Told'
<1> DEFINE s == CHOOSE g \in Slots : run[g].owner = t
<1>1. s \in Slots /\ run[s].owner = t
  <2>1. \E g \in Slots : run[g].owner = t
    BY DEF Leaves, Owned
  <2> QED BY <2>1
<1>2. Gets(t, call[t].op, call[t].key, out, run[s].done) /\ delivered' = delivered
  BY DEF Leaves
<1>3. CallsOK' /\ OutcomesAreTrue'
  <2>1. /\ call[t].op \in MethodOps \cup {None} /\ call[t].key \in Keys \cup {Fresh, None}
        /\ run[s].done \in BOOLEAN
    BY <1>1 DEF Told, RunsOK, CallsOK
  <2>2. Honest(call[t].op, call[t].key, out, run[s].done)
    BY DEF Honest
  <2> QED BY <1>2, <2>1, <2>2, GetsKeepsTold DEF Told
<1>4. run' = [run EXCEPT ![s].owner = None]
  BY DEF Leaves
<1> HIDE DEF s
<1>5. RunsOK' /\ RunKnows'
  BY <1>1, <1>4 DEF Told, RunsOK, RunKnows
<1> QED BY <1>3, <1>5 DEF Told

(* "ok", "deduped" and the refusals are results, None is not. *)
LEMMA NoneIsNoResult == None \notin {"ok", "deduped"} /\ None \notin Refusing
<1>1. None \notin Results
  BY SendingAssumption
<1>2. "ok" \in Results /\ "deduped" \in Results
  BY DEF Results
<1>3. Refusing \subseteq Results
  BY DEF Refusing, Rejected, Results, FastMeowErrors, DispatchErrors, ConfigurationErrors,
         MessagingErrors, AccountErrors, GroupErrors
<1> QED BY <1>1, <1>2, <1>3

(* No exception of the package is mistaken for an answer. *)
LEMMA ExceptionsAreNoAnswers == FastMeowErrors \cap {"ok", "deduped", "empty"} = {}
  BY DEF FastMeowErrors, ConfigurationErrors, SidecarErrors, AccountErrors, MessagingErrors,
         DispatchErrors, GroupErrors, MediaErrors

(* At the start nobody has been told anything. *)
LEMMA InitTold == Init => Told
<1> SUFFICES ASSUME Init PROVE Told
  OBVIOUS
<1>1. CallsOK
  BY DEF Init, CallsOK, Idle
<1>2. RunsOK
  BY DEF Init, RunsOK, Free
<1>3. RunKnows
  BY DEF Init, RunKnows, Free
<1>4. OutcomesAreTrue
  <2>1. \A t \in Tasks : call[t].out = None
    BY DEF Init, Idle
  <2> QED BY <2>1, NoneIsNoResult DEF OutcomesAreTrue
<1> QED BY <1>1, <1>2, <1>3, <1>4 DEF Told

(* What the key of a call may be. *)
LEMMA KeysOfCalls ==
  ASSUME NEW m \in Methods, NEW key \in KeysOf(m)
  PROVE  /\ key \in Keys \cup {Fresh, None}
         /\ RpcOf(m).op = "send_message" => key \in Keys \cup {Fresh}
  BY DEF KeysOf

(* A call is refused on the spot, or starts a goroutine that has done      *)
(* nothing yet.                                                            *)
LEMMA CallKeepsTold ==
  ASSUME Told, NEW t \in Tasks, NEW m \in Methods, NEW isMessage \in BOOLEAN,
         NEW key \in KeysOf(m), Call(t, m, isMessage, key)
  PROVE  Told'
<1> DEFINE op == RpcOf(m).op
<1>1. op \in MethodOps
  BY DEF MethodOps
<1>0. key \in Keys \cup {Fresh, None} /\ (op = "send_message" => key \in Keys \cup {Fresh})
  BY KeysOfCalls
<1>d. delivered' = delivered
  BY DEF Call
<1> HIDE DEF op
<1>2. ASSUME NEW out \in FastMeowErrors, Gets(t, op, key, out, FALSE), UNCHANGED run
      PROVE  Told'
  <2>1. out \in Results /\ Honest(op, key, out, FALSE)
    BY ExceptionsAreNoAnswers DEF Results, Honest
  <2>2. CallsOK' /\ OutcomesAreTrue'
    BY <1>0, <1>1, <1>d, <1>2, <2>1, GetsKeepsTold DEF Told
  <2> QED BY <1>2, <2>2 DEF Told, RunsOK, RunKnows
<1>3. CASE Gets(t, op, key, "ReplyNotAvailableError", FALSE) /\ UNCHANGED run
  <2>1. "ReplyNotAvailableError" \in FastMeowErrors
    BY DEF FastMeowErrors, DispatchErrors
  <2> QED BY <1>2, <1>3, <2>1
<1>4. CASE Gets(t, op, key, Translate(op, Status("UNAVAILABLE", {})), FALSE) /\ UNCHANGED run
  BY <1>2, <1>4, TranslateStaysInside
<1>5. ASSUME NEW s \in Slots,
             run' = [run EXCEPT ![s] =
                       [pc |-> IF op = "send_message" THEN "look" ELSE "act", owner |-> t,
                        op |-> op, key |-> key, done |-> FALSE]],
             call' = [call EXCEPT ![t] = [Idle EXCEPT !.waiting = TRUE, !.op = op, !.key = key]]
      PROVE  Told'
  <2>1. RunsOK'
    BY <1>0, <1>1, <1>5 DEF Told, RunsOK
  <2>2. RunKnows'
    BY <1>0, <1>1, <1>5 DEF Told, RunsOK, RunKnows
  <2>3. CallsOK'
    BY <1>0, <1>1, <1>5 DEF Told, CallsOK, Idle
  <2>4. OutcomesAreTrue'
    <3>1. call'[t].out = None
      BY <1>5 DEF Told, CallsOK, Idle
    <3>2. \A u \in Tasks \ {t} : call'[u] = call[u]
      BY <1>5 DEF Told, CallsOK
    <3> QED BY <1>d, <3>1, <3>2, NoneIsNoResult DEF Told, OutcomesAreTrue, Doubtful
  <2> QED BY <2>1, <2>2, <2>3, <2>4 DEF Told
<1>6. (\E g \in Slots : run[g] = Free) => (CHOOSE g \in Slots : run[g] = Free) \in Slots
  OBVIOUS
<1> QED BY <1>3, <1>4, <1>5, <1>6 DEF Call, op

(* Every step of a goroutine: it goes on, or ends with a true answer.      *)
(* "deduped" rests on what the cache was given.                            *)
LEMMA GoroutineKeepsTold ==
  ASSUME Told, CachedWasDelivered, NEW s \in Slots, Goroutine(s)
  PROVE  Told'
<1> DEFINE op == run[s].op
           done == run[s].done
<1>1. done \in BOOLEAN
  BY DEF Told, RunsOK
<1>d. delivered \subseteq delivered'
  BY DEF Goroutine, Refuse, Hit, Miss, Expired, Drop, Act, Denied, Fails, Panics, Answer, Lost, Took
<1>2. ASSUME NEW pc \in {"look", "drop", "act"}, Goes(s, pc), UNCHANGED call,
             ~done, run[s].pc # "free",
             pc \in {"look", "drop"} => run[s].op = "send_message",
             pc = "drop" => run[s].key # Fresh
      PROVE  Told'
  <2>1. RunsOK' /\ RunKnows'
    BY <1>2 DEF Told, RunsOK, RunKnows, Goes
  <2> QED BY <1>d, <1>2, <2>1, SilenceKeepsTold DEF Told
<1>3. ASSUME NEW sts, NEW out \in Exceptions(op, sts)
      PROVE  out \in Results /\ out \notin {"ok", "deduped"}
  BY ExceptionsAreNoAnswers, TranslateStaysInside DEF Exceptions, Results
<1>4. StillAsking(s) /\ op # "update_group_settings" => ~done
  BY DEF StillAsking, At, Told, RunKnows
<1>5. {"ok", "deduped", "empty"} \subseteq Results \ Refusing
  BY DEF Results, Refusing, Rejected
<1>6. CASE Refuse(s)
  <2>1. PICK out \in Exceptions(op, Refusals(op)) : Ends(s, out, FALSE)
    BY <1>6 DEF Refuse
  <2>2. out \in Results /\ Honest(op, run[s].key, out, FALSE)
    BY <1>3, <2>1 DEF Honest
  <2> QED BY <1>d, <2>1, <2>2, EndsKeepsTold
<1>7. CASE Hit(s)
  <2>1. run[s].key \in delivered
    BY <1>7 DEF Hit, IsFresh, Holds, CachedWasDelivered
  <2>2. Honest(op, run[s].key, "deduped", FALSE) /\ Ends(s, "deduped", FALSE)
    BY <1>7, <2>1 DEF Honest, Hit
  <2> QED BY <1>d, <1>5, <2>2, EndsKeepsTold
<1>8. CASE Miss(s)
  BY <1>2, <1>8 DEF Miss, At, Told, RunKnows
<1>9. CASE Expired(s)
  BY <1>2, <1>9 DEF Expired, At, Told, RunKnows
<1>10. CASE Drop(s)
  BY <1>2, <1>10 DEF Drop, At, Told, RunKnows
<1>11. CASE Act(s)
  <2>1. RunsOK' /\ RunKnows'
    BY <1>11 DEF Act, At, Told, RunsOK, RunKnows
  <2>2. UNCHANGED call
    BY <1>11 DEF Act
  <2> QED BY <1>d, <2>1, <2>2, SilenceKeepsTold DEF Told
<1>12. CASE Denied(s)
  <2>1. PICK out \in Exceptions(op, Denials(op)) : Ends(s, out, done)
    BY <1>12 DEF Denied
  <2>2. Honest(op, run[s].key, out, done)
    <3>1. ~Doubtful(op, out) => ~done
      BY <1>4, <1>12 DEF Denied, Doubtful
    <3> QED BY <1>3, <2>1, <3>1 DEF Honest
  <2> QED BY <1>1, <1>d, <1>3, <2>1, <2>2, EndsKeepsTold
<1>13. CASE Fails(s)
  <2>1. PICK out \in Exceptions(op, Failures(op)) : Lost(s, out)
    BY <1>13 DEF Fails
  <2>2. PICK d \in BOOLEAN : Ends(s, out, d)
    BY <1>1, <2>1 DEF Lost
  <2>3. Honest(op, run[s].key, out, d)
    BY <1>3, <2>1, NoFalseRefusal DEF Honest
  <2> QED BY <1>d, <1>3, <2>1, <2>2, <2>3, EndsKeepsTold
<1>14. CASE Panics(s)
  <2> DEFINE out == IF op \in Silent THEN "ok" ELSE "empty"
  <2>1. PICK d \in BOOLEAN : Ends(s, out, d)
    BY <1>1, <1>14 DEF Panics, Lost
  <2>2. out \in Results /\ Honest(op, run[s].key, out, d)
    BY <1>5 DEF Honest
  <2> HIDE DEF out
  <2> QED BY <1>d, <2>1, <2>2, EndsKeepsTold
<1>15. CASE Answer(s)
  <2>1. Ends(s, "ok", TRUE) /\ Honest(op, run[s].key, "ok", TRUE)
    BY <1>5, <1>15 DEF Answer, Honest
  <2> QED BY <1>d, <1>5, <2>1, EndsKeepsTold
<1> QED BY <1>6, <1>7, <1>8, <1>9, <1>10, <1>11, <1>12, <1>13, <1>14, <1>15 DEF Goroutine

-----------------------------------------------------------------------------
(* Who waits for whom.                                                     *)

LEMMA CallKeepsOwned ==
  ASSUME Told, Owned, NEW t \in Tasks, NEW m \in Methods, NEW isMessage \in BOOLEAN,
         NEW key \in KeysOf(m), Call(t, m, isMessage, key)
  PROVE  Owned'
<1> DEFINE op == RpcOf(m).op
<1> HIDE DEF op
<1>1. ~call[t].waiting /\ up' = up
  BY DEF Call
<1>2. ASSUME NEW out, Gets(t, op, key, out, FALSE), UNCHANGED run
      PROVE  Owned'
  BY <1>1, <1>2 DEF Gets, Owned, Told, CallsOK
<1>3. ASSUME up, NEW s \in Slots, run[s] = Free,
             NEW r, r.owner = t, run' = [run EXCEPT ![s] = r],
             call' = [call EXCEPT ![t] = [Idle EXCEPT !.waiting = TRUE, !.op = op, !.key = key]]
      PROVE  Owned'
  <2>1. \A g \in Slots : run'[g].owner = IF g = s THEN t ELSE run[g].owner
    BY <1>3 DEF Told, RunsOK
  <2>2. \A u \in Tasks : call'[u].waiting = IF u = t THEN TRUE ELSE call[u].waiting
    BY <1>3 DEF Told, CallsOK, Idle
  <2>3. run[s].owner = None /\ \A g \in Slots : run[g].owner # t
    BY <1>1, <1>3 DEF Free, Owned
  <2>4. t # None
    BY SendingAssumption
  <2>5. \A u \in Tasks : call'[u].waiting <=> \E g \in Slots : run'[g].owner = u
    <3>1. ASSUME NEW u \in Tasks, u # t
          PROVE  (\E g \in Slots : run'[g].owner = u) <=> \E g \in Slots : run[g].owner = u
      <4>1. u # None
        BY SendingAssumption
      <4> QED BY <2>1, <2>3, <3>1, <4>1
    <3>2. call'[t].waiting /\ run'[s].owner = t
      BY <1>3, <2>1, <2>2
    <3>3. ASSUME NEW u \in Tasks, u # t
          PROVE  call'[u].waiting <=> \E g \in Slots : run'[g].owner = u
      BY <2>2, <3>1, <3>3 DEF Owned
    <3> QED BY <1>3, <3>2, <3>3
  <2>6. \A g, h \in Slots : run'[g].owner = run'[h].owner => g = h \/ run'[g].owner = None
    BY <2>1, <2>3 DEF Owned
  <2> QED BY <1>1, <1>3, <2>5, <2>6 DEF Owned
<1>4. (\E g \in Slots : run[g] = Free) =>
        /\ (CHOOSE g \in Slots : run[g] = Free) \in Slots
        /\ run[CHOOSE g \in Slots : run[g] = Free] = Free
  OBVIOUS
<1>5. CASE UNCHANGED run
  BY <1>2, <1>3, <1>4, <1>5 DEF Call, op
<1>6. CASE ~UNCHANGED run
  <2> DEFINE s == CHOOSE g \in Slots : run[g] = Free
             r == [pc |-> IF op = "send_message" THEN "look" ELSE "act", owner |-> t,
                   op |-> op, key |-> key, done |-> FALSE]
  <2>1. /\ up /\ s \in Slots /\ run[s] = Free /\ run' = [run EXCEPT ![s] = r]
        /\ call' = [call EXCEPT ![t] = [Idle EXCEPT !.waiting = TRUE, !.op = op, !.key = key]]
    BY <1>4, <1>6 DEF Call, op
  <2>2. r.owner = t
    OBVIOUS
  <2> HIDE DEF s, r
  <2> QED BY <1>3, <2>1, <2>2
<1> QED BY <1>5, <1>6

(* A goroutine that nobody waits for any more, whose task stops waiting. *)
LEMMA ReleaseKeepsOwned ==
  ASSUME Owned, NEW s \in Slots, up' = up, None \notin Tasks,
         \A g \in Slots : /\ run'[g].owner = IF g = s THEN None ELSE run[g].owner
                          /\ run'[g].pc \in {run[g].pc, "free"},
         \A u \in Tasks : call'[u].waiting = IF u = run[s].owner THEN FALSE ELSE call[u].waiting
  PROVE  Owned'
<1>1. \A s1, s2 \in Slots : run'[s1].owner = run'[s2].owner => s1 = s2 \/ run'[s1].owner = None
  BY DEF Owned
<1>2. ASSUME NEW u \in Tasks
      PROVE  call'[u].waiting <=> \E g \in Slots : run'[g].owner = u
  <2>1. CASE u = run[s].owner
    <3>1. \A g \in Slots : run'[g].owner # u
      BY <2>1 DEF Owned
    <3> QED BY <2>1, <3>1
  <2>2. CASE u # run[s].owner
    <3>1. \A g \in Slots : run'[g].owner = u <=> run[g].owner = u
      BY <2>2
    <3> QED BY <2>2, <3>1 DEF Owned
  <2> QED BY <2>1, <2>2
<1>3. ~up' => \A g \in Slots : run'[g].pc = "free"
  BY DEF Owned
<1> QED BY <1>1, <1>2, <1>3 DEF Owned

LEMMA LeavesKeepsOwned ==
  ASSUME Told, Owned, NEW t \in Tasks, NEW out, Leaves(t, out)
  PROVE  Owned'
<1> DEFINE s == CHOOSE g \in Slots : run[g].owner = t
<1>1. s \in Slots /\ run[s].owner = t
  <2>1. \E g \in Slots : run[g].owner = t
    BY DEF Leaves, Owned
  <2> QED BY <2>1
<1>2. Gets(t, call[t].op, call[t].key, out, run[s].done) /\ run' = [run EXCEPT ![s].owner = None] /\ up' = up
  BY DEF Leaves
<1> HIDE DEF s
<1>3. ASSUME NEW g \in Slots
      PROVE  /\ run'[g].owner = IF g = s THEN None ELSE run[g].owner
             /\ run'[g].pc = run[g].pc
  <2>1. CASE g = s
    BY <1>1, <1>2, <2>1 DEF Told, RunsOK
  <2>2. CASE g # s
    BY <1>1, <1>2, <2>2 DEF Told, RunsOK
  <2> QED BY <2>1, <2>2
<1>4. \A u \in Tasks : call'[u].waiting = IF u = t THEN FALSE ELSE call[u].waiting
  BY <1>2 DEF Gets, Told, CallsOK
<1>5. None \notin Tasks
  BY SendingAssumption
<1> QED BY <1>1, <1>2, <1>3, <1>4, <1>5, ReleaseKeepsOwned

LEMMA EndsKeepsOwned ==
  ASSUME Told, Owned, NEW s \in Slots, NEW out, NEW done, Ends(s, out, done)
  PROVE  Owned'
<1>1. \A g \in Slots : run'[g] = IF g = s THEN Free ELSE run[g]
  BY DEF Ends, Told, RunsOK
<1>2. Free.owner = None /\ Free.pc = "free"
  BY DEF Free
<1>3. None \notin Tasks /\ up' = up
  BY SendingAssumption DEF Ends
<1>4. ASSUME NEW u \in Tasks
      PROVE  call'[u].waiting = IF u = run[s].owner THEN FALSE ELSE call[u].waiting
  <2>1. CASE run[s].owner = None
    BY <1>3, <2>1 DEF Ends
  <2>2. CASE run[s].owner # None
    <3>1. Gets(run[s].owner, run[s].op, run[s].key, out, done)
      BY <2>2 DEF Ends
    <3> QED BY <3>1 DEF Gets, Told, CallsOK
  <2> QED BY <2>1, <2>2
<1> QED BY <1>1, <1>2, <1>3, <1>4, ReleaseKeepsOwned

(* A goroutine that goes on keeps its task. *)
LEMMA GoroutineKeepsOwned ==
  ASSUME Told, Owned, NEW s \in Slots, Goroutine(s)
  PROVE  Owned'
<1>1. run[s].pc # "free" /\ up
  BY DEF Goroutine, Refuse, Hit, Miss, Expired, Drop, Act, Denied, Fails, Panics, Answer,
         StillAsking, At, Owned
<1>2. CASE \E out, done : Ends(s, out, done)
  BY <1>2, EndsKeepsOwned
<1>3. CASE Miss(s) \/ Expired(s) \/ Drop(s) \/ Act(s)
  <2>1. \A g \in Slots : run'[g].owner = run[g].owner
    BY <1>3 DEF Miss, Expired, Drop, Act, Goes, Told, RunsOK
  <2>2. call' = call /\ up' = up
    BY <1>3 DEF Miss, Expired, Drop, Act
  <2> QED BY <1>1, <2>1, <2>2 DEF Owned
<1>4. Refuse(s) \/ Hit(s) \/ Denied(s) \/ Fails(s) \/ Panics(s) \/ Answer(s)
        => \E out, done : Ends(s, out, done)
  BY DEF Refuse, Hit, Denied, Fails, Panics, Answer, Lost
<1> QED BY <1>2, <1>3, <1>4 DEF Goroutine

-----------------------------------------------------------------------------
(* The cache as a sequence.                                                *)

Unique(q) == \A i, j \in DOMAIN q : q[i].key = q[j].key => i = j \/ q[i].key = Fresh
Lacks(q, key) == \A i \in DOMAIN q : q[i].key # key

(* q has an entry for k among its n + 1 most recently used. *)
Recent(q, k, n) == \E i \in DOMAIN q : q[i].key = k /\ Len(q) - i <= n

(* RemoveAt takes one element out and closes up. *)
LEMMA RemoveAtCloses ==
  ASSUME NEW S, NEW q \in Seq(S), NEW p \in 1..Len(q)
  PROVE  /\ RemoveAt(q, p) \in Seq(S)
         /\ Len(RemoveAt(q, p)) = Len(q) - 1
         /\ \A i \in 1..(Len(q) - 1) : RemoveAt(q, p)[i] = IF i < p THEN q[i] ELSE q[i + 1]
<1> DEFINE l == SubSeq(q, 1, p - 1)
           r == SubSeq(q, p + 1, Len(q))
<1>1. l \in Seq(S) /\ Len(l) = p - 1 /\ \A i \in 1..(p - 1) : l[i] = q[i]
  OBVIOUS
<1>2. r \in Seq(S) /\ Len(r) = Len(q) - p /\ \A i \in 1..(Len(q) - p) : r[i] = q[p + i]
  OBVIOUS
<1>3. RemoveAt(q, p) = l \o r
  BY DEF RemoveAt
<1> HIDE DEF l, r
<1>4. /\ l \o r \in Seq(S) /\ Len(l \o r) = Len(q) - 1
      /\ \A i \in 1..(Len(q) - 1) : (l \o r)[i] = IF i < p THEN l[i] ELSE r[i - (p - 1)]
  <2>1. l \o r \in Seq(S) /\ Len(l \o r) = Len(l) + Len(r)
    BY <1>1, <1>2, ConcatProperties
  <2>2. \A i \in 1..(Len(l) + Len(r)) : (l \o r)[i] = IF i <= Len(l) THEN l[i] ELSE r[i - Len(l)]
    BY <1>1, <1>2, ConcatProperties
  <2>3. Len(q) \in Nat /\ p \in Nat
    OBVIOUS
  <2> QED BY <1>1, <1>2, <2>1, <2>2, <2>3
<1>5. ASSUME NEW i \in 1..(Len(q) - 1)
      PROVE  (l \o r)[i] = IF i < p THEN q[i] ELSE q[i + 1]
  <2>1. CASE i < p
    BY <1>1, <1>4, <2>1
  <2>2. CASE ~(i < p)
    <3>1. i - (p - 1) \in 1..(Len(q) - p) /\ p + (i - (p - 1)) = i + 1
      BY <2>2
    <3> QED BY <1>2, <1>4, <2>2, <3>1
  <2> QED BY <2>1, <2>2
<1> QED BY <1>3, <1>4, <1>5

(* Without(key) is the cache without key; every other entry keeps its      *)
(* distance from the end, or comes closer to it.                           *)
LEMMA WithoutProps ==
  ASSUME CacheOK, NEW key \in Keys \cup {Fresh}
  PROVE  /\ Without(key) \in Seq(Entries) /\ Unique(Without(key))
         /\ Len(Without(key)) <= Len(cache)
         /\ key # Fresh /\ Holds(key) => Len(Without(key)) < Len(cache)
         /\ key # Fresh => Lacks(Without(key), key)
         /\ \A i \in DOMAIN Without(key) : \E j \in DOMAIN cache : Without(key)[i] = cache[j]
         /\ \A k : \A n \in Nat : k # key /\ Recent(cache, k, n) => Recent(Without(key), k, n)
<1>1. CASE ~(key # Fresh /\ Holds(key))
  BY <1>1 DEF Without, CacheOK, Unique, Lacks, Holds
<1>2. CASE key # Fresh /\ Holds(key)
  <2> DEFINE p == Place(key)
             w == Without(key)
  <2>1. p \in 1..Len(cache) /\ cache[p].key = key
    <3>1. \E i \in DOMAIN cache : cache[i].key = key
      BY <1>2 DEF Holds
    <3>2. DOMAIN cache = 1..Len(cache)
      BY DEF CacheOK
    <3> QED BY <3>1, <3>2 DEF Place
  <2>2. w = RemoveAt(cache, p)
    BY <1>2 DEF Without
  <2> HIDE DEF p, w
  <2>3. /\ w \in Seq(Entries) /\ Len(w) = Len(cache) - 1
        /\ \A i \in 1..(Len(cache) - 1) : w[i] = IF i < p THEN cache[i] ELSE cache[i + 1]
    BY <2>1, <2>2, RemoveAtCloses DEF CacheOK
  <2>4. Len(cache) \in Nat /\ DOMAIN cache = 1..Len(cache) /\ DOMAIN w = 1..(Len(cache) - 1)
    BY <2>3 DEF CacheOK
  <2>5. \A i \in DOMAIN w : \E j \in DOMAIN cache : j # p /\ w[i] = cache[j]
    <3>1. \A i \in DOMAIN w : LET j == IF i < p THEN i ELSE i + 1
                              IN  j \in DOMAIN cache /\ j # p /\ w[i] = cache[j]
      BY <2>1, <2>3, <2>4
    <3> QED BY <3>1
  <2>6. Lacks(w, key)
    BY <1>2, <2>1, <2>4, <2>5 DEF Lacks, CacheOK
  <2>7. Unique(w)
    <3> SUFFICES ASSUME NEW i \in DOMAIN w, NEW j \in DOMAIN w, w[i].key = w[j].key, i # j
                 PROVE  w[i].key = Fresh
      BY DEF Unique
    <3> DEFINE a == IF i < p THEN i ELSE i + 1
               b == IF j < p THEN j ELSE j + 1
    <3>1. /\ a \in DOMAIN cache /\ b \in DOMAIN cache /\ a # b
          /\ w[i] = cache[a] /\ w[j] = cache[b]
      BY <2>1, <2>3, <2>4
    <3> HIDE DEF a, b
    <3> QED BY <3>1 DEF CacheOK
  <2>8. ASSUME NEW k, NEW n \in Nat, k # key, Recent(cache, k, n)
        PROVE  Recent(w, k, n)
    <3>1. PICK j \in DOMAIN cache : cache[j].key = k /\ Len(cache) - j <= n
      BY <2>8 DEF Recent
    <3>2. j # p
      BY <2>1, <2>8, <3>1
    <3> DEFINE i == IF j < p THEN j ELSE j - 1
    <3>3. i \in DOMAIN w /\ w[i] = cache[j]
      BY <2>1, <2>3, <2>4, <3>1, <3>2
    <3>4. Len(w) - i <= n
      BY <2>1, <2>3, <2>4, <3>1, <3>2
    <3> HIDE DEF i
    <3> QED BY <3>1, <3>3, <3>4 DEF Recent
  <2> QED BY <1>2, <2>3, <2>4, <2>5, <2>6, <2>7, <2>8 DEF w
<1> QED BY <1>1, <1>2

(* What the cache is after a use of key, before anything is put out. *)
LEMMA UseProps ==
  ASSUME CacheOK, NEW key \in Keys \cup {Fresh}, NEW e \in Entries, e.key = key
  PROVE  LET q == Append(Without(key), e) IN
         /\ q \in Seq(Entries) /\ Unique(q)
         /\ Len(q) <= Len(cache) + 1
         /\ key # Fresh /\ Holds(key) => Len(q) <= Len(cache)
         /\ \A i \in DOMAIN q : q[i] = e \/ \E j \in DOMAIN cache : q[i] = cache[j]
         /\ key # Fresh => \A i \in DOMAIN q : q[i].key = key => q[i] = e
         /\ Recent(q, key, 0)
         /\ \A k : \A n \in Nat : k # key /\ Recent(cache, k, n) => Recent(q, k, n + 1)
<1> DEFINE w == Without(key)
           q == Append(w, e)
<1>1. /\ w \in Seq(Entries) /\ Unique(w) /\ Len(w) <= Len(cache)
      /\ key # Fresh /\ Holds(key) => Len(w) < Len(cache)
      /\ key # Fresh => Lacks(w, key)
      /\ \A i \in DOMAIN w : \E j \in DOMAIN cache : w[i] = cache[j]
      /\ \A k : \A n \in Nat : k # key /\ Recent(cache, k, n) => Recent(w, k, n)
  BY WithoutProps
<1> HIDE DEF w
<1>2. /\ q \in Seq(Entries) /\ Len(q) = Len(w) + 1
      /\ \A i \in 1..Len(w) : q[i] = w[i]
      /\ q[Len(w) + 1] = e
  BY <1>1, AppendProperties
<1>3. /\ Len(w) \in Nat /\ Len(cache) \in Nat
      /\ DOMAIN w = 1..Len(w) /\ DOMAIN q = 1..(Len(w) + 1)
  BY <1>1, <1>2 DEF CacheOK
<1> HIDE DEF q
<1>4. \A i \in DOMAIN q : \/ i \in DOMAIN w /\ q[i] = w[i]
                          \/ i = Len(w) + 1 /\ q[i] = e
  BY <1>2, <1>3
<1>5. Unique(q)
  <2> SUFFICES ASSUME NEW i \in DOMAIN q, NEW j \in DOMAIN q, q[i].key = q[j].key, i # j,
                      q[i].key # Fresh
               PROVE  FALSE
    BY DEF Unique
  <2>1. CASE i \in DOMAIN w /\ q[i] = w[i] /\ j \in DOMAIN w /\ q[j] = w[j]
    BY <1>1, <2>1 DEF Unique
  <2>2. CASE i \in DOMAIN w /\ q[i] = w[i] /\ q[j] = e
    BY <1>1, <2>2 DEF Lacks
  <2>3. CASE q[i] = e /\ j \in DOMAIN w /\ q[j] = w[j]
    BY <1>1, <2>3 DEF Lacks
  <2> QED BY <1>4, <2>1, <2>2, <2>3
<1>6. Len(q) <= Len(cache) + 1 /\ (key # Fresh /\ Holds(key) => Len(q) <= Len(cache))
  BY <1>1, <1>2, <1>3
<1>7. \A i \in DOMAIN q : q[i] = e \/ \E j \in DOMAIN cache : q[i] = cache[j]
  BY <1>1, <1>4
<1>8. key # Fresh => \A i \in DOMAIN q : q[i].key = key => q[i] = e
  BY <1>1, <1>4 DEF Lacks
<1>9. Recent(q, key, 0)
  <2>1. Len(w) + 1 \in DOMAIN q /\ Len(q) - (Len(w) + 1) <= 0
    BY <1>2, <1>3
  <2> QED BY <1>2, <2>1 DEF Recent
<1>10. ASSUME NEW k, NEW n \in Nat, k # key, Recent(cache, k, n)
       PROVE  Recent(q, k, n + 1)
  <2>1. PICK i \in DOMAIN w : w[i].key = k /\ Len(w) - i <= n
    BY <1>1, <1>10 DEF Recent
  <2>2. i \in DOMAIN q /\ q[i] = w[i] /\ Len(q) - i <= n + 1
    BY <1>2, <1>3, <2>1
  <2> QED BY <2>1, <2>2 DEF Recent
<1> QED BY <1>2, <1>5, <1>6, <1>7, <1>8, <1>9, <1>10 DEF q, w

(* Putting out the least recently used entry. *)
LEMMA TailProps ==
  ASSUME NEW q \in Seq(Entries), Unique(q), Len(q) = Capacity + 1
  PROVE  /\ Tail(q) \in Seq(Entries) /\ Unique(Tail(q)) /\ Len(Tail(q)) = Capacity
         /\ \A i \in DOMAIN Tail(q) : \E j \in DOMAIN q : Tail(q)[i] = q[j]
         /\ \A k : \A n \in Nat : n < Capacity /\ Recent(q, k, n) => Recent(Tail(q), k, n)
<1> DEFINE r == Tail(q)
<1>1. Capacity \in Nat /\ Capacity > 0
  BY SendingAssumption
<1>2. r \in Seq(Entries) /\ Len(r) = Capacity /\ \A i \in 1..Capacity : r[i] = q[i + 1]
  <2>1. q # <<>>
    BY <1>1
  <2> QED BY <1>1, <2>1, HeadTailProperties
<1> HIDE DEF r
<1>3. DOMAIN r = 1..Capacity /\ DOMAIN q = 1..(Capacity + 1)
  BY <1>1, <1>2
<1>4. \A i \in DOMAIN r : i + 1 \in DOMAIN q /\ r[i] = q[i + 1]
  BY <1>1, <1>2, <1>3
<1>5. Unique(r)
  <2> SUFFICES ASSUME NEW i \in DOMAIN r, NEW j \in DOMAIN r, r[i].key = r[j].key
               PROVE  i = j \/ r[i].key = Fresh
    BY DEF Unique
  <2>1. i + 1 = j + 1 \/ q[i + 1].key = Fresh
    BY <1>4 DEF Unique
  <2> QED BY <1>3, <1>4, <2>1
<1>6. ASSUME NEW k, NEW n \in Nat, n < Capacity, Recent(q, k, n)
      PROVE  Recent(r, k, n)
  <2>1. PICK j \in DOMAIN q : q[j].key = k /\ Len(q) - j <= n
    BY <1>6 DEF Recent
  <2>2. j - 1 \in DOMAIN r /\ r[j - 1] = q[j] /\ Len(r) - (j - 1) <= n
    BY <1>1, <1>2, <1>3, <1>6, <2>1
  <2> QED BY <2>1, <2>2 DEF Recent
<1> QED BY <1>2, <1>4, <1>5, <1>6 DEF r

-----------------------------------------------------------------------------
(* What the cache remembers of the past: an acknowledged key is as far     *)
(* from the end as there were uses of the cache since, while it is fresh   *)
(* and was not taken out; its entry is as old as the acknowledgement; only *)
(* what was acknowledged has an entry.                                     *)
MemoOK ==
  /\ memo \in [Keys -> Memos \cup {None}]
  /\ \A k \in Keys : memo[k] = None => Lacks(cache, k)
  /\ \A k \in Keys :
       memo[k] # None =>
         /\ memo[k].others < Capacity /\ memo[k].age <= TTL /\ ~memo[k].taken
              => Recent(cache, k, memo[k].others)
         /\ \A i \in DOMAIN cache : cache[i].key = k => cache[i].age = memo[k].age
         /\ memo[k].taken => memo[k].again

(* What has an entry, or is about to get one, was delivered. *)
Backed ==
  /\ delivered \subseteq Keys
  /\ CachedWasDelivered
  /\ \A s \in Slots : run[s].pc = "answer" /\ run[s].op = "send_message"
                         => run[s].key \in delivered \cup {Fresh}

(* Who is about to remove an entry has seen one that was too old: what is  *)
(* fresh there by now was acknowledged a second time.                      *)
Stale(m) == m # None /\ (m.age > TTL \/ m.again)
Dropping == \A s \in Slots : run[s].pc = "drop" => run[s].key \in Keys /\ Stale(memo[run[s].key])

Remembers == CacheOK /\ MemoOK /\ Backed /\ Dropping

(* One use more keeps the memory typed. *)
LEMMA OneMoreTyped ==
  ASSUME NEW m \in Memos
  PROVE  [m EXCEPT !.others = OneMore(@)] \in Memos
<1>1. Capacity \in Nat
  BY SendingAssumption
<1>2. OneMore(m.others) \in 0..Capacity
  BY <1>1 DEF Memos, OneMore
<1> QED BY <1>2 DEF Memos

(* A use of key that leaves the cache with the entry e for it, and the     *)
(* memory of the other keys one use older.                                 *)
LEMMA UseKeepsMemo ==
  ASSUME CacheOK, MemoOK, NEW key \in Keys \cup {Fresh}, NEW e \in Entries, e.key = key,
         LET q == Append(Without(key), e)
         IN  \/ cache' = q /\ Len(q) <= Capacity
             \/ cache' = Tail(q) /\ Len(q) = Capacity + 1,
         \A k \in Keys \ {key} : memo'[k] = Aside(key)[k],
         memo' \in [Keys -> Memos \cup {None}],
         key \in Keys => /\ memo'[key] # None /\ memo'[key].age = e.age
                         /\ memo'[key].taken => memo'[key].again
  PROVE  CacheOK' /\ MemoOK'
<1> DEFINE q == Append(Without(key), e)
<1>1. /\ q \in Seq(Entries) /\ Unique(q)
      /\ \A i \in DOMAIN q : q[i] = e \/ \E j \in DOMAIN cache : q[i] = cache[j]
      /\ key # Fresh => \A i \in DOMAIN q : q[i].key = key => q[i] = e
      /\ Recent(q, key, 0)
      /\ \A k : \A n \in Nat : k # key /\ Recent(cache, k, n) => Recent(q, k, n + 1)
  BY UseProps
<1>2. Capacity \in Nat /\ Capacity > 0 /\ Fresh \notin Keys /\ None \notin Memos
  BY SendingAssumption
<1> HIDE DEF q
<1>3. /\ cache' \in Seq(Entries) /\ Unique(cache') /\ Len(cache') <= Capacity
      /\ \A i \in DOMAIN cache' : \E j \in DOMAIN q : cache'[i] = q[j]
      /\ \A k : \A n \in Nat : n < Capacity /\ Recent(q, k, n) => Recent(cache', k, n)
  <2>1. CASE cache' = q
    BY <1>1, <2>1 DEF q
  <2>2. CASE cache' # q
    <3>1. cache' = Tail(q) /\ Len(q) = Capacity + 1
      BY <2>2 DEF q
    <3>2. /\ Tail(q) \in Seq(Entries) /\ Unique(Tail(q)) /\ Len(Tail(q)) = Capacity
          /\ \A i \in DOMAIN Tail(q) : \E j \in DOMAIN q : Tail(q)[i] = q[j]
          /\ \A k : \A n \in Nat : n < Capacity /\ Recent(q, k, n) => Recent(Tail(q), k, n)
      BY <1>1, <3>1, TailProps
    <3> QED BY <1>2, <3>1, <3>2
  <2> QED BY <2>1, <2>2
<1>4. CacheOK'
  BY <1>3 DEF CacheOK, Unique
<1>5. ASSUME NEW k \in Keys, k # key, memo'[k] # None
      PROVE  /\ memo'[k].others < Capacity /\ memo'[k].age <= TTL /\ ~memo'[k].taken
                  => Recent(cache', k, memo'[k].others)
             /\ \A i \in DOMAIN cache' : cache'[i].key = k => cache'[i].age = memo'[k].age
             /\ memo'[k].taken => memo'[k].again
  <2>1. memo'[k] = Aside(key)[k]
    BY <1>5
  <2>2. memo[k] # None
    BY <1>5, <2>1 DEF Aside
  <2>3. memo[k] \in Memos
    BY <2>2 DEF MemoOK
  <2>4. memo'[k] = [memo[k] EXCEPT !.others = OneMore(@)]
    BY <1>5, <2>1, <2>2 DEF Aside
  <2>5. /\ memo'[k].age = memo[k].age /\ memo'[k].others = OneMore(memo[k].others)
        /\ memo'[k].taken = memo[k].taken /\ memo'[k].again = memo[k].again
    BY <2>3, <2>4 DEF Memos
  <2>6. memo[k].others \in Nat
    BY <1>2, <2>3 DEF Memos
  <2>7. ASSUME memo'[k].others < Capacity, memo'[k].age <= TTL, ~memo'[k].taken PROVE Recent(cache', k, memo'[k].others)
    <3>1. memo[k].others < Capacity /\ memo'[k].others = memo[k].others + 1
      BY <1>2, <2>5, <2>6, <2>7 DEF OneMore
    <3>2. Recent(cache, k, memo[k].others)
      BY <2>2, <2>5, <2>7, <3>1 DEF MemoOK
    <3>3. Recent(q, k, memo[k].others + 1)
      BY <1>1, <1>5, <2>6, <3>2
    <3>4. memo[k].others + 1 \in Nat /\ memo[k].others + 1 < Capacity
      BY <2>6, <2>7, <3>1
    <3> QED BY <1>3, <3>1, <3>3, <3>4
  <2>8. ASSUME NEW i \in DOMAIN cache', cache'[i].key = k PROVE cache'[i].age = memo'[k].age
    <3>1. PICK j \in DOMAIN cache : cache'[i] = cache[j]
      BY <1>1, <1>3, <1>5, <2>8
    <3> QED BY <2>2, <2>5, <2>8, <3>1 DEF MemoOK
  <2>9. memo'[k].taken => memo'[k].again
    BY <2>2, <2>5 DEF MemoOK
  <2> QED BY <2>7, <2>8, <2>9
<1>6. ASSUME key \in Keys, memo'[key] # None
      PROVE  /\ Recent(cache', key, memo'[key].others)
             /\ \A i \in DOMAIN cache' : cache'[i].key = key => cache'[i].age = memo'[key].age
             /\ memo'[key].taken => memo'[key].again
  <2>1. memo'[key].others \in Nat
    <3>1. memo'[key] \in Memos
      BY <1>6
    <3> QED BY <1>2, <3>1 DEF Memos
  <2>2. Recent(cache', key, 0)
    BY <1>1, <1>2, <1>3
  <2>3. Recent(cache', key, memo'[key].others)
    <3>1. PICK i \in DOMAIN cache' : cache'[i].key = key /\ Len(cache') - i <= 0
      BY <2>2 DEF Recent
    <3>2. Len(cache') - i <= memo'[key].others
      BY <1>3, <2>1, <3>1
    <3> QED BY <3>1, <3>2 DEF Recent
  <2>4. \A i \in DOMAIN cache' : cache'[i].key = key => cache'[i] = e
    BY <1>1, <1>2, <1>3, <1>6
  <2> QED BY <1>6, <2>3, <2>4
<1>7. ASSUME NEW k \in Keys, memo'[k] = None PROVE Lacks(cache', k)
  <2>1. k # key /\ memo[k] = None
    <3>1. k # key
      BY <1>7
    <3>2. memo'[k] = Aside(key)[k]
      BY <3>1
    <3>3. memo[k] # None => [memo[k] EXCEPT !.others = OneMore(@)] \in Memos
      BY <1>2, OneMoreTyped DEF MemoOK
    <3> QED BY <1>2, <1>7, <3>1, <3>2, <3>3 DEF Aside
  <2>2. Lacks(cache, k)
    BY <2>1 DEF MemoOK
  <2> QED BY <1>1, <1>3, <2>1, <2>2 DEF Lacks
<1>8. MemoOK'
  BY <1>5, <1>6, <1>7 DEF MemoOK
<1> QED BY <1>4, <1>8

(* Reading an entry, and the memory that goes with it. *)
LEMMA TouchKeepsMemo ==
  ASSUME CacheOK, MemoOK, NEW key \in Keys, Holds(key), cache' = Touched(key),
         memo' \in [Keys -> Memos \cup {None}],
         \A k \in Keys \ {key} : memo'[k] = Aside(key)[k],
         memo[key] # None => /\ memo'[key] # None /\ memo'[key].age = memo[key].age
                             /\ memo'[key].taken = memo[key].taken
                             /\ memo'[key].again = memo[key].again
  PROVE  /\ CacheOK' /\ MemoOK'
         /\ \A i \in DOMAIN cache' : \E j \in DOMAIN cache : cache'[i] = cache[j]
<1> DEFINE e == Entry(key)
           q == Append(Without(key), e)
<1>1. key # Fresh
  BY SendingAssumption
<1>2. Place(key) \in DOMAIN cache /\ cache[Place(key)].key = key
  BY DEF Place, Holds
<1>3. e \in Entries /\ e.key = key /\ \E j \in DOMAIN cache : e = cache[j]
  BY <1>2 DEF Entry, CacheOK
<1>4. memo'[key] # None /\ memo'[key].age = e.age /\ (memo'[key].taken => memo'[key].again)
  <2>1. memo[key] # None
    BY <1>2 DEF MemoOK, Lacks
  <2>2. e.age = memo[key].age /\ (memo[key].taken => memo[key].again)
    BY <1>2, <2>1 DEF MemoOK, Entry
  <2> QED BY <2>1, <2>2
<1>5. cache' = q
  BY DEF Touched
<1> HIDE DEF e
<1>6. /\ q \in Seq(Entries) /\ Len(q) <= Len(cache)
      /\ \A i \in DOMAIN q : q[i] = e \/ \E j \in DOMAIN cache : q[i] = cache[j]
  BY <1>1, <1>3, UseProps
<1>7. Len(q) <= Capacity
  BY <1>6, SendingAssumption DEF CacheOK
<1> HIDE DEF q
<1>8. cache' = Append(Without(key), e) /\ Len(Append(Without(key), e)) <= Capacity
  BY <1>5, <1>7 DEF q
<1>9. CacheOK' /\ MemoOK'
  BY <1>3, <1>4, <1>8, UseKeepsMemo
<1> QED BY <1>3, <1>5, <1>6, <1>9

(* Aside leaves the memory typed, and what is stale stale. *)
LEMMA AsideTyped ==
  ASSUME MemoOK, NEW key \in Keys \cup {Fresh}
  PROVE  /\ Aside(key) \in [Keys -> Memos \cup {None}]
         /\ key \in Keys => Aside(key)[key] = memo[key]
         /\ \A k \in Keys : Stale(memo[k]) => Stale(Aside(key)[k])
<1>1. \A k \in Keys : memo[k] # None => /\ memo[k] \in Memos
                                        /\ [memo[k] EXCEPT !.others = OneMore(@)] \in Memos
  BY OneMoreTyped DEF MemoOK
<1>2. ASSUME NEW k \in Keys, Stale(memo[k])
      PROVE  Stale(Aside(key)[k])
  <2> DEFINE m == [memo[k] EXCEPT !.others = OneMore(@)]
  <2>1. memo[k] \in Memos /\ m \in Memos
    BY <1>1, <1>2 DEF Stale
  <2>2. m # None /\ m.age = memo[k].age /\ m.again = memo[k].again
    BY <2>1, SendingAssumption DEF Memos
  <2>3. Aside(key)[k] = memo[k] \/ Aside(key)[k] = m
    BY DEF Aside
  <2> HIDE DEF m
  <2> QED BY <1>2, <2>2, <2>3 DEF Stale
<1> QED BY <1>1, <1>2 DEF Aside, MemoOK

(* Adding an entry. *)
LEMMA AddKeepsMemo ==
  ASSUME CacheOK, MemoOK, NEW key \in Keys \cup {Fresh}, cache' = Added(key),
         memo' = [k \in Keys |-> IF k = key THEN Acked(k) ELSE Aside(key)[k]]
  PROVE  /\ CacheOK' /\ MemoOK'
         /\ \A i \in DOMAIN cache' : cache'[i].key = key
                                     \/ \E j \in DOMAIN cache : cache'[i] = cache[j]
<1> DEFINE e == [key |-> key, age |-> 0]
           q == Append(Without(key), e)
<1>1. Capacity \in Nat /\ Capacity > 0 /\ TTL \in Nat
  BY SendingAssumption
<1>2. e \in Entries /\ e.key = key /\ e.age = 0
  BY <1>1 DEF Entries, Ages
<1>3. Acked(key) \in Memos /\ Acked(key).age = 0 /\ Acked(key).taken = FALSE
  BY <1>1 DEF Acked, Memos, Ages
<1>4. /\ memo' \in [Keys -> Memos \cup {None}]
      /\ key \in Keys => memo'[key] = Acked(key)
      /\ \A k \in Keys \ {key} : memo'[k] = Aside(key)[k]
  BY <1>3, AsideTyped
<1>n. None \notin Memos
  BY SendingAssumption
<1>5. cache' = IF Len(q) > Capacity THEN Tail(q) ELSE q
  BY DEF Added
<1> HIDE DEF e
<1>6. /\ q \in Seq(Entries) /\ Len(q) <= Len(cache) + 1 /\ Unique(q)
      /\ \A i \in DOMAIN q : q[i] = e \/ \E j \in DOMAIN cache : q[i] = cache[j]
  BY <1>2, UseProps
<1>7. Len(q) > Capacity => Len(q) = Capacity + 1
  BY <1>1, <1>6 DEF CacheOK
<1>8. \/ cache' = q /\ Len(q) <= Capacity
      \/ cache' = Tail(q) /\ Len(q) = Capacity + 1
  BY <1>1, <1>5, <1>6, <1>7
<1>9. CacheOK' /\ MemoOK'
  <2>1. key \in Keys => /\ memo'[key] # None /\ memo'[key].age = e.age
                        /\ memo'[key].taken => memo'[key].again
    BY <1>2, <1>3, <1>4, <1>n
  <2> QED BY <1>2, <1>4, <1>8, <2>1, UseKeepsMemo
<1> HIDE DEF q
<1>10. \A i \in DOMAIN cache' : \E j \in DOMAIN q : cache'[i] = q[j]
  <2>1. Len(q) = Capacity + 1 =>
          \A i \in DOMAIN Tail(q) : \E j \in DOMAIN q : Tail(q)[i] = q[j]
    BY <1>6, TailProps
  <2> QED BY <1>8, <2>1
<1>11. \A i \in DOMAIN cache' : cache'[i].key = key
                                \/ \E j \in DOMAIN cache : cache'[i] = cache[j]
  BY <1>2, <1>6, <1>10
<1> QED BY <1>9, <1>11

(* Removing an entry: if it is fresh, it was acknowledged a second time.   *)
LEMMA DropKeepsMemo ==
  ASSUME CacheOK, MemoOK, NEW key \in Keys, Stale(memo[key]), cache' = Without(key),
         memo' = IF IsFresh(key) THEN [memo EXCEPT ![key].taken = TRUE] ELSE memo
  PROVE  /\ CacheOK' /\ MemoOK'
         /\ \A i \in DOMAIN cache' : \E j \in DOMAIN cache : cache'[i] = cache[j]
         /\ \A k \in Keys : Stale(memo[k]) => Stale(memo'[k])
<1>1. /\ cache' \in Seq(Entries) /\ Unique(cache') /\ Len(cache') <= Len(cache)
      /\ \A i \in DOMAIN cache' : \E j \in DOMAIN cache : cache'[i] = cache[j]
      /\ \A k : \A n \in Nat : k # key /\ Recent(cache, k, n) => Recent(cache', k, n)
      /\ Lacks(cache', key)
  BY WithoutProps, SendingAssumption
<1>2. CacheOK'
  BY <1>1, SendingAssumption DEF CacheOK, Unique
<1>3. memo[key] # None /\ memo[key] \in Memos
  BY DEF Stale, MemoOK
<1>4. \A k \in Keys \ {key} : memo'[k] = memo[k]
  BY DEF MemoOK
<1>5. IsFresh(key) => memo[key].age <= TTL
  <2> SUFFICES ASSUME IsFresh(key) PROVE memo[key].age <= TTL
    OBVIOUS
  <2>1. Place(key) \in DOMAIN cache /\ cache[Place(key)].key = key
    BY DEF IsFresh, Holds, Place
  <2>2. Entry(key).age = memo[key].age
    BY <1>3, <2>1 DEF MemoOK, Entry
  <2> QED BY <2>2 DEF IsFresh
<1>6. ~IsFresh(key) /\ memo[key].others < Capacity /\ memo[key].age <= TTL => memo[key].taken
  <2> SUFFICES ASSUME ~IsFresh(key), memo[key].others < Capacity, memo[key].age <= TTL,
                      ~memo[key].taken
               PROVE  FALSE
    BY <1>3 DEF Memos
  <2>1. Holds(key)
    BY <1>3 DEF MemoOK, Recent, Holds
  <2>2. Place(key) \in DOMAIN cache /\ cache[Place(key)].key = key
    BY <2>1 DEF Holds, Place
  <2>3. Entry(key).age = memo[key].age
    BY <1>3, <2>2 DEF MemoOK, Entry
  <2> QED BY <2>1, <2>3, SendingAssumption DEF IsFresh
<1>7. /\ memo'[key] \in Memos /\ memo'[key].age = memo[key].age
      /\ memo'[key].others = memo[key].others /\ memo'[key].again = memo[key].again
      /\ memo'[key].taken = (memo[key].taken \/ IsFresh(key))
  <2>1. CASE IsFresh(key)
    <3>1. memo'[key] = [memo[key] EXCEPT !.taken = TRUE]
      BY <2>1 DEF MemoOK
    <3> QED BY <1>3, <2>1, <3>1 DEF Memos
  <2>2. CASE ~IsFresh(key)
    BY <1>3, <2>2 DEF Memos
  <2> QED BY <2>1, <2>2
<1>8. memo' \in [Keys -> Memos \cup {None}]
  <2>1. memo' = [k \in Keys |-> memo'[k]]
    BY DEF MemoOK
  <2>2. \A k \in Keys : memo'[k] \in Memos \cup {None}
    BY <1>4, <1>7 DEF MemoOK
  <2> QED BY <2>1, <2>2
<1>9. TTL \in Nat /\ memo[key].age \in Nat /\ memo[key].again \in BOOLEAN
  BY <1>3, SendingAssumption DEF Memos, Ages
<1>10. memo[key].age <= TTL => memo[key].again
  BY <1>9 DEF Stale
<1>11. MemoOK'
  <2>1. ASSUME NEW k \in Keys, k # key, memo'[k] = None PROVE Lacks(cache', k)
    BY <1>1, <1>4, <2>1 DEF MemoOK, Lacks
  <2>2. ASSUME NEW k \in Keys, k # key, memo'[k] # None
        PROVE  /\ memo'[k].others < Capacity /\ memo'[k].age <= TTL /\ ~memo'[k].taken
                    => Recent(cache', k, memo'[k].others)
               /\ \A i \in DOMAIN cache' : cache'[i].key = k => cache'[i].age = memo'[k].age
               /\ memo'[k].taken => memo'[k].again
    <3>1. memo'[k] = memo[k] /\ memo[k].others \in Nat
      BY <1>4, <2>2, SendingAssumption DEF MemoOK, Memos
    <3> QED BY <1>1, <2>2, <3>1 DEF MemoOK
  <2>3. ~(memo'[key].others < Capacity /\ memo'[key].age <= TTL /\ ~memo'[key].taken)
    BY <1>6, <1>7
  <2>4. memo'[key].taken => memo'[key].again
    BY <1>3, <1>5, <1>7, <1>10 DEF MemoOK
  <2> QED BY <1>1, <1>8, <2>1, <2>2, <2>3, <2>4 DEF MemoOK, Lacks
<1>12. \A k \in Keys : Stale(memo[k]) => Stale(memo'[k])
  BY <1>4, <1>7, SendingAssumption DEF Stale
<1> QED BY <1>1, <1>2, <1>11, <1>12

(* What a step leaves alone when it touches neither the cache nor what has *)
(* been delivered.                                                         *)
LEMMA EndsKeepsBacked ==
  ASSUME Told, NEW s \in Slots, NEW out, NEW done, Ends(s, out, done)
  PROVE  \A g \in Slots : run'[g].pc \in {"answer", "drop"} => run'[g] = run[g]
BY DEF Ends, Told, RunsOK, Free

(* Every step of a goroutine keeps what the cache remembers. *)
LEMMA GoroutineKeepsCache ==
  ASSUME Told, Remembers, NEW s \in Slots, Goroutine(s)
  PROVE  Remembers'
<1> DEFINE key == run[s].key
<1>1. CacheOK /\ MemoOK /\ Backed /\ Dropping
  BY DEF Remembers
<1>2. run[s].pc # "free" /\ run[s].op = "send_message" => key \in Keys \cup {Fresh}
  BY DEF Told, RunKnows
<1>3. ASSUME UNCHANGED <<cache, memo>> PROVE CacheOK' /\ MemoOK'
  BY <1>1, <1>3 DEF CacheOK, MemoOK, Recent, Lacks
<1>4. ASSUME \A g \in Slots : run'[g].pc = "answer" => run'[g] = run[g],
             delivered \subseteq delivered', delivered' \subseteq Keys,
             \A i \in DOMAIN cache' : cache'[i].key \in delivered' \cup {Fresh}
                                       \/ \E j \in DOMAIN cache : cache'[i] = cache[j]
      PROVE  Backed'
  BY <1>1, <1>4 DEF Backed, CachedWasDelivered
<1>5. Took(s) => delivered \subseteq delivered' /\ delivered' \subseteq Keys
  BY <1>1 DEF Took, Backed
<1>6. delivered \subseteq Keys
  BY <1>1 DEF Backed
<1>7. ASSUME \A g \in Slots : run'[g].pc = "drop" => run'[g] = run[g],
             \A k \in Keys : Stale(memo[k]) => Stale(memo'[k])
      PROVE  Dropping'
  BY <1>1, <1>7 DEF Dropping, Stale
<1>8. ASSUME Goes(s, "act")
      PROVE  \A g \in Slots : run'[g].pc \in {"answer", "drop"} => run'[g] = run[g]
  BY <1>8 DEF Goes, Told, RunsOK
<1>9. IsFresh(key) => Holds(key) /\ key # Fresh
  BY DEF IsFresh
<1>10. CASE Refuse(s) \/ Denied(s)
  <2>1. UNCHANGED <<cache, delivered, memo>> /\ \E out, done : Ends(s, out, done)
    BY <1>10 DEF Refuse, Denied
  <2>2. \A g \in Slots : run'[g].pc \in {"answer", "drop"} => run'[g] = run[g]
    BY <2>1, EndsKeepsBacked
  <2> QED BY <1>3, <1>4, <1>6, <1>7, <2>1, <2>2 DEF Remembers
<1>11. CASE Fails(s) \/ Panics(s)
  <2>1. UNCHANGED <<cache, memo>> /\ (UNCHANGED delivered \/ Took(s)) /\ \E out, done : Ends(s, out, done)
    BY <1>11 DEF Fails, Panics, Lost
  <2>2. \A g \in Slots : run'[g].pc \in {"answer", "drop"} => run'[g] = run[g]
    BY <2>1, EndsKeepsBacked
  <2>3. delivered \subseteq delivered' /\ delivered' \subseteq Keys
    BY <1>5, <1>6, <2>1
  <2> QED BY <1>3, <1>4, <1>7, <2>1, <2>2, <2>3 DEF Remembers
<1>12. CASE Miss(s)
  BY <1>3, <1>4, <1>6, <1>7, <1>8, <1>12 DEF Miss, Remembers
<1>13. CASE Act(s)
  <2>1. Took(s) /\ UNCHANGED <<cache, memo>> /\ run[s].pc = "act"
        /\ run' = [run EXCEPT ![s].pc = "answer", ![s].done = TRUE]
    BY <1>13 DEF Act, At
  <2>2. \A g \in Slots : run'[g].pc = "answer" /\ run'[g].op = "send_message"
                            => run'[g].key \in delivered' \cup {Fresh}
    <3>1. run[s].op = "send_message" => key \in delivered' \cup {Fresh}
      BY <1>2, <2>1 DEF Took
    <3>2. \A g \in Slots \ {s} : run'[g] = run[g]
      BY <2>1 DEF Told, RunsOK
    <3>3. run'[s].op = run[s].op /\ run'[s].key = run[s].key
      BY <2>1 DEF Told, RunsOK
    <3> QED BY <1>1, <1>5, <2>1, <3>1, <3>2, <3>3 DEF Backed
  <2>3. Backed'
    BY <1>1, <1>5, <2>1, <2>2 DEF Backed, CachedWasDelivered
  <2>4. \A g \in Slots : run'[g].pc = "drop" => run'[g] = run[g]
    BY <2>1 DEF Told, RunsOK
  <2> QED BY <1>3, <1>7, <2>1, <2>3, <2>4 DEF Remembers
<1>14. CASE Hit(s)
  <2>1. key \in Keys /\ Holds(key)
    BY <1>2, <1>9, <1>14 DEF Hit, At, Told, RunKnows
  <2>2. /\ cache' = Touched(key) /\ UNCHANGED delivered /\ Ends(s, "deduped", FALSE)
        /\ memo' = [Aside(key) EXCEPT ![key] = IF @ = None THEN None ELSE [@ EXCEPT !.others = 0]]
    BY <1>14 DEF Hit
  <2>3. /\ Aside(key) \in [Keys -> Memos \cup {None}] /\ Aside(key)[key] = memo[key]
        /\ \A k \in Keys : Stale(memo[k]) => Stale(Aside(key)[k])
    BY <1>1, <2>1, AsideTyped
  <2>4. memo[key] # None =>
          /\ [memo[key] EXCEPT !.others = 0] \in Memos
          /\ [memo[key] EXCEPT !.others = 0].age = memo[key].age
          /\ [memo[key] EXCEPT !.others = 0].taken = memo[key].taken
          /\ [memo[key] EXCEPT !.others = 0].again = memo[key].again
    BY <1>1, <2>1, SendingAssumption DEF MemoOK, Memos
  <2> HIDE DEF key
  <2>5. /\ memo' \in [Keys -> Memos \cup {None}]
        /\ \A k \in Keys \ {key} : memo'[k] = Aside(key)[k]
        /\ memo[key] # None => memo'[key] = [memo[key] EXCEPT !.others = 0]
    BY <2>1, <2>2, <2>3, <2>4
  <2>6. memo[key] # None => /\ memo'[key] # None /\ memo'[key].age = memo[key].age
                            /\ memo'[key].taken = memo[key].taken
                            /\ memo'[key].again = memo[key].again
    BY <2>4, <2>5, SendingAssumption
  <2>7. /\ CacheOK' /\ MemoOK'
        /\ \A i \in DOMAIN cache' : \E j \in DOMAIN cache : cache'[i] = cache[j]
    BY <1>1, <2>1, <2>2, <2>5, <2>6, TouchKeepsMemo
  <2>8. \A g \in Slots : run'[g].pc \in {"answer", "drop"} => run'[g] = run[g]
    BY <2>2, EndsKeepsBacked
  <2>9. Backed'
    BY <1>4, <1>6, <2>2, <2>7, <2>8
  <2>10. \A k \in Keys : Stale(memo[k]) => Stale(memo'[k])
    BY <2>3, <2>5, <2>6 DEF Stale
  <2>11. Dropping'
    BY <1>7, <2>8, <2>10
  <2> QED BY <2>7, <2>9, <2>11 DEF Remembers
<1>15. CASE Expired(s)
  <2>1. key \in Keys /\ Holds(key) /\ ~IsFresh(key)
    BY <1>2, <1>15 DEF Expired, At, Told, RunKnows
  <2>2. cache' = Touched(key) /\ UNCHANGED delivered /\ Goes(s, "drop") /\ memo' = Aside(key)
    BY <1>15 DEF Expired
  <2>3. /\ Aside(key) \in [Keys -> Memos \cup {None}] /\ Aside(key)[key] = memo[key]
        /\ \A k \in Keys : Stale(memo[k]) => Stale(Aside(key)[k])
    BY <1>1, <2>1, AsideTyped
  <2>4. Place(key) \in DOMAIN cache /\ cache[Place(key)].key = key
    BY <2>1 DEF Holds, Place
  <2>5. Stale(memo[key])
    <3>1. memo[key] # None
      BY <1>1, <2>1, <2>4 DEF MemoOK, Lacks
    <3>2. Entry(key).age = memo[key].age /\ memo[key] \in Memos
      BY <1>1, <2>1, <2>4, <3>1 DEF MemoOK, Entry
    <3>3. ~(memo[key].age <= TTL)
      BY <2>1, <3>2, SendingAssumption DEF IsFresh
    <3> QED BY <3>1, <3>2, <3>3, SendingAssumption DEF Stale, Memos, Ages
  <2>6. /\ \A g \in Slots \ {s} : run'[g] = run[g]
        /\ run'[s].pc = "drop" /\ run'[s].key = key
    BY <2>2 DEF Goes, Told, RunsOK
  <2> HIDE DEF key
  <2>7. /\ CacheOK' /\ MemoOK'
        /\ \A i \in DOMAIN cache' : \E j \in DOMAIN cache : cache'[i] = cache[j]
    BY <1>1, <2>1, <2>2, <2>3, TouchKeepsMemo
  <2>8. \A g \in Slots : run'[g].pc = "answer" => run'[g] = run[g]
    BY <2>6
  <2>9. Backed'
    BY <1>4, <1>6, <2>2, <2>7, <2>8
  <2>10. Dropping'
    <3>1. \A k \in Keys : Stale(memo[k]) => Stale(memo'[k])
      BY <2>2, <2>3
    <3> QED BY <1>1, <2>1, <2>5, <2>6, <3>1 DEF Dropping, Stale
  <2> QED BY <2>7, <2>9, <2>10 DEF Remembers
<1>16. CASE Drop(s)
  <2>1. key \in Keys /\ Stale(memo[key])
    BY <1>1, <1>16 DEF Drop, At, Dropping
  <2>2. /\ cache' = Without(key) /\ UNCHANGED delivered /\ Goes(s, "act")
        /\ memo' = IF IsFresh(key) THEN [memo EXCEPT ![key].taken = TRUE] ELSE memo
    BY <1>16 DEF Drop
  <2> HIDE DEF key
  <2>3. /\ CacheOK' /\ MemoOK'
        /\ \A i \in DOMAIN cache' : \E j \in DOMAIN cache : cache'[i] = cache[j]
        /\ \A k \in Keys : Stale(memo[k]) => Stale(memo'[k])
    BY <1>1, <2>1, <2>2, DropKeepsMemo
  <2>4. Backed'
    BY <1>4, <1>6, <1>8, <2>2, <2>3
  <2>5. Dropping'
    BY <1>7, <1>8, <2>2, <2>3
  <2> QED BY <2>3, <2>4, <2>5 DEF Remembers
<1>17. CASE Answer(s)
  <2>1. Ends(s, "ok", TRUE) /\ UNCHANGED delivered /\ run[s].pc = "answer"
    BY <1>17 DEF Answer, At
  <2>2. \A g \in Slots : run'[g].pc \in {"answer", "drop"} => run'[g] = run[g]
    BY <2>1, EndsKeepsBacked
  <2>3. CASE run[s].op = "send_message"
    <3>1. key \in Keys \cup {Fresh} /\ key \in delivered \cup {Fresh}
      BY <1>1, <1>2, <2>1, <2>3 DEF Backed
    <3>2. /\ cache' = Added(key)
          /\ memo' = [k \in Keys |-> IF k = key THEN Acked(k) ELSE Aside(key)[k]]
      BY <1>17, <2>3 DEF Answer
    <3> HIDE DEF key
    <3>3. /\ CacheOK' /\ MemoOK'
          /\ \A i \in DOMAIN cache' : cache'[i].key = key
                                      \/ \E j \in DOMAIN cache : cache'[i] = cache[j]
      BY <1>1, <3>1, <3>2, AddKeepsMemo
    <3>4. Backed'
      BY <1>4, <1>6, <2>1, <2>2, <3>1, <3>3
    <3>5. ASSUME NEW k \in Keys, Stale(memo[k]) PROVE Stale(memo'[k])
      <4>1. CASE k = key
        <5>1. memo'[k] = Acked(k)
          BY <3>2, <4>1
        <5>2. Acked(k).again
          BY <3>5 DEF Acked, Stale
        <5>3. Acked(k) \in Memos
          BY SendingAssumption DEF Acked, Memos, Ages
        <5>4. Acked(k) # None
          BY <5>3, SendingAssumption
        <5> QED BY <5>1, <5>2, <5>4 DEF Stale
      <4>2. CASE k # key
        <5>1. memo'[k] = Aside(key)[k]
          BY <3>2, <4>2
        <5> QED BY <1>1, <3>1, <3>5, <5>1, AsideTyped
      <4> QED BY <4>1, <4>2
    <3>6. Dropping'
      BY <1>7, <2>2, <3>5
    <3> QED BY <3>3, <3>4, <3>6 DEF Remembers
  <2>4. CASE run[s].op # "send_message"
    <3>1. UNCHANGED <<cache, memo>>
      BY <1>17, <2>4 DEF Answer
    <3> QED BY <1>3, <1>4, <1>6, <1>7, <2>1, <2>2, <3>1 DEF Remembers
  <2> QED BY <2>3, <2>4
<1> QED BY <1>10, <1>11, <1>12, <1>13, <1>14, <1>15, <1>16, <1>17 DEF Goroutine

(* Time makes the entries and the memory of them older alike. *)
LEMMA TickKeepsCache ==
  ASSUME Told, Remembers, Tick
  PROVE  Remembers'
<1>1. CacheOK /\ MemoOK /\ Backed /\ Dropping
  BY DEF Remembers
<1>2. TTL \in Nat /\ Fresh \notin Keys /\ None \notin Memos
  BY SendingAssumption
<1>3. \A a \in Ages : Older(a) \in Ages
  BY <1>2 DEF Ages, Older
<1>4. cache \in Seq(Entries) /\ DOMAIN cache = 1..Len(cache) /\ Len(cache) \in Nat
  BY <1>1 DEF CacheOK
<1>5. \A i \in 1..Len(cache) : cache[i] \in Entries
  BY <1>4
<1>6. ASSUME NEW i \in DOMAIN cache
      PROVE  /\ cache'[i] \in Entries /\ cache'[i].key = cache[i].key
             /\ cache[i].key # Fresh => cache'[i].age = Older(cache[i].age)
  BY <1>3, <1>4, <1>5 DEF Tick, Entries
<1>7. cache' \in Seq(Entries) /\ DOMAIN cache' = DOMAIN cache /\ Len(cache') = Len(cache)
  <2>1. cache' = [i \in 1..Len(cache) |-> cache'[i]]
    BY <1>4 DEF Tick
  <2>2. \A i \in 1..Len(cache) : cache'[i] \in Entries
    BY <1>4, <1>6
  <2> HIDE DEF Tick
  <2>3. [i \in 1..Len(cache) |-> cache'[i]] \in Seq(Entries)
    BY <1>4, <2>2
  <2> QED BY <1>4, <2>1, <2>3
<1>8. CacheOK'
  BY <1>1, <1>6, <1>7 DEF CacheOK
<1>9. ASSUME NEW k \in Keys
      PROVE  /\ memo'[k] \in Memos \cup {None}
             /\ memo'[k] # None =>
                  /\ memo[k] # None /\ memo'[k].others = memo[k].others
                  /\ memo'[k].age = Older(memo[k].age)
                  /\ memo'[k].again = memo[k].again /\ memo'[k].taken = memo[k].taken
             /\ memo[k] # None => memo'[k] # None /\ memo[k].age \in Ages
  <2>1. CASE memo[k] = None
    BY <2>1 DEF Tick
  <2>2. CASE memo[k] # None
    <3>1. memo[k] \in Memos /\ memo'[k] = [memo[k] EXCEPT !.age = Older(@)]
      BY <1>1, <2>2 DEF Tick, MemoOK
    <3>2. memo'[k] \in Memos
      BY <1>3, <3>1 DEF Memos
    <3> QED BY <1>2, <2>2, <3>1, <3>2 DEF Memos
  <2> QED BY <2>1, <2>2
<1>10. MemoOK'
  <2>1. memo' \in [Keys -> Memos \cup {None}]
    <3>1. memo' = [k \in Keys |-> memo'[k]]
      BY DEF Tick
    <3> QED BY <1>9, <3>1
  <2>2. ASSUME NEW k \in Keys, memo'[k] # None, memo'[k].others < Capacity,
               memo'[k].age <= TTL, ~memo'[k].taken
        PROVE  Recent(cache', k, memo'[k].others)
    <3>1. memo[k].age <= TTL
      BY <1>2, <1>9, <2>2 DEF Older, Ages
    <3>2. Recent(cache, k, memo[k].others)
      BY <1>1, <1>9, <2>2, <3>1 DEF MemoOK
    <3> QED BY <1>6, <1>7, <1>9, <2>2, <3>2 DEF Recent
  <2>3. ASSUME NEW k \in Keys, memo'[k] # None, NEW i \in DOMAIN cache', cache'[i].key = k
        PROVE  cache'[i].age = memo'[k].age
    BY <1>1, <1>2, <1>6, <1>7, <1>9, <2>3 DEF MemoOK
  <2>4. ASSUME NEW k \in Keys, memo'[k] = None
        PROVE  Lacks(cache', k)
    <3>1. Lacks(cache, k)
      BY <1>1, <1>9, <2>4 DEF MemoOK
    <3> QED BY <1>6, <1>7, <3>1 DEF Lacks
  <2>5. \A k \in Keys : memo'[k] # None => (memo'[k].taken => memo'[k].again)
    BY <1>1, <1>9 DEF MemoOK
  <2> QED BY <2>1, <2>2, <2>3, <2>4, <2>5 DEF MemoOK
<1>11. Backed'
  BY <1>1, <1>6, <1>7 DEF Tick, Backed, CachedWasDelivered
<1>12. Dropping'
  <2>1. ASSUME NEW k \in Keys, Stale(memo[k]) PROVE Stale(memo'[k])
    <3>1. /\ memo'[k] # None /\ memo[k].age \in Ages
          /\ memo'[k].age = Older(memo[k].age) /\ memo'[k].again = memo[k].again
      BY <1>9, <2>1 DEF Stale
    <3> QED BY <1>2, <2>1, <3>1 DEF Stale, Older, Ages
  <2>2. \A g \in Slots : run'[g].pc = "drop" => run'[g] = run[g]
    BY DEF Tick
  <2>3. \A k \in Keys : Stale(memo[k]) => Stale(memo'[k])
    BY <2>1
  <2> QED BY <1>1, <2>2, <2>3 DEF Dropping, Stale
<1> QED BY <1>8, <1>10, <1>11, <1>12 DEF Remembers

(* A sidecar that dies takes the cache and the goroutines with it; every   *)
(* call ends with an exception that promises nothing.                      *)
LEMMA CrashKeeps ==
  ASSUME Told, Owned, Remembers, Crash
  PROVE  Told' /\ Owned' /\ Remembers'
<1>1. \A op : Translate(op, Status("UNAVAILABLE", {})) = "SidecarCrashedError"
  BY DEF Translate, Status
<1>2. "SidecarCrashedError" \in Results \ Refusing
  BY DEF Results, FastMeowErrors, SidecarErrors, Refusing, Rejected
<1>3. CallsOK' /\ OutcomesAreTrue' /\ \A t \in Tasks : ~call'[t].waiting
  <2>1. ASSUME NEW t \in Tasks
        PROVE  \/ ~call[t].waiting /\ call'[t] = call[t]
               \/ call'[t] \in [waiting : {FALSE}, op : MethodOps \cup {None},
                                key : Keys \cup {Fresh, None},
                                out : {"SidecarCrashedError"}, done : BOOLEAN]
    BY <1>1 DEF Crash, Told, CallsOK
  <2>2. call' = [t \in Tasks |-> call'[t]]
    BY DEF Crash
  <2>3. \A t \in Tasks : call'[t] \in [waiting : BOOLEAN, op : MethodOps \cup {None},
                                       key : Keys \cup {Fresh, None}, out : Results \cup {None}, done : BOOLEAN]
    BY <1>2, <2>1 DEF Told, CallsOK
  <2>4. CallsOK'
    BY <2>2, <2>3 DEF CallsOK
  <2>5. OutcomesAreTrue'
    <3>1. delivered' = delivered
      BY DEF Crash
    <3>2. \A t \in Tasks : call'[t] = call[t] \/ call'[t].out = "SidecarCrashedError"
      BY <2>1
    <3> QED BY <1>2, <3>1, <3>2 DEF Told, OutcomesAreTrue, Doubtful
  <2> QED BY <2>1, <2>4, <2>5
<1>4. /\ \A s \in Slots : run'[s] = Free
      /\ Free.pc = "free" /\ Free.owner = None /\ Free.done = FALSE
  BY DEF Crash, Free
<1>5. RunsOK' /\ RunKnows'
  BY <1>4 DEF Crash, RunsOK, RunKnows, Free
<1>6. Owned'
  BY <1>3, <1>4, SendingAssumption DEF Owned
<1>7. CacheOK' /\ MemoOK'
  <2>1. cache' = <<>> /\ memo' = [k \in Keys |-> None]
    BY DEF Crash
  <2>2. CacheOK'
    BY <2>1, SendingAssumption DEF CacheOK
  <2> QED BY <2>1, <2>2 DEF MemoOK, Lacks
<1>8. Backed' /\ Dropping'
  BY <1>4 DEF Crash, Remembers, Backed, CachedWasDelivered, Dropping
<1> QED BY <1>3, <1>5, <1>6, <1>7, <1>8 DEF Told, Remembers

LEMMA RestartKeeps ==
  ASSUME Told, Owned, Remembers, Restart
  PROVE  Told' /\ Owned' /\ Remembers'
<1>1. /\ call' = [t \in Tasks |-> Idle] /\ UNCHANGED <<run, cache, delivered, memo>>
      /\ Idle.waiting = FALSE /\ Idle.out = None
  BY DEF Restart, Idle
<1>2. CallsOK'
  BY <1>1 DEF CallsOK, Idle
<1>3. OutcomesAreTrue'
  BY <1>1, NoneIsNoResult DEF OutcomesAreTrue
<1>4. RunsOK' /\ RunKnows' /\ Remembers'
  BY <1>1 DEF Told, RunsOK, RunKnows, Remembers, CacheOK, MemoOK, Lacks, Recent, Backed,
              CachedWasDelivered, Dropping, Stale
<1>5. Owned'
  <2>1. \A s \in Slots : run[s].owner = None
    BY DEF Restart, Owned, Told, RunKnows
  <2> QED BY <1>1, <2>1, SendingAssumption DEF Restart, Owned
<1> QED BY <1>2, <1>3, <1>4, <1>5 DEF Told

-----------------------------------------------------------------------------
(* The inductive invariant.                                                *)
IInv == up \in BOOLEAN /\ Told /\ Owned /\ Remembers

LEMMA InitIInv == Init => IInv
<1> SUFFICES ASSUME Init PROVE IInv
  OBVIOUS
<1>1. Owned
  BY SendingAssumption DEF Init, Owned, Idle, Free
<1>2. CacheOK
  BY SendingAssumption DEF Init, CacheOK
<1>3. MemoOK
  BY DEF Init, MemoOK, Lacks
<1>4. Backed /\ Dropping
  BY DEF Init, Backed, CachedWasDelivered, Dropping, Free
<1> QED BY <1>1, <1>2, <1>3, <1>4, InitTold DEF IInv, Remembers, Init

LEMMA NextIInv == IInv /\ [Next]_vars => IInv'
<1> SUFFICES ASSUME IInv, [Next]_vars PROVE IInv'
  OBVIOUS
<1>1. Told /\ Owned /\ Remembers /\ up \in BOOLEAN
  BY DEF IInv
<1>2. ASSUME UNCHANGED <<cache, delivered, memo>>,
             \A g \in Slots : run'[g].pc \in {"answer", "drop"} =>
                run[g].pc = run'[g].pc /\ run'[g].op = run[g].op /\ run'[g].key = run[g].key
      PROVE  Remembers'
  BY <1>1, <1>2 DEF Remembers, CacheOK, MemoOK, Lacks, Recent, Backed, CachedWasDelivered,
                    Dropping, Stale
<1>3. ASSUME NEW t \in Tasks, NEW m \in Methods, NEW isMessage \in BOOLEAN,
             NEW key \in KeysOf(m), Call(t, m, isMessage, key)
      PROVE  IInv'
  <2>1. Told' /\ Owned'
    BY <1>1, <1>3, CallKeepsTold, CallKeepsOwned
  <2>2. UNCHANGED <<up, cache, delivered, memo>>
    BY <1>3 DEF Call
  <2>3. UNCHANGED run \/ \E g \in Slots : \E r : r.pc \notin {"answer", "drop"} /\ run' = [run EXCEPT ![g] = r]
    BY <1>3 DEF Call
  <2>4. \A g \in Slots : run'[g].pc \in {"answer", "drop"} => run'[g] = run[g]
    BY <1>1, <2>3 DEF Told, RunsOK
  <2>5. Remembers'
    BY <1>2, <2>2, <2>4
  <2> QED BY <1>1, <2>1, <2>2, <2>5 DEF IInv
<1>4. ASSUME NEW t \in Tasks, NEW out \in Results, out \notin {"ok", "deduped"},
             out \notin Refusing, Leaves(t, out)
      PROVE  IInv'
  <2>1. Told' /\ Owned'
    BY <1>1, <1>4, LeavesKeepsTold, LeavesKeepsOwned
  <2>2. UNCHANGED <<up, cache, delivered, memo>> /\ \E s : run' = [run EXCEPT ![s].owner = None]
    BY <1>4 DEF Leaves
  <2>3. \A g \in Slots : run'[g].pc = run[g].pc /\ run'[g].op = run[g].op /\ run'[g].key = run[g].key
    BY <1>1, <2>2 DEF Told, RunsOK
  <2>4. Remembers'
    BY <1>2, <2>2, <2>3
  <2> QED BY <1>1, <2>1, <2>2, <2>4 DEF IInv
<1>5. ASSUME NEW t \in Tasks, Deadline(t) \/ Cancelled(t)
      PROVE  IInv'
  <2>1. Translate(call[t].op, Status("DEADLINE_EXCEEDED", {})) \in FastMeowErrors \ Refusing
    BY TranslateStaysInside, NoFalseRefusal
  <2>2. FastMeowErrors \cap {"ok", "deduped"} = {}
    BY ExceptionsAreNoAnswers
  <2>3. "CancelledError" \in Results \ Refusing
    BY DEF Results, Refusing, Rejected
  <2> QED BY <1>4, <1>5, <2>1, <2>2, <2>3 DEF Deadline, Cancelled, Results
<1>6. ASSUME NEW s \in Slots, Goroutine(s)
      PROVE  IInv'
  <2>1. Told' /\ Owned' /\ Remembers'
    BY <1>1, <1>6, GoroutineKeepsTold, GoroutineKeepsOwned, GoroutineKeepsCache DEF Remembers, Backed
  <2>2. up' = up
    BY <1>6 DEF Goroutine, Refuse, Hit, Miss, Expired, Drop, Act, Denied, Fails, Panics, Answer, Lost, Ends
  <2> QED BY <1>1, <2>1, <2>2 DEF IInv
<1>7. CASE Tick
  <2>1. Told' /\ Owned' /\ up' = up
    BY <1>1, <1>7 DEF Tick, Told, CallsOK, RunsOK, RunKnows, OutcomesAreTrue, Doubtful, Owned
  <2> QED BY <1>1, <1>7, <2>1, TickKeepsCache DEF IInv
<1>8. CASE Crash
  BY <1>1, <1>8, CrashKeeps DEF IInv, Crash
<1>9. CASE Restart
  BY <1>1, <1>9, RestartKeeps DEF IInv, Restart
<1>10. CASE UNCHANGED vars
  <2>1. Told' /\ Owned' /\ up' = up
    BY <1>1, <1>10 DEF vars, Told, CallsOK, RunsOK, RunKnows, OutcomesAreTrue, Doubtful, Owned
  <2> QED BY <1>1, <1>2, <1>10, <2>1 DEF vars, IInv
<1> QED BY <1>3, <1>5, <1>6, <1>7, <1>8, <1>9, <1>10 DEF Next

(* The inductive invariant holds in every reachable state: the three       *)
(* theorems below are read off it.                                         *)
THEOREM SpecIInv == Spec => []IInv
  BY InitIInv, NextIInv, PTL DEF Spec

(* The state stays typed, and a task waits exactly while a goroutine works *)
(* for it.                                                                 *)
THEOREM Typed == Spec => []TypeOK
<1>1. IInv => TypeOK
  BY DEF IInv, TypeOK, Told, Owned, Remembers, MemoOK, Backed
<1> QED BY <1>1, SpecIInv, PTL

(* Every outcome that a caller is given is true, for any number of tasks,  *)
(* retries, keys and goroutines: "ok" of a method with a result means      *)
(* done, "deduped" that a message went out under this key, and a refusal   *)
(* that is not doubtful that nothing was done (sender.go 126-165, main.go  *)
(* 444-453, 1004-1035).                                                    *)
THEOREM CallersAreToldTheTruth == Spec => []OutcomesAreTrue
<1>1. IInv => OutcomesAreTrue
  BY DEF IInv, Told
<1> QED BY <1>1, SpecIInv, PTL

(* The cache answers for every text acknowledged within the TTL and        *)
(* Capacity uses, unless the text was acknowledged twice and the removal   *)
(* of its expired entry took out the second one (sender.go 136); and for   *)
(* no send that failed.                                                    *)
THEOREM CacheIsSound == Spec => []CacheIsTrue
<1>1. IInv => CachedWasDelivered
  BY DEF IInv, Remembers, Backed
<1>2. IInv => AckedIsRemembered
  <2> SUFFICES ASSUME IInv, NEW k \in Keys, memo[k] # None, memo[k].age <= TTL,
                      memo[k].others < Capacity
               PROVE  IsFresh(k) \/ (memo[k].taken /\ memo[k].again)
    BY DEF AckedIsRemembered
  <2>1. MemoOK
    BY DEF IInv, Remembers
  <2>t. CASE memo[k].taken
    BY <2>1, <2>t DEF MemoOK
  <2>f. CASE ~memo[k].taken
    <3>2. Holds(k)
      BY <2>1, <2>f DEF MemoOK, Recent, Holds
    <3>3. Place(k) \in DOMAIN cache /\ cache[Place(k)].key = k
      BY <3>2 DEF Holds, Place
    <3>4. Entry(k).age = memo[k].age
      BY <2>1, <3>3 DEF MemoOK, Entry
    <3> QED BY <3>2, <3>4, SendingAssumption DEF IsFresh
  <2> QED BY <2>t, <2>f
<1>3. IInv => CacheIsTrue
  BY <1>1, <1>2 DEF CacheIsTrue
<1> QED BY <1>3, SpecIInv, PTL
=============================================================================

----------------------------- MODULE DurableMap -----------------------------
(***************************************************************************)
(* What the manifest promises, without memory, lock, threads or snapshots  *)
(* (src/src/fastmeow/manifest.py:1-22): a map that survives crashes, on    *)
(* which every call of register, update_jid or remove is refused or takes  *)
(* effect on its own key in one step, between its begin and its return.  A *)
(* crash cuts calls short, before or after.  After a cancelled call or a   *)
(* failed write it promises nothing.                                       *)
(***************************************************************************)
CONSTANTS
    Keys,
    Values,    \* what a key can have: Absent, Unpaired or a jid
    Absent,
    Unpaired,
    Tasks,
    Calls,     \* [op, key, jid] records
    NoCall

VARIABLES
    map,    \* [Keys -> Values]
    call,   \* [Tasks -> Calls \cup {NoCall}]: the call a task is in
    done,   \* [Tasks -> BOOLEAN]: it has taken effect
    broken  \* a call was cancelled or a write failed

vars == <<map, call, done, broken>>

Init ==
    /\ map \in [Keys -> Values]
    /\ call = [t \in Tasks |-> NoCall]
    /\ done = [t \in Tasks |-> FALSE]
    /\ broken = FALSE

(* An entry with a jid keeps it until it is removed; an update needs one.  *)
Allowed(c) ==
    CASE c.op = "register" -> map[c.key] \in {Absent, Unpaired, c.jid} \/ c.jid = Unpaired
      [] c.op = "update"   -> map[c.key] \in {Unpaired, c.jid}
      [] c.op = "remove"   -> TRUE

(* What the call leaves under its key.                                     *)
After(c) ==
    IF c.op = "register" /\ c.jid = Unpaired /\ map[c.key] # Absent THEN map[c.key] ELSE c.jid

Begin(t, c) ==
    /\ call[t] = NoCall
    /\ call' = [call EXCEPT ![t] = c]
    /\ UNCHANGED <<map, done, broken>>

TakeEffect(t) ==
    /\ call[t] # NoCall /\ ~done[t]
    /\ Allowed(call[t])
    /\ map' = [map EXCEPT ![call[t].key] = After(call[t])]
    /\ done' = [done EXCEPT ![t] = TRUE]
    /\ UNCHANGED <<call, broken>>

(* A call returns when it has taken effect, or when there is none to take. *)
Return(t) ==
    /\ call[t] # NoCall
    /\ done[t] \/ (Allowed(call[t]) /\ After(call[t]) = map[call[t].key])
    /\ call' = [call EXCEPT ![t] = NoCall]
    /\ done' = [done EXCEPT ![t] = FALSE]
    /\ UNCHANGED <<map, broken>>

Refuse(t) ==
    /\ call[t] # NoCall /\ ~done[t]
    /\ ~Allowed(call[t])
    /\ call' = [call EXCEPT ![t] = NoCall]
    /\ UNCHANGED <<map, done, broken>>

Crash ==
    /\ call' = [t \in Tasks |-> NoCall]
    /\ done' = [t \in Tasks |-> FALSE]
    /\ UNCHANGED <<map, broken>>

(* Anything may happen.                                                    *)
Break == broken' = TRUE

Next ==
    \/ \E t \in Tasks :
          \/ \E c \in Calls : Begin(t, c)
          \/ TakeEffect(t)
          \/ Return(t)
          \/ Refuse(t)
    \/ Crash
    \/ Break

Spec == Init /\ [][Next]_vars
=============================================================================

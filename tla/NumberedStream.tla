--------------------------- MODULE NumberedStream ---------------------------
(***************************************************************************)
(* What the event stream promises, without queue limits, phases, cache or  *)
(* handler (proto/fastmeow/v1/gateway.proto and the comments of bus.go,    *)
(* emit): a goroutine takes the next number for the event it holds, and    *)
(* the event goes on the way or is missed; what is on the way reaches the  *)
(* client in that order, each at most once, or is missed.  Nothing else    *)
(* ever reaches the client, and every miss is counted once.                *)
(***************************************************************************)
EXTENDS Naturals, Sequences

CONSTANTS Producers, Kinds, Jids   \* Jids: with the empty one

VARIABLES
    last,      \* the last number taken
    held,      \* [Producers -> Seq(event)]: the event it has numbered, if any
    way,       \* events on the way
    delivered, \* what the client has got
    missed     \* number of events it will never get

vars == <<last, held, way, delivered, missed>>

Init ==
    /\ last = 0
    /\ held = [p \in Producers |-> <<>>]
    /\ way = <<>>
    /\ delivered = <<>>
    /\ missed = 0

Number(p) ==
    /\ held[p] = <<>>
    /\ last' = last + 1
    /\ \E kind \in Kinds, jid \in Jids :
          held' = [held EXCEPT ![p] =
                      <<[seq |-> last + 1, from |-> p, kind |-> kind, jid |-> jid]>>]
    /\ UNCHANGED <<way, delivered, missed>>

Put(p) ==
    /\ held[p] # <<>>
    /\ way' = way \o held[p]
    /\ held' = [held EXCEPT ![p] = <<>>]
    /\ UNCHANGED <<last, delivered, missed>>

Discard(p) ==
    /\ held[p] # <<>>
    /\ missed' = missed + 1
    /\ held' = [held EXCEPT ![p] = <<>>]
    /\ UNCHANGED <<last, way, delivered>>

Deliver ==
    /\ way # <<>>
    /\ delivered' = Append(delivered, Head(way))
    /\ way' = Tail(way)
    /\ UNCHANGED <<last, held, missed>>

Lose ==
    /\ way # <<>>
    /\ missed' = missed + 1
    /\ way' = Tail(way)
    /\ UNCHANGED <<last, held, delivered>>

Next ==
    \/ \E p \in Producers : Number(p) \/ Put(p) \/ Discard(p)
    \/ Deliver
    \/ Lose

Spec == Init /\ [][Next]_vars
=============================================================================

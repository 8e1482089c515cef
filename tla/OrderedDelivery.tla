-------------------------- MODULE OrderedDelivery --------------------------
(***************************************************************************)
(* What the dispatcher promises, without queues, tasks or cancellation     *)
(* (src/src/fastmeow/_dispatcher.py:1-20): the events of one account are    *)
(* processed one after the other in the order the stream yielded them,     *)
(* accounts do not wait for each other, and once the dispatcher is closed  *)
(* no event is accepted any more while those accepted may still be         *)
(* processed.                                                              *)
(***************************************************************************)
EXTENDS Naturals, Sequences

CONSTANTS
    Accounts,
    Numbers   \* the numbers the stream may give to its events

VARIABLES
    pending,    \* [Accounts -> Seq(Nat)]: accepted and not yet processed
    processed,  \* [Accounts -> Seq(Nat)]: processed, oldest first
    closed      \* no further event is accepted

vars == <<pending, processed, closed>>

Init ==
    /\ pending = [a \in Accounts |-> <<>>]
    /\ processed = [a \in Accounts |-> <<>>]
    /\ closed = FALSE

(* An event of account a, numbered n by the stream, is accepted.           *)
Accept(a, n) ==
    /\ ~closed
    /\ pending' = [pending EXCEPT ![a] = Append(@, n)]
    /\ UNCHANGED <<processed, closed>>

(* The oldest pending event of account a has been processed.               *)
Process(a) ==
    /\ pending[a] # <<>>
    /\ pending' = [pending EXCEPT ![a] = Tail(@)]
    /\ processed' = [processed EXCEPT ![a] = Append(@, Head(pending[a]))]
    /\ UNCHANGED closed

Close ==
    /\ closed' = TRUE
    /\ UNCHANGED <<pending, processed>>

Next ==
    \/ \E a \in Accounts : Process(a) \/ \E n \in Numbers : Accept(a, n)
    \/ Close

Spec == Init /\ [][Next]_vars
=============================================================================

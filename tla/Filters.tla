------------------------------- MODULE Filters -------------------------------
(***************************************************************************)
(* The filter expressions of filters.py: a tree of nodes that is built     *)
(* once and evaluated against an event, yielding whether it passes and the *)
(* regular-expression match to inject.                                     *)
(*                                                                         *)
(* node gives the tree: each expression is a record whose "op" says what   *)
(* it is.  The leaves _Attr, _Cmp, _StringPredicate and _In differ only in *)
(* the values they accept, so all are "test" nodes with the set of values  *)
(* at which they are True; a value that raises TypeError is not in it.  A  *)
(* match is named by the "regex" node that made it.                        *)
(***************************************************************************)
EXTENDS Wire, Integers, FiniteSets

CONSTANTS Exprs,      \* the nodes of the program's filter expressions
          node,       \* what each node is
          NoMatch     \* no match object (Python's None)

IsNode(n) ==
  \/ n.op = "const" /\ n.value \in BOOLEAN
  \/ n.op = "test"  /\ n.path \in Seq(STRING) /\ n.accepts \subseteq STRING
  \/ n.op = "regex" /\ n.path \in Seq(STRING) /\ n.accepts \subseteq STRING
  \/ n.op \in {"and", "or"} /\ {n.left, n.right} \subseteq Exprs
  \/ n.op = "not" /\ n.inner \in Exprs

Children(n) ==
  CASE n.op \in {"and", "or"} -> {n.left, n.right}
    [] n.op = "not" -> {n.inner}
    [] OTHER -> {}

(* A node is made of nodes that were there before it, and keeps them. *)
ASSUME ExprsAssumption ==
  /\ NoMatch \notin Exprs
  /\ \A e \in Exprs : IsNode(node[e])
  /\ IsFiniteSet(Exprs)
  /\ \E height \in [Exprs -> 0..Cardinality(Exprs)] :
       \A e \in Exprs : \A c \in Children(node[e]) : height[c] < height[e]

Result(passed, match) == [passed |-> passed, match |-> match]
Refused == Result(FALSE, NoMatch)

(* lm or rm *)
Either(m, n) == IF m # NoMatch THEN m ELSE n

(* What an event does not have makes a leaf False, whatever the leaf tests. *)
Leaf(e, n, event) ==
  LET passed == n.path \in DOMAIN event.attrs /\ event.attrs[n.path] \in n.accepts
  IN  Result(passed, IF passed /\ n.op = "regex" THEN e ELSE NoMatch)

(* Both sides must pass; the right one is not looked at when the left fails. *)
Both(l, r) == IF ~l.passed \/ ~r.passed THEN Refused ELSE Result(TRUE, Either(l.match, r.match))

(* The left side if it passes, with its match only; else the right side. *)
OneOf(l, r) == IF l.passed THEN l ELSE r

(* A node, given what its children evaluate to. *)
EvaluateNode(e, event, eval) ==
  LET n == node[e] IN
  CASE n.op = "const" -> Result(n.value, NoMatch)
    [] n.op \in {"test", "regex"} -> Leaf(e, n, event)
    [] n.op = "and" -> Both(eval[n.left], eval[n.right])
    [] n.op = "or"  -> OneOf(eval[n.left], eval[n.right])
    [] n.op = "not" -> Result(~eval[n.inner].passed, NoMatch)

Evaluate(expr, event) ==
  LET eval[e \in Exprs] == EvaluateNode(e, event, eval) IN eval[expr]
=============================================================================

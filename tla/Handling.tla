------------------------------- MODULE Handling -------------------------------
(***************************************************************************)
(* From the stream to the user's handlers: the reader subscribes           *)
(* (_read_loop), and the worker of each account (_account_loop) takes one  *)
(* event at a time through the app's on_event hook (which writes the       *)
(* manifest, see AccountLifecycle), Router.dispatch with its filters, the  *)
(* handlers and, for what they raise, on_error.                            *)
(*                                                                         *)
(* The queue between the reader and the worker, its limit and its shutdown *)
(* are the module Dispatcher; here a worker that is idle may receive any   *)
(* event of its account that the subscription lets through.  Callable      *)
(* filters, handlers and on_error are user code: they may await, and what  *)
(* comes of them is chosen freely.                                         *)
(***************************************************************************)
EXTENDS Router

CONSTANTS Accounts,   \* the accounts that have a worker
          Msgs,       \* the envelopes the sidecar may publish
          wire,       \* the contents of each
          Hanging,    \* the accounts whose user code may never come back
          None

VARIABLES subscribed, \* include_soft_events of the stream; None before it is opened
          worker      \* the worker task of each account

vars == <<subs, sets, subscribed, worker>>

ASSUME HandlingAssumption ==
  /\ Hanging \subseteq Accounts
  /\ None \notin Msgs \cup BOOLEAN
  /\ \A m \in Msgs : wire[m].account \in Accounts

(* The event that each envelope becomes. *)
event == [m \in {n \in Msgs : Recognised(wire[n])} |-> EventFromProto(wire[m])]

(* isSoftEvent of the sidecar. *)
IsSoft(m) == wire[m].kind \in {"receipt", "presence", "chat_presence"}

(* A worker between two events. *)
Waiting == [pc |-> "idle", msg |-> None, snap |-> <<>>, i |-> 1, j |-> 1,
            match |-> NoMatch, refused |-> {}, skipped |-> {}]

(* Where a worker is: the event, the list _collect_for returned, the       *)
(* handler and the filter it has come to, the match so far; and, for the   *)
(* properties, which handlers a callable refused and which skipped.        *)
Workers ==
  [pc : {"idle", "hook", "match", "handler", "report", "dead"},
   msg : Msgs \cup {None}, snap : Seq(Handlers), i : Nat \ {0}, j : Nat \ {0},
   match : Exprs \cup {NoMatch}, refused : SUBSET Nat, skipped : SUBSET Nat]

TypeOK ==
  /\ RouterTypeOK
  /\ subscribed \in BOOLEAN \cup {None}
  /\ worker \in [Accounts -> Workers]
  /\ \A a \in Accounts : worker[a].pc \in {"idle", "dead"} \/ worker[a].msg # None

Init ==
  /\ RouterInit
  /\ subscribed = None
  /\ worker = [a \in Accounts |-> Waiting]

-----------------------------------------------------------------------------
(* The start of _read_loop. *)
Subscribe ==
  /\ subscribed = None
  /\ subscribed' = HasSoftEventHandlers(Root)
  /\ UNCHANGED <<routerVars, worker>>

Goes(a, w) == /\ worker' = [worker EXCEPT ![a] = w]
              /\ UNCHANGED <<routerVars, subscribed>>

At(a, pc) == worker[a].pc = pc
Current(a) == worker[a].snap[worker[a].i]
Chain(a) == decl[Current(a)].filters
MoreHandlers(a) == worker[a].i <= Len(worker[a].snap)
MoreFilters(a) == worker[a].j <= Len(Chain(a))
Filter(a) == Chain(a)[worker[a].j]

(* A fault: the candidate is asked again. *)
SameHandler(w) == [w EXCEPT !.pc = "match", !.j = 1, !.match = NoMatch]

(* The next candidate; _evaluate_filters starts with no match. *)
NextHandler(w) == [w EXCEPT !.pc = "match", !.i = @ + 1, !.j = 1, !.match = NoMatch]

(* The sidecar's StreamEvents filters soft events, stream_events what it   *)
(* does not recognise.                                                     *)
Streamed(m) == /\ IsSoft(m) => subscribed
               /\ Recognised(wire[m])

Receive(a, m) ==
  /\ At(a, "idle") /\ subscribed # None
  /\ wire[m].account = a
  /\ Streamed(m)
  /\ Goes(a, [Waiting EXCEPT !.pc = "hook", !.msg = m])

(* on_event, which is the app's own, returns, or raises an Exception,      *)
(* which is logged; dispatch then collects the handlers of the moment.     *)
HookEnds(a) ==
  /\ At(a, "hook")
  /\ Goes(a, [worker[a] EXCEPT !.pc = "match",
                               !.snap = Collect(Root, event[worker[a].msg].class)])

ApplyExpr(a) ==
  /\ At(a, "match") /\ MoreHandlers(a) /\ MoreFilters(a)
  /\ Filter(a) \in Exprs
  /\ LET w == worker[a]
         r == Evaluate(Filter(a), event[w.msg])
     IN  Goes(a, IF r.passed
                 THEN [w EXCEPT !.j = @ + 1, !.match = Either(@, r.match)]
                 ELSE NextHandler(w))

AsksCallable(a) == /\ At(a, "match") /\ MoreHandlers(a) /\ MoreFilters(a)
                   /\ Filter(a) \in Callables

CallableAccepts(a) ==
  /\ AsksCallable(a)
  /\ Goes(a, [worker[a] EXCEPT !.j = @ + 1])

CallableRefuses(a) ==
  /\ AsksCallable(a)
  /\ Goes(a, NextHandler([worker[a] EXCEPT !.refused = @ \cup {worker[a].i}]))

(* Whatever a filter raises, SkipHandler included, leaves dispatch. *)
CallableRaises(a) ==
  /\ AsksCallable(a)
  /\ Goes(a, [worker[a] EXCEPT !.pc = "report"])

(* The chain has passed; a call that cannot bind raises TypeError. *)
Invoke(a) ==
  /\ At(a, "match") /\ MoreHandlers(a) /\ ~MoreFilters(a)
  /\ Goes(a, [worker[a] EXCEPT !.pc = IF Bindable(Current(a)) THEN "handler" ELSE "report"])

HandlerReturns(a) ==
  /\ At(a, "handler")
  /\ Goes(a, Waiting)

HandlerSkips(a) ==
  /\ At(a, "handler")
  /\ Goes(a, NextHandler([worker[a] EXCEPT !.skipped = @ \cup {worker[a].i}]))

(* A fault: on_error is told without the event. *)
HandlerRaisesBare(a) ==
  /\ At(a, "handler")
  /\ Goes(a, [Waiting EXCEPT !.pc = "report"])

HandlerRaises(a) ==
  /\ At(a, "handler")
  /\ Goes(a, [worker[a] EXCEPT !.pc = "report"])

NoneLeft(a) ==
  /\ At(a, "match") /\ ~MoreHandlers(a)
  /\ Goes(a, Waiting)

(* on_error returns, or raises an Exception, which is logged. *)
ErrorReported(a) ==
  /\ At(a, "report")
  /\ Goes(a, Waiting)

InUserCode(a) == At(a, "handler") \/ At(a, "report") \/ AsksCallable(a)

(* What the worker awaits raises CancelledError although nobody cancelled  *)
(* the worker: the user code awaited a task that was cancelled, or its RPC *)
(* was ended locally: send_media whose source raises while it is read (a   *)
(* file that does not exist), which grpc.aio answers by cancelling the     *)
(* call, or any call when the channel is closed.  Both except clauses let  *)
(* it through and the worker task ends; in on_error any BaseException      *)
(* does that.                                                              *)
StrayCancel(a) ==
  /\ InUserCode(a)
  /\ Goes(a, [Waiting EXCEPT !.pc = "dead"])

-----------------------------------------------------------------------------
(* The steps of a worker that the event loop takes by itself, and those    *)
(* that wait for the hook or for the user's code.                          *)
OwnStep(a) == ApplyExpr(a) \/ Invoke(a) \/ NoneLeft(a)

UserStep(a) ==
  \/ HookEnds(a)
  \/ CallableAccepts(a) \/ CallableRefuses(a) \/ CallableRaises(a)
  \/ HandlerReturns(a) \/ HandlerSkips(a) \/ HandlerRaises(a)
  \/ ErrorReported(a) \/ StrayCancel(a)

ProgramStep == RouterNext /\ UNCHANGED <<subscribed, worker>>

Next ==
  \/ ProgramStep
  \/ Subscribe
  \/ \E a \in Accounts :
       \/ \E m \in Msgs : Receive(a, m)
       \/ OwnStep(a)
       \/ UserStep(a)

Spec == Init /\ [][Next]_vars

(* The event loop runs every task that is ready, and the user code of an   *)
(* account that is not Hanging comes to an end.                            *)
Fairness ==
  /\ \A a \in Accounts : WF_vars(OwnStep(a))
  /\ \A a \in Accounts \ Hanging : WF_vars(UserStep(a))

FairSpec == Spec /\ Fairness

-----------------------------------------------------------------------------
(* Properties *)

Registered(r) == UNION {Range(sets[r][class]) : class \in Event}
Reached == Reachable(Root)

(* Whether the k-th candidate of a worker declined. *)
Declined(w, k) ==
  \/ k \in w.refused \cup w.skipped
  \/ \E f \in Range(decl[w.snap[k]].filters) \cap Exprs : ~Evaluate(f, event[w.msg]).passed

(* The regular expressions of a filter whose match may be injected: those  *)
(* that are not negated.                                                   *)
RegexesOfNode(e, at) ==
  LET n == node[e] IN
  CASE n.op = "regex" -> {e}
    [] n.op \in {"and", "or"} -> at[n.left] \cup at[n.right]
    [] OTHER -> {}

RegexesOf(expr) ==
  LET at[e \in Exprs] == RegexesOfNode(e, at) IN at[expr]

(* The match is that of a regular expression of the chain which the event  *)
(* matches, and of the first filter of the chain that has one to offer.    *)
MatchIsFirst(w) ==
  LET chain == decl[w.snap[w.i]].filters
      offers == {j \in DOMAIN chain : /\ chain[j] \in Exprs
                                      /\ Evaluate(chain[j], event[w.msg]).match # NoMatch}
  IN  IF offers = {} THEN w.match = NoMatch
      ELSE LET first == CHOOSE j \in offers : \A k \in offers : j <= k IN
           /\ w.match \in RegexesOf(chain[first])
           /\ Leaf(w.match, node[w.match], event[w.msg]).passed

(* The candidates are the handlers for the event's class on every router   *)
(* below the root, those of the root first.                                *)
IsSnapshot(snap, class) ==
  /\ Range(snap) = {h \in UNION {Registered(r) : r \in Reached} : decl[h].class = class}
  /\ \A k, l \in DOMAIN snap : k < l /\ decl[snap[l]].router = Root => decl[snap[k]].router = Root

(* At most one handler takes an event: the first, in the order of the      *)
(* candidates of that moment, whose filters pass and that does not skip;   *)
(* with the match its filters produced.  A dispatch ends without one only  *)
(* when every candidate has declined.  Handlers registered, and routers    *)
(* mounted, while filters are awaited change nothing for the event.        *)
(* (router.py 283-302, 338-360)                                            *)
FirstMatchWins ==
  [][\A a \in Accounts :
       LET w == worker[a] v == worker'[a] IN
       /\ w.pc = "hook" /\ v.pc = "match" => IsSnapshot(v.snap, event[w.msg].class)
       /\ w.pc = "match" /\ v.pc = "handler" =>
            /\ \A k \in 1..(w.i - 1) : Declined(w, k)
            /\ ~Declined(w, w.i)
            /\ MatchIsFirst(w)
       /\ w.pc = "match" /\ v.pc = "idle" => \A k \in DOMAIN w.snap : Declined(w, k)
     ]_vars

SoftHandlers == {h \in UNION {Registered(r) : r \in Reached} : decl[h].class \in SoftEvents}

(* The stream is opened with soft events exactly when some router under    *)
(* the root has a handler for them, however deep it is mounted; and a soft *)
(* event comes to a worker only if such a handler exists.  (router.py      *)
(* 313-324, _dispatcher.py 587-593, main.go 490)                           *)
SoftOnDemand ==
  [][/\ subscribed' # subscribed => subscribed' = (SoftHandlers # {})
     /\ \A a \in Accounts :
          worker[a].pc = "idle" /\ worker'[a].pc = "hook" /\ IsSoft(worker'[a].msg)
            => SoftHandlers # {}
    ]_vars

(* An event that a worker has taken is done with, or the worker is dead,   *)
(* unless the user code of that very account hangs: accounts do not wait   *)
(* for each other (_dispatcher.py 638-680).                                *)
EventsConclude ==
  \A a \in Accounts \ Hanging : ~At(a, "idle") ~> (At(a, "idle") \/ At(a, "dead"))

(* What a handler raises is handed to on_error "without interrupting the   *)
(* stream" (_dispatcher.py 10-11): no event ends an account's worker.      *)
WorkersSurvive == \A a \in Accounts : ~At(a, "dead")
=============================================================================

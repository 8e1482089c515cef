-------------------------------- MODULE Router --------------------------------
(***************************************************************************)
(* The routers of router.py: a program mounts routers on one another and   *)
(* registers handlers on them, at any time, also while events are being    *)
(* dispatched.  A statement that was accepted is not executed again; one   *)
(* that raised may be.                                                     *)
(*                                                                         *)
(* A handler's declaration is a record: the router and event class of the  *)
(* decorator, its filters (expressions of the module Filters, or plain     *)
(* callables), its parameters, and whether it is an async def.             *)
(***************************************************************************)
EXTENDS Filters, SequencesExt

CONSTANTS Routers,    \* the Router objects of the program
          Root,       \* the one that is given to the dispatcher
          Handlers,   \* the decorated functions
          decl,       \* the declaration of each
          Callables,  \* the filters that are plain functions
          Mounts      \* the include_router calls: pairs <<router, other>>

VARIABLES subs,       \* _sub_routers of each router
          sets        \* _sets of each router: for each event class, its handlers in order

routerVars == <<subs, sets>>

IsDeclaration(d) ==
  /\ d.router \in Routers /\ d.class \in Event /\ d.coroutine \in BOOLEAN
  /\ d.filters \in Seq(Exprs \cup Callables)
  /\ \A p \in d.params :
       /\ p.name \in STRING /\ p.default \in BOOLEAN
       /\ p.kind \in {"normal", "positional_only", "*", "**"}

ASSUME RouterAssumption ==
  /\ IsFiniteSet(Routers) /\ Root \in Routers
  /\ Mounts \subseteq Routers \X Routers
  /\ Exprs \cap Callables = {}
  /\ \A h \in Handlers : IsDeclaration(decl[h])

(***************************************************************************)
(* Composition.                                                            *)
(***************************************************************************)

(* The routers that a traversal from r meets: the least set with r that    *)
(* has the sub-routers of its members.                                     *)
ClosedUnderSubs(S) == \A s \in S : Range(subs[s]) \subseteq S
Reachable(r) == {s \in Routers : \A S \in SUBSET Routers :
                                   r \in S /\ ClosedUnderSubs(S) => s \in S}

(* A fault: only a direct inclusion of the router by its candidate is seen. *)
WouldCreateCycleDirectly(r, candidate) == r \in Range(subs[candidate])

WouldCreateCycle(r, candidate) == r \in Reachable(candidate)

IncludeRouter(r, other) ==
  /\ <<r, other>> \in Mounts /\ other \notin Range(subs[r])
  /\ IF r = other \/ WouldCreateCycle(r, other)
     THEN UNCHANGED subs                                       \* ValueError
     ELSE subs' = [subs EXCEPT ![r] = Append(@, other)]
  /\ UNCHANGED sets

(***************************************************************************)
(* Registration.                                                           *)
(***************************************************************************)

Injected == {"msg", "event", "ctx", "qr", "match"}
Named(h) == {p \in decl[h].params : p.kind \notin {"*", "**"}}
Takes(h, name) == \E p \in Named(h) : p.name = name

(* _build_param_plan accepts the signature. *)
HasPlan(h) ==
  /\ \A p \in Named(h) : p.name \in Injected \/ p.default
  /\ ~(Takes(h, "msg") /\ Takes(h, "event"))
  /\ Takes(h, "qr") => decl[h].class = "QREvent"

Register(h) ==
  LET r == decl[h].router
      class == decl[h].class IN
  /\ h \in Handlers /\ h \notin Range(sets[r][class])
  /\ IF decl[h].coroutine /\ HasPlan(h)
     THEN sets' = [sets EXCEPT ![r][class] = Append(@, h)]
     ELSE UNCHANGED sets                                       \* HandlerSignatureError
  /\ UNCHANGED subs

(* _invoke passes everything by keyword.  A positional-only parameter      *)
(* cannot be given so, and the plan does not look for it.                  *)
Bindable(h) ==
  \A p \in Named(h) : p.kind = "positional_only" =>
    /\ p.default
    /\ p.name \notin Injected \/ \E q \in decl[h].params : q.kind = "**"

(***************************************************************************)
(* Lookup.                                                                 *)
(***************************************************************************)

(* What is found for each sub-router of s, in the order of their mounting. *)
BelowOf(s, found) == FlattenSeq([i \in DOMAIN subs[s] |-> found[subs[s][i]]])

(* A fault: the handlers of the sub-routers are asked first. *)
CollectSubsFirst(r, class) ==
  BelowOf(r, [s \in Routers |-> sets[s][class]]) \o sets[r][class]

(* The handlers for a class: the router's own, then those of its           *)
(* sub-routers, each as often as it is mounted.  Routers are no deeper     *)
(* than there are routers.                                                 *)
Collect(r, class) ==
  LET collect[depth \in 0..Cardinality(Routers)] ==
        [s \in Routers |->
           IF depth = 0 THEN sets[s][class]
           ELSE sets[s][class] \o BelowOf(s, collect[depth - 1])]
  IN  collect[Cardinality(Routers)][r]

SoftEvents == {"ReceiptEvent", "PresenceEvent", "ChatPresenceEvent"}

HasSoftItself(r) == \E class \in SoftEvents : sets[r][class] # <<>>

HasSoftEventHandlers(r) ==
  LET soft[depth \in 0..Cardinality(Routers)] ==
        [s \in Routers |->
           \/ HasSoftItself(s)
           \/ depth > 0 /\ \E i \in DOMAIN subs[s] : soft[depth - 1][subs[s][i]]]
  IN  soft[Cardinality(Routers)][r]

(***************************************************************************)
(* The program's statements as a specification of their own.               *)
(***************************************************************************)

RouterTypeOK ==
  /\ subs \in [Routers -> Seq(Routers)]
  /\ sets \in [Routers -> [Event -> Seq(Handlers)]]

RouterInit ==
  /\ subs = [r \in Routers |-> <<>>]
  /\ sets = [r \in Routers |-> [class \in Event |-> <<>>]]

RouterNext ==
  \/ \E r, other \in Routers : IncludeRouter(r, other)
  \/ \E h \in Handlers : Register(h)

RouterSpec == RouterInit /\ [][RouterNext]_routerVars

(* No router reaches itself, in whatever order include_router was called:  *)
(* there is no set of routers in which each has a sub-router in the set.   *)
(* _collect_for and has_soft_event_handlers recurse without a test and     *)
(* end only because of this (router.py 309-311, 324).                      *)
Acyclic ==
  \A S \in SUBSET Routers :
    S # {} => \E s \in S : Range(subs[s]) \cap S = {}
=============================================================================

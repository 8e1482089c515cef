------------------------------ MODULE MCHandling ------------------------------
(***************************************************************************)
(* A program with three routers, mounted under the root in a diamond, with *)
(* one statement that would close a cycle; and two accounts.               *)
(***************************************************************************)
EXTENDS Handling

CONSTANTS root, s1, s2, a, b, h1, h2, h3, h4, h5, h6, cmd, dm, group, either, both, maybe,
          text, image, receipt, future

MCRouters == {root, s1, s2}
MCMounts == {<<root, s1>>, <<root, s2>>, <<s1, s2>>, <<s2, root>>}

(* cmd: F.text.regex("^/")   dm: F.is_dm   group: ~F.is_dm (True for an    *)
(* event that has no is_dm)   either: dm | cmd   both: group & cmd         *)
MCExprs == {cmd, dm, group, either, both}
MCNode ==
  cmd    :> [op |-> "regex", path |-> <<"text">>, accepts |-> {"/help"}] @@
  dm     :> [op |-> "test", path |-> <<"is_dm">>, accepts |-> {"True"}] @@
  group  :> [op |-> "not", inner |-> dm] @@
  either :> [op |-> "or", left |-> dm, right |-> cmd] @@
  both   :> [op |-> "and", left |-> group, right |-> cmd]

P(name) == [name |-> name, kind |-> "normal", default |-> FALSE]
Handler(r, class, filters, params) ==
  [router |-> r, class |-> class, filters |-> filters, params |-> params, coroutine |-> TRUE]

(* h5 cannot be bound, h6 is refused. *)
MCDecl ==
  h1 :> Handler(s1, "MessageEvent", <<either, both>>, {P("msg"), P("match")}) @@
  h2 :> Handler(root, "MessageEvent", <<cmd, maybe>>, {P("event"), P("ctx")}) @@
  h3 :> Handler(s2, "ReceiptEvent", <<>>, {P("ctx")}) @@
  h4 :> Handler(s2, "MessageEvent", <<>>, {}) @@
  h5 :> Handler(root, "ReceiptEvent", <<group>>, {[P("event") EXCEPT !.kind = "positional_only"]}) @@
  h6 :> Handler(root, "MessageEvent", <<>>, {P("qr")})

Msg(acct, kind, data) == [account |-> acct, kind |-> kind, data |-> data]
MCWire ==
  text    :> Msg(a, "message", <<"text">> :> "/help" @@ <<"is_group">> :> "True") @@
  image   :> Msg(a, "media_message", <<"text">> :> "/help" @@ <<"media", "kind">> :> "IMAGE") @@
  receipt :> Msg(b, "receipt", <<"receipt_type">> :> "NEWER") @@
  future  :> Msg(b, "heartbeat", <<>>)
=============================================================================

-------------------------------- MODULE Client --------------------------------
(***************************************************************************)
(* The calls a program can make and what comes back: the exceptions of     *)
(* exceptions.py, the methods of Ctx and AccountClient, the RPC each of    *)
(* them ends in, and the translation of a gRPC status into an exception.   *)
(*                                                                         *)
(* A status is its code and, of its detail, which of the keywords that     *)
(* _translate looks for it contains.                                       *)
(***************************************************************************)
EXTENDS TLC, FiniteSets

(***************************************************************************)
(* Exceptions: the classes below each base class.                          *)
(***************************************************************************)

ConfigurationErrors == {"ConfigurationError", "ManifestError"}
SidecarErrors == {"SidecarError", "SidecarStartupError", "SidecarCrashedError", "TransportError"}
AccountErrors == {"AccountError", "AccountAlreadyExistsError", "AccountNotFoundError",
                  "PairingTimeoutError", "PairingFailedError"}
MessagingErrors == {"MessagingError", "InvalidJIDError", "MessageSendError", "ReactionError",
                    "MessageEditError", "MessageRevokeError"}
DispatchErrors == {"DispatchError", "HandlerSignatureError", "ReplyNotAvailableError",
                   "BackpressureError", "ContextOperationNotAvailableError"}
GroupErrors == {"GroupError", "InviteLinkInvalidError", "InviteLinkRevokedError",
                "GroupPermissionError"}
MediaErrors == {"MediaError", "MediaUploadError", "MediaDownloadError", "MediaTooLargeError",
                "MediaUnsupportedTypeError", "MediaCorruptedError"}
FastMeowErrors ==
  {"FastMeowError", "SidecarBinaryNotFoundError"} \cup ConfigurationErrors \cup SidecarErrors
    \cup AccountErrors \cup MessagingErrors \cup DispatchErrors \cup GroupErrors \cup MediaErrors

(***************************************************************************)
(* Transport: the operation each method is tagged with; whether it changes *)
(* anything on WhatsApp or in the sidecar ("tell") or only reads ("ask");  *)
(* whether it has the deadline; and the type of its result.                *)
(***************************************************************************)

Tell(op, result) == [op |-> op, tells |-> TRUE, deadline |-> TRUE, result |-> result]
Ask(op, result) == [op |-> op, tells |-> FALSE, deadline |-> TRUE, result |-> result]
Unbounded(rpc) == [rpc EXCEPT !.deadline = FALSE]

LifecycleRpcs ==
  [ensure_account |-> Tell("ensure_account", "Account, bool"),
   connect        |-> Tell("connect", "Account"),
   disconnect     |-> Tell("disconnect", "Account"),
   logout         |-> Tell("logout", "Account")]
MessageRpcs ==
  [send_text     |-> Tell("send_message", "SendResult"),
   send_reaction |-> Tell("send_reaction", "SendResult"),
   send_edit     |-> Tell("send_edit", "SendResult"),
   send_revoke   |-> Tell("send_revoke", "SendResult")]
GroupRpcs ==
  [list_joined_groups        |-> Ask("list_joined_groups", "GroupInfo*"),
   get_group_info            |-> Ask("get_group_info", "GroupInfo"),
   preview_group_invite      |-> Ask("preview_group_invite", "GroupInfo"),
   join_group_via_invite     |-> Tell("join_group_via_invite", "str"),
   leave_group               |-> Tell("leave_group", "None"),
   create_group              |-> Tell("create_group", "GroupInfo"),
   update_group_settings     |-> Tell("update_group_settings", "GroupInfo"),
   update_group_participants |-> Tell("update_group_participants", "UpdateResult*"),
   get_group_invite_link     |-> Tell("get_group_invite_link", "str")]
PresenceRpcs ==
  [mark_read          |-> Tell("mark_read", "None"),
   send_presence      |-> Tell("send_presence", "None"),
   send_chat_presence |-> Tell("send_chat_presence", "None"),
   subscribe_presence |-> Tell("subscribe_presence", "None")]
MediaRpcs ==
  [send_media        |-> Unbounded(Tell("send_media", "SendResult")),
   download_media    |-> Unbounded(Ask("download_media", "bytes")),
   download_media_to |-> Unbounded(Ask("download_media", "Path"))]
StreamRpc == [stream_events |-> Unbounded(Ask("stream_events", "Event*"))]
ControlRpcs == [ping |-> Ask("ping", "Transport"), shutdown |-> Tell("shutdown", "None")]

Rpcs == LifecycleRpcs @@ MessageRpcs @@ GroupRpcs @@ PresenceRpcs @@ MediaRpcs
          @@ StreamRpc @@ ControlRpcs
Ops == {Rpcs[r].op : r \in DOMAIN Rpcs}

GroupOps == {"list_joined_groups", "get_group_info", "preview_group_invite",
             "join_group_via_invite", "leave_group", "create_group",
             "update_group_settings", "update_group_participants", "get_group_invite_link"}

(***************************************************************************)
(* AccountClient: the result of each method, and the method of Transport   *)
(* by which _BoundClient implements it.                                    *)
(***************************************************************************)

MessageInterface == [m \in {"send_text", "send_reaction", "send_edit", "send_revoke"} |-> "SendResult"]
GroupInterface ==
  [list_groups |-> "GroupInfo*", join_group |-> "str", leave_group |-> "None",
   get_group_invite_link |-> "str"]
  @@ [m \in {"get_group_info", "preview_group_invite", "create_group", "set_group_name",
             "set_group_topic", "set_group_announce", "set_group_locked"} |-> "GroupInfo"]
  @@ [m \in {"add_group_participants", "remove_group_participants",
             "promote_group_participants", "demote_group_participants"} |-> "UpdateResult*"]
PresenceInterface ==
  [m \in {"mark_read", "send_presence", "send_chat_presence", "subscribe_presence"} |-> "None"]
MediaInterface ==
  [download_media |-> "bytes", download_media_to |-> "Path"]
  @@ [m \in {"send_media", "send_image", "send_video", "send_audio", "send_document",
             "send_sticker"} |-> "SendResult"]
AccountClient == MessageInterface @@ GroupInterface @@ PresenceInterface @@ MediaInterface

Themselves(methods) == [m \in methods |-> m]

MessageMethods == Themselves({"send_text", "send_reaction", "send_edit", "send_revoke"})
GroupMethods ==
  [list_groups |-> "list_joined_groups", join_group |-> "join_group_via_invite"]
  @@ [m \in {"set_group_name", "set_group_topic", "set_group_announce",
             "set_group_locked"} |-> "update_group_settings"]
  @@ [m \in {"add_group_participants", "remove_group_participants",
             "promote_group_participants", "demote_group_participants"}
        |-> "update_group_participants"]
  @@ Themselves({"get_group_info", "preview_group_invite", "leave_group", "create_group",
                 "get_group_invite_link"})
PresenceMethods ==
  Themselves({"mark_read", "send_presence", "send_chat_presence", "subscribe_presence"})
MediaMethods ==
  [m \in {"send_image", "send_video", "send_audio", "send_document", "send_sticker"} |-> "send_media"]
  @@ Themselves({"send_media", "download_media", "download_media_to"})
BoundClient == MessageMethods @@ GroupMethods @@ PresenceMethods @@ MediaMethods

(* Ctx: the methods that need a MessageEvent, those that do not, and the   *)
(* method of the client behind each.                                       *)
Replies ==
  [reply |-> "send_text", reply_image |-> "send_image", reply_video |-> "send_video",
   reply_audio |-> "send_audio", reply_document |-> "send_document",
   reply_sticker |-> "send_sticker", reply_react |-> "send_reaction",
   reply_edit |-> "send_edit", reply_revoke |-> "send_revoke"]
Unguarded == [send |-> "send_text"] @@ Themselves({"download_media", "download_media_to"})

(* The RPC behind a method of ctx, or of ctx.client. *)
ClientMethod(m) == IF m \in DOMAIN Replies THEN Replies[m]
                   ELSE IF m \in DOMAIN Unguarded THEN Unguarded[m] ELSE m
RpcOf(m) == Rpcs[BoundClient[ClientMethod(m)]]

(* What the type checker sees at _dispatcher.py 466, and that the tags of  *)
(* the group methods are those that _translate knows.                      *)
ASSUME ClientAssumption ==
  /\ DOMAIN BoundClient = DOMAIN AccountClient
  /\ \A m \in DOMAIN AccountClient : Rpcs[BoundClient[m]].result = AccountClient[m]
  /\ GroupOps = {GroupRpcs[r].op : r \in DOMAIN GroupRpcs}

(***************************************************************************)
(* Statuses.                                                               *)
(***************************************************************************)

Codes == {"CANCELLED", "INVALID_ARGUMENT", "DEADLINE_EXCEEDED", "NOT_FOUND", "ALREADY_EXISTS",
          "PERMISSION_DENIED", "RESOURCE_EXHAUSTED", "FAILED_PRECONDITION", "INTERNAL",
          "UNAVAILABLE", "DATA_LOSS"}
Hints == SUBSET {"jid", "invite"}
Status(code, hints) == [code |-> code, hints |-> hints]

OfGroups(st) ==
  LET invite == "invite" \in st.hints IN
  IF st.code = "PERMISSION_DENIED" THEN "GroupPermissionError"
  ELSE IF st.code = "INVALID_ARGUMENT"
       THEN IF invite THEN "InviteLinkInvalidError"
            ELSE IF "jid" \in st.hints THEN "InvalidJIDError" ELSE "GroupError"
  ELSE IF st.code = "NOT_FOUND" /\ invite THEN "InviteLinkRevokedError"
  ELSE "GroupError"

OfMedia(op, st) ==
  IF st.code = "INVALID_ARGUMENT"
     THEN IF "jid" \in st.hints THEN "InvalidJIDError" ELSE "MediaUnsupportedTypeError"
  ELSE IF st.code = "RESOURCE_EXHAUSTED" THEN "MediaTooLargeError"
  ELSE IF st.code = "DATA_LOSS" THEN "MediaCorruptedError"
  ELSE IF st.code = "NOT_FOUND" THEN "AccountNotFoundError"
  ELSE IF op = "send_media" THEN "MediaUploadError" ELSE "MediaDownloadError"

Rejected ==
  [send_message |-> "MessageSendError", send_reaction |-> "ReactionError",
   send_edit |-> "MessageEditError", send_revoke |-> "MessageRevokeError"]

OfTheRest(op, st) ==
  IF st.code = "NOT_FOUND" THEN "AccountNotFoundError"
  ELSE IF st.code = "ALREADY_EXISTS" THEN "AccountAlreadyExistsError"
  ELSE IF st.code = "FAILED_PRECONDITION"
       THEN IF op \in {"ping", "shutdown"} THEN "SidecarStartupError" ELSE "AccountError"
  ELSE IF st.code = "INVALID_ARGUMENT"
       THEN IF "jid" \in st.hints THEN "InvalidJIDError"
            ELSE IF op \in DOMAIN Rejected THEN Rejected[op] ELSE "ConfigurationError"
  ELSE "TransportError"

Translate(op, st) ==
  IF st.code = "UNAVAILABLE" THEN "SidecarCrashedError"
  ELSE IF op \in GroupOps THEN OfGroups(st)
  ELSE IF op \in {"send_media", "download_media"} THEN OfMedia(op, st)
  ELSE OfTheRest(op, st)

(* What a caller may get of any of these statuses. *)
Exceptions(op, statuses) == {Translate(op, st) : st \in statuses}

(***************************************************************************)
(* What the sidecar's unary handlers answer when they do not succeed.      *)
(***************************************************************************)

(* Before WhatsApp is asked: no account key; an account that is not        *)
(* registered, whose key the detail quotes; a request that does not        *)
(* validate, whose JID the detail quotes.  A target_sender_jid that does   *)
(* not parse is INTERNAL.                                                  *)
Refusals(op) ==
  {Status(code, h) : code \in {"INVALID_ARGUMENT", "NOT_FOUND"}, h \in Hints}
    \cup (IF op \in {"send_reaction", "send_revoke"} THEN {Status("INTERNAL", {})} ELSE {})

(* WhatsApp itself says no; only the group handlers tell that apart. *)
Denials(op) ==
  IF op \in GroupOps
  THEN {Status("INVALID_ARGUMENT", {"invite"}), Status("NOT_FOUND", {"invite"}),
        Status("NOT_FOUND", {}), Status("PERMISSION_DENIED", {})}
  ELSE {}

(* A fault: whatever a send returns is held against the request. *)
FailuresRejected(op) ==
  {Status(IF op \in DOMAIN Rejected THEN "INVALID_ARGUMENT" ELSE "UNAVAILABLE", {})}

(* Everything else that whatsmeow may return.  An error of a reaction, an  *)
(* edit or a revoke is held against the request if its text happens to     *)
(* contain "required"; what else the text contains is anybody's guess.     *)
Failures(op) ==
  IF op \notin DOMAIN Rejected THEN {Status("UNAVAILABLE", {})}
  ELSE {Status("INTERNAL", {})}
         \cup (IF op = "send_message" THEN {} ELSE {Status("INVALID_ARGUMENT", h) : h \in Hints})

(* The operations whose answer carries nothing: their callers cannot tell  *)
(* an empty response from a success.                                       *)
Silent == {Rpcs[r].op : r \in {q \in DOMAIN Rpcs : Rpcs[q].result = "None"}}
=============================================================================

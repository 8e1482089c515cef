-------------------------------- MODULE Wire --------------------------------
(***************************************************************************)
(* What the SDK makes of the envelopes of StreamEvents: the event classes  *)
(* of types.py, their attributes, and event_from_proto.                    *)
(*                                                                         *)
(* A wire message is a record: the field of the oneof that is set (kind),  *)
(* the account it is about, and the fields of the payload that are not at  *)
(* their default (data, a function from paths of field names to values).   *)
(* Values are strings; the empty string, "False" and "None" are the false  *)
(* ones.  An event is its class and its attributes, a function from        *)
(* attribute paths, as <<"media", "kind">>, to values.                     *)
(***************************************************************************)
EXTENDS TLC, FiniteSets, Sequences

Truthy(v) == v \notin {"", "False", "None", "0"}
Bool(b) == IF b THEN "True" ELSE "False"

(* The enumerations: names without the prefix of the proto. *)
GroupParticipantAction == {"ADD", "REMOVE", "PROMOTE", "DEMOTE"}
ReceiptType == {"DELIVERED", "READ", "PLAYED", "SERVER"}
ChatPresenceState == {"COMPOSING", "PAUSED"}
ChatPresenceMedia == {"TEXT", "AUDIO"}
MediaKind == {"IMAGE", "VIDEO", "AUDIO", "DOCUMENT", "STICKER"}

(* A number that no member has, from a newer sidecar, is UNSPECIFIED. *)
FromProto(members, v) == IF v \in members THEN v ELSE "UNSPECIFIED"

(* The attributes that every event has, and those of each class. *)
EventBase == {"seq", "sidecar_id", "account_key", "account_jid", "observed_at"}
MessageFields == {"message_id", "chat_jid", "sender_jid", "from_me", "is_group",
                  "text", "reply_to_message_id", "timestamp", "caption", "media"}
MessagePredicates == {"is_dm", "is_reply", "has_media", "is_image", "is_video",
                      "is_audio", "is_document", "is_sticker"}
StatusFields ==
  [ConnectedEvent    |-> {},
   DisconnectedEvent |-> {"reason"},
   PairSuccessEvent  |-> {"jid", "business_name", "platform"},
   LoggedOutEvent    |-> {"reason"},
   QREvent           |-> {"code", "ttl_seconds"},
   UnknownEvent      |-> {"go_type"}]
GroupInfoFields == {"jid", "name", "topic", "owner_jid", "creation_time",
                    "participants", "is_announce", "is_locked", "is_ephemeral",
                    "ephemeral_duration_seconds", "membership_approval_mode"}
GroupFields ==
  [JoinedGroupEvent            |-> {"group_info", "join_reason"},
   GroupInfoEvent              |-> {"group_info"},
   GroupParticipantUpdateEvent |-> {"group_jid", "action", "participant_jids", "actor_jid"}]
SoftFields ==
  [ReceiptEvent      |-> {"chat_jid", "sender_jid", "message_ids", "receipt_type", "timestamp"},
   PresenceEvent     |-> {"from_jid", "unavailable", "last_seen"},
   ChatPresenceEvent |-> {"chat_jid", "sender_jid", "state", "media"}]
MediaInfoFields == {"kind", "mime_type", "size", "direct_path", "media_key",
                    "file_sha256", "file_enc_sha256", "caption", "file_name",
                    "thumbnail", "width", "height", "duration_seconds",
                    "voice_note", "animated", "url"}

FieldsOf == [MessageEvent |-> MessageFields] @@ StatusFields @@ GroupFields @@ SoftFields
Event == {"MessageEvent"} \cup DOMAIN StatusFields \cup DOMAIN GroupFields \cup DOMAIN SoftFields

(* event_from_proto: which class each field of the oneof becomes. *)
ClassOf ==
  [message |-> "MessageEvent", media_message |-> "MessageEvent",
   connected |-> "ConnectedEvent", disconnected |-> "DisconnectedEvent",
   pair_success |-> "PairSuccessEvent", logged_out |-> "LoggedOutEvent",
   qr |-> "QREvent", unknown |-> "UnknownEvent",
   joined_group |-> "JoinedGroupEvent", group_info |-> "GroupInfoEvent",
   group_participant_update |-> "GroupParticipantUpdateEvent",
   receipt |-> "ReceiptEvent", presence |-> "PresenceEvent",
   chat_presence |-> "ChatPresenceEvent"]

(* An envelope with no payload that this SDK knows is dropped. *)
Recognised(msg) == msg.kind \in DOMAIN ClassOf

Flags == {"from_me", "is_group", "unavailable", "voice_note", "animated",
          "is_announce", "is_locked", "is_ephemeral"}
Counts == {"ttl_seconds", "size", "width", "height", "duration_seconds",
           "ephemeral_duration_seconds"}
Times == {"timestamp", "last_seen", "creation_time"}

(* What a field that is not set reads as: the proto3 default; None for a time. *)
Default(f) == CASE f \in Flags -> "False" [] f \in Counts -> "0"
                [] f \in Times -> "None"  [] OTHER -> ""

(* One field of the payload; an enumeration is looked up. *)
Read(msg, path) ==
  LET v == IF path \in DOMAIN msg.data THEN msg.data[path] ELSE Default(path[Len(path)])
      class == ClassOf[msg.kind]
  IN  CASE path = <<"action">>        -> FromProto(GroupParticipantAction, v)
        [] path = <<"receipt_type">>  -> FromProto(ReceiptType, v)
        [] path = <<"state">>         -> FromProto(ChatPresenceState, v)
        [] path = <<"media", "kind">> -> FromProto(MediaKind, v)
        [] path = <<"media">> /\ class = "ChatPresenceEvent" -> FromProto(ChatPresenceMedia, v)
        [] OTHER -> v

(* A media_message is folded into a MessageEvent without text; a message   *)
(* has no media and no caption.                                            *)
MessageField(msg, f) ==
  CASE f = "media" -> IF msg.kind = "media_message" THEN "info" ELSE "None"
    [] f = "text" /\ msg.kind = "media_message" -> ""
    [] f = "caption" /\ msg.kind = "message" -> ""
    [] OTHER -> Read(msg, <<f>>)

MediaIs(msg, kind) == msg.kind = "media_message" /\ Read(msg, <<"media", "kind">>) = kind

MessagePredicate(msg, p) ==
  Bool(CASE p = "is_dm"       -> ~Truthy(Read(msg, <<"is_group">>))
         [] p = "is_reply"    -> Truthy(Read(msg, <<"reply_to_message_id">>))
         [] p = "has_media"   -> msg.kind = "media_message"
         [] p = "is_image"    -> MediaIs(msg, "IMAGE")
         [] p = "is_video"    -> MediaIs(msg, "VIDEO")
         [] p = "is_audio"    -> MediaIs(msg, "AUDIO")
         [] p = "is_document" -> MediaIs(msg, "DOCUMENT")
         [] p = "is_sticker"  -> MediaIs(msg, "STICKER"))

(* The paths at which an event of this message has an attribute. *)
Paths(msg) ==
  LET class == ClassOf[msg.kind]
      flat  == EventBase \cup FieldsOf[class]
                 \cup (IF class = "MessageEvent" THEN MessagePredicates ELSE {})
  IN  {<<f>> : f \in flat}
        \cup (IF "group_info" \in flat THEN {<<"group_info", f>> : f \in GroupInfoFields} ELSE {})
        \cup (IF msg.kind = "media_message" THEN {<<"media", f>> : f \in MediaInfoFields} ELSE {})

EventFromProto(msg) ==
  [class |-> ClassOf[msg.kind],
   attrs |-> [path \in Paths(msg) |->
                CASE path = <<"account_key">> -> msg.account
                  [] path \in {<<f>> : f \in MessagePredicates} -> MessagePredicate(msg, path[1])
                  [] ClassOf[msg.kind] = "MessageEvent" /\ path \in {<<f>> : f \in MessageFields}
                       -> MessageField(msg, path[1])
                  [] path = <<"group_info">> -> "info"
                  [] OTHER -> Read(msg, path)]]
=============================================================================

------------------------------- MODULE Updates -------------------------------
(***************************************************************************)
(* How an event becomes an update: the cold-start table and the context    *)
(* factory (context.ts).  It is computation; BotDispatch runs it.          *)
(***************************************************************************)
EXTENDS Naturals, Sequences

CONSTANTS
  Self,        \* the bot's user id
  NoCommand,   \* ctx.command = null
  NoRoute      \* Router.resolve found nothing

(***************************************************************************)
(* A message body is what the grammar sees of it: whether it begins by     *)
(* addressing the bot ("mybot: ..."), the prefix of the first token, its   *)
(* folded name, the "@bot" suffix and the argument tokens.                 *)
(***************************************************************************)
NoBody == [addressed |-> FALSE, prefix |-> "", name |-> "", mention |-> "none", args |-> << >>]

(***************************************************************************)
(* coldStartKindForEvent and shouldDispatchOnColdStart.                    *)
(***************************************************************************)
ColdStartKind(e) ==
  CASE e.type = "dev.aiomatrix.host" -> "host_capabilities_state"
    [] e.type = "m.reaction" -> "reaction"
    [] e.type = "m.room.redaction" -> "redaction"
    [] e.type = "m.room.member" -> "membership"
    [] e.type = "dev.aiomatrix.callback" -> "callback_query"
    [] e.type = "dev.aiomatrix.mini_app_data" -> "mini_app_data"
    [] e.edit -> "edited_message"
    [] e.type \in {"m.room.message", "m.sticker"} -> "message"
    [] OTHER -> "raw_event"

ShouldDispatchOnColdStart(kind, bootstrap) ==
  bootstrap => kind = "host_capabilities_state"

(***************************************************************************)
(* ContextFactory.fromRoomEvent: the type of the context, or "none".       *)
(* "pressed" says that readCallbackEvent resolved the press, be it the     *)
(* callback event or the "!cb <token>" text.                               *)
(***************************************************************************)
UpdateTypeOf(e) ==
  CASE e.pressed -> "callback_query"
    [] ~e.pressed /\ e.miniApp -> "mini_app_data"
    [] OTHER ->
       CASE e.type = "m.room.message" ->
              IF ~e.msgtype THEN "none" ELSE IF e.edit THEN "edited_message" ELSE "message"
         [] e.type = "m.reaction" -> "reaction"
         [] e.type = "m.room.redaction" -> "redaction"
         [] e.type = "m.room.member" -> IF e.membership = "invite" THEN "invite" ELSE "membership"
         [] e.type \in {"m.poll.response", "org.matrix.msc3381.poll.response"} -> "poll_response"
         [] OTHER -> "raw_event"

(* The context's own fields.  The text of an edit is its new content, the  *)
(* reply of a threaded message only counts when it is not the fallback.    *)
ContextOf(e, type) ==
  [updateType |-> type, roomId |-> e.room, senderId |-> e.sender, isDirect |-> e.direct,
   text |-> IF e.edit THEN e.newBody ELSE e.body, mentions |-> e.mentions,
   power |-> e.power, membership |-> e.membership, isReply |-> e.replyTo /\ ~e.fallingBack]
=============================================================================

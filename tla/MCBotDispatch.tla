---------------------------- MODULE MCBotDispatch ----------------------------
(* One bot, two concurrent updates, one waitFor() for messages of alice, a  *)
(* root router with a child that is only entered in direct rooms, and a     *)
(* second root router.                                                      *)
EXTENDS RoutedDispatch

Blank ==
  [type |-> "m.room.message", room |-> "dm", sender |-> "alice", direct |-> TRUE, body |-> NoBody,
   newBody |-> NoBody, edit |-> FALSE, msgtype |-> TRUE, pressed |-> FALSE, miniApp |-> FALSE,
   membership |-> "join", mentions |-> {}, power |-> 0, replyTo |-> FALSE, fallingBack |-> FALSE]

Say(name, prefix, args) == [NoBody EXCEPT !.name = name, !.prefix = prefix, !.args = args]

Word == [kind |-> "word", n |-> 0]

Days3 == [kind |-> "int", n |-> 3]

(* "/ban someone" in a direct room: the argument does not fit the first     *)
(* route's schema; bob's edit to "/mute 3" in a group; and a message of the *)
(* bot itself and of a user who is denied access.                           *)
EventSet ==
  { [Blank EXCEPT !.body = Say("ban", "/", <<Word>>)],
    [Blank EXCEPT !.room = "group", !.direct = FALSE, !.sender = "bob", !.edit = TRUE,
                  !.newBody = Say("mute", "/", <<Days3>>)] }
  \cup {[Blank EXCEPT !.sender = who, !.body = Say("ban", "/", << >>)] : who \in {"bot", "mallory"}}

Others == { [Blank EXCEPT !.type = "m.room.member", !.membership = "invite"] }

Cmd(names, schema) ==
  [op |-> "command", names |-> names, prefixes |-> {"/", "!"}, allowBare |-> "direct",
   requireMention |-> FALSE, scope |-> "all", minPower |-> 0, schema |-> schema]

Days == << [kind |-> "int", optional |-> FALSE, min |-> 1, max |-> 7] >>

Route(name, types, filters) == [name |-> name, types |-> types, filters |-> filters]

Router(routes, children, include, parent, swallows) ==
  [routes |-> routes, children |-> children, include |-> include, parent |-> parent, swallows |-> swallows]

RouterTree ==
  [main |-> Router(<< Route("days", {"message", "edited_message"}, << Cmd({"ban", "mute"}, Days) >>) >>,
                   <<"dms">>, << >>, "", TRUE),
   dms |-> Router(<< Route("any", {"message"}, << [op |-> "not", f |-> [op |-> "from", users |-> {"bob"}]],
                                                 Cmd({"ban"}, << >>) >>) >>,
                  << >>, << [op |-> "dm"] >>, "main", FALSE),
   extra |-> Router(<< Route("invited", {"invite", "message"},
                             << [op |-> "or", fs |-> << [op |-> "membership", values |-> {"invite"}],
                                                       Cmd({"ban"}, << >>) >>] >>) >>,
                    << >>, << >>, "", FALSE)]

RootSeq == <<"main", "extra">>

OuterSeq == <<"skipSelf", "accessControl", "throttle", "once", "rateLimitBackoff", "errorReply">>

WaiterRecords == [w \in {"w1"} |-> [room |-> {"dm"}, sender |-> {"alice"}]]
=============================================================================

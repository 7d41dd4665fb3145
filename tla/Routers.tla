------------------------------- MODULE Routers -------------------------------
(***************************************************************************)
(* How an update finds its handler: the command grammar (commands.ts,      *)
(* command-args.ts), the filters (filters.ts) and the router tree          *)
(* (router.ts).  It is computation; RoutedDispatch gives it to             *)
(* BotDispatch, which runs it.                                             *)
(***************************************************************************)
EXTENDS Updates

CONSTANT Tree   \* the routers: name -> [routes, children, include, parent, swallows]

(* parseCommand: an empty name (a lone prefix, an empty body) is no        *)
(* command, and a token without a prefix only where bare names are taken.  *)
ParseCommand(body, prefixes, allowBare) ==
  IF body.name = "" \/ (body.prefix \notin prefixes /\ ~allowBare)
  THEN NoCommand
  ELSE [command |-> body.name, mention |-> body.mention, args |-> body.args]

(* coerceToken: a token is [kind |-> "word" | "int" | "userId" | "roomId" | *)
(* "bool", n |-> its number].                                              *)
Coerces(token, spec) ==
  \/ spec.kind = "string"
  \/ spec.kind \in {"userId", "roomId"} /\ token.kind = spec.kind
  \/ spec.kind = "bool" /\ (token.kind = "bool" \/ (token.kind = "int" /\ token.n \in {0, 1}))
  \/ spec.kind \in {"int", "float"} /\ token.kind = "int" /\ spec.min <= token.n /\ token.n <= spec.max

(* parseCommandArgs: the i-th key takes the i-th token until a "rest" key  *)
(* has taken them all; tokens beyond the schema are ignored.               *)
ArgsFit(tokens, schema) ==
  \A i \in DOMAIN schema :
    LET eaten == \E j \in 1..(i - 1) : schema[j].kind = "rest"
        absent == eaten \/ i > Len(tokens)
    IN IF absent THEN schema[i].optional
       ELSE schema[i].kind = "rest" \/ Coerces(tokens[i], schema[i])

(***************************************************************************)
(* Filters.  A filter is a record with an "op"; a Command filter also      *)
(* writes ctx.command, even when its argument schema then refuses.         *)
(***************************************************************************)
(* Command(...) up to the assignment of ctx.command. *)
CommandMatches(f, ctx) ==
  LET allowBare == f.allowBare = "yes" \/ (f.allowBare # "no" /\ ctx.isDirect)
      parsed == ParseCommand(ctx.text, f.prefixes, allowBare)
  IN /\ ctx.updateType \in {"message", "edited_message"}
     /\ parsed # NoCommand
     /\ parsed.command \in f.names
     /\ parsed.mention \in {"none", "self"}
     /\ f.requireMention /\ ~ctx.isDirect /\ parsed.mention = "none" => Self \in ctx.mentions
     /\ f.scope = "direct" => ctx.isDirect
     /\ f.scope = "group" => ~ctx.isDirect
     /\ ctx.power >= f.minPower

RECURSIVE Passes(_, _)
Passes(f, ctx) ==
  CASE f.op = "command" -> CommandMatches(f, ctx) /\ ArgsFit(ctx.text.args, f.schema)
    [] f.op = "and" -> \A i \in DOMAIN f.fs : Passes(f.fs[i], ctx)
    [] f.op = "or" -> \E i \in DOMAIN f.fs : Passes(f.fs[i], ctx)
    [] f.op = "not" -> ~Passes(f.f, ctx)
    [] f.op = "dm" -> ctx.isDirect
    [] f.op = "from" -> ctx.senderId \in f.users
    [] f.op = "room" -> ctx.roomId \in f.rooms
    [] f.op = "hasPower" -> ctx.power >= f.level
    [] f.op = "membership" -> ctx.membership \in f.values
    [] f.op = "reply" -> ctx.isReply
    [] f.op = "mentionsMe" -> Self \in ctx.mentions

(* passesFilters: in order, and the first that fails ends it. *)
PassesFilters(filters, ctx) == \A i \in DOMAIN filters : Passes(filters[i], ctx)

(* The filters of a route that are evaluated, and so may write ctx.command. *)
Evaluated(filters, ctx) ==
  {i \in DOMAIN filters : \A j \in 1..(i - 1) : Passes(filters[j], ctx)}

(* ctx.command once these filters were tried. *)
CommandAfter(filters, ctx, before) ==
  IF \E i \in Evaluated(filters, ctx) : filters[i].op = "command" /\ CommandMatches(filters[i], ctx)
  THEN ctx.text.name ELSE before

(***************************************************************************)
(* The router tree: a router is [routes, children, include]; resolve()     *)
(* tries the routes of a router in order and then its children, skipping   *)
(* a child whose include filter refuses.  The result carries ctx.command.  *)
(***************************************************************************)
(* resolve() that asks the children before the router's own routes. *)
RECURSIVE ResolveChildrenFirst(_, _, _)
ResolveChildrenFirst(r, ctx, cmd) ==
  LET kids == Tree[r].children
      own == {i \in DOMAIN Tree[r].routes :
                /\ Tree[r].routes[i].types = {} \/ ctx.updateType \in Tree[r].routes[i].types
                /\ PassesFilters(Tree[r].routes[i].filters, ctx)}
      open == {i \in DOMAIN kids : ResolveChildrenFirst(kids[i], ctx, cmd).route # NoRoute}
  IN IF open # {} THEN ResolveChildrenFirst(kids[CHOOSE i \in open : \A j \in open : i <= j], ctx, cmd)
     ELSE IF own # {} THEN [router |-> r, cmd |-> cmd,
                            route |-> Tree[r].routes[CHOOSE i \in own : \A j \in own : i <= j].name]
     ELSE [router |-> r, route |-> NoRoute, cmd |-> cmd]

RECURSIVE ResolveRoutes(_, _, _, _), ResolveChildren(_, _, _, _), ResolveRouter(_, _, _)
ResolveRoutes(routes, i, ctx, cmd) ==
  IF i > Len(routes) THEN [route |-> NoRoute, cmd |-> cmd]
  ELSE LET rt == routes[i]
           typed == rt.types = {} \/ ctx.updateType \in rt.types
           left == IF typed THEN CommandAfter(rt.filters, ctx, cmd) ELSE cmd
       IN IF typed /\ PassesFilters(rt.filters, ctx) THEN [route |-> rt.name, cmd |-> left]
          ELSE ResolveRoutes(routes, i + 1, ctx, left)

ResolveChildren(children, i, ctx, cmd) ==
  IF i > Len(children) THEN [router |-> "", route |-> NoRoute, cmd |-> cmd]
  ELSE LET child == children[i]
           gate == Tree[child].include
           found == ResolveRouter(child, ctx, CommandAfter(gate, ctx, cmd))
       IN IF ~PassesFilters(gate, ctx)
          THEN ResolveChildren(children, i + 1, ctx, CommandAfter(gate, ctx, cmd))
          ELSE IF found.route # NoRoute THEN found
          ELSE ResolveChildren(children, i + 1, ctx, found.cmd)

ResolveRouter(r, ctx, cmd) ==
  LET own == ResolveRoutes(Tree[r].routes, 1, ctx, cmd)
  IN IF own.route # NoRoute THEN [router |-> r, route |-> own.route, cmd |-> own.cmd]
     ELSE ResolveChildren(Tree[r].children, 1, ctx, own.cmd)

(* handleError: the router that matched, then its parents; does one of     *)
(* them return true?                                                       *)
RECURSIVE HandleRouterError(_)
HandleRouterError(r) ==
  Tree[r].swallows \/ (Tree[r].parent # "" /\ HandleRouterError(Tree[r].parent))
=============================================================================

--------------------------- MODULE RoutedDispatch ---------------------------
(***************************************************************************)
(* The dispatcher of BotDispatch with the routers of Routers: Resolve is   *)
(* ResolveRouter and HandleError is HandleRouterError.  What it adds is    *)
(* which handler runs.                                                     *)
(***************************************************************************)
EXTENDS BotDispatch, Routers

(* Registration order, spelt out: the routes of the tree in preorder, each *)
(* with the include filters above it.                                      *)
RECURSIVE Preorder(_, _)
Preorder(r, gates) ==
  LET here == gates \o Tree[r].include
      own == [i \in DOMAIN Tree[r].routes |-> [rt |-> Tree[r].routes[i], gates |-> here]]
      kids == [i \in DOMAIN Tree[r].children |-> Preorder(Tree[r].children[i], here)]
  IN own \o FlattenSeq(kids)

AllRoutes == FlattenSeq([i \in DOMAIN Roots |-> Preorder(Roots[i], << >>)])

FirstRoute(c) ==
  LET fits == {i \in DOMAIN AllRoutes :
                 /\ PassesFilters(AllRoutes[i].gates, c)
                 /\ AllRoutes[i].rt.types = {} \/ c.updateType \in AllRoutes[i].rt.types
                 /\ PassesFilters(AllRoutes[i].rt.filters, c)}
  IN AllRoutes[CHOOSE i \in fits : \A j \in fits : i <= j].rt

(* The handler that runs is the first in registration order, parents       *)
(* before children, whose own and inherited filters pass, and it sees the  *)
(* command of its own Command filter even when a route tried before it     *)
(* wrote another one into the context.                                     *)
FirstRouteWins ==
  \A u \in Updates : InChain(u, "handler") =>
    LET rt == FirstRoute(ctx[u])
    IN /\ found[u].route = rt.name
       /\ \A i \in DOMAIN rt.filters : rt.filters[i].op = "command" => found[u].cmd \in rt.filters[i].names
=============================================================================

------------------------------ MODULE MCBotLife ------------------------------
(* Programs for a bot: jobs that are slow, run once or run at intervals;     *)
(* handlers that overlap on one key, clear it, or fill the storage; a        *)
(* conversation; a second start().                                           *)
EXTENDS BotLife, TLC

CONSTANTS slow, once, prune, add, both, mark, reset, wipe, ka, kb, kc

EveryOf == slow :> 1 @@ once :> 0 @@ prune :> 1
DelayOf == slow :> 0 @@ once :> 1 @@ prune :> 1
MaxRunsOf == slow :> 2 @@ once :> 1 @@ prune :> 0

Kinds == add :> "updateData" @@ both :> "set" @@ mark :> "setState" @@ reset :> "setData" @@ wipe :> "clear"
KeysOf == add :> ka @@ both :> ka @@ mark :> ka @@ reset :> kb @@ wipe :> ka

Program(b, cr, cs, js, t, n, m) ==
  [backend |-> b, crypto |-> cr, calls |-> cs, jobs |-> js, talk |-> t, starts |-> n, crashes |-> m]

SetupSet ==
  {Program("memory", TRUE, {}, {prune}, FALSE, 2, 0),
   Program("memory", FALSE, {}, {slow}, FALSE, 2, 0),
   Program("memory", FALSE, {}, {slow, once}, FALSE, 1, 0),
   Program("memory", FALSE, {add, both, reset}, {}, FALSE, 1, 0),
   Program("file", FALSE, {both, wipe}, {}, FALSE, 1, 0),
   Program("file", FALSE, {add, wipe}, {}, FALSE, 1, 1),
   Program("redis", FALSE, {add, mark}, {}, FALSE, 1, 0),
   Program("memory", FALSE, {reset}, {}, TRUE, 1, 0),
   Program("file", FALSE, {}, {}, TRUE, 1, 1)}
=============================================================================

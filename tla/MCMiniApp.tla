------------------------------ MODULE MCMiniApp ------------------------------
EXTENDS MiniApp, TLC

AnswererSymmetry == Permutations(Answerers)

(* Each setup with the bounds that let its own hazards happen. *)
SetupSet ==
  {\* the page and its windows
   [nonces |-> "memory", queries |-> "memory", nonceTtl |-> 1, gated |-> FALSE, outbox |-> FALSE, knowing |-> TRUE,
    pinned |-> FALSE,
    bounds |-> [time |-> 0, launches |-> 2, requests |-> 1, restarts |-> 0, answers |-> 0, origins |-> Origins]],
   [nonces |-> "memory", queries |-> "memory", nonceTtl |-> 1, gated |-> FALSE, outbox |-> FALSE, knowing |-> TRUE,
    pinned |-> TRUE,
    bounds |-> [time |-> 0, launches |-> 2, requests |-> 1, restarts |-> 0, answers |-> 0, origins |-> Origins]],
   \* launches traded again, evicted and lost nonces
   [nonces |-> "memory", queries |-> "memory", nonceTtl |-> 2, gated |-> FALSE, outbox |-> FALSE, knowing |-> TRUE,
    pinned |-> TRUE,
    bounds |-> [time |-> 5, launches |-> 2, requests |-> 3, restarts |-> 1, answers |-> 0, origins |-> {"host"}]],
   \* ... in Redis for just as long, with a resolver that may know nothing
   [nonces |-> "async", queries |-> "signed", nonceTtl |-> 1, gated |-> TRUE, outbox |-> FALSE, knowing |-> FALSE,
    pinned |-> TRUE,
    bounds |-> [time |-> 6, launches |-> 1, requests |-> 3, restarts |-> 0, answers |-> 0, origins |-> {}]],
   \* queries claimed in Redis, in time or late
   [nonces |-> "memory", queries |-> "signedAsync", nonceTtl |-> 1, gated |-> FALSE, outbox |-> FALSE, knowing |-> TRUE,
    pinned |-> TRUE,
    bounds |-> [time |-> 5, launches |-> 1, requests |-> 2, restarts |-> 1, answers |-> 3, origins |-> {}]],
   \* ... in a file, with an outbox
   [nonces |-> "memory", queries |-> "signed", nonceTtl |-> 1, gated |-> FALSE, outbox |-> TRUE, knowing |-> TRUE,
    pinned |-> TRUE,
    bounds |-> [time |-> 0, launches |-> 2, requests |-> 4, restarts |-> 1, answers |-> 3, origins |-> {"host"}]],
   \* ... in the memory of the process
   [nonces |-> "memory", queries |-> "memory", nonceTtl |-> 1, gated |-> FALSE, outbox |-> FALSE, knowing |-> TRUE,
    pinned |-> TRUE,
    bounds |-> [time |-> 3, launches |-> 2, requests |-> 3, restarts |-> 1, answers |-> 2, origins |-> {"host"}]]}
=============================================================================

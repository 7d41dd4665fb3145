\* Three messages, one of them without a transaction id; three crashes.
SPECIFICATION OutboxSpec
CONSTANTS
  Messages = {m1, m2, m3}
  Keyed = {m1, m2}
  MaxAttempts = 2
  MaxCrashes = 3
INVARIANTS
  NothingForgotten
  KeyedOnce

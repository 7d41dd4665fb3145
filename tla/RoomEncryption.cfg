\* One room, two concurrent sends.
SPECIFICATION Spec
CONSTANTS
  Rooms = {r1}
  Senders = {s1, s2}
INVARIANTS
  NoPlaintextOnceTold
  PlainIsAuthoritative

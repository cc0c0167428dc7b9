SPECIFICATION FairSpec
CONSTANTS
  Clients = {c1}
  SendQueue = 2
  ResyncAfter = 2
  MaxChanges = 3
INVARIANTS NoSendOnClosed ResyncIsDueExactly LossOnlyByRefusalOrJoining
           CountedAtMostTwice
PROPERTIES ResyncHappens ChangesArrive HandlersEnd

SPECIFICATION FairSpec
CONSTANTS
  Worker = {w1, w2}
INVARIANT OldProfileKept
INVARIANT ArmedUntilVerified
INVARIANT NeverDisconnected
PROPERTY AddressVerified
PROPERTY Recovers

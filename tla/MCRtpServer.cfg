SPECIFICATION RtpServerFairSpec
CONSTANTS
  Servers = {1, 2}
  Sessions = {3, 4}
  Procs = {1, 2}
INVARIANT ClaimHasOwner
INVARIANT FedByOne
INVARIANT NotStranded
PROPERTY UnusedServerEnds
PROPERTY DeniedLosesClaim
CHECK_DEADLOCK FALSE

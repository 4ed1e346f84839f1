SPECIFICATION Spec
CONSTANTS
  Devices = {d1, d2}
  Users = {u1}
  Nobody = nobody
  Wallets = {w0, w1}
  EmptyWallet = w0
  NoRow = norow
  Rotations = {TRUE}
  MaxFailures = 1
  MaxQueue = 1
  Private = {d2}
CONSTRAINT PrivateProfiles
PROPERTIES
  Authoritative
  LatchMonotone

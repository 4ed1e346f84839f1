SPECIFICATION OnboardingSpec
CONSTANTS
  Devices = {d1}
  Users = {u1, u2}
  Nobody = nobody
  Wallets = {w0}
  EmptyWallet = w0
  NoRow = norow
  Rotations = {TRUE}
  MaxFailures = 1
  MaxQueue = 1
INVARIANT OnboardingIsOwn

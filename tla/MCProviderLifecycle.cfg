SPECIFICATION FairSpec
CONSTANTS
  a = a
  b = b
  c = c
  x = x
  y = y
  NoName = NoName
  Threads = {a, b}
  Names = {x}
  Starters = {a, b}
  Stoppers = {a, b}
  Servers = {b}
  Registers <- OneAbility
  MaxBindings = 1
  MaxGen = 4
  MaxAct = 2
INVARIANTS FencedRenewal ActiveIsServing StoppedIsQuiet ConnectionsOwned NoRenewalWhileRevoking PublicationIsHonest
PROPERTIES HostIsControlled KeepsContractMoving LapseIsNoticed ServeRecovers
CHECK_DEADLOCK FALSE

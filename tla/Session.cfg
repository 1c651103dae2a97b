\* Token checks, polls and a user's commands over one account, with all that can go wrong.
SPECIFICATION FairSpec
CONSTANTS
  background = background
  command = command
  na = na
  eu = eu
  Tasks = {background, command}
  Users = {command}
  Datacenters = {na, eu}
  Asked <- Apart
  Interval = 1
  MaxSession = 3
INVARIANTS
  TypeOK
  OneLoginAtATime
  NoSelfDisplacement
  RetryIsFresh
  IInv
PROPERTIES
  EveryRequestEnds
  NoRetryLoop
  ImplementsAccount
  SessionRecovers

SPECIFICATION FairSpec
CONSTANTS
  Prog <- CallProg
  forStackMax = 2
  gosubStackMax = 2
  fnRecursionMax = 2
  UserOps = {"int", "edit"}
INVARIANTS
  RunsInItsOwnScope
PROPERTIES
  HandlersDoNotNest
  InterruptsAreObeyed
  InterruptsAreNotLost

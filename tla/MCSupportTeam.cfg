SPECIFICATION Spec
CONSTANTS
  Bot <- Bots
  Poll <- Bots
  Owner <- Self
  Sender <- Goroutines
  Scripts <- AllScripts
  MaxQueueDepth = 2
  MaxFaults = 1
INVARIANTS
  TypeOK
  NoLostWakeup
  HangsOnlyAfterRace
  AnswersOwnRequest
  OneChannel
PROPERTIES
  ImplementsFeed
  DriverReturns

SPECIFICATION Spec
CONSTANTS
  MaxServices = 2
  Budgets <- Cases
  MaxInFlight = 2
  GuiCommands = {"status", "configure", "start", "stop"}
  OperatorCommands = {"configure", "start", "pause", "stop"}
  SoakBatches = 1
INVARIANTS
  TypeOK
  StopIsMeant
  ViewIsTrue
  ReportIsOwn
PROPERTY GuiIsAnswered
CHECK_DEADLOCK FALSE

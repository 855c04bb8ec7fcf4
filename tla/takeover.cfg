SPECIFICATION Spec
CONSTANTS
  MaxServices = 2
  Budgets <- Cases
  MaxInFlight = 2
  GuiCommands = {"status", "configure", "start", "stop"}
  OperatorCommands = {"configure", "start", "pause", "stop"}
  SoakBatches = 1
INVARIANT RecordingIsReachable
CHECK_DEADLOCK FALSE

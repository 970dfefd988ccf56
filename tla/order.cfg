CONSTANTS
  Orders <- MCOrders
  MaxCalls = 3
  MaxTokens = 2
  Supported = {"a", "b"}
  Causes <- MCCauses
SPECIFICATION Spec
INVARIANTS
  TypeOK
  CollectedIsDelivered
  
PROPERTIES
  RunViewSpec
\* An order is executed once.
CHECK_DEADLOCK FALSE

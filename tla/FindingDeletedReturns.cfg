SPECIFICATION BoxesSpec
CONSTANTS
 NOps = 2 NBoxes = 1 BoxFaults = 0
CHECK_DEADLOCK FALSE
PROPERTIES
 DeletedForGood

SPECIFICATION Spec
CONSTANTS
  Setups <- MCSetups
  Longest = 5
INVARIANTS PlaysMeaning
PROPERTIES GrowsOnly

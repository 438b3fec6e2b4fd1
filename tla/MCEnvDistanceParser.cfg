CONSTANTS
  Strings <- MCStrings
  Width = 16
SPECIFICATION Spec
INVARIANT ParsesAsGrammar
\* the parser returns: the state after it has no successor
CHECK_DEADLOCK FALSE

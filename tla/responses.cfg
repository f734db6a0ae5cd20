\* Borders of a byte and of a word.
CONSTANTS
  Ids <- SomeIds
  Lengths <- SomeLengths
SPECIFICATION Spec
INVARIANTS ResponsesUnderstood

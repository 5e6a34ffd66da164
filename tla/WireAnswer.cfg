SPECIFICATION Spec
CONSTANTS
  ShortLimit = 3
  FieldSize = 8
  FrameSizes = {1, 4, 7}
  BodySizes = {1, 3}
  HeadSize = 2
  KeyLengths = {0, 15, 16, 19, 20, 24}
INVARIANTS
  AnswersInStep

SPECIFICATION Spec
CONSTANTS
  Base = 32
  Numbers <- MCNumbers
  Texts <- MCTexts
INVARIANTS
  AnswersExact
  RequestsFaithful
  RefusedCleanly

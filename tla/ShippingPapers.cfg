SPECIFICATION Spec
CONSTANTS
  MaxReviews = 2
  MaxEnvelopes = 1
INVARIANTS TypeOK FinalIsEarned PapersHandedOn
CHECK_DEADLOCK FALSE

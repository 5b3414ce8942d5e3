SPECIFICATION CallSpec
CONSTANTS
  Sessions <- MCSessions
  Android <- MCAndroid
  Nil = Nil
INVARIANT EffectsAreNamed
INVARIANT FailureIsRecorded
INVARIANT HintsAreTrue
CHECK_DEADLOCK FALSE

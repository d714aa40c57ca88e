SPECIFICATION FairSpec
CONSTANTS
  Task = {t1, t2, t3}
  NoValue = NoValue
INVARIANTS TypeOK OneInitializer ReferencesValid TurnIsPassedOn
PROPERTIES ImplementsOnce WaitersReturn TurnIsTaken

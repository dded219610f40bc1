SPECIFICATION FairDoctorSpec
CONSTANTS
  None = None
INVARIANT DoctorTypeOK
INVARIANT PassIsHonest
INVARIANT NoneSurvives
INVARIANT PassMeansVerified
INVARIANT WriteFindsReady
PROPERTY BufferSettled
PROPERTY Answers
PROPERTY Ends
PROPERTY Passes
CHECK_DEADLOCK FALSE

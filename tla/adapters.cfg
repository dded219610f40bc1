SPECIFICATION Spec
CONSTANTS
  None = None
  Half = 2
  PyInts <- ThreeInts
  RawWords <- TwoWords
  MaxRequests = 2
INVARIANT TypeOK
INVARIANT AdaptersAgree
 
 
INVARIANT StatusesReported
CHECK_DEADLOCK FALSE

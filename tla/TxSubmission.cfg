SPECIFICATION FairSpec
CONSTANTS
  MaxRetries = 3
  ValidityEvery = 2
INVARIANT TxTypeOK
PROPERTIES ImplementsSubmission 
CHECK_DEADLOCK FALSE

SPECIFICATION FairSpec
CONSTANTS
  Settings <- OneLoss
  MaxRetransmit = 2
PROPERTY
  SurvivesLoss
CHECK_DEADLOCK FALSE

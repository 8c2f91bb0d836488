SPECIFICATION FairSpec
PROPERTIES
  StalePortIsReopened

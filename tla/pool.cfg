CONSTANTS
  Jobs = {j1, j2, j3}
  Workers = {w1, w2}
  NoJob = NoJob
SPECIFICATION FairSpec
INVARIANTS TypeOK EnforcesHold WorkConserving WaitIsSound
PROPERTIES ImplementsService EverythingEnds

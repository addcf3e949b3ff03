SPECIFICATION Spec
CONSTANTS
  j1 = j1
  j2 = j2
  w1 = w1
  w2 = w2
  nojob = nojob
  Jobs <- OneJob
  Workers <- OneWorker
  NeedsScenario <- NoJobs
  MaxEvidence = 1
  MaxRelease = 1
  MaxFaults = 1
  MaxInterrupts = 0
  OneRunnerPerJob = TRUE
  NoJob = nojob
CHECK_DEADLOCK FALSE
INVARIANTS FailedPersistenceCanResume

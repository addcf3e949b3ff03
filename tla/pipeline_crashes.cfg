SPECIFICATION Spec
CONSTANTS
  j1 = j1
  j2 = j2
  w1 = w1
  w2 = w2
  nojob = nojob
  Jobs <- TwoJobs
  Workers <- TwoWorkers
  NeedsScenario <- OneJob
  MaxEvidence = 2
  MaxRelease = 2
  MaxFaults = 1
  MaxInterrupts = 1
  OneRunnerPerJob = TRUE
  NoJob = nojob
CONSTRAINT OneTopic
CHECK_DEADLOCK FALSE
SYMMETRY WorkerSymmetry
INVARIANTS TypeOK OneAnalysisPerJob
PROPERTIES CallsUseFrozenPrompt ExhaustedIsHistory ImplementsLedger

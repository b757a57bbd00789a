CONSTANT Jobs <- TxJobs
SPECIFICATION ConfigSpec
INVARIANT EligibleRuns
CHECK_DEADLOCK FALSE

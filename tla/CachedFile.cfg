SPECIFICATION Spec
CONSTANTS
    Goroutines = {"statusWorker", "deletionWorker"}
    MaxRotations = 1
    MaxFailures = 1
PROPERTIES CurrentDataWritten

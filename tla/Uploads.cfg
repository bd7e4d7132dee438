SPECIFICATION AloneSpec
CONSTANTS
  Uploads = {local, remote, plain, plainremote}
  Remote = {remote, plainremote}
  Clustered = {local, remote}
  Handlers = {h1, h2}
  MaxAttempts = 2
  Followed = {"Fetching", "checksum", "Failed"}
  NoUpload = none
SYMMETRY Symmetric
INVARIANTS
  SecretsEndWithUpload
  SucceededIsPublished
  SuccessfulWorkflowEndedRow
  ProcessingHasWorkflow
  IInv
PROPERTIES
  RunsStartFromInitiated
  EndIsFinal
  SweepSparesRunning
  KeepsPromise
CHECK_DEADLOCK FALSE

SPECIFICATION Spec
CONSTANTS
  Uploads = {u1}
  Remote = {}
  Handlers = {h1, h2}
  MaxAttempts = 1
  Clustered = {u1}
  Followed = {}
  NoUpload = none
ACTION_CONSTRAINT WithinDeadline
PROPERTY UnnamedHasNoWorkflow
CHECK_DEADLOCK FALSE

SPECIFICATION AloneFair
CONSTANTS
  Uploads = {local, remote}
  Remote = {remote}
  Clustered = {local, remote}
  Handlers = {h1, h2}
  MaxAttempts = 1
  Followed = {"Failed"}
  NoUpload = none
PROPERTIES
  ProcessingEnds
  AbandonedEnds
CHECK_DEADLOCK FALSE

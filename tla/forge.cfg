\* Forms around an ordinary upload, under several environments of the worker.
SPECIFICATION Spec
CONSTANTS
  Absent = Absent
  Junk = Junk
  None = None
  Secret = "secret"
  Forms <- ManyForms
  Environments <- SomeEnvironments
INVARIANTS
  SettingsAsRequested
  ArtifactsAsRequested
  QueuedIsRoutable

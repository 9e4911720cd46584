SPECIFICATION Spec
CONSTANTS
  Local = "local.ptron"
  Settings <- KilledUpload
INVARIANT WebsiteStream

SPECIFICATION Spec
CONSTANTS
  Pages <- SixPages
  PageSize = 2
  MaxRecords = 2
  Slots <- TwoSlots
  MaxPagesPerSeq = 3
  Prompts <- SomePrompts
  Sampled = {"a"}
  Lookups = {TRUE, FALSE}
  Commits = {TRUE, FALSE}
  MaxGenerate = 3
  UploadFailures = {"before"}
  SeatedThrows = {FALSE}
  MaxAdmissions = 4
INVARIANTS
  
  CacheIsTruthful
  ResidentsFit

CONSTANTS
  Serials <- MCSerials
  Inputs <- MCInputs
  Headers = 2
  Language <- MCLanguage
  Formats <- MCFormats
  Templates <- MCTemplates
  Rate <- MCRate
  MaxLost = 1
SPECIFICATION Spec
INVARIANTS
  FilesWhole
  NothingSkipped
  TimesRight
PROPERTY DeletesSpoiled
CHECK_DEADLOCK FALSE

\* README.md on --validate-config, taken at its word: any bind-address.
SPECIFICATION Spec
CONSTANTS
  Letter <- Letters
  Special = {"*", " "}
  Absent = Absent  Broken = Broken  Nothing = Nothing
  Config <- AnyAddress
  KmsFeature = TRUE
  Events <- MCEvents
  Repositories <- MCRepositories
INVARIANT ApprovedFilesAlwaysStart

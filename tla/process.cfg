\* Check runs and servers, launched on any file, in a world that changes.
SPECIFICATION FairSpec
CONSTANTS
  Letter <- Letters
  Special = {"*", " "}
  Absent = Absent  Broken = Broken  Nothing = Nothing
  Config <- Files
  KmsFeature = TRUE
  Events <- MCEvents
  Repositories <- MCRepositories
INVARIANTS TypeOK ApprovedFilesStart ServesAsConfigured SubjectsAreLegal
PROPERTY EveryLaunchSettles

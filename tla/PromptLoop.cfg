SPECIFICATION Spec
CONSTANTS
  Terminals = {t1, t2}
  Providers = {"openai", "deepseek"}
  EnvKeys = {"openai"}
  MaxFiles = 2
  MaxEntries = 4
  Interactive = {t1}
  MaxLaunches = 3
INVARIANTS
  ResumesWork
  KeysKept
PROPERTIES
  TwiceToExit
  SuccessIsAnswered
CHECK_DEADLOCK FALSE

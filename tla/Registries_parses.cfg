CONSTANTS
  Savers = {v1, v2}
  Registry = {hub}
  Credential = {new}
  HalfWritten = HalfWritten
  NoCredential = NoCredential
  Inodes = {1, 2, 3}
  MaxWrites = 2
SPECIFICATION RegistriesSpec
INVARIANT DockerParses
CHECK_DEADLOCK FALSE

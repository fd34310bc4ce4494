SPECIFICATION Spec
CONSTANTS
  Files = {"old", "new"}
  Chunks = 2
  ReadTimeout = 1
  Networks = {"home", "away"}
  MaxPlays = 3
INVARIANTS
  NotLeftOpen
  CredentialsKept
PROPERTIES
  VerifiedImage
  AttemptsEnd

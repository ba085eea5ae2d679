SPECIFICATION Spec
CONSTANTS
  None = None
  Malformed = Malformed
  Hosts = {"h1", "h2"}
  AddrBits = 2
  PrivateBlocks <- MCPrivateBlocks
  Envs <- MCEnvs
  Requests <- MCRequests
  Locations <- MCLocations
  Lookups <- MCLookups
  Bytes = {1, 2, 3, 4}
  Chunks <- MCChunks
  MaxRedirects = 3
  MaxResponse = 7
INVARIANTS
  TypeOK
  CredentialsStayHome
  AddressesAreVetted
  RedirectsAreBounded
  EncodedSoFar
PROPERTY ImplementsService
CHECK_DEADLOCK FALSE

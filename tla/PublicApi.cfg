\* Requests for the details of a parcel and for the search share the breaker; one fault.
SPECIFICATION ApiFairSpec
CONSTANTS
  None = None
  Calls = {c1, c2}
  Parcels = {parcel}
  premium = premium
  Clients <- MCClients
  TokenTiers = {premium}
  FIREBASE_PROJECT_ID = TRUE
  Threshold = 2
  RecoveryTimeout = 1
  MaxFailures = 3
  TTL = 2
  MaxDelay = 1
  MaxFaults = 1
INVARIANTS ApiTypeOK ClosedIffBelowThreshold ServedAsAsked ServedFresh
PROPERTIES OpenEnds RecoversWithService

CONSTANTS
    Patterns <- MCPatterns
    Requests <- MCRequests
SPECIFICATION Spec
INVARIANTS
    TypeOK
    FlattenExact
    HasAgreesWithMatches
    PlainPermissionsRoundTrip

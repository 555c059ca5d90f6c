CONSTANTS
    Patterns <- MCPatterns
    Requests <- MCRequests
SPECIFICATION Spec
INVARIANT ValidPermissionsRoundTrip

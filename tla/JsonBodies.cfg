SPECIFICATION Spec
CONSTANTS
    malformed = malformed
    Malformed = malformed
    Words <- MCWords
    Weight <- MCWeight
    Requests <- MCRequests
INVARIANT JsonBodiesArrive

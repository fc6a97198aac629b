SPECIFICATION Spec
CONSTANTS
    malformed = malformed
    Malformed = malformed
    Words <- MCWords
    Weight <- MCWeight
    Requests <- MCRequests
INVARIANTS TypeOK BestTypeChosen ReadsWhatWasWritten LogoutStatusAndBody
    FormsArrive
PROPERTIES EveryRequestAnswered

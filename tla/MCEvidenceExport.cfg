SPECIFICATION Spec
CONSTANTS
    Labels <- MCLabels
    Actions = {"run"}
    None = None
    Requests <- MCRequests
    Envelopes <- MCEnvelopes
    Outputs <- MCOutputs
    Refusals <- MCRefusals
    Slots = {slot1, slot2}
    Edits <- MCEdits
    Absent = Absent
    Budget <- MCBudget
    Weight <- MCWeight
SYMMETRY Symmetry
INVARIANTS
    TypeOK
    WholeEvidence
    OutputBelongsToEvidence
    V1PartsBelongTogether
    BoundResultExports

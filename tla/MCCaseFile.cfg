SPECIFICATION CaseSpec
CONSTANTS
    None = None
    Files = {"f", "g"}
    MaxSecond = 1
    MaxCases = 3
    MaxEvidence = 2
    MaxRows = 1
INVARIANTS
    CustodyExact
    Exportable
    WipeForgets
PROPERTIES
    CasesKept

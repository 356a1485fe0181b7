SPECIFICATION Spec
CONSTANTS
    s1 = s1
    Sessions = {s1}
    CaseIds = {"my key"}
    RedactedCases = {"my key"}
    LicensedModules <- Licence
    UserRoles <- SomeRoles
    UserPages <- AllKinds
    MaxLog = 3
    MaxFails = 3
INVARIANTS
    ElevationTrail
PROPERTIES
    LockedAccessAuthorized
    CaseAttribution

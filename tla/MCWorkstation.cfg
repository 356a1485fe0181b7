SPECIFICATION MCSpec
CONSTANTS
    NoFile = NoFile
    Partial = Partial
    None = None
    AnyMachine = AnyMachine
    Confirm = Confirm
    Save = Save
    s1 = s1
    s2 = s2
    i1 = i1
    i2 = i2
    p1 = p1
    p2 = p2
    Sessions = {s1, s2}
    DeviceIds = {i1, i2}
    Secrets = {p1, p2}
    Licences <- Keys
    LastDay = 2
INVARIANTS
    LabEntitled
    SecretsConfirmed
PROPERTIES
    RunsEnd
    DeviceIdSettles

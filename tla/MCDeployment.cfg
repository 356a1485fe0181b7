\* One plain and one compiled module, two interpreters, one edit at any step
\* of a build or one move to a fresh copy, one failure on either machine.
CONSTANTS
    Plain = {app}
    Security = {integrity}
    Tags = {cp310, cp312}
    Python = cp312
    Requirements = requirements
    NoManifest = NoManifest
    Torn = Torn
    MaxEdits = 1
    MaxFaults = 1
    MaxSent = 2
SPECIFICATION FairSpec
INVARIANTS
    ReleaseExact
    ScriptsHonest
    NoMixture
PROPERTIES
    LabComesUp

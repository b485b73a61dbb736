SPECIFICATION Spec
CONSTANTS
    Models = {m1, m2}
    Wanted = {m1}
    Downloaders = {d1, d2}
    Adopter = adopter
    OldModel = m1
    Size = 2
    MinValid = 1
    NoFile = NoFile
    NoModel = NoModel
    MaxFaults = 1
    MaxPresses = 1
INVARIANTS TrustedModelIsWhole PartIsInPlace
PROPERTY ReadyModelStays

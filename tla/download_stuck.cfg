SPECIFICATION FairSpec
CONSTANTS
    Models = {m1, m2}
    Wanted = {m1}
    Downloaders = {d1}
    Adopter = adopter
    OldModel = m1
    Size = 2
    MinValid = 1
    NoFile = NoFile
    NoModel = NoModel
    MaxFaults = 1
    MaxPresses = 1
PROPERTIES KilledDownloadResumes

SPECIFICATION FairSpec
CONSTANTS
    s1 = s1
    s2 = s2
    m1 = m1
    p1 = p1
    f1 = f1
    host = host
    volume = volume
    Servers = {s1, s2}
    Migrators = {m1}
    Seeders = {p1}
    Forcers = {f1}
    DirOf <- Directories
    MaxFaults = 1
CHECK_DEADLOCK FALSE
INVARIANTS
    OneDataset
    ServesData
    ImagesOnDisk
PROPERTIES
    OnlyForceWipes
    ServersComeUp

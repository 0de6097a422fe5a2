CONSTANTS
    c1 = c1
    c2 = c2
    d1 = d1
    d2 = d2
    i1 = i1
    i2 = i2
    s1 = s1
    s2 = s2
    Clients <- TwoClients
    Databases <- TwoDatabases
    Instances <- TwoInstances
    Settings <- TwoSettings
    None = None
    IdOf <- Colliding
SYMMETRY Alike
SPECIFICATION Spec
INVARIANTS
    TypeOK
    UsedIsAlive
    CarefulClientsExclude
    CarefulMappingsWhole
    SettingsKept
PROPERTIES
    ImplementsOwnership

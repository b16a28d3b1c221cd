SPECIFICATION FairSpec
CONSTANTS
    Users = {u1, u2}
    Askers = {u1}
    Bookers = {u1}
    Retention = 0
    MaxTroubles = 1
INVARIANTS
    TypeOK
    EveryThreadHasAClock
PROPERTIES
    ErasureIsComplete
    LeadsAreLostByDesign
    StaleDataGoes

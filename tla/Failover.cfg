SPECIFICATION Spec
CONSTANTS
    c1 = c1
    c2 = c2
    Clients <- OneClient
    Backend = Backend
    FhostnameNum = 3
INVARIANTS
    TypeOK
    ReadsBounded
    HostAccounted
PROPERTY
    NamesPassedOver

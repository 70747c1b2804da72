SPECIFICATION Spec
CONSTANTS
    c1 = c1
    c2 = c2
    Clients <- OneClient
    Backend = Backend
    FhostnameNum = 2
PROPERTY
    ConnectsToAvailable

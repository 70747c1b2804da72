SPECIFICATION Spec
CONSTANTS
    Instances = {i1, i2, i3}
    CommandLines <- SomeCommandLines
    None = None
\* Once every instance has ended nothing happens.
CHECK_DEADLOCK FALSE
INVARIANTS
    NeverServesAsRoot
    PidFileHeld
    StopLeavesNoFile

SPECIFICATION Spec
CONSTANTS
    Version = {"tree", "badapi", "threadsafe", "plain", "deprecated"}
    MaxInits = 3
INVARIANTS
    LifecycleTypeOK
    PairedCallsAreSafe
    InitMeansListening
    ReturnsClean

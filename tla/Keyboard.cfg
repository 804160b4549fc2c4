SPECIFICATION Spec
CONSTANTS
    Programs = {{"int16"}, {"int21"}}
    Characters = {0, 10, 97}
    Codes = {2, 30, 158, 224}
    Extended = {72, 200}
    MaxBytes = 3
    MaxSignals = 1
INVARIANTS
    TypeOK
    KeysInOrder
    ModeMatchesConsole
    StatusNeverWaits
    ConsoleGivenBack
PROPERTIES
    AnnouncedKeyIsNext
    WaitingKeyArrives
CHECK_DEADLOCK FALSE

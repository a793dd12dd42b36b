\* A Sink with no deadline and a read under one, at a door that answers one
\* call at a time: enough for refusals, healing, ageing and a second dial.
CONSTANTS
    NoCall = NoCall  Refused = Refused
    Calls = {w, r}  Mutating = {w}  Patient = {w}
    Links = 3  MaxCalls = 1
CHECK_DEADLOCK FALSE
SPECIFICATION Spec
PROPERTY KeepsPromise

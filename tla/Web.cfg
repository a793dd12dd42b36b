SPECIFICATION Spec
CONSTANTS
    Doors <- MCDoors
    Tables <- MCTables
    Worlds <- MCWorlds
    Requests <- MCRequests
    Delims = {":"}
    None = None
INVARIANTS
    OnTheDoorsWord

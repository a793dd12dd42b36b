CONSTANTS
    t1 = t1  t2 = t2  t3 = t3  t4 = t4  Outside = Outside
    Contents <- Texts  Refused = {"bad"}  Absent = "absent"  MaxEdits = 3
    Jobs = {"poll", "judge"}  Table <- MCTable
    Calls = {"c1", "c2"}  Scopes = {"read", "write"}  Specs <- MCSpecs  Holders = {{"read"}, {"write"}}
    Tasks <- MCTasks  Workers = 1  Inline = FALSE
SPECIFICATION MCFairSpec
INVARIANTS NoGap
PROPERTIES EveryTaskEnds StopsForGood KeepsPromise EditsSettle
CHECK_DEADLOCK FALSE

\* A booking's link and a contact link, lifetimes of two ticks.
SPECIFICATION Spec
CONSTANTS
    Tasks = {t1, t2}
    Links = {booking, contact}
    Contact = {contact}
    TTL = 2
    MAX = 1
    MaxClock = 3
    MaxLives = 1
CHECK_DEADLOCK FALSE
INVARIANTS
    ActsOnce

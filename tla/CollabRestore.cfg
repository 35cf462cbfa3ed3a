SPECIFICATION Spec
CONSTANTS
    Updates = {u1, u2}
    Intents = {i1}
    NoIntent = NoIntent
    MaxTail = 2
    Servers = {s1, s2}
    NoServer = NoServer
    Writers = {c1}
    Readers = {}
    NoClient = NoClient
    MaxGen = 2
    MaxOps = 2
    MaxFaults = 1
SYMMETRY Symmetry
INVARIANTS RoomInv RoomCurrent
PROPERTIES Implements BodyFollowsTail

SPECIFICATION Spec
CONSTANTS
    Updates = {u1, u2}
    Intents = {}
    NoIntent = NoIntent
    MaxTail = 1
    Servers = {s1, s2}
    NoServer = NoServer
    Writers = {c1}
    Readers = {c2}
    NoClient = NoClient
    MaxGen = 2
    MaxOps = 2
    MaxFaults = 1
SYMMETRY Symmetry
INVARIANTS AckedDurable DurableBeforeShown SnapshotExact PeersComplete

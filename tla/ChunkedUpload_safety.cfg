\* Three requests in flight, chunks sent twice, corruption, crashes.
CONSTANTS
    r1 = r1
    r2 = r2
    r3 = r3
    Total = 2
    Sent = {0, 1}
    MaxTries = 2
    Slots = {r1, r2, r3}
    Checksum = TRUE
    Corrupts = TRUE
    Crashes = TRUE
SPECIFICATION Spec
SYMMETRY Symmetry
INVARIANTS
    AnsweredFileStays
    CountedIsStored

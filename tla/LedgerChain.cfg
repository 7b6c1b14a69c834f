SPECIFICATION Spec
CONSTANTS
    Writers = {w1, w2, w3}
    MaxAttempts = 2
    MaxBatch = 2
    Nobody = Nobody
INVARIANTS
    ReaderMissesNothing
    LostRacesAreCommits
PROPERTIES
    Published
    EveryAppendAnswered

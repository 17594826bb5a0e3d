SPECIFICATION Spec
CONSTANTS
    l1 = l1
    NoJob = NoJob
    Gen = {g1}
    Row = {h1, h2, h3}
    Track <- OneTrack
    TrackOf <- TrackOfRow
    HttpTrack <- HttpTracks
    shipQueueCap = 2
    RetiredSlots = 1
    maxRetries = 0
    shutdownMaxRetries = 0
SYMMETRY RowSymmetry
CONSTRAINT BeforeRetirement
INVARIANTS
    OldestFirst

SPECIFICATION Spec
CONSTANTS
    l1 = l1
    NoJob = NoJob
    Gen = {g1}
    Row = {h1, h2, h3}
    Track <- OneTrack
    TrackOf <- TrackOfRow
    HttpTrack <- HttpTracks
    shipQueueCap = 2
    RetiredSlots = 2
    maxRetries = 1
    shutdownMaxRetries = 1
SYMMETRY RowSymmetry
CONSTRAINT BeforeRetirement
INVARIANTS
    QueueBound

SPECIFICATION Spec
CONSTANTS
    l1 = l1
    NoJob = NoJob
    Gen = {g1}
    Row = {h1, l1}
    Track <- Tracks
    TrackOf <- TrackOfRow
    HttpTrack <- HttpTracks
    shipQueueCap = 2
    RetiredSlots = 2
    maxRetries = 1
    shutdownMaxRetries = 1
INVARIANTS
    ReloadLosesNothing

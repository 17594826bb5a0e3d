SPECIFICATION FairSpec
CONSTANTS
    l1 = l1
    NoJob = NoJob
    Gen = {g1}
    Row = {h1, l1}
    Track <- Tracks
    TrackOf <- TrackOfRow
    HttpTrack <- HttpTracks
    shipQueueCap = 1
    RetiredSlots = 0
    maxRetries = 0
    shutdownMaxRetries = 0
PROPERTIES
    StopDrains

SPECIFICATION Spec
CONSTANTS
    l1 = l1
    NoJob = NoJob
    Gen = {g1, g2}
    Row = {h1}
    Track <- OneTrack
    TrackOf <- TrackOfRow
    HttpTrack <- HttpTracks
    shipQueueCap = 1
    RetiredSlots = 1
    maxRetries = 0
    shutdownMaxRetries = 0
SYMMETRY GenSymmetry
CONSTRAINT RapidReloads
VIEW NoHistory
INVARIANTS
    SlotAccounting

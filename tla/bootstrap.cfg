CONSTANTS
    Nothing = Nothing
    Newest = 2
    MaxOutages = 1
    Count = 2
    Batch = 1
    GifBatch = 2
    MaxGifs = 2
    MaxLinks = 1
    MaxSeeds = 2
SPECIFICATION FairSpec
INVARIANTS SetupIsSound SeedAgrees
PROPERTIES SetupCompletes

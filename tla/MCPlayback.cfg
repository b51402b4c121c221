SPECIFICATION FairSpec
CONSTANTS
    Items = {x1, x2, x3}
    NoItem = NoItem
CHECK_DEADLOCK FALSE
INVARIANTS
    TypeOK
    EngineServesWhatSounds
    OneTrackSounds
    SnapshotShowsNoItemTwice
PROPERTY EveryItemIsTaken

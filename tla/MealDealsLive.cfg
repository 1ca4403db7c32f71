\* Liveness: what must happen to a deal, a notification and the panel.
SPECIFICATION FairSpec
CONSTANTS
    Scenarios = {"feed", "panel", "notes"}
    Ids = {1, 2}
    Titles = {wings, beer}
    NoTitle = NoTitle
    Absent = Absent
    Partial = Partial
    NoId = NoId
    Limit = 2
    MaxWrites = 2
    Interval = 1
    MaxRequests = 2
    MaxTime = 3
    Placeholder = Placeholder
    NoNote = NoNote
    MaxNotes = 3
    NoPage = NoPage
    User = User
    MaxRows = 2
    MaxLookups = 2
    Cells = {c1, c2}
    PinViews = {v1, v2}
    Pins = {p1, p2}
    NotCreated = NotCreated
    Pooled = Pooled
    Nothing = Nothing
    MaxCellRows = 2
    Lengths = {8}
    ItemLengths = {4}
    Spacing = 2
    MaxItems = 3
    Overscroll = 2
    NoItem = NoItem
PROPERTIES
    FeedSettles
    ImplementsAnnouncements
    PanelSettles
CHECK_DEADLOCK FALSE

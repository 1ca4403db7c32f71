\* Safety: three writes to three children of which the query shows two; the whole
\* controller on a smaller scale; recycled views; the carousel in both directions.
SPECIFICATION AllSpec
CONSTANTS
    Scenarios = {"feed", "user", "views", "carousel"}
    Ids = {1, 2, 3}
    Titles = {wings, NoTitle}
    NoTitle = NoTitle
    Absent = Absent
    Partial = Partial
    NoId = NoId
    Limit = 2
    MaxWrites = 3
    Interval = 1
    MaxRequests = 3
    MaxTime = 4
    Placeholder = Placeholder
    NoNote = NoNote
    MaxNotes = 3
    NoPage = NoPage
    User = User
    MaxRows = 3
    MaxLookups = 2
    Cells = {c1, c2}
    PinViews = {v1, v2}
    Pins = {p1, p2}
    NotCreated = NotCreated
    Pooled = Pooled
    Nothing = Nothing
    MaxCellRows = 2
    Lengths = {8, 12}
    ItemLengths = {4, 6}
    Spacing = 2
    MaxItems = 3
    Overscroll = 2
    NoItem = NoItem
INVARIANTS
    AppTypeOK
    RequestsAreSpaced
    RegisteredPinsAreOnMap
    UnracedPinIsLatest
    NewestIsPendingOrShown
    ListingMatchesReports
    ListedDealsAreOut
    PageNamesRestaurant
    SettledCameraFitsPanel
    ViewsAreCurrent
    CarouselIsCentered
CHECK_DEADLOCK FALSE

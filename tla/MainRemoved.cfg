\* A restaurant is added and removed again.
SPECIFICATION FeedSpec
CONSTANTS
    Ids = {1}
    Titles = {wings, beer}
    NoTitle = NoTitle
    Absent = Absent
    Partial = Partial
    NoId = NoId
    Limit = 2
    MaxWrites = 2
    Interval = 1
    MaxRequests = 2
    MaxTime = 3
    Placeholder = Placeholder
    NoNote = NoNote
    MaxNotes = 2
    NoPage = NoPage
    User = User
    MaxRows = 2
    MaxLookups = 0
INVARIANT RemovedRestaurantIsUnlisted
CHECK_DEADLOCK FALSE

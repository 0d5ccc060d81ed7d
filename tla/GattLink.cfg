SPECIFICATION Spec
CONSTANTS
    NoUUID = NoUUID
    UUID <- MCUUID
    main = main
    extra = extra
    protocol = protocol
    photo = photo
    plain = plain
    Central = {c1}
    Layouts <- MCLayouts
    Wanted <- MCWanted
    Photo = photo
    MaxFailures = 1
    MaxNotes = 1
    MaxRequests = 1
INVARIANTS LinkInv CacheIsExact SubscriberAsked HeardAsSent
PROPERTIES SubscribedInTheEnd
CHECK_DEADLOCK FALSE

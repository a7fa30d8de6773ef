CONSTANTS
    luyen_cong = luyen_cong
    noi6 = noi6
    manager = manager
    form = form
    Sources <- MCSources
    Events <- MCEvents
    Subscribers <- MCSubscribers
    MaxNesting = 2
SPECIFICATION Spec
SYMMETRY Symmetry
INVARIANTS
    TypeOK
    NoDuplicates
    CalledOnce
PROPERTIES
    UnsubscribeRemoves
    PublicationComplete

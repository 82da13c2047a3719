CONSTANTS
    Acme = Acme
    Globex = Globex
    Accounts <- MCAccounts
    NoAccount = NoAccount
    NoDate = NoDate
    NoIso = NoIso
    WindowDays = 7
    LastDay = 16
    Notes <- MCNotes
SPECIFICATION Spec
CHECK_DEADLOCK FALSE
INVARIANTS
    MatchedByName
    EveryAskKept
    AttendeesWereMet
    EveryoneMetIsListed
    NamedDayListed
    WeekdayIsNext
PROPERTIES
    ListedUntilComplete

SPECIFICATION CheckSpec
CONSTANTS
    Methods <- AllMethods
    Given <- GivenByCallers
    Stored <- StoredRows
    AtOnce = 2
    RowCount = 2
INVARIANTS AnswersWhatWasAsked FindsWhatIsThere

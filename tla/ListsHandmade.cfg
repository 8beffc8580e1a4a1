CONSTANTS
    null = null
    Fields = {"pk", "val", "tag"}
    FieldValues = {0, 1, 2, 3}
    Pks = {1, 2, 3}
    TableRows <- WalkRows
    Concrete = {"pk", "val"}
    Nullable = {"val"}
    ListQueries <- Walks
    MaxEdits = 1
SPECIFICATION ListsSpec
PROPERTIES
    EveryPageIsFiltered
CHECK_DEADLOCK FALSE

SPECIFICATION Spec
CONSTANTS
    main = main
    root = root
    button = button
    label = label
    piece = piece
    row0 = row0
    row1 = row1
    name0 = name0
    name1 = name1
    other = other
    cell = cell
    first = first
    second = second
    third = third
    Nothing = Nothing
    Word = Word
    Items <- MCItems
    Windows = {main}
    Parent <- MCParent
    Object <- MCObject
    Orders <- MCOrders
    InitialScenes <- MCInitialScenes
    Valued = {other, button}
    Changing <- MCChanging
    Asked <- MCAsked
    Conditions <- MCConditions
    WaitMatches = 2
    MaxChanges = 2
INVARIANTS
    TypeOK
    SelectorsKeepTheirMeaning
    WaitVerdictIsCurrent

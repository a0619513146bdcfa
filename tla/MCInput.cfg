SPECIFICATION Spec
CONSTANTS
    main = main
    tool = tool
    root = root
    group = group
    cover = cover
    panel = panel
    pane = pane
    button = button
    label = label
    fill = fill
    overlay = overlay
    dialog = dialog
    ok = ok
    base = base
    field = field
    input = input
    object = object
    Nothing = Nothing
    Items <- MCItems
    Windows <- MCWindows
    Parent <- MCParent
    Content <- MCContent
    Birth <- MCBirth
    Clips = {panel}
    Surfaces = {fill, cover}
    Controls = {button, dialog, ok, field}
    Overlays = {overlay}
    Modals = {dialog}
    Extent = 3
    Plain = {object}
    ContentOf <- MCContentOf
    Editable = {input}
    ReadOnly = {}
    Flickables = {panel}
    Targets = {button, label, ok, field, object}
    Aims = {2, 4}
    InitialScenes <- MCInitialScenes
    Changing <- MCChanging
    MaxChanges = 1
    MaxByHand = 1
    MaxUnits = 1
INVARIANTS
    TypeOK
    CoveringItemIsNotPressed
    NothingStaysPressed
    GesturesSurviveDestruction
CHECK_DEADLOCK FALSE

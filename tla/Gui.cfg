SPECIFICATION GuiSpec

VIEW guiView

CONSTANTS
    DevicePaths = {0, 1}
    MaxChanges = 2
    MaxRetries = 1
    Dpis = {1, 3}
    MaxDpi = 2
    MaxSteps = 3
    n1 = n1
    n2 = n2
    n3 = n3
    n4 = n4
    Names = {n1, n2, n3, n4}
    Standard = n1
    MaxActs = 3
    ActionTypes <- ButtonTypes
    Parametric = {"Keypress", "ChangeHost"}
    Params = {1, 2}
    MaxEdits = 3
    Modes <- GestureModes
    ActionModes = {"OnInterval", "OnRelease"}
    Grains = {5, 50}
    MaxGestures = 3
    Models = {"mouse"}
    Sections = {"default", "work"}
    FirstSection = "default"
    Handwritten <- GuiFiles
    MaxFileOps = 6

INVARIANT ViewTellsTruth
INVARIANT EditorsTellTruth
INVARIANT PageIsDaemons
INVARIANT CleanIsSaved
PROPERTY SavedIsLoaded

CHECK_DEADLOCK FALSE

CONSTANTS
    Sessions = {s1}
    Names = {"", "cpu", "Name", "timestamp"}
    NameWords = {"Name"}
    OtherWords = {"timestamp"}
    Documents = {d1}
    Scenes <- MCScenes
SPECIFICATION Spec
INVARIANT ValidConfigAccepted
CHECK_DEADLOCK FALSE

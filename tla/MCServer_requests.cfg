\* Two sessions; a name that can be used, the empty one, and two that are columns'.
CONSTANTS
    Sessions = {s1, s2}
    Names = {"", "cpu", "Name", "timestamp"}
    NameWords = {"Name"}
    OtherWords = {"timestamp"}
    Documents = {d1}
    Scenes <- MCScenes
SPECIFICATION FairSpec
INVARIANTS TypeOK PagesServed
PROPERTIES AnswersTrue RefusedStays EveryRequestEnds
CHECK_DEADLOCK FALSE

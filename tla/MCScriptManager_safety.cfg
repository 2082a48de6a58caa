SPECIFICATION Spec
CONSTANTS
    Names = {"cpu", "Name", "timestamp"}
    NameWords = {"Name"}
    OtherWords = {"timestamp"}
    Texts = {t1, t2}
    Workers = {w1, w2}
    Limits <- MCLimits
SYMMETRY Interchangeable
INVARIANTS
    TypeOK
    NamesUnique
    AnswersKept
    InStep
    UndisturbedTasks
CHECK_DEADLOCK FALSE
PROPERTY StoreSpec

SPECIFICATION Spec
CONSTANTS
    Calls = {c}
    Scripts <- MCScripts
    Block = 2
    Limit = 3
    Diagnostic <- MCDiagnostic
INVARIANTS
    AnswerIsWhole
    RecordedIsPublished
    LimitIsExact
PROPERTIES
    CallsReturn
CHECK_DEADLOCK FALSE

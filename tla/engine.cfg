CONSTANTS
    Name = {1, 2}
    Request = {r1, r2}
    MaxQuestions = 2
CHECK_DEADLOCK FALSE
SPECIFICATION Spec
INVARIANTS
    OperationsFindable
    AnsweredOnce
PROPERTIES
    FreesWhatItHolds

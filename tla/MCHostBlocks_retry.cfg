\* A push that fails.
CONSTANTS
    StartBlock = 2
    MaxNum = 5
    MaxReorgs = 2
SPECIFICATION Spec
PROPERTIES
    RetriesAfterWait

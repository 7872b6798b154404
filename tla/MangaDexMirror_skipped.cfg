SPECIFICATION Spec
CONSTANTS
    Works = {1, 2}
    Chapters = {3}
    WorkOf <- Single
    Page = 1
    Cap = 2
    Retries = 1
    MaxTime = 2
    Faults = {}
PROPERTIES SkippedIsOfferedAgain

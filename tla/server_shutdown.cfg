SPECIFICATION LifeSpec
CONSTANTS
    Requests = {f1, f2, s1}
    ForFFFF = {f1, f2}
    NoRequest = norequest
    NoOne = noone
PROPERTIES
    SubmittedIsAnswered
CHECK_DEADLOCK FALSE

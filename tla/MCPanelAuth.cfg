SPECIFICATION AuthSpec
CONSTANTS
    Tokens = {t1, t2}
    Passwords = {p1}
    Unset = Unset
    None = None
    FailLimit = 1
    MaxStarts = 1
    Tabs = {b1, b2}
    MaxLost = 1
    MaxClicks = 3
INVARIANTS SessionsOfPassword LoggedOutStaysOut PostsPass
PROPERTIES LoginFormEnds
CHECK_DEADLOCK FALSE

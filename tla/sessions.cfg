\* Two users of one phone, a restore or login beside a profile and a request of a
\* screen, three pairs, one keychain failure or restart.
CONSTANTS
    u1 = u1  u2 = u2  m = m  p1 = p1  r1 = r1
    Users = {u1, u2}
    Suspendable = {u1}
    Main = m
    Profiles = {p1}
    Requests = {r1}
    Logout = Logout  Aborted = Aborted  None = None
    MaxTokens = 3
    MaxGeneration = 2
    MaxQueue = 2
    MaxFaults = 1
SPECIFICATION FairSpec
INVARIANTS ScreenIsTrue UsedOnce NothingForgotten
PROPERTIES EventuallyDecided

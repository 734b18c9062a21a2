SPECIFICATION MCSpec
CONSTANTS
    g = g
    e = e
    Task = {u, v}
    None = None
    Guardian = {None, g}
    Escape = {None, e}
    Overlap = TRUE
    MayFail = FALSE
    MayHide = FALSE
    MaxChanges = 2
    Wishes = {"add", "remove", "escape", "trigger", "cancel"}
    Cosigner = TRUE
    Period = 2
    MaxEscapes = 1
    MaxTriggers = 0
    MaxFails = 1
    MayWatch = FALSE
INVARIANTS
    HiddenAsAsked
    ScreensOfferValid
PROPERTIES
    DeployedForGood
    CurrentGuardian
    UpdatesConverge
    GuardianIsRemoved
\* An account that is not deployed is left alone when nothing changes any more.
CHECK_DEADLOCK FALSE

SPECIFICATION Spec
CONSTANTS
    Writers = {audio, video}
    Handles = {h1, h2}
    NULL = NULL
    StopAllowed = FALSE
INVARIANT
    StreamOffWhileConnecting

SPECIFICATION Spec
CONSTANTS
    None = None
    File <- MCFile
    KeyToken <- MCKeyToken
    IndexToken <- MCIndexToken
    MaxTyped = 5
    MaxInt = 127
CHECK_DEADLOCK FALSE
INVARIANT PathRoundTrip
INVARIANT TemplateCovers
INVARIANT ConflictsRefused

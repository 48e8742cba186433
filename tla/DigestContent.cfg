SPECIFICATION Spec
CONSTANTS
    a = a
    b = b
    Chats = {a, b}
    Stranger = Stranger
    Kinds <- MCKinds
    MaxRows = 3
    MaxPerChat = 2
    MaxChars = 3
    MaxTokens = 4
    Dated = 1
    MaxItems = 2
    None = None
SYMMETRY Symmetry
INVARIANTS
    EachChatInItsPlace
    CountsAreWhole
    NothingIsLost
CHECK_DEADLOCK FALSE

SPECIFICATION Spec
CONSTANTS
    Base = 4
    Flag = 3
    Escape = 2
    Bit = 2
    Exchanges <- MCExchanges
INVARIANTS RepliesAreGenuine ReplyEndsTheWait

\* Two requests that are stamped before they are admitted.
SPECIFICATION Spec
CONSTANTS
    a = a
    b = b
    x = x
    Turn = {1,2}
    Spoken = {}
    Conversation = {"c"}
    ConversationOf <- OneConversation
    Call = {}
    TurnOf <- CallsOfTurn1
    NeedsApproval = {}
    Slot = {s1}
    Client = {u1,u2}
    MaxClock = 1
    MaxGeneration = 2
    MaxInputs = 0
INVARIANT SerialTurns

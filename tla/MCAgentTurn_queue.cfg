\* Two queued turns of one conversation and two workers, no parking of a run.
SPECIFICATION Spec
CONSTANTS
    a = a
    b = b
    x = x
    Turn = {1,2}
    Spoken = {}
    Conversation = {"c"}
    ConversationOf <- OneConversation
    Call = {}
    TurnOf <- CallsOfTurn1
    NeedsApproval = {}
    Slot = {s1,s2}
    Client = {u1}
    MaxClock = 0
    MaxGeneration = 1
    MaxInputs = 0
INVARIANT OneExecuting
PROPERTY ImplementsQueue
SYMMETRY SlotSymmetry

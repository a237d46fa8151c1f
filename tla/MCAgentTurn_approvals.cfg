\* One turn that asks for two approvals and makes a call that needs none,
\* dispatched twice.
SPECIFICATION Spec
CONSTANTS
    a = a
    b = b
    x = x
    Turn = {1}
    Spoken = {}
    Conversation = {"c"}
    ConversationOf <- OneConversation
    Call = {a,b,x}
    TurnOf <- CallsOfTurn1
    NeedsApproval = {a,b}
    Slot = {s1}
    Client = {u1}
    MaxClock = 0
    MaxGeneration = 2
    MaxInputs = 1
INVARIANTS WaitsForDecision Resumable EndedHoldsNothing ExchangeNotCancelled

\* A queued turn, a voice session that may dispatch again and again, and one place,
\* under fair workers and a fair dispatcher.
SPECIFICATION FairSpec
CONSTANTS
    a = a
    b = b
    x = x
    Turn = {1,2}
    Spoken = {2}
    Conversation = {"c"}
    ConversationOf <- OneConversation
    Call = {}
    TurnOf <- CallsOfTurn1
    NeedsApproval = {}
    Slot = {s1}
    Client = {u1}
    MaxClock = 0
    MaxGeneration = 1
    MaxInputs = 0
PROPERTIES EndingsEnd RunnableIsClaimed

SPECIFICATION Spec
CONSTANTS
    Cells = {"course", "group", "category", "remark", "plan", "badge", "whatsapp", "batch", "schedule", "recording", "pending", "quit"}
    Values = {"called", "quit1", "quit2"}
    Quits = {"quit1", "quit2"}
    Texts = {"r1", "r2"}
    MaxSaves = 2
    MaxOthers = 1
INVARIANTS LastSaveStands ReasonForItsRemark

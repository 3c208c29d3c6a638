SPECIFICATION Spec
CONSTANTS
    Scenarios = {"admission", "send", "receive"}
    c1 = c1
    c2 = c2
    c3 = c3
    l1 = l1
    l2 = l2
SYMMETRY Symmetry

    
PROPERTIES
    GroupSendSound
    GroupReceiveSound
CHECK_DEADLOCK FALSE

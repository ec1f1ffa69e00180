CONSTANTS
    old = old
    new = new
    r1 = r1
    r2 = r2
    basic = basic
    pro = pro
    None = None
    Worlds <- MCWorlds
SPECIFICATION Spec
INVARIANTS
    RecordIsOfReceipt
    PaidIsServed
PROPERTIES
    RenewalClockNeverBack
CHECK_DEADLOCK FALSE

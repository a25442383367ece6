SPECIFICATION BrowserSpec
CONSTANTS
    t1 = t1
    t2 = t2
    Tab <- Tabs
    Slot <- Slots
    MaxLogin = 1
INVARIANT BrowserTypeOK
PROPERTIES SignedOutForAReason CallsSettle

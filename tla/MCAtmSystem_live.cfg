SPECIFICATION FairSpec
CONSTANTS
    Digit <- Digits
    amount = 1
    pin_length = 1
    bank_pin <- PinOne
    opening_balance = 1
    Keys <- DriverKeys
    MaxKeys = 5
    MaxAhead = 1
PROPERTIES
    ShutsDown
    QuestionsAnswered

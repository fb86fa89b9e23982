SPECIFICATION Spec
CONSTANTS
    Digit <- Digits
    amount = 1
    pin_length = 2
    bank_pin <- PinTwo
    opening_balance = 1
    Keys <- AllKeys
    MaxKeys = 8
    MaxAhead = 1
INVARIANTS
    TypeOK
    ConfirmedPin
    AnswersMatch
    MoneyConserved

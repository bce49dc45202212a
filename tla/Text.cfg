CONSTANTS
    Letters <- MCLetters
    Special <- MCSpecial
    Digits <- MCDigits
    DigitValue <- MCDigitValue
    Narrow <- MCNarrow
    MaxNick = 2
    IntMax = 15
    LongMax = 63
    MaxShort = 4
    MaxLong = 8
SPECIFICATION TextSpec
INVARIANTS
    ParsesWords
    RelaysWhatWasSaid
    NicknamesAddressable
    ChannelsAddressable
    LimitAsAnnounced
CHECK_DEADLOCK FALSE

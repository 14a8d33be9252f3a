SPECIFICATION Spec
CONSTANTS
    CR = CR  LF = LF  Sep = Sep  Other = Other  Text = Text  Struct = Struct
    Half1 = Half1  Half2 = Half2  Rest = Rest  Restored = Restored
    Contents = {Text, Half1, Sep, Rest}
    MaxBytes = 6
    MaxChunk = 2
INVARIANT EveryTextRestored
CHECK_DEADLOCK FALSE

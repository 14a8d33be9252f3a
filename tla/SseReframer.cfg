SPECIFICATION Spec
CONSTANTS
    CR = CR  LF = LF  Sep = Sep  Other = Other  Text = Text  Struct = Struct
    Half1 = Half1  Half2 = Half2  Rest = Rest  Restored = Restored
    Contents = {Other, Text, Struct, Half1, Half2}
    MaxBytes = 6
    MaxChunk = 3
INVARIANTS TypeOK FramesIndependentOfChunks NothingLost ClientSees
CHECK_DEADLOCK FALSE

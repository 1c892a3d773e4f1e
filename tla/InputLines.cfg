SPECIFICATION Spec
CONSTANT Lines <- ShortAndLong
CHECK_DEADLOCK FALSE
INVARIANT ParsesWords
PROPERTY ParseEnds

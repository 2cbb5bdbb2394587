CONSTANTS
    Leaf = Leaf
    Holder = Holder
    Classes <- MCClasses
    Schema <- MCSchema
SPECIFICATION Spec
INVARIANT RoundTrip
\* One exchange: the model is encoded once and decoded once, then nothing
\* is left to do.
CHECK_DEADLOCK FALSE

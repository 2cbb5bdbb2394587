CONSTANTS
    Leaf = Leaf
    Holder = Holder
    Classes <- MCClasses
    Schema <- MCSchema
SPECIFICATION Spec
INVARIANT JsonHasNoNull
CHECK_DEADLOCK FALSE

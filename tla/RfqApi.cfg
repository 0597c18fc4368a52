SPECIFICATION Spec
CONSTANTS
    c1 = c1  c2 = c2  c3 = c3  p1 = p1  p2 = p2
    Call <- Calls
    Product <- Products
    NoRfq = NoRfq
    MaxFaults = 2
SYMMETRY Symmetric
INVARIANT RfqHasItsEvent
INVARIANT AnswersAreKept
PROPERTY RegistrySpec
CHECK_DEADLOCK FALSE

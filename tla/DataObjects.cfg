SPECIFICATION Spec
CONSTANT MaxTrips = 2
INVARIANT RoundTrip
CHECK_DEADLOCK FALSE

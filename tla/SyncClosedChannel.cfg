\* Expected to fail: ClosedChannelIsNotAnError states what the specification says of a session.
CONSTANTS
    Topics = {t1, t2}
    MaxInjected = 0
SPECIFICATION Spec
INVARIANT ClosedChannelIsNotAnError
CHECK_DEADLOCK FALSE

\* Sessions of both protocols over a link that may fail, with applications
\* that may go away and a remote that writes up to MaxInjected messages of
\* its own choosing; the behaviours without such a message are those of two
\* nodes that follow the protocol.
CONSTANTS
    Topics = {t1, t2}
    MaxInjected = 2
SPECIFICATION FairSpec
INVARIANT TypeOK
INVARIANT HandshakeFirst
INVARIANT BothOkMeansExchanged
INVARIANT HonestPeersDoNotPanic
INVARIANT AtMostOneData
PROPERTY SessionEnds
CHECK_DEADLOCK FALSE

\* The handler of the router may refuse messages, which stay in the buffer.
CONSTANTS MayKeep = TRUE
          MaxSent = 3
SPECIFICATION FairSpec
INVARIANTS UnusableMeansGone OnlyLateMessagesLost
PROPERTIES EachDirectionIsChannel EventuallyHandled DisconnectNoticed
\* both threads stop once the client is gone and the server dropped it
CHECK_DEADLOCK FALSE

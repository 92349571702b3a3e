\* Four messages, from whatever threads; the task may be deleted at any time.
SPECIFICATION FairSpec
CONSTANT Msgs = {"a", "b", "c", "d"}
INVARIANT TaskIsSound
PROPERTIES IsMailbox Answered Stops
\* The thread exits, or waits for ever.
CHECK_DEADLOCK FALSE

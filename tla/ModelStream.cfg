\* A streamed request of each adapter, with and without the logger.
SPECIFICATION StreamSpec
CONSTANT Adapters = {"anthropic", "openai", "chat"}
CONSTANT Replies <- MCReplies
CONSTANT Cap = 2
CONSTANT None = None
INVARIANT ReplyIsWhole
PROPERTY StreamEnds
\* A request ends.
CHECK_DEADLOCK FALSE

---- MODULE MCModelStream ----
EXTENDS ModelStream

Block(kind, size) == [kind |-> kind, size |-> size]

\* An answer, two calls after some thought, and an answer with one call between thoughts.
MCReplies == {
    <<Block("text", 3)>>,
    <<Block("thinking", 1), Block("call", 3), Block("call", 2)>>,
    <<Block("thinking", 2), Block("text", 2), Block("thinking", 1), Block("call", 2)>>}
====

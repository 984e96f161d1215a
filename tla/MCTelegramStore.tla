-------------------------- MODULE MCTelegramStore --------------------------
EXTENDS TelegramStore

CONSTANT MaxFiles

\* Files of one group for one chat, for another, of no group, of a type no album
\* takes, and large ones.
Kinds == {
    [chat |-> 1, key |-> 1, album |-> TRUE, video |-> FALSE, size |-> "fits"],
    [chat |-> 2, key |-> 1, album |-> TRUE, video |-> FALSE, size |-> "fits"],
    [chat |-> 1, key |-> NoKey, album |-> TRUE, video |-> FALSE, size |-> "fits"],
    [chat |-> 1, key |-> 1, album |-> FALSE, video |-> FALSE, size |-> "fits"],
    [chat |-> 1, key |-> 1, album |-> TRUE, video |-> TRUE, size |-> "split"],
    [chat |-> 1, key |-> 1, album |-> TRUE, video |-> FALSE, size |-> "over"] }

MCBatches == UNION {[1..n -> Kinds] : n \in 0..MaxFiles}
=============================================================================

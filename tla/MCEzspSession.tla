--------------------------- MODULE MCEzspSession ---------------------------
(* A small instance of EzspSession for TLC. *)
EXTENDS EzspSession

\* Two lost transactions or resets of the NCP's own; one control request or
\* incoming message.
CommandsLimit == [fault |-> 2, event |-> 1]

\* The chip an image is for, and one that differs in its phy alone.
ThisChip == <<4, 12, 3>>
CommandsChips == {ThisChip, <<4, 12, 5>>}

\* One attribute of every record size (5, 12, 17, 5 + host name, 3).
Attributes == {0, 4, 16384, 16, 39321}

Message(hdr, manuf, attrs) ==
    [hdr |-> hdr, manuf |-> manuf, attrs |-> attrs, permit |-> FALSE, basic |-> TRUE,
     global |-> TRUE, read |-> TRUE]

\* Every list of up to four attributes; responses of 64, 65 and more than 96
\* bytes; messages as long as the buffer and longer; cut and padded headers;
\* and everything that is no read at all.
CommandsMessages ==
    {Message(3, FALSE, a) : a \in UNION {[1..l -> Attributes] : l \in 0..4}}
    \cup {Message(3, FALSE, <<16384, 16384, 16384>> \o a) :
            a \in {<<0, 0>>, <<39321, 39321, 0>>, <<16384, 16384, 16384>>}}
    \cup {Message(3, FALSE, [j \in 1..l |-> 39321] \o <<16>>) : l \in {15, 19, 20, 21}}
    \cup {Message(h, TRUE, <<>>) : h \in 2..6}
    \cup {Message(h, FALSE, <<4>>) : h \in {3, 4}} \cup {Message(2, FALSE, <<>>)}
    \cup {Message(5, TRUE, <<4, 0>>)}
    \cup {[Message(3, FALSE, <<4>>) EXCEPT ![f] = ~@] : f \in {"permit", "basic", "global", "read"}}
=============================================================================

\* Two senders and two receivers, one of which also opens, closes and stats the
\* mailbox; four bytes of buffer, messages of two and of three bytes.
CONSTANTS
    Senders = {s1, s2}
    Receivers = {r1, r2}
    Openers = {r1}
    MBUFFER_SIZE = 4
    HeaderSize = 2
    MaxOwners = 1
    short = short
    long = long
    Messages <- MCMessages
    content_size <- MCContentSize
    NoThread = nobody
    NoMessage = nothing
SPECIFICATION Spec
SYMMETRY Symmetry
INVARIANTS
    SpaceIsFree
    NoForgottenReceiver
    NoForgottenSender
PROPERTIES
    ImplementsChannel

----------------------------- MODULE ByteStream -----------------------------
(***************************************************************************)
(* What the console promises, without registers, polling or backends: a    *)
(* stream of bytes that keeps their order, and gives single bytes up.  As  *)
(* its calls are synchronous, at most one byte is still on its way when    *)
(* the next call begins, so closing the stream and opening it again costs  *)
(* at most that byte.                                                      *)
(***************************************************************************)
EXTENDS Naturals, SequencesExt

CONSTANT MaxWrite  \* the most bytes of one call

VARIABLES
    written,  \* how many bytes have been written
    waiting,  \* the positions of those still to be accepted
    accepted, \* the position of the one on its way, if there is one
    sent,     \* the positions of those that came out
    open,     \* the console takes calls
    arrived,  \* how many bytes have come in
    inbox,    \* those nobody has read
    read      \* those that were read

streamVars == <<written, waiting, accepted, sent, open, arrived, inbox, read>>
outputVars == <<written, waiting, accepted, sent>>
inputVars == <<arrived, inbox, read>>

StreamInit ==
    /\ written = 0 /\ waiting = <<>> /\ accepted = <<>> /\ sent = <<>>
    /\ open = FALSE
    /\ arrived = 0 /\ inbox = <<>> /\ read = <<>>

Write ==
    /\ open /\ waiting = <<>>
    /\ \E k \in 0 .. MaxWrite :
          /\ written' = written + k
          /\ waiting' = [q \in 1 .. k |-> written + q]
    /\ UNCHANGED <<accepted, sent, open>> /\ UNCHANGED inputVars

\* The next byte is accepted when the one before it is out.
Accept ==
    /\ open /\ waiting # <<>> /\ accepted = <<>>
    /\ accepted' = <<Head(waiting)>> /\ waiting' = Tail(waiting)
    /\ UNCHANGED <<written, sent, open>> /\ UNCHANGED inputVars

Send ==
    /\ accepted # <<>>
    /\ sent' = Append(sent, Head(accepted)) /\ accepted' = <<>>
    /\ UNCHANGED <<written, waiting, open>> /\ UNCHANGED inputVars

\* One byte, the one whose turn it is, and only because the one before it is still on
\* its way.
GiveUp ==
    /\ open /\ waiting # <<>> /\ accepted # <<>>
    /\ waiting' = Tail(waiting)
    /\ UNCHANGED <<written, accepted, sent, open>> /\ UNCHANGED inputVars

\* A stream opens with nothing on its way.
Open ==
    /\ ~open /\ waiting = <<>> /\ accepted = <<>>
    /\ open' = TRUE
    /\ UNCHANGED outputVars /\ UNCHANGED inputVars

Close ==
    /\ open /\ waiting = <<>>
    /\ open' = FALSE
    /\ UNCHANGED outputVars /\ UNCHANGED inputVars

\* Only while the stream is closed is an accepted byte, or input, thrown away.
Reset ==
    /\ ~open /\ waiting = <<>>
    /\ accepted' = <<>> /\ inbox' = <<>>
    /\ UNCHANGED <<written, waiting, sent, open, arrived, read>>

Arrive ==
    /\ arrived' = arrived + 1 /\ inbox' = Append(inbox, arrived + 1)
    /\ UNCHANGED <<read, open>> /\ UNCHANGED outputVars

Read ==
    /\ open /\ inbox # <<>>
    /\ read' = Append(read, Head(inbox)) /\ inbox' = Tail(inbox)
    /\ UNCHANGED <<arrived, open>> /\ UNCHANGED outputVars

StreamNext == Write \/ Accept \/ Send \/ GiveUp \/ Open \/ Close \/ Reset \/ Arrive \/ Read

StreamSpec == StreamInit /\ [][StreamNext]_streamVars
=============================================================================

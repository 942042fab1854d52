----------------------------- MODULE ByteStream -----------------------------
(***************************************************************************)
(* What common/stream.h promises of one direction of a stream, whatever    *)
(* carries it: the reader is given the bytes the writer sent, in order,    *)
(* each once; it is told of the end only after the last byte before the    *)
(* writer's close, unless its own connection broke.  A reader that has     *)
(* closed its end is promised nothing.                                     *)
(***************************************************************************)
EXTENDS Integers

VARIABLES
  sent,       \* bytes the writer has handed over
  fin,        \* how many of them before its close, or -1
  position,   \* position of the next byte the reader will be given
  taken,      \* how many bytes it has been given
  ended,      \* how many when it was told of the end, or -1
  broken,     \* the reader's connection has failed
  open        \* the reader has not closed its end

vars == <<sent, fin, position, taken, ended, broken, open>>

Init ==
  /\ sent = 0
  /\ fin = -1
  /\ position = 0
  /\ taken = 0
  /\ ended = -1
  /\ broken = FALSE
  /\ open = TRUE

Send ==
  /\ sent' > sent
  /\ UNCHANGED <<fin, position, taken, ended, broken, open>>

Finish ==
  /\ fin = -1
  /\ fin' = sent
  /\ UNCHANGED <<sent, position, taken, ended, broken, open>>

\* The end may come with the last bytes (a read of all that completes short).
End ==
  /\ ended = -1
  /\ broken \/ (fin # -1 /\ taken' >= fin)
  /\ ended' = taken'

Give ==
  /\ open
  /\ \/ position' = position /\ taken' = taken
     \/ position' > position /\ position' <= sent
        /\ taken' - taken = position' - position
  /\ End \/ ended' = ended
  /\ UNCHANGED <<sent, fin, broken, open>>

Break ==
  /\ broken' = TRUE
  /\ UNCHANGED <<sent, fin, position, taken, ended, open>>

\* From here on the reader's side may do anything.
Leave ==
  /\ open' = FALSE
  /\ UNCHANGED <<sent, fin, ended, broken>>

Left ==
  /\ ~open /\ ~open'
  /\ UNCHANGED <<sent, fin, ended, broken>>

Next == Send \/ Finish \/ Give \/ Break \/ Leave \/ Left

Spec == Init /\ [][Next]_vars
=============================================================================

------------------------------ MODULE ByteStream ------------------------------
(***************************************************************************)
(* What a serial port whose two directions share one buffer promises the   *)
(* two ends of the line: the firmware takes the bytes the host sent, once  *)
(* each and in the order they were sent, but for those that found Cap      *)
(* bytes waiting, and those in the buffer when the firmware transmitted.   *)
(***************************************************************************)
EXTENDS Naturals, Sequences

CONSTANTS
  Cap, \* a byte that finds fewer than Cap waiting is never dropped
  Own  \* what the firmware transmits

VARIABLES sent,    \* how many bytes the host has sent; they are numbered from 1
          pending, \* accepted, not yet taken
          taken,   \* what the firmware read
          overwritten \* the host's bytes a transmission took the place of

stream == << sent, pending, taken, overwritten >>

Init == sent = 0 /\ pending = << >> /\ taken = << >> /\ overwritten = {}

\* With Cap waiting a byte may still find room, or be dropped.
Send ==
  /\ sent' = sent + 1
  /\ \/ Len(pending) <= Cap /\ pending' = Append(pending, sent')
     \/ Len(pending) >= Cap /\ UNCHANGED pending
  /\ UNCHANGED << taken, overwritten >>

Take ==
  /\ pending # << >>
  /\ taken' = Append(taken, Head(pending))
  /\ pending' = Tail(pending)
  /\ UNCHANGED << sent, overwritten >>

\* A transmission costs the oldest byte pending, and none of those behind it.
Overwrite ==
  /\ pending # << >> /\ Head(pending) # Own
  /\ pending' = << Own >> \o Tail(pending)
  /\ overwritten' = overwritten \cup {Head(pending)}
  /\ UNCHANGED << sent, taken >>

Next == Send \/ Take \/ Overwrite

Spec == Init /\ [][Next]_stream
===============================================================================

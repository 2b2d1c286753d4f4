-------------------------------- MODULE Mailbox --------------------------------
(***************************************************************************)
(* What a bounded channel between a stream of messages and its readers     *)
(* promises if nobody waits for room: the readers together take the        *)
(* messages in the order of the stream, none twice, and a message is lost  *)
(* only if the mailbox is full when it arrives.  Messages are their        *)
(* positions in the stream.                                                *)
(***************************************************************************)
EXTENDS Naturals, Sequences

CONSTANT Cap  \* how many messages the mailbox holds

VARIABLES
  offered, \* how many messages of the stream have been put in or lost
  box,     \* the messages that wait
  taken    \* the messages the readers have taken, in order

vars == <<offered, box, taken>>

Init == offered = 0 /\ box = <<>> /\ taken = <<>>

Accept ==
  /\ Len(box) < Cap
  /\ offered' = offered + 1
  /\ box' = Append(box, offered + 1)
  /\ UNCHANGED taken

Lose ==
  /\ Len(box) = Cap
  /\ offered' = offered + 1
  /\ UNCHANGED <<box, taken>>

Take ==
  /\ box # <<>>
  /\ taken' = Append(taken, Head(box))
  /\ box' = Tail(box)
  /\ UNCHANGED offered

Next == Accept \/ Lose \/ Take

Spec == Init /\ [][Next]_vars
=============================================================================

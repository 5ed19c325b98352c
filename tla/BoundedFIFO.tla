----------------------------- MODULE BoundedFIFO -----------------------------
(***************************************************************************)
(* What a transmission queue of the switch promises: frames leave in the   *)
(* order in which they were accepted, each of them once, and at most Size  *)
(* of them wait.                                                           *)
(***************************************************************************)
EXTENDS Naturals, Sequences

CONSTANTS Frames, Size, Nothing

VARIABLES
  fifo,     (* the frames that wait                                          *)
  taken     (* the frame that left last, or Nothing                          *)

Init == fifo = <<>> /\ taken = Nothing

Put(f) ==
  /\ Len(fifo) < Size
  /\ fifo' = Append(fifo, f)
  /\ taken' \in {taken, Nothing}

Take ==
  /\ fifo # <<>>
  /\ taken' = Head(fifo)
  /\ fifo' = Tail(fifo)

(* Nothing waits for being taken: the last frame is forgotten.             *)
Forget == taken' = Nothing /\ UNCHANGED fifo

Next == (\E f \in Frames : Put(f)) \/ Take \/ Forget

Spec == Init /\ [][Next]_<<fifo, taken>>
=============================================================================

----------------------------- MODULE ByteQueues -----------------------------
(***************************************************************************)
(* What a set of BulpBuffers promises its callers: each one is a FIFO      *)
(* queue of bytes.  Nothing here knows of fragments, of the recycling bin  *)
(* or of sizes.  `io' is the observable call of a step: which operation,   *)
(* on which buffer, the count the caller (or the kernel) asked for and the *)
(* bytes that crossed the interface.  Module BulpBuffer is shown to        *)
(* implement this specification.                                           *)
(***************************************************************************)
EXTENDS Integers, Sequences

CONSTANTS
  Buffers,  (* the buffers of the program                               *)
  Hole,     (* a reserved byte whose value has not been supplied yet     *)
  NUL       (* the byte 0                                                *)

VARIABLES
  queue,    (* queue[b]: the bytes waiting in buffer b, first byte first *)
  io        (* the call of the last step                                 *)

Idle == "idle"

Init ==
  /\ queue = [b \in Buffers |-> <<>>]
  /\ io.op = Idle

-----------------------------------------------------------------------------
(* Bytes enter a queue at its end, exactly as the caller gave them.        *)
Put ==
  /\ io'.op = "put"
  /\ queue' = [queue EXCEPT ![io'.buf] = @ \o io'.bytes]

(* Formatted text enters at the end.  The code may lose the text's last    *)
(* character to the terminating NUL of vsnprintf: BulpBuffer!PrintfExact   *)
(* states the stronger promise and a run shows that it does not hold.      *)
Format ==
  LET s == io'.bytes
      chopped == [i \in 1..Len(s) |-> IF i = Len(s) THEN NUL ELSE s[i]]
  IN /\ io'.op = "format"
     /\ \E t \in {s, chopped} : queue' = [queue EXCEPT ![io'.buf] = @ \o t]

(* Bytes leave a queue from its front, in order, as many as were asked for *)
(* or all there are.                                                       *)
Take ==
  LET q == queue[io'.buf]
      n == IF io'.want <= Len(q) THEN io'.want ELSE Len(q)
  IN /\ io'.op = "take"
     /\ io'.bytes = SubSeq(q, 1, n)
     /\ queue' = [queue EXCEPT ![io'.buf] = SubSeq(@, n + 1, Len(@))]

(* Bytes move from the front of one queue to the end of another.           *)
Move ==
  LET q == queue[io'.buf]
      n == IF io'.want <= Len(q) THEN io'.want ELSE Len(q)
  IN /\ io'.op = "move"
     /\ queue' = [queue EXCEPT ![io'.buf] = SubSeq(@, n + 1, Len(@)),
                               ![io'.to]  = @ \o SubSeq(q, 1, n)]

(* Reserved bytes are supplied in place, and no other byte changes.        *)
Supply ==
  LET s == io'.bytes
  IN /\ io'.op = "supply"
     /\ \E b \in Buffers : \E at \in 0 .. Len(queue[b]) - Len(s) :
          /\ \A j \in 1 .. Len(s) : queue[b][at + j] = Hole
          /\ queue' = [queue EXCEPT ![b] =
               [i \in 1 .. Len(@) |-> IF i - at \in 1 .. Len(s) THEN s[i - at]
                                                                ELSE @[i]]]

(* A queue is thrown away.                                                 *)
Empty ==
  /\ io'.op = "empty"
  /\ queue' = [queue EXCEPT ![io'.buf] = <<>>]

(* A call that moves no byte.                                              *)
Silent ==
  /\ io'.op = Idle
  /\ UNCHANGED queue

Next == Put \/ Format \/ Take \/ Move \/ Supply \/ Empty \/ Silent

Spec == Init /\ [][Next]_<<queue, io>>
=============================================================================

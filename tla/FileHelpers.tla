----------------------------- MODULE FileHelpers ----------------------------
(***************************************************************************)
(* bulp_util_readn of bulp-util.c: a loop of read(2) on a descriptor.  The *)
(* kernel gives any part of what is asked for, nothing at the end of the   *)
(* file, an error, or EINTR, which changes nothing and is a stuttering     *)
(* step here.                                                              *)
(***************************************************************************)
EXTENDS Integers, Sequences

CONSTANTS Files, NULL

VARIABLES
  file,      (* file[f]: bytes, the offset of its descriptor, open         *)
  call       (* the bulp_util_readn under way or just ended, or NULL       *)

(* What read(2) has left to give.                                          *)
Ahead(f) == IF file[f].open THEN SubSeq(file[f].bytes, file[f].pos + 1, Len(file[f].bytes))
            ELSE <<>>

(* Nothing need be read for no bytes.                                      *)
readn(f, len) ==
  call' = [fd |-> f, len |-> len, got |-> <<>>, result |-> IF len = 0 THEN "OK" ELSE "running"]

Running == call # NULL /\ call.result = "running"
Ended(result) == call # NULL /\ call.result = result

(* read returns n > 0 bytes; the loop ends when none remain.               *)
ReadSome ==
  /\ Running
  /\ LET f == call.fd
     IN \E n \in 1 .. call.len - Len(call.got) :
          /\ n <= Len(Ahead(f))
          /\ file' = [file EXCEPT ![f].pos = @ + n]
          /\ call' = [call EXCEPT !.got = @ \o SubSeq(Ahead(f), 1, n),
                                  !.result = IF Len(call.got) + n = call.len
                                             THEN "OK" ELSE "running"]

(* Broken variant: the end of the file is waited out.                      *)
ReadNothing_Waits == Running /\ Ahead(call.fd) = <<>> /\ UNCHANGED <<file, call>>

(* Broken variant: what came of an entry is forgotten.                     *)
ReadNothing_IsTheEnd ==
  /\ Running /\ Ahead(call.fd) = <<>> /\ file[call.fd].open
  /\ call' = [call EXCEPT !.result = "EOF"]
  /\ UNCHANGED file

(* read returns 0.                                                         *)
ReadNothing ==
  /\ Running /\ Ahead(call.fd) = <<>> /\ file[call.fd].open
  /\ call' = [call EXCEPT !.result = IF call.got = <<>> THEN "EOF" ELSE "ERROR"]
  /\ UNCHANGED file

(* read returns -1: the descriptor is closed, or the disk has failed.      *)
Fails == call' = [call EXCEPT !.result = "ERROR"] /\ UNCHANGED file
ReadClosed == Running /\ ~file[call.fd].open /\ Fails
ReadFails == Running /\ file[call.fd].open /\ Fails

(* A read that is answered; a disk need not fail.                          *)
Answer == ReadSome \/ ReadNothing \/ ReadClosed
Kernel == Answer \/ ReadFails
=============================================================================

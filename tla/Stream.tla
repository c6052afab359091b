------------------------------- MODULE Stream -------------------------------
(***************************************************************************)
(* What a path that copies data promises the one who reads at its end: no  *)
(* more arrives than was put in, and as long as the reader is there it is  *)
(* told of the end only when all that was put in has arrived, and nothing  *)
(* is put in after that.  Data is counted; a path that could reorder it    *)
(* says so itself.                                                         *)
(*                                                                         *)
(* Bridge implements it with a command's output, Relay with each direction *)
(* of a forwarded connection.                                              *)
(***************************************************************************)
EXTENDS Naturals

VARIABLES
  put,   \* how much was put in
  got,   \* how much has arrived
  told,  \* the reader was told that this is all
  gone   \* the reader has left

Init == put = 0 /\ got = 0 /\ told = FALSE /\ gone = FALSE

Put ==
  /\ ~ told \/ gone
  /\ put' \in Nat /\ put' > put
  /\ UNCHANGED <<got, told, gone>>

Get ==
  /\ got' \in Nat /\ got' > got /\ got' <= put
  /\ UNCHANGED <<put, told, gone>>

Tell ==
  /\ got = put \/ gone
  /\ told' = TRUE
  /\ UNCHANGED <<put, got, gone>>

Leave ==
  /\ gone' = TRUE
  /\ UNCHANGED <<put, got, told>>

Next == Put \/ Get \/ Tell \/ Leave

Spec == Init /\ [][Next]_<<put, got, told, gone>>

=============================================================================

----------------------------- MODULE ByteStream -----------------------------
(***************************************************************************)
(* What every AsyncStream of the proxy promises in one direction (the      *)
(* trait AsyncStream of util.rs): the bytes read are the bytes written, in *)
(* the order written, none of them lost, repeated or invented.  The framed *)
(* and buffered streams of the protocol modules are shown to implement it. *)
(***************************************************************************)
EXTENDS Naturals, Sequences

VARIABLES sent,      \* bytes the writer handed to poll_write, in order
          received   \* bytes poll_read handed to the reader, in order

bsvars == <<sent, received>>

Extends(t, s) ==
  /\ Len(s) <= Len(t)
  /\ \A i \in 1 .. Len(s) : t[i] = s[i]

Init == sent = <<>> /\ received = <<>>

Write == Extends(sent', sent) /\ UNCHANGED received

Read == /\ Extends(received', received)
        /\ Extends(sent, received')
        /\ UNCHANGED sent

Next == Write \/ Read

Spec == Init /\ [][Next]_bsvars
=============================================================================

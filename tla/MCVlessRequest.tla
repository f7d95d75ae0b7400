--------------------------- MODULE MCVlessRequest ---------------------------
(* Requests for TLC, with the sizes of the code: addresses of each kind and  *)
(* names of the shortest and the longest length the length byte can carry,   *)
(* ports with different bytes, the user and a stranger.                      *)
EXTENDS VlessRequest

User     == [i \in 1 .. 16 |-> 100 + i]
Stranger == [User EXCEPT ![16] = 0]
Hosts    == {[kind |-> V4, host |-> <<127, 0, 0, 1>>],
             [kind |-> Name, host |-> <<>>],
             [kind |-> Name, host |-> <<97, 46, 98>>],
             [kind |-> V6, host |-> [i \in 1 .. 16 |-> i - 1]]}
Ports    == {0, 80, 443, 65535}
Later    == <<22, 3, 1>>

Own == {[version |-> 0, id |-> i, addons |-> <<>>, command |-> Tcp, port |-> p, target |-> t] :
          i \in {User, Stranger}, p \in Ports, t \in Hosts}

(* Requests connect does not write: the other commands and invalid fields. *)
Plain  == [version |-> 0, id |-> User, addons |-> <<>>, command |-> Tcp, port |-> 443,
           target |-> [kind |-> V4, host |-> <<10, 0, 0, 1>>]]
Others == {[Plain EXCEPT !.command = c] : c \in {0, 2, 3, 4}}
            \cup {[Plain EXCEPT !.version = 1], [Plain EXCEPT !.target.kind = 0],
                  [Plain EXCEPT !.target.kind = 4]}
(* The addons of a client that asks for a flow, a protobuf message. *)
WithAddons == {[Plain EXCEPT !.addons = a] : a \in {<<10, 1, 120>>, <<1>>, <<1, 1, 187, 1>>}}

(* The longest name that a byte can count, two longer ones, the first of   *)
(* which loses all of its length, and all of the above.                    *)
Longest == {[Plain EXCEPT !.target = [kind |-> Name, host |-> [i \in 1 .. n |-> 97 + (i % 26)]]] :
              n \in {255, 256, 259}}
AllRequests == Own \cup Others \cup WithAddons \cup Longest
=============================================================================

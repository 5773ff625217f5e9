--------------------------- MODULE CommandStream ---------------------------
(***************************************************************************)
(* What the core of an agent may expect of its upstream connection: the    *)
(* commands of its parent, some of them lost, none before it was sent,     *)
(* none after a younger one, and none twice.  Connections, the channel and *)
(* what is on its way are not seen.                                        *)
(***************************************************************************)
EXTENDS Integers, Sequences

CONSTANT MaxCommands    \* bound on the commands

VARIABLES
    sent,       \* how many commands the parent sent; they are numbered
    handled     \* the commands that the core got, in order

Init == sent = 0 /\ handled = <<>>

Send ==
    /\ sent < MaxCommands
    /\ sent' = sent + 1
    /\ UNCHANGED handled

(* A command that was sent, younger than all before it. *)
Handle ==
    /\ \E n \in 1 .. sent :
          /\ \A i \in DOMAIN handled : handled[i] < n
          /\ handled' = Append(handled, n)
    /\ UNCHANGED sent

Next == Send \/ Handle

Spec == Init /\ [][Next]_<<sent, handled>>
=============================================================================

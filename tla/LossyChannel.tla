----------------------------- MODULE LossyChannel -----------------------------
(***************************************************************************)
(* What the relay client promises the rest of the daemon, without sockets, *)
(* timers and reconnects: an envelope is on its way, or held until there   *)
(* is a way.  What is on its way arrives in order and once, or is lost     *)
(* together with everything else on the way; of what is held, only the     *)
(* oldest is ever given up, and only for want of room.                     *)
(***************************************************************************)
EXTENDS Naturals, Sequences

CONSTANT Capacity   \* how many envelopes can be held

VARIABLES
    sent,        \* envelopes sent; they are numbered from 0
    transit,     \* those on their way, in order
    held,        \* those waiting for a way, in order
    delivered    \* those that arrived, in order

vars == << sent, transit, held, delivered >>

Init ==
    sent = 0 /\ transit = << >> /\ held = << >> /\ delivered = << >>

Dispatch ==
    /\ sent' = sent + 1
    /\ transit' = Append(transit, sent)
    /\ UNCHANGED << held, delivered >>

\* There seems to be a way, and there is none.
DispatchLost ==
    /\ sent' = sent + 1
    /\ UNCHANGED << transit, held, delivered >>

Hold ==
    /\ sent' = sent + 1
    /\ \/ /\ Len(held) < Capacity
          /\ held' = Append(held, sent)
       \/ /\ Len(held) >= Capacity
          /\ held' = Append(Tail(held), sent)
    /\ UNCHANGED << transit, delivered >>

\* There is a way again: what was held goes first.
Release ==
    /\ transit' = transit \o held
    /\ held' = << >>
    /\ UNCHANGED << sent, delivered >>

Deliver ==
    /\ transit # << >>
    /\ delivered' = Append(delivered, Head(transit))
    /\ transit' = Tail(transit)
    /\ UNCHANGED << sent, held >>

Lose ==
    /\ transit' = << >>
    /\ UNCHANGED << sent, held, delivered >>

Next == Dispatch \/ DispatchLost \/ Hold \/ Release \/ Deliver \/ Lose

Spec == Init /\ [][Next]_vars
===============================================================================

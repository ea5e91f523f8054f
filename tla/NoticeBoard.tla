---------------------------- MODULE NoticeBoard ----------------------------
(***************************************************************************)
(* What the way to the lead promises for the notices of a team, without a  *)
(* channel, a file, attempts or targets: a notice comes from an operation  *)
(* that posts it, stays on the board until a notice of the same run is     *)
(* taken up, and outlives the process once it is kept for review.          *)
(***************************************************************************)
CONSTANT Notice   \* a notice n speaks of the run n.run

VARIABLES board,  \* notices posted and not settled
          kept    \* those of them kept for review

vars == <<board, kept>>

Init == board = {} /\ kept = {}

\* Only notices of the run of n leave the board.
OnlyRunOf(n) == /\ board' \subseteq board
                /\ \A m \in board \ board' : m.run = n.run

Post(n) ==
    /\ board' = board \cup {n}
    /\ kept' \in {kept, kept \cup {n}}

\* The lead took up n, and with it whatever is kept of its run.
Deliver(n) ==
    /\ n \in board
    /\ OnlyRunOf(n)
    /\ kept' = {m \in kept : m.run # n.run}

\* The lead did not resolve n, which goes back, perhaps to the place of another
\* notice of its run.
PutBack(n) ==
    /\ n \in board /\ n \in board'
    /\ OnlyRunOf(n)
    /\ kept' \subseteq kept \cup {n}
    /\ \A m \in kept \ kept' : m.run = n.run

\* The process dies with what it had in memory alone.
Forget ==
    /\ board' \subseteq board
    /\ kept \subseteq board'
    /\ UNCHANGED kept

Next == \/ \E n \in Notice : Post(n) \/ Deliver(n) \/ PutBack(n)
        \/ Forget

Spec == Init /\ [][Next]_vars
=============================================================================

----------------------------- MODULE PortLedger -----------------------------
(***************************************************************************)
(* What the network policy handler promises: one book that maps services   *)
(* to their exposed ports.  Every write changes the page of one service.   *)
(* The ports let through are in the book, and of the ports in the book at   *)
(* least those are let through that only one page may have.                 *)
(***************************************************************************)
CONSTANTS
    Key, Entry, PortOf,
    Sole        \* the ports that only one page may have

VARIABLES
    present,    \* is there a book?
    page,       \* page[k]: the exposed ports recorded under k
    open        \* the ports let through

PortsOf(E) == {PortOf[e] : e \in E}

Noted == PortsOf(UNION {page[k] : k \in Key})

Balanced == open \subseteq Noted /\ Noted \cap Sole \subseteq open

Init == Balanced /\ (present \/ page = [k \in Key |-> {}])

Write(k, E) ==
    /\ present'
    /\ page' = [page EXCEPT ![k] = E]
    /\ Balanced'

Discard ==
    /\ ~present'
    /\ page' = [k \in Key |-> {}]
    /\ open' = {}

Next == Discard \/ \E k \in Key : \E E \in SUBSET Entry : Write(k, E)

Spec == Init /\ [][Next]_<<present, page, open>>
=============================================================================

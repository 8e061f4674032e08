----------------------------- MODULE OutageBoard -----------------------------
(***************************************************************************)
(* What the alert pipeline promises to whoever reads a chat, whatever it   *)
(* does inside: an outage message appears only for a proxy known to be     *)
(* down, one at a time in each chat, and goes only when the outage is over *)
(* (telegram/alerts.go, "smart alert lifecycle").                          *)
(***************************************************************************)
EXTENDS Naturals

CONSTANTS
    Ids,      \* proxies
    Targets   \* chats

VARIABLES
    known,    \* [Ids -> what is known of the proxy]
    board     \* [Targets \X Ids -> outage messages standing there]

boardVars == <<known, board>>

Slots == Targets \X Ids

\* "unknown": never seen, disabled or gone.
Knowledge == {"unknown", "up", "down"}

BoardInit ==
    /\ known = [i \in Ids |-> "unknown"]
    /\ board = [s \in Slots |-> 0]

\* News arrive; messages of outages that are over may go at the same moment.
Observe ==
    /\ known' \in [Ids -> Knowledge]
    /\ \E gone \in SUBSET {s \in Slots : board[s] = 1 /\ known'[s[2]] # "down"} :
          board' = [s \in Slots |-> IF s \in gone THEN 0 ELSE board[s]]

Announce(s) ==
    /\ known[s[2]] = "down"
    /\ board[s] = 0
    /\ board' = [board EXCEPT ![s] = 1]
    /\ UNCHANGED known

\* The messages of outages that are over are taken down, some or all at once.
TakeDown(gone) ==
    /\ \A s \in gone : board[s] = 1 /\ known[s[2]] # "down"
    /\ board' = [s \in Slots |-> IF s \in gone THEN 0 ELSE board[s]]
    /\ UNCHANGED known

BoardNext ==
    \/ Observe
    \/ \E s \in Slots : Announce(s)
    \/ \E gone \in SUBSET Slots : TakeDown(gone)

BoardSpec == BoardInit /\ [][BoardNext]_boardVars

=============================================================================

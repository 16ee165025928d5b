---------------------------- MODULE MCSharedCache ---------------------------
(***************************************************************************)
(* Small instances of SharedCache.                                          *)
(***************************************************************************)
EXTENDS SharedCache, TLC

CONSTANTS k1, k2, k3, k4, a, b, c
PageOne == {<<"makeability", 1>>}
AllKeys == PageOne \cup {TicketKey(k) : k \in Tickets} \cup {SessionKey(k) : k \in Tickets}
Owners == [k \in Tickets |-> IF k = k2 THEN b ELSE IF k = k3 THEN c ELSE a]
\* Edits, orders and pages.
PagesFocus == [editors |-> {1, 2}, readers |-> {1, 2, 3}, tickets |-> {}, conns |-> {},
               calls |-> {}, open |-> <<>>, hours |-> 4]
\* An edit that clears a ticket or a session along with the pages.
ClearFocus == [editors |-> {1}, readers |-> {}, tickets |-> {k1}, conns |-> {1},
               calls |-> {1, 2}, open |-> <<>>, hours |-> 3]
\* Two connections for two tickets of one user, or for one ticket.
TicketsFocus == [editors |-> {}, readers |-> {}, tickets |-> {k1, k4}, conns |-> {1, 2},
                 calls |-> {1}, open |-> <<>>, hours |-> 3]
\* Three users, one more than the limiter remembers.
LimiterFocus == [editors |-> {}, readers |-> {}, tickets |-> {}, conns |-> {},
                 calls |-> 1..4, open |-> (k1 :> 1) @@ (k2 :> 2) @@ (k3 :> 3), hours |-> 2]
AllFocuses == {PagesFocus, ClearFocus, TicketsFocus, LimiterFocus}
=============================================================================

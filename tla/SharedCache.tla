----------------------------- MODULE SharedCache ----------------------------
(***************************************************************************)
(* Makeability pages and the MCP server over the one cache: an inventory    *)
(* edit may clear the tickets and the sessions along with the pages.        *)
(***************************************************************************)
EXTENDS Makeability, Mcp

CONSTANTS Focuses   \* what a behaviour is about, and how long its clock runs

\* The keys of the MCP server have prefixes that no page key has.
ASSUME TicketKeysAssumption ==
  \A k \in Tickets : {TicketKey(k), SessionKey(k)} \subseteq Keys \ PageKeys
ASSUME FocusAssumption ==
  /\ Null \notin Tickets
  /\ \A f \in Focuses :
       /\ f.editors \subseteq Editors /\ f.readers \subseteq Readers
       /\ f.tickets \subseteq Tickets /\ f.conns \subseteq Conns /\ f.calls \subseteq Calls
       /\ DOMAIN f.open \subseteq Tickets

VARIABLE focus      \* [editors, readers, tickets, conns, calls, open, hours]

vars == <<cacheVars, pageVars, mcpVars, focus>>

Tick == /\ now < focus.hours
        /\ PageQuiet
        /\ now' = now + 1
        /\ UNCHANGED <<cache, pageVars, mcpVars, focus>>
Init ==
  /\ focus \in Focuses
  /\ now = 0
  /\ cache = [x \in Keys |->
       IF \E k \in DOMAIN focus.open : x = SessionKey(k)
       THEN [val |-> 0, till |-> SessionTime] ELSE Null]
  /\ PageInit
  /\ McpInit(focus.open)
Next ==
  \/ PageNext(focus.editors, focus.readers) /\ UNCHANGED <<mcpVars, focus>>
  \/ McpNext(focus.tickets, focus.conns, focus.calls) /\ UNCHANGED <<pageVars, focus>>
  \/ Tick
Spec == Init /\ [][Next]_vars
=============================================================================

-------------------------------- MODULE Mcp ---------------------------------
(***************************************************************************)
(* The MCP server: one-time tickets and sessions in the cache               *)
(* (mcp-ticket.service.ts), SSE connections in the memory of the process    *)
(* (mcp.controller.ts), and executeTool with its rate limiter               *)
(* (mcp-server.service.ts).  A session is named by the ticket it was opened *)
(* with, from which the code derives its id.                                *)
(***************************************************************************)
EXTENDS RedisCache

CONSTANTS Tickets,      \* tickets a user may ask for
          Owner,        \* ticket to user
          Conns,        \* SSE requests, numbered in the order they arrive
          Calls,        \* tool calls, numbered in the order they arrive
          TicketTime,   \* 30 seconds
          SessionTime,  \* 30 minutes
          Window,       \* of the rate limiter (60 seconds)
          Rate,         \* calls a window admits (30)
          MaxKeys       \* users the limiter remembers (10 000)

ASSUME McpAssumption ==
  /\ Conns \subseteq Nat /\ Calls \subseteq Nat
  /\ TicketTime \in Nat \ {0} /\ SessionTime \in Nat \ {0}
  /\ Window \in Nat \ {0} /\ Rate \in Nat \ {0} /\ MaxKeys \in Nat \ {0}

Users == {Owner[k] : k \in Tickets}
TicketKey(k) == <<"ticket", k>>
SessionKey(k) == <<"session", k>>

VARIABLES
  minted,  \* history: tickets handed out, and when
  conn,    \* SSE requests: next step, ticket, when the session was created
  sse,     \* sseConnections: session to connection, or Null
  call,    \* tool calls: next step, session, connection, created, result
  limiter, \* rateLimiter: user to its calls and their times
  ran,     \* history: the calls of a user that were executed
  spilled  \* history: users whose window was evicted while it was live

mcpVars == <<minted, conn, sse, call, limiter, ran, spilled>>

NewConn == [pc |-> "new", ticket |-> Null, created |-> 0, gone |-> FALSE]
NewCall == [pc |-> "new", session |-> Null, to |-> Null, created |-> 0]
\* Requests start in the order of their numbers.
First(S, x, state) == state[x].pc = "new" /\ \A y \in S : y < x => state[y].pc # "new"

(********************************* tickets *********************************)
GenerateTicket(k) ==
  /\ k \notin DOMAIN minted
  /\ minted' = [j \in DOMAIN minted \cup {k} |-> IF j = k THEN now ELSE minted[j]]
  /\ cache' = Put(TicketKey(k), Owner[k], TicketTime)
  /\ UNCHANGED <<now, conn, sse, call, limiter, ran, spilled>>

ConnStep(c, pc) == conn' = [conn EXCEPT ![c].pc = pc]
\* validateTicket: get, del, create the session, set.
SseTicket(c) ==
  \E k \in DOMAIN minted :
    /\ First(Conns, c, conn)
    /\ conn' = [conn EXCEPT ![c] =
         [NewConn EXCEPT !.pc = IF Get(TicketKey(k)) = Null THEN "refused" ELSE "delete",
                         !.ticket = k]]
    /\ UNCHANGED <<cacheVars, minted, sse, call, limiter, ran, spilled>>
\* Variant: the ticket is left to run out.
SseDeleteKeep(c) ==
  /\ conn[c].pc = "delete"
  /\ conn' = [conn EXCEPT ![c].pc = "store", ![c].created = now]
  /\ UNCHANGED <<cacheVars, minted, sse, call, limiter, ran, spilled>>
SseDelete(c) ==
  /\ conn[c].pc = "delete"
  /\ cache' = Del(TicketKey(conn[c].ticket))
  /\ conn' = [conn EXCEPT ![c].pc = "store", ![c].created = now]
  /\ UNCHANGED <<now, minted, sse, call, limiter, ran, spilled>>
SseStore(c) ==
  /\ conn[c].pc = "store"
  /\ cache' = Put(SessionKey(conn[c].ticket), conn[c].created, SessionTime)
  /\ ConnStep(c, "connect")
  /\ UNCHANGED <<now, minted, sse, call, limiter, ran, spilled>>

(******************************* connections *******************************)
\* The response enters the map, and a listener for its end is registered.
SseConnect(c) ==
  /\ conn[c].pc = "connect"
  /\ sse' = [sse EXCEPT ![conn[c].ticket] = c]
  /\ ConnStep(c, "open")
  /\ UNCHANGED <<cacheVars, minted, call, limiter, ran, spilled>>
\* Variant: the listener also takes the other connections of the user along.
SseCloseUser(c) ==
  /\ conn[c].pc = "open"
  /\ ~conn[c].gone
  /\ sse' = [k \in Tickets |-> IF Owner[k] = Owner[conn[c].ticket] THEN Null ELSE sse[k]]
  /\ ConnStep(c, "closed")
  /\ UNCHANGED <<cacheVars, minted, call, limiter, ran, spilled>>
\* The listener forgets the session, whichever connection it has by then.
SseClose(c) ==
  /\ conn[c].pc = "open"
  /\ ~conn[c].gone
  /\ sse' = [sse EXCEPT ![conn[c].ticket] = Null]
  /\ ConnStep(c, "closed")
  /\ UNCHANGED <<cacheVars, minted, call, limiter, ran, spilled>>
\* A client that leaves before the listener is there is never noticed.
SseLeave(c) ==
  /\ conn[c].pc \in {"delete", "store", "connect"}
  /\ ~conn[c].gone
  /\ conn' = [conn EXCEPT ![c].gone = TRUE]
  /\ UNCHANGED <<cacheVars, minted, sse, call, limiter, ran, spilled>>

(********************************* messages ********************************)
CallStep(m, pc) == call' = [call EXCEPT ![m].pc = pc]
\* messages: the connection is looked up, then the session.
MessageFind(m) ==
  \E k \in Tickets :
    /\ First(Calls, m, call)
    /\ call' = [call EXCEPT ![m] =
         [NewCall EXCEPT !.pc = IF sse[k] = Null THEN "no connection" ELSE "session",
                         !.session = k, !.to = sse[k]]]
    /\ UNCHANGED <<cacheVars, minted, conn, sse, limiter, ran, spilled>>
MessageSession(m) ==
  /\ call[m].pc = "session"
  /\ LET created == Get(SessionKey(call[m].session))
     IN  call' = [call EXCEPT
           ![m].pc = IF created = Null THEN "no session" ELSE "execute",
           ![m].created = IF created = Null THEN 0 ELSE created]
  /\ UNCHANGED <<cacheVars, minted, conn, sse, limiter, ran, spilled>>

(***************************** the rate limiter ****************************)
\* The map has no empty list: a call is entered as its user is, and a purge
\* removes a user with its last call.
Remembered == {u \in Users : limiter[u] # {}}
InWindow(calls) == {e \in calls : e.at >= now - Window}
Live(u) == InWindow(limiter[u]) # {}
\* evictOldestSession: a user whose last call is the longest ago.
Evictees == {u \in Remembered : \A v \in Remembered :
  \A d \in limiter[u] : \E e \in limiter[v] : d.at <= e.at}
\* A new user at the limit takes the place of an evicted one.
MakeRoom(u) ==
  IF limiter[u] = {} /\ Cardinality(Remembered) >= MaxKeys
  THEN {[limiter EXCEPT ![v] = {}] : v \in Evictees}
  ELSE {limiter}
Expired(m) == now - call[m].created > SessionTime
\* executeTool without waiting: the session's age, the window, the verdict.
Execute(m) ==
  /\ call[m].pc = "execute"
  /\ LET u == Owner[call[m].session]
     IN  IF Expired(m)
         THEN /\ CallStep(m, "expired")
              /\ UNCHANGED <<limiter, ran, spilled>>
         ELSE \E room \in MakeRoom(u) :
                LET entry == [call |-> m, at |-> now]
                    times == InWindow(room[u] \cup {entry})
                    fits  == Cardinality(times) <= Rate
                IN  /\ limiter' = [room EXCEPT ![u] = times]
                    /\ CallStep(m, IF fits THEN "tool" ELSE "limited")
                    /\ ran' = IF fits THEN [ran EXCEPT ![u] = @ \cup {entry}] ELSE ran
                    /\ spilled' = spilled \cup {v \in Remembered : room[v] = {} /\ Live(v)}
  /\ UNCHANGED <<cacheVars, minted, conn, sse>>
\* The tool has run; its answer goes to the connection found at the start.
Reply(m) ==
  /\ call[m].pc = "tool"
  /\ CallStep(m, "replied")
  /\ UNCHANGED <<cacheVars, minted, conn, sse, limiter, ran, spilled>>
\* Variant: a window is dropped once its first call is out of it.
PurgeFirst ==
  LET dead == {u \in Users : \E e \in limiter[u] : e.at < now - Window}
  IN  /\ Remembered # {}
      /\ limiter' = [u \in Users |-> IF u \in dead THEN {} ELSE limiter[u]]
      /\ UNCHANGED <<cacheVars, minted, conn, sse, call, ran, spilled>>
\* purgeExpiredRateLimiterKeys, once a minute.
Purge ==
  /\ Remembered # {}
  /\ limiter' = [u \in Users |-> InWindow(limiter[u])]
  /\ UNCHANGED <<cacheVars, minted, conn, sse, call, ran, spilled>>

\* Open tells which connection has redeemed a ticket and is open already.
McpInit(Open) ==
  /\ minted = [k \in DOMAIN Open |-> 0]
  /\ conn = [c \in Conns |->
       IF \E k \in DOMAIN Open : Open[k] = c
       THEN [NewConn EXCEPT !.pc = "open", !.ticket = CHOOSE k \in DOMAIN Open : Open[k] = c]
       ELSE NewConn]
  /\ sse = [k \in Tickets |-> IF k \in DOMAIN Open THEN Open[k] ELSE Null]
  /\ call = [m \in Calls |-> NewCall]
  /\ limiter = [u \in Users |-> {}]
  /\ ran = [u \in Users |-> {}]
  /\ spilled = {}
\* The steps of the tickets T, connections C and calls M.
McpNext(T, C, M) ==
  \/ \E k \in T : GenerateTicket(k)
  \/ \E c \in C : \/ SseTicket(c) \/ SseDelete(c) \/ SseStore(c)
                      \/ SseConnect(c) \/ SseClose(c) \/ SseLeave(c)
  \/ \E m \in M : MessageFind(m) \/ MessageSession(m) \/ Execute(m) \/ Reply(m)
  \/ Purge

(******************************** properties *******************************)
\* However calls, purges and evictions interleave, no user has more than Rate
\* calls executed within a window, unless its window was evicted (executeTool
\* and purgeExpiredRateLimiterKeys).
RateBounded ==
  \A u \in Users \ spilled : \A d \in ran[u] :
    Cardinality({e \in ran[u] : d.at <= e.at /\ e.at <= d.at + Window}) <= Rate

\* A connection that shares its session with no other one and whose client is
\* still there receives the session's messages: no other close or replacement
\* takes it out of the map (sse and its close listener).
OpenIsReachable ==
  \A c \in Conns :
    (/\ conn[c].pc = "open"
     /\ \A d \in Conns \ {c} : conn[d].ticket # conn[c].ticket)
      => sse[conn[c].ticket] = c

\* A ticket opens a session only within its lifetime, counted from when it was
\* handed out, and for requests that looked it up before the first of them
\* deleted it (generateTicket, validateTicket).
TicketSpent ==
  [][\A c \in Conns :
       (conn[c].pc = "new" /\ conn'[c].pc = "delete")
         => /\ now < minted[conn'[c].ticket] + TicketTime
            /\ \A d \in Conns : conn[d].ticket = conn'[c].ticket
                                 => conn[d].pc \in {"delete", "refused"}]_mcpVars
=============================================================================

-------------------------- MODULE SharedCache_proofs --------------------------
(***************************************************************************)
(* The shared cache for any keys, readers, editors, tickets, connections,   *)
(* lifetimes and focuses: how old a page may be, that a ticket is spent     *)
(* once, and that an open connection is found.                              *)
(***************************************************************************)
EXTENDS SharedCache, FiniteSetTheorems, TLAPS

Statuses == {"new", "refused", "delete", "store", "connect", "open", "closed"}
Connections == [pc : Statuses, ticket : Tickets \cup {Null}, created : Nat, gone : BOOLEAN]

\* Who has redeemed a ticket has deleted it, and nobody mints it again.
McpInv ==
  /\ conn \in [Conns -> Connections]
  /\ DOMAIN minted \subseteq Tickets /\ DOMAIN sse = Tickets
  /\ \A k \in Tickets : cache[TicketKey(k)] # Null =>
       k \in DOMAIN minted /\ cache[TicketKey(k)].till = minted[k] + TicketTime
  /\ \A c \in Conns :
       /\ IF conn[c].pc = "new" THEN conn[c].ticket = Null ELSE conn[c].ticket \in DOMAIN minted
       /\ conn[c].pc \in {"store", "connect", "open", "closed"}
            => cache[TicketKey(conn[c].ticket)] = Null
  /\ OpenIsReachable

-----------------------------------------------------------------------------
(* Pages                                                                   *)

\* What was computed from version v is out of date since a time t says.
Age(v, t) == v < version => t <= replaced[v + 1] + PageTime

CacheTypes ==
  /\ now \in Nat /\ version \in Nat
  /\ replaced \in Seq(Nat) /\ Len(replaced) = version
  /\ \A i \in 1..version : replaced[i] <= now
  /\ cache = [k \in Keys |-> cache[k]]
  /\ DOMAIN reader = Readers /\ focus \in Focuses

\* A cached page ends within PageTime of its stock's being replaced; the stock
\* of a page on its way there was replaced in this unit of time at the earliest.
PageInv ==
  /\ CacheTypes
  /\ \A p \in PageKeys : cache[p] # Null =>
       /\ cache[p].val \in 0..version /\ cache[p].till \in Nat
       /\ cache[p].till <= now + PageTime /\ Age(cache[p].val, cache[p].till)
  /\ \A r \in Readers : reader[r].pc = "fill" =>
       /\ reader[r].page \in PageKeys /\ reader[r].ver \in 0..version
       /\ reader[r].ver < version => replaced[reader[r].ver + 1] = now
  /\ answer.ver \in 0..version /\ answer.at \in Nat
  /\ answer.at <= now /\ Age(answer.ver, answer.at)

\* A commit of the stock makes the current version one that was replaced now.
LEMMA CommitKeeps ==
  ASSUME PageInv, CommitStock, UNCHANGED <<cacheVars, reader, answer, focus>>
  PROVE  PageInv'
<1>1. /\ version' = version + 1 /\ replaced' = Append(replaced, now)
      /\ UNCHANGED <<now, cache, reader, answer, focus>>
  BY DEF CommitStock, cacheVars
<1>2. /\ now \in Nat /\ version \in Nat /\ PageTime \in Nat
      /\ replaced \in Seq(Nat) /\ Len(replaced) = version
  BY MakeabilityAssumption DEF PageInv, CacheTypes
<1>3. /\ replaced' \in Seq(Nat) /\ Len(replaced') = version'
      /\ \A i \in 1..version : replaced'[i] = replaced[i]
      /\ replaced'[version + 1] = now
  BY <1>1, <1>2
<1>4. \A i \in 1..version' : replaced'[i] <= now'
  BY <1>1, <1>2, <1>3 DEF PageInv, CacheTypes
<1>5. CacheTypes'
  BY <1>1, <1>2, <1>3, <1>4 DEF PageInv, CacheTypes
<1>6. ASSUME NEW v \in 0..version, NEW t \in Nat, Age(v, t), t <= now + PageTime
      PROVE  v \in 0..version' /\ (v < version' => t <= replaced'[v + 1] + PageTime)
  BY <1>1, <1>2, <1>3, <1>6 DEF Age
<1>7. ASSUME NEW p \in PageKeys, cache'[p] # Null
      PROVE  /\ cache'[p].val \in 0..version' /\ cache'[p].till \in Nat
             /\ cache'[p].till <= now' + PageTime /\ Age(cache[p].val, cache[p].till)'
  BY <1>1, <1>6, <1>7 DEF PageInv, Age
<1>8. ASSUME NEW r \in Readers, reader'[r].pc = "fill"
      PROVE  /\ reader'[r].page \in PageKeys /\ reader'[r].ver \in 0..version'
             /\ reader'[r].ver < version' => replaced'[reader'[r].ver + 1] = now'
  BY <1>1, <1>2, <1>3, <1>8 DEF PageInv
<1>9. /\ answer'.ver \in 0..version' /\ answer'.at \in Nat
      /\ answer'.at <= now' /\ Age(answer.ver, answer.at)'
  BY <1>1, <1>2, <1>6 DEF PageInv, Age
<1>10. QED
  BY <1>5, <1>7, <1>8, <1>9 DEF PageInv

\* Entries that go, and entries of the MCP server, make no page older.
LEMMA OtherKeys ==
  ASSUME PageInv, UNCHANGED <<now, pageVars, focus>>,
         cache' = [k \in Keys |-> cache'[k]],
         \A p \in PageKeys : cache'[p] = cache[p] \/ cache'[p] = Null
  PROVE  PageInv'
BY DEF PageInv, CacheTypes, pageVars, Age

LEMMA ReaderKeeps ==
  ASSUME PageInv, NEW r \in Readers, ReadCached(r) \/ ReadStock(r) \/ FillPage(r),
         UNCHANGED focus
  PROVE  PageInv'
<1>a. /\ now \in Nat /\ version \in Nat /\ PageTime \in Nat \ {0}
      /\ replaced \in Seq(Nat) /\ Len(replaced) = version
      /\ PageKeys \subseteq Keys
  BY MakeabilityAssumption, KeysAssumption DEF PageInv, CacheTypes
<1>b. \A v \in 0..version : v < version => replaced[v + 1] \in Nat
  BY <1>a
<1>1. CASE ReadCached(r)
  <2>1. PICK p \in PageKeys :
          /\ cache[p] # Null /\ cache[p].till > now
          /\ reader' = [reader EXCEPT ![r].pc = "done"]
          /\ answer' = [ver |-> cache[p].val, at |-> now]
          /\ UNCHANGED <<cacheVars, version, replaced>>
    BY <1>1 DEF ReadCached, Get
  <2>2. Age(cache[p].val, now) /\ cache[p].val \in 0..version
    BY <1>a, <1>b, <2>1 DEF PageInv, Age
  <2>3. \A s \in Readers : reader'[s].pc = "fill" => reader'[s] = reader[s] /\ reader[s].pc = "fill"
    BY <2>1 DEF PageInv, CacheTypes
  <2>4. /\ answer'.ver \in 0..version' /\ answer'.at \in Nat
        /\ answer'.at <= now' /\ Age(answer.ver, answer.at)'
    BY <1>a, <2>1, <2>2 DEF cacheVars, Age
  <2>5. ASSUME NEW s \in Readers, reader'[s].pc = "fill"
        PROVE  /\ reader'[s].page \in PageKeys /\ reader'[s].ver \in 0..version'
               /\ reader'[s].ver < version' => replaced'[reader'[s].ver + 1] = now'
    BY <2>1, <2>3, <2>5 DEF PageInv, cacheVars
  <2>6. CacheTypes'
    BY <2>1 DEF PageInv, CacheTypes, cacheVars
  <2> QED
    BY <2>1, <2>4, <2>5, <2>6 DEF PageInv, cacheVars, Age
<1>2. CASE ReadStock(r)
  <2>1. PICK p \in PageKeys :
          /\ reader' = [reader EXCEPT ![r] = [pc |-> "fill", page |-> p, ver |-> version]]
          /\ UNCHANGED <<cacheVars, version, replaced, answer>>
    BY <1>2 DEF ReadStock
  <2>2. \A s \in Readers : reader'[s] = reader[s]
                           \/ reader'[s] = [pc |-> "fill", page |-> p, ver |-> version]
    BY <2>1 DEF PageInv, CacheTypes
  <2>3. ASSUME NEW s \in Readers, reader'[s].pc = "fill"
        PROVE  /\ reader'[s].page \in PageKeys /\ reader'[s].ver \in 0..version
               /\ reader'[s].ver < version => replaced[reader'[s].ver + 1] = now
    BY <1>a, <2>2, <2>3 DEF PageInv
  <2> QED
    BY <1>a, <2>1, <2>3 DEF PageInv, CacheTypes, cacheVars, Age
<1>3. CASE FillPage(r)
  <2> DEFINE p == reader[r].page
             v == reader[r].ver
             t == now + PageTime
  <2>1. /\ cache' = [cache EXCEPT ![p] = [val |-> v, till |-> t]]
        /\ reader' = [reader EXCEPT ![r].pc = "done"]
        /\ answer' = [ver |-> v, at |-> now]
        /\ UNCHANGED <<now, version, replaced>>
    BY <1>3 DEF FillPage, Put
  <2>2. p \in PageKeys /\ v \in 0..version /\ (v < version => replaced[v + 1] = now)
    BY <1>3 DEF FillPage, PageInv
  <2>3. t \in Nat /\ t <= now + PageTime /\ Age(v, t) /\ Age(v, now)
    BY <1>a, <2>2 DEF Age
  <2>4. \A s \in Readers : reader'[s].pc = "fill" => reader'[s] = reader[s] /\ reader[s].pc = "fill"
    BY <2>1 DEF PageInv, CacheTypes
  <2> HIDE DEF p, v, t
  <2>5. /\ cache' = [k \in Keys |-> cache'[k]]
        /\ \A k \in PageKeys : cache'[k] = cache[k] \/ cache'[k] = [val |-> v, till |-> t]
    BY <1>a, <2>1, <2>2 DEF PageInv, CacheTypes
  <2>6. ASSUME NEW k \in PageKeys, cache'[k] # Null
        PROVE  /\ cache'[k].val \in 0..version /\ cache'[k].till \in Nat
               /\ cache'[k].till <= now + PageTime /\ Age(cache'[k].val, cache'[k].till)
    BY <2>2, <2>3, <2>5, <2>6 DEF PageInv
  <2> QED
    BY <1>a, <2>1, <2>2, <2>3, <2>4, <2>5, <2>6 DEF PageInv, CacheTypes, Age
<1>4. QED
  BY <1>1, <1>2, <1>3

LEMMA PagesKept ==
  ASSUME PageInv, McpInv, [Next]_vars
  PROVE  PageInv'
<1>1. CASE PageNext(focus.editors, focus.readers) /\ UNCHANGED <<mcpVars, focus>>
  <2>1. ASSUME NEW e, EditClear(e) PROVE PageInv'
    <3>1. PICK whole \in BOOLEAN : cache' = Invalidated(whole)
      BY <2>1 DEF EditClear
    <3>2. UNCHANGED <<now, version, replaced, reader, answer>>
      BY <2>1 DEF EditClear
    <3>3. \A p \in PageKeys : cache'[p] = Null
      BY <3>1, KeysAssumption DEF Invalidated
    <3>4. cache' = [k \in Keys |-> cache'[k]]
      BY <3>1 DEF Invalidated
    <3> QED
      BY <1>1, <3>2, <3>3, <3>4 DEF PageInv, CacheTypes, Age
  <2>2. ASSUME NEW e, EditCommit(e) PROVE PageInv'
    BY <1>1, <2>2, CommitKeeps DEF EditCommit
  <2>3. ASSUME OrderCommit PROVE PageInv'
    BY <1>1, <2>3, CommitKeeps DEF OrderCommit
  <2>4. focus.readers \subseteq Readers
    BY FocusAssumption DEF PageInv, CacheTypes
  <2> QED
    BY <1>1, <2>1, <2>2, <2>3, <2>4, ReaderKeeps DEF PageNext
<1>2. CASE McpNext(focus.tickets, focus.conns, focus.calls) /\ UNCHANGED <<pageVars, focus>>
  <2>1. /\ focus.tickets \subseteq Tickets /\ focus.conns \subseteq Conns
        /\ cache = [k \in Keys |-> cache[k]]
    BY FocusAssumption DEF PageInv, CacheTypes
  <2>2. ASSUME NEW k \in Keys \ PageKeys, NEW x, cache' = [cache EXCEPT ![k] = x], now' = now
        PROVE  PageInv'
    <3>1. /\ cache' = [j \in Keys |-> cache'[j]]
          /\ \A p \in PageKeys : cache'[p] = cache[p]
      BY <2>1, <2>2, KeysAssumption
    <3> QED
      BY <1>2, <2>2, <3>1, OtherKeys
  <2>3. CASE UNCHANGED cacheVars
    BY <1>2, <2>1, <2>3, OtherKeys DEF cacheVars
  <2>4. ASSUME NEW k \in Tickets, GenerateTicket(k) PROVE PageInv'
    BY <2>2, <2>4, TicketKeysAssumption DEF GenerateTicket, Put
  <2>5. ASSUME NEW c \in Conns, SseDelete(c) \/ SseStore(c) PROVE PageInv'
    <3>1. conn[c].ticket \in Tickets
      BY <2>5 DEF SseDelete, SseStore, McpInv
    <3> QED
      BY <2>2, <2>5, <3>1, TicketKeysAssumption DEF SseDelete, SseStore, Put, Del
  <2>6. UNCHANGED cacheVars \/ (\E k \in Tickets : GenerateTicket(k))
                            \/ (\E c \in Conns : SseDelete(c) \/ SseStore(c))
    BY <1>2, <2>1 DEF McpNext, SseTicket, SseConnect, SseClose, SseLeave, MessageFind,
       MessageSession, Execute, Reply, Purge
  <2> QED
    BY <2>3, <2>4, <2>5, <2>6
<1>3. CASE Tick
  <2>1. now' = now + 1 /\ UNCHANGED <<cache, version, replaced, reader, answer, focus>>
        /\ \A r \in Readers : reader[r].pc # "fill"
    BY <1>3 DEF Tick, pageVars, PageQuiet
  <2>2. now \in Nat /\ version \in Nat /\ PageTime \in Nat /\ replaced \in Seq(Nat)
        /\ Len(replaced) = version
    BY MakeabilityAssumption DEF PageInv, CacheTypes
  <2>3. CacheTypes'
    BY <2>1, <2>2 DEF PageInv, CacheTypes
  <2>4. \A p \in PageKeys : cache'[p] # Null =>
          /\ cache'[p].val \in 0..version' /\ cache'[p].till \in Nat
          /\ cache'[p].till <= now' + PageTime /\ Age(cache[p].val, cache[p].till)'
    BY <2>1, <2>2 DEF PageInv, Age
  <2> QED
    BY <2>1, <2>2, <2>3, <2>4 DEF PageInv, Age
<1>4. CASE UNCHANGED vars
  BY <1>4 DEF vars, cacheVars, pageVars, PageInv, CacheTypes, Age
<1>5. QED
  BY <1>1, <1>2, <1>3, <1>4 DEF Next

-----------------------------------------------------------------------------
(* Tickets and connections                                                 *)

\* Requests that redeem a ticket have looked it up in time, before it was deleted.
SpentStep ==
  \A c \in Conns :
    (conn[c].pc = "new" /\ conn'[c].pc = "delete")
      => /\ now < minted[conn'[c].ticket] + TicketTime
         /\ \A d \in Conns : conn[d].ticket = conn'[c].ticket => conn[d].pc \in {"delete", "refused"}

LEMMA KeysDiffer ==
  ASSUME NEW j \in Tickets, NEW k \in Tickets
  PROVE  /\ TicketKey(j) = TicketKey(k) => j = k
         /\ TicketKey(j) # SessionKey(k)
         /\ TicketKey(j) \in Keys /\ SessionKey(k) \in Keys
         /\ TicketKey(j) \notin PageKeys
BY TicketKeysAssumption DEF TicketKey, SessionKey

\* No ticket comes back into the cache.
LEMMA OnlyClears ==
  ASSUME McpInv, UNCHANGED <<minted, conn, sse>>,
         \A k \in Tickets : cache'[TicketKey(k)] \in {Null, cache[TicketKey(k)]}
  PROVE  McpInv'
BY DEF McpInv, OpenIsReachable

LEMMA ConnectionKeeps ==
  ASSUME PageInv, McpInv, NEW c \in Conns,
         \/ SseTicket(c) \/ SseDelete(c) \/ SseStore(c)
         \/ SseConnect(c) \/ SseClose(c) \/ SseLeave(c)
  PROVE  McpInv' /\ SpentStep
<1>a. /\ conn \in [Conns -> Connections] /\ conn[c] \in Connections
      /\ DOMAIN minted \subseteq Tickets /\ DOMAIN sse = Tickets /\ now \in Nat
      /\ \A d \in Conns : IF conn[d].pc = "new" THEN conn[d].ticket = Null
                                                ELSE conn[d].ticket \in DOMAIN minted
      /\ Null \notin Tickets
      /\ cache = [k \in Keys |-> cache[k]]
  BY FocusAssumption DEF McpInv, PageInv, CacheTypes
\* All but the first of its steps keep the ticket of a connection.
<1>b. ASSUME NEW x \in Connections, x.ticket = conn[c].ticket, conn' = [conn EXCEPT ![c] = x]
      PROVE  /\ conn' \in [Conns -> Connections]
             /\ \A d \in Conns : conn'[d].ticket = conn[d].ticket
             /\ \A d \in Conns \ {c} : conn'[d] = conn[d]
             /\ conn'[c].pc = x.pc
  BY <1>a, <1>b
<1>c. ASSUME NEW pc \in Statuses
      PROVE  /\ [conn[c] EXCEPT !.pc = pc] \in Connections
             /\ [conn[c] EXCEPT !.pc = pc].ticket = conn[c].ticket
             /\ [conn[c] EXCEPT !.pc = pc].pc = pc
             /\ [conn[c] EXCEPT !.pc = pc, !.created = now] \in Connections
             /\ [conn[c] EXCEPT !.pc = pc, !.created = now].ticket = conn[c].ticket
             /\ [conn[c] EXCEPT !.pc = pc, !.created = now].pc = pc
  BY <1>a, Zenon DEF Connections
<1>d. /\ [conn[c] EXCEPT !.gone = TRUE] \in Connections
      /\ [conn[c] EXCEPT !.gone = TRUE].ticket = conn[c].ticket
      /\ [conn[c] EXCEPT !.gone = TRUE].pc = conn[c].pc
  BY <1>a, Zenon DEF Connections
<1>1. CASE SseTicket(c)
  <2> DEFINE status(k) == IF Get(TicketKey(k)) = Null THEN "refused" ELSE "delete"
  <2>1. PICK k \in DOMAIN minted :
          /\ conn[c].pc = "new"
          /\ conn' = [conn EXCEPT ![c] = [NewConn EXCEPT !.pc = status(k), !.ticket = k]]
          /\ UNCHANGED <<cacheVars, minted, sse>>
    BY <1>1 DEF SseTicket, First
  <2> DEFINE x == [NewConn EXCEPT !.pc = status(k), !.ticket = k]
  <2>2. /\ x \in Connections /\ x.ticket = k
        /\ x.pc \in {"refused", "delete"}
        /\ x.pc = "delete" => cache[TicketKey(k)] # Null /\ cache[TicketKey(k)].till > now
    BY <1>a, <2>1 DEF NewConn, Connections, Statuses, Get
  <2>3. conn' = [conn EXCEPT ![c] = x]
    BY <2>1
  <2> HIDE DEF x
  <2>4. conn' \in [Conns -> Connections] /\ conn'[c] = x
        /\ \A d \in Conns \ {c} : conn'[d] = conn[d]
    BY <1>a, <2>2, <2>3
  <2>5. conn[c].ticket = Null
    BY <1>a, <2>1
  <2>6. OpenIsReachable'
    <3> SUFFICES ASSUME NEW e \in Conns, conn'[e].pc = "open",
                        \A d \in Conns \ {e} : conn'[d].ticket # conn'[e].ticket
                 PROVE  sse'[conn'[e].ticket] = e
      BY DEF OpenIsReachable
    <3>1. e # c /\ conn'[e] = conn[e]
      BY <2>2, <2>4
    <3>2. \A d \in Conns \ {e} : conn[d].ticket # conn[e].ticket
      BY <1>a, <2>4, <2>5, <3>1
    <3> QED
      BY <2>1, <3>1, <3>2 DEF McpInv, OpenIsReachable
  <2>7. McpInv'
    BY <1>a, <2>1, <2>2, <2>4, <2>6 DEF McpInv, cacheVars
  <2>8. SpentStep
    <3> SUFFICES ASSUME conn'[c].pc = "delete", NEW d \in Conns, conn[d].ticket = k
                 PROVE  conn[d].pc \in {"delete", "refused"}
      <4>1. conn'[c].pc = "delete" => now < minted[conn'[c].ticket] + TicketTime
        BY <1>a, <2>2, <2>4 DEF McpInv
      <4> QED
        BY <2>2, <2>4, <4>1 DEF SpentStep
    <3>1. conn[d].pc # "new"
      BY <1>a, <2>1
    <3>2. conn[d].pc \notin {"store", "connect", "open", "closed"}
      BY <2>2, <2>4 DEF McpInv
    <3>3. conn[d].pc \in Statuses
      BY <1>a, Zenon DEF Connections
    <3> QED
      BY <3>1, <3>2, <3>3 DEF Statuses
  <2> QED
    BY <2>7, <2>8
<1>2. CASE SseDelete(c) \/ SseStore(c)
  <2>1. conn[c].ticket \in DOMAIN minted /\ conn[c].ticket \in Tickets
    BY <1>a, <1>2 DEF SseDelete, SseStore
  <2>2. PICK pc \in {"store", "connect"}, x \in Connections :
          x.pc = pc /\ x.ticket = conn[c].ticket /\ conn' = [conn EXCEPT ![c] = x]
    <3>1. CASE SseDelete(c)
      <4> DEFINE x == [conn[c] EXCEPT !.pc = "store", !.created = now]
      <4>1. conn' = [conn EXCEPT ![c] = x]
        BY <3>1 DEF SseDelete
      <4>2. x \in Connections /\ x.pc = "store" /\ x.ticket = conn[c].ticket
        BY <1>c DEF Statuses
      <4> HIDE DEF x
      <4> QED
        BY <4>1, <4>2
    <3>2. CASE SseStore(c)
      <4> DEFINE x == [conn[c] EXCEPT !.pc = "connect"]
      <4>1. conn' = [conn EXCEPT ![c] = x]
        BY <3>2 DEF SseStore, ConnStep
      <4>2. x \in Connections /\ x.pc = "connect" /\ x.ticket = conn[c].ticket
        BY <1>c DEF Statuses
      <4> HIDE DEF x
      <4> QED
        BY <4>1, <4>2
    <3> QED
      BY <1>2, <3>1, <3>2
  <2>3. UNCHANGED <<minted, sse>>
        /\ \A k \in Tickets : cache'[TicketKey(k)] \in {Null, cache[TicketKey(k)]}
    BY <1>2, <1>a, <2>1, KeysDiffer DEF SseDelete, SseStore, Del, Put
  <2>4. cache'[TicketKey(conn[c].ticket)] = Null
    BY <1>2, <1>a, <2>1, KeysDiffer DEF SseDelete, SseStore, Del, Put, McpInv
  <2>5. /\ conn' \in [Conns -> Connections] /\ conn'[c].pc = pc
        /\ \A d \in Conns : conn'[d].ticket = conn[d].ticket
        /\ \A d \in Conns \ {c} : conn'[d] = conn[d]
    BY <1>b, <2>2
  <2>6. conn[c].pc # "new"
    BY <1>2 DEF SseDelete, SseStore
  <2>7. OpenIsReachable'
    BY <2>3, <2>5 DEF McpInv, OpenIsReachable
  <2>8. ASSUME NEW d \in Conns
        PROVE  /\ IF conn'[d].pc = "new" THEN conn'[d].ticket = Null ELSE conn'[d].ticket \in DOMAIN minted
               /\ conn'[d].pc \in {"store", "connect", "open", "closed"}
                    => cache'[TicketKey(conn'[d].ticket)] = Null
    <3>1. CASE d = c
      <4>1. conn'[c].pc # "new"
        BY <2>2, <2>5
      <4> QED
        BY <2>1, <2>4, <2>5, <3>1, <4>1
    <3>2. CASE d # c
      <4>1. conn'[d] = conn[d] /\ (conn[d].pc # "new" => conn[d].ticket \in Tickets)
        BY <1>a, <2>5, <3>2
      <4> QED
        BY <2>3, <4>1 DEF McpInv, Statuses
    <3> QED
      BY <3>1, <3>2
  <2>9. SpentStep
    BY <2>2, <2>5 DEF SpentStep
  <2> QED
    BY <1>a, <2>3, <2>5, <2>7, <2>8, <2>9 DEF McpInv
<1>3. CASE SseConnect(c)
  <2> DEFINE t == conn[c].ticket
  <2>1. /\ t \in Tickets /\ t \in DOMAIN minted /\ conn[c].pc = "connect"
        /\ sse' = [sse EXCEPT ![t] = c] /\ conn' = [conn EXCEPT ![c].pc = "open"]
        /\ UNCHANGED <<cacheVars, minted>>
    BY <1>3, <1>a DEF SseConnect, ConnStep
  <2>2. /\ conn' \in [Conns -> Connections] /\ conn'[c].pc = "open"
        /\ \A d \in Conns : conn'[d].ticket = conn[d].ticket
        /\ \A d \in Conns \ {c} : conn'[d] = conn[d]
    <3> DEFINE x == [conn[c] EXCEPT !.pc = "open"]
    <3>1. x \in Connections /\ x.pc = "open" /\ x.ticket = conn[c].ticket
      BY <1>c DEF Statuses
    <3>2. conn' = [conn EXCEPT ![c] = x]
      BY <2>1
    <3> HIDE DEF x
    <3> QED
      BY <1>b, <3>1, <3>2
  <2> HIDE DEF t
  <2>3. DOMAIN sse' = Tickets /\ sse'[t] = c /\ \A k \in Tickets \ {t} : sse'[k] = sse[k]
    BY <1>a, <2>1
  <2>4. OpenIsReachable'
    <3> SUFFICES ASSUME NEW e \in Conns, conn'[e].pc = "open",
                        \A d \in Conns \ {e} : conn'[d].ticket # conn'[e].ticket
                 PROVE  sse'[conn'[e].ticket] = e
      BY DEF OpenIsReachable
    <3>1. CASE e = c
      BY <2>2, <2>3, <3>1 DEF t
    <3>2. CASE e # c
      <4>1. conn[e].pc = "open" /\ conn[e].ticket \in Tickets \ {t}
            /\ \A d \in Conns \ {e} : conn[d].ticket # conn[e].ticket
        BY <1>a, <2>2, <3>2 DEF t
      <4> QED
        BY <2>2, <2>3, <4>1 DEF McpInv, OpenIsReachable
    <3> QED
      BY <3>1, <3>2
  <2>5. SpentStep
    BY <2>2 DEF SpentStep
  <2>6. ASSUME NEW d \in Conns
        PROVE  /\ IF conn'[d].pc = "new" THEN conn'[d].ticket = Null ELSE conn'[d].ticket \in DOMAIN minted
               /\ conn'[d].pc \in {"store", "connect", "open", "closed"}
                    => cache[TicketKey(conn'[d].ticket)] = Null
    BY <1>a, <2>1, <2>2 DEF McpInv, t
  <2>7. \A k \in Tickets : cache[TicketKey(k)] # Null =>
          k \in DOMAIN minted /\ cache[TicketKey(k)].till = minted[k] + TicketTime
    BY DEF McpInv
  <2> QED
    BY <1>a, <2>1, <2>2, <2>3, <2>4, <2>5, <2>6, <2>7 DEF McpInv, cacheVars
<1>4. CASE SseClose(c)
  <2> DEFINE t == conn[c].ticket
  <2>1. /\ t \in Tickets /\ t \in DOMAIN minted /\ conn[c].pc = "open"
        /\ sse' = [sse EXCEPT ![t] = Null] /\ conn' = [conn EXCEPT ![c].pc = "closed"]
        /\ UNCHANGED <<cacheVars, minted>>
    BY <1>4, <1>a DEF SseClose, ConnStep
  <2>2. /\ conn' \in [Conns -> Connections] /\ conn'[c].pc = "closed"
        /\ \A d \in Conns : conn'[d].ticket = conn[d].ticket
        /\ \A d \in Conns \ {c} : conn'[d] = conn[d]
    <3> DEFINE x == [conn[c] EXCEPT !.pc = "closed"]
    <3>1. x \in Connections /\ x.pc = "closed" /\ x.ticket = conn[c].ticket
      BY <1>c DEF Statuses
    <3>2. conn' = [conn EXCEPT ![c] = x]
      BY <2>1
    <3> HIDE DEF x
    <3> QED
      BY <1>b, <3>1, <3>2
  <2> HIDE DEF t
  <2>3. DOMAIN sse' = Tickets /\ \A k \in Tickets \ {t} : sse'[k] = sse[k]
    BY <1>a, <2>1
  <2>4. OpenIsReachable'
    <3> SUFFICES ASSUME NEW e \in Conns, conn'[e].pc = "open",
                        \A d \in Conns \ {e} : conn'[d].ticket # conn'[e].ticket
                 PROVE  sse'[conn'[e].ticket] = e
      BY DEF OpenIsReachable
    <3>1. e # c
      BY <2>2
    <3>2. conn[e].pc = "open" /\ conn[e].ticket \in Tickets \ {t}
          /\ \A d \in Conns \ {e} : conn[d].ticket # conn[e].ticket
      BY <1>a, <2>2, <3>1 DEF t
    <3> QED
      BY <2>2, <2>3, <3>1, <3>2 DEF McpInv, OpenIsReachable
  <2>5. SpentStep
    BY <2>2 DEF SpentStep
  <2>6. ASSUME NEW d \in Conns
        PROVE  /\ IF conn'[d].pc = "new" THEN conn'[d].ticket = Null ELSE conn'[d].ticket \in DOMAIN minted
               /\ conn'[d].pc \in {"store", "connect", "open", "closed"}
                    => cache[TicketKey(conn'[d].ticket)] = Null
    BY <1>a, <2>1, <2>2 DEF McpInv, t
  <2>7. \A k \in Tickets : cache[TicketKey(k)] # Null =>
          k \in DOMAIN minted /\ cache[TicketKey(k)].till = minted[k] + TicketTime
    BY DEF McpInv
  <2> QED
    BY <1>a, <2>1, <2>2, <2>3, <2>4, <2>5, <2>6, <2>7 DEF McpInv, cacheVars
<1>5. CASE SseLeave(c)
  <2>1. /\ conn[c].pc \in {"delete", "store", "connect"}
        /\ conn' = [conn EXCEPT ![c].gone = TRUE] /\ UNCHANGED <<cacheVars, minted, sse>>
    BY <1>5 DEF SseLeave
  <2>2. /\ conn' \in [Conns -> Connections] /\ conn'[c].pc = conn[c].pc
        /\ \A d \in Conns : conn'[d].ticket = conn[d].ticket
        /\ \A d \in Conns \ {c} : conn'[d] = conn[d]
    <3> DEFINE x == [conn[c] EXCEPT !.gone = TRUE]
    <3>1. x \in Connections /\ x.pc = conn[c].pc /\ x.ticket = conn[c].ticket
      BY <1>d
    <3>2. conn' = [conn EXCEPT ![c] = x]
      BY <2>1
    <3> HIDE DEF x
    <3> QED
      BY <1>b, <3>1, <3>2
  <2>3. SpentStep /\ OpenIsReachable'
    BY <2>1, <2>2 DEF SpentStep, McpInv, OpenIsReachable
  <2> QED
    BY <1>a, <2>1, <2>2, <2>3 DEF McpInv, cacheVars
<1>6. QED
  BY <1>1, <1>2, <1>3, <1>4, <1>5

LEMMA McpKept ==
  ASSUME PageInv, McpInv, [Next]_vars
  PROVE  McpInv' /\ SpentStep
<1>a. cache = [k \in Keys |-> cache[k]] /\ focus \in Focuses
  BY DEF PageInv, CacheTypes
<1>b. ASSUME conn' = conn PROVE SpentStep
  BY <1>b DEF SpentStep
<1>c. \A k \in Tickets : TicketKey(k) \in Keys /\ TicketKey(k) \notin PageKeys
  BY KeysDiffer
<1>1. CASE PageNext(focus.editors, focus.readers) /\ UNCHANGED <<mcpVars, focus>>
  <2>1. \A k \in Tickets : cache'[TicketKey(k)] \in {Null, cache[TicketKey(k)]}
    <3>1. ASSUME NEW e, EditClear(e), NEW k \in Tickets
          PROVE  cache'[TicketKey(k)] \in {Null, cache[TicketKey(k)]}
      BY <1>c, <3>1 DEF EditClear, Invalidated
    <3>2. ASSUME NEW r \in Readers, FillPage(r), NEW k \in Tickets
          PROVE  cache'[TicketKey(k)] = cache[TicketKey(k)]
      BY <1>a, <1>c, <3>2 DEF FillPage, Put, PageInv
    <3>3. focus.readers \subseteq Readers
      BY <1>a, FocusAssumption
    <3>4. ASSUME ~(\E e : EditClear(e)), ~(\E r \in Readers : FillPage(r)) PROVE cache' = cache
      BY <1>1, <3>3, <3>4 DEF PageNext, EditCommit, OrderCommit, ReadCached, ReadStock, cacheVars
    <3> QED
      BY <3>1, <3>2, <3>4
  <2> QED
    BY <1>1, <1>b, <2>1, OnlyClears DEF mcpVars
<1>2. CASE McpNext(focus.tickets, focus.conns, focus.calls) /\ UNCHANGED <<pageVars, focus>>
  <2>1. focus.tickets \subseteq Tickets /\ focus.conns \subseteq Conns
    BY <1>a, FocusAssumption
  <2>2. ASSUME NEW k \in Tickets, GenerateTicket(k) PROVE McpInv' /\ SpentStep
    <3>1. /\ k \notin DOMAIN minted /\ UNCHANGED <<conn, sse>>
          /\ DOMAIN minted' = DOMAIN minted \cup {k} /\ minted'[k] = now
          /\ \A j \in DOMAIN minted : minted'[j] = minted[j]
          /\ \A j \in Tickets : j # k => cache'[TicketKey(j)] = cache[TicketKey(j)]
          /\ cache'[TicketKey(k)].till = now + TicketTime
      BY <1>a, <1>c, <2>2, KeysDiffer DEF GenerateTicket, Put
    <3>2. \A c \in Conns : conn[c].pc # "new" => conn[c].ticket \in Tickets \ {k}
      BY <3>1 DEF McpInv
    <3>3. McpInv'
      BY <3>1, <3>2 DEF McpInv, OpenIsReachable
    <3> QED
      BY <1>b, <3>1, <3>3
  <2>3. ASSUME UNCHANGED <<cache, minted, conn, sse>> PROVE McpInv' /\ SpentStep
    BY <1>b, <2>3, OnlyClears
  <2>4. ASSUME NEW m, MessageFind(m) \/ MessageSession(m) \/ Execute(m) \/ Reply(m)
        PROVE  UNCHANGED <<cache, minted, conn, sse>>
    BY <2>4 DEF MessageFind, MessageSession, Execute, Reply, cacheVars
  <2>5. ASSUME Purge PROVE UNCHANGED <<cache, minted, conn, sse>>
    BY <2>5 DEF Purge, cacheVars
  <2> QED
    BY <1>2, <2>1, <2>2, <2>3, <2>4, <2>5, ConnectionKeeps DEF McpNext
<1>3. CASE Tick \/ UNCHANGED vars
  BY <1>3, <1>b, OnlyClears DEF Tick, vars, cacheVars, mcpVars
<1>4. QED
  BY <1>1, <1>2, <1>3 DEF Next

-----------------------------------------------------------------------------
(* The theorems                                                            *)

LEMMA InitShared == Init => PageInv /\ McpInv
<1> SUFFICES ASSUME Init PROVE PageInv /\ McpInv
  OBVIOUS
<1> DEFINE Open == focus.open
<1>1. /\ focus \in Focuses /\ now = 0
      /\ cache = [x \in Keys |-> IF \E k \in DOMAIN Open : x = SessionKey(k)
                                 THEN [val |-> 0, till |-> SessionTime] ELSE Null]
      /\ PageInit /\ McpInit(Open)
  BY DEF Init
<1>2. DOMAIN Open \subseteq Tickets /\ Null \notin Tickets
  BY <1>1, FocusAssumption
<1>3. \A p \in PageKeys : cache[p] = Null
  BY <1>1, <1>2, KeysAssumption, TicketKeysAssumption
<1>4. \A k \in Tickets : cache[TicketKey(k)] = Null
  BY <1>1, <1>2, KeysDiffer
<1>5. cache = [k \in Keys |-> cache[k]]
  BY <1>1
<1>6. PageInv
  BY <1>1, <1>3, <1>5 DEF PageInit, PageInv, CacheTypes, Age
<1>7. ASSUME NEW c \in Conns
      PROVE  /\ conn[c] \in Connections
             /\ \/ conn[c].pc = "new" /\ conn[c].ticket = Null
                \/ conn[c].ticket \in DOMAIN Open /\ Open[conn[c].ticket] = c
                   /\ conn[c].pc = "open"
  <2>1. CASE \E k \in DOMAIN Open : Open[k] = c
    <3> DEFINE k == CHOOSE k \in DOMAIN Open : Open[k] = c
    <3>1. k \in DOMAIN Open /\ Open[k] = c
      BY <2>1
    <3>2. conn[c] = [NewConn EXCEPT !.pc = "open", !.ticket = k]
      BY <1>1, <2>1 DEF McpInit
    <3> HIDE DEF k, Open
    <3>3. k \in Tickets
      BY <1>2, <3>1
    <3>4. conn[c] = [pc |-> "open", ticket |-> k, created |-> 0, gone |-> FALSE]
      BY <3>2 DEF NewConn
    <3>5. conn[c] \in Connections /\ conn[c].ticket = k /\ conn[c].pc = "open"
      BY <3>3, <3>4 DEF Connections, Statuses
    <3> QED
      BY <3>1, <3>5
  <2>2. CASE ~(\E k \in DOMAIN Open : Open[k] = c)
    <3>1. conn[c] = NewConn
      BY <1>1, <2>2 DEF McpInit
    <3> QED
      BY <3>1 DEF NewConn, Connections, Statuses
  <2> QED
    BY <2>1, <2>2
<1>8. /\ DOMAIN minted = DOMAIN Open /\ DOMAIN conn = Conns /\ conn = [c \in Conns |-> conn[c]]
      /\ sse = [k \in Tickets |-> IF k \in DOMAIN Open THEN Open[k] ELSE Null]
  BY <1>1 DEF McpInit
<1> HIDE DEF Open
<1>9. OpenIsReachable
  BY <1>2, <1>7, <1>8 DEF OpenIsReachable
<1>10. McpInv
  BY <1>2, <1>4, <1>7, <1>8, <1>9 DEF McpInv
<1>11. QED
  BY <1>6, <1>10

-----------------------------------------------------------------------------
(* The rate limiter                                                        *)

\* The limiter has every call of the running window that was executed, but for
\* the users whose window was evicted.
RateInv ==
  /\ limiter = [u \in Users |-> limiter[u]] /\ ran = [u \in Users |-> ran[u]]
  /\ \A u \in Users : /\ IsFiniteSet(limiter[u])
                      /\ \A e \in ran[u] : e.at \in Nat /\ e.at <= now
                      /\ u \notin spilled => InWindow(ran[u]) \subseteq limiter[u]
  /\ RateBounded

\* The calls of C in the window that begins with d.
Within(C, d) == {e \in C : d.at <= e.at /\ e.at <= d.at + Window}

\* What makes room takes away nothing, or a whole window.
LEMMA Room ==
  ASSUME RateInv, NEW u, NEW room \in MakeRoom(u)
  PROVE  \A v \in Users : /\ room[v] = limiter[v] \/ (v \in Remembered /\ room[v] = {})
                          /\ IsFiniteSet(room[v])
                          /\ room = [w \in Users |-> room[w]]
<1>1. room = limiter \/ \E v \in Evictees : room = [limiter EXCEPT ![v] = {}]
  BY DEF MakeRoom
<1>2. Evictees \subseteq Remembered
  BY DEF Evictees
<1>3. QED
  BY <1>1, <1>2, FS_EmptySet DEF RateInv

\* A call enters its user's window, and is executed if the window admits it.
LEMMA ExecuteRates ==
  ASSUME RateInv, now \in Nat, NEW m, Execute(m)
  PROVE  RateInv'
<1>0. Window \in Nat /\ Rate \in Nat /\ now' = now
  BY McpAssumption DEF Execute, cacheVars
<1> DEFINE u     == Owner[call[m].session]
           entry == [call |-> m, at |-> now]
<1>1. CASE UNCHANGED <<limiter, ran, spilled>>
  BY <1>0, <1>1 DEF RateInv, RateBounded, InWindow
<1>2. ASSUME NEW room \in MakeRoom(u), NEW times, times = InWindow(room[u] \cup {entry}),
             limiter' = [room EXCEPT ![u] = times],
             ran' = IF Cardinality(times) <= Rate
                    THEN [ran EXCEPT ![u] = @ \cup {entry}] ELSE ran,
             spilled' = spilled \cup {v \in Remembered : room[v] = {} /\ Live(v)}
      PROVE  RateInv'
  <2>1. entry.at = now
    OBVIOUS
  <2> HIDE DEF entry, u
  <2>2. /\ limiter' = [v \in Users |-> limiter'[v]] /\ ran' = [v \in Users |-> ran'[v]]
        /\ \A v \in Users : limiter'[v] = IF v = u THEN times ELSE room[v]
        /\ \A v \in Users : ran'[v] =
             IF v = u /\ Cardinality(times) <= Rate THEN ran[v] \cup {entry} ELSE ran[v]
    <3>1. DOMAIN limiter = Users /\ DOMAIN ran = Users /\ ran = [v \in Users |-> ran[v]]
      BY DEF RateInv
    <3>2. room = [v \in Users |-> room[v]]
      <4>1. CASE room = limiter
        BY <4>1 DEF RateInv
      <4>2. CASE \E v \in Evictees : room = [limiter EXCEPT ![v] = {}]
        BY <3>1, <4>2
      <4>3. QED
        BY <1>2, <4>1, <4>2 DEF MakeRoom
    <3>3. /\ limiter' = [v \in Users |-> limiter'[v]]
          /\ \A v \in Users : limiter'[v] = IF v = u THEN times ELSE room[v]
      BY <1>2, <3>2
    <3>4. CASE Cardinality(times) <= Rate
      <4>1. ran' = [ran EXCEPT ![u] = ran[u] \cup {entry}]
        BY <1>2, <3>4
      <4>2. QED
        BY <3>1, <3>3, <3>4, <4>1
    <3>5. CASE ~(Cardinality(times) <= Rate)
      BY <1>2, <3>1, <3>3, <3>5
    <3>6. QED
      BY <3>4, <3>5
  <2>3. ASSUME NEW v \in Users, v \notin spilled'
        PROVE  v \notin spilled /\ InWindow(ran[v]) \subseteq room[v]
    <3>1. InWindow(ran[v]) \subseteq InWindow(limiter[v])
      BY <1>2, <2>3 DEF RateInv, InWindow
    <3>2. CASE room[v] = limiter[v]
      BY <1>2, <2>3, <3>2 DEF RateInv
    <3>3. CASE v \in Remembered /\ room[v] = {}
      BY <1>2, <2>3, <3>1, <3>3 DEF Live
    <3>4. QED
      BY <1>2, <2>3, <3>2, <3>3, Room
  <2>4. ASSUME NEW v \in Users
        PROVE  /\ IsFiniteSet(limiter'[v])
               /\ \A e \in ran'[v] : e.at \in Nat /\ e.at <= now
               /\ v \notin spilled' => InWindow(ran'[v]) \subseteq limiter'[v]
    <3>1. IsFiniteSet(room[v] \cup {entry})
      BY <1>2, Room, FS_AddElement
    <3>2. v = u => IsFiniteSet(times)
      BY <1>2, <3>1, FS_Subset DEF InWindow
    <3>3. v \notin spilled' => InWindow(ran'[v]) \subseteq limiter'[v]
      BY <1>2, <2>2, <2>3 DEF InWindow
    <3>4. \A e \in ran'[v] : e.at \in Nat /\ e.at <= now
      BY <2>1, <2>2 DEF RateInv
    <3>5. IsFiniteSet(limiter'[v])
      BY <1>2, <2>2, <3>2, Room
    <3>6. QED
      BY <3>3, <3>4, <3>5
  <2>5. ASSUME NEW v \in Users, v \notin spilled', NEW d \in ran'[v]
        PROVE  Cardinality(Within(ran'[v], d)) <= Rate
    <3>1. d.at \in Nat /\ d.at <= now
      BY <2>4
    <3>2. CASE entry \in Within(ran'[v], d) /\ ran'[v] # ran[v]
      <4>1. v = u /\ Cardinality(times) <= Rate /\ limiter'[v] = times
        BY <2>2, <3>2
      <4>2. \A e \in ran'[v] : e.at \in Nat
        BY <2>4
      <4>3. now - Window <= d.at
        BY <1>0, <2>1, <3>1, <3>2 DEF Within
      <4>4. Within(ran'[v], d) \subseteq InWindow(ran'[v])
        BY <1>0, <3>1, <4>2, <4>3 DEF Within, InWindow
      <4>5. Within(ran'[v], d) \subseteq times
        BY <2>4, <2>5, <4>1, <4>4
      <4>6. IsFiniteSet(times)
        BY <2>4, <4>1
      <4>7. Cardinality(Within(ran'[v], d)) <= Cardinality(times)
        BY <4>5, <4>6, FS_Subset
      <4>8. Cardinality(Within(ran'[v], d)) \in Nat /\ Cardinality(times) \in Nat
        BY <4>5, <4>6, FS_Subset, FS_CardinalityType
      <4>9. QED
        BY <1>0, <4>1, <4>7, <4>8
    <3>3. CASE entry \notin Within(ran'[v], d) \/ ran'[v] = ran[v]
      <4>1. Within(ran'[v], d) = Within(ran[v], d)
        BY <2>2, <3>3 DEF Within
      <4>2. d \in ran[v]
        BY <1>0, <2>1, <2>2, <2>5, <3>1, <3>3 DEF Within
      <4>3. QED
        BY <1>2, <2>3, <2>5, <4>1, <4>2 DEF RateInv, RateBounded, Within
    <3>4. QED
      BY <3>2, <3>3
  <2>6. QED
    BY <1>0, <2>2, <2>4, <2>5 DEF RateInv, RateBounded, Within, InWindow
<1>3. QED
  BY <1>1, <1>2 DEF Execute

\* A purge takes away what has left the window, and time what is about to.
LEMMA PurgeRates ==
  ASSUME RateInv, now \in Nat, Purge
  PROVE  RateInv'
<1>1. /\ limiter' = [u \in Users |-> InWindow(limiter[u])]
      /\ UNCHANGED <<now, ran, spilled>>
  BY DEF Purge, cacheVars
<1>2. ASSUME NEW u \in Users
      PROVE  /\ IsFiniteSet(limiter'[u])
             /\ u \notin spilled => InWindow(ran[u]) \subseteq limiter'[u]
  BY <1>1, FS_Subset DEF RateInv, InWindow
<1>3. QED
  BY <1>1, <1>2 DEF RateInv, RateBounded, InWindow

LEMMA TickRates ==
  ASSUME RateInv, now \in Nat, now' \in {now, now + 1}, UNCHANGED <<limiter, ran, spilled>>
  PROVE  RateInv'
<1>1. Window \in Nat
  BY McpAssumption
<1>2. \A u \in Users : InWindow(ran[u])' \subseteq InWindow(ran[u])
  BY <1>1 DEF InWindow, RateInv
<1>3. QED
  BY <1>2 DEF RateInv, RateBounded

LEMMA RatesKept ==
  ASSUME PageInv, RateInv, [Next]_vars
  PROVE  RateInv'
<1>0. now \in Nat
  BY DEF PageInv, CacheTypes
<1>1. CASE PageNext(focus.editors, focus.readers) /\ UNCHANGED <<mcpVars, focus>>
  <2>1. now' = now
    BY <1>1 DEF PageNext, EditClear, EditCommit, OrderCommit, CommitStock, ReadCached, ReadStock,
                FillPage, cacheVars
  <2>2. QED
    BY <1>0, <1>1, <2>1, TickRates DEF mcpVars
<1>2. CASE McpNext(focus.tickets, focus.conns, focus.calls)
  <2>1. CASE \E k \in focus.tickets : GenerateTicket(k)
    BY <1>0, <2>1, TickRates DEF GenerateTicket
  <2>2. CASE \E c \in focus.conns : \/ SseTicket(c) \/ SseDelete(c) \/ SseStore(c)
                                    \/ SseConnect(c) \/ SseClose(c) \/ SseLeave(c)
    BY <1>0, <2>2, TickRates DEF SseTicket, SseDelete, SseStore, SseConnect, SseClose, SseLeave,
                                 cacheVars
  <2>3. CASE \E m \in focus.calls : MessageFind(m) \/ MessageSession(m) \/ Reply(m)
    BY <1>0, <2>3, TickRates DEF MessageFind, MessageSession, Reply, cacheVars
  <2>4. CASE (\E m \in focus.calls : Execute(m)) \/ Purge
    BY <1>0, <2>4, ExecuteRates, PurgeRates
  <2>5. QED
    BY <1>2, <2>1, <2>2, <2>3, <2>4 DEF McpNext
<1>3. CASE Tick \/ UNCHANGED vars
  BY <1>0, <1>3, TickRates DEF Tick, vars, mcpVars, cacheVars
<1>4. QED
  BY <1>1, <1>2, <1>3 DEF Next

LEMMA InitRates == Init => RateInv
<1> SUFFICES ASSUME Init
             PROVE  RateInv
  OBVIOUS
<1>1. limiter = [u \in Users |-> {}] /\ ran = [u \in Users |-> {}]
  BY DEF Init, McpInit
<1>2. QED
  BY <1>1, FS_EmptySet DEF RateInv, RateBounded, InWindow

-----------------------------------------------------------------------------
SharedInv == PageInv /\ McpInv /\ RateInv

LEMMA SharedInvariance == Spec => []SharedInv
<1>1. Init => SharedInv
  BY InitShared, InitRates DEF SharedInv
<1>2. SharedInv /\ [Next]_vars => SharedInv'
  BY PagesKept, McpKept, RatesKept DEF SharedInv
<1>3. QED
  BY <1>1, <1>2, PTL DEF Spec

\* However edits clear the pages before they commit, orders commit without
\* clearing, and readers fill, a page shows a stock that was in force at most
\* PageTime ago (getMakeableCocktails).
THEOREM PagesAge == Spec => []AnswersBounded
<1>1. SharedInv => AnswersBounded
  BY DEF SharedInv, PageInv, Age, AnswersBounded
<1>2. QED
  BY <1>1, SharedInvariance, PTL

\* An open connection that shares its session with no other one is the one
\* that messages of the session find (sse and its close listener).
THEOREM OpenIsFound == Spec => []OpenIsReachable
<1>1. SharedInv => OpenIsReachable
  BY DEF SharedInv, McpInv
<1>2. QED
  BY <1>1, SharedInvariance, PTL

\* No user's calls exceed the rate within any window, unless its window was
\* evicted, however many users and calls there are and whenever purges and
\* evictions take place (executeTool and purgeExpiredRateLimiterKeys).
THEOREM RateKept == Spec => []RateBounded
<1>1. SharedInv => RateBounded
  BY DEF SharedInv, RateInv
<1>2. QED
  BY <1>1, SharedInvariance, PTL

\* A ticket opens sessions only within its lifetime and for requests that looked
\* it up before the first of them deleted it, also where whole clears and page
\* fills go on in the same cache (generateTicket, validateTicket).
THEOREM TicketSpentOnce == Spec => TicketSpent
<1>1. SharedInv /\ [Next]_vars => SpentStep
  BY McpKept DEF SharedInv
<1>2. QED
  BY <1>1, SharedInvariance, PTL DEF Spec, TicketSpent, SpentStep

=============================================================================

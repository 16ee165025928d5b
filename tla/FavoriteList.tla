---------------------------- MODULE FavoriteList ----------------------------
(***************************************************************************)
(* The list of favorites of favorite.store.ts on top of the client: empty    *)
(* until its page loads it, and replaced by each answer to a load; a toggle  *)
(* changes the list before the server has answered, an added entry has a    *)
(* temporary id until then, and a removal that fails puts back the list as   *)
(* it was when the removal was asked for.                                   *)
(***************************************************************************)
EXTENDS Client

CONSTANTS Drinks, PageSize

ASSUME PageAssumption == PageSize \in Nat \ {0}

VARIABLES
  items,    \* the entries shown
  rows,     \* the favorites the server keeps
  toggle,   \* what each request is about: entry and snapshot, or the page read
  unseen,   \* history: the rows no load has brought
  tangled   \* history: a removal named a temporary id or undid other changes,
            \* or a load overlapped a toggle, and no other load has come since

list == <<items, rows, toggle, unseen, tangled>>
listVars == <<vars, list>>

Entry(id, drink) == [id |-> id, drink |-> drink]
\* Entries are named after the request that adds them.
Temp(c, drink) == Entry(<<"temp", c>>, drink)
Stored(c, drink) == Entry(<<"row", c>>, drink)
NoEntry == Entry(<<"none", NoOrder>>, NoOrder)
NoToggle == [entry |-> NoEntry, snapshot |-> {}, rest |-> {}]

ListInit ==
  /\ Init
  /\ rows \in {{}} \cup {{Entry(<<"row", NoOrder>>, d)} : d \in Drinks}
  /\ "favor" \notin scene.kinds \/ "register" \in scene.kinds => rows = {}
  /\ items = {} /\ unseen = rows
  /\ toggle = [c \in Calls |-> NoToggle]
  /\ tangled = FALSE

\* toggle: an entry for the drink is removed, else one is added.
Heart(c, kind, entry) ==
  /\ boot = "done" /\ Idle(c) /\ "favor" \in scene.kinds
  /\ call' = [call EXCEPT ![c] = Sent(kind, NoOrder)]
  /\ toggle' = [toggle EXCEPT ![c] = [entry |-> entry, snapshot |-> items, rest |-> {}]]
  /\ UNCHANGED <<scene, session, client, boot, renewal, recovery, page, order, history, rows,
                 unseen>>
Add(c) ==
  \E d \in Drinks :
    /\ \A f \in items : f.drink # d
    /\ Heart(c, "favor", Temp(c, d))
    /\ items' = items \cup {Temp(c, d)}
    /\ UNCHANGED tangled
Remove(c) ==
  \E f \in items :
    /\ Heart(c, "unfavor", f)
    /\ items' = items \ {f}
    /\ tangled' = (tangled \/ f.id[1] = "temp")

\* Variant: the entry keeps its temporary id.
ReplacedNever(f, c) == f
\* The answer's entry in place of the temporary one, where that is still shown.
Replaced(f, c) == IF f = toggle[c].entry THEN Stored(c, f.drink) ELSE f
\* The server keeps a drink once.
Added(c) ==
  /\ Granted(c, "favor")
  /\ \A f \in rows : f.drink # toggle[c].entry.drink
  /\ rows' = rows \cup {Stored(c, toggle[c].entry.drink)}
  /\ items' = {Replaced(f, c) : f \in items}
  /\ Done(c)
  /\ UNCHANGED <<scene, session, client, boot, renewal, recovery, page, order, history,
                 toggle, unseen, tangled>>
Removed(c) ==
  /\ Granted(c, "unfavor")
  /\ toggle[c].entry \in rows
  /\ rows' = rows \ {toggle[c].entry}
  /\ Done(c)
  /\ UNCHANGED <<scene, session, client, boot, renewal, recovery, page, order, history,
                 items, toggle, unseen, tangled>>
\* Already a favorite, or no favorite by that id.
Rejected(c) ==
  /\ \/ Granted(c, "favor") /\ \E f \in rows : f.drink = toggle[c].entry.drink
     \/ Granted(c, "unfavor") /\ toggle[c].entry \notin rows
  /\ Denied(c)
  /\ UNCHANGED <<scene, session, client, boot, renewal, recovery, page, order, history,
                 rows, toggle, unseen>>

\* load: the first page of the favorites.
Load(c) ==
  /\ boot = "done" /\ Idle(c) /\ "load" \in scene.kinds
  /\ call' = [call EXCEPT ![c] = Sent("load", NoOrder)]
  /\ UNCHANGED <<scene, session, client, boot, renewal, recovery, page, order, history, list>>
LoadServe(c) ==
  /\ Granted(c, "load")
  /\ \E read \in SUBSET rows :
       /\ IF Cardinality(rows) <= PageSize THEN read = rows ELSE Cardinality(read) = PageSize
       /\ toggle' = [toggle EXCEPT ![c] = [entry |-> NoEntry, snapshot |-> read, rest |-> rows \ read]]
  /\ call' = [call EXCEPT ![c].stage = "arrived"]
  /\ UNCHANGED <<scene, session, client, boot, renewal, recovery, page, order, history,
                 items, rows, unseen, tangled>>
\* The answer takes the place of the whole list.
Loaded(c) ==
  /\ call[c].stage = "arrived"
  /\ items' = toggle[c].snapshot /\ unseen' = rows \ toggle[c].snapshot
  /\ tangled' = \/ \E d \in Calls : call[d].kind \in Hearts /\ InFlight(d)
                \/ rows # toggle[c].snapshot \cup toggle[c].rest
  /\ Done(c)
  /\ UNCHANGED <<scene, session, client, boot, renewal, recovery, page, order, history,
                 rows, toggle>>

\* The error callbacks of the requests F that fail in a step, in any order: an
\* added entry goes, and the last snapshot put back stays.
PutBack(F) ==
  LET added == {c \in F : call[c].kind = "favor"}
      gone  == F \ added
      kept  == items \ {toggle[c].entry : c \in added}
  IN  /\ \/ gone = {} /\ items' = kept
         \/ \E c \in gone : items' \in {toggle[c].snapshot, toggle[c].snapshot \ {toggle[d].entry : d \in added}}
      /\ tangled' = (tangled \/ \E c \in gone :
                       gone # {c} \/ toggle[c].snapshot # kept \cup {toggle[c].entry})
Failing == {c \in Calls : /\ call[c].kind \in Hearts /\ InFlight(c)
                          /\ call'[c].stage \in {"failed", "rejected"}}
\* A step of the rest of the client, with the callbacks it calls.
ListStep(step) == step /\ PutBack(Failing) /\ UNCHANGED <<rows, toggle, unseen>>
HeartAnswer(c) == Added(c) \/ Removed(c) \/ (Rejected(c) /\ PutBack(Failing))
LoadAnswer(c) == LoadServe(c) \/ Loaded(c)
ListNext ==
  \/ ListStep(Next)
  \/ \E c \in scene.calls : Add(c) \/ Remove(c) \/ Load(c) \/ HeartAnswer(c) \/ LoadAnswer(c)
ListSpec == ListInit /\ [][ListNext]_listVars
\* The fairness of the client, for its steps with their callbacks.
ListFairness ==
  /\ WF_listVars(ListStep(BootCsrf)) /\ WF_listVars(ListStep(Refresh))
  /\ WF_listVars(ListStep(Recovered))
  /\ \A c \in Slots : WF_listVars(ListStep(Server(c)))
  /\ \A c \in Calls : WF_listVars(HeartAnswer(c) \/ LoadAnswer(c))
  /\ \A p \in Polls : WF_listVars(ListStep(Poll(p)))
  /\ \A o \in Orders : WF_listVars(ListStep(OrderEnds(o)))
FairListSpec == ListSpec /\ ListFairness

(******************************** properties *******************************)
\* When every toggle is answered the list shows what the server keeps, but for
\* the rows no load has brought (before the first and beyond its page),
\* whichever toggles overlapped, were refused for their CSRF token or lost their
\* session, unless an answer was lost or, since the last load that met no toggle,
\* a load's answer came over a toggle, a removal named an entry that had no id
\* yet, or a removal that failed undid other changes with its snapshot.
ListShowsRows ==
  (~lost /\ ~tangled /\ \A c \in Calls : call[c].kind \in Hearts => ~InFlight(c)) =>
    items = rows \ unseen
=============================================================================

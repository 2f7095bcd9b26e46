--------------------------- MODULE Records_proofs ---------------------------
(***************************************************************************)
(* Rows that several calls read, check and write: the tickets of the       *)
(* kitchen, the catalogue, the platform's settings, the history that the   *)
(* listeners of the job queue keep, and the trail that the subscribers of  *)
(* the domain events leave, for any number of calls, rows, processes,      *)
(* attempts, sockets and deliveries.                                       *)
(***************************************************************************)
EXTENDS KitchenDisplay, Catalogue, PlatformSettings, JobHistory,
        EventFanout, TLAPS
-----------------------------------------------------------------------------
(***************************************************************************)
(* The tickets of the kitchen.                                             *)
(***************************************************************************)

(***************************************************************************)
(* A call that is about to update checked its move against what it read,   *)
(* and read an unfinished ticket; past the update its move is committed.   *)
(* The update itself then only has to find the status unchanged.           *)
(***************************************************************************)
Checked(c) ==
    /\ seen[c] \in {"QUEUED", "COOKING", "READY"}
    /\ target[c] \in KITCHEN_VALID_TRANSITIONS[seen[c]]

KitchenInv ==
    /\ KitchenTypeOK
    /\ \A c \in KitchenCalls : step[c] = "update" => Checked(c)
    /\ \A c \in KitchenCalls :
         step[c] \in {"reread", "publish", "returned"} => c \in moved
    /\ announced \subseteq moved

(***************************************************************************)
(* Every transition of the kitchen leads along an edge of the orders.      *)
(***************************************************************************)
LEMMA TransitionsAreEdges ==
    ASSUME NEW k \in {"QUEUED", "COOKING", "READY"}, NEW u \in Targets,
           u \in KITCHEN_VALID_TRANSITIONS[k]
    PROVE  /\ mapKitchenStatusToOrderStatus[u] \in OrderStatus
           /\ <<mapKitchenStatusToOrderStatus[k],
                mapKitchenStatusToOrderStatus[u]>> \in KitchenEdges
<1>1. CASE k = "QUEUED"
    BY <1>1 DEF Targets, KITCHEN_VALID_TRANSITIONS,
       mapKitchenStatusToOrderStatus,
                OrderStatus, KitchenEdges
<1>2. CASE k = "COOKING"
    BY <1>2 DEF Targets, KITCHEN_VALID_TRANSITIONS,
       mapKitchenStatusToOrderStatus,
                OrderStatus, KitchenEdges
<1>3. CASE k = "READY"
    BY <1>3 DEF Targets, KITCHEN_VALID_TRANSITIONS,
       mapKitchenStatusToOrderStatus,
                OrderStatus, KitchenEdges
<1> QED BY <1>1, <1>2, <1>3

(***************************************************************************)
(* A ticket that is found is shown as queued, cooking or ready.            *)
(***************************************************************************)
LEMMA FoundIsActive ==
    ASSUME NEW s \in {"PENDING", "IN_PROGRESS", "READY"}
    PROVE  mapOrderStatusToKitchenStatus[s] \in {"QUEUED", "COOKING", "READY"}
    BY DEF mapOrderStatusToKitchenStatus

(***************************************************************************)
(* The invariant holds in every reachable state.                           *)
(***************************************************************************)
THEOREM KitchenInvariant == KitchenSpec => []KitchenInv
<1>1. KitchenInit => KitchenInv
    BY DEF KitchenInit, KitchenInv, KitchenTypeOK, OrderStatus, KitchenStatus,
       MoveStep
<1>2. KitchenInv /\ [KitchenNext]_kitchenVars => KitchenInv'
  <2> SUFFICES ASSUME KitchenInv, [KitchenNext]_kitchenVars PROVE KitchenInv'
      OBVIOUS
  <2>1. CASE UNCHANGED kitchenVars
      BY <2>1 DEF KitchenInv, KitchenTypeOK, Checked, kitchenVars, input
  <2>2. ASSUME NEW c \in KitchenCalls, Read(c) PROVE KitchenInv'
    <3> DEFINE now == mapOrderStatusToKitchenStatus[orderStatus[ticket[c]]]
    <3>1. CASE Found(ticket[c]) /\ target[c] \in KITCHEN_VALID_TRANSITIONS[now]
      <4>1. now \in {"QUEUED", "COOKING", "READY"}
          BY <3>1, FoundIsActive DEF Found
      <4>2. /\ seen' = [seen EXCEPT ![c] = now]
            /\ step' = [step EXCEPT ![c] = "update"]
          BY <2>2, <3>1 DEF Read, Goto
      <4> HIDE DEF now
      <4>3. KitchenTypeOK'
          BY <2>2, <4>1, <4>2 DEF KitchenInv, KitchenTypeOK, Read,
             KitchenStatus,
                                  MoveStep, input
      <4> QED BY <2>2, <3>1, <4>1, <4>2, <4>3
              DEF KitchenInv, KitchenTypeOK, Checked, Read, input
    <3>2. CASE ~(Found(ticket[c]) /\ target[c] \in KITCHEN_VALID_TRANSITIONS[now])
      <4>1. step' = [step EXCEPT ![c] = "error"] /\ UNCHANGED seen
          BY <2>2, <3>2 DEF Read, Goto
      <4> QED BY <2>2, <4>1
              DEF KitchenInv, KitchenTypeOK, Checked, Read, MoveStep, input
    <3> QED BY <3>1, <3>2
  <2>3. ASSUME NEW c \in KitchenCalls, updateStatus(c) PROVE KitchenInv'
    <3>1. Checked(c) /\ target[c] \in Targets /\ ticket[c] \in Tickets
        BY <2>3 DEF KitchenInv, KitchenTypeOK, updateStatus
    <3>2. mapKitchenStatusToOrderStatus[target[c]] \in OrderStatus
        BY <3>1, TransitionsAreEdges DEF Checked
    <3>3. KitchenTypeOK'
        BY <2>3, <3>2 DEF KitchenInv, KitchenTypeOK, updateStatus, Goto,
           MoveStep, input
    <3> QED BY <2>3, <3>3
            DEF KitchenInv, KitchenTypeOK, Checked, updateStatus, Goto, input
  <2>4. ASSUME NEW c \in KitchenCalls, RereadTicket(c) PROVE KitchenInv'
      BY <2>4 DEF KitchenInv, KitchenTypeOK, Checked, RereadTicket, Goto,
         MoveStep, input
  <2>5. ASSUME NEW c \in KitchenCalls, Publish(c) PROVE KitchenInv'
      BY <2>5 DEF KitchenInv, KitchenTypeOK, Checked, Publish, Goto, MoveStep,
         input
  <2>6. ASSUME NEW t \in Tickets, cancelOrder(t) PROVE KitchenInv'
      BY <2>6 DEF KitchenInv, KitchenTypeOK, Checked, cancelOrder,
         OrderStatus, input
  <2> QED BY <2>1, <2>2, <2>3, <2>4, <2>5, <2>6 DEF KitchenNext, Serve
<1> QED BY <1>1, <1>2, PTL DEF KitchenSpec

(***************************************************************************)
(* No event is announced for a move that did not happen.                   *)
(***************************************************************************)
THEOREM NoFalseAnnouncement == KitchenSpec => []AnnouncedWasMoved
<1>1. KitchenInv => AnnouncedWasMoved
    BY DEF KitchenInv, AnnouncedWasMoved
<1> QED BY <1>1, KitchenInvariant, PTL

(***************************************************************************)
(* The order follows the state machine of the kitchen whatever operators   *)
(* do concurrently.                                                        *)
(***************************************************************************)
THEOREM KitchenMovesLegal == KitchenSpec => MovesAreLegal
<1> DEFINE Legal ==
        \A t \in Tickets :
            orderStatus'[t] # orderStatus[t] => <<orderStatus[t], orderStatus'[t]>> \in KitchenEdges
<1>1. KitchenInv /\ [KitchenNext]_kitchenVars => Legal
  <2> SUFFICES ASSUME KitchenInv, [KitchenNext]_kitchenVars PROVE Legal
      OBVIOUS
  <2>1. CASE UNCHANGED orderStatus
      BY <2>1
  <2>2. ASSUME NEW c \in KitchenCalls, updateStatus(c) PROVE Legal
    <3>1. CASE orderStatus[ticket[c]] = mapKitchenStatusToOrderStatus[seen[c]]
      <4>1. <<orderStatus[ticket[c]], mapKitchenStatusToOrderStatus[target[c]]>>
                \in KitchenEdges
          BY <2>2, <3>1, TransitionsAreEdges
          DEF KitchenInv, KitchenTypeOK, Checked, updateStatus
      <4>2. orderStatus' = [orderStatus EXCEPT ![ticket[c]] =
                         mapKitchenStatusToOrderStatus[target[c]]]
          BY <2>2, <3>1 DEF updateStatus
      <4> QED BY <4>1, <4>2 DEF KitchenInv, KitchenTypeOK
    <3>2. CASE UNCHANGED orderStatus
        BY <3>2
    <3> QED BY <2>2, <3>1, <3>2 DEF updateStatus
  <2>3. ASSUME NEW t \in Tickets, cancelOrder(t) PROVE Legal
      BY <2>3 DEF KitchenInv, KitchenTypeOK, cancelOrder, OrderStatus,
         KitchenEdges
  <2> QED BY <2>1, <2>2, <2>3
          DEF KitchenNext, Serve, Read, RereadTicket, Publish, kitchenVars
<1>2. KitchenSpec => [][Legal]_kitchenVars
    BY <1>1, KitchenInvariant, PTL DEF KitchenSpec
<1> QED BY <1>2 DEF MovesAreLegal
-----------------------------------------------------------------------------
(***************************************************************************)
(* The catalogue.                                                          *)
(***************************************************************************)

(* A row of the catalogue and a call, as CatalogueTypeOK has them.         *)
RowType ==
    [there : BOOLEAN, active : BOOLEAN, name : Rows \cup {Name},
     unit : {"old", "new"}, sure : BOOLEAN, renamed : BOOLEAN]
CallType ==
    [op : UsesOf[catalogue] \cup Edits[catalogue], row : Rows,
     at : {"called", "read", "fallback", "confirmed", "done", "deleted",
           "deactivated", "refused", "failed"},
     found : BOOLEAN, unit : {"old", "new"},
     missed : SUBSET {"row", "name", "serializable name", "rule"}]

(* A row has the name it had or the one that is asked for; a stored row    *)
(* has that one only after an update gave it.                              *)
RowWell(r) ==
    /\ listed[r].name \in {r, Name}
    /\ listed[r].renamed <=> r \in Stored /\ listed[r].name = Name

(* A call creates its own row, once, and otherwise is about a stored one.  *)
CallWell(w) ==
    /\ IF writer[w].op = "create" THEN writer[w].row = w
       ELSE writer[w].row \in Stored
    /\ writer[w].op = "create" /\ writer[w].at \in {"called", "read"} =>
         ~listed[w].there /\ listed[w].name = w

(* What a call has read is still so, unless it has missed a change.        *)
Reading(w, op) == writer[w].at = "read" /\ writer[w].op = op
UnitIsRead(w) ==
    /\ writer[w].at = "read" /\ writer[w].op \in UsesOf[catalogue]
    /\ "row" \notin writer[w].missed
    => writer[w].unit = Row(w).unit
UnitIsFree(w) ==
    Reading(w, "unit") =>
        \A u \in uses : u.of = writer[w].row /\ u.as \in {"stock", "recipe"}
                          => ~u.alone
NameIsFree(w) ==
    /\ Reading(w, "create") \/ Reading(w, "rename")
    /\ "name" \notin writer[w].missed
    => ~NameTaken(writer[w].row)
NoneRenamed(w) ==
    /\ catalogue = "ingredient" /\ Reading(w, "rename")
    /\ "serializable name" \notin writer[w].missed
    => \A q \in Rows \ {writer[w].row} :
           ~(listed[q].there /\ listed[q].renamed)
CallInv(w) ==
    /\ CallWell(w) /\ UnitIsRead(w) /\ UnitIsFree(w)
    /\ NameIsFree(w) /\ NoneRenamed(w)

CatalogueInv ==
    /\ CatalogueIsKept
    /\ \A r \in Rows : RowWell(r)
    /\ \A w \in Writers : CallInv(w)
-----------------------------------------------------------------------------
USE CatalogueConstants DEF Rows

LEMMA OpsDiffer ==
  ASSUME catalogue \in Catalogues
  PROVE  /\ {"create", "rename", "unit", "activate", "deactivate", "remove"}
              \cap UsesOf[catalogue] = {}
         /\ "rename" \in Edits[catalogue] => catalogue # "product"
  BY DEF Catalogues, UsesOf, Edits

LEMMA RulesAreUses ==
  ASSUME catalogue \in Catalogues,
         "rule" \in UsesOf[catalogue] \cup Edits[catalogue]
  PROVE  "rule" \in UsesOf[catalogue]
  BY DEF Catalogues, UsesOf, Edits

LEMMA CatalogueTypes ==
  CatalogueTypeOK <=>
    /\ catalogue \in Catalogues
    /\ listed \in [Rows -> RowType]
    /\ uses \subseteq [by : Writers, of : Rows, as : UsesOf[catalogue],
                       unit : {"old", "new"}, alone : BOOLEAN]
    /\ writer \in [Writers -> CallType]
  BY DEF CatalogueTypeOK, RowType, CallType

LEMMA CatalogueInvInit == CatalogueInit => CatalogueInv
  <1> SUFFICES ASSUME CatalogueInit PROVE CatalogueInv
    OBVIOUS
  <1>1. CatalogueTypeOK
    <2>1. listed \in [Rows -> RowType]
      BY DEF CatalogueInit, RowType
    <2>2. writer \in [Writers -> CallType]
      BY DEF CatalogueInit, CallType
    <2> QED
      BY <2>1, <2>2, CatalogueTypes DEF CatalogueInit
  <1>2. ASSUME NEW r \in Rows
        PROVE  /\ listed[r].name = r /\ ~listed[r].renamed
               /\ listed[r].there <=> r \in Stored
    BY DEF CatalogueInit
  <1>3. ASSUME NEW w \in Writers
        PROVE  /\ writer[w].at = "called"
               /\ IF writer[w].op = "create" THEN writer[w].row = w
                  ELSE writer[w].row \in Stored
    BY DEF CatalogueInit
  <1>4. NothingLost /\ UnitsKept
    BY DEF CatalogueInit, NothingLost, UnitsKept
  <1>5. NamesKept
    BY <1>2 DEF NamesKept
  <1>6. \A r \in Rows : RowWell(r)
    BY <1>2 DEF RowWell
  <1>7. ASSUME NEW w \in Writers PROVE CallInv(w)
    BY <1>2, <1>3 DEF CallInv, CallWell, UnitIsRead, UnitIsFree, NameIsFree,
         NoneRenamed, Reading
  <1> QED
    BY <1>1, <1>4, <1>5, <1>6, <1>7 DEF CatalogueInv, CatalogueIsKept
-----------------------------------------------------------------------------
Places == {"called", "read", "fallback", "confirmed", "done", "deleted",
           "deactivated", "refused", "failed"}
SameCall(v) ==
    /\ writer'[v].op = writer[v].op /\ writer'[v].row = writer[v].row
    /\ writer'[v].unit = writer[v].unit /\ writer'[v].at = writer[v].at
    /\ writer[v].at = "read" => writer[v].missed \subseteq writer'[v].missed

(* What a call that moves on leaves of the others.                         *)
LEMMA Settled ==
  ASSUME CatalogueTypeOK, NEW w \in Writers, NEW at \in Places, NEW news,
         \A v \in Writers :
           news[v] \subseteq {"row", "name", "serializable name", "rule"},
         Settle(w, at, news), UNCHANGED catalogue
  PROVE  /\ writer' \in [Writers -> CallType']
         /\ writer'[w].op = writer[w].op /\ writer'[w].row = writer[w].row
         /\ writer'[w].unit = writer[w].unit /\ writer'[w].at = at
         /\ writer'[w].missed = writer[w].missed
         /\ \A v \in Writers \ {w} : SameCall(v)
         /\ \A v \in Writers \ {w} :
              writer[v].at = "read" => news[v] \subseteq writer'[v].missed
  <1>1. writer \in [Writers -> CallType] /\ CallType' = CallType
    BY CatalogueTypes DEF CallType
  <1>2. ASSUME NEW v \in Writers
        PROVE  writer'[v] =
                 CASE v = w -> [writer[w] EXCEPT !.at = at]
                   [] writer[v].at = "read" /\ v # w ->
                        [writer[v] EXCEPT !.missed = @ \cup news[v]]
                   [] OTHER -> writer[v]
    BY DEF Settle
  <1>3. /\ writer'[w] = [writer[w] EXCEPT !.at = at]
        /\ writer[w] \in CallType
    BY <1>1, <1>2
  <1>4. writer'[w] \in CallType
    BY <1>3 DEF CallType, Places
  <1>5. ASSUME NEW v \in Writers \ {w}
        PROVE  /\ writer'[v] \in CallType /\ SameCall(v)
               /\ writer[v].at = "read" => news[v] \subseteq writer'[v].missed
    <2>1. writer[v] \in CallType
      BY <1>1
    <2>2. CASE writer[v].at = "read"
      <3>1. writer'[v] = [writer[v] EXCEPT !.missed = @ \cup news[v]]
        BY <1>2, <2>2
      <3>2. writer[v].missed \cup news[v]
              \in SUBSET {"row", "name", "serializable name", "rule"}
        BY <2>1 DEF CallType
      <3>3. writer'[v] \in CallType
        BY <2>1, <3>1, <3>2 DEF CallType
      <3>4. writer'[v].missed = writer[v].missed \cup news[v]
        BY <2>1, <3>1 DEF CallType
      <3>5. /\ writer'[v].op = writer[v].op /\ writer'[v].row = writer[v].row
            /\ writer'[v].unit = writer[v].unit
            /\ writer'[v].at = writer[v].at
        BY <2>1, <3>1 DEF CallType
      <3>6. SameCall(v)
        BY <3>4, <3>5 DEF SameCall
      <3> QED
        BY <3>3, <3>4, <3>6
    <2>3. CASE writer[v].at # "read"
      <3>1. writer'[v] = writer[v]
        BY <1>2, <2>3
      <3> QED
        BY <2>1, <2>3, <3>1 DEF SameCall
    <2> QED
      BY <2>2, <2>3
  <1>6. writer' \in [Writers -> CallType']
    <2>1. writer' = [v \in Writers |-> writer'[v]]
      BY DEF Settle
    <2>2. \A v \in Writers : writer'[v] \in CallType
      BY <1>4, <1>5
    <2> HIDE DEF CallType
    <2> QED
      BY <1>1, <2>1, <2>2
  <1>7. /\ writer'[w].op = writer[w].op /\ writer'[w].row = writer[w].row
        /\ writer'[w].unit = writer[w].unit /\ writer'[w].at = at
        /\ writer'[w].missed = writer[w].missed
    BY <1>3 DEF CallType
  <1> QED
    BY <1>5, <1>6, <1>7

(* A call that has nothing to write yet, or has failed, leaves what the    *)
(* others know.                                                            *)
LEMMA QuietStep ==
  ASSUME CatalogueInv, NEW w \in Writers, UNCHANGED <<listed, uses, catalogue>>,
         writer' \in [Writers -> CallType'],
         \A v \in Writers \ {w} : SameCall(v),
         CallInv(w)'
  PROVE  CatalogueInv'
  <1>1. CatalogueTypeOK /\ NothingLost /\ UnitsKept /\ NamesKept
    BY DEF CatalogueInv, CatalogueIsKept
  <1>2. CatalogueTypeOK'
    BY <1>1, CatalogueTypes DEF CatalogueTypeOK, CallType
  <1>3. ASSUME NEW v \in Writers \ {w} PROVE CallInv(v)'
    <2>1. CallInv(v)
      BY DEF CatalogueInv
    <2> QED
      BY <2>1 DEF CallInv, CallWell, UnitIsRead, UnitIsFree, NameIsFree,
           NoneRenamed, Reading, SameCall, Row, NameTaken
  <1> QED
    BY <1>1, <1>2, <1>3 DEF CatalogueInv, CatalogueIsKept, NothingLost,
         UnitsKept, NamesKept, RowWell

(* So does one that replies.                                               *)
LEMMA Replied ==
  ASSUME CatalogueInv, NEW w \in Writers, NEW at \in Places, Reply(w, at)
  PROVE  /\ UNCHANGED <<listed, uses, catalogue>>
         /\ writer' \in [Writers -> CallType']
         /\ \A v \in Writers \ {w} : SameCall(v)
         /\ writer'[w].op = writer[w].op /\ writer'[w].row = writer[w].row
         /\ writer'[w].unit = writer[w].unit /\ writer'[w].at = at
         /\ writer'[w].missed = writer[w].missed
  <1>1. UNCHANGED <<listed, uses, catalogue>> /\ CatalogueTypeOK
    BY DEF Reply, CatalogueInv, CatalogueIsKept
  <1>2. \A v \in Writers :
          Nothing[v] \subseteq {"row", "name", "serializable name", "rule"}
    BY DEF Nothing
  <1>3. Settle(w, at, Nothing)
    BY DEF Reply
  <1> HIDE DEF Nothing
  <1> QED
    BY <1>1, <1>2, <1>3, Settled

LEMMA ReplyStep ==
  ASSUME CatalogueInv, NEW w \in Writers, NEW at \in Places \ {"called", "read"},
         Reply(w, at)
  PROVE  CatalogueInv'
  <1>1. CallWell(w)
    BY DEF CatalogueInv, CallInv
  <1>2. CallInv(w)'
    BY <1>1, Replied DEF CallInv, CallWell, UnitIsRead, UnitIsFree,
         NameIsFree, NoneRenamed, Reading
  <1> QED
    BY <1>2, Replied, QuietStep
-----------------------------------------------------------------------------
(* A write of row r that leaves its name alone, and one that gives it the  *)
(* name that is asked for.                                                 *)
Plain(r, row) ==
    /\ row.name = listed[r].name /\ row.sure = listed[r].sure
    /\ row.renamed = listed[r].renamed
    /\ row.there => listed[r].there
Named(w, r, row) ==
    /\ row.name = Name /\ (row.renamed <=> r \in Stored)
    /\ row.there => listed[r].there \/ listed[r].name # Name
    /\ row.sure \/ NameIsUnique => ~NameTaken(r)
    /\ catalogue = "ingredient" /\ row.renamed =>
         /\ writer[w].op = "rename"
         /\ \A q \in Rows \ {r} : ~(listed[q].there /\ listed[q].renamed)

(* What a write may do: delete only what nothing refers to, and change the *)
(* unit only of what nothing counts in it.                                 *)
MayWrite(w, r, row) ==
    /\ Used(r) => row.there
    /\ \/ row.unit = listed[r].unit
       \/ \A u \in uses : u.of = r /\ u.as \in {"stock", "recipe"}
                            => ~u.alone
    /\ Plain(r, row) \/ Named(w, r, row)

LEMMA WriteStep ==
  ASSUME CatalogueInv, NEW w \in Writers,
         NEW at \in {"done", "deleted", "deactivated"},
         NEW row \in RowType, Write(w, at, row),
         MayWrite(w, writer[w].row, row)
  PROVE  CatalogueInv'
  <1> DEFINE r == writer[w].row
             news == [v \in Writers |->
                        RowNews(writer[w].row, v) \cup
                        IF row.name = Name /\ Row(w).name # Name
                        THEN NameNews(w) ELSE {}]
  <1>1. CatalogueTypeOK /\ NothingLost /\ UnitsKept /\ NamesKept
    BY DEF CatalogueInv, CatalogueIsKept
  <1>2. /\ catalogue \in Catalogues /\ listed \in [Rows -> RowType]
        /\ uses \subseteq [by : Writers, of : Rows, as : UsesOf[catalogue],
                           unit : {"old", "new"}, alone : BOOLEAN]
        /\ writer \in [Writers -> CallType]
    BY <1>1, CatalogueTypes
  <1>3. r \in Rows
    BY <1>2 DEF CallType
  <1>4. /\ listed' = [listed EXCEPT ![r] = row] /\ Settle(w, at, news)
        /\ uses' = IF row.there THEN uses ELSE uses \ RulesOf(r)
        /\ uses' \subseteq uses /\ UNCHANGED catalogue
    BY DEF Write
  <1>5. \A v \in Writers :
          news[v] \subseteq {"row", "name", "serializable name", "rule"}
    BY DEF RowNews, NameNews
  <1>6. ASSUME NEW v \in Writers, v # w, writer[v].at = "read"
        PROVE  /\ writer[v].row = r => "row" \in news[v]
               /\ row.name = Name /\ listed[r].name # Name =>
                    /\ "name" \in news[v]
                    /\ catalogue = "ingredient" /\ writer[w].op = "rename"
                       => "serializable name" \in news[v]
    BY DEF RowNews, NameNews, Row
  <1> HIDE DEF news
  <1>7. /\ writer' \in [Writers -> CallType']
        /\ writer'[w].op = writer[w].op /\ writer'[w].row = writer[w].row
        /\ writer'[w].at = at
        /\ \A v \in Writers \ {w} : SameCall(v)
        /\ \A v \in Writers \ {w} :
              writer[v].at = "read" => news[v] \subseteq writer'[v].missed
    <2>1. at \in Places
      BY DEF Places
    <2> HIDE DEF r
    <2> QED
      BY <1>1, <1>4, <1>5, <2>1, Settled
  <1>8. /\ listed'[r] = row /\ listed' \in [Rows -> RowType]
        /\ \A q \in Rows \ {r} : listed'[q] = listed[q]
    BY <1>2, <1>3, <1>4
  <1>9. CatalogueTypeOK'
    <2>1. listed' \in [Rows -> RowType']
      BY <1>8 DEF RowType
    <2> QED
      BY <1>2, <1>4, <1>7, <2>1 DEF CatalogueTypeOK, RowType, CallType
  <1>10. NothingLost'
    BY <1>1, <1>2, <1>4, <1>8 DEF NothingLost, MayWrite, Used, RulesOf
  <1>11. UnitsKept'
    BY <1>1, <1>2, <1>4, <1>8 DEF UnitsKept, MayWrite
  <1>12. ASSUME NEW q \in Rows PROVE RowWell(q)'
    <2>1. RowWell(q)
      BY DEF CatalogueInv
    <2> QED
      BY <1>8, <2>1 DEF RowWell, MayWrite, Plain, Named
  <1>13. NamesKept'
    <2> SUFFICES ASSUME NEW q \in Rows, NEW s \in Rows, q # s,
                        listed'[q].there, listed'[s].there,
                        listed'[q].name = listed'[s].name
                 PROVE  /\ catalogue = "ingredient"
                        /\ ~listed'[q].sure \/ ~listed'[s].sure
                        /\ ~listed'[q].renamed \/ ~listed'[s].renamed
      BY <1>4 DEF NamesKept
    <2>1. listed'[q].name = Name /\ listed'[s].name = Name
      BY <1>12 DEF RowWell
    <2>2. ASSUME NEW o \in Rows, o # r, listed[o].there, listed[o].name = Name,
                 row.there, row.name = Name
          PROVE  /\ catalogue = "ingredient"
                 /\ ~listed[o].sure \/ ~row.sure
                 /\ ~listed[o].renamed \/ ~row.renamed
      <3>1. CASE Plain(r, row)
        BY <1>1, <1>3, <1>4, <2>2, <3>1 DEF NamesKept, Plain
      <3>2. CASE Named(w, r, row)
        <4>1. NameTaken(r)
          BY <2>2 DEF NameTaken
        <4>2. catalogue = "ingredient"
          BY <1>2, <3>2, <4>1 DEF Named, NameIsUnique, Catalogues
        <4> QED
          BY <2>2, <3>2, <4>1, <4>2 DEF Named
      <3> QED
        BY <3>1, <3>2 DEF MayWrite
    <2> QED
      BY <1>1, <1>8, <2>1, <2>2 DEF NamesKept
  <1>14. CallWell(w)
    BY DEF CatalogueInv, CallInv
  <1>15. CallInv(w)'
    BY <1>7, <1>14 DEF CallInv, CallWell, UnitIsRead, UnitIsFree, NameIsFree,
         NoneRenamed, Reading
  <1>16. ASSUME NEW v \in Writers \ {w} PROVE CallInv(v)'
    <2>1. CallInv(v) /\ SameCall(v) /\ writer[v].row \in Rows
      BY <1>2, <1>7 DEF CatalogueInv, CallType
    <2>2. CallWell(v)'
      <3>1. writer[v].op = "create" => r # v
        BY <1>14 DEF CallWell
      <3> QED
        BY <1>8, <2>1, <3>1 DEF CallInv, CallWell, SameCall
    <2>3. UnitIsRead(v)'
      <3> SUFFICES ASSUME writer'[v].at = "read",
                          writer'[v].op \in UsesOf[catalogue],
                          "row" \notin writer'[v].missed
                   PROVE  writer'[v].unit = listed'[writer'[v].row].unit
        BY <1>4 DEF UnitIsRead, Row
      <3>1. writer[v].row # r /\ "row" \notin writer[v].missed
        BY <1>6, <1>7, <2>1 DEF SameCall
      <3> QED
        BY <1>8, <2>1, <3>1 DEF SameCall, CallInv, UnitIsRead, Row
    <2>4. UnitIsFree(v)'
      BY <1>4, <2>1 DEF SameCall, CallInv, UnitIsFree, Reading
    <2>5. NameIsFree(v)'
      <3> SUFFICES ASSUME writer'[v].at = "read",
                          writer'[v].op \in {"create", "rename"},
                          "name" \notin writer'[v].missed,
                          NEW q \in Rows \ {writer'[v].row},
                          listed'[q].there, listed'[q].name = Name
                   PROVE  FALSE
        BY DEF NameIsFree, Reading, NameTaken
      <3>1. /\ ~(row.name = Name /\ listed[r].name # Name)
            /\ ~NameTaken(writer[v].row)
        BY <1>6, <1>7, <2>1 DEF SameCall, CallInv, NameIsFree, Reading
      <3>2. ~(listed[q].there /\ listed[q].name = Name)
        BY <2>1, <3>1 DEF NameTaken, SameCall
      <3> QED
        BY <1>8, <3>1, <3>2 DEF MayWrite, Plain, Named
    <2>6. NoneRenamed(v)'
      <3> SUFFICES ASSUME writer'[v].at = "read", catalogue = "ingredient",
                          writer'[v].op = "rename",
                          "serializable name" \notin writer'[v].missed,
                          NEW q \in Rows \ {writer'[v].row},
                          listed'[q].there, listed'[q].renamed
                   PROVE  FALSE
        BY <1>4 DEF NoneRenamed, Reading
      <3>1. ~(listed[q].there /\ listed[q].renamed)
        BY <2>1 DEF SameCall, CallInv, NoneRenamed, Reading
      <3>2. q = r /\ row.there /\ row.renamed
        BY <1>8, <3>1
      <3>3. Named(w, r, row)
        BY <3>1, <3>2 DEF MayWrite, Plain
      <3>4. listed[r].name = Name
        BY <1>6, <1>7, <2>1, <3>2, <3>3 DEF Named, SameCall
      <3>5. listed[r].there /\ r \in Stored
        BY <3>2, <3>3, <3>4 DEF Named
      <3>6. RowWell(r)
        BY <1>3 DEF CatalogueInv
      <3> QED
        BY <3>1, <3>2, <3>4, <3>5, <3>6 DEF RowWell
    <2> QED
      BY <2>2, <2>3, <2>4, <2>5, <2>6 DEF CallInv
  <1> QED
    BY <1>9, <1>10, <1>11, <1>12, <1>13, <1>15, <1>16
       DEF CatalogueInv, CatalogueIsKept
-----------------------------------------------------------------------------
(* The calls that create or change a row.                                  *)
LEMMA EditSteps ==
  ASSUME CatalogueInv, NEW w \in Writers,
         \/ findExisting(w) \/ insertRow(w) \/ update(w) \/ readIngredient(w)
         \/ writeIngredient(w)
  PROVE  CatalogueInv'
  <1> DEFINE r == writer[w].row
  <1>1. CatalogueTypeOK /\ NothingLost /\ CallInv(w)
    BY DEF CatalogueInv, CatalogueIsKept
  <1>2. /\ catalogue \in Catalogues /\ listed \in [Rows -> RowType]
        /\ writer \in [Writers -> CallType]
    BY <1>1, CatalogueTypes
  <1>3. r \in Rows /\ listed[r] \in RowType /\ RowWell(r)
    BY <1>2 DEF CallType, CatalogueInv
  <1>4. Used(r) => listed[r].there
    BY <1>1 DEF NothingLost, Used
  <1>5. ASSUME Reply(w, "read"), writer[w].op \notin UsesOf[catalogue],
               writer[w].op = "unit" => ~UnitFixed(r),
               writer[w].op \in {"create", "rename"} => ~NameTaken(r),
               writer[w].op = "create" => ~listed[w].there /\ listed[w].name = w
        PROVE  CatalogueInv'
    <2>1. /\ UNCHANGED <<listed, uses, catalogue>>
          /\ writer' \in [Writers -> CallType']
          /\ \A v \in Writers \ {w} : SameCall(v)
          /\ writer'[w].op = writer[w].op /\ writer'[w].row = writer[w].row
      BY <1>5, Replied DEF Places
    <2>2. \A q \in Rows : RowWell(q)
      BY DEF CatalogueInv
    <2>3. writer[w].op = "rename" =>
            \A q \in Rows \ {r} : ~(listed[q].there /\ listed[q].renamed)
      BY <1>5, <2>2 DEF NameTaken, RowWell
    <2>4. CallInv(w)'
      BY <1>1, <1>5, <2>1, <2>3 DEF CallInv, CallWell, UnitIsRead, UnitIsFree,
           NameIsFree, NoneRenamed, Reading, NameTaken, UnitFixed
    <2> QED
      BY <2>1, <2>4, QuietStep
  <1>6. CASE findExisting(w)
    <2>1. CASE NameTaken(w)
      BY <1>6, <2>1, ReplyStep DEF findExisting, Places
    <2>2. CASE ~NameTaken(w)
      BY <1>1, <1>2, <1>5, <1>6, <2>2, OpsDiffer DEF findExisting, CallInv,
                                                      CallWell
    <2> QED
      BY <2>1, <2>2
  <1>7. CASE insertRow(w)
    <2>1. CASE NameIsUnique /\ NameTaken(w)
      BY <1>7, <2>1, ReplyStep DEF insertRow, Places
    <2>2. CASE ~(NameIsUnique /\ NameTaken(w))
      <3>1. /\ writer[w].op = "create" /\ r = w
            /\ writer[w].at \in {"called", "read"}
            /\ ~listed[w].there /\ listed[w].name = w
        BY <1>1, <1>7 DEF insertRow, CallInv, CallWell
      <3>2. Changed(w) = [Row(w) EXCEPT !.there = TRUE, !.name = Name,
                            !.sure = "name" \notin writer[w].missed]
        BY <3>1 DEF Changed
      <3>3. Changed(w) \in RowType
        BY <1>3, <3>2 DEF RowType, Row
      <3>4. /\ Changed(w).there /\ Changed(w).name = Name
            /\ Changed(w).unit = listed[r].unit
            /\ Changed(w).sure <=> "name" \notin writer[w].missed
            /\ Changed(w).renamed = listed[r].renamed
        BY <1>3, <3>2 DEF RowType, Row
      <3>5. /\ "name" \notin writer[w].missed /\ ~NameIsUnique
            => ~NameTaken(r)
        <4>1. CASE writer[w].at = "read"
          BY <1>1, <3>1, <4>1 DEF CallInv, NameIsFree, Reading
        <4>2. CASE writer[w].at # "read"
          BY <1>2, <1>7, <4>2 DEF insertRow, Catalogues, NameIsUnique
        <4> QED
          BY <4>1, <4>2
      <3>6. MayWrite(w, r, Changed(w))
        BY <1>3, <2>2, <3>1, <3>4, <3>5 DEF MayWrite, Named, RowWell
      <3> QED
        BY <1>7, <2>2, <3>3, <3>6, WriteStep DEF insertRow
    <2> QED
      BY <2>1, <2>2
  <1>8. ASSUME writer[w].op \in {"rename", "unit", "activate", "deactivate"},
               writer[w].op = "rename" => Named(w, r, Changed(w)),
               writer[w].op = "unit" => UnitIsFree(w) /\ Reading(w, "unit"),
               Write(w, "done", Changed(w))
        PROVE  CatalogueInv'
    <2>1. Changed(w) =
            CASE writer[w].op = "rename" ->
                   [Row(w) EXCEPT !.name = Name, !.renamed = TRUE,
                                  !.sure = "name" \notin writer[w].missed]
              [] writer[w].op = "unit" -> [Row(w) EXCEPT !.unit = "new"]
              [] OTHER -> [Row(w) EXCEPT !.active = writer[w].op = "activate"]
      BY <1>8 DEF Changed
    <2>2. /\ Changed(w) \in RowType
          /\ Changed(w).there = listed[r].there
          /\ writer[w].op # "unit" => Changed(w).unit = listed[r].unit
          /\ writer[w].op # "rename" => Plain(r, Changed(w))
      <3>1. CASE writer[w].op = "rename"
        BY <1>3, <2>1, <3>1 DEF Row, RowType
      <3>2. CASE writer[w].op = "unit"
        BY <1>3, <2>1, <3>2 DEF Row, RowType, Plain
      <3>3. CASE writer[w].op \in {"activate", "deactivate"}
        BY <1>3, <2>1, <3>3 DEF Row, RowType, Plain
      <3> QED
        BY <1>8, <3>1, <3>2, <3>3
    <2>3. MayWrite(w, r, Changed(w))
      BY <1>4, <1>8, <2>2 DEF MayWrite, UnitIsFree
    <2> QED
      BY <1>8, <2>2, <2>3, WriteStep
  <1>9. ASSUME writer[w].op = "rename"
        PROVE  /\ Changed(w).name = Name /\ Changed(w).renamed
               /\ Changed(w).sure <=> "name" \notin writer[w].missed
               /\ Changed(w).there = listed[r].there /\ r \in Stored
    <2>1. Changed(w) = [Row(w) EXCEPT !.name = Name, !.renamed = TRUE,
                          !.sure = "name" \notin writer[w].missed]
      BY <1>9 DEF Changed
    <2> QED
      BY <1>1, <1>3, <1>9, <2>1 DEF Row, RowType, CallInv, CallWell
  <1>10. CASE update(w)
    <2>1. CASE ~Row(w).there
      BY <1>10, <2>1, ReplyStep DEF update, Places
    <2>2. CASE writer[w].op = "rename" /\ NameTaken(r)
      BY <1>10, <2>2, ReplyStep DEF update, Places
    <2>3. CASE Row(w).there /\ ~(writer[w].op = "rename" /\ NameTaken(r))
      <3>1. writer[w].op = "rename" => Named(w, r, Changed(w))
        BY <1>9, <1>10, <2>3 DEF update, Named
      <3> QED
        BY <1>8, <1>10, <2>3, <3>1 DEF update
    <2> QED
      BY <2>1, <2>2, <2>3
  <1>11. CASE readIngredient(w)
    <2> DEFINE refuse == \/ ~Row(w).there
                         \/ writer[w].op = "rename" /\ NameTaken(writer[w].row)
                         \/ writer[w].op = "unit" /\ UnitFixed(writer[w].row)
    <2>1. CASE refuse
      BY <1>11, <2>1, ReplyStep DEF readIngredient, Places
    <2>2. CASE ~refuse
      BY <1>2, <1>5, <1>11, <2>2, OpsDiffer DEF readIngredient
    <2> QED
      BY <2>1, <2>2
  <1>12. CASE writeIngredient(w)
    <2>1. CASE Outdated(w)
      BY <1>12, <2>1, ReplyStep DEF writeIngredient, Places
    <2>2. CASE ~Outdated(w)
      <3>1. /\ catalogue = "ingredient" /\ Reading(w, writer[w].op)
            /\ Write(w, "done", Changed(w))
            /\ writer[w].op \in {"rename", "unit", "activate", "deactivate"}
        BY <1>12, <2>2 DEF writeIngredient, Reading
      <3>2. writer[w].op = "rename" => Named(w, r, Changed(w))
        BY <1>1, <1>9, <2>2, <3>1 DEF Outdated, Named, CallInv, NameIsFree,
             NoneRenamed, NameIsUnique, Reading
      <3> QED
        BY <1>1, <1>8, <3>1, <3>2 DEF CallInv
    <2> QED
      BY <2>1, <2>2
  <1> QED
    BY <1>6, <1>7, <1>10, <1>11, <1>12

(* The removal, and what it does instead.                                  *)
LEMMA RemoveSteps ==
  ASSUME CatalogueInv, NEW w \in Writers,
         \/ findReferences(w) \/ remove(w) \/ confirmReference(w)
         \/ deactivate(w)
  PROVE  CatalogueInv'
  <1> DEFINE r == writer[w].row
  <1>1. CatalogueTypeOK /\ NothingLost /\ CallInv(w)
    BY DEF CatalogueInv, CatalogueIsKept
  <1>2. /\ catalogue \in Catalogues /\ listed \in [Rows -> RowType]
        /\ writer \in [Writers -> CallType]
    BY <1>1, CatalogueTypes
  <1>3. r \in Rows /\ listed[r] \in RowType
    BY <1>2 DEF CallType
  <1>4. Used(r) => listed[r].there
    BY <1>1 DEF NothingLost, Used
  <1>5. ASSUME NEW at \in {"deactivated"},
               Write(w, at, [Row(w) EXCEPT !.active = FALSE])
        PROVE  CatalogueInv'
    <2> DEFINE row == [Row(w) EXCEPT !.active = FALSE]
    <2>1. /\ row \in RowType /\ row.there = listed[r].there
          /\ row.unit = listed[r].unit /\ Plain(r, row)
      BY <1>3 DEF Row, RowType, Plain
    <2>2. MayWrite(w, r, row)
      BY <1>4, <2>1 DEF MayWrite
    <2> QED
      BY <1>5, <2>1, <2>2, WriteStep
  <1>6. CASE findReferences(w)
    <2>1. CASE ~Row(w).there
      BY <1>6, <2>1, ReplyStep DEF findReferences, Places
    <2>2. CASE Row(w).there
      <3>1. /\ writer' = [writer EXCEPT ![w].at = "read",
                                        ![w].found = Used(writer[w].row)]
            /\ UNCHANGED <<listed, uses, catalogue>>
            /\ writer[w].op = "remove"
        BY <1>6, <2>2 DEF findReferences
      <3>2. /\ writer' \in [Writers -> CallType']
            /\ \A v \in Writers \ {w} : writer'[v] = writer[v]
            /\ writer'[w].op = "remove" /\ writer'[w].row = r
        <4>1. writer'[w] = [writer[w] EXCEPT !.at = "read", !.found = Used(r)]
          BY <1>2, <3>1
        <4>2. writer'[w] \in CallType
          BY <1>2, <4>1 DEF CallType, Used
        <4> QED
          BY <1>2, <3>1, <4>1, <4>2 DEF CallType
      <3>3. CallInv(w)'
        BY <1>1, <1>2, <3>1, <3>2, OpsDiffer DEF CallInv, CallWell,
             UnitIsRead, UnitIsFree, NameIsFree, NoneRenamed, Reading
      <3> QED
        BY <3>1, <3>2, <3>3, QuietStep DEF SameCall
    <2> QED
      BY <2>1, <2>2
  <1>7. ASSUME NEW e, Recover(w, e) PROVE CatalogueInv'
    BY <1>7, ReplyStep DEF Recover, Places
  <1>8. CASE remove(w)
    <2>1. ASSUME Write(w, "deleted", [Row(w) EXCEPT !.there = FALSE]),
                 DeleteErrors(w) = {}
          PROVE  CatalogueInv'
      <3> DEFINE row == [Row(w) EXCEPT !.there = FALSE]
      <3>1. /\ row \in RowType /\ ~row.there
            /\ row.unit = listed[r].unit /\ Plain(r, row)
        BY <1>3 DEF Row, RowType, Plain
      <3>2. ~Used(r)
        BY <2>1 DEF DeleteErrors, Used
      <3>3. MayWrite(w, r, row)
        BY <3>1, <3>2 DEF MayWrite
      <3> QED
        BY <2>1, <3>1, <3>3, WriteStep
    <2> QED
      BY <1>5, <1>7, <1>8, <2>1 DEF remove
  <1>9. CASE confirmReference(w)
    BY <1>9, ReplyStep DEF confirmReference, Places
  <1>10. CASE deactivate(w)
    BY <1>5, <1>10, ReplyStep DEF deactivate, Places
  <1> QED
    BY <1>6, <1>8, <1>9, <1>10

(* What refers to the rows.                                                *)
LEMMA ReferenceSteps ==
  ASSUME CatalogueInv,
         \/ deleteDraft
         \/ \E w \in Writers : \/ readRow(w) \/ insertReference(w)
                               \/ replaceReorderRules(w)
  PROVE  CatalogueInv'
  <1>1. CatalogueTypeOK /\ NothingLost /\ UnitsKept /\ NamesKept
    BY DEF CatalogueInv, CatalogueIsKept
  <1>2. /\ catalogue \in Catalogues /\ listed \in [Rows -> RowType]
        /\ uses \subseteq [by : Writers, of : Rows, as : UsesOf[catalogue],
                           unit : {"old", "new"}, alone : BOOLEAN]
        /\ writer \in [Writers -> CallType]
    BY <1>1, CatalogueTypes
  <1>3. CASE deleteDraft
    <2>1. uses' \subseteq uses /\ UNCHANGED <<catalogue, listed, writer>>
      BY <1>3 DEF deleteDraft
    <2>2. ASSUME NEW w \in Writers PROVE CallInv(w)'
      BY <2>1 DEF CatalogueInv, CallInv, CallWell, UnitIsRead, UnitIsFree,
           NameIsFree, NoneRenamed, Reading, Row, NameTaken
    <2>3. CatalogueTypeOK'
      BY <1>1, <2>1 DEF CatalogueTypeOK
    <2>4. CatalogueIsKept'
      BY <1>1, <2>1, <2>3 DEF CatalogueIsKept, NothingLost, UnitsKept,
           NamesKept
    <2> QED
      BY <2>1, <2>2, <2>4 DEF CatalogueInv, RowWell
  <1>4. ASSUME NEW w \in Writers, readRow(w) PROVE CatalogueInv'
    <2> DEFINE refuse == \/ ~Row(w).there
                         \/ NeedsActive(writer[w].op) /\ ~Row(w).active
    <2>1. CASE refuse
      BY <1>4, <2>1, ReplyStep DEF readRow, Places
    <2>2. CASE ~refuse
      <3>1. /\ writer' = [writer EXCEPT ![w].at = "read",
                                        ![w].unit = Row(w).unit]
            /\ UNCHANGED <<listed, uses, catalogue>>
            /\ writer[w].op \in UsesOf[catalogue]
        BY <1>4, <2>2 DEF readRow
      <3>2. /\ writer' \in [Writers -> CallType']
            /\ \A v \in Writers \ {w} : writer'[v] = writer[v]
            /\ writer'[w].op = writer[w].op
            /\ writer'[w].row = writer[w].row
            /\ writer'[w].unit = Row(w).unit
        <4>1. writer'[w] = [writer[w] EXCEPT !.at = "read",
                                             !.unit = Row(w).unit]
          BY <1>2, <3>1
        <4>2. writer[w] \in CallType /\ Row(w).unit \in {"old", "new"}
          BY <1>2 DEF Row, RowType, CallType
        <4>3. writer'[w] \in CallType
          BY <4>1, <4>2 DEF CallType
        <4>4. \A v \in Writers : writer'[v] \in CallType
          BY <1>2, <3>1, <4>3
        <4>5. writer' \in [Writers -> CallType] /\ CallType' = CallType
          BY <1>2, <3>1, <4>4 DEF CallType
        <4>6. /\ writer'[w].op = writer[w].op
              /\ writer'[w].row = writer[w].row
              /\ writer'[w].unit = Row(w).unit
          BY <4>1, <4>2 DEF CallType
        <4> QED
          BY <1>2, <3>1, <4>5, <4>6
      <3>3. CallInv(w)
        BY DEF CatalogueInv
      <3>4. CallInv(w)'
        BY <1>2, <3>1, <3>2, <3>3, OpsDiffer DEF CallInv, CallWell,
             UnitIsRead, UnitIsFree, NameIsFree, NoneRenamed, Reading, Row
      <3> QED
        BY <3>1, <3>2, <3>4, QuietStep DEF SameCall
    <2> QED
      BY <2>1, <2>2
  <1>5. ASSUME NEW w \in Writers, insertReference(w) PROVE CatalogueInv'
    <2> DEFINE refuse == \/ ~Row(w).there
                         \/ catalogue = "product" /\ Used(writer[w].row)
               u == [by |-> w, of |-> writer[w].row, as |-> writer[w].op,
                     unit |-> writer[w].unit, alone |-> Alone(w)]
    <2>1. CASE refuse
      BY <1>5, <2>1, ReplyStep DEF insertReference, Places
    <2>2. CASE ~refuse
      <3>1. /\ uses' = uses \cup {u} /\ Settle(w, "done", Nothing)
            /\ UNCHANGED <<listed, catalogue>>
            /\ writer[w].op \in UsesOf[catalogue] /\ writer[w].at = "read"
            /\ Row(w).there
        BY <1>5, <2>2 DEF insertReference
      <3>2. \A v \in Writers :
              Nothing[v] \subseteq {"row", "name", "serializable name", "rule"}
        BY DEF Nothing
      <3>3. "done" \in Places
        BY DEF Places
      <3> HIDE DEF Nothing
      <3>4. /\ writer' \in [Writers -> CallType']
            /\ writer'[w].op = writer[w].op /\ writer'[w].row = writer[w].row
            /\ writer'[w].at = "done"
            /\ \A v \in Writers \ {w} : SameCall(v)
        BY <1>1, <3>1, <3>2, <3>3, Settled
      <3>5. /\ u.of = writer[w].row /\ u.as = writer[w].op
            /\ u.unit = writer[w].unit /\ u.alone = Alone(w)
            /\ u \in [by : Writers, of : Rows, as : UsesOf[catalogue],
                      unit : {"old", "new"}, alone : BOOLEAN]
        BY <1>2, <3>1 DEF CallType, Alone
      <3> HIDE DEF u
      <3>6. CatalogueTypeOK'
        BY <1>1, <1>2, <3>1, <3>4, <3>5 DEF CatalogueTypeOK, CallType
      <3>7. CallInv(w)
        BY DEF CatalogueInv
      <3>8. NothingLost'
        BY <1>1, <3>1, <3>5 DEF NothingLost, Row
      <3>9. UnitsKept'
        <4>1. Alone(w) => u.unit = listed[u.of].unit
          BY <3>1, <3>5, <3>7 DEF Alone, CallInv, UnitIsRead, Row
        <4> QED
          BY <1>1, <3>1, <3>5, <4>1 DEF UnitsKept
      <3>10. ASSUME NEW v \in Writers \ {w} PROVE CallInv(v)'
        <4>1. CallInv(v) /\ SameCall(v)
          BY <3>4 DEF CatalogueInv
        <4>2. UnitIsFree(v)'
          <5> SUFFICES ASSUME Reading(v, "unit"), NEW x \in uses',
                              x.of = writer[v].row,
                              x.as \in {"stock", "recipe"}, x.alone
                       PROVE  FALSE
            BY <4>1 DEF UnitIsFree, Reading, SameCall
          <5>1. x \notin uses
            BY <4>1 DEF CallInv, UnitIsFree
          <5>2. x = u
            BY <3>1, <5>1
          <5> QED
            BY <3>5, <5>2 DEF Alone, Reading
        <4> QED
          BY <3>1, <4>1, <4>2 DEF CallInv, CallWell, UnitIsRead, NameIsFree,
               NoneRenamed, Reading, SameCall, Row, NameTaken
      <3>11. CallInv(w)'
        BY <3>4, <3>7 DEF CallInv, CallWell, UnitIsRead, UnitIsFree,
             NameIsFree, NoneRenamed, Reading
      <3> QED
        BY <1>1, <3>1, <3>6, <3>8, <3>9, <3>10, <3>11 DEF CatalogueInv,
             CatalogueIsKept, NamesKept, RowWell
    <2> QED
      BY <2>1, <2>2
  <1>6. ASSUME NEW w \in Writers, replaceReorderRules(w) PROVE CatalogueInv'
    <2>1. CASE ~Row(w).there
      BY <1>6, <2>1, ReplyStep DEF replaceReorderRules, Places
    <2>2. CASE Row(w).there
      <3> DEFINE u == [by |-> w, of |-> writer[w].row, as |-> "rule",
                       unit |-> writer[w].unit, alone |-> Alone(w)]
                 news == [v \in Writers |->
                    IF writer[v].row = writer[w].row THEN {"rule"} ELSE {}]
      <3>1. /\ uses' \subseteq uses \cup {u} /\ Settle(w, "done", news)
            /\ UNCHANGED <<listed, catalogue>>
            /\ writer[w].op = "rule"
        BY <1>6, <2>2 DEF replaceReorderRules
      <3>2. \A v \in Writers :
              news[v] \subseteq {"row", "name", "serializable name", "rule"}
        OBVIOUS
      <3>3. "done" \in Places
        BY DEF Places
      <3> HIDE DEF news
      <3>4. /\ writer' \in [Writers -> CallType']
            /\ writer'[w].op = writer[w].op /\ writer'[w].row = writer[w].row
            /\ writer'[w].at = "done"
            /\ \A v \in Writers \ {w} : SameCall(v)
        BY <1>1, <3>1, <3>2, <3>3, Settled
      <3>5. /\ u.of = writer[w].row /\ u.as = "rule"
            /\ u \in [by : Writers, of : Rows, as : UsesOf[catalogue],
                      unit : {"old", "new"}, alone : BOOLEAN]
        <4>1. writer[w].op \in UsesOf[catalogue] \cup Edits[catalogue]
          BY <1>2 DEF CallType
        <4>2. "rule" \in UsesOf[catalogue]
          BY <1>2, <3>1, <4>1, RulesAreUses
        <4> QED
          BY <1>2, <3>1, <4>2 DEF CallType, Alone
      <3> HIDE DEF u
      <3>6. CatalogueTypeOK'
        BY <1>1, <1>2, <3>1, <3>4, <3>5 DEF CatalogueTypeOK, CallType
      <3>7. NothingLost' /\ UnitsKept'
        BY <1>1, <2>2, <3>1, <3>5 DEF NothingLost, UnitsKept, Row
      <3>8. ASSUME NEW v \in Writers \ {w} PROVE CallInv(v)'
        <4>1. CallInv(v) /\ SameCall(v)
          BY <3>4 DEF CatalogueInv
        <4>2. UnitIsFree(v)'
          BY <3>1, <3>5, <4>1 DEF CallInv, UnitIsFree, Reading, SameCall
        <4> QED
          BY <3>1, <4>1, <4>2 DEF CallInv, CallWell, UnitIsRead, NameIsFree,
               NoneRenamed, Reading, SameCall, Row, NameTaken
      <3>9. CallInv(w)'
        BY <3>4 DEF CatalogueInv, CallInv, CallWell, UnitIsRead, UnitIsFree,
             NameIsFree, NoneRenamed, Reading
      <3> QED
        BY <1>1, <3>1, <3>6, <3>7, <3>8, <3>9 DEF CatalogueInv,
             CatalogueIsKept, NamesKept, RowWell
    <2> QED
      BY <2>1, <2>2
  <1> QED
    BY <1>3, <1>4, <1>5, <1>6

LEMMA CatalogueInvNext ==
  CatalogueInv /\ [CatalogueNext]_catalogueVars => CatalogueInv'
  <1> SUFFICES ASSUME CatalogueInv, [CatalogueNext]_catalogueVars
               PROVE  CatalogueInv'
    OBVIOUS
  <1>1. CASE CatalogueNext
    BY <1>1, EditSteps, RemoveSteps, ReferenceSteps DEF CatalogueNext
  <1>2. CASE UNCHANGED catalogueVars
    BY <1>2 DEF catalogueVars, CatalogueInv, CatalogueIsKept,
         CatalogueTypeOK, NothingLost, UnitsKept, NamesKept, RowWell, CallInv,
         CallWell, UnitIsRead, UnitIsFree, NameIsFree, NoneRenamed, Reading,
         Row, NameTaken
  <1> QED
    BY <1>1, <1>2

(* However creations, updates, removals and insertions of references       *)
(* overlap, no reference is left without its row, nothing that did not     *)
(* overlap with a change of unit is in another unit than its ingredient,   *)
(* and no name is given twice except by the overlaps NamesKept admits.     *)
THEOREM CatalogueKept == CatalogueSpec => []CatalogueIsKept
  <1>1. CatalogueInv => CatalogueIsKept
    BY DEF CatalogueInv
  <1> QED
    BY <1>1, CatalogueInvInit, CatalogueInvNext, PTL DEF CatalogueSpec
HIDE CatalogueConstants DEF Rows
-----------------------------------------------------------------------------
(***************************************************************************)
(* The platform's settings.                                                *)
(***************************************************************************)

(* A page that shows the version of the row shows the row, and none shows  *)
(* a version that is still to come.                                        *)
PagesInv ==
    \A c \in Admins :
        /\ page[c].version <= setting.version
        /\ page[c].version = setting.version => page[c] = setting

SettingInv == SettingTypeOK /\ PagesInv
-----------------------------------------------------------------------------
(* Nothing is set and every page shows the default.                        *)
LEMMA SettingInvInit == SettingInit => SettingInv
  BY SettingAssumption
  DEF SettingInit, SettingInv, SettingTypeOK, PagesInv, Setting, Unset

(* A write raises the version above that of every page.                    *)
LEMMA SettingInvNext == SettingInv /\ [SettingNext]_settingVars => SettingInv'
  <1> SUFFICES ASSUME SettingInv, [SettingNext]_settingVars PROVE SettingInv'
    OBVIOUS
  <1> USE SettingAssumption DEF SettingInv, SettingTypeOK, PagesInv, Setting
  <1>1. ASSUME NEW c \in Admins, list(c) \/ findSetting(c) PROVE SettingInv'
    BY <1>1 DEF list, findSetting
  <1>2. ASSUME NEW c \in Admins, NEW value \in SettingValues,
               writeSetting(c, value)
        PROVE  SettingInv'
    BY <1>2 DEF writeSetting, StillCurrent, NextVersion
  <1>3. CASE UNCHANGED settingVars
    BY <1>3 DEF settingVars
  <1> QED BY <1>1, <1>2, <1>3 DEF SettingNext

(***************************************************************************)
(* For every number of administrators and updates: whoever changes a       *)
(* setting was shown the very value the change replaces                    *)
(* (PlatformSettingsService.update compares the version twice).            *)
(***************************************************************************)
THEOREM SettingKept == SettingSpec => SettingIsKept
  <1>1. SettingInv => SettingTypeOK
    BY DEF SettingInv
  <1>2. SettingInv /\ [SettingNext]_settingVars =>
          [setting' # setting =>
             \E c \in updating \ updating' : page[c] = setting]_settingVars
    BY DEF SettingInv, SettingTypeOK, PagesInv, Setting, SettingNext, list,
           findSetting, writeSetting, StillCurrent
  <1> QED
    BY <1>1, <1>2, SettingInvInit, SettingInvNext, PTL
    DEF SettingSpec, SettingIsKept, NoLostUpdate
-----------------------------------------------------------------------------
(***************************************************************************)
(* The history of a job.                                                   *)
(***************************************************************************)

(* One "active" event per attempt, then the outcome of the job.            *)
Ended == jobState \in {"completed", "failed"}
StreamIsTold ==
    /\ Len(jobEvents) = IF Ended THEN made + 1 ELSE made
    /\ \A i \in 1..made : jobEvents[i] = "active"
    /\ Ended => made >= 1 /\ jobEvents[made + 1] = jobState
    /\ jobState = "waiting" => made < MaxAttempts
    /\ jobState = "active" => made >= 1
    /\ jobState = "failed" => made = MaxAttempts

(* A process counts no more attempts than it has heard of, the one it is   *)
(* recording included.                                                     *)
Counts(p) ==
    /\ position[p] <= Len(jobEvents) + 1
    /\ jobSnapshot[p] <= attemptNumbers[p]
    /\ IF p \in recording
       THEN /\ position[p] \in 1..made
            /\ attemptNumbers[p] \in 1..position[p]
       ELSE /\ attemptNumbers[p] <= position[p]
            /\ attemptNumbers[p] # 0 => attemptNumbers[p] < position[p]

(* While nothing was lost, every row that looks unfinished is remembered   *)
(* by a process that has the end of the job still to hear of.              *)
Remembered(k, p) ==
    /\ jobSnapshot[p] = k
    /\ p \notin recording
    /\ position[p] <= made + 1
ActiveIsRemembered ==
    restarts = 0 /\ dbFaults = 0 =>
        \A k \in Attempts :
            rows[k] = "ACTIVE" => \E p \in Listeners : Remembered(k, p)

(* And while no process found the job gone either, all of them count       *)
(* alike, and a row is missing only as long as all have it still to hear.  *)
Exact(p) ==
    position[p] <= made + 1 =>
        /\ position[p] = jobSnapshot[p] + 1
        /\ attemptNumbers[p] = IF p \in recording THEN position[p]
                                                  ELSE jobSnapshot[p]
RowIsTrue(k) ==
    /\ rows[k] = "none" => \A p \in Listeners : position[p] <= k
    /\ k < made => rows[k] \in {"none", "ACTIVE", "RETRYING"}
    /\ k = made => \/ rows[k] \in {"none", "ACTIVE"}
                   \/ rows[k] = "COMPLETED" /\ jobState = "completed"
                   \/ rows[k] = "FAILED" /\ jobState = "failed"
RowsAreTrue ==
    restarts = 0 /\ dbFaults = 0 /\ unread = {} =>
        /\ \A p \in Listeners : Exact(p)
        /\ \A k \in 1..made : RowIsTrue(k)

JobInv ==
    /\ JobTypeOK
    /\ StreamIsTold
    /\ \A p \in Listeners : Counts(p)
    /\ RowsWereMade
    /\ ActiveIsRemembered
    /\ RowsAreTrue
-----------------------------------------------------------------------------
USE JobConstants DEF Attempts, JobRow, Ended

(* Nothing has happened yet.                                               *)
LEMMA JobInvInit == JobInit => JobInv
  BY DEF JobInit, JobInv, JobTypeOK, StreamIsTold, Counts, RowsWereMade,
         ActiveIsRemembered, RowsAreTrue, Exact

(* A process hears of a start at an attempt that was made, and of the end  *)
(* after all of them.                                                      *)
LEMMA HeardWhere ==
  ASSUME JobInv, NEW p \in Listeners, NEW e, Hears(p, e)
  PROVE  /\ e = "active" => position[p] \in 1..made
         /\ e # "active" => position[p] = made + 1 /\ jobState = e
         /\ p \notin recording
         /\ attemptNumbers[p] <= position[p] - 1
         /\ jobSnapshot[p] <= attemptNumbers[p]
  <1>1. /\ made \in Nat /\ position[p] \in Nat
        /\ attemptNumbers[p] \in Nat /\ jobSnapshot[p] \in Nat
    BY DEF JobInv, JobTypeOK
  <1>2. /\ position[p] \in 1..made => e = "active"
        /\ position[p] \in 1..made \/ (position[p] = made + 1 /\ Ended)
    BY <1>1 DEF JobInv, StreamIsTold, Hears
  <1>3. position[p] = made + 1 => e = jobState /\ e # "active"
    BY <1>1, <1>2 DEF JobInv, StreamIsTold, Hears
  <1> QED
    BY <1>1, <1>2, <1>3 DEF JobInv, Counts, Hears

(* The queue's own steps: the events stay, and the attempt that starts has *)
(* no row yet.                                                             *)
LEMMA QueueStep ==
  ASSUME JobInv, jobStarts \/ jobEnds
  PROVE  JobInv'
  <1>1. JobTypeOK
    BY DEF JobInv
  <1>2. StreamIsTold
    BY DEF JobInv
  <1>3. /\ made' \in Nat /\ made' >= made /\ made' <= made + 1
        /\ UNCHANGED <<memoryVars, rows, unread, restarts, dbFaults>>
        /\ Len(jobEvents') >= Len(jobEvents)
    BY <1>1 DEF jobStarts, jobEnds, JobTypeOK
  <1>a. /\ jobEvents \in Seq({"active", "completed", "failed"})
        /\ Len(jobEvents) \in Nat /\ made \in Nat
    BY <1>1 DEF JobTypeOK
  <1>b. ASSUME jobStarts PROVE JobTypeOK' /\ StreamIsTold'
    <2>1. /\ made' = made + 1 /\ jobState' = "active" /\ ~Ended
          /\ jobEvents' = Append(jobEvents, "active")
          /\ Len(jobEvents) = made /\ made < MaxAttempts
      BY <1>b, <1>2 DEF jobStarts, StreamIsTold
    <2>2. jobEvents' \in Seq({"active", "completed", "failed"})
      BY <1>a, <2>1
    <2>3. JobTypeOK'
      BY <1>1, <1>3, <1>a, <2>1, <2>2 DEF JobTypeOK, memoryVars
    <2>4. Len(jobEvents') = made'
      BY <1>a, <2>1
    <2>5. \A i \in 1..made' : jobEvents'[i] = "active"
      BY <1>a, <1>2, <2>1 DEF StreamIsTold
    <2>6. StreamIsTold'
      BY <1>a, <2>1, <2>4, <2>5 DEF StreamIsTold
    <2> QED
      BY <2>3, <2>6
  <1>c. ASSUME jobEnds PROVE JobTypeOK' /\ StreamIsTold'
    <2>1. /\ made' = made /\ jobState = "active"
          /\ Len(jobEvents) = made /\ made >= 1
      BY <1>c, <1>2 DEF jobEnds, StreamIsTold
    <2>2. CASE jobState' = "waiting" /\ made < MaxAttempts /\ UNCHANGED jobEvents
      BY <1>1, <1>2, <1>3, <2>1, <2>2 DEF JobTypeOK, StreamIsTold, memoryVars
    <2>3. ASSUME NEW e \in {"completed", "failed"}, jobState' = e,
                 jobEvents' = Append(jobEvents, e),
                 e = "failed" => made = MaxAttempts
          PROVE  JobTypeOK' /\ StreamIsTold'
      <3>1. jobEvents' \in Seq({"active", "completed", "failed"})
        BY <1>a, <2>3
      <3>2. JobTypeOK'
        BY <1>1, <1>3, <2>1, <2>3, <3>1 DEF JobTypeOK, memoryVars
      <3>3. Len(jobEvents') = made' + 1 /\ jobEvents'[made' + 1] = e
        BY <1>a, <2>1, <2>3
      <3>4. \A i \in 1..made' : jobEvents'[i] = "active"
        BY <1>a, <1>2, <2>1, <2>3 DEF StreamIsTold
      <3> QED
        BY <2>1, <2>3, <3>2, <3>3, <3>4 DEF StreamIsTold
    <2> QED
      BY <1>c, <2>2, <2>3 DEF jobEnds
  <1>4. JobTypeOK' /\ StreamIsTold'
    BY <1>b, <1>c
  <1>6. ASSUME NEW p \in Listeners PROVE Counts(p)'
    <2>1. Counts(p)
      BY DEF JobInv
    <2>2. position[p] \in Nat /\ attemptNumbers[p] \in Nat
      BY <1>1 DEF JobTypeOK
    <2>3. Len(jobEvents) \in Nat /\ Len(jobEvents') \in Nat
      BY <1>1, <1>4 DEF JobTypeOK
    <2> QED
      BY <1>3, <1>a, <2>1, <2>2, <2>3 DEF Counts, memoryVars
  <1>7. RowsWereMade'
    BY <1>1, <1>3 DEF JobInv, RowsWereMade, JobTypeOK
  <1>8. ActiveIsRemembered'
    BY <1>1, <1>3 DEF JobInv, ActiveIsRemembered, Remembered, JobTypeOK,
                      memoryVars
  <1>9. RowsAreTrue'
    <2> SUFFICES ASSUME restarts = 0, dbFaults = 0, unread = {}
                 PROVE  /\ \A p \in Listeners : Exact(p)'
                        /\ \A k \in 1..made' : RowIsTrue(k)'
      BY <1>3 DEF RowsAreTrue
    <2>1. \A p \in Listeners : Exact(p)
      BY DEF JobInv, RowsAreTrue
    <2>2. \A p \in Listeners : position[p] <= made + 1 /\ Exact(p)'
      BY <1>1, <1>2, <1>3, <2>1 DEF JobInv, Counts, Exact, JobTypeOK,
           memoryVars, jobStarts, jobEnds, StreamIsTold
    <2>3. ASSUME NEW k \in 1..made' PROVE RowIsTrue(k)'
      <3>1. CASE k \in 1..made
        <4>1. RowIsTrue(k)
          BY <3>1 DEF JobInv, RowsAreTrue
        <4> QED
          BY <1>1, <1>3, <3>1, <4>1 DEF RowIsTrue, memoryVars, jobStarts,
                                        jobEnds, JobTypeOK
      <3>2. CASE k \notin 1..made
        <4>1. k = made + 1 /\ k \in Attempts /\ k = made'
          BY <1>1, <1>3, <1>4, <3>2 DEF JobTypeOK
        <4>2. rows[k] = "none"
          BY <1>1, <4>1 DEF JobInv, RowsWereMade, JobTypeOK
        <4> QED
          BY <1>1, <1>3, <2>2, <4>1, <4>2 DEF RowIsTrue, memoryVars, JobTypeOK
      <3> QED
        BY <3>1, <3>2
    <2> QED
      BY <2>2, <2>3
  <1> QED
    BY <1>4, <1>6, <1>7, <1>8, <1>9 DEF JobInv

(* What a write does to the rows.                                          *)
LEMMA RowWritten ==
  ASSUME JobTypeOK, NEW k, NEW s \in JobRow,
         \/ UNCHANGED <<rows, dbFaults>> \/ persistFails
         \/ k \in Attempts /\ persistExecution(k, s)
  PROVE  /\ rows' \in [Attempts -> JobRow]
         /\ dbFaults' \in 0..MaxDbFaults
  <1>1. rows \in [Attempts -> JobRow] /\ dbFaults \in 0..MaxDbFaults
    BY DEF JobTypeOK
  <1>2. CASE UNCHANGED <<rows, dbFaults>>
    BY <1>1, <1>2
  <1>3. CASE persistFails
    BY <1>1, <1>3 DEF persistFails
  <1>4. CASE k \in Attempts /\ persistExecution(k, s)
    BY <1>1, <1>4 DEF persistExecution
  <1> QED
    BY <1>2, <1>3, <1>4

(* The event is behind the process.                                        *)
LEMMA HandledOne ==
  ASSUME JobTypeOK, NEW p \in Listeners, Handled(p)
  PROVE  /\ position' \in [Listeners -> Nat]
         /\ position'[p] = position[p] + 1
  <1>1. position \in [Listeners -> Nat] /\ position[p] + 1 \in Nat
    BY DEF JobTypeOK
  <1> QED
    BY <1>1 DEF Handled

(* A step of a process, once its counters are known to be right: the       *)
(* queue and the other processes stay.                                     *)
LEMMA ListenerTypes ==
  ASSUME JobInv, NEW p \in Listeners,
         \/ handleActive(p) \/ persistActive(p) \/ jobGone(p)
         \/ handleCompleted(p) \/ handleFailed(p)
         \/ listenerDies(p) \/ attachQueue(p)
  PROVE  /\ JobTypeOK' /\ StreamIsTold'
         /\ \A q \in Listeners : Counts(q)'
         /\ RowsWereMade'
  <1>1. JobTypeOK /\ StreamIsTold /\ RowsWereMade
    BY DEF JobInv
  <1>2. \A q \in Listeners : Counts(q)
    BY DEF JobInv
  <1>3. /\ made \in 1..MaxAttempts \/ made = 0
        /\ position[p] \in Nat /\ attemptNumbers[p] \in 0..MaxAttempts
        /\ jobSnapshot[p] \in 0..MaxAttempts /\ Len(jobEvents) \in Nat
    BY <1>1 DEF JobTypeOK
  <1>4. UNCHANGED <<jobState, made, jobEvents>>
    BY DEF handleActive, persistActive, jobGone, handleCompleted,
           handleFailed, listenerDies, attachQueue, queueVars
  <1>5. ASSUME handleActive(p)
        PROVE  JobTypeOK' /\ Counts(p)' /\ RowsWereMade'
    <2>1. /\ position[p] \in 1..made /\ p \notin recording
          /\ attemptNumbers[p] <= position[p] - 1
          /\ jobSnapshot[p] <= attemptNumbers[p]
      BY <1>5, HeardWhere DEF handleActive
    <2>2. attemptNumbers[p] + 1 \in 1..MaxAttempts
      BY <1>3, <2>1
    <2>a. rows' \in [Attempts -> JobRow] /\ dbFaults' \in 0..MaxDbFaults
      BY <1>1, <1>3, <1>5, RowWritten DEF handleActive
    <2>b. /\ attemptNumbers' = [attemptNumbers EXCEPT ![p] = @ + 1]
          /\ UNCHANGED <<jobSnapshot, unread, restarts>>
          /\ \/ UNCHANGED position /\ recording' = recording \cup {p}
             \/ Handled(p) /\ UNCHANGED recording
      BY <1>5 DEF handleActive
    <2>c. /\ attemptNumbers' \in [Listeners -> 0..MaxAttempts]
          /\ attemptNumbers'[p] = attemptNumbers[p] + 1
      BY <1>1, <2>2, <2>b DEF JobTypeOK
    <2>d. /\ position' \in [Listeners -> Nat] /\ recording' \subseteq Listeners
          /\ \/ position'[p] = position[p] /\ p \in recording'
             \/ position'[p] = position[p] + 1 /\ p \notin recording'
      BY <1>1, <2>1, <2>b, HandledOne DEF JobTypeOK
    <2>3. JobTypeOK'
      BY <1>1, <1>4, <2>a, <2>b, <2>c, <2>d DEF JobTypeOK
    <2>4. Counts(p)'
      <3>1. position[p] <= Len(jobEvents)
        BY <1>5 DEF handleActive, Hears
      <3> QED
        BY <1>3, <1>4, <2>1, <2>b, <2>c, <2>d, <3>1 DEF Counts
    <2>5. RowsWereMade'
      BY <1>1, <1>3, <1>4, <1>5, <2>1 DEF RowsWereMade, handleActive,
           persistExecution, persistFails, JobTypeOK
    <2> QED
      BY <2>3, <2>4, <2>5
  <1>6. ASSUME persistActive(p)
        PROVE  JobTypeOK' /\ Counts(p)' /\ RowsWereMade'
    <2>1. p \in recording /\ position[p] \in 1..made
          /\ attemptNumbers[p] \in 1..position[p]
      BY <1>2, <1>6 DEF persistActive, Counts
    <2>3. JobTypeOK'
      BY <1>1, <1>4, <1>6 DEF JobTypeOK, persistActive, persistExecution,
           persistFails, Handled
    <2>4. Counts(p)'
      BY <1>1, <1>2, <1>3, <1>4, <1>6, <2>1 DEF JobTypeOK, persistActive,
           Handled, Counts, StreamIsTold
    <2>5. RowsWereMade'
      BY <1>1, <1>3, <1>4, <1>6, <2>1 DEF RowsWereMade, persistActive,
           persistExecution, persistFails, JobTypeOK
    <2> QED
      BY <2>3, <2>4, <2>5
  <1>7. ASSUME jobGone(p)
        PROVE  JobTypeOK' /\ Counts(p)' /\ RowsWereMade'
    <2>1. /\ position[p] \in 1..made /\ p \notin recording
          /\ attemptNumbers[p] <= position[p] - 1
      BY <1>7, HeardWhere DEF jobGone
    <2> QED
      BY <1>1, <1>2, <1>3, <1>4, <1>7, <2>1 DEF JobTypeOK, jobGone, Handled,
           Counts, StreamIsTold, RowsWereMade
  <1>8. ASSUME handleCompleted(p) \/ handleFailed(p)
        PROVE  JobTypeOK' /\ Counts(p)' /\ RowsWereMade'
    <2>1. /\ position[p] = made + 1 /\ p \notin recording /\ Ended
          /\ attemptNumbers[p] <= position[p] - 1
          /\ jobSnapshot[p] <= attemptNumbers[p]
          /\ Len(jobEvents) = made + 1
      BY <1>1, <1>8, HeardWhere DEF handleCompleted, handleFailed, StreamIsTold
    <2>2. /\ \/ Remembers \/ Forgets(p)
          /\ Handled(p) /\ UNCHANGED <<recording, unread, restarts>>
          /\ \/ UNCHANGED <<rows, dbFaults>>
             \/ persistFails
             \/ /\ jobSnapshot[p] # 0
                /\ \E s \in JobRow : persistExecution(jobSnapshot[p], s)
      BY <1>8 DEF handleCompleted, handleFailed, FailedStatus
    <2>a. /\ rows' \in [Attempts -> JobRow] /\ dbFaults' \in 0..MaxDbFaults
      BY <1>1, <1>3, <2>2, RowWritten
    <2>b. /\ attemptNumbers' \in [Listeners -> 0..MaxAttempts]
          /\ jobSnapshot' \in [Listeners -> 0..MaxAttempts]
      <3>1. /\ attemptNumbers \in [Listeners -> 0..MaxAttempts]
            /\ jobSnapshot \in [Listeners -> 0..MaxAttempts]
            /\ 0 \in 0..MaxAttempts
        BY <1>1 DEF JobTypeOK
      <3>2. CASE Remembers
        BY <3>1, <3>2 DEF Remembers
      <3>3. CASE Forgets(p)
        BY <3>1, <3>3 DEF Forgets
      <3> QED
        BY <2>2, <3>2, <3>3
    <2>3. JobTypeOK'
      BY <1>1, <1>4, <2>2, <2>a, <2>b, HandledOne DEF JobTypeOK
    <2>4. Counts(p)'
      BY <1>1, <1>2, <1>3, <1>4, <2>1, <2>2 DEF JobTypeOK, Handled, Counts,
           Remembers, Forgets
    <2>5. RowsWereMade'
      <3>1. rows \in [Attempts -> JobRow]
        BY <1>1 DEF JobTypeOK
      <3>2. rows' = rows \/ \E s \in JobRow :
              /\ jobSnapshot[p] # 0
              /\ rows' = [rows EXCEPT ![jobSnapshot[p]] = s]
        BY <2>2 DEF persistExecution, persistFails
      <3>3. jobSnapshot[p] <= made
        BY <1>3, <2>1
      <3> QED
        BY <1>1, <1>4, <3>1, <3>2, <3>3 DEF RowsWereMade
    <2> QED
      BY <2>3, <2>4, <2>5
  <1>9. ASSUME listenerDies(p) \/ attachQueue(p)
        PROVE  JobTypeOK' /\ Counts(p)' /\ RowsWereMade'
    <2>1. JobTypeOK'
      <3>1. CASE listenerDies(p)
        BY <1>1, <1>4, <3>1 DEF JobTypeOK, listenerDies, Forgets
      <3>2. CASE attachQueue(p)
        <4>1. position' \in [Listeners -> Nat]
          BY <1>1, <1>3, <3>2 DEF attachQueue, JobTypeOK
        <4> QED
          BY <1>1, <1>4, <3>2, <4>1 DEF JobTypeOK, attachQueue
      <3> QED
        BY <1>9, <3>1, <3>2
    <2>2. Counts(p)'
      BY <1>1, <1>2, <1>3, <1>4, <1>9 DEF JobTypeOK, listenerDies,
           attachQueue, Forgets, Counts
    <2> QED
      BY <1>1, <1>4, <1>9, <2>1, <2>2 DEF RowsWereMade, listenerDies,
                                          attachQueue
  <1>10. \A q \in Listeners \ {p} :
            /\ position'[q] = position[q]
            /\ attemptNumbers'[q] = attemptNumbers[q]
            /\ jobSnapshot'[q] = jobSnapshot[q]
            /\ q \in recording' <=> q \in recording
    BY <1>1 DEF JobTypeOK, handleActive, persistActive, jobGone,
           handleCompleted, handleFailed, listenerDies, attachQueue, Handled,
           Forgets, Remembers
  <1>11. \A q \in Listeners \ {p} : Counts(q)'
    BY <1>2, <1>4, <1>10 DEF Counts
  <1>12. StreamIsTold'
    BY <1>1, <1>4 DEF StreamIsTold
  <1> QED
    BY <1>5, <1>6, <1>7, <1>8, <1>9, <1>11, <1>12

(* Whoever remembers an unfinished row rewrites it before forgetting it.   *)
LEMMA ListenerRemembers ==
  ASSUME JobInv, NEW p \in Listeners,
         \/ handleActive(p) \/ persistActive(p) \/ jobGone(p)
         \/ handleCompleted(p) \/ handleFailed(p)
         \/ listenerDies(p) \/ attachQueue(p)
  PROVE  ActiveIsRemembered'
  <1> SUFFICES ASSUME restarts' = 0, dbFaults' = 0, NEW k \in Attempts,
                      rows'[k] = "ACTIVE"
               PROVE  \E q \in Listeners : Remembered(k, q)'
    BY DEF ActiveIsRemembered
  <1>1. JobTypeOK /\ StreamIsTold /\ Counts(p)
    BY DEF JobInv
  <1>2. /\ made \in Nat /\ position[p] \in Nat /\ k # 0
        /\ attemptNumbers[p] \in 0..MaxAttempts
        /\ jobSnapshot[p] \in 0..MaxAttempts /\ made' = made
    BY <1>1 DEF JobTypeOK, handleActive, persistActive, jobGone,
         handleCompleted, handleFailed, listenerDies, attachQueue, queueVars
  <1>3. /\ restarts = 0 /\ dbFaults = 0
        /\ ~persistFails /\ ~listenerDies(p)
    BY <1>1 DEF handleActive, persistActive, jobGone, handleCompleted,
         handleFailed, listenerDies, attachQueue, JobTypeOK, persistFails,
         persistExecution
  <1>4. ASSUME NEW q \in Listeners, q # p, Remembered(k, q)
        PROVE  Remembered(k, q)'
    BY <1>1, <1>2, <1>4 DEF Remembered, JobTypeOK, handleActive,
         persistActive, jobGone, handleCompleted, handleFailed, listenerDies,
         attachQueue, Handled, Forgets, Remembers
  <1>5. rows[k] = "ACTIVE" => \E q \in Listeners : Remembered(k, q)
    BY <1>3 DEF JobInv, ActiveIsRemembered
  <1>6. CASE handleActive(p)
    BY <1>1, <1>2, <1>3, <1>4, <1>5, <1>6 DEF handleActive, persistExecution,
         JobTypeOK, Remembered
  <1>7. CASE persistActive(p)
    <2>1. position[p] \in 1..made /\ p \in recording
      BY <1>1, <1>7 DEF persistActive, Counts
    <2>2. CASE k = attemptNumbers[p]
      <3>1. Remembered(k, p)'
        BY <1>1, <1>2, <1>7, <2>1, <2>2 DEF persistActive, Remembered,
             Handled, JobTypeOK
      <3> QED
        BY <3>1
    <2>3. CASE k # attemptNumbers[p]
      <3>1. rows[k] = "ACTIVE"
        BY <1>1, <1>3, <1>7, <2>3 DEF persistActive, persistExecution,
             JobTypeOK
      <3> QED
        BY <1>4, <1>5, <2>1, <3>1 DEF Remembered
    <2> QED
      BY <2>2, <2>3
  <1>8. CASE jobGone(p)
    <2>1. position[p] \in 1..made
      BY <1>8, HeardWhere DEF jobGone
    <2>2. Remembered(k, p) => Remembered(k, p)'
      BY <1>1, <1>2, <1>8, <2>1 DEF jobGone, Remembered, Handled, JobTypeOK
    <2> QED
      BY <1>4, <1>5, <1>8, <2>2 DEF jobGone
  <1>9. CASE handleCompleted(p) \/ handleFailed(p)
    <2>1. rows[k] = "ACTIVE" /\ jobSnapshot[p] # k
      BY <1>1, <1>2, <1>3, <1>9 DEF handleCompleted, handleFailed,
           persistExecution, FailedStatus, JobTypeOK
    <2> QED
      BY <1>4, <1>5, <2>1 DEF Remembered
  <1>10. CASE attachQueue(p)
    <2>1. jobSnapshot[p] = 0
      BY <1>1, <1>2, <1>10 DEF attachQueue, Counts
    <2> QED
      BY <1>2, <1>4, <1>5, <1>10, <2>1 DEF Remembered, attachQueue
  <1> QED
    BY <1>3, <1>6, <1>7, <1>8, <1>9, <1>10

(* Processes that lost nothing count alike, so a row only moves on.        *)
LEMMA ListenerIsExact ==
  ASSUME JobInv, NEW p \in Listeners,
         \/ handleActive(p) \/ persistActive(p) \/ jobGone(p)
         \/ handleCompleted(p) \/ handleFailed(p)
         \/ listenerDies(p) \/ attachQueue(p)
  PROVE  RowsAreTrue'
  <1> SUFFICES ASSUME restarts' = 0, dbFaults' = 0, unread' = {}
               PROVE  /\ \A q \in Listeners : Exact(q)'
                      /\ \A k \in 1..made' : RowIsTrue(k)'
    BY DEF RowsAreTrue
  <1>1. JobTypeOK /\ StreamIsTold /\ Counts(p)
    BY DEF JobInv
  <1>2. /\ made \in 0..MaxAttempts /\ position[p] \in Nat
        /\ attemptNumbers[p] \in 0..MaxAttempts
        /\ jobSnapshot[p] \in 0..MaxAttempts
        /\ UNCHANGED <<made, jobState>>
    BY <1>1 DEF JobTypeOK, handleActive, persistActive, jobGone,
         handleCompleted, handleFailed, listenerDies, attachQueue, queueVars
  <1>3. /\ restarts = 0 /\ dbFaults = 0 /\ unread = {}
        /\ ~persistFails /\ ~listenerDies(p) /\ ~jobGone(p)
    BY <1>1 DEF handleActive, persistActive, jobGone, handleCompleted,
         handleFailed, listenerDies, attachQueue, JobTypeOK, persistFails,
         persistExecution
  <1>4. /\ \A q \in Listeners : Exact(q)
        /\ \A k \in 1..made : RowIsTrue(k)
    BY <1>3 DEF JobInv, RowsAreTrue
  <1>5. ~attachQueue(p)
    BY <1>2, <1>4 DEF attachQueue, Exact
  <1>6. \A q \in Listeners \ {p} :
           position'[q] = position[q] /\ (Exact(q) => Exact(q)')
    BY <1>1, <1>2 DEF Exact, JobTypeOK, handleActive, persistActive, jobGone,
         handleCompleted, handleFailed, listenerDies, attachQueue, Handled,
         Forgets, Remembers
  <1>7. /\ rows \in [Attempts -> JobRow]
        /\ \A k \in 1..made : k \in Attempts
    BY <1>1, <1>2 DEF JobTypeOK
  <1>8. CASE handleActive(p)
    <2>1. position[p] \in 1..made /\ p \notin recording
      BY <1>8, HeardWhere DEF handleActive
    <2>2. /\ position[p] = jobSnapshot[p] + 1
          /\ attemptNumbers[p] = jobSnapshot[p]
      BY <1>2, <1>4, <2>1 DEF Exact
    <2>3. /\ position' = position
          /\ Exact(p)'
      BY <1>1, <1>2, <1>3, <1>8, <2>1, <2>2 DEF Exact, handleActive, JobTypeOK
    <2>4. ASSUME NEW k \in 1..made PROVE RowIsTrue(k)'
      <3>1. RowIsTrue(k)
        BY <1>4
      <3>2. \/ rows' = rows
            \/ rows' = [rows EXCEPT ![jobSnapshot[p]] = "RETRYING"]
        BY <1>3, <1>8 DEF handleActive, persistExecution
      <3>3. jobSnapshot[p] < made
        BY <1>2, <2>1, <2>2
      <3> QED
        BY <1>2, <1>7, <2>3, <3>1, <3>2, <3>3 DEF RowIsTrue
    <2> QED
      BY <1>2, <1>4, <1>6, <2>3, <2>4
  <1>9. CASE persistActive(p)
    <2>1. p \in recording /\ position[p] \in 1..made
      BY <1>1, <1>9 DEF persistActive, Counts
    <2>2. attemptNumbers[p] = position[p]
      BY <1>2, <1>4, <2>1 DEF Exact
    <2>3. /\ position'[p] = position[p] + 1 /\ Exact(p)'
          /\ rows' = [rows EXCEPT ![position[p]] = "ACTIVE"]
      BY <1>1, <1>2, <1>3, <1>9, <2>1, <2>2 DEF Exact, persistActive,
           JobTypeOK, Handled, persistExecution
    <2>4. ASSUME NEW k \in 1..made PROVE RowIsTrue(k)'
      <3>1. RowIsTrue(k)
        BY <1>4
      <3>2. CASE k = position[p]
        BY <1>2, <1>7, <2>3, <3>2 DEF RowIsTrue
      <3>3. CASE k # position[p]
        <4>1. rows'[k] = rows[k]
          BY <1>7, <2>3, <3>3
        <4>2. rows[k] = "none" => \A q \in Listeners : position'[q] <= k
          BY <1>2, <1>6, <2>3, <3>1, <3>3 DEF RowIsTrue
        <4> QED
          BY <1>2, <3>1, <4>1, <4>2 DEF RowIsTrue
      <3> QED
        BY <3>2, <3>3
    <2> QED
      BY <1>2, <1>4, <1>6, <2>3, <2>4
  <1>10. CASE handleCompleted(p) \/ handleFailed(p)
    <2>1. /\ position[p] = made + 1 /\ p \notin recording /\ made >= 1
          /\ handleCompleted(p) => jobState = "completed"
          /\ handleFailed(p) => jobState = "failed" /\ made = MaxAttempts
      BY <1>1, <1>10, HeardWhere DEF handleCompleted, handleFailed,
                                     StreamIsTold
    <2>2. jobSnapshot[p] = made
      BY <1>2, <1>4, <2>1 DEF Exact
    <2>3. position'[p] = made + 2 /\ Exact(p)'
      BY <1>1, <1>2, <1>10, <2>1 DEF Exact, handleCompleted, handleFailed,
           Handled, JobTypeOK
    <2>4. \E s \in {"COMPLETED", "FAILED"} :
            /\ rows' = [rows EXCEPT ![made] = s]
            /\ s = "COMPLETED" => jobState = "completed"
            /\ s = "FAILED" => jobState = "failed"
      BY <1>2, <1>3, <1>10, <2>1, <2>2 DEF handleCompleted, handleFailed,
           persistExecution, FailedStatus
    <2>5. ASSUME NEW k \in 1..made PROVE RowIsTrue(k)'
      <3>1. RowIsTrue(k)
        BY <1>4
      <3>2. rows[k] # "none"
        BY <1>2, <2>1, <3>1 DEF RowIsTrue
      <3> QED
        BY <1>2, <1>7, <2>4, <3>1, <3>2 DEF RowIsTrue
    <2> QED
      BY <1>2, <1>4, <1>6, <2>3, <2>5
  <1> QED
    BY <1>3, <1>5, <1>8, <1>9, <1>10

LEMMA JobInvNext == JobInv /\ [JobNext]_jobVars => JobInv'
  <1> SUFFICES ASSUME JobInv, [JobNext]_jobVars PROVE JobInv'
    OBVIOUS
  <1>1. ASSUME NEW p \in Listeners,
               \/ handleActive(p) \/ persistActive(p) \/ jobGone(p)
               \/ handleCompleted(p) \/ handleFailed(p)
               \/ listenerDies(p) \/ attachQueue(p)
        PROVE  JobInv'
    BY <1>1, ListenerTypes, ListenerRemembers, ListenerIsExact DEF JobInv
  <1>2. CASE UNCHANGED jobVars
    BY <1>2 DEF jobVars, queueVars, memoryVars, JobInv, JobTypeOK,
         StreamIsTold, Counts, RowsWereMade, ActiveIsRemembered, Remembered,
         RowsAreTrue, Exact, RowIsTrue
  <1> QED
    BY <1>1, <1>2, QueueStep DEF JobNext

(* The history a retried job leaves is what happened to it, whichever      *)
(* process wrote which row: JobInv holds in every state, and once all have *)
(* heard of the end no row is left out or left unfinished.                 *)
THEOREM HistoryReliable == JobSpec => []HistoryIsReliable
  <1>1. JobInv => HistoryIsReliable
    <2> SUFFICES ASSUME JobInv, CaughtUp, restarts = 0, dbFaults = 0
                 PROVE  /\ \A k \in Attempts : rows[k] # "ACTIVE"
                        /\ unread = {} =>
                             \A k \in Attempts :
                               /\ k < made => rows[k] = "RETRYING"
                               /\ k = made => \/ /\ jobState = "completed"
                                                 /\ rows[k] = "COMPLETED"
                                              \/ /\ jobState = "failed"
                                                 /\ rows[k] = "FAILED"
                               /\ k > made => rows[k] = "none"
      BY DEF JobInv, HistoryIsReliable, HistoryIsTrue, NoneLeftActive,
             JobTypeOK
    <2>1. made \in 0..MaxAttempts /\ \A p \in Listeners : position[p] = made + 2
      BY DEF JobInv, JobTypeOK, StreamIsTold, CaughtUp
    <2>2. \A k \in Attempts : rows[k] # "ACTIVE"
      BY <2>1 DEF JobInv, ActiveIsRemembered, Remembered
    <2>3. ASSUME unread = {}, NEW k \in Attempts, k <= made
          PROVE  rows[k] # "none" /\ RowIsTrue(k)
      BY <2>1, <2>3 DEF JobInv, RowsAreTrue, RowIsTrue
    <2>4. \A k \in Attempts : k > made => rows[k] = "none"
      BY <2>1 DEF JobInv, RowsWereMade
    <2> QED
      BY <2>1, <2>2, <2>3, <2>4 DEF RowIsTrue
  <1> QED
    BY <1>1, JobInvInit, JobInvNext, PTL DEF JobSpec
-----------------------------------------------------------------------------
HIDE JobConstants DEF Attempts, JobRow, Ended

(***************************************************************************)
(* The domain events and their subscribers.                                *)
(***************************************************************************)

(* What the orchestrator publishes for an event.                           *)
Derived(type) == UNION {Range(next) : next \in Follows(type)}

(* In the delivery under way, subscriber h has had the event, and the      *)
(* orchestrator has carried out what follows from it.                      *)
Told(h, type) ==
    \E j \in Steps(h) : trail[j].delivery = delivery /\ trail[j].type = type
CarriedOut(type) ==
    \E j \in Steps("orchestrator") :
        /\ trail[j].delivery = delivery /\ trail[j].type = type
        /\ trail[j].did

(* The first call publishes what the service publishes, the second runs    *)
(* the handlers of one of those events and publishes what follows from it, *)
(* the third runs the handlers of such an event, and none goes deeper.     *)
FrameInv(i) ==
    LET f == stack[i] IN
    /\ f.left \subseteq Handlers(f.type)
    /\ f.next \in Seq(EventTypes)
    /\ i = 1 => /\ f.left = {} /\ f.type = "none"
                /\ Range(f.next) \subseteq Range(published.types)
    /\ i = 2 => /\ f.type \in Range(published.types)
                /\ \A t \in Range(f.next) :
                     /\ f.type \in Orchestrated /\ t \in Derived(f.type)
                     /\ CarriedOut(f.type)
    /\ i = 3 => /\ f.next = <<>>
                /\ \E type \in Orchestrated :
                     f.type \in Derived(type) /\ CarriedOut(type)
    /\ f.type \in Audited => "audit" \in f.left \/ Told("audit", f.type)

(* An event of the service that a subscriber has not had is still to be    *)
(* published, or its turn is still to come.                                *)
StillToTell(h, type) ==
    /\ outcome = "running"
    /\ \/ type \in Range(stack[1].next)
       \/ Len(stack) >= 2 /\ stack[2].type = type /\ h \in stack[2].left
HeardInv ==
    outcome \in {"running", "returned"} =>
        \A type \in Range(published.types),
           h \in Subscribers \ {"orchestrator"} :
              type \in SubscribedTo[h] =>
                Told(h, type) \/ StillToTell(h, type)

OutletKnown ==
    published.outlet # NoOutlet =>
        \E s \in Sockets : s.tenantId = Tenant /\ s.outletId = published.outlet

FrameType ==
    [type : EventTypes \cup {"none"}, left : SUBSET Subscribers,
     next : Seq(EventTypes)]
StepType ==
    [delivery : Nat, type : EventTypes, by : Subscribers, did : BOOLEAN]

FanoutInv ==
    /\ stack \in Seq(FrameType) /\ trail \in Seq(StepType)
    /\ FanoutTypeOK /\ AuditedFirst /\ CauseFirst /\ OwnTenantOnly
    /\ subscribed \in SubscriptionOrders /\ OutletKnown
    /\ stack # <<>> <=> outcome = "running"
    /\ outcome = "running" => delivery > 0
    /\ \A i \in DOMAIN stack : FrameInv(i)
    /\ HeardInv
-----------------------------------------------------------------------------
(* The tables.  Nothing that follows from an order is published by a       *)
(* service, follows from another order or is heard by the orchestrator.    *)
LEMMA Names ==
  /\ Subscribers = {"audit", "notification", "realtime", "metrics",
                    "orchestrator"}
  /\ SubscribedTo["audit"] = Audited
  /\ SubscribedTo["orchestrator"] = Orchestrated
  /\ \A h \in Subscribers : SubscribedTo[h] \subseteq EventTypes
  <1>1. Orchestrated \subseteq EventTypes
    BY DEF Orchestrated, EventTypes, SalesEvents
  <1>2. Audited \subseteq EventTypes
    BY DEF Audited, AuditedOrders, AuditedBusiness, EventTypes, SalesEvents,
         PurchaseEvents
  <1>3. Notified \subseteq EventTypes
    BY DEF Notified, EventTypes, SalesEvents, PurchaseEvents
  <1>4. Forwarded \subseteq EventTypes
    BY DEF Forwarded, ForwardedOperations, ForwardedAdministration,
         EventTypes
  <1> QED
    BY <1>1, <1>2, <1>3, <1>4 DEF Subscribers, SubscribedTo

LEMMA NotNamed == "none" \notin EventTypes
  BY DEF EventTypes, SalesEvents, PurchaseEvents, TransferEvents,
       KitchenEvents, FlagEvents, BusinessEvents, AdminEvents,
       SubscriptionEvents, InvoiceEvents

LEMMA RangeOfTuples ==
  /\ \A a : Range(<<a>>) = {a}
  /\ \A a, b : Range(<<a, b>>) = {a, b}
  /\ \A a, b, c : Range(<<a, b, c>>) = {a, b, c}
  BY DEF Range

LEMMA InDerived ==
  ASSUME NEW type, NEW t
  PROVE  t \in Derived(type) <=> \E next \in Follows(type) : t \in Range(next)
  BY DEF Derived

LEMMA NotEmpty ==
  ASSUME NEW S, NEW s \in Seq(S), s # <<>>
  PROVE  Len(s) \in Nat /\ Len(s) >= 1 /\ DOMAIN s = 1..Len(s)
  OBVIOUS

LEMMA DerivedAre ==
  /\ Derived("ORDER_CREATED") = {"ORDER_RESERVED", "SALES_ORDER_CONFIRMED"}
  /\ Derived("ORDER_PAYMENT_SUCCESS") =
       {"ORDER_FULFILLMENT_STARTED", "SALES_ORDER_COMPLETED",
        "SALES_ORDER_COMPLETED_V2"}
  <1>1. Follows("ORDER_CREATED") =
          {<<"ORDER_RESERVED", "SALES_ORDER_CONFIRMED">>}
    BY DEF Follows
  <1>2. Follows("ORDER_PAYMENT_SUCCESS") =
          {<<"ORDER_FULFILLMENT_STARTED">>,
           <<"ORDER_FULFILLMENT_STARTED", "SALES_ORDER_COMPLETED",
             "SALES_ORDER_COMPLETED_V2">>}
    BY DEF Follows
  <1>3. \A type, t : t \in Derived(type)
                        <=> \E next \in Follows(type) : t \in Range(next)
    BY InDerived
  <1>4. \A t : t \in Derived("ORDER_CREATED")
                 <=> t \in {"ORDER_RESERVED", "SALES_ORDER_CONFIRMED"}
    <2> DEFINE x == <<"ORDER_RESERVED", "SALES_ORDER_CONFIRMED">>
    <2>1. Range(x) = {"ORDER_RESERVED", "SALES_ORDER_CONFIRMED"}
      BY RangeOfTuples
    <2>2. Follows("ORDER_CREATED") = {x}
      BY <1>1
    <2> HIDE DEF x
    <2> QED
      BY <1>3, <2>1, <2>2
  <1>5. \A t : t \in Derived("ORDER_PAYMENT_SUCCESS")
                 <=> t \in {"ORDER_FULFILLMENT_STARTED",
                            "SALES_ORDER_COMPLETED",
                            "SALES_ORDER_COMPLETED_V2"}
    <2> DEFINE x == <<"ORDER_FULFILLMENT_STARTED">>
               y == <<"ORDER_FULFILLMENT_STARTED", "SALES_ORDER_COMPLETED",
                      "SALES_ORDER_COMPLETED_V2">>
    <2>1. /\ Range(x) = {"ORDER_FULFILLMENT_STARTED"}
          /\ Range(y) = {"ORDER_FULFILLMENT_STARTED",
                         "SALES_ORDER_COMPLETED", "SALES_ORDER_COMPLETED_V2"}
      BY RangeOfTuples
    <2>2. Follows("ORDER_PAYMENT_SUCCESS") = {x, y}
      BY <1>2
    <2> HIDE DEF x, y
    <2> QED
      BY <1>3, <2>1, <2>2
  <1> QED
    BY <1>4, <1>5

LEMMA DerivedApart ==
  /\ \A type \in Orchestrated : \A t \in Derived(type) :
       t \in EventTypes /\ t \notin Orchestrated
  /\ \A a, b \in Orchestrated : \A t : t \in Derived(a) /\ t \in Derived(b)
       => a = b
  BY DerivedAre DEF Orchestrated, EventTypes, SalesEvents

LEMMA FollowsAre ==
  ASSUME NEW type \in Orchestrated, NEW next \in Follows(type)
  PROVE  next \in Seq(EventTypes) /\ Range(next) \subseteq Derived(type)
  <1>1. next \in Seq(EventTypes)
    <2>1. SalesEvents \subseteq EventTypes
      BY DEF EventTypes
    <2>2. \/ next = <<"ORDER_RESERVED", "SALES_ORDER_CONFIRMED">>
          \/ next = <<"ORDER_FULFILLMENT_STARTED">>
          \/ next = <<"ORDER_FULFILLMENT_STARTED", "SALES_ORDER_COMPLETED",
                      "SALES_ORDER_COMPLETED_V2">>
      BY DEF Follows
    <2>3. {"ORDER_RESERVED", "SALES_ORDER_CONFIRMED",
           "ORDER_FULFILLMENT_STARTED", "SALES_ORDER_COMPLETED",
           "SALES_ORDER_COMPLETED_V2"} \subseteq EventTypes
      BY <2>1 DEF SalesEvents
    <2> QED
      BY <2>2, <2>3
  <1> QED
    BY <1>1 DEF Derived

LEMMA PublishedAre ==
  ASSUME NEW types \in Direct \cup Outboxed
  PROVE  /\ types \in Seq(EventTypes)
         /\ \A type \in Orchestrated : \A t \in Derived(type) :
              t \notin Range(types)
  <1>1. CASE types = <<"ORDER_CREATED", "SALES_ORDER_CREATED">>
    BY <1>1, RangeOfTuples, DerivedAre DEF Orchestrated, EventTypes,
       SalesEvents
  <1>2. CASE \E t \in KitchenEvents \cup FlagEvents \cup PurchaseEvents
                \cup TransferEvents \cup BusinessEvents \cup AdminEvents
                \cup SubscriptionEvents \cup InvoiceEvents
                \cup {"ORDER_PAYMENT_SUCCESS", "SALES_ORDER_PAID",
                      "ORDER_RESERVATION_EXPIRED"} : types = <<t>>
    <2>1. PICK t \in KitchenEvents \cup FlagEvents \cup PurchaseEvents
                \cup TransferEvents \cup BusinessEvents \cup AdminEvents
                \cup SubscriptionEvents \cup InvoiceEvents
                \cup {"ORDER_PAYMENT_SUCCESS", "SALES_ORDER_PAID",
                      "ORDER_RESERVATION_EXPIRED"} : types = <<t>>
      BY <1>2
    <2>2. t \in EventTypes
      BY DEF EventTypes, SalesEvents
    <2>3. \A type \in Orchestrated : t \notin Derived(type)
      BY DerivedAre DEF Orchestrated, KitchenEvents, FlagEvents,
         PurchaseEvents, TransferEvents, BusinessEvents, AdminEvents,
         SubscriptionEvents, InvoiceEvents
    <2> QED
      BY <2>1, <2>2, <2>3, RangeOfTuples
  <1> QED
    BY <1>1, <1>2 DEF Direct, Outboxed, PurchaseEvents
-----------------------------------------------------------------------------
LEMMA FanoutInvInit == FanoutInit => FanoutInv
  <1> SUFFICES ASSUME FanoutInit PROVE FanoutInv
    OBVIOUS
  <1>0. PICK ts \in Direct \cup Outboxed : \E o \in OutletsOf(ts) :
          published = [types |-> ts, outlet |-> o]
    BY DEF FanoutInit
  <1>1. PICK o \in OutletsOf(ts) : published = [types |-> ts, outlet |-> o]
    BY <1>0
  <1>2. published.types \in Direct \cup Outboxed /\ published.outlet = o
    BY <1>1
  <1>3. OutletKnown
    BY <1>1, <1>2 DEF OutletsOf, OutletKnown
  <1>4. FanoutTypeOK
    BY <1>2, FanoutConstants DEF FanoutInit, FanoutTypeOK,
       SubscriptionOrders, Bijection, Injection
  <1>5. /\ trail = <<>> /\ stack = <<>> /\ outcome = "called"
        /\ inbox = [s \in Sockets |-> {}] /\ subscribed \in SubscriptionOrders
    BY DEF FanoutInit
  <1>6. AuditedFirst /\ CauseFirst /\ OwnTenantOnly
    BY <1>5 DEF AuditedFirst, CauseFirst, OwnTenantOnly
  <1> QED
    BY <1>3, <1>4, <1>5, <1>6 DEF FanoutInv, HeardInv
-----------------------------------------------------------------------------
(* A step adds to the trail, and what a subscriber has had it keeps.       *)
Grown ==
    /\ DOMAIN trail \subseteq DOMAIN trail'
    /\ \A j \in DOMAIN trail : trail'[j] = trail[j]

LEMMA StillTold ==
  ASSUME Grown, delivery' = delivery
  PROVE  /\ \A h, type : Told(h, type) => Told(h, type)'
         /\ \A type : CarriedOut(type) => CarriedOut(type)'
  BY DEF Grown, Told, CarriedOut, Steps

LEMMA TrailGrows ==
  ASSUME trail \in Seq(StepType), AuditedFirst, CauseFirst,
         NEW e \in StepType, trail' = Append(trail, e),
         e.delivery = delivery,
         e.by # "audit" /\ e.type \in Audited => Told("audit", e.type),
         \A type \in Orchestrated :
            e.type \in Derived(type) => CarriedOut(type)
  PROVE  /\ trail' \in Seq(StepType) /\ Grown
         /\ AuditedFirst' /\ CauseFirst'
         /\ Len(trail) + 1 \in DOMAIN trail' /\ trail'[Len(trail) + 1] = e
  <1>1. /\ trail' \in Seq(StepType) /\ Grown
        /\ Len(trail) + 1 \in DOMAIN trail' /\ trail'[Len(trail) + 1] = e
        /\ DOMAIN trail = 1..Len(trail) /\ Len(trail) \in Nat
        /\ DOMAIN trail' = 1..(Len(trail) + 1)
    BY DEF Grown
  <1>2. ASSUME NEW i \in DOMAIN trail'
        PROVE  i \in DOMAIN trail \/ i = Len(trail) + 1
    BY <1>1, <1>2
  <1>3. AuditedFirst'
    <2> SUFFICES ASSUME NEW i \in DOMAIN trail', trail'[i].by # "audit",
                        trail'[i].type \in Audited
                 PROVE  Before(i, "audit", trail[i].type)'
      BY DEF AuditedFirst
    <2>1. CASE i \in DOMAIN trail
      <3>1. PICK j \in Steps("audit") :
              /\ j < i /\ trail[j].delivery = trail[i].delivery
              /\ trail[j].type = trail[i].type
        BY <1>1, <2>1 DEF AuditedFirst, Before, Grown
      <3> QED
        BY <1>1, <2>1, <3>1 DEF Before, Steps, Grown
    <2>2. CASE i = Len(trail) + 1
      <3>1. PICK j \in Steps("audit") :
              trail[j].delivery = delivery /\ trail[j].type = e.type
        BY <1>1, <2>2 DEF Told
      <3> QED
        BY <1>1, <2>2, <3>1 DEF Before, Steps, Grown
    <2> QED
      BY <1>2, <2>1, <2>2
  <1>4. CauseFirst'
    <2> SUFFICES ASSUME NEW i \in DOMAIN trail', NEW type \in Orchestrated,
                        trail'[i].type \in Derived(type)
                 PROVE  \E j \in Steps("orchestrator")' :
                          /\ j < i /\ trail'[j].delivery = trail'[i].delivery
                          /\ trail'[j].type = type /\ trail'[j].did
      BY InDerived DEF CauseFirst
    <2>1. CASE i \in DOMAIN trail
      <3>1. trail[i].type \in Derived(type)
        BY <1>1, <2>1 DEF Grown
      <3>2. PICK j \in Steps("orchestrator") :
              /\ j < i /\ trail[j].delivery = trail[i].delivery
              /\ trail[j].type = type /\ trail[j].did
        BY <2>1, <3>1, InDerived DEF CauseFirst
      <3> QED
        BY <1>1, <2>1, <3>2 DEF Steps, Grown
    <2>2. CASE i = Len(trail) + 1
      <3>1. PICK j \in Steps("orchestrator") :
              /\ trail[j].delivery = delivery /\ trail[j].type = type
              /\ trail[j].did
        BY <1>1, <2>2 DEF CarriedOut
      <3> QED
        BY <1>1, <2>2, <3>1 DEF Steps, Grown
    <2> QED
      BY <1>2, <2>1, <2>2
  <1> QED
    BY <1>1, <1>3, <1>4

(* What a step leaves of the calls under way stays as it was.              *)
LEMMA FrameKept ==
  ASSUME NEW i, FrameInv(i), stack'[i] = stack[i], published' = published,
         delivery' = delivery, Grown
  PROVE  FrameInv(i)'
  <1>1. /\ \A h, type : Told(h, type) => Told(h, type)'
        /\ \A type : CarriedOut(type) => CarriedOut(type)'
    BY StillTold
  <1> QED
    BY <1>1 DEF FrameInv

(* The subscriber whose turn it is: of the calls under way the innermost   *)
(* runs it, and the audit trail comes before all others.                   *)
LEMMA TurnOf ==
  ASSUME FanoutInv, NEW h, NextHandler(h)
  PROVE  /\ Len(stack) \in 2..3 /\ Len(stack) \in DOMAIN stack
         /\ FrameInv(Len(stack)) /\ h \in Subscribers
         /\ Type \in EventTypes /\ Type \in SubscribedTo[h]
         /\ h # "audit" /\ Type \in Audited => Told("audit", Type)
         /\ \A type \in Orchestrated :
              Type \in Derived(type) => Len(stack) = 3 /\ CarriedOut(type)
         /\ Len(stack) = 3 => Type \notin Orchestrated
         /\ Top = stack[Len(stack)] /\ Type = Top.type /\ h \in Top.left
  <1>1. /\ stack \in Seq(FrameType) /\ Len(stack) <= 3 /\ stack # <<>>
        /\ \A i \in DOMAIN stack : FrameInv(i)
        /\ published.types \in Direct \cup Outboxed
    BY DEF FanoutInv, FanoutTypeOK, NextHandler
  <1>2. Len(stack) \in 1..3 /\ Len(stack) \in DOMAIN stack
    <2>1. /\ Len(stack) \in Nat /\ Len(stack) >= 1
          /\ DOMAIN stack = 1..Len(stack)
      BY <1>1, NotEmpty
    <2> QED
      BY <1>1, <2>1
  <1>3. /\ FrameInv(Len(stack)) /\ h \in Top.left /\ Type = Top.type
        /\ Top = stack[Len(stack)]
    BY <1>1, <1>2 DEF NextHandler, Type, Top
  <1>4. h \in Handlers(Type)
    BY <1>3 DEF FrameInv
  <1>5. h \in Subscribers /\ Type \in SubscribedTo[h] /\ Type \in EventTypes
    BY <1>4, Names DEF Handlers
  <1>6. Len(stack) # 1
    BY <1>3 DEF FrameInv
  <1>7. ASSUME h # "audit", Type \in Audited PROVE Told("audit", Type)
    <2>1. "audit" \notin Top.left
      <3> SUFFICES ASSUME "audit" \in Top.left PROVE FALSE
        OBVIOUS
      <3>1. /\ subscribed \in [Subscribers -> 1..5]
            /\ subscribed["audit"] = 1 /\ IsInjective(subscribed)
        BY DEF FanoutInv, SubscriptionOrders, Bijection, Injection
      <3>2. subscribed[h] <= 1
        BY <3>1 DEF NextHandler
      <3>3. subscribed[h] = subscribed["audit"]
        BY <1>5, <3>1, <3>2
      <3> QED
        BY <1>5, <1>7, <3>1, <3>3, Names DEF IsInjective
    <2> QED
      BY <1>3, <1>7, <2>1 DEF FrameInv
  <1>8. ASSUME NEW type \in Orchestrated, Type \in Derived(type)
        PROVE  Len(stack) = 3 /\ CarriedOut(type)
    <2>1. Len(stack) # 2
      BY <1>1, <1>3, <1>8, PublishedAre DEF FrameInv
    <2>2. Len(stack) = 3
      BY <1>2, <1>6, <2>1
    <2>3. PICK other \in Orchestrated :
            Type \in Derived(other) /\ CarriedOut(other)
      BY <1>3, <2>2 DEF FrameInv
    <2>4. other = type
      BY <1>8, <2>3, DerivedApart
    <2> QED
      BY <2>2, <2>3, <2>4
  <1>9. Len(stack) = 3 => Type \notin Orchestrated
    BY <1>3, DerivedApart DEF FrameInv
  <1> QED
    BY <1>2, <1>3, <1>5, <1>6, <1>7, <1>8, <1>9
-----------------------------------------------------------------------------
(* A subscriber has its turn, and the orchestrator may then publish what   *)
(* follows from the order it has carried out.                              *)
Handles(h, next) ==
    /\ NextHandler(h) /\ Continue(h, next)
    /\ \/ \E ok \in BOOLEAN : Did(h, ok)
       \/ h = "orchestrator" /\ next = <<>> /\ UNCHANGED trail
    /\ \/ next = <<>>
       \/ /\ h = "orchestrator" /\ Type \in Orchestrated
          /\ next \in Follows(Type) /\ Did(h, TRUE)

(* What the actions besides the handlers of sockets leave alone or do not  *)
(* disturb.                                                                *)
Elsewhere ==
    /\ subscribed' = subscribed /\ published' = published
    /\ socket' \in [Sockets -> {"away", "connected", "gone"}]
    /\ OwnTenantOnly'

LEMMA Turned ==
  ASSUME FanoutInv, NEW h, NextHandler(h), NEW ok \in BOOLEAN, Did(h, ok),
         delivery' = delivery, NEW type, type = Type
  PROVE  /\ trail' \in Seq(StepType) /\ Grown
         /\ AuditedFirst' /\ CauseFirst'
         /\ Told(h, type)'
         /\ \A i \in DOMAIN trail' : trail'[i].delivery \in 1..delivery
         /\ h = "orchestrator" /\ ok => CarriedOut(type)'
  <1>1. /\ trail \in Seq(StepType) /\ AuditedFirst /\ CauseFirst
        /\ delivery \in Nat /\ delivery > 0
        /\ \A i \in DOMAIN trail : trail[i].delivery \in 1..delivery
    <2>1. \A i \in DOMAIN trail :
            trail[i] \in [delivery : 1..delivery, type : EventTypes,
                          by : Subscribers, did : BOOLEAN]
      BY DEF FanoutInv, FanoutTypeOK
    <2>2. delivery \in 0..MaxDeliveries
      BY DEF FanoutInv, FanoutTypeOK
    <2> QED
      BY <2>1, <2>2, FanoutConstants DEF FanoutInv, NextHandler
  <1> DEFINE e == [delivery |-> delivery, type |-> Type, by |-> h,
                   did |-> ok]
  <1>2. /\ h \in Subscribers /\ Type \in EventTypes
        /\ h # "audit" /\ Type \in Audited => Told("audit", Type)
        /\ \A t \in Orchestrated : Type \in Derived(t) => CarriedOut(t)
    BY TurnOf
  <1>3. /\ e \in StepType /\ trail' = Append(trail, e)
        /\ e.delivery = delivery /\ e.by = h /\ e.type = Type /\ e.did = ok
    BY <1>1, <1>2 DEF Did, StepType
  <1> HIDE DEF e
  <1>4. /\ trail' \in Seq(StepType) /\ Grown
        /\ AuditedFirst' /\ CauseFirst'
        /\ Len(trail) + 1 \in DOMAIN trail' /\ trail'[Len(trail) + 1] = e
    BY <1>1, <1>2, <1>3, TrailGrows
  <1>5. \A i \in DOMAIN trail' : i \in DOMAIN trail \/ i = Len(trail) + 1
    BY <1>1, <1>3
  <1>6. \A i \in DOMAIN trail' : trail'[i].delivery \in 1..delivery
    BY <1>1, <1>3, <1>4, <1>5 DEF Grown
  <1> QED
    BY <1>3, <1>4, <1>6 DEF Told, CarriedOut, Steps

(* Sequences of calls.                                                     *)
LEMMA ExceptAt ==
  ASSUME NEW S, NEW s \in Seq(S), NEW n \in DOMAIN s, NEW f \in S,
         NEW t, t = [s EXCEPT ![n] = f]
  PROVE  /\ t \in Seq(S) /\ Len(t) = Len(s) /\ DOMAIN t = DOMAIN s
         /\ t[n] = f /\ \A i \in DOMAIN s : i # n => t[i] = s[i]
  OBVIOUS

LEMMA FrameIn ==
  ASSUME NEW s \in Seq(FrameType), NEW i \in DOMAIN s
  PROVE  s[i].left \subseteq Subscribers /\ s[i].next \in Seq(EventTypes)
  <1>1. s[i] \in FrameType
    OBVIOUS
  <1> QED
    BY <1>1 DEF FrameType

LEMMA HandlerStep ==
  ASSUME FanoutInv, NEW h, NEW next, Handles(h, next), Elsewhere
  PROVE  FanoutInv'
  <1>0. PICK n, type, f : n = Len(stack) /\ type = Type
                          /\ f = Frame(Type, Top.left \ {h}, next)
    OBVIOUS
  <1>1. /\ n \in 2..3 /\ n \in DOMAIN stack /\ FrameInv(n)
        /\ h \in Subscribers /\ type \in EventTypes
        /\ type \in SubscribedTo[h]
        /\ \A t \in Orchestrated : type \in Derived(t) => n = 3
        /\ n = 3 => type \notin Orchestrated
        /\ Top = stack[n] /\ type = Top.type /\ h \in Top.left
    BY <1>0, TurnOf DEF Handles
  <1>2. /\ stack \in Seq(FrameType) /\ DOMAIN stack = 1..n /\ n <= 3
        /\ delivery \in 0..MaxDeliveries /\ delivery > 0
        /\ \A i \in DOMAIN stack : FrameInv(i)
        /\ published.types \in Direct \cup Outboxed
        /\ Top.left \subseteq Subscribers
        /\ outcome = "running" /\ HeardInv /\ OutletKnown
        /\ subscribed \in SubscriptionOrders
        /\ subscribed \in [Subscribers -> 1..5]
        /\ trail \in Seq(StepType) /\ AuditedFirst /\ CauseFirst
    BY <1>0, <1>1 DEF FanoutInv, FanoutTypeOK, Handles, NextHandler,
       FrameType
  <1>3. /\ stack' = [stack EXCEPT ![n] = f]
        /\ UNCHANGED <<subscribed, published, outcome, delivery, socket>>
    BY <1>0 DEF Handles, Continue
  <1>4. /\ f.type = type /\ f.left = Top.left \ {h} /\ f.next = next
    BY <1>0 DEF Frame
  <1>5. next \in Seq(EventTypes) /\ Range(next) \subseteq Derived(type)
        /\ (next # <<>> => h = "orchestrator" /\ type \in Orchestrated)
    <2>1. CASE next = <<>>
      BY <2>1 DEF Range
    <2>2. CASE /\ h = "orchestrator" /\ type \in Orchestrated
               /\ next \in Follows(type)
      BY <2>2, FollowsAre
    <2> QED
      BY <1>0, <2>1, <2>2 DEF Handles
  <1>6. f \in FrameType
    BY <1>0, <1>1, <1>2, <1>5 DEF Frame, FrameType
  <1>7. /\ trail' \in Seq(StepType) /\ Grown /\ AuditedFirst' /\ CauseFirst'
        /\ \A i \in DOMAIN trail' : trail'[i].delivery \in 1..delivery
        /\ h # "orchestrator" => Told(h, type)'
        /\ next # <<>> => CarriedOut(type)'
    <2>1. CASE UNCHANGED trail /\ h = "orchestrator" /\ next = <<>>
      <3>1. Grown
        BY <2>1 DEF Grown
      <3>2. AuditedFirst' /\ CauseFirst'
        BY <1>2, <2>1 DEF AuditedFirst, CauseFirst, Before, Steps
      <3>3. \A i \in DOMAIN trail : trail[i].delivery \in 1..delivery
        BY DEF FanoutInv, FanoutTypeOK
      <3> QED
        BY <1>2, <2>1, <3>1, <3>2, <3>3
    <2>2. CASE \E ok \in BOOLEAN : Did(h, ok)
      <3>1. PICK ok \in BOOLEAN : Did(h, ok) /\ (next # <<>> => ok)
        <4>1. CASE next = <<>>
          BY <2>2, <4>1
        <4>2. CASE next # <<>>
          BY <4>2 DEF Handles
        <4> QED
          BY <4>1, <4>2
      <3>2. NextHandler(h) /\ delivery' = delivery
        BY <1>3 DEF Handles
      <3>3. /\ trail' \in Seq(StepType) /\ Grown
            /\ AuditedFirst' /\ CauseFirst' /\ Told(h, type)'
            /\ \A i \in DOMAIN trail' : trail'[i].delivery \in 1..delivery
            /\ h = "orchestrator" /\ ok => CarriedOut(type)'
        BY <1>0, <3>1, <3>2, Turned
      <3> QED
        BY <1>5, <3>1, <3>3
    <2> QED
      BY <2>1, <2>2 DEF Handles
  <1>8. /\ stack' \in Seq(FrameType) /\ Len(stack') = n
        /\ DOMAIN stack' = 1..n /\ stack'[n] = f
        /\ \A i \in 1..n : i # n => stack'[i] = stack[i]
    BY <1>1, <1>2, <1>3, <1>6, ExceptAt
  <1>9. /\ \A g, t : Told(g, t) => Told(g, t)'
        /\ \A t : CarriedOut(t) => CarriedOut(t)'
    BY <1>3, <1>7, StillTold
  <1>10. ASSUME NEW i \in DOMAIN stack' PROVE FrameInv(i)'
    <2>1. CASE i # n
      BY <1>2, <1>3, <1>7, <1>8, <2>1, FrameKept
    <2>2. CASE i = n
      <3>1. f.left \subseteq Handlers(type)
        BY <1>1, <1>4 DEF FrameInv
      <3>2. type \in Audited => "audit" \in f.left \/ Told("audit", type)'
        BY <1>1, <1>4, <1>7, <1>9 DEF FrameInv
      <3>3. n = 2 => /\ type \in Range(published.types)
                     /\ \A t \in Range(next) :
                          /\ type \in Orchestrated /\ t \in Derived(type)
                          /\ CarriedOut(type)'
        <4>1. \A t \in Range(next) : next # <<>>
          BY DEF Range
        <4> QED
          BY <1>1, <1>5, <1>7, <4>1 DEF FrameInv
      <3>4. n = 3 => /\ next = <<>>
                     /\ \E t \in Orchestrated :
                          type \in Derived(t) /\ CarriedOut(t)'
        BY <1>1, <1>5, <1>9 DEF FrameInv
      <3> QED
        BY <1>1, <1>3, <1>4, <1>5, <1>8, <2>2, <3>1, <3>2, <3>3, <3>4
        DEF FrameInv
    <2> QED
      BY <2>1, <2>2
  <1>11. HeardInv'
    <2> SUFFICES ASSUME NEW t \in Range(published.types),
                        NEW g \in Subscribers \ {"orchestrator"},
                        t \in SubscribedTo[g], ~Told(g, t)'
                 PROVE  StillToTell(g, t)'
      BY <1>3 DEF HeardInv
    <2>1. StillToTell(g, t)
      BY <1>2, <1>9 DEF HeardInv
    <2>2. CASE t \in Range(stack[1].next)
      BY <1>1, <1>2, <1>3, <1>8, <2>2 DEF StillToTell
    <2>3. CASE stack[2].type = t /\ g \in stack[2].left /\ n = 3
      BY <1>0, <1>2, <1>3, <1>8, <2>3 DEF StillToTell
    <2>4. CASE stack[2].type = t /\ g \in stack[2].left /\ n = 2
      <3>1. g # h
        BY <1>1, <1>7, <2>4
      <3> QED
        BY <1>1, <1>2, <1>3, <1>4, <1>8, <2>4, <3>1 DEF StillToTell
    <2> QED
      BY <1>1, <2>1, <2>2, <2>3, <2>4, <1>0 DEF StillToTell
  <1>12. FanoutTypeOK'
    <2>1. \A i \in DOMAIN stack' : stack'[i].left \subseteq Subscribers
      BY <1>8, FrameIn
    <2>2. \A i \in DOMAIN trail' :
            trail'[i] \in [delivery : 1..delivery, type : EventTypes,
                           by : Subscribers, did : BOOLEAN]
      <3>1. \A i \in DOMAIN trail' : trail'[i] \in StepType
        BY <1>7
      <3> QED
        BY <1>7, <3>1 DEF StepType
    <2> QED
      BY <1>2, <1>3, <1>8, <2>1, <2>2 DEF FanoutTypeOK, Elsewhere
  <1>13. OutletKnown'
    BY <1>2, <1>3 DEF OutletKnown
  <1>14. stack' # <<>>
    BY <1>1, <1>8
  <1> QED
    BY <1>2, <1>3, <1>7, <1>8, <1>10, <1>11, <1>12, <1>13, <1>14
    DEF FanoutInv, Elsewhere
-----------------------------------------------------------------------------
LEMMA HeadAndTail ==
  ASSUME NEW S, NEW s \in Seq(S), s # <<>>
  PROVE  /\ Head(s) \in S /\ Tail(s) \in Seq(S)
         /\ Range(s) = {Head(s)} \cup Range(Tail(s))
  <1>1. /\ Len(s) \in Nat /\ Len(s) >= 1 /\ DOMAIN s = 1..Len(s)
    BY NotEmpty
  <1>2. /\ Head(s) = s[1] /\ Head(s) \in S /\ Tail(s) \in Seq(S)
        /\ DOMAIN Tail(s) = 1..(Len(s) - 1)
        /\ \A i \in 1..(Len(s) - 1) : Tail(s)[i] = s[i + 1]
    BY <1>1
  <1>3. Range(s) \subseteq {Head(s)} \cup Range(Tail(s))
    <2> SUFFICES ASSUME NEW i \in DOMAIN s, i # 1
                 PROVE  \E j \in DOMAIN Tail(s) : Tail(s)[j] = s[i]
      BY <1>2 DEF Range
    <2>1. i - 1 \in 1..(Len(s) - 1) /\ (i - 1) + 1 = i
      BY <1>1
    <2> QED
      BY <1>2, <2>1
  <1>4. {Head(s)} \cup Range(Tail(s)) \subseteq Range(s)
    <2>1. s[1] \in Range(s)
      BY <1>1 DEF Range
    <2>2. ASSUME NEW j \in 1..(Len(s) - 1) PROVE Tail(s)[j] \in Range(s)
      <3>1. j + 1 \in DOMAIN s
        BY <1>1
      <3> QED
        BY <1>2, <3>1 DEF Range
    <2> QED
      BY <1>2, <2>1, <2>2 DEF Range
  <1> QED
    BY <1>2, <1>3, <1>4

LEMMA AppendAt ==
  ASSUME NEW S, NEW s \in Seq(S), NEW f \in S, NEW t, t = Append(s, f)
  PROVE  /\ t \in Seq(S) /\ Len(t) = Len(s) + 1
         /\ DOMAIN t = 1..(Len(s) + 1)
         /\ t[Len(s) + 1] = f /\ \A i \in DOMAIN s : t[i] = s[i]
  OBVIOUS

LEMMA FrontAt ==
  ASSUME NEW S, NEW s \in Seq(S), s # <<>>
  PROVE  /\ Front(s) \in Seq(S) /\ Len(Front(s)) = Len(s) - 1
         /\ DOMAIN Front(s) = 1..(Len(s) - 1)
         /\ \A i \in DOMAIN Front(s) : Front(s)[i] = s[i]
  <1>1. /\ Len(s) \in Nat /\ Len(s) >= 1 /\ DOMAIN s = 1..Len(s)
    BY NotEmpty
  <1> QED
    BY <1>1 DEF Front

(* A step that leaves the trail, or only the calls, alone.                 *)
LEMMA TrailKept ==
  ASSUME FanoutInv, UNCHANGED <<trail, delivery>>
  PROVE  /\ Grown /\ AuditedFirst' /\ CauseFirst' /\ trail' \in Seq(StepType)
         /\ \A i \in DOMAIN trail' :
              trail'[i] \in [delivery : 1..delivery', type : EventTypes,
                             by : Subscribers, did : BOOLEAN]
         /\ delivery' \in 0..MaxDeliveries
         /\ \A g, t : Told(g, t)' <=> Told(g, t)
  BY DEF Grown, FanoutInv, FanoutTypeOK, AuditedFirst, CauseFirst, Before,
     Steps, Told

LEMMA PublishStep ==
  ASSUME FanoutInv, publish
  PROVE  FanoutInv'
  <1>0. PICK n, type, top, new :
          /\ n = Len(stack) /\ top = stack[Len(stack)]
          /\ type = Head(top.next) /\ new = Frame(type, Handlers(type), <<>>)
    OBVIOUS
  <1>1. /\ stack \in Seq(FrameType) /\ n \in Nat /\ n <= 3 /\ n >= 1
        /\ DOMAIN stack = 1..n /\ FrameInv(n) /\ top \in FrameType
        /\ \A i \in DOMAIN stack : FrameInv(i)
        /\ published.types \in Direct \cup Outboxed
        /\ outcome = "running" /\ HeardInv /\ OutletKnown
        /\ subscribed \in SubscriptionOrders
        /\ subscribed \in [Subscribers -> 1..5]
        /\ socket \in [Sockets -> {"away", "connected", "gone"}]
        /\ OwnTenantOnly /\ delivery > 0
    <2>1. /\ stack \in Seq(FrameType) /\ stack # <<>> /\ Len(stack) <= 3
          /\ \A i \in DOMAIN stack : FrameInv(i)
      BY DEF FanoutInv, FanoutTypeOK, publish
    <2>2. n \in Nat /\ n >= 1 /\ DOMAIN stack = 1..n
      BY <1>0, <2>1, NotEmpty
    <2>3. top \in FrameType /\ FrameInv(n) /\ n <= 3
      BY <1>0, <2>1, <2>2
    <2> QED
      BY <2>1, <2>2, <2>3 DEF FanoutInv, FanoutTypeOK, publish
  <1>2. /\ top.next # <<>> /\ top.next \in Seq(EventTypes)
        /\ top.left \subseteq Subscribers /\ top = stack[n]
        /\ top.type \in EventTypes \cup {"none"}
    BY <1>0, <1>1 DEF publish, Top, FrameType
  <1>3. /\ type \in EventTypes /\ Tail(top.next) \in Seq(EventTypes)
        /\ Range(top.next) = {type} \cup Range(Tail(top.next))
    BY <1>0, <1>2, HeadAndTail
  <1>4. PICK cut : cut = [top EXCEPT !.next = Tail(top.next)]
    OBVIOUS
  <1>5. /\ cut \in FrameType /\ cut.type = top.type /\ cut.left = top.left
        /\ cut.next = Tail(top.next)
    BY <1>1, <1>2, <1>3, <1>4 DEF FrameType
  <1>6. /\ new \in FrameType /\ new.type = type
        /\ new.left = Handlers(type) /\ new.next = <<>>
    BY <1>0, <1>3 DEF Frame, FrameType, Handlers
  <1>7. PICK mid : mid = [stack EXCEPT ![n] = cut]
    OBVIOUS
  <1>8. /\ mid \in Seq(FrameType) /\ Len(mid) = n /\ DOMAIN mid = 1..n
        /\ mid[n] = cut /\ \A i \in 1..n : i # n => mid[i] = stack[i]
    BY <1>0, <1>1, <1>5, <1>7, ExceptAt
  <1>9. /\ stack' = Append(mid, new)
        /\ UNCHANGED <<subscribed, published, outcome, delivery, trail,
                       socket, inbox>>
    BY <1>0, <1>1, <1>4, <1>7 DEF publish, Top
  <1>10. /\ stack' \in Seq(FrameType) /\ Len(stack') = n + 1
         /\ DOMAIN stack' = 1..(n + 1) /\ stack'[n + 1] = new
         /\ stack'[n] = cut
         /\ \A i \in 1..n : i # n => stack'[i] = stack[i]
    <2>1. /\ stack' \in Seq(FrameType) /\ Len(stack') = n + 1
          /\ DOMAIN stack' = 1..(n + 1) /\ stack'[n + 1] = new
          /\ \A i \in 1..n : stack'[i] = mid[i]
      BY <1>6, <1>8, <1>9, AppendAt
    <2> QED
      BY <1>1, <1>8, <2>1
  <1>11. n # 3
    BY <1>1, <1>2 DEF FrameInv
  <1>12. /\ Grown /\ AuditedFirst' /\ CauseFirst' /\ trail' \in Seq(StepType)
         /\ \A i \in DOMAIN trail' :
              trail'[i] \in [delivery : 1..delivery', type : EventTypes,
                             by : Subscribers, did : BOOLEAN]
         /\ delivery' \in 0..MaxDeliveries
         /\ \A g, t : Told(g, t)' <=> Told(g, t)
    BY <1>9, TrailKept
  <1>13. \A t : CarriedOut(t) => CarriedOut(t)'
    BY <1>9, <1>12, StillTold
  <1>14. ASSUME NEW i \in DOMAIN stack' PROVE FrameInv(i)'
    <2>1. CASE i \in 1..n /\ i # n
      BY <1>1, <1>9, <1>10, <1>12, <2>1, FrameKept
    <2>2. CASE i = n
      <3>1. Range(cut.next) \subseteq Range(top.next)
        BY <1>3, <1>5
      <3>2. /\ cut.left \subseteq Handlers(cut.type)
            /\ n = 1 => /\ cut.left = {} /\ cut.type = "none"
                        /\ Range(cut.next) \subseteq Range(published.types)
            /\ n = 2 => /\ cut.type \in Range(published.types)
                        /\ \A t \in Range(cut.next) :
                             /\ cut.type \in Orchestrated
                             /\ t \in Derived(cut.type)
                             /\ CarriedOut(cut.type)
            /\ cut.type \in Audited =>
                 "audit" \in cut.left \/ Told("audit", cut.type)
        BY <1>1, <1>2, <1>5, <3>1 DEF FrameInv
      <3>3. stack'[i] = cut /\ i # 3 /\ cut.next \in Seq(EventTypes)
        BY <1>3, <1>5, <1>10, <1>11, <2>2
      <3> QED
        BY <1>9, <1>12, <1>13, <2>2, <3>2, <3>3 DEF FrameInv
    <2>3. CASE i = n + 1
      <3>1. type \in Range(top.next)
        BY <1>3
      <3>2. n = 1 => type \in Range(published.types)
        BY <1>1, <1>2, <3>1 DEF FrameInv
      <3>3. n = 2 => \E t \in Orchestrated :
                        type \in Derived(t) /\ CarriedOut(t)'
        BY <1>1, <1>2, <1>13, <3>1 DEF FrameInv
      <3>4. type \in Audited => "audit" \in Handlers(type)
        BY Names DEF Handlers
      <3>5. Range(<<>>) = {} /\ <<>> \in Seq(EventTypes)
        BY DEF Range
      <3>6. /\ stack'[i] = new /\ i \in 2..3 /\ (i = 2 <=> n = 1)
            /\ (i = 3 <=> n = 2)
        BY <1>1, <1>10, <1>11, <2>3
      <3>7. /\ stack'[i].left = Handlers(type) /\ stack'[i].type = type
            /\ stack'[i].next = <<>> /\ published' = published /\ i # 1
        BY <1>6, <1>9, <3>6
      <3>8. i = 2 => type \in Range(published'.types)
        BY <3>2, <3>6, <3>7
      <3>9. i = 3 => \E t \in Orchestrated :
                        type \in Derived(t) /\ CarriedOut(t)'
        BY <3>3, <3>6
      <3> QED
        BY <3>4, <3>5, <3>7, <3>8, <3>9 DEF FrameInv
    <2> QED
      BY <1>1, <1>10, <2>1, <2>2, <2>3
  <1>15. HeardInv'
    <2> SUFFICES ASSUME NEW t \in Range(published.types),
                        NEW g \in Subscribers \ {"orchestrator"},
                        t \in SubscribedTo[g], ~Told(g, t)'
                 PROVE  StillToTell(g, t)'
      BY <1>9 DEF HeardInv
    <2>1. StillToTell(g, t)
      BY <1>1, <1>12 DEF HeardInv
    <2>2. CASE t \in Range(stack[1].next) /\ n = 1 /\ t # type
      BY <1>1, <1>2, <1>3, <1>5, <1>9, <1>10, <2>2 DEF StillToTell
    <2>3. CASE t \in Range(stack[1].next) /\ n = 1 /\ t = type
      BY <1>1, <1>6, <1>9, <1>10, <2>3 DEF StillToTell, Handlers
    <2>4. CASE t \in Range(stack[1].next) /\ n = 2
      BY <1>1, <1>9, <1>10, <2>4 DEF StillToTell
    <2>5. CASE stack[2].type = t /\ g \in stack[2].left /\ n = 2
      BY <1>1, <1>2, <1>5, <1>9, <1>10, <2>5 DEF StillToTell
    <2> QED
      BY <1>0, <1>1, <1>11, <2>1, <2>2, <2>3, <2>4, <2>5 DEF StillToTell
  <1>16. FanoutTypeOK'
    <2>1. \A i \in DOMAIN stack' : stack'[i].left \subseteq Subscribers
      BY <1>10, FrameIn
    <2>2. Len(stack') <= 3
      BY <1>1, <1>10, <1>11
    <2> QED
      BY <1>1, <1>9, <1>12, <2>1, <2>2 DEF FanoutTypeOK
  <1>17. OutletKnown' /\ OwnTenantOnly'
    BY <1>1, <1>9 DEF OutletKnown, OwnTenantOnly
  <1>18. stack' # <<>>
    BY <1>1, <1>10
  <1> QED
    BY <1>1, <1>9, <1>10, <1>12, <1>14, <1>15, <1>16, <1>17, <1>18
    DEF FanoutInv

LEMMA ReturnStep ==
  ASSUME FanoutInv, return
  PROVE  FanoutInv'
  <1>0. PICK n, top : n = Len(stack) /\ top = stack[Len(stack)]
    OBVIOUS
  <1>1. /\ stack \in Seq(FrameType) /\ stack # <<>> /\ n \in 1..3
        /\ DOMAIN stack = 1..n
        /\ \A i \in DOMAIN stack : FrameInv(i)
        /\ published.types \in Direct \cup Outboxed
        /\ outcome = "running" /\ HeardInv /\ OutletKnown
        /\ subscribed \in SubscriptionOrders
        /\ subscribed \in [Subscribers -> 1..5]
        /\ socket \in [Sockets -> {"away", "connected", "gone"}]
        /\ OwnTenantOnly /\ delivery > 0
    <2>1. /\ stack \in Seq(FrameType) /\ stack # <<>> /\ Len(stack) <= 3
          /\ \A i \in DOMAIN stack : FrameInv(i)
      BY DEF FanoutInv, FanoutTypeOK, return
    <2>2. n \in Nat /\ n >= 1 /\ DOMAIN stack = 1..n
      BY <1>0, <2>1, NotEmpty
    <2> QED
      BY <1>0, <2>1, <2>2 DEF FanoutInv, FanoutTypeOK, return
  <1>2. /\ top.next = <<>> /\ top.left = {} /\ top = stack[n]
        /\ stack' = Front(stack)
        /\ outcome' = IF n = 1 THEN "returned" ELSE "running"
        /\ UNCHANGED <<subscribed, published, delivery, trail, socket, inbox>>
    BY <1>0, <1>1 DEF return, Top
  <1>3. /\ stack' \in Seq(FrameType) /\ Len(stack') = n - 1
        /\ DOMAIN stack' = 1..(n - 1)
        /\ \A i \in DOMAIN stack' : stack'[i] = stack[i]
    BY <1>0, <1>1, <1>2, FrontAt
  <1>4. /\ Grown /\ AuditedFirst' /\ CauseFirst' /\ trail' \in Seq(StepType)
        /\ \A i \in DOMAIN trail' :
             trail'[i] \in [delivery : 1..delivery', type : EventTypes,
                            by : Subscribers, did : BOOLEAN]
        /\ delivery' \in 0..MaxDeliveries
        /\ \A g, t : Told(g, t)' <=> Told(g, t)
    BY <1>2, TrailKept
  <1>5. \A i \in DOMAIN stack' : FrameInv(i)'
    BY <1>1, <1>2, <1>3, <1>4, FrameKept
  <1>6. HeardInv'
    <2> SUFFICES ASSUME NEW t \in Range(published.types),
                        NEW g \in Subscribers \ {"orchestrator"},
                        t \in SubscribedTo[g], ~Told(g, t)'
                 PROVE  StillToTell(g, t)'
      BY <1>2 DEF HeardInv
    <2>1. StillToTell(g, t)
      BY <1>1, <1>4 DEF HeardInv
    <2>2. Range(top.next) = {}
      BY <1>2 DEF Range
    <2>3. CASE t \in Range(stack[1].next)
      <3>1. n # 1
        BY <1>2, <2>2, <2>3
      <3> QED
        BY <1>1, <1>2, <1>3, <2>3, <3>1 DEF StillToTell
    <2>4. CASE n >= 2 /\ stack[2].type = t /\ g \in stack[2].left
      <3>1. n = 3
        BY <1>1, <1>2, <2>4
      <3> QED
        BY <1>1, <1>2, <1>3, <2>4, <3>1 DEF StillToTell
    <2> QED
      BY <1>0, <2>1, <2>3, <2>4 DEF StillToTell
  <1>7. FanoutTypeOK'
    <2>1. \A i \in DOMAIN stack' : stack'[i].left \subseteq Subscribers
      BY <1>3, FrameIn
    <2>2. Len(stack') <= 3
      BY <1>1, <1>3
    <2> QED
      BY <1>1, <1>2, <1>4, <2>1, <2>2 DEF FanoutTypeOK
  <1>8. OutletKnown' /\ OwnTenantOnly'
    BY <1>1, <1>2 DEF OutletKnown, OwnTenantOnly
  <1>9. stack' # <<>> <=> outcome' = "running"
    BY <1>1, <1>2, <1>3
  <1> QED
    BY <1>1, <1>2, <1>3, <1>4, <1>5, <1>6, <1>7, <1>8, <1>9
    DEF FanoutInv
-----------------------------------------------------------------------------
LEMMA DeliverStep ==
  ASSUME FanoutInv, deliver
  PROVE  FanoutInv'
  <1>0. PICK f : f = Frame("none", {}, published.types)
    OBVIOUS
  <1>1. /\ published.types \in Direct \cup Outboxed
        /\ outcome = "called" /\ OutletKnown
        /\ subscribed \in SubscriptionOrders
        /\ subscribed \in [Subscribers -> 1..5]
        /\ socket \in [Sockets -> {"away", "connected", "gone"}]
        /\ OwnTenantOnly /\ AuditedFirst /\ CauseFirst
        /\ trail \in Seq(StepType) /\ delivery \in 0..MaxDeliveries
        /\ \A i \in DOMAIN trail :
             trail[i] \in [delivery : 1..delivery, type : EventTypes,
                           by : Subscribers, did : BOOLEAN]
    BY DEF FanoutInv, FanoutTypeOK, deliver
  <1>2. /\ stack' = <<f>> /\ delivery' = delivery + 1 /\ outcome' = "running"
        /\ delivery < MaxDeliveries
        /\ UNCHANGED <<subscribed, published, trail, socket, inbox>>
    BY <1>0 DEF deliver
  <1>3. /\ f.type = "none" /\ f.left = {} /\ f.next = published.types
        /\ f.next \in Seq(EventTypes)
    BY <1>0, <1>1, PublishedAre DEF Frame
  <1>4. f \in FrameType
    BY <1>0, <1>1, PublishedAre DEF Frame, FrameType
  <1>5. /\ stack' \in Seq(FrameType) /\ Len(stack') = 1
        /\ DOMAIN stack' = {1} /\ stack'[1] = f /\ stack' # <<>>
    BY <1>2, <1>4
  <1>6. FrameInv(1)'
    <2>1. "none" \notin Audited
      BY Names, NotNamed
    <2> QED
      BY <1>2, <1>3, <1>5, <2>1 DEF FrameInv
  <1>7. AuditedFirst' /\ CauseFirst' /\ OwnTenantOnly' /\ OutletKnown'
    BY <1>1, <1>2 DEF AuditedFirst, CauseFirst, Before, Steps, OwnTenantOnly,
       OutletKnown
  <1>8. HeardInv'
    BY <1>2, <1>3, <1>5 DEF HeardInv, StillToTell
  <1>9. /\ delivery' \in 0..MaxDeliveries /\ delivery' > 0
        /\ 1..delivery \subseteq 1..delivery'
    BY <1>1, <1>2, FanoutConstants
  <1>10. \A i \in DOMAIN trail' :
           trail'[i] \in [delivery : 1..delivery', type : EventTypes,
                          by : Subscribers, did : BOOLEAN]
    <2> SUFFICES ASSUME NEW i \in DOMAIN trail
                 PROVE  trail[i] \in [delivery : 1..delivery',
                                      type : EventTypes,
                                      by : Subscribers, did : BOOLEAN]
      BY <1>2
    <2> QED
      BY <1>1, <1>9
  <1>11. FanoutTypeOK'
    BY <1>1, <1>2, <1>3, <1>5, <1>9, <1>10 DEF FanoutTypeOK
  <1> QED
    BY <1>1, <1>2, <1>5, <1>6, <1>7, <1>8, <1>9, <1>11 DEF FanoutInv

(* The calls are cut off, and what was done stays done.                    *)
LEMMA CutOffStep ==
  ASSUME FanoutInv, CutOff, Elsewhere, delivery' = delivery,
         trail' \in Seq(StepType), AuditedFirst', CauseFirst',
         \A i \in DOMAIN trail' : trail'[i].delivery \in 1..delivery
  PROVE  FanoutInv'
  <1>1. /\ published.types \in Direct \cup Outboxed /\ OutletKnown
        /\ subscribed \in SubscriptionOrders
        /\ subscribed \in [Subscribers -> 1..5]
        /\ delivery \in 0..MaxDeliveries
    BY DEF FanoutInv, FanoutTypeOK
  <1>2. /\ stack' = <<>> /\ outcome' \in {"called", "thrown"}
        /\ subscribed' = subscribed /\ published' = published
        /\ socket' \in [Sockets -> {"away", "connected", "gone"}]
        /\ OwnTenantOnly'
    BY DEF CutOff, Elsewhere
  <1>3. stack' \in Seq(FrameType) /\ DOMAIN stack' = {} /\ Len(stack') = 0
    BY <1>2
  <1>4. \A i \in DOMAIN trail' :
          trail'[i] \in [delivery : 1..delivery, type : EventTypes,
                         by : Subscribers, did : BOOLEAN]
    <2>1. \A i \in DOMAIN trail' : trail'[i] \in StepType
      OBVIOUS
    <2> QED
      BY <2>1 DEF StepType
  <1>5. FanoutTypeOK'
    BY <1>1, <1>2, <1>3, <1>4 DEF FanoutTypeOK
  <1>6. OutletKnown' /\ HeardInv'
    BY <1>1, <1>2 DEF OutletKnown, HeardInv
  <1> QED
    BY <1>1, <1>2, <1>3, <1>5, <1>6 DEF FanoutInv

LEMMA ThrowStep ==
  ASSUME FanoutInv, throwError
  PROVE  FanoutInv'
  <1>1. PICK type : type = Type
    OBVIOUS
  <1>2. /\ NextHandler("orchestrator") /\ Did("orchestrator", FALSE)
        /\ CutOff
        /\ UNCHANGED <<subscribed, published, delivery, socket, inbox>>
    BY DEF throwError
  <1>3. /\ trail' \in Seq(StepType) /\ AuditedFirst' /\ CauseFirst'
        /\ \A i \in DOMAIN trail' : trail'[i].delivery \in 1..delivery
    <2>1. FALSE \in BOOLEAN /\ delivery' = delivery
      BY <1>2
    <2> QED
      BY <1>1, <1>2, <2>1, Turned
  <1>4. Elsewhere
    BY <1>2 DEF Elsewhere, FanoutInv, FanoutTypeOK, OwnTenantOnly
  <1> QED
    BY <1>2, <1>3, <1>4, CutOffStep

LEMMA CrashStep ==
  ASSUME FanoutInv, crash
  PROVE  FanoutInv'
  <1>1. /\ CutOff /\ UNCHANGED <<subscribed, published, delivery, trail,
                                 inbox>>
        /\ socket' = [s \in Sockets |-> IF socket[s] = "connected" THEN "gone"
                                        ELSE socket[s]]
    BY DEF crash
  <1>2. Elsewhere
    BY <1>1 DEF Elsewhere, FanoutInv, FanoutTypeOK, OwnTenantOnly
  <1>3. /\ AuditedFirst' /\ CauseFirst' /\ trail' \in Seq(StepType)
        /\ \A i \in DOMAIN trail' :
             trail'[i] \in [delivery : 1..delivery', type : EventTypes,
                            by : Subscribers, did : BOOLEAN]
    BY <1>1, TrailKept
  <1>4. \A i \in DOMAIN trail' : trail'[i].delivery \in 1..delivery
    BY <1>1, <1>3
  <1> QED
    BY <1>1, <1>2, <1>3, <1>4, CutOffStep

LEMMA SocketStep ==
  ASSUME FanoutInv, Elsewhere,
         UNCHANGED <<stack, outcome, delivery, trail>>
  PROVE  FanoutInv'
  <1>1. Grown /\ \A g, t : Told(g, t)' <=> Told(g, t)
    BY TrailKept
  <1>2. published' = published /\ subscribed' = subscribed
    BY DEF Elsewhere
  <1>3. \A i \in DOMAIN stack' : FrameInv(i)'
    BY <1>1, <1>2, FrameKept DEF FanoutInv
  <1>4. HeardInv'
    BY <1>1, <1>2 DEF FanoutInv, HeardInv, StillToTell
  <1>5. AuditedFirst' /\ CauseFirst'
    BY TrailKept
  <1>6. FanoutTypeOK'
    BY <1>2 DEF FanoutInv, FanoutTypeOK, Elsewhere
  <1>7. OutletKnown'
    BY <1>2 DEF FanoutInv, OutletKnown
  <1> QED
    BY <1>2, <1>3, <1>4, <1>5, <1>6, <1>7 DEF FanoutInv, Elsewhere

(* A socket of another tenant is in none of the rooms of an event: its     *)
(* tenant is another, and so are its outlet's tenant and its outlet.       *)
LEMMA RoomsApart ==
  ASSUME OutletKnown, NEW s \in Sockets, s.tenantId # Tenant, NEW type
  PROVE  getRealtimeEventRooms(type) \cap Joined(s) = {}
  <1>1. published.outlet # NoOutlet => s.outletId # published.outlet
    BY OneTenantEach DEF OutletKnown
  <1>2. \A r \in Joined(s) :
          \/ r = <<"tenant", s.tenantId>> \/ r = <<"user", s.userId>>
          \/ r = <<"outlet", s.outletId>>
    BY DEF Joined, RoomsOf
  <1>3. \A r \in getRealtimeEventRooms(type) :
          \/ r = <<"tenant", Tenant>>
          \/ r = <<"outlet", published.outlet>> /\ published.outlet # NoOutlet
    BY DEF getRealtimeEventRooms
  <1> QED
    BY <1>1, <1>2, <1>3

LEMMA EmitStep ==
  ASSUME FanoutInv, handleDomainEvent
  PROVE  FanoutInv'
  <1>1. OwnTenantOnly'
    <2> SUFFICES ASSUME NEW s \in Sockets, s.tenantId # Tenant
                 PROVE  inbox'[s] = {}
      BY DEF OwnTenantOnly
    <2>1. getRealtimeEventRooms(Type) \cap Joined(s) = {}
      BY RoomsApart DEF FanoutInv
    <2>2. inbox[s] = {}
      BY DEF FanoutInv, OwnTenantOnly
    <2>3. inbox'[s] = inbox[s] \cup
            {[delivery |-> delivery, type |-> Type, room |-> r] :
               r \in getRealtimeEventRooms(Type) \cap Joined(s)}
      BY DEF handleDomainEvent, emitToRooms
    <2> QED
      BY <2>1, <2>2, <2>3
  <1>2. Elsewhere
    BY <1>1 DEF handleDomainEvent, emitToRooms, Continue, Elsewhere, FanoutInv, FanoutTypeOK
  <1>3. Handles("realtime", <<>>)
    BY DEF handleDomainEvent, Handles
  <1> QED
    BY <1>2, <1>3, HandlerStep

(* The other handlers.                                                     *)
LEMMA HandlersStep ==
  ASSUME FanoutInv,
         createAuditLog \/ handleNotification \/ observe \/ handleOrder
  PROVE  FanoutInv'
  <1>1. PICK h, next : Handles(h, next)
    <2>1. CASE createAuditLog
      <3>1. Handles("audit", <<>>)
        BY <2>1 DEF createAuditLog, Handles
      <3> QED
        BY <3>1
    <2>2. CASE handleNotification
      <3>1. Handles("notification", <<>>)
        BY <2>2 DEF handleNotification, sendNotification, Handles
      <3> QED
        BY <3>1
    <2>3. CASE observe
      <3>1. Handles("metrics", <<>>)
        BY <2>3 DEF observe, Handles
      <3> QED
        BY <3>1
    <2>4. CASE handleOrder
      <3>1. NextHandler("orchestrator")
        BY <2>4 DEF handleOrder
      <3>2. Type \in Orchestrated
        BY <3>1, TurnOf, Names
      <3>3. CASE \/ UNCHANGED trail /\ Continue("orchestrator", <<>>)
                 \/ /\ Did("orchestrator", TRUE)
                    /\ Continue("orchestrator", <<>>)
        <4>1. Handles("orchestrator", <<>>)
          BY <3>1, <3>3 DEF Handles
        <4> QED
          BY <4>1
      <3>4. CASE /\ Did("orchestrator", TRUE)
                 /\ \E next \in Follows(Type) : Continue("orchestrator", next)
        <4>1. PICK next \in Follows(Type) : Continue("orchestrator", next)
          BY <3>4
        <4>2. Handles("orchestrator", next)
          BY <3>1, <3>2, <3>4, <4>1 DEF Handles
        <4> QED
          BY <4>2
      <3> QED
        BY <2>4, <3>3, <3>4 DEF handleOrder
    <2> QED
      BY <2>1, <2>2, <2>3, <2>4
  <1>2. UNCHANGED inbox
    BY DEF createAuditLog, handleNotification, observe, handleOrder
  <1>3. Elsewhere
    BY <1>1, <1>2 DEF Handles, Continue, Elsewhere, FanoutInv, FanoutTypeOK,
       OwnTenantOnly
  <1> QED
    BY <1>1, <1>3, HandlerStep

LEMMA FanoutInvNext == FanoutInv /\ [FanoutNext]_fanoutVars => FanoutInv'
  <1> SUFFICES ASSUME FanoutInv, [FanoutNext]_fanoutVars PROVE FanoutInv'
    OBVIOUS
  <1>1. ASSUME NEW s \in Sockets, handleConnection(s) \/ handleDisconnect(s)
        PROVE  FanoutInv'
    <2>1. /\ UNCHANGED <<subscribed, published, stack, outcome, delivery,
                         trail, inbox>>
          /\ \E to \in {"connected", "gone"} :
               socket' = [socket EXCEPT ![s] = to]
      BY <1>1 DEF handleConnection, handleDisconnect, Move
    <2>2. Elsewhere
      BY <2>1 DEF Elsewhere, FanoutInv, FanoutTypeOK, OwnTenantOnly
    <2> QED
      BY <2>1, <2>2, SocketStep
  <1>2. ASSUME UNCHANGED fanoutVars PROVE FanoutInv'
    <2>1. Elsewhere
      BY <1>2 DEF fanoutVars, Elsewhere, FanoutInv, FanoutTypeOK,
         OwnTenantOnly
    <2> QED
      BY <1>2, <2>1, SocketStep DEF fanoutVars
  <1> QED
    BY <1>1, <1>2, DeliverStep, PublishStep, ReturnStep, HandlersStep,
       EmitStep, ThrowStep, CrashStep DEF FanoutNext

(* The audit trail is tried first, what follows from an order comes after  *)
(* the orchestrator has carried it out, a publisher that returns was heard *)
(* by every subscriber, and no socket hears of another tenant, for any     *)
(* sockets, any number of deliveries, any order of subscription that has   *)
(* the audit trail first, and errors and crashes at any point.             *)
THEOREM FanoutSound == FanoutSpec => []FanoutIsSound
  <1>1. FanoutInv => FanoutIsSound
    <2> SUFFICES ASSUME FanoutInv PROVE FanoutIsSound
      OBVIOUS
    <2>1. ReturnedIsHeard
      BY DEF FanoutInv, HeardInv, StillToTell, Told, ReturnedIsHeard
    <2> QED
      BY <2>1 DEF FanoutInv, FanoutIsSound
  <1> QED
    BY <1>1, FanoutInvInit, FanoutInvNext, PTL DEF FanoutSpec
=============================================================================

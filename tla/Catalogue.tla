------------------------------ MODULE Catalogue ------------------------------
(***************************************************************************)
(* The catalogues of a tenant - suppliers, warehouses, ingredients and     *)
(* products - and what refers to their rows: purchase orders, transfers,   *)
(* stock movements, recipes and reorder rules.                             *)
(*                                                                         *)
(* A row that something refers to may not disappear: the removal looks for *)
(* references and deactivates the row when it finds one.  It runs at the   *)
(* isolation level SERIALIZABLE, but the calls that insert references run  *)
(* at PostgreSQL's default level and read the row well before they insert, *)
(* so what each of them read may be outdated when it writes.               *)
(*                                                                         *)
(* A behaviour is about one catalogue.  A row that is created has the id   *)
(* of the call that creates it; all names that are asked for are the same  *)
(* name, so that they compete.                                             *)
(***************************************************************************)
EXTENDS Naturals, FiniteSets

CONSTANTS
    Stored,     \* the rows there are at the start
    Writers,    \* calls that change the catalogue or refer to its rows
    Name        \* the name that is asked for

ASSUME CatalogueConstants ==
    /\ Stored \cap Writers = {}
    /\ Name \notin Stored \cup Writers

VARIABLES
    catalogue,  \* which catalogue the behaviour is about
    listed,     \* its rows
    uses,       \* the rows of other tables that refer to them
    writer      \* the calls

catalogueVars == <<catalogue, listed, uses, writer>>

Rows == Stored \cup Writers
Catalogues == {"supplier", "warehouse", "ingredient", "product"}

(* What refers to the rows of a catalogue.                                 *)
UsesOf ==
    [supplier   |-> {"order"},
     warehouse  |-> {"order", "transfer", "stock", "rule"},
     ingredient |-> {"order", "transfer", "stock", "recipe", "rule"},
     product    |-> {"recipe"}]

(* The calls that change a catalogue.                                      *)
Edits ==
    [supplier   |-> {"create", "rename", "activate", "deactivate", "remove"},
     warehouse  |-> {"create", "rename", "activate", "deactivate", "remove"},
     ingredient |-> {"create", "rename", "unit", "activate", "deactivate",
                     "remove"},
     product    |-> {"create"}]

(* What the foreign key of a reference does when its row is deleted: a     *)
(* reorder rule goes with the row, of the others the optional ones are     *)
(* cleared and the required ones forbid it.                                *)
OnDelete(as) ==
    CASE as = "rule" -> "CASCADE"
      [] catalogue = "warehouse" /\ as \in {"order", "stock"} -> "SET NULL"
      [] OTHER -> "RESTRICT"

(* Only an active row may be referred to; an ingredient that is ordered,   *)
(* moved or transferred, a product with a recipe, and what has a reorder   *)
(* rule need only be there.                                                *)
NeedsActive(as) ==
    \/ catalogue \in {"supplier", "warehouse"} /\ as # "rule"
    \/ catalogue = "ingredient" /\ as = "recipe"

(* The names the database keeps unique: all but those of ingredients.      *)
NameIsUnique == catalogue \in {"supplier", "warehouse", "product"}

CatalogueTypeOK ==
    /\ catalogue \in Catalogues
    /\ listed \in [Rows -> [there : BOOLEAN, active : BOOLEAN,
                            name : Rows \cup {Name}, unit : {"old", "new"},
                            sure : BOOLEAN, renamed : BOOLEAN]]
    /\ uses \subseteq [by : Writers, of : Rows, as : UsesOf[catalogue],
                       unit : {"old", "new"}, alone : BOOLEAN]
    /\ writer \in [Writers ->
          [op : UsesOf[catalogue] \cup Edits[catalogue], row : Rows,
           at : {"called", "read", "fallback", "confirmed", "done", "deleted",
                 "deactivated", "refused", "failed"},
           found : BOOLEAN, unit : {"old", "new"},
           missed : SUBSET {"row", "name", "serializable name", "rule"}]]

CatalogueInit ==
    /\ catalogue \in Catalogues
    /\ listed = [r \in Rows |->
          [there |-> r \in Stored, active |-> TRUE, name |-> r, unit |-> "old",
           sure |-> TRUE, renamed |-> FALSE]]
    /\ uses = {}
    /\ writer \in [Writers ->
          [op : UsesOf[catalogue] \cup Edits[catalogue], row : Rows,
           at : {"called"}, found : {FALSE}, unit : {"old"}, missed : {{}}]]
    /\ \A w \in Writers : IF writer[w].op = "create" THEN writer[w].row = w
                          ELSE writer[w].row \in Stored
-----------------------------------------------------------------------------
Row(w) == listed[writer[w].row]
(* A removal does not count reorder rules.                                 *)
Used(r) == \E u \in uses : u.of = r /\ u.as # "rule"
RulesOf(r) == {u \in uses : u.of = r /\ u.as = "rule"}
NameTaken(r) == \E q \in Rows \ {r} : listed[q].there /\ listed[q].name = Name

(* Call w moves on, and every call that has read and not yet written       *)
(* misses what w has just committed.                                       *)
Settle(w, at, news) ==
    writer' = [v \in Writers |->
        CASE v = w -> [writer[w] EXCEPT !.at = at]
          [] writer[v].at = "read" /\ v # w ->
               [writer[v] EXCEPT !.missed = @ \cup news[v]]
          [] OTHER -> writer[v]]
Nothing == [v \in Writers |-> {}]
Reply(w, at) ==
    Settle(w, at, Nothing) /\ UNCHANGED <<listed, uses, catalogue>>

(* What the others miss of a change of row r, and of the name it takes.    *)
RowNews(r, v) == IF writer[v].row = r THEN {"row"} ELSE {}
NameNews(w) ==
    IF catalogue = "ingredient" /\ writer[w].op = "rename"
    THEN {"name", "serializable name"} ELSE {"name"}

(* The row is written; one that is deleted takes its reorder rules with    *)
(* it.                                                                     *)
Write(w, at, row) ==
    /\ listed' = [listed EXCEPT ![writer[w].row] = row]
    /\ uses' = IF row.there THEN uses ELSE uses \ RulesOf(writer[w].row)
    /\ Settle(w, at, [v \in Writers |->
                        RowNews(writer[w].row, v) \cup
                        IF row.name = Name /\ Row(w).name # Name
                        THEN NameNews(w) ELSE {}])
    /\ UNCHANGED catalogue

(* What a change makes of the row.                                         *)
Changed(w) ==
    CASE writer[w].op = "create" ->
           [Row(w) EXCEPT !.there = TRUE, !.name = Name,
                          !.sure = "name" \notin writer[w].missed]
      [] writer[w].op = "rename" ->
           [Row(w) EXCEPT !.name = Name, !.renamed = TRUE,
                          !.sure = "name" \notin writer[w].missed]
      [] writer[w].op = "unit" -> [Row(w) EXCEPT !.unit = "new"]
      [] OTHER -> [Row(w) EXCEPT !.active = writer[w].op = "activate"]
-----------------------------------------------------------------------------
(* IngredientsService.create and ProductsRepository.createFromDto look for *)
(* the name or SKU and insert; the transaction holds nothing they read.    *)
findExisting(w) ==
    /\ writer[w].op = "create" /\ writer[w].at = "called"
    /\ catalogue \in {"ingredient", "product"}
    /\ Reply(w, IF NameTaken(w) THEN "refused" ELSE "read")

(* The row is inserted; a unique constraint may still refuse it.           *)
insertRow(w) ==
    /\ writer[w].op = "create"
    /\ writer[w].at =
         IF catalogue \in {"ingredient", "product"} THEN "read" ELSE "called"
    /\ IF NameIsUnique /\ NameTaken(w) THEN Reply(w, "failed")
       ELSE Write(w, "done", Changed(w))

(* SupplierRepository.update and WarehouseRepository.update are one        *)
(* statement on the row, if it is still there.                             *)
update(w) ==
    /\ catalogue \in {"supplier", "warehouse"}
    /\ writer[w].op \in {"rename", "activate", "deactivate"}
    /\ writer[w].at = "called"
    /\ IF ~Row(w).there THEN Reply(w, "refused")
       ELSE IF writer[w].op = "rename" /\ NameTaken(writer[w].row)
       THEN Reply(w, "failed")
       ELSE Write(w, "done", Changed(w))

(* IngredientsService.update reads the item, the rows with the name it is  *)
(* to have, and whether stock, a movement or a recipe uses it ...          *)
UnitFixed(r) == \E u \in uses : u.of = r /\ u.as \in {"stock", "recipe"}
readIngredient(w) ==
    /\ catalogue = "ingredient"
    /\ writer[w].op \in {"rename", "unit", "activate", "deactivate"}
    /\ writer[w].at = "called"
    /\ Reply(w, IF \/ ~Row(w).there
                   \/ writer[w].op = "rename" /\ NameTaken(writer[w].row)
                   \/ writer[w].op = "unit" /\ UnitFixed(writer[w].row)
                THEN "refused" ELSE "read")

(* ... and writes it.  SERIALIZABLE refuses the write if the row has been  *)
(* written since, or if another serializable call has taken the name.      *)
Outdated(w) ==
    \/ "row" \in writer[w].missed
    \/ writer[w].op = "rename" /\ "serializable name" \in writer[w].missed
writeIngredient(w) ==
    /\ catalogue = "ingredient"
    /\ writer[w].op \in {"rename", "unit", "activate", "deactivate"}
    /\ writer[w].at = "read"
    /\ IF Outdated(w) THEN Reply(w, "failed")
       ELSE Write(w, "done", Changed(w))
-----------------------------------------------------------------------------
(* The removal reads the row and looks for references.                     *)
findReferences(w) ==
    /\ writer[w].op = "remove" /\ writer[w].at = "called"
    /\ IF ~Row(w).there THEN Reply(w, "refused")
       ELSE /\ writer' = [writer EXCEPT ![w].at = "read",
                                        ![w].found = Used(writer[w].row)]
            /\ UNCHANGED <<listed, uses, catalogue>>

(* Without SERIALIZABLE, where a reference is cleared silently.            *)
DeleteErrors_read_committed(w) ==
    {"P2003" : u \in {u \in uses : u.of = writer[w].row
                                     /\ OnDelete(u.as) = "RESTRICT"}}

(* The error a deletion meets: a reference inserted since the removal      *)
(* looked for one is a violation of a foreign key that forbids it, and a   *)
(* conflict for one that would have to be cleared or deleted.  A rule the  *)
(* removal could see is deleted with the row.                              *)
DeleteErrors(w) ==
    {IF OnDelete(u.as) = "RESTRICT" THEN "P2003" ELSE "P2034" :
       u \in {u \in uses : /\ u.of = writer[w].row
                            /\ u.as = "rule" => "rule" \in writer[w].missed}}

(* After which errors the removal deactivates the row instead.             *)
Recovers(error) ==
    error = "P2003" \/ (error = "P2034" /\ catalogue = "supplier")
Recover(w, error) == Reply(w, IF Recovers(error) THEN "fallback" ELSE "failed")

(* It deactivates the row it found in use and deletes any other.           *)
remove(w) ==
    /\ writer[w].op = "remove" /\ writer[w].at = "read"
    /\ \/ "row" \in writer[w].missed /\ Recover(w, "P2034")
       \/ /\ "row" \notin writer[w].missed /\ writer[w].found
          /\ Write(w, "deactivated", [Row(w) EXCEPT !.active = FALSE])
       \/ /\ "row" \notin writer[w].missed /\ ~writer[w].found
          /\ \/ \E e \in DeleteErrors(w) : Recover(w, e)
             \/ /\ DeleteErrors(w) = {}
                /\ Write(w, "deleted", [Row(w) EXCEPT !.there = FALSE])

(* After the error, in a statement of its own; SupplierRepository.delete   *)
(* first makes sure that there is a purchase order.                        *)
confirmReference(w) ==
    /\ writer[w].at = "fallback" /\ catalogue = "supplier"
    /\ Reply(w, IF Used(writer[w].row) THEN "confirmed" ELSE "failed")
deactivate(w) ==
    /\ writer[w].at =
         IF catalogue = "supplier" THEN "confirmed" ELSE "fallback"
    /\ IF Row(w).there
       THEN Write(w, "deactivated", [Row(w) EXCEPT !.active = FALSE])
       ELSE Reply(w, "refused")
-----------------------------------------------------------------------------
(* replaceReorderRules holds the lock of the item from its first read.     *)
LocksRow(w) == catalogue = "ingredient" /\ writer[w].op = "rule"

(* A purchase order, transfer, movement, recipe or rule reads the row it   *)
(* is to refer to ...                                                      *)
readRow(w) ==
    /\ writer[w].op \in UsesOf[catalogue] /\ writer[w].at = "called"
    /\ ~LocksRow(w)
    /\ IF ~Row(w).there \/ (NeedsActive(writer[w].op) /\ ~Row(w).active)
       THEN Reply(w, "refused")
       ELSE /\ writer' = [writer EXCEPT ![w].at = "read",
                                        ![w].unit = Row(w).unit]
            /\ UNCHANGED <<listed, uses, catalogue>>

(* ... and is inserted, which the foreign key allows while the row is      *)
(* there.  A product has one recipe at most.                               *)
Alone(w) ==
    /\ "row" \notin writer[w].missed
    /\ \A v \in Writers : ~ /\ writer[v].op = "unit" /\ writer[v].at = "read"
                            /\ writer[v].row = writer[w].row
insertReference(w) ==
    /\ writer[w].op \in UsesOf[catalogue] \ {"rule"} /\ writer[w].at = "read"
    /\ IF ~Row(w).there \/ (catalogue = "product" /\ Used(writer[w].row))
       THEN Reply(w, "failed")
       ELSE /\ uses' = uses \cup
                 {[by |-> w, of |-> writer[w].row, as |-> writer[w].op,
                   unit |-> writer[w].unit, alone |-> Alone(w)]}
            /\ Settle(w, "done", Nothing)
            /\ UNCHANGED <<listed, catalogue>>

(* The rules of an item are replaced as a whole; of the rules of a         *)
(* warehouse those of other items stay.                                    *)
Replaced(w) ==
    IF catalogue = "ingredient" THEN {RulesOf(writer[w].row)}
    ELSE SUBSET {u \in uses : u.as = "rule"}
replaceReorderRules(w) ==
    /\ writer[w].op = "rule"
    /\ writer[w].at = IF LocksRow(w) THEN "called" ELSE "read"
    /\ IF ~Row(w).there THEN Reply(w, "failed")
       ELSE /\ \E old \in Replaced(w) :
                 uses' = (uses \ old) \cup
                   {[by |-> w, of |-> writer[w].row, as |-> "rule",
                     unit |-> writer[w].unit, alone |-> Alone(w)]}
            /\ Settle(w, "done", [v \in Writers |->
                 IF writer[v].row = writer[w].row THEN {"rule"} ELSE {}])
            /\ UNCHANGED <<listed, catalogue>>

(* A purchase order that is still a draft is deleted.                      *)
deleteDraft ==
    /\ \E u \in uses : u.as = "order" /\ uses' = uses \ {u}
    /\ UNCHANGED <<catalogue, listed, writer>>

CatalogueNext ==
    \/ \E w \in Writers :
         \/ findExisting(w) \/ insertRow(w) \/ update(w) \/ readIngredient(w)
         \/ writeIngredient(w) \/ findReferences(w) \/ remove(w)
         \/ confirmReference(w) \/ deactivate(w) \/ readRow(w)
         \/ insertReference(w) \/ replaceReorderRules(w)
    \/ deleteDraft

CatalogueSpec == CatalogueInit /\ [][CatalogueNext]_catalogueVars
-----------------------------------------------------------------------------
(* What refers to a row of a catalogue keeps it, however the removal and   *)
(* the insertion overlap; reorder rules may go with the row.               *)
NothingLost == \A u \in uses : listed[u.of].there

(* A movement or recipe is in the unit its ingredient has, unless the      *)
(* change of the unit and the insertion overlapped.                        *)
UnitsKept ==
    \A u \in uses : u.as \in {"stock", "recipe"} /\ u.alone
                      => u.unit = listed[u.of].unit

(* Two ingredients have one name only if one of them took it while the     *)
(* other did, and not if both were given it by an update; the names of     *)
(* suppliers and warehouses and the SKUs of products always differ.        *)
NamesKept ==
    \A r, q \in Rows :
        /\ r # q /\ listed[r].there /\ listed[q].there
        /\ listed[r].name = listed[q].name
        => /\ catalogue = "ingredient"
           /\ ~listed[r].sure \/ ~listed[q].sure
           /\ ~listed[r].renamed \/ ~listed[q].renamed

(* The catalogue keeps what refers to it, the units that are counted in    *)
(* and, as far as the checks overlap with nothing, its names.              *)
CatalogueIsKept ==
    CatalogueTypeOK /\ NothingLost /\ UnitsKept /\ NamesKept
=============================================================================

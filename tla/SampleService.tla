---------------------------- MODULE SampleService ----------------------------
(***************************************************************************)
(* temp-service, the downstream service of the repository: ItemsService    *)
(* keeps an array in memory; everybody may read it, and whoever holds a    *)
(* token that verifies, of either kind, may add to it.  The service        *)
(* restarts on its own, and then begins with its three items again.        *)
(*                                                                         *)
(* NextIdShort is a mistake no action uses.                                *)
(***************************************************************************)
EXTENDS AccessTokens, SequencesExt

CONSTANTS
  Name,           \* names clients post
  MaxItems        \* bound on the length of the array

VARIABLES
  items,          \* the array
  created         \* history: items answered to clients since the start

service == <<items, created>>

Item(id, name) == [id |-> id, name |-> name]
Seed == [id \in 1..3 |-> Item(id, "seed")]

ASSUME SampleAssumption == MaxItems \in Nat /\ "seed" \notin Name

ServiceInit == Init /\ items = Seed /\ created = {}

\* items.find(): the first of that id, as a sequence of at most one.
FindOne(id) ==
  LET at == SelectInSeq(items, LAMBDA item : item.id = id)
  IN  IF at = 0 THEN <<>> ELSE <<items[at]>>

NextIdShort == Len(items)
NextId == Len(items) + 1

Create(r, name) ==
  /\ Accepts(r) /\ Len(items) < MaxItems
  /\ items' = Append(items, Item(NextId, name))
  /\ created' = created \cup {Item(NextId, name)}
  /\ UNCHANGED vars

Restart == /\ items' = Seed /\ created' = {} /\ items # Seed
           /\ UNCHANGED vars

ServiceNext ==
  \/ Next /\ UNCHANGED service
  \/ \E r \in Request, name \in Name : Create(r, name)
  \/ Restart

ServiceSpec == ServiceInit /\ [][ServiceNext]_<<vars, service>>
-----------------------------------------------------------------------------
(* Properties.                                                             *)

\* As long as the service runs, the id a client was given finds the item it
\* posted, and no other client was given that id.
CreatedIsFound == \A item \in created : FindOne(item.id) = <<item>>
=============================================================================

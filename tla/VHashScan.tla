----------------------------- MODULE VHashScan -----------------------------
(***************************************************************************)
(* A caller that enumerates a module with VHash_Get_NextNode while it goes *)
(* on adding and deleting nodes between the calls: each call is given the  *)
(* node the one before it gave.  The caller clears its pointer before each *)
(* call, and the NULL it finds then says that the enumeration is over: the *)
(* return code __VHASH_ENUM_END of vhash.h never does.                     *)
(*                                                                         *)
(* The caller keeps two rules without which the pointer dangles: it does   *)
(* not delete the node it is at, and it does not empty the module.         *)
(***************************************************************************)
EXTENDS VHash

CONSTANT M  \* the module that is enumerated

ASSUME MAssumption == M \in Ids /\ M < ModuleMax

VARIABLES
  scanning,  \* an enumeration is under way
  at,        \* the node it is at: what the caller's pointer points to
  steady,    \* the nodes that have been in the module since it began
  seen       \* the nodes it gave that are still in the module

scanvars == <<vars, scanning, at, steady, seen>>

NodesAfter == IF head'[M] = Null THEN {} ELSE NodesOf(M)'

ScanInit ==
  /\ Init
  /\ scanning = FALSE
  /\ at = Null
  /\ steady = {}
  /\ seen = {}

Begin ==
  /\ ~scanning
  /\ VHash_Get_NextNode(M, Null)
  /\ at' = res'.node
  /\ scanning' = TRUE
  /\ steady' = NodesOf(M)
  /\ seen' = {at'} \ {Null}

\* Nothing was given.
Over == at = Null

Continue ==
  /\ scanning /\ ~Over
  /\ VHash_Get_NextNode(M, at)
  /\ at' = res'.node
  /\ seen' = seen \cup ({at'} \ {Null})
  /\ UNCHANGED <<scanning, steady>>

End ==
  /\ scanning /\ Over
  /\ scanning' = FALSE
  /\ at' = Null
  /\ steady' = {} /\ seen' = {}
  /\ UNCHANGED vars

\* Other calls on the module.
Meanwhile ==
  /\ \/ VHash_Init
     \/ VHash_Create_Moudle(M, TRUE)
     \/ \E k \in Keys : VHash_Add_Node2(M, k)
     \/ \E k \in Keys : (at # Null => k # item[at].key) /\ VHash_Del_Node(M, k)
  /\ steady' = steady \cap NodesAfter
  /\ seen' = seen \cap NodesAfter
  /\ UNCHANGED <<scanning, at>>

ScanNext == Begin \/ Continue \/ End \/ Meanwhile

ScanSpec == ScanInit /\ [][ScanNext]_scanvars

\* The enumeration is a loop of the caller's, which goes on until it is over.
FairScanSpec == ScanSpec /\ WF_scanvars(Continue \/ End)

\* When an enumeration is over it has given every node that was there from
\* its beginning to its end, whatever was added and deleted on the way.
NothingMissed == (scanning /\ Over) => steady \subseteq seen

\* It gives no node twice: neither from a chain that is searched again nor
\* from one that grew or shrank under the cursor.
NothingTwice == [][Continue => at' \notin seen]_scanvars

\* An enumeration ends, unless nodes are added for ever: additions go to the
\* end of a chain, so that a key which is deleted behind the cursor and added
\* again comes before it once more.
EndsUnlessFed == (<>[]scanning) => []<><<NodesAfter \ NodesOf(M) # {}>>_vars
=============================================================================

------------------------------- MODULE MCMaps -------------------------------
(* One run over everything that maps keys to values: the three skiplists    *)
(* and the six hash tables.                                                 *)
EXTENDS ThreadSteps
CONSTANTS HeadNode, TailNode, MaxLevel
VARIABLES which, apart
allVars == <<vars, which, apart>>

Skiplists == INSTANCE MCSkiplists WITH Keys <- {1, 2}, Initial <- {{}, {1, 2}}
HashTables == INSTANCE MCHashTables
IsSkiplist == which \in {"locked", "lazy", "lockfree"}

Init == Skiplists!Init \/ HashTables!Init
Next == \/ IsSkiplist /\ Skiplists!Next
        \/ ~IsSkiplist /\ HashTables!Next
Spec == Init /\ [][Next]_allVars

(* Callers that respect the conditions of the container get results that a  *)
(* map, doing each call at one instant between its start and its return,    *)
(* would have given: they cannot tell that a search walks over links that   *)
(* change, or that buckets are locked one at a time and moved by a resize.  *)
Linearizable == IF IsSkiplist THEN Skiplists!Linearizable ELSE HashTables!Linearizable

(* Between calls lookups find what such a map would hold: nothing that was  *)
(* added is lost and nothing that was deleted comes back, by an unlink, a   *)
(* resize, an eviction or a relocation.                                     *)
ContentsExplained == IF IsSkiplist THEN Skiplists!ContentsExplained ELSE HashTables!ContentsExplained

(* At any moment, whatever the callers do, a walk along a level of a        *)
(* skiplist meets the keys in order and ends at the tail.                   *)
Ordered == IsSkiplist => Skiplists!Ordered

(* At any moment a node on one level is on the level below: a search that   *)
(* goes down from a node it has found on a level can go on from there.      *)
LevelsNested == IsSkiplist => Skiplists!LevelsNested

(* A hash table stores nothing twice, nor where no lookup finds it. *)
NoCopies == ~IsSkiplist => HashTables!NoCopies

(* Under one mutex the count that decides when to grow is the number of     *)
(* keys.  (The two tables with a mutex per bucket change it without one for *)
(* all, and ConcurrentCuckooHash counts a key again when it moves.)         *)
SizeCounts == ~IsSkiplist => HashTables!SizeCounts
=============================================================================

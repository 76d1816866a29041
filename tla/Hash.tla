-------------------------------- MODULE Hash --------------------------------
(* Hash maps (hsh_rtl.c, and hshlib.c with the same algorithms for the      *)
(* interpreter).  A map has a table of buckets; every bucket is a binary    *)
(* tree of elements.  Smaller elements refer with next_less to the greater  *)
(* keys: an element with a key less than the searched one leads on to its   *)
(* field next_less.  As a map has at most one element for a key, an element *)
(* is named by its key.                                                     *)
EXTENDS Naturals, Sequences, FiniteSets

CONSTANTS HashMap,          \* the variables of a hash type
          HashKey,          \* keys, compared as numbers
          HashData,
          Bucket,           \* the indices of the table are 1 .. Bucket
          hashCode(_),      \* the bucket of a key
          NONE,             \* the pointer NULL
          ExclInLoop        \* the statements of a loop remove elements of its map

\* The record of a key that is not in the map has NONE in all fields.
HashElement == [data : HashData \cup {NONE}, less : HashKey \cup {NONE}, greater : HashKey \cup {NONE}]
HashMapType == [table : [1 .. Bucket -> HashKey \cup {NONE}], element : [HashKey -> HashElement],
                size : Nat]

ASSUME HashAssumption ==
    /\ HashKey \subseteq Nat /\ IsFiniteSet(HashKey) /\ Bucket \in Nat
    /\ \A k \in HashKey : hashCode(k) \in 1 .. Bucket
    /\ NONE \notin HashKey /\ NONE \notin HashMap /\ NONE \notin HashMapType

VARIABLES map,              \* [HashMap -> table, elements and size, or NONE]
          entered,          \* history: the data last entered for the keys of a map
          loop              \* a for loop over a map

hashVars == <<map, entered, loop>>

Slot == ({"table"} \X (1 .. Bucket)) \cup ({"less", "greater"} \X HashKey)

NoElement == [data |-> NONE, less |-> NONE, greater |-> NONE]
EmptyMap == [table |-> [b \in 1 .. Bucket |-> NONE],
             element |-> [k \in HashKey |-> NoElement], size |-> 0]
NoLoop == [over |-> NONE, pending |-> <<>>, visited |-> {}, missing |-> {}, twice |-> FALSE]

HashTypeOK ==
    /\ map \in [HashMap -> HashMapType \cup {NONE}]
    /\ entered \in [HashMap -> [HashKey -> HashData \cup {NONE}]]
    /\ loop \in [over : HashMap \cup {NONE}, pending : Seq(Slot), visited : SUBSET HashKey,
                 missing : SUBSET HashKey, twice : BOOLEAN]

\* hshEmpty
HashInit ==
    /\ map = [h \in HashMap |-> EmptyMap]
    /\ entered = [h \in HashMap |-> [k \in HashKey |-> NONE]]
    /\ loop = NoLoop

---------------------------------------------------------------------------
(* Search: the place in the table or in an element that refers to the key   *)
(* or would refer to it.                                                    *)

ElementAt(m, slot) == CASE slot[1] = "table" -> m.table[slot[2]]
                 [] slot[1] = "less" -> m.element[slot[2]].less
                 [] slot[1] = "greater" -> m.element[slot[2]].greater

Refer(m, slot, k) == CASE slot[1] = "table" -> [m EXCEPT !.table[slot[2]] = k]
                       [] slot[1] = "less" -> [m EXCEPT !.element[slot[2]].less = k]
                       [] slot[1] = "greater" -> [m EXCEPT !.element[slot[2]].greater = k]

Find(m, k) ==
    LET Search[slot \in Slot] ==
            LET e == ElementAt(m, slot)
            IN  IF e = NONE \/ e = k THEN slot
                ELSE IF e < k THEN Search[<<"less", e>>]
                ELSE Search[<<"greater", e>>]
    IN  Search[<<"table", hashCode(k)>>]

hshContains(m, k) == ElementAt(m, Find(m, k)) = k

hshIdxWithDefault(m, k, default) ==
    LET e == ElementAt(m, Find(m, k)) IN IF e = k THEN m.element[e].data ELSE default

---------------------------------------------------------------------------
(* Changes of one map.                                                      *)

\* hashAdd, hshIdxEnterGeneric and the insertions of hshIncl and hshUpdate.
NewElement(m, k, d) ==
    [Refer(m, Find(m, k), k) EXCEPT !.element[k] = [NoElement EXCEPT !.data = d],
                                    !.size = @ + 1]

hshIncl(m, k, d) ==
    IF hshContains(m, k) THEN [m EXCEPT !.element[k].data = d] ELSE NewElement(m, k, d)

\* The element at the end of the pointers next_greater from e on.  (Mutant: e
\* itself.)
JoinAtFirst(m, e) == e
LastGreater(m, e) ==
    LET Follow[j \in HashKey] == IF m.element[j].greater = NONE THEN j
                                 ELSE Follow[m.element[j].greater]
    IN  Follow[e]

\* The elements with next_less take the place of the removed element, those
\* with next_greater are appended to them.
hshExcl(m, k) ==
    LET slot == Find(m, k)
        e == m.element[k]
        moved == Refer(m, slot, IF e.less = NONE THEN e.greater ELSE e.less)
        joined == IF e.less # NONE /\ e.greater # NONE
                  THEN Refer(moved, <<"greater", LastGreater(m, e.less)>>, e.greater)
                  ELSE moved
    IN  IF ElementAt(m, slot) # k THEN m
        ELSE [joined EXCEPT !.element[k] = NoElement, !.size = @ - 1]

\* The elements of a tree in the order of free_helem, create_helem, keys_helem
\* and for_helem: an element, then its next_less, then its next_greater.
Tree(m, e) ==
    LET Walk[j \in HashKey \cup {NONE}] ==
            IF j = NONE THEN <<>>
            ELSE <<j>> \o Walk[m.element[j].less] \o Walk[m.element[j].greater]
    IN  Walk[e]

---------------------------------------------------------------------------
(* Operations of the program.  A statement of a loop can be any of them.    *)

InLoop(h) == loop.over = h

Change(h, m, f) ==
    /\ map' = [map EXCEPT ![h] = m]
    /\ entered' = [entered EXCEPT ![h] = f]
    /\ UNCHANGED loop

Include(h, k, d) ==
    /\ map[h] # NONE
    /\ Change(h, hshIncl(map[h], k, d), [entered[h] EXCEPT ![k] = d])

Exclude(h, k) ==
    /\ map[h] # NONE
    /\ ExclInLoop \/ ~InLoop(h)
    /\ map' = [map EXCEPT ![h] = hshExcl(@, k)]
    /\ entered' = [entered EXCEPT ![h][k] = NONE]
    /\ loop' = IF InLoop(h) THEN [loop EXCEPT !.missing = @ \ {k}, !.visited = @ \ {k}]
               ELSE loop

\* copy_hash: source and destination have tables of the same size.
hshCpy(h, g) ==
    /\ map[h] # NONE /\ map[g] # NONE /\ ~InLoop(h)
    /\ Change(h, map[g], entered[g])

\* There is no memory for an element of the copy: copy_hash gives up, and
\* hshCpy frees what has been copied and leaves the variable without a map.
\* The size is already that of the source, so free_hash looks for more
\* elements than were copied (see the README).
CopyFails(h, g) ==
    /\ h # g /\ map[h] # NONE /\ map[g] # NONE /\ map[g].size > 0
    /\ ~InLoop(h) /\ ~InLoop(g)
    /\ map' = [map EXCEPT ![h] = NONE]
    /\ entered' = [entered EXCEPT ![h] = [k \in HashKey |-> NONE]]
    /\ UNCHANGED loop

\* for_hash: the pending places are read when the loop comes to them.
ForHash(h) ==
    /\ map[h] # NONE /\ loop.over = NONE
    /\ loop' = [over |-> h, pending |-> [b \in 1 .. Bucket |-> <<"table", b>>],
                visited |-> {}, twice |-> FALSE,
                missing |-> {k \in HashKey : hshContains(map[h], k)}]
    /\ UNCHANGED <<map, entered>>

\* Mutant: next_greater is only followed when there is no next_less.
LoopTakesOneSide ==
    /\ loop.pending # <<>>
    /\ LET e == ElementAt(map[loop.over], Head(loop.pending))
       IN  loop' = IF e = NONE THEN [loop EXCEPT !.pending = Tail(@)]
                   ELSE [loop EXCEPT !.visited = @ \cup {e},
                                     !.missing = @ \ {e},
                                     !.pending = IF ElementAt(map[loop.over], <<"less", e>>) # NONE
                                                 THEN <<<<"less", e>>>> \o Tail(@)
                                                 ELSE <<<<"greater", e>>>> \o Tail(@)]
    /\ UNCHANGED <<map, entered>>

LoopGoesOn ==
    /\ loop.pending # <<>>
    /\ LET e == ElementAt(map[loop.over], Head(loop.pending))
       IN  loop' = IF e = NONE THEN [loop EXCEPT !.pending = Tail(@)]
                   ELSE [loop EXCEPT !.visited = @ \cup {e},
                                     !.missing = @ \ {e},
                                     !.twice = @ \/ e \in loop.visited,
                                     !.pending = <<<<"less", e>>, <<"greater", e>>>> \o Tail(@)]
    /\ UNCHANGED <<map, entered>>

LoopEnds ==
    /\ loop.over # NONE /\ loop.pending = <<>>
    /\ loop' = NoLoop
    /\ UNCHANGED <<map, entered>>

\* Bound: a loop runs while the other maps are empty, as they share nothing with
\* the map of the loop.
Alone(h) == \A g \in HashMap \ {h} : map[g] # NONE => map[g].size = 0

HashNext ==
    \/ \E h \in HashMap :
          /\ loop.over \in {NONE, h}
          /\ \/ \E k \in HashKey : Exclude(h, k) \/ \E d \in HashData : Include(h, k, d)
             \/ \E g \in HashMap : hshCpy(h, g) \/ CopyFails(h, g)
             \/ Alone(h) /\ ForHash(h)
    \/ LoopGoesOn \/ LoopEnds

HashSpec == HashInit /\ [][HashNext]_hashVars

---------------------------------------------------------------------------
(* Properties.                                                              *)

(* The elements that the search finds are the elements that the buckets     *)
(* have and that are counted by size, each of them once: hshExcl joins two  *)
(* trees into one that is still ordered, so nothing is lost or found twice. *)
SizeCounted ==
    \A h \in HashMap : map[h] # NONE =>
       LET m == map[h]
           Elements(b) == Tree(m, m.table[b])
       IN  /\ m.size = Cardinality({k \in HashKey : hshContains(m, k)})
           /\ \A b \in 1 .. Bucket :
                 /\ Len(Elements(b)) = Cardinality({k \in HashKey : hshContains(m, k)
                                                                  /\ hashCode(k) = b})
                 /\ \A i \in 1 .. Len(Elements(b)) : hshContains(m, Elements(b)[i])

(* A loop over a map comes to every element that the map has from the start *)
(* to the end of the loop, and to none twice, also when its statements      *)
(* enter elements: for_helem reads the pointers of an element only after    *)
(* the statements were executed for it.                                     *)
LoopVisitsAll ==
    /\ ~loop.twice
    /\ loop.pending = <<>> => loop.missing = {}

(* What a lookup finds under a key is what was entered last under this key, *)
(* and nothing when the key was removed, whatever was entered, removed and  *)
(* copied in between; and the elements are counted.                         *)
LookupFinds ==
    /\ SizeCounted
    /\ \A h \in HashMap, k \in HashKey :
          map[h] # NONE => hshIdxWithDefault(map[h], k, NONE) = entered[h][k]
=============================================================================

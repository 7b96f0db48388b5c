----------------------------- MODULE IdDatabase -----------------------------
(***************************************************************************)
(* The table of names and ids of the users (IdDatabase.c).  An entry is a  *)
(* block of memory that is in the array sorted by name and is pointed at   *)
(* from the table indexed by id; a renamed entry keeps its block, the      *)
(* block of a removed one is used again.  Every change is written to a new *)
(* file that then replaces the old, under the exclusive lock of the        *)
(* database: each operation is one action.                                 *)
(*                                                                         *)
(* The table indexed by id is made of sub-tables.  Reading the file makes  *)
(* those it needs; Add never does (the test of the allocation is inverted) *)
(* and reports "out of memory" for the first id of a new one, for ever.    *)
(***************************************************************************)
EXTENDS Integers, FiniteSets, SequencesExt

CONSTANTS Names,        \* the names an administrator uses
          Ids,          \* bound: the ids 0, 1, ... of the instance
          Items,        \* the blocks of memory for entries, 1, 2, ...
          SUBTABLE,     \* ids in a sub-table (1024 in the code)
          NoName

NoId   == -1
NoItem == 0

ASSUME IdAssumption ==
    /\ NoName \notin Names
    /\ IsFiniteSet(Ids) /\ Ids = 0..Cardinality(Ids) - 1
    /\ IsFiniteSet(Items) /\ Items = 1..Cardinality(Items)
    /\ SUBTABLE \in Nat \ {0} /\ SUBTABLE <= Cardinality(Ids)

VARIABLES
    item,       \* the contents of every block: [name, id]
    lpIdArray,  \* the blocks in the array
    lpNameTable,\* the block each id points at, or NoItem
    subTables,  \* the sub-tables that exist
    lpFreedId,  \* the blocks to use again, the last freed first
    iNextFreeId,
    idFile      \* the file: pairs <<name, id>>

idvars == <<item, lpIdArray, lpNameTable, subTables, lpFreedId, iNextFreeId, idFile>>

Entries(array, contents) == {<<contents[i].name, contents[i].id>> : i \in array}

Find(n) == {i \in lpIdArray : item[i].name = n}

(* User2Uid and Uid2User. *)
SearchByName(n) == IF Find(n) = {} THEN NoId ELSE item[CHOOSE i \in Find(n) : TRUE].id
SearchById(id)  == lpNameTable[id]

-----------------------------------------------------------------------------
(* The next block for an entry, and what is left of the freed ones. *)
Unused   == Items \ (lpIdArray \cup ToSet(lpFreedId))
NextItem == IF lpFreedId # <<>> THEN Head(lpFreedId)
                                ELSE CHOOSE i \in Unused : \A j \in Unused : i <= j

(* IdAdd(n): the id, or NoId.  A refused entry's block goes to the freed     *)
(* ones with the name and the id it was to have.                           *)
AddRefused(n) == (iNextFreeId \div SUBTABLE) \notin subTables \/ Find(n) # {}

\* Mutant: a refused entry has taken its place in the table of ids.
IdAddLeavesPointer(n) ==
    /\ lpFreedId # <<>> \/ Unused # {}
    /\ item' = [item EXCEPT ![NextItem] = [name |-> n, id |-> iNextFreeId]]
    /\ lpNameTable' = [lpNameTable EXCEPT ![iNextFreeId] = NextItem]
    /\ IF AddRefused(n)
         THEN /\ lpFreedId' = IF lpFreedId # <<>> THEN lpFreedId ELSE <<NextItem>>
              /\ UNCHANGED <<lpIdArray, iNextFreeId, idFile>>
         ELSE /\ lpFreedId' = IF lpFreedId # <<>> THEN Tail(lpFreedId) ELSE <<>>
              /\ lpIdArray' = lpIdArray \cup {NextItem}
              /\ iNextFreeId' = iNextFreeId + 1
              /\ idFile' = Entries(lpIdArray', item')
    /\ UNCHANGED subTables

IdAdd(n) ==
    /\ lpFreedId # <<>> \/ Unused # {}
    /\ item' = [item EXCEPT ![NextItem] = [name |-> n, id |-> iNextFreeId]]
    /\ IF AddRefused(n)
         THEN /\ lpFreedId' = IF lpFreedId # <<>> THEN lpFreedId ELSE <<NextItem>>
              /\ UNCHANGED <<lpIdArray, lpNameTable, iNextFreeId, idFile>>
         ELSE /\ lpFreedId' = IF lpFreedId # <<>> THEN Tail(lpFreedId) ELSE <<>>
              /\ lpIdArray' = lpIdArray \cup {NextItem}
              /\ lpNameTable' = [lpNameTable EXCEPT ![iNextFreeId] = NextItem]
              /\ iNextFreeId' = iNextFreeId + 1
              /\ idFile' = Entries(lpIdArray', item')
    /\ UNCHANGED subTables

(* Rename: in the same block, unless the new name is taken. *)
IdRename(old, new) ==
    /\ IF Find(old) = {} \/ (new # old /\ Find(new) # {})
         THEN UNCHANGED <<item, idFile>>
         ELSE /\ item' = [i \in Items |-> IF i \in Find(old) THEN [item[i] EXCEPT !.name = new]
                                                             ELSE item[i]]
              /\ idFile' = Entries(lpIdArray, item')
    /\ UNCHANGED <<lpIdArray, lpNameTable, subTables, lpFreedId, iNextFreeId>>

(* Remove, by name: it takes the id that has the name when the lock is had. *)
IdRemove(n) ==
    \/ Find(n) = {} /\ UNCHANGED idvars
    \/ \E i \in Find(n) :
         /\ lpIdArray' = lpIdArray \ {i}
         /\ idFile' = Entries(lpIdArray', item)
         /\ lpNameTable' = [lpNameTable EXCEPT ![item[i].id] = NoItem]
         /\ lpFreedId' = <<i>> \o lpFreedId
         /\ UNCHANGED <<item, subTables, iNextFreeId>>

-----------------------------------------------------------------------------
(* Init at a start of the server, with the ids whose data could be read:   *)
(* the others are left out of the tables, not of the file.  A file of no   *)
(* entries is an error: the server does not start.                         *)
Load(readable) ==
    LET kept == {e \in idFile : e[2] \in readable}
        At(e) == 1 + Cardinality({f \in kept : f[2] < e[2]})
        EntryAt(i) == CHOOSE e \in kept : At(e) = i
        array == 1..Cardinality(kept) IN
    /\ idFile # {}
    /\ lpIdArray' = array
    /\ item' = [i \in Items |-> IF i \in array
                                THEN [name |-> EntryAt(i)[1], id |-> EntryAt(i)[2]]
                                ELSE [name |-> NoName, id |-> NoId]]
    /\ lpNameTable' = [id \in Ids |-> LET at == {i \in array : EntryAt(i)[2] = id}
                                      IN  IF at = {} THEN NoItem ELSE CHOOSE i \in at : TRUE]
    /\ subTables' = {e[2] \div SUBTABLE : e \in idFile}
    /\ lpFreedId' = <<>>
    /\ iNextFreeId' = 1 + Max({-1} \cup {e[2] : e \in kept})
    /\ UNCHANGED idFile

(* One user, of id 0, as the distribution has it. *)
IdInit(n) ==
    /\ item = [i \in Items |-> IF i = 1 THEN [name |-> n, id |-> 0]
                                        ELSE [name |-> NoName, id |-> NoId]]
    /\ lpIdArray = {1}
    /\ lpNameTable = [id \in Ids |-> IF id = 0 THEN 1 ELSE NoItem]
    /\ subTables = {0}
    /\ lpFreedId = <<>>
    /\ iNextFreeId = 1
    /\ idFile = {<<n, 0>>}

-----------------------------------------------------------------------------
(* The array, the table indexed by id and the file say the same, whatever  *)
(* was refused, renamed or removed in between: a name has one id, an id    *)
(* points at the block that holds it, a freed block is pointed at by none  *)
(* and the next id is new (IdDatabase.c 346-370, 398-434, 462-485).        *)
IdTablesAgree ==
    /\ item \in [Items -> [name : Names \cup {NoName}, id : Ids \cup {NoId, Cardinality(Ids)}]]
    /\ \A i, j \in lpIdArray : i # j => item[i].name # item[j].name
    /\ \A id \in Ids :
         IF lpNameTable[id] = NoItem THEN \A i \in lpIdArray : item[i].id # id
                                     ELSE /\ lpNameTable[id] \in lpIdArray
                                          /\ item[lpNameTable[id]].id = id
    /\ \A i \in lpIdArray : item[i].id \in Ids /\ item[i].id < iNextFreeId
    /\ lpIdArray \cap ToSet(lpFreedId) = {}
    /\ IsInjective(lpFreedId)
    /\ Entries(lpIdArray, item) \subseteq idFile
=============================================================================

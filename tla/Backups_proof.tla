---------------------------- MODULE Backups_proof ----------------------------
(***************************************************************************)
(* Proofs about Backups, for any directories and any number of snapshots,  *)
(* failures and moves.                                                     *)
(***************************************************************************)
EXTENDS Backups, FiniteSetTheorems, WellFoundedInduction, TLAPS

Has(d, id) == id \in 1..last /\ File(d, id) \in DOMAIN files
Whole(d, id) == Has(d, id) /\ files[File(d, id)] = "whole"
Entry(d, id) == id \in Manifest(d)

Creations == [at : {"add"}, for : {"create"}, id : Nat, to : Dirs]
Movements == [at : {"copy", "add", "remove", "unlink"}, for : {"move"}, id : Nat,
              from : Dirs, to : Dirs]
Deletions == [at : {"unlink", "remove"}, for : {"delete"}, id : Nat, from : Dirs]
Runs(what) == op # Idle /\ op.for = what

Typed ==
    /\ named \in [1..last -> 1..last] /\ DOMAIN files \subseteq Dirs \X (1..last)
    /\ creating \subseteq Dirs \X (1..last)
    /\ \A d \in Dirs : lists[d] = Torn \/ lists[d] \subseteq 1..last
    /\ DOMAIN lists = Dirs
    /\ last \in Nat /\ cuts \in Nat /\ torn \in BOOLEAN
    /\ answered \subseteq 1..last /\ deleted \subseteq 1..last
    /\ op = Idle \/ (op \in Creations \cup Movements \cup Deletions /\ op.id \in 1..last)
    /\ ~torn => \A d \in Dirs : lists[d] # Torn

(* A snapshot that nobody was told of yet has no entry and, unless another     *)
(* shares its name, one file.                                                  *)
NewIsAlone ==
    /\ \A f, g \in creating : f[2] = g[2] => f = g
    /\ \A f \in creating :
          /\ f[2] \notin answered \cup deleted /\ ~Going(f[2])
          /\ \A d \in Dirs : ~Entry(d, f[2])
          /\ f[2] \in Own => Has(f[1], f[2]) /\ \A d \in Dirs : Has(d, f[2]) => d = f[1]

CreationIsWhole == Runs("create") =>
    /\ op.id \notin answered \cup deleted /\ \A d \in Dirs : ~Entry(d, op.id)
    /\ op.id \in Own => Whole(op.to, op.id) /\ \A d \in Dirs : Has(d, op.id) => d = op.to

(* A move has what it moves at the one end until it has it at the other. *)
MoveIsBacked == Runs("move") =>
    /\ op.from # op.to
    /\ op.at \in {"copy", "add"} => Entry(op.from, op.id)
    /\ op.at \in {"remove", "unlink"} => Entry(op.to, op.id)
    /\ op.id \in Own =>
          /\ op.at \in {"copy", "add"} => Has(op.from, op.id)
          /\ op.at # "copy" => Has(op.to, op.id)
          /\ cuts < 2 => /\ op.at \in {"copy", "add"} => Whole(op.from, op.id)
                         /\ op.at # "copy" => Whole(op.to, op.id)

DeletionIsAsked == Runs("delete") => op.id \in deleted

(* What an entry leads to is whole, but for what is being copied over it. *)
EntriesAreWhole == cuts < 2 => \A d \in Dirs, id \in Own :
    Entry(d, id) /\ Has(d, id) =>
        Whole(d, id) \/ (op.at = "copy" /\ op.id = id /\ op.to = d)

(* Without a failure, files and entries are where the handlers put them. *)
AtRest(id) ==
    /\ \A d, e \in Dirs : Has(d, id) /\ Has(e, id) => d = e
    /\ \A d \in Dirs : Entry(d, id) => Has(d, id)
    /\ id \in deleted => \A d \in Dirs : ~Has(d, id)
OnTheMove ==
    /\ op.id \notin deleted
    /\ \A d \in Dirs : Has(d, op.id) <=> d \in {op.from, op.to}
    /\ \A d \in Dirs : Entry(d, op.id) <=>
          d \in (IF op.at = "unlink" THEN {} ELSE {op.from})
                  \cup (IF op.at \in {"copy", "add"} THEN {} ELSE {op.to})
GoingAway ==
    /\ \A d \in Dirs : Has(d, op.id) <=> d = op.from /\ op.at = "unlink"
    /\ \A d \in Dirs : Entry(d, op.id) => d = op.from
InPlace == cuts = 0 =>
    /\ ~torn
    /\ \A id \in Own : ~Going(id) => AtRest(id)
    /\ Runs("move") /\ op.id \in Own => OnTheMove
    /\ Runs("delete") /\ op.id \in Own => GoingAway

(* Without a torn manifest, there is an entry for each. *)
EachHasAnEntry == ~torn => \A id \in Own \cap (answered \ deleted) :
    Going(id) \/ \E d \in Dirs : Entry(d, id) /\ Has(d, id)

EachHasACopy == cuts < 2 =>
    \A id \in Own \cap (answered \ deleted) : \E d \in Dirs : Whole(d, id)

BackupsInv ==
    /\ Typed /\ NewIsAlone /\ CreationIsWhole /\ MoveIsBacked /\ DeletionIsAsked
    /\ EntriesAreWhole /\ InPlace /\ EachHasAnEntry /\ EachHasACopy
-----------------------------------------------------------------------------
(* What the operations on files and manifests do to them. *)
(* What is done to the file of one snapshot, no snapshot notices that shares   *)
(* its name with none.                                                         *)
LEMMA SameNames ==
    ASSUME UNCHANGED <<named, last>>
    PROVE  Own' = Own /\ \A d, i : File(d, i)' = File(d, i)
BY DEF Own, HasItsName, File

LEMMA OwnFile ==
    ASSUME NEW d, NEW i \in 1..last, NEW e, NEW j \in Own
    PROVE  j \in 1..last /\ (File(e, j) = File(d, i) <=> e = d /\ j = i)
BY DEF Own, HasItsName, File

LEMMA SameFiles ==
    ASSUME UNCHANGED <<named, last>>, files' = files
    PROVE  /\ Own' = Own
           /\ \A e, j : (Has(e, j)' <=> Has(e, j)) /\ (Whole(e, j)' <=> Whole(e, j))
BY SameNames DEF Has, Whole

LEMMA WithEffect ==
    ASSUME UNCHANGED <<named, last>>, NEW d, NEW i \in 1..last, NEW s,
           files' = With(File(d, i), s)
    PROVE  /\ Own' = Own
           /\ \A e : \A j \in Own :
                 /\ Has(e, j)' <=> Has(e, j) \/ (e = d /\ j = i)
                 /\ Whole(e, j)' <=> IF e = d /\ j = i THEN s = "whole" ELSE Whole(e, j)
BY SameNames, OwnFile DEF Has, Whole, With

LEMMA WithoutEffect ==
    ASSUME UNCHANGED <<named, last>>, NEW d, NEW i \in 1..last, files' = Without(File(d, i))
    PROVE  /\ Own' = Own
           /\ \A e : \A j \in Own :
                 /\ Has(e, j)' <=> Has(e, j) /\ ~(e = d /\ j = i)
                 /\ Whole(e, j)' <=> Whole(e, j) /\ ~(e = d /\ j = i)
BY SameNames, OwnFile DEF Has, Whole, Without

LEMMA SameLists ==
    ASSUME lists' = lists
    PROVE  \A e, j : Entry(e, j)' <=> Entry(e, j)
BY DEF Entry, Manifest

LEMMA TornEffect ==
    ASSUME Typed, NEW d \in Dirs, lists' = [lists EXCEPT ![d] = Torn]
    PROVE  \A e \in Dirs : \A j : Entry(e, j)' <=> Entry(e, j) /\ e # d
BY DEF Entry, Manifest, Typed

LEMMA AddedEffect ==
    ASSUME Typed, NEW d \in Dirs, NEW i \in 1..last,
           lists' = [lists EXCEPT ![d] = Manifest(d) \union {i}]
    PROVE  /\ \A e \in Dirs : \A j : Entry(e, j)' <=> Entry(e, j) \/ (e = d /\ j = i)
           /\ \A e \in Dirs : lists'[e] = Torn \/ lists'[e] \subseteq 1..last
           /\ ~torn => \A e \in Dirs : lists'[e] # Torn
<1>1. Manifest(d) \subseteq 1..last /\ Manifest(d) \union {i} # Torn
  BY DEF Typed, Manifest, Torn
<1> QED BY <1>1 DEF Entry, Manifest, Typed

LEMMA RemovedEffect ==
    ASSUME Typed, NEW d \in Dirs, NEW i \in 1..last,
           lists' = [lists EXCEPT ![d] = IF @ = Torn THEN Torn ELSE @ \ {i}]
    PROVE  /\ \A e \in Dirs : \A j : Entry(e, j)' <=> Entry(e, j) /\ ~(e = d /\ j = i)
           /\ \A e \in Dirs : lists'[e] = Torn \/ lists'[e] \subseteq 1..last
           /\ ~torn => \A e \in Dirs : lists'[e] # Torn
<1>1. lists[d] # Torn => lists[d] \ {i} \subseteq 1..last /\ lists[d] \ {i} # Torn
  BY DEF Typed, Torn
<1> QED BY <1>1 DEF Entry, Manifest, Typed

(* The files and entries there are, and which handler is at a step. *)
LEMMA KnownNames ==
    ASSUME Typed, NEW d \in Dirs, NEW i
    PROVE  /\ i \in 1..last => File(d, i) \in Dirs \X (1..last)
           /\ Entry(d, i) => i \in 1..last
BY DEF Typed, Entry, Manifest, File

LEMMA StepOf ==
    ASSUME Typed
    PROVE  /\ op.at = "copy" => op \in Movements
           /\ op.at = "add" => op \in Movements \cup Creations
           /\ op.at \in {"remove", "unlink"} => op \in Movements \cup Deletions
           /\ op.at \in {"copy", "add", "remove", "unlink"} => op.id \in 1..last /\ op # Idle
           /\ op # Idle => op.at # "idle"
BY DEF Typed, Idle, Creations, Movements, Deletions

LEMMA LeastExists == ASSUME NEW S \in SUBSET Nat, S # {} PROVE \E i \in S : \A j \in S : i <= j
<1> DEFINE Less == OpToRel(<, Nat)
<1>1. IsWellFoundedOn(Less, Nat)
  BY NatLessThanWellFounded, Zenon DEF Less
<1>2. PICK x \in S : \A y \in S : <<y, x>> \notin Less
  BY <1>1, WFMin
<1>3. Less = {p \in Nat \X Nat : p[1] < p[2]}
  BY Zenon DEF Less, OpToRel
<1>4. ASSUME NEW y \in S PROVE x <= y
  <2>1. <<y, x>> \in Nat \X Nat /\ <<y, x>>[1] = y /\ <<y, x>>[2] = x
    OBVIOUS
  <2>2. ~(y < x)
    BY <1>2, <1>3, <2>1
  <2> QED BY <2>2
<1> QED BY <1>4

(* listSnapshots: the first entry with a file, in the order of the scan. *)
LEMMA FoundIsFirst ==
    ASSUME BackupsAssumption, NEW id \in 1..last, Listed(id) # {}
    PROVE  Found(id) \in Dirs /\ Entry(Found(id), id) /\ Has(Found(id), id)
<1>1. Listed(id) \in SUBSET Nat
  BY DEF Listed, BackupsAssumption
<1>2. \E i \in Listed(id) : \A j \in Listed(id) : i <= j
  BY <1>1, LeastExists
<1>3. PICK i \in Listed(id) : Found(id) = Scanned[i]
  BY <1>2 DEF Found
<1> QED BY <1>3 DEF Listed, Entry, Has, Dirs, Locations

LEMMA InitialState == BackupsInit => BackupsInv
<1> SUFFICES ASSUME BackupsInit PROVE BackupsInv
  OBVIOUS
<1> USE DEF BackupsInit
<1>1. DOMAIN files = {} /\ (\A d, i : ~Has(d, i)) /\ (\A d \in Dirs : lists[d] = {} /\ {} # Torn)
  BY DEF Has, Torn
<1>0. Own = {} /\ named \in [1..last -> 1..last]
  <2>1. 1..0 = {} /\ <<>> \in [{} -> {}]
    OBVIOUS
  <2> QED BY <2>1 DEF Own
<1>2. Typed
  BY <1>0, <1>1 DEF Typed
<1>3. NewIsAlone /\ CreationIsWhole /\ MoveIsBacked /\ DeletionIsAsked
  BY DEF NewIsAlone, CreationIsWhole, MoveIsBacked, DeletionIsAsked, Runs
<1>4. EntriesAreWhole /\ InPlace
  BY <1>0 DEF EntriesAreWhole, InPlace, Runs
<1>5. EachHasAnEntry /\ EachHasACopy
  BY DEF EachHasAnEntry, EachHasACopy
<1> QED BY <1>2, <1>3, <1>4, <1>5 DEF BackupsInv

(* createSnapshot begins. *)
LEMMA CreateKeeps == ASSUME BackupsAssumption, BackupsInv, Create PROVE BackupsInv'
<1> USE DEF BackupsInv
<1>1. PICK dir \in Dirs, name \in {last + 1} \cup {named[i] : i \in 1..last} :
          /\ named' = [i \in 1..(last + 1) |-> IF i = last + 1 THEN name ELSE named[i]]
          /\ files' = With(<<dir, name>>, "half")
          /\ creating' = creating \cup {<<dir, last + 1>>}
  BY DEF Create
<1>2. op = Idle /\ last' = last + 1 /\ UNCHANGED <<lists, op, answered, deleted, cuts, torn>>
  BY DEF Create
<1>3. last \in Nat /\ last + 1 \notin 1..last /\ 1..last' = 1..last \cup {last + 1} /\ name \in 1..last'
  BY <1>2 DEF Typed
<1>4. \A j \in 1..last : named'[j] = named[j]
  BY <1>1, <1>3
<1>5. named'[last + 1] = name
  BY <1>1, <1>3
<1>6. \A j \in Own' : j \in 1..last => j \in Own /\ named[j] # name
  BY <1>2, <1>3, <1>4, <1>5 DEF Own, HasItsName
<1>7. last + 1 \in Own' => name = last + 1
  BY <1>2, <1>3, <1>4, <1>5 DEF Own, HasItsName
<1>8. \A e : \A j \in Own' : j \in 1..last =>
         j \in Own /\ (Has(e, j)' <=> Has(e, j)) /\ (Whole(e, j)' <=> Whole(e, j))
  BY <1>1, <1>2, <1>3, <1>4, <1>6 DEF Has, Whole, File, With
<1>9. \A i \in Own' : i = last + 1 => \A e : Has(e, i)' <=> e = dir
  <2> SUFFICES ASSUME NEW i \in Own', i = last + 1, NEW e PROVE Has(e, i)' <=> e = dir
    OBVIOUS
  <2>1. named'[i] = last + 1 /\ name = last + 1 /\ i \in 1..last'
    BY <1>3, <1>5, <1>7
  <2>2. <<e, last + 1>> \notin DOMAIN files
    BY <1>3 DEF Typed
  <2>3. DOMAIN files' = DOMAIN files \cup {<<dir, last + 1>>}
    BY <1>1, <2>1 DEF With
  <2> QED BY <2>1, <2>2, <2>3 DEF Has, File
<1>10. \A e, j : Entry(e, j)' <=> Entry(e, j)
  BY <1>2, SameLists
<1>11. last + 1 \notin answered \cup deleted /\ \A d \in Dirs : ~Entry(d, last + 1)
  BY <1>3, KnownNames DEF Typed
<1>12. Own' \subseteq 1..last \cup {last + 1} /\ answered \cup deleted \subseteq 1..last
  BY <1>3 DEF Own, Typed
<1>13. Typed'
  <2>1. DOMAIN files' \subseteq Dirs \X (1..last') /\ creating' \subseteq Dirs \X (1..last')
    BY <1>1, <1>3 DEF Typed, With
  <2>2. named' \in [1..last' -> 1..last']
    BY <1>1, <1>2, <1>3 DEF Typed
  <2>3. last' \in Nat
    BY <1>2, <1>3
  <2> QED BY <1>2, <1>3, <2>1, <2>2, <2>3 DEF Typed, Idle
<1>14. NewIsAlone'
  <2>1. \A f \in creating : f[2] \in 1..last
    BY DEF Typed
  <2>2. \A f, g \in creating' : f[2] = g[2] => f = g
    BY <1>1, <1>3, <2>1 DEF NewIsAlone
  <2>3. ASSUME NEW f \in creating
        PROVE  (/\ f[2] \notin answered \cup deleted /\ ~Going(f[2])
                /\ \A d \in Dirs : ~Entry(d, f[2])
                /\ f[2] \in Own => Has(f[1], f[2]) /\ \A d \in Dirs : Has(d, f[2]) => d = f[1])'
    BY <1>2, <1>8, <1>10, <2>1, <2>3 DEF NewIsAlone, Going
  <2>4. ASSUME NEW f \in {<<dir, last + 1>>}
        PROVE  (/\ f[2] \notin answered \cup deleted /\ ~Going(f[2])
                /\ \A d \in Dirs : ~Entry(d, f[2])
                /\ f[2] \in Own => Has(f[1], f[2]) /\ \A d \in Dirs : Has(d, f[2]) => d = f[1])'
    <3>1. f[1] = dir /\ f[2] = last + 1
      BY <2>4
    <3> QED BY <1>2, <1>9, <1>10, <1>11, <3>1 DEF Going
  <2> QED BY <1>1, <2>2, <2>3, <2>4 DEF NewIsAlone
<1>15. CreationIsWhole' /\ MoveIsBacked' /\ DeletionIsAsked'
  BY <1>2 DEF CreationIsWhole, MoveIsBacked, DeletionIsAsked, Runs
<1>16. EntriesAreWhole'
  <2> SUFFICES ASSUME cuts < 2, NEW d \in Dirs, NEW id \in Own', Entry(d, id), Has(d, id)'
               PROVE  Whole(d, id)'
    BY <1>2, <1>10 DEF EntriesAreWhole
  <2>1. id \in 1..last
    BY KnownNames
  <2> QED BY <1>2, <1>8, <2>1 DEF EntriesAreWhole, Idle
<1>17. InPlace'
  <2> SUFFICES ASSUME cuts' = 0 PROVE ~torn' /\ \A id \in Own' : AtRest(id)'
    BY <1>2 DEF InPlace, Runs
  <2>1. ASSUME NEW id \in Own', id = last + 1 PROVE AtRest(id)'
    BY <2>1, <1>2, <1>9, <1>10, <1>11 DEF AtRest
  <2>2. ASSUME NEW id \in Own', id \in 1..last PROVE AtRest(id)'
    <3>1. AtRest(id)
      BY <1>2, <1>8, <2>2 DEF InPlace, Going
    <3> QED BY <1>2, <1>8, <1>10, <2>2, <3>1 DEF AtRest
  <2>3. ~torn'
    BY <1>2 DEF InPlace
  <2> QED BY <1>12, <2>1, <2>2, <2>3
<1>18. EachHasAnEntry'
  BY <1>2, <1>8, <1>10, <1>12 DEF EachHasAnEntry, Going
<1>19. EachHasACopy'
  BY <1>2, <1>8, <1>12 DEF EachHasACopy
<1> QED BY <1>13, <1>14, <1>15, <1>16, <1>17, <1>18, <1>19

(* The backup that createSnapshot awaits ends, well or not. *)
LEMMA BackupEndsKeeps == ASSUME BackupsAssumption, BackupsInv, BackupEnds PROVE BackupsInv'
<1> USE DEF BackupsInv
<1>1. PICK file \in creating :
          /\ creating' = creating \ {file} /\ files' = With(File(file[1], file[2]), "whole")
          /\ File(file[1], file[2]) \in DOMAIN files
          /\ op' = [at |-> "add", for |-> "create", id |-> file[2], to |-> file[1]]
  BY DEF BackupEnds
<1>2. op = Idle /\ UNCHANGED <<named, lists, last, answered, deleted, cuts, torn>>
  BY DEF BackupEnds
<1>3. file[1] \in Dirs /\ file[2] \in 1..last /\ Has(file[1], file[2])
  BY <1>1 DEF Typed, Has
<1>4. Own' = Own /\ \A e : \A j \in Own :
        /\ Has(e, j)' <=> Has(e, j)
        /\ Whole(e, j)' <=> Whole(e, j) \/ (e = file[1] /\ j = file[2])
  BY <1>1, <1>2, <1>3, WithEffect
<1>5. \A e, j : Entry(e, j)' <=> Entry(e, j)
  BY <1>2, SameLists
<1>6. op' # Idle /\ op' \in Creations /\ op'.for = "create" /\ op'.at = "add"
       /\ op'.id = file[2] /\ op'.to = file[1]
  BY <1>1, <1>3 DEF Idle, Creations, Typed
<1>7. /\ file[2] \notin answered \cup deleted /\ \A d \in Dirs : ~Entry(d, file[2])
      /\ file[2] \in Own => \A d \in Dirs : Has(d, file[2]) => d = file[1]
  BY DEF NewIsAlone
<1>8. \A f \in creating : f[1] \in Dirs /\ (f[2] = file[2] => f = file)
  BY DEF Typed, NewIsAlone
<1>9. Typed'
  <2>1. DOMAIN files' = DOMAIN files
    BY <1>1 DEF With, Typed
  <2> QED BY <1>1, <1>2, <1>3, <1>6, <2>1 DEF Typed
<1>10. NewIsAlone'
  <2> SUFFICES ASSUME NEW f \in creating, f # file
               PROVE  (/\ f[2] \notin answered \cup deleted /\ ~Going(f[2])
                       /\ \A d \in Dirs : ~Entry(d, f[2])
                       /\ f[2] \in Own => Has(f[1], f[2]) /\ \A d \in Dirs : Has(d, f[2]) => d = f[1])'
    BY <1>1 DEF NewIsAlone
  <2>1. f[2] # file[2]
    BY <1>8
  <2> QED BY <1>2, <1>4, <1>5, <1>6, <2>1 DEF NewIsAlone, Going
<1>11. CreationIsWhole'
  BY <1>1, <1>2, <1>3, <1>4, <1>5, <1>6, <1>7, <1>8 DEF CreationIsWhole, Runs
<1>12. MoveIsBacked'
  BY <1>1, <1>2, <1>3, <1>4, <1>5, <1>6, <1>7, <1>8 DEF MoveIsBacked, Runs
<1>13. DeletionIsAsked'
  BY <1>1, <1>2, <1>3, <1>4, <1>5, <1>6, <1>7, <1>8 DEF DeletionIsAsked, Runs
<1>14. EntriesAreWhole'
  BY <1>2, <1>4, <1>5 DEF EntriesAreWhole, Idle
<1>15. InPlace'
  BY <1>1, <1>2, <1>3, <1>4, <1>5, <1>6, <1>7, <1>8 DEF InPlace, AtRest, OnTheMove, GoingAway, Going, Runs
<1>16. EachHasAnEntry'
  BY <1>1, <1>2, <1>3, <1>4, <1>5, <1>6, <1>7, <1>8 DEF EachHasAnEntry, Going
<1>17. EachHasACopy'
  BY <1>1, <1>2, <1>3, <1>4, <1>5, <1>6, <1>7, <1>8 DEF EachHasACopy
<1> QED BY <1>9, <1>10, <1>11, <1>12, <1>13, <1>14, <1>15, <1>16, <1>17

LEMMA BackupFailsKeeps == ASSUME BackupsAssumption, BackupsInv, BackupFails PROVE BackupsInv'
<1> USE DEF BackupsInv
<1>1. PICK file \in creating : creating' = creating \ {file}
  BY DEF BackupFails
<1>2. op = Idle /\ cuts' = cuts + 1 /\ UNCHANGED <<named, files, lists, op, last, answered, deleted, torn>>
  BY DEF BackupFails, Cut
<1>3. cuts \in Nat
  BY DEF Typed
<1>4. Own' = Own /\ \A e, j : (Has(e, j)' <=> Has(e, j)) /\ (Whole(e, j)' <=> Whole(e, j))
  BY <1>2, SameFiles
<1>5. \A e, j : Entry(e, j)' <=> Entry(e, j)
  BY <1>2, SameLists
<1>6. Typed'
  <2>1. cuts' \in Nat
    BY <1>1, <1>2, <1>3
  <2> QED BY <1>1, <1>2, <1>3, <2>1 DEF Typed
<1>7. NewIsAlone'
  BY <1>1, <1>2, <1>3, <1>4, <1>5 DEF NewIsAlone, Going, Typed
<1>8. CreationIsWhole'
  BY <1>1, <1>2, <1>3, <1>4, <1>5 DEF CreationIsWhole, Runs
<1>9. MoveIsBacked'
  BY <1>1, <1>2, <1>3, <1>4, <1>5 DEF MoveIsBacked, Runs
<1>10. DeletionIsAsked'
  BY <1>1, <1>2, <1>3, <1>4, <1>5 DEF DeletionIsAsked, Runs
<1>11. EntriesAreWhole'
  BY <1>1, <1>2, <1>3, <1>4, <1>5 DEF EntriesAreWhole
<1>12. InPlace'
  BY <1>1, <1>2, <1>3, <1>4, <1>5 DEF InPlace, AtRest, OnTheMove, GoingAway, Going, Runs
<1>13. EachHasAnEntry'
  BY <1>1, <1>2, <1>3, <1>4, <1>5 DEF EachHasAnEntry, Going
<1>14. EachHasACopy'
  BY <1>1, <1>2, <1>3, <1>4, <1>5 DEF EachHasACopy
<1> QED BY <1>6, <1>7, <1>8, <1>9, <1>10, <1>11, <1>12, <1>13, <1>14

(* moveSnapshot begins. *)
LEMMA MoveKeeps == ASSUME BackupsAssumption, BackupsInv, Move PROVE BackupsInv'
<1> USE DEF BackupsInv
<1>1. PICK id \in 1..last, to \in Dirs : Listed(id) # {} /\ to # Found(id)
          /\ files' = With(File(to, id), "half")
          /\ op' = [at |-> "copy", for |-> "move", id |-> id, from |-> Found(id), to |-> to]
  BY DEF Move
<1>2. op = Idle /\ UNCHANGED <<named, lists, creating, last, answered, deleted, cuts, torn>>
  BY DEF Move
<1>3. Found(id) \in Dirs /\ Entry(Found(id), id) /\ Has(Found(id), id)
  BY <1>1, FoundIsFirst
<1>4. Own' = Own /\ \A e : \A j \in Own :
        /\ Has(e, j)' <=> Has(e, j) \/ (e = to /\ j = id)
        /\ Whole(e, j)' <=> Whole(e, j) /\ ~(e = to /\ j = id)
  BY <1>1, <1>2, WithEffect
<1>5. \A e, j : Entry(e, j)' <=> Entry(e, j)
  BY <1>2, SameLists
<1>6. op' # Idle /\ op' \in Movements /\ op'.for = "move" /\ op'.at = "copy"
       /\ op'.id = id /\ op'.from = Found(id) /\ op'.to = to
  BY <1>1, <1>3 DEF Idle, Movements, Typed
<1>7. cuts < 2 /\ id \in Own => Whole(Found(id), id)
  BY <1>2, <1>3 DEF EntriesAreWhole, Idle
<1>8. \A f \in creating : f[2] # id
  BY <1>3 DEF NewIsAlone
<1>9. Typed'
  <2>1. DOMAIN files' = DOMAIN files \cup {File(to, id)}
    BY <1>1 DEF With
  <2>2. File(to, id) \in Dirs \X (1..last)
    BY KnownNames
  <2> QED BY <1>1, <1>2, <1>3, <1>6, <2>1, <2>2 DEF Typed
<1>10. NewIsAlone'
  BY <1>1, <1>2, <1>3, <1>4, <1>5, <1>6, <1>7, <1>8 DEF NewIsAlone, Going, Typed
<1>11. CreationIsWhole'
  BY <1>1, <1>2, <1>3, <1>4, <1>5, <1>6, <1>7, <1>8 DEF CreationIsWhole, Runs
<1>12. MoveIsBacked'
  BY <1>1, <1>2, <1>3, <1>4, <1>5, <1>6, <1>7, <1>8 DEF MoveIsBacked, Runs
<1>13. DeletionIsAsked'
  BY <1>1, <1>2, <1>3, <1>4, <1>5, <1>6, <1>7, <1>8 DEF DeletionIsAsked, Runs
<1>14. EntriesAreWhole'
  BY <1>2, <1>4, <1>5, <1>6 DEF EntriesAreWhole, Idle
<1>15. InPlace'
  BY <1>1, <1>2, <1>3, <1>4, <1>5, <1>6, <1>7, <1>8 DEF InPlace, AtRest, OnTheMove, GoingAway, Going, Runs
<1>16. EachHasAnEntry'
  BY <1>1, <1>2, <1>3, <1>4, <1>5, <1>6, <1>7, <1>8 DEF EachHasAnEntry, Going
<1>17. EachHasACopy'
  BY <1>1, <1>2, <1>3, <1>4, <1>5, <1>6, <1>7, <1>8 DEF EachHasACopy
<1> QED BY <1>9, <1>10, <1>11, <1>12, <1>13, <1>14, <1>15, <1>16, <1>17

(* It has copied the file, or could not. *)
LEMMA CopyEndsKeeps == ASSUME BackupsAssumption, BackupsInv, CopyEnds PROVE BackupsInv'
<1> USE DEF BackupsInv
<1>1. op.at = "copy" /\ files' = With(File(op.to, op.id), files[File(op.from, op.id)])
       /\ op' = [op EXCEPT !.at = "add"]
       /\ UNCHANGED <<named, lists, creating, last, answered, deleted, cuts, torn>>
  BY DEF CopyEnds
<1>2. op \in Movements /\ op # Idle /\ op.for = "move" /\ op.id \in 1..last
  BY <1>1, StepOf DEF Movements
<1>3. op' # Idle /\ op' \in Movements /\ op'.for = "move" /\ op'.at = "add"
       /\ op'.id = op.id /\ op'.from = op.from /\ op'.to = op.to
  BY <1>1, <1>2 DEF Idle, Movements
<1>4. /\ op.from # op.to /\ Entry(op.from, op.id)
      /\ op.id \in Own => Has(op.from, op.id) /\ (cuts < 2 => Whole(op.from, op.id))
  BY <1>1, <1>2 DEF MoveIsBacked, Runs
<1>5. Own' = Own /\ \A e : \A j \in Own :
        /\ Has(e, j)' <=> Has(e, j) \/ (e = op.to /\ j = op.id)
        /\ Whole(e, j)' <=> IF e = op.to /\ j = op.id THEN Whole(op.from, op.id) ELSE Whole(e, j)
  BY <1>1, <1>2, <1>4, WithEffect DEF Whole
<1>6. \A e, j : Entry(e, j)' <=> Entry(e, j)
  BY <1>1, SameLists
<1>7. \A f \in creating : f[2] # op.id
  BY <1>2 DEF NewIsAlone, Going
<1>8. Typed'
  <2>1. DOMAIN files' = DOMAIN files \cup {File(op.to, op.id)}
    BY <1>1 DEF With
  <2>2. File(op.to, op.id) \in Dirs \X (1..last)
    BY <1>2, KnownNames DEF Movements
  <2> QED BY <1>1, <1>2, <1>3, <2>1, <2>2 DEF Typed
<1>9. NewIsAlone'
  BY <1>1, <1>2, <1>3, <1>4, <1>5, <1>6, <1>7 DEF NewIsAlone, Going, Typed
<1>10. CreationIsWhole'
  BY <1>1, <1>2, <1>3, <1>4, <1>5, <1>6, <1>7 DEF CreationIsWhole, Runs
<1>11. MoveIsBacked'
  BY <1>1, <1>2, <1>3, <1>4, <1>5, <1>6, <1>7 DEF MoveIsBacked, Runs
<1>12. DeletionIsAsked'
  BY <1>1, <1>2, <1>3, <1>4, <1>5, <1>6, <1>7 DEF DeletionIsAsked, Runs
<1>13. EntriesAreWhole'
  BY <1>1, <1>2, <1>3, <1>4, <1>5, <1>6, <1>7 DEF EntriesAreWhole
<1>14. InPlace'
  BY <1>1, <1>2, <1>3, <1>4, <1>5, <1>6, <1>7 DEF InPlace, AtRest, OnTheMove, GoingAway, Going, Runs
<1>15. EachHasAnEntry'
  BY <1>1, <1>2, <1>3, <1>4, <1>5, <1>6, <1>7 DEF EachHasAnEntry, Going
<1>16. EachHasACopy'
  BY <1>1, <1>2, <1>3, <1>4, <1>5, <1>6, <1>7 DEF EachHasACopy
<1> QED BY <1>8, <1>9, <1>10, <1>11, <1>12, <1>13, <1>14, <1>15, <1>16

LEMMA CopyFailsKeeps == ASSUME BackupsAssumption, BackupsInv, CopyFails PROVE BackupsInv'
<1> USE DEF BackupsInv
<1>1. op.at = "copy" /\ files' = Without(File(op.to, op.id)) /\ op' = Idle /\ cuts' = cuts + 1
       /\ UNCHANGED <<named, lists, creating, last, answered, deleted, torn>>
  BY DEF CopyFails, Cut
<1>2. op \in Movements /\ op # Idle /\ op.for = "move" /\ op.id \in 1..last /\ cuts \in Nat
  BY <1>1, StepOf DEF Movements, Typed
<1>3. /\ op.from # op.to /\ op.from \in Dirs /\ Entry(op.from, op.id)
      /\ op.id \in Own => Has(op.from, op.id) /\ (cuts < 2 => Whole(op.from, op.id))
  BY <1>1, <1>2 DEF MoveIsBacked, Runs, Movements
<1>4. Own' = Own /\ \A e : \A j \in Own :
        /\ Has(e, j)' <=> Has(e, j) /\ ~(e = op.to /\ j = op.id)
        /\ Whole(e, j)' <=> Whole(e, j) /\ ~(e = op.to /\ j = op.id)
  BY <1>1, <1>2, WithoutEffect
<1>5. \A e, j : Entry(e, j)' <=> Entry(e, j)
  BY <1>1, SameLists
<1>6. \A f \in creating : f[2] # op.id
  BY <1>2 DEF NewIsAlone, Going
<1>7. Typed'
  <2>1. DOMAIN files' \subseteq DOMAIN files /\ cuts' \in Nat
    BY <1>1, <1>2 DEF Without
  <2> QED BY <1>1, <1>2, <2>1 DEF Typed
<1>8. NewIsAlone'
  BY <1>1, <1>2, <1>3, <1>4, <1>5, <1>6 DEF NewIsAlone, Going, Typed
<1>9. CreationIsWhole'
  BY <1>1, <1>2, <1>3, <1>4, <1>5, <1>6 DEF CreationIsWhole, Runs
<1>10. MoveIsBacked'
  BY <1>1, <1>2, <1>3, <1>4, <1>5, <1>6 DEF MoveIsBacked, Runs
<1>11. DeletionIsAsked'
  BY <1>1, <1>2, <1>3, <1>4, <1>5, <1>6 DEF DeletionIsAsked, Runs
<1>12. EntriesAreWhole'
  BY <1>1, <1>2, <1>3, <1>4, <1>5, <1>6 DEF EntriesAreWhole
<1>13. InPlace'
  BY <1>1, <1>2, <1>3, <1>4, <1>5, <1>6 DEF InPlace, AtRest, OnTheMove, GoingAway, Going, Runs
<1>14. EachHasAnEntry'
  BY <1>1, <1>2, <1>3, <1>4, <1>5, <1>6 DEF EachHasAnEntry, Going
<1>15. EachHasACopy'
  BY <1>1, <1>2, <1>3, <1>4, <1>5, <1>6 DEF EachHasACopy
<1> QED BY <1>7, <1>8, <1>9, <1>10, <1>11, <1>12, <1>13, <1>14, <1>15

(* A manifest is rewritten with the snapshot, or cut short. *)
LEMMA AddEntryKeeps == ASSUME BackupsAssumption, BackupsInv, AddEntry PROVE BackupsInv'
<1> USE DEF BackupsInv
<1>1. op.at = "add" /\ lists' = [lists EXCEPT ![op.to] = Manifest(op.to) \union {op.id}]
       /\ answered' = (IF op.for = "create" THEN answered \union {op.id} ELSE answered)
       /\ op' = AfterAdd(op) /\ UNCHANGED <<named, files, creating, last, deleted, cuts, torn>>
  BY DEF AddEntry
<1>2. op \in Movements \cup Creations /\ op # Idle /\ op.id \in 1..last /\ op.to \in Dirs
  BY <1>1, StepOf DEF Movements, Creations
<1>3. (op.for = "create" /\ op' = Idle)
       \/ (op.for = "move" /\ op \in Movements /\ op' # Idle /\ op' \in Movements /\ op'.for = "move"
           /\ op'.at = "remove" /\ op'.id = op.id /\ op'.from = op.from /\ op'.to = op.to)
  BY <1>1, <1>2 DEF AfterAdd, Idle, Movements, Creations
<1>4. Own' = Own /\ \A e, j : (Has(e, j)' <=> Has(e, j)) /\ (Whole(e, j)' <=> Whole(e, j))
  BY <1>1, SameFiles
<1>5. \A e \in Dirs : \A j : Entry(e, j)' <=> Entry(e, j) \/ (e = op.to /\ j = op.id)
  BY <1>1, <1>2, AddedEffect
<1>6. \A f \in creating : f[2] # op.id
  BY <1>2 DEF NewIsAlone, Going
<1>7. op.for = "create" =>
         /\ op.id \notin deleted /\ \A d \in Dirs : ~Entry(d, op.id)
         /\ op.id \in Own => /\ Whole(op.to, op.id) /\ Has(op.to, op.id)
                             /\ \A d \in Dirs : Has(d, op.id) => d = op.to
  BY <1>2 DEF CreationIsWhole, Runs, Whole
<1>8. op.for = "move" =>
         /\ Entry(op.from, op.id) /\ op.from # op.to /\ op.from \in Dirs
         /\ op.id \in Own => /\ Has(op.from, op.id) /\ Has(op.to, op.id)
                             /\ cuts < 2 => Whole(op.from, op.id) /\ Whole(op.to, op.id)
  BY <1>1, <1>2, <1>3 DEF MoveIsBacked, Runs, Movements
<1>9. Typed'
  <2>1. DOMAIN lists' = Dirs
    BY <1>1 DEF Typed
  <2> QED BY <1>1, <1>2, <1>3, <2>1, AddedEffect DEF Typed
<1>10. NewIsAlone'
  <2>1. ASSUME NEW f \in creating, NEW g \in creating, f[2] = g[2] PROVE f = g
    BY <2>1 DEF NewIsAlone
  <2>2. ASSUME NEW f \in creating
        PROVE  f[2] \notin answered' \cup deleted /\ ~Going(f[2])' /\ \A d \in Dirs : ~Entry(d, f[2])'
    BY <1>1, <1>3, <1>5, <1>6 DEF NewIsAlone, Going
  <2>3. ASSUME NEW f \in creating, f[2] \in Own
        PROVE  Has(f[1], f[2])' /\ \A d \in Dirs : Has(d, f[2])' => d = f[1]
    BY <1>4, <2>3 DEF NewIsAlone
  <2> QED BY <1>1, <1>4, <2>1, <2>2, <2>3 DEF NewIsAlone
<1>11. CreationIsWhole'
  BY <1>1, <1>2, <1>3, <1>4, <1>5, <1>6, <1>7, <1>8 DEF CreationIsWhole, Runs
<1>12. MoveIsBacked'
  BY <1>1, <1>2, <1>3, <1>4, <1>5, <1>6, <1>7, <1>8 DEF MoveIsBacked, Runs
<1>13. DeletionIsAsked'
  BY <1>1, <1>2, <1>3, <1>4, <1>5, <1>6, <1>7, <1>8 DEF DeletionIsAsked, Runs
<1>14. EntriesAreWhole'
  BY <1>1, <1>2, <1>3, <1>4, <1>5, <1>7, <1>8 DEF EntriesAreWhole, Idle
<1>15. InPlace'
  <2> SUFFICES ASSUME cuts' = 0
              PROVE  /\ ~torn' /\ \A id \in Own : ~Going(id)' => AtRest(id)'
                     /\ Runs("move")' /\ op.id \in Own => OnTheMove'
    BY <1>3, <1>4 DEF InPlace, Runs, Idle
  <2>1. ~torn' /\ \A id \in Own : ~Going(id) => AtRest(id)
    BY <1>1 DEF InPlace
  <2>2. ASSUME NEW id \in Own, id # op.id PROVE AtRest(id)'
    BY <1>1, <1>4, <1>5, <2>1, <2>2 DEF AtRest, Going
  <2>4. CASE op.for = "create"
    <3>1. ASSUME NEW id \in Own, id = op.id PROVE AtRest(id)'
      BY <2>4, <3>1, <1>1, <1>4, <1>5, <1>7 DEF AtRest
    <3> QED BY <1>1, <1>3, <2>1, <2>2, <2>4, <3>1 DEF Runs
  <2>5. CASE op.for = "move"
    <3>1. op.id \in Own => OnTheMove
      BY <1>1, <1>2, <2>5 DEF InPlace, Runs
    <3>2. op.id \in Own => OnTheMove'
      BY <1>1, <1>2, <1>3, <1>4, <1>5, <1>8, <2>5, <3>1 DEF OnTheMove
    <3> QED BY <1>1, <1>3, <2>1, <2>2, <2>5, <3>2 DEF Going
  <2> QED BY <1>3, <2>4, <2>5
<1>16. EachHasAnEntry'
  BY <1>1, <1>2, <1>3, <1>4, <1>5, <1>6, <1>7, <1>8 DEF EachHasAnEntry, Going
<1>17. EachHasACopy'
  BY <1>1, <1>2, <1>3, <1>4, <1>5, <1>6, <1>7, <1>8 DEF EachHasACopy
<1> QED BY <1>9, <1>10, <1>11, <1>12, <1>13, <1>14, <1>15, <1>16, <1>17

LEMMA AddFailsKeeps == ASSUME BackupsAssumption, BackupsInv, AddFails PROVE BackupsInv'
<1> USE DEF BackupsInv
<1>1. op.at = "add" /\ lists' = [lists EXCEPT ![op.to] = Torn] /\ torn' = TRUE /\ op' = Idle
       /\ cuts' = cuts + 1 /\ UNCHANGED <<named, files, creating, last, answered, deleted>>
  BY DEF AddFails, Cut
<1>2. op \in Movements \cup Creations /\ op # Idle /\ op.id \in 1..last /\ op.to \in Dirs /\ cuts \in Nat
  BY <1>1, StepOf DEF Movements, Creations, Typed
<1>3. Own' = Own /\ \A e, j : (Has(e, j)' <=> Has(e, j)) /\ (Whole(e, j)' <=> Whole(e, j))
  BY <1>1, SameFiles
<1>4. \A e \in Dirs : \A j : Entry(e, j)' <=> Entry(e, j) /\ e # op.to
  BY <1>1, <1>2, TornEffect
<1>5. Typed'
  <2>1. cuts' \in Nat
    BY <1>1, <1>2
  <2> QED BY <1>1, <1>2, <2>1 DEF Typed
<1>6. NewIsAlone'
  <2>1. ASSUME NEW f \in creating, NEW g \in creating, f[2] = g[2] PROVE f = g
    BY <2>1 DEF NewIsAlone
  <2>2. ASSUME NEW f \in creating
        PROVE  f[2] \notin answered \cup deleted /\ ~Going(f[2])' /\ \A d \in Dirs : ~Entry(d, f[2])'
    BY <1>1, <1>4 DEF NewIsAlone, Going
  <2>3. ASSUME NEW f \in creating, f[2] \in Own
        PROVE  Has(f[1], f[2])' /\ \A d \in Dirs : Has(d, f[2])' => d = f[1]
    BY <1>3, <2>3 DEF NewIsAlone
  <2> QED BY <1>1, <1>3, <2>1, <2>2, <2>3 DEF NewIsAlone
<1>7. CreationIsWhole'
  BY <1>1, <1>2, <1>3, <1>4 DEF CreationIsWhole, Runs
<1>8. MoveIsBacked'
  BY <1>1, <1>2, <1>3, <1>4 DEF MoveIsBacked, Runs
<1>9. DeletionIsAsked'
  BY <1>1, <1>2, <1>3, <1>4 DEF DeletionIsAsked, Runs
<1>10. EntriesAreWhole'
  BY <1>1, <1>2, <1>3, <1>4 DEF EntriesAreWhole
<1>11. InPlace'
  BY <1>1, <1>2, <1>3, <1>4 DEF InPlace, AtRest, OnTheMove, GoingAway, Going, Runs
<1>12. EachHasAnEntry'
  BY <1>1, <1>2, <1>3, <1>4 DEF EachHasAnEntry, Going
<1>13. EachHasACopy'
  BY <1>1, <1>2, <1>3, <1>4 DEF EachHasACopy
<1> QED BY <1>5, <1>6, <1>7, <1>8, <1>9, <1>10, <1>11, <1>12, <1>13

(* deleteSnapshot begins. *)
LEMMA DeleteKeeps == ASSUME BackupsAssumption, BackupsInv, Delete PROVE BackupsInv'
<1> USE DEF BackupsInv
<1>1. PICK id \in 1..last : Listed(id) # {} /\ deleted' = deleted \union {id}
          /\ op' = [at |-> "unlink", for |-> "delete", id |-> id, from |-> Found(id)]
  BY DEF Delete
<1>2. op = Idle /\ UNCHANGED <<named, files, lists, creating, last, answered, cuts, torn>>
  BY DEF Delete
<1>3. Found(id) \in Dirs /\ Entry(Found(id), id) /\ Has(Found(id), id)
  BY <1>1, FoundIsFirst
<1>4. op' # Idle /\ op' \in Deletions /\ op'.for = "delete" /\ op'.at = "unlink"
       /\ op'.id = id /\ op'.from = Found(id)
  BY <1>1, <1>3 DEF Idle, Deletions, Typed
<1>5. Own' = Own /\ \A e, j : (Has(e, j)' <=> Has(e, j)) /\ (Whole(e, j)' <=> Whole(e, j))
  BY <1>2, SameFiles
<1>6. \A e, j : Entry(e, j)' <=> Entry(e, j)
  BY <1>2, SameLists
<1>7. \A f \in creating : f[2] # id
  BY <1>3 DEF NewIsAlone
<1>8. Typed'
  BY <1>1, <1>2, <1>3, <1>4, <1>5, <1>6, <1>7 DEF Typed
<1>9. NewIsAlone'
  BY <1>1, <1>2, <1>3, <1>4, <1>5, <1>6, <1>7 DEF NewIsAlone, Going, Typed
<1>10. CreationIsWhole'
  BY <1>1, <1>2, <1>3, <1>4, <1>5, <1>6, <1>7 DEF CreationIsWhole, Runs
<1>11. MoveIsBacked'
  BY <1>1, <1>2, <1>3, <1>4, <1>5, <1>6, <1>7 DEF MoveIsBacked, Runs
<1>12. DeletionIsAsked'
  BY <1>1, <1>2, <1>3, <1>4, <1>5, <1>6, <1>7 DEF DeletionIsAsked, Runs
<1>13. EntriesAreWhole'
  BY <1>2, <1>4, <1>5, <1>6 DEF EntriesAreWhole, Idle
<1>14. InPlace'
  BY <1>1, <1>2, <1>3, <1>4, <1>5, <1>6, <1>7 DEF InPlace, AtRest, OnTheMove, GoingAway, Going, Runs
<1>15. EachHasAnEntry'
  BY <1>1, <1>2, <1>3, <1>4, <1>5, <1>6, <1>7 DEF EachHasAnEntry, Going
<1>16. EachHasACopy'
  BY <1>1, <1>2, <1>3, <1>4, <1>5, <1>6, <1>7 DEF EachHasACopy
<1> QED BY <1>8, <1>9, <1>10, <1>11, <1>12, <1>13, <1>14, <1>15, <1>16

(* The entry is removed, or the manifest is cut short. *)
LEMMA RemoveEntryKeeps == ASSUME BackupsAssumption, BackupsInv, RemoveEntry PROVE BackupsInv'
<1> USE DEF BackupsInv
<1>1. op.at = "remove" /\ lists' = [lists EXCEPT ![op.from] = IF @ = Torn THEN Torn ELSE @ \ {op.id}]
       /\ AfterRemove /\ UNCHANGED <<named, files, creating, last, answered, deleted, cuts, torn>>
  BY DEF RemoveEntry
<1>2. op \in Movements \cup Deletions /\ op # Idle /\ op.id \in 1..last /\ op.from \in Dirs
  BY <1>1, StepOf DEF Movements, Deletions
<1>3. (op.for = "delete" /\ op \in Deletions /\ op' = Idle)
       \/ (op.for = "move" /\ op \in Movements /\ op' # Idle /\ op' \in Movements /\ op'.for = "move"
           /\ op'.at = "unlink" /\ op'.id = op.id /\ op'.from = op.from /\ op'.to = op.to)
  BY <1>1, <1>2 DEF AfterRemove, Idle, Movements, Deletions
<1>4. Own' = Own /\ \A e, j : (Has(e, j)' <=> Has(e, j)) /\ (Whole(e, j)' <=> Whole(e, j))
  BY <1>1, SameFiles
<1>5. \A f \in creating : f[2] # op.id
  BY <1>2 DEF NewIsAlone, Going
<1>6. op.for = "move" =>
         /\ Entry(op.to, op.id) /\ op.from # op.to /\ op.to \in Dirs
         /\ op.id \in Own => Has(op.to, op.id) /\ (cuts < 2 => Whole(op.to, op.id))
  BY <1>1, <1>2, <1>3 DEF MoveIsBacked, Runs, Movements
<1>7. op.for = "delete" => op.id \in deleted
  BY <1>2 DEF DeletionIsAsked, Runs
<1>8. \A e \in Dirs : \A j : Entry(e, j)' <=> Entry(e, j) /\ ~(e = op.from /\ j = op.id)
  BY <1>1, <1>2, RemovedEffect
<1>9. Typed'
  <2>1. DOMAIN lists' = Dirs
    BY <1>1 DEF Typed
  <2> QED BY <1>1, <1>2, <1>3, <2>1, RemovedEffect DEF Typed
<1>10. NewIsAlone'
  BY <1>1, <1>2, <1>3, <1>4, <1>5, <1>6, <1>7, <1>8 DEF NewIsAlone, Going, Typed
<1>11. CreationIsWhole'
  BY <1>1, <1>2, <1>3, <1>4, <1>5, <1>6, <1>7, <1>8 DEF CreationIsWhole, Runs
<1>12. MoveIsBacked'
  BY <1>1, <1>2, <1>3, <1>4, <1>5, <1>6, <1>7, <1>8 DEF MoveIsBacked, Runs
<1>13. DeletionIsAsked'
  BY <1>1, <1>2, <1>3, <1>4, <1>5, <1>6, <1>7, <1>8 DEF DeletionIsAsked, Runs
<1>14. EntriesAreWhole'
  BY <1>1, <1>2, <1>3, <1>4, <1>5, <1>6, <1>7, <1>8 DEF EntriesAreWhole
<1>15. InPlace'
  BY <1>1, <1>2, <1>3, <1>4, <1>5, <1>6, <1>7, <1>8 DEF InPlace, AtRest, OnTheMove, GoingAway, Going, Runs
<1>16. EachHasAnEntry'
  BY <1>1, <1>2, <1>3, <1>4, <1>5, <1>6, <1>7, <1>8 DEF EachHasAnEntry, Going
<1>17. EachHasACopy'
  BY <1>1, <1>2, <1>3, <1>4, <1>5, <1>6, <1>7, <1>8 DEF EachHasACopy
<1> QED BY <1>9, <1>10, <1>11, <1>12, <1>13, <1>14, <1>15, <1>16, <1>17

LEMMA RemoveFailsKeeps == ASSUME BackupsAssumption, BackupsInv, RemoveFails PROVE BackupsInv'
<1> USE DEF BackupsInv
<1>1. op.at = "remove" /\ lists' = [lists EXCEPT ![op.from] = Torn] /\ torn' = TRUE /\ cuts' = cuts + 1
       /\ AfterRemove /\ UNCHANGED <<named, files, creating, last, answered, deleted>>
  BY DEF RemoveFails, Cut
<1>2. op \in Movements \cup Deletions /\ op # Idle /\ op.id \in 1..last /\ op.from \in Dirs /\ cuts \in Nat
  BY <1>1, StepOf DEF Movements, Deletions, Typed
<1>3. (op.for = "delete" /\ op \in Deletions /\ op' = Idle)
       \/ (op.for = "move" /\ op \in Movements /\ op' # Idle /\ op' \in Movements /\ op'.for = "move"
           /\ op'.at = "unlink" /\ op'.id = op.id /\ op'.from = op.from /\ op'.to = op.to)
  BY <1>1, <1>2 DEF AfterRemove, Idle, Movements, Deletions
<1>4. Own' = Own /\ \A e, j : (Has(e, j)' <=> Has(e, j)) /\ (Whole(e, j)' <=> Whole(e, j))
  BY <1>1, SameFiles
<1>5. \A f \in creating : f[2] # op.id
  BY <1>2 DEF NewIsAlone, Going
<1>6. op.for = "move" =>
         /\ Entry(op.to, op.id) /\ op.from # op.to /\ op.to \in Dirs
         /\ op.id \in Own => Has(op.to, op.id) /\ (cuts < 2 => Whole(op.to, op.id))
  BY <1>1, <1>2, <1>3 DEF MoveIsBacked, Runs, Movements
<1>7. op.for = "delete" => op.id \in deleted
  BY <1>2 DEF DeletionIsAsked, Runs
<1>8. \A e \in Dirs : \A j : Entry(e, j)' <=> Entry(e, j) /\ e # op.from
  BY <1>1, <1>2, TornEffect
<1>9. Typed'
  <2>1. cuts' \in Nat
    BY <1>1, <1>2, <1>3
  <2> QED BY <1>1, <1>2, <1>3, <2>1 DEF Typed
<1>10. NewIsAlone'
  BY <1>1, <1>2, <1>3, <1>4, <1>5, <1>6, <1>7, <1>8 DEF NewIsAlone, Going, Typed
<1>11. CreationIsWhole'
  BY <1>1, <1>2, <1>3, <1>4, <1>5, <1>6, <1>7, <1>8 DEF CreationIsWhole, Runs
<1>12. MoveIsBacked'
  BY <1>1, <1>2, <1>3, <1>4, <1>5, <1>6, <1>7, <1>8 DEF MoveIsBacked, Runs
<1>13. DeletionIsAsked'
  BY <1>1, <1>2, <1>3, <1>4, <1>5, <1>6, <1>7, <1>8 DEF DeletionIsAsked, Runs
<1>14. EntriesAreWhole'
  BY <1>1, <1>2, <1>3, <1>4, <1>5, <1>6, <1>7, <1>8 DEF EntriesAreWhole
<1>15. InPlace'
  BY <1>1, <1>2, <1>3, <1>4, <1>5, <1>6, <1>7, <1>8 DEF InPlace, AtRest, OnTheMove, GoingAway, Going, Runs
<1>16. EachHasAnEntry'
  BY <1>1, <1>2, <1>3, <1>4, <1>5, <1>6, <1>7, <1>8 DEF EachHasAnEntry, Going
<1>17. EachHasACopy'
  BY <1>1, <1>2, <1>3, <1>4, <1>5, <1>6, <1>7, <1>8 DEF EachHasACopy
<1> QED BY <1>9, <1>10, <1>11, <1>12, <1>13, <1>14, <1>15, <1>16, <1>17

(* The file is unlinked: first of a deletion, last of a move. *)
LEMMA UnlinkKeeps == ASSUME BackupsAssumption, BackupsInv, Unlink PROVE BackupsInv'
<1> USE DEF BackupsInv
<1>1. op.at = "unlink" /\ files' = Without(File(op.from, op.id))
       /\ op' = (IF op.for = "delete" THEN [op EXCEPT !.at = "remove"] ELSE Idle)
       /\ UNCHANGED <<named, lists, creating, last, answered, deleted, cuts, torn>>
  BY DEF Unlink
<1>2. op \in Movements \cup Deletions /\ op # Idle /\ op.id \in 1..last /\ op.from \in Dirs
  BY <1>1, StepOf DEF Movements, Deletions
<1>3. (op.for = "move" /\ op \in Movements /\ op' = Idle)
       \/ (op.for = "delete" /\ op \in Deletions /\ op' # Idle /\ op' \in Deletions /\ op'.for = "delete"
           /\ op'.at = "remove" /\ op'.id = op.id /\ op'.from = op.from)
  BY <1>1, <1>2 DEF Idle, Movements, Deletions
<1>4. Own' = Own /\ \A e : \A j \in Own :
        /\ Has(e, j)' <=> Has(e, j) /\ ~(e = op.from /\ j = op.id)
        /\ Whole(e, j)' <=> Whole(e, j) /\ ~(e = op.from /\ j = op.id)
  BY <1>1, <1>2, WithoutEffect
<1>5. \A e, j : Entry(e, j)' <=> Entry(e, j)
  BY <1>1, SameLists
<1>6. \A f \in creating : f[2] # op.id
  BY <1>2 DEF NewIsAlone, Going
<1>7. op.for = "move" =>
         /\ Entry(op.to, op.id) /\ op.from # op.to /\ op.to \in Dirs
         /\ op.id \in Own => Has(op.to, op.id) /\ (cuts < 2 => Whole(op.to, op.id))
  BY <1>1, <1>2, <1>3 DEF MoveIsBacked, Runs, Movements
<1>8. op.for = "delete" => op.id \in deleted
  BY <1>2 DEF DeletionIsAsked, Runs
<1>9. Typed'
  <2>1. DOMAIN files' \subseteq DOMAIN files
    BY <1>1 DEF Without
  <2> QED BY <1>1, <1>2, <1>3, <2>1 DEF Typed
<1>10. NewIsAlone'
  BY <1>1, <1>2, <1>3, <1>4, <1>5, <1>6, <1>7, <1>8 DEF NewIsAlone, Going, Typed
<1>11. CreationIsWhole'
  BY <1>1, <1>2, <1>3, <1>4, <1>5, <1>6, <1>7, <1>8 DEF CreationIsWhole, Runs
<1>12. MoveIsBacked'
  BY <1>1, <1>2, <1>3, <1>4, <1>5, <1>6, <1>7, <1>8 DEF MoveIsBacked, Runs
<1>13. DeletionIsAsked'
  BY <1>1, <1>2, <1>3, <1>4, <1>5, <1>6, <1>7, <1>8 DEF DeletionIsAsked, Runs
<1>14. EntriesAreWhole'
  BY <1>1, <1>2, <1>3, <1>4, <1>5, <1>6, <1>7, <1>8 DEF EntriesAreWhole
<1>15. InPlace'
  BY <1>1, <1>2, <1>3, <1>4, <1>5, <1>6, <1>7, <1>8 DEF InPlace, AtRest, OnTheMove, GoingAway, Going, Runs
<1>16. EachHasAnEntry'
  BY <1>1, <1>2, <1>3, <1>4, <1>5, <1>6, <1>7, <1>8 DEF EachHasAnEntry, Going
<1>17. EachHasACopy'
  BY <1>1, <1>2, <1>3, <1>4, <1>5, <1>6, <1>7, <1>8 DEF EachHasACopy
<1> QED BY <1>9, <1>10, <1>11, <1>12, <1>13, <1>14, <1>15, <1>16, <1>17

(* The process ends. *)
LEMMA CrashKeeps == ASSUME BackupsAssumption, BackupsInv, Crash PROVE BackupsInv'
<1> USE DEF BackupsInv
<1>1. (op # Idle \/ creating # {}) /\ op' = Idle /\ creating' = {} /\ cuts' = cuts + 1
       /\ UNCHANGED <<named, files, last, answered, deleted>>
  BY DEF Crash, Cut
<1>2. (lists' = lists /\ torn' = torn)
       \/ (op.at = "add" /\ lists' = [lists EXCEPT ![op.to] = Torn] /\ torn' = TRUE)
       \/ (op.at = "remove" /\ lists' = [lists EXCEPT ![op.from] = Torn] /\ torn' = TRUE)
  BY DEF Crash
<1>3. cuts \in Nat /\ (op.at = "add" => op.to \in Dirs /\ op.id \in 1..last) /\ (op.at = "remove" => op.from \in Dirs /\ op.id \in 1..last)
  BY StepOf DEF Movements, Creations, Deletions, Typed
<1>4. Own' = Own /\ \A e, j : (Has(e, j)' <=> Has(e, j)) /\ (Whole(e, j)' <=> Whole(e, j))
  BY <1>1, SameFiles
<1>5. (\A e \in Dirs : \A j : Entry(e, j)' => Entry(e, j)) /\ (lists' = lists \/ torn')
  BY <1>2, <1>3, SameLists, TornEffect
<1>6. lists' = lists => \A e, j : Entry(e, j)' <=> Entry(e, j)
  BY SameLists
<1>7. cuts = 0 /\ op.id \in Own /\ op.at = "copy" => op.to # op.from /\ (\A d \in Dirs : Entry(d, op.id) => d = op.from)
  BY StepOf DEF InPlace, OnTheMove, MoveIsBacked, Runs, Movements
<1>8. op # Idle => (op.id \in Own \cap (answered \ deleted) => \E d \in Dirs : Entry(d, op.id) /\ Has(d, op.id))
  BY DEF Typed, Creations, Movements, Deletions, CreationIsWhole, MoveIsBacked, DeletionIsAsked, Runs
<1>9. Typed'
  <2>1. cuts' \in Nat /\ creating' \subseteq Dirs \X (1..last)
    BY <1>1, <1>3
  <2>2. CASE lists' = lists /\ torn' = torn
    BY <1>1, <2>1, <2>2 DEF Typed
  <2>3. CASE \E d \in Dirs : lists' = [lists EXCEPT ![d] = Torn] /\ torn' = TRUE
    BY <1>1, <2>1, <2>3 DEF Typed
  <2> QED BY <1>2, <1>3, <2>2, <2>3
<1>10. NewIsAlone'
  BY <1>1, <1>2, <1>3, <1>4, <1>5, <1>6, <1>7, <1>8 DEF NewIsAlone, Going, Typed
<1>11. CreationIsWhole'
  BY <1>1, <1>2, <1>3, <1>4, <1>5, <1>6, <1>7, <1>8 DEF CreationIsWhole, Runs
<1>12. MoveIsBacked'
  BY <1>1, <1>2, <1>3, <1>4, <1>5, <1>6, <1>7, <1>8 DEF MoveIsBacked, Runs
<1>13. DeletionIsAsked'
  BY <1>1, <1>2, <1>3, <1>4, <1>5, <1>6, <1>7, <1>8 DEF DeletionIsAsked, Runs
<1>14. EntriesAreWhole'
  BY <1>1, <1>2, <1>3, <1>4, <1>5, <1>6, <1>7, <1>8 DEF EntriesAreWhole
<1>15. InPlace'
  BY <1>1, <1>2, <1>3, <1>4, <1>5, <1>6, <1>7, <1>8 DEF InPlace, AtRest, OnTheMove, GoingAway, Going, Runs
<1>16. EachHasAnEntry'
  <2> SUFFICES ASSUME ~torn', NEW id \in Own \cap (answered \ deleted)
              PROVE  \E d \in Dirs : Entry(d, id)' /\ Has(d, id)'
    BY <1>1, <1>4 DEF EachHasAnEntry
  <2>1. lists' = lists /\ ~torn
    BY <1>2
  <2>2. \E d \in Dirs : Entry(d, id) /\ Has(d, id)
    BY <1>8, <2>1 DEF EachHasAnEntry, Going
  <2> QED BY <1>4, <1>6, <2>1, <2>2
<1>17. EachHasACopy'
  BY <1>1, <1>2, <1>3, <1>4, <1>5, <1>6, <1>7, <1>8 DEF EachHasACopy
<1> QED BY <1>9, <1>10, <1>11, <1>12, <1>13, <1>14, <1>15, <1>16, <1>17

(* The file was gone when the backup ended. *)
LEMMA BackupIsGoneKeeps == ASSUME BackupsAssumption, BackupsInv, BackupIsGone PROVE BackupsInv'
<1> USE DEF BackupsInv
<1>1. creating' \subseteq creating
       /\ UNCHANGED <<named, files, lists, op, last, answered, deleted, cuts, torn>>
  BY DEF BackupIsGone
<1>2. Own' = Own /\ \A e, j : (Has(e, j)' <=> Has(e, j)) /\ (Whole(e, j)' <=> Whole(e, j))
  BY <1>1, SameFiles
<1>3. \A e, j : Entry(e, j)' <=> Entry(e, j)
  BY <1>1, SameLists
<1>4. Typed'
  BY <1>1 DEF Typed
<1>5. NewIsAlone' /\ CreationIsWhole' /\ MoveIsBacked' /\ DeletionIsAsked'
  BY <1>1, <1>2, <1>3 DEF NewIsAlone, CreationIsWhole, MoveIsBacked, DeletionIsAsked, Going, Runs
<1>6. EntriesAreWhole' /\ InPlace' /\ EachHasAnEntry' /\ EachHasACopy'
  BY <1>1, <1>2, <1>3 DEF EntriesAreWhole, InPlace, EachHasAnEntry, EachHasACopy, Going, Runs,
                          AtRest, OnTheMove, GoingAway
<1> QED BY <1>4, <1>5, <1>6

LEMMA StepKeeps == ASSUME BackupsAssumption, BackupsInv, [BackupsNext]_backupVars PROVE BackupsInv'
<1>1. CASE UNCHANGED backupVars
  <2>1. Own' = Own /\ (\A e, j : (Has(e, j)' <=> Has(e, j)) /\ (Whole(e, j)' <=> Whole(e, j)))
          /\ (\A e, j : Entry(e, j)' <=> Entry(e, j))
    BY <1>1, SameFiles, SameLists DEF backupVars
  <2>2. Typed'
    BY <1>1 DEF BackupsInv, backupVars, Typed
  <2>3. NewIsAlone'
    BY <1>1, <2>1 DEF BackupsInv, backupVars, NewIsAlone, Going
  <2>4. CreationIsWhole' /\ MoveIsBacked' /\ DeletionIsAsked'
    BY <1>1, <2>1 DEF BackupsInv, backupVars, CreationIsWhole, MoveIsBacked, DeletionIsAsked, Runs
  <2>5. EntriesAreWhole' /\ EachHasAnEntry' /\ EachHasACopy'
    BY <1>1, <2>1 DEF BackupsInv, backupVars, EntriesAreWhole, EachHasAnEntry, EachHasACopy, Going
  <2>6. InPlace'
    BY <1>1, <2>1 DEF BackupsInv, backupVars, InPlace, Going, Runs, AtRest, OnTheMove, GoingAway
  <2> QED BY <2>2, <2>3, <2>4, <2>5, <2>6 DEF BackupsInv
<1> QED BY <1>1, CreateKeeps, BackupEndsKeeps, BackupFailsKeeps, BackupIsGoneKeeps, MoveKeeps, CopyEndsKeeps,
           CopyFailsKeeps, AddEntryKeeps, AddFailsKeeps, DeleteKeeps, RemoveEntryKeeps,
           RemoveFailsKeeps, UnlinkKeeps, CrashKeeps DEF BackupsNext

(* What the invariant says of the four parts of BackupsAreSafe. *)
LEMMA AtMostOne ==
    ASSUME NEW S, \A x, y \in S : x = y
    PROVE  Cardinality(S) <= 1
<1>1. CASE S = {}
  BY <1>1, FS_EmptySet
<1>2. CASE S # {}
  <2>1. PICK x \in S : S = {x}
    BY <1>2
  <2> QED BY <2>1, FS_Singleton
<1> QED BY <1>1, <1>2

LEMMA InvariantIsEnough == ASSUME BackupsAssumption, BackupsInv PROVE BackupsAreSafe
<1> USE DEF BackupsInv
<1>1. NoneIsLost
  BY DEF EachHasACopy, NoneIsLost, Copies, Whole, Has
<1>2. NoneIsHidden
  <2> SUFFICES ASSUME ~torn, NEW id \in Own \cap (answered \ deleted), ~Going(id)
              PROVE  Listed(id) # {} \/ \E d \in Folders : id \in Manifest(d)
    BY DEF NoneIsHidden
  <2>1. PICK d \in Dirs : Entry(d, id) /\ Has(d, id)
    BY DEF EachHasAnEntry
  <2>2. CASE d \in Locations
    BY <2>1, <2>2 DEF Locations, Listed, Entry, Has
  <2> QED BY <2>1, <2>2 DEF Dirs, Entry
<1>3. FoundIsWhole
  <2> SUFFICES ASSUME NEW id \in Own, Listed(id) # {}, ~Going(id), cuts < 2
              PROVE  Found(id) \in Copies(id)
    BY DEF FoundIsWhole
  <2>1. Found(id) \in Dirs /\ Entry(Found(id), id) /\ Has(Found(id), id)
    BY FoundIsFirst DEF Own
  <2>2. op.at = "copy" => op.id # id
    BY StepOf DEF Going
  <2>3. Whole(Found(id), id)
    BY <2>1, <2>2 DEF EntriesAreWhole
  <2> QED BY <2>1, <2>3 DEF Copies, Whole, Has
<1>4. FoundOnce
  <2> SUFFICES ASSUME cuts = 0, NEW id \in Own, ~Going(id)
              PROVE  /\ Cardinality({Scanned[i] : i \in Listed(id)}) <= 1 /\ Cardinality(Copies(id)) <= 1
                     /\ id \in deleted => Listed(id) = {} /\ Copies(id) = {}
    BY DEF FoundOnce
  <2>1. AtRest(id)
    BY DEF InPlace
  <2>2. \A x, y \in {Scanned[i] : i \in Listed(id)} : x = y
    BY <2>1 DEF AtRest, Listed, Has, Own, Dirs, Locations
  <2>3. \A d, e \in Copies(id) : d = e
    BY <2>1 DEF AtRest, Copies, Has, Own
  <2>4. id \in deleted => Listed(id) = {} /\ Copies(id) = {}
    BY <2>1 DEF AtRest, Listed, Copies, Has, Own, Dirs, Locations
  <2> QED BY <2>2, <2>3, <2>4, AtMostOne
<1> QED BY <1>1, <1>2, <1>3, <1>4 DEF BackupsAreSafe

(* No failure, wherever it falls, loses a snapshot that a caller was told of    *)
(* and that shares its name with no other: not of createSnapshot, moveSnapshot, *)
(* deleteSnapshot or a manifest's writing, and however the locations overlap.   *)
THEOREM BackupsStaySafe == ASSUME BackupsAssumption PROVE BackupsSpec => []BackupsAreSafe
<1>1. BackupsInit => BackupsInv
  BY InitialState
<1>2. BackupsInv /\ [BackupsNext]_backupVars => BackupsInv'
  BY StepKeeps
<1>3. BackupsInv => BackupsAreSafe
  BY InvariantIsEnough
<1> QED BY <1>1, <1>2, <1>3, PTL DEF BackupsSpec
=============================================================================

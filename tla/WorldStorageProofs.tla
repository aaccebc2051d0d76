------------------------- MODULE WorldStorageProofs -------------------------
(***************************************************************************)
(* For any components, values, size of a chunk, number of slots and of     *)
(* versions: specs and rows name each other, chunks and their queues are   *)
(* exact, and locked archetypes keep their entities.                       *)
(*                                                                         *)
(* Every structural operation is made of three edits of the specs and the  *)
(* archetypes: an archetype is added, a row is added, a row is removed. A  *)
(* move is a removal followed by an addition. Each edit keeps WorldOK, and *)
(* leaves the cells of every other entity as they were.                    *)
(***************************************************************************)
EXTENDS WorldStorage, ArchetypeProofs, FiniteSetTheorems

EntitySpecs ==
  [version : 1..MaxVersion, has_value : BOOLEAN,
   arch : SUBSET Components, chunk : Nat, row : Nat]

CellsFor(cs) ==
  {cells \in [cs -> Cell] : \A c \in cs : c \notin ChangeAble => cells[c].changed = Untracked}

Rows(cs) == [e : Entity, cells : CellsFor(cs)]

(* The row of a spec, and the cells a live slot has there.                 *)
SlotRow(ents, archs, i) == RowAt(archs[ents[i].arch], ents[i].chunk, ents[i].row)

SlotCells(ents, archs, i) == SlotRow(ents, archs, i).cells

ArchetypesOK(archs) ==
  \A cs \in DOMAIN archs :
    /\ cs \in SUBSET Components
    /\ archs[cs] \in ArchetypesOf(Rows(cs))
    /\ Sound(archs[cs])
    /\ archs[cs].is_singleton => ~ archs[cs].allow_structure_change

(* The spec of a live slot names a row that holds its handle.              *)
Placed(ents, archs) ==
  \A i \in DOMAIN ents : ents[i].has_value =>
    /\ ents[i].arch \in DOMAIN archs
    /\ HasRow(archs[ents[i].arch], ents[i].chunk, ents[i].row)
    /\ SlotRow(ents, archs, i).e = [idx |-> i, version |-> ents[i].version]

(* Slot i is live, with version v, and its spec names this row.            *)
Names(ents, i, v, cs, c, r) ==
  /\ i \in DOMAIN ents
  /\ ents[i].has_value
  /\ ents[i].version = v
  /\ ents[i].arch = cs
  /\ ents[i].chunk = c
  /\ ents[i].row = r

(* Every row holds the handle of a live slot whose spec names it.          *)
Named(ents, archs) ==
  \A cs \in DOMAIN archs : \A c, r : HasRow(archs[cs], c, r) =>
    LET e == RowAt(archs[cs], c, r).e IN Names(ents, e.idx, e.version, cs, c, r)

WorldOK(ents, archs) ==
  /\ ents \in Seq(EntitySpecs)
  /\ ArchetypesOK(archs)
  /\ Placed(ents, archs)
  /\ Named(ents, archs)

(* No archetype is forgotten, or changes its kind or its lock.             *)
KindsKept(archs, archs2) ==
  \A cs \in DOMAIN archs : cs \in DOMAIN archs2 /\ SameKind(archs[cs], archs2[cs])

(* What is left alone: the live slots other than i and their cells.        *)
OthersKept(ents, archs, ents2, archs2, i) ==
  /\ \A j \in DOMAIN ents : j # i => j \in DOMAIN ents2
  /\ \A j \in DOMAIN ents2 : j # i /\ ents2[j].has_value => j \in DOMAIN ents
  /\ \A j \in DOMAIN ents : j # i =>
       /\ ents2[j].has_value <=> ents[j].has_value
       /\ ents2[j].version = ents[j].version
       /\ ents2[j].arch = ents[j].arch
       /\ ents[j].has_value =>
            SlotCells(ents2, archs2, j) = SlotCells(ents, archs, j)
----------------------------------------------------------------------------
(* The three edits.                                                        *)

(* What an entity spec and its slot hold, field by field.                 *)
LEMMA SpecFacts ==
  ASSUME NEW ents \in Seq(EntitySpecs)
  PROVE  /\ Len(ents) \in Nat
         /\ DOMAIN ents = 1..Len(ents)
         /\ \A i \in DOMAIN ents : /\ ents[i] \in EntitySpecs
                                   /\ ents[i].version \in 1..MaxVersion
                                   /\ ents[i].has_value \in BOOLEAN
                                   /\ ents[i].arch \in SUBSET Components
                                   /\ ents[i].chunk \in Nat
                                   /\ ents[i].row \in Nat
<1>1. /\ Len(ents) \in Nat
      /\ DOMAIN ents = 1..Len(ents)
      /\ \A i \in DOMAIN ents : ents[i] \in EntitySpecs
  BY SeqFacts
<1> QED BY <1>1 DEF EntitySpecs

(* create_archetype_id: a new archetype is empty, known ones stay.         *)
LEMMA WithArchetypeFacts ==
  ASSUME NEW ents, NEW archs, WorldOK(ents, archs),
         NEW cs \in SUBSET Components, NEW singleton \in BOOLEAN, NEW allow \in BOOLEAN,
         singleton => ~ allow,
         NEW archs2, archs2 = WithArchetype(archs, cs, NewArchetype(singleton, allow))
  PROVE  /\ WorldOK(ents, archs2)
         /\ DOMAIN archs2 = DOMAIN archs \cup {cs}
         /\ \A k \in DOMAIN archs : archs2[k] = archs[k]
         /\ cs \notin DOMAIN archs => archs2[cs] = NewArchetype(singleton, allow)
         /\ KindsKept(archs, archs2)
<1> DEFINE new == NewArchetype(singleton, allow)
<1>1. /\ new \in ArchetypesOf(Rows(cs))
      /\ Sound(new)
      /\ \A c, r : ~ HasRow(new, c, r)
      /\ new.is_singleton = singleton
      /\ new.allow_structure_change = allow
  BY NewArchetypeFacts
<1> HIDE DEF new
<1>2. /\ DOMAIN archs2 = DOMAIN archs \cup {cs}
      /\ \A k \in DOMAIN archs : archs2[k] = archs[k]
      /\ cs \notin DOMAIN archs => archs2[cs] = new
  BY DEF WithArchetype, new
<1>3. ArchetypesOK(archs2)
  BY <1>1, <1>2 DEF WorldOK, ArchetypesOK
<1>4. Placed(ents, archs2)
  BY <1>2 DEF WorldOK, Placed, SlotRow
<1>5. Named(ents, archs2)
  BY <1>1, <1>2 DEF WorldOK, Named
<1>6. KindsKept(archs, archs2)
  BY <1>2 DEF KindsKept, SameKind
<1> QED BY <1>2, <1>3, <1>4, <1>5, <1>6 DEF WorldOK, new

(* The entity e gets a row of the archetype cs; its slot held no value.    *)
RowAdded(ents, archs, e, cs, cells, ents2, archs2) ==
  /\ cs \in DOMAIN archs
  /\ CanTakeARow(archs[cs])
  /\ e \in Entity
  /\ cells \in CellsFor(cs)
  /\ e.idx \in DOMAIN ents => ~ ents[e.idx].has_value
  /\ ents2 \in Seq(EntitySpecs)
  /\ DOMAIN ents2 = DOMAIN ents \cup {e.idx}
  /\ ents2[e.idx] = EntitySpec(e.version, cs, NextRow(archs[cs]))
  /\ \A j \in DOMAIN ents : j # e.idx => ents2[j] = ents[j]
  /\ archs2 = [archs EXCEPT ![cs] = Push(@, [e |-> e, cells |-> cells])]

(* Archetype::push and update_entity_spec.                                 *)
LEMMA AddRowFacts ==
  ASSUME NEW ents, NEW archs, WorldOK(ents, archs),
         NEW e, NEW cs, NEW cells, NEW ents2, NEW archs2,
         RowAdded(ents, archs, e, cs, cells, ents2, archs2)
  PROVE  /\ WorldOK(ents2, archs2)
         /\ OthersKept(ents, archs, ents2, archs2, e.idx)
         /\ SlotCells(ents2, archs2, e.idx) = cells
         /\ KindsKept(archs, archs2)
         /\ DOMAIN archs2 = DOMAIN archs
<1>a. PICK i, v, row, at :
        /\ i = e.idx /\ v = e.version
        /\ row = [e |-> e, cells |-> cells]
        /\ at = NextRow(archs[cs])
  OBVIOUS
<1>b. /\ cs \in DOMAIN archs
      /\ CanTakeARow(archs[cs])
      /\ i \in DOMAIN ents => ~ ents[i].has_value
      /\ ents2 \in Seq(EntitySpecs)
      /\ DOMAIN ents2 = DOMAIN ents \cup {i}
      /\ ents2[i] = EntitySpec(v, cs, at)
      /\ \A j \in DOMAIN ents : j # i => ents2[j] = ents[j]
      /\ archs2 = [archs EXCEPT ![cs] = Push(archs[cs], row)]
  BY <1>a DEF RowAdded
<1>c. row \in Rows(cs) /\ row.e = e /\ row.cells = cells /\ e = [idx |-> i, version |-> v]
  BY <1>a DEF RowAdded, Rows, Entity
<1>1. archs[cs] \in ArchetypesOf(Rows(cs)) /\ Sound(archs[cs])
  BY <1>b DEF WorldOK, ArchetypesOK
<1>2. /\ DOMAIN archs2 = DOMAIN archs
      /\ cs \in DOMAIN archs
      /\ archs2[cs] = Push(archs[cs], row)
      /\ \A k \in DOMAIN archs : k # cs => archs2[k] = archs[k]
  BY <1>b
<1>3. /\ archs2[cs] \in ArchetypesOf(Rows(cs))
      /\ Sound(archs2[cs])
      /\ SameKind(archs[cs], archs2[cs])
      /\ ~ HasRow(archs[cs], at.chunk, at.row)
      /\ RowAt(archs2[cs], at.chunk, at.row) = row
      /\ \A d, r : HasRow(archs2[cs], d, r) <=>
           HasRow(archs[cs], d, r) \/ (d = at.chunk /\ r = at.row)
      /\ \A d, r : HasRow(archs[cs], d, r) => RowAt(archs2[cs], d, r) = RowAt(archs[cs], d, r)
  BY <1>a, <1>b, <1>c, <1>1, <1>2, PushFacts
<1>4. /\ ents2[i].version = v /\ ents2[i].has_value
      /\ ents2[i].arch = cs /\ ents2[i].chunk = at.chunk /\ ents2[i].row = at.row
  BY <1>b DEF EntitySpec
<1>5. row.e.idx = i /\ row.e.version = v
  BY <1>c
<1>6. ASSUME NEW k \in DOMAIN archs, NEW c, NEW r, HasRow(archs[k], c, r)
      PROVE  HasRow(archs2[k], c, r) /\ RowAt(archs2[k], c, r) = RowAt(archs[k], c, r)
  BY <1>2, <1>3, <1>6
<1>7. ArchetypesOK(archs2)
  BY <1>2, <1>3 DEF WorldOK, ArchetypesOK, SameKind
<1>8. ASSUME NEW j \in DOMAIN ents, j # i, ents[j].has_value
      PROVE  /\ ents2[j] = ents[j]
             /\ ents[j].arch \in DOMAIN archs
             /\ HasRow(archs2[ents[j].arch], ents[j].chunk, ents[j].row)
             /\ SlotRow(ents2, archs2, j) = SlotRow(ents, archs, j)
             /\ SlotRow(ents, archs, j).e = [idx |-> j, version |-> ents[j].version]
  BY <1>b, <1>6, <1>8 DEF WorldOK, Placed, SlotRow
<1>9. HasRow(archs2[cs], at.chunk, at.row) /\ SlotRow(ents2, archs2, i) = row
  BY <1>3, <1>4 DEF SlotRow
<1>10. Placed(ents2, archs2)
  <2> SUFFICES ASSUME NEW j \in DOMAIN ents2, ents2[j].has_value
               PROVE  /\ ents2[j].arch \in DOMAIN archs2
                      /\ HasRow(archs2[ents2[j].arch], ents2[j].chunk, ents2[j].row)
                      /\ SlotRow(ents2, archs2, j).e = [idx |-> j, version |-> ents2[j].version]
    BY DEF Placed
  <2>1. CASE j = i
    BY <1>2, <1>4, <1>9, <1>c, <2>1
  <2>2. CASE j # i
    <3>1. j \in DOMAIN ents /\ ents2[j] = ents[j] /\ ents[j].has_value
      BY <1>b, <2>2
    <3> QED BY <1>2, <1>8, <2>2, <3>1
  <2> QED BY <2>1, <2>2
<1>11. Named(ents2, archs2)
  <2> SUFFICES ASSUME NEW k \in DOMAIN archs2, NEW c, NEW r, HasRow(archs2[k], c, r),
                      NEW f, f = RowAt(archs2[k], c, r).e
               PROVE  Names(ents2, f.idx, f.version, k, c, r)
    BY DEF Named
  <2>1. CASE HasRow(archs[k], c, r)
    <3>1. f = RowAt(archs[k], c, r).e
      BY <1>2, <1>6, <2>1
    <3>2. Names(ents, f.idx, f.version, k, c, r)
      BY <1>2, <2>1, <3>1 DEF WorldOK, Named
    <3>3. f.idx # i
      BY <1>b, <3>2 DEF Names
    <3> QED BY <1>b, <3>2, <3>3 DEF Names
  <2>2. CASE ~ HasRow(archs[k], c, r)
    <3>1. k = cs /\ c = at.chunk /\ r = at.row
      BY <1>2, <1>3, <2>2
    <3>2. f = row.e
      BY <1>3, <3>1
    <3> QED BY <1>b, <1>4, <1>5, <3>1, <3>2 DEF Names
  <2> QED BY <2>1, <2>2
<1>12. OthersKept(ents, archs, ents2, archs2, i)
  <2>1. ASSUME NEW j \in DOMAIN ents, j # i
        PROVE  /\ ents2[j].has_value <=> ents[j].has_value
               /\ ents2[j].version = ents[j].version
               /\ ents2[j].arch = ents[j].arch
               /\ ents[j].has_value => SlotCells(ents2, archs2, j) = SlotCells(ents, archs, j)
    BY <1>b, <1>8, <2>1 DEF SlotCells
  <2> QED BY <1>b, <2>1 DEF OthersKept
<1>13. KindsKept(archs, archs2)
  BY <1>2, <1>3 DEF KindsKept, SameKind
<1> QED BY <1>a, <1>b, <1>c, <1>2, <1>7, <1>9, <1>10, <1>11, <1>12, <1>13 DEF WorldOK, SlotCells

(* Slot i loses its row, and the spec of the row swapped in is told.       *)
RowRemoved(ents, archs, i, ents2, archs2) ==
  LET spec  == ents[i]
      rows  == archs[spec.arch].chunks[spec.chunk]
      moved == rows[Len(rows)].e.idx
  IN
  /\ i \in DOMAIN ents
  /\ ents[i].has_value
  /\ ents2 \in Seq(EntitySpecs)
  /\ DOMAIN ents2 = DOMAIN ents
  /\ ~ ents2[i].has_value
  /\ \A j \in DOMAIN ents : j # i /\ j # moved => ents2[j] = ents[j]
  /\ spec.row # Len(rows) => ents2[moved] = [ents[moved] EXCEPT !.row = spec.row]
  /\ archs2 = [archs EXCEPT ![spec.arch] = RemoveAt(@, spec.chunk, spec.row)]

(* swap_remove_at with update_entity_indices.                              *)
LEMMA RemoveRowFacts ==
  ASSUME NEW ents, NEW archs, WorldOK(ents, archs),
         NEW i, NEW ents2, NEW archs2, RowRemoved(ents, archs, i, ents2, archs2)
  PROVE  /\ WorldOK(ents2, archs2)
         /\ OthersKept(ents, archs, ents2, archs2, i)
         /\ KindsKept(archs, archs2)
         /\ DOMAIN archs2 = DOMAIN archs
<1>a. PICK cs, c, r, last, moved :
        /\ cs = ents[i].arch /\ c = ents[i].chunk /\ r = ents[i].row
        /\ last = Len(archs[cs].chunks[c])
        /\ moved = archs[cs].chunks[c][last].e.idx
  OBVIOUS
<1>b. /\ i \in DOMAIN ents /\ ents[i].has_value
      /\ ents2 \in Seq(EntitySpecs)
      /\ DOMAIN ents2 = DOMAIN ents
      /\ ~ ents2[i].has_value
      /\ \A j \in DOMAIN ents : j # i /\ j # moved => ents2[j] = ents[j]
      /\ r # last => ents2[moved] = [ents[moved] EXCEPT !.row = r]
      /\ archs2 = [archs EXCEPT ![cs] = RemoveAt(archs[cs], c, r)]
  BY <1>a DEF RowRemoved
<1>1. /\ i \in DOMAIN ents /\ ents[i].has_value
      /\ cs = ents[i].arch /\ c = ents[i].chunk /\ r = ents[i].row
  BY <1>a, <1>b
<1>2. /\ cs \in DOMAIN archs
      /\ HasRow(archs[cs], c, r)
      /\ RowAt(archs[cs], c, r).e = [idx |-> i, version |-> ents[i].version]
      /\ archs[cs] \in ArchetypesOf(Rows(cs)) /\ Sound(archs[cs])
  BY <1>1 DEF WorldOK, ArchetypesOK, Placed, SlotRow
<1>3. last = Len(archs[cs].chunks[c])
  BY <1>a
<1>4. /\ DOMAIN archs2 = DOMAIN archs
      /\ archs2[cs] = RemoveAt(archs[cs], c, r)
      /\ \A k \in DOMAIN archs : k # cs => archs2[k] = archs[k]
  BY <1>b, <1>2
<1>5. /\ archs2[cs] \in ArchetypesOf(Rows(cs))
      /\ Sound(archs2[cs])
      /\ SameKind(archs[cs], archs2[cs])
      /\ HasRow(archs[cs], c, last)
      /\ \A d, s : HasRow(archs2[cs], d, s) <=> HasRow(archs[cs], d, s) /\ ~ (d = c /\ s = last)
      /\ \A d, s : HasRow(archs2[cs], d, s) =>
           RowAt(archs2[cs], d, s) =
             IF d = c /\ s = r THEN RowAt(archs[cs], c, last) ELSE RowAt(archs[cs], d, s)
  BY <1>2, <1>3, <1>4, RemoveAtFacts
<1>6. RowAt(archs[cs], c, last).e.idx = moved
  BY <1>a DEF RowAt
<1>7. /\ moved \in DOMAIN ents /\ ents[moved].has_value
      /\ ents[moved].version = RowAt(archs[cs], c, last).e.version
      /\ ents[moved].arch = cs /\ ents[moved].chunk = c /\ ents[moved].row = last
  BY <1>2, <1>5, <1>6 DEF WorldOK, Named, Names
<1>8. moved = i <=> r = last
  BY <1>1, <1>2, <1>6, <1>7
<1>9. moved # i => /\ ents2[moved].version = ents[moved].version
                   /\ ents2[moved].has_value
                   /\ ents2[moved].arch = cs
                   /\ ents2[moved].chunk = c
                   /\ ents2[moved].row = r
  <2> SUFFICES ASSUME moved # i
               PROVE  /\ ents2[moved].version = ents[moved].version
                      /\ ents2[moved].has_value
                      /\ ents2[moved].arch = cs
                      /\ ents2[moved].chunk = c
                      /\ ents2[moved].row = r
    OBVIOUS
  <2>1. ents2[moved] = [ents[moved] EXCEPT !.row = r]
    BY <1>b, <1>8
  <2>2. ents[moved] \in EntitySpecs
    BY <1>7, SpecFacts DEF WorldOK
  <2> QED BY <1>7, <2>1, <2>2 DEF EntitySpecs
<1>10. ArchetypesOK(archs2)
  BY <1>2, <1>4, <1>5 DEF WorldOK, ArchetypesOK, SameKind
(* Another live slot keeps its spec, or is the one swapped in.             *)
<1>11. ASSUME NEW j \in DOMAIN ents, j # i, ents[j].has_value
       PROVE  /\ ents2[j].has_value
              /\ ents2[j].version = ents[j].version
              /\ ents2[j].arch = ents[j].arch
              /\ ents[j].arch \in DOMAIN archs
              /\ HasRow(archs2[ents2[j].arch], ents2[j].chunk, ents2[j].row)
              /\ SlotRow(ents2, archs2, j) = SlotRow(ents, archs, j)
              /\ SlotRow(ents, archs, j).e = [idx |-> j, version |-> ents[j].version]
  <2>1. /\ ents[j].arch \in DOMAIN archs
        /\ HasRow(archs[ents[j].arch], ents[j].chunk, ents[j].row)
        /\ SlotRow(ents, archs, j).e = [idx |-> j, version |-> ents[j].version]
    BY <1>11 DEF WorldOK, Placed
  <2>2. CASE j = moved
    <3>1. HasRow(archs2[cs], c, r)
      BY <1>2, <1>5, <1>8, <1>11, <2>2
    <3>2. RowAt(archs2[cs], c, r) = RowAt(archs[cs], c, last)
      BY <1>5, <3>1
    <3> QED BY <1>7, <1>9, <1>11, <2>1, <2>2, <3>1, <3>2 DEF SlotRow
  <2>3. CASE j # moved
    <3>1. ents2[j] = ents[j]
      BY <1>b, <1>11, <2>3
    <3>2. PICK k, d, t : k = ents[j].arch /\ d = ents[j].chunk /\ t = ents[j].row
      OBVIOUS
    <3>3. /\ k \in DOMAIN archs
          /\ HasRow(archs[k], d, t)
          /\ SlotRow(ents, archs, j) = RowAt(archs[k], d, t)
          /\ SlotRow(ents2, archs2, j) = RowAt(archs2[k], d, t)
          /\ RowAt(archs[k], d, t).e = [idx |-> j, version |-> ents[j].version]
      BY <2>1, <3>1, <3>2 DEF SlotRow
    <3>4. RowAt(archs[k], d, t).e.idx = j
      BY <3>3
    <3>5. RowAt(archs[cs], c, r).e.idx = i
      BY <1>2
    <3>6. /\ ~ (k = cs /\ d = c /\ t = last)
          /\ ~ (k = cs /\ d = c /\ t = r)
      BY <1>6, <1>11, <2>3, <3>4, <3>5
    <3>7. HasRow(archs2[k], d, t) /\ RowAt(archs2[k], d, t) = RowAt(archs[k], d, t)
      <4>1. CASE k = cs
        <5>1. HasRow(archs2[cs], d, t)
          BY <1>5, <3>3, <3>6, <4>1
        <5>2. RowAt(archs2[cs], d, t) = RowAt(archs[cs], d, t)
          BY <1>5, <3>6, <4>1, <5>1
        <5> QED BY <4>1, <5>1, <5>2
      <4>2. CASE k # cs
        BY <1>4, <3>3, <4>2
      <4> QED BY <4>1, <4>2
    <3> QED BY <1>11, <2>1, <3>1, <3>2, <3>3, <3>7
  <2> QED BY <2>2, <2>3
<1>12. ASSUME NEW j \in DOMAIN ents, j # i, ~ ents[j].has_value
       PROVE  ents2[j] = ents[j]
  BY <1>b, <1>7, <1>12
<1>13. Placed(ents2, archs2)
  <2> SUFFICES ASSUME NEW j \in DOMAIN ents2, ents2[j].has_value
               PROVE  /\ ents2[j].arch \in DOMAIN archs2
                      /\ HasRow(archs2[ents2[j].arch], ents2[j].chunk, ents2[j].row)
                      /\ SlotRow(ents2, archs2, j).e = [idx |-> j, version |-> ents2[j].version]
    BY DEF Placed
  <2>1. j \in DOMAIN ents /\ j # i
    BY <1>b
  <2>2. ents[j].has_value
    BY <1>12, <2>1
  <2>3. /\ ents2[j].arch = ents[j].arch
        /\ ents[j].arch \in DOMAIN archs
        /\ HasRow(archs2[ents2[j].arch], ents2[j].chunk, ents2[j].row)
        /\ SlotRow(ents2, archs2, j) = SlotRow(ents, archs, j)
        /\ SlotRow(ents, archs, j).e = [idx |-> j, version |-> ents[j].version]
        /\ ents2[j].version = ents[j].version
    BY <1>11, <2>1, <2>2
  <2> QED BY <1>4, <2>3
<1>14. Named(ents2, archs2)
  <2> SUFFICES ASSUME NEW k \in DOMAIN archs2, NEW d, NEW s, HasRow(archs2[k], d, s),
                      NEW e, e = RowAt(archs2[k], d, s).e
               PROVE  Names(ents2, e.idx, e.version, k, d, s)
    BY DEF Named
  <2>1. CASE k = cs /\ d = c /\ s = r
    <3>1. e = RowAt(archs[cs], c, last).e
      BY <1>5, <2>1
    <3>2. r # last
      BY <1>5, <2>1
    <3> QED BY <1>b, <1>6, <1>7, <1>8, <1>9, <2>1, <3>1, <3>2 DEF Names
  <2>2. CASE ~ (k = cs /\ d = c /\ s = r)
    <3>1. HasRow(archs[k], d, s) /\ ~ (k = cs /\ d = c /\ s = last)
      BY <1>4, <1>5
    <3>2. RowAt(archs2[k], d, s) = RowAt(archs[k], d, s)
      <4>1. CASE k = cs
        BY <1>5, <2>2, <4>1
      <4>2. CASE k # cs
        BY <1>4, <4>2
      <4> QED BY <4>1, <4>2
    <3>3. Names(ents, e.idx, e.version, k, d, s)
      BY <1>4, <3>1, <3>2 DEF WorldOK, Named
    <3>4. e.idx # i
      BY <1>1, <2>2, <3>3 DEF Names
    <3>5. e.idx # moved
      BY <1>7, <3>1, <3>3 DEF Names
    <3> QED BY <1>b, <3>3, <3>4, <3>5 DEF Names
  <2> QED BY <2>1, <2>2
<1>15. OthersKept(ents, archs, ents2, archs2, i)
  <2>1. ASSUME NEW j \in DOMAIN ents, j # i
        PROVE  /\ ents2[j].has_value <=> ents[j].has_value
               /\ ents2[j].version = ents[j].version
               /\ ents2[j].arch = ents[j].arch
               /\ ents[j].has_value => SlotCells(ents2, archs2, j) = SlotCells(ents, archs, j)
    BY <1>11, <1>12, <2>1 DEF SlotCells
  <2> QED BY <1>b, <2>1 DEF OthersKept
<1>16. KindsKept(archs, archs2)
  BY <1>4, <1>5 DEF KindsKept, SameKind
<1> QED BY <1>b, <1>4, <1>10, <1>13, <1>14, <1>15, <1>16 DEF WorldOK

(* The cells of the entity in slot i are rewritten where they are.         *)
CellsSet(ents, archs, i, cells, archs2) ==
  LET spec == ents[i] IN
  /\ i \in DOMAIN ents
  /\ ents[i].has_value
  /\ cells \in CellsFor(spec.arch)
  /\ archs2 = [archs EXCEPT ![spec.arch].chunks[spec.chunk][spec.row].cells = cells]

(* New cells in a row: its chunk keeps its length, its row its entity.    *)
LEMMA SetCellsFacts ==
  ASSUME NEW ents, NEW archs, WorldOK(ents, archs),
         NEW i, NEW cells, NEW archs2, CellsSet(ents, archs, i, cells, archs2)
  PROVE  /\ WorldOK(ents, archs2)
         /\ OthersKept(ents, archs, ents, archs2, i)
         /\ SlotCells(ents, archs2, i) = cells
         /\ KindsKept(archs, archs2)
         /\ DOMAIN archs2 = DOMAIN archs
<1>a. PICK cs, c, r, old, row :
        /\ cs = ents[i].arch /\ c = ents[i].chunk /\ r = ents[i].row
        /\ old = RowAt(archs[cs], c, r)
        /\ row = [old EXCEPT !.cells = cells]
  OBVIOUS
<1>1. i \in DOMAIN ents /\ ents[i].has_value
  BY DEF CellsSet
<1>2. /\ cs \in DOMAIN archs
      /\ HasRow(archs[cs], c, r)
      /\ old.e = [idx |-> i, version |-> ents[i].version]
      /\ archs[cs] \in ArchetypesOf(Rows(cs)) /\ Sound(archs[cs])
  BY <1>a, <1>1 DEF WorldOK, ArchetypesOK, Placed, SlotRow
<1>3. old \in Rows(cs)
  <2>1. archs[cs].chunks[c] \in Seq(Rows(cs)) /\ r \in DOMAIN archs[cs].chunks[c]
    BY <1>2, FieldFacts DEF HasRow
  <2> QED BY <1>a, <2>1, SeqFacts DEF RowAt
<1>4. cells \in CellsFor(cs)
  BY <1>a DEF CellsSet
<1>5. row \in Rows(cs) /\ row.e = old.e /\ row.cells = cells
  BY <1>a, <1>3, <1>4 DEF Rows
<1>6. archs2 = [archs EXCEPT ![cs] = ReplaceRow(archs[cs], c, r, row)]
  <2>1. archs2 = [archs EXCEPT ![cs].chunks[c][r].cells = cells]
    BY <1>a DEF CellsSet
  <2>2. row = [archs[cs].chunks[c][r] EXCEPT !.cells = cells]
    BY <1>a DEF RowAt
  <2> QED BY <2>1, <2>2 DEF ReplaceRow
<1>7. /\ DOMAIN archs2 = DOMAIN archs
      /\ archs2[cs] = ReplaceRow(archs[cs], c, r, row)
      /\ \A k \in DOMAIN archs : k # cs => archs2[k] = archs[k]
  BY <1>2, <1>6
<1>8. /\ archs2[cs] \in ArchetypesOf(Rows(cs))
      /\ Sound(archs2[cs])
      /\ SameKind(archs[cs], archs2[cs])
      /\ \A d, s : HasRow(archs2[cs], d, s) <=> HasRow(archs[cs], d, s)
      /\ \A d, s : HasRow(archs2[cs], d, s) =>
           RowAt(archs2[cs], d, s) = IF d = c /\ s = r THEN row ELSE RowAt(archs[cs], d, s)
  BY <1>2, <1>5, <1>7, ReplaceRowFacts
(* Every row keeps its handle.                                             *)
<1>9. ASSUME NEW k \in DOMAIN archs, NEW d, NEW s
      PROVE  /\ HasRow(archs2[k], d, s) <=> HasRow(archs[k], d, s)
             /\ HasRow(archs[k], d, s) => RowAt(archs2[k], d, s).e = RowAt(archs[k], d, s).e
             /\ HasRow(archs[k], d, s) /\ ~ (k = cs /\ d = c /\ s = r) =>
                  RowAt(archs2[k], d, s) = RowAt(archs[k], d, s)
  <2>1. CASE k = cs
    <3>1. HasRow(archs2[cs], d, s) <=> HasRow(archs[cs], d, s)
      BY <1>8
    <3>2. HasRow(archs[cs], d, s) /\ ~ (d = c /\ s = r) =>
            RowAt(archs2[cs], d, s) = RowAt(archs[cs], d, s)
      BY <1>8
    <3>3. HasRow(archs[cs], c, r) => RowAt(archs2[cs], c, r) = row
      BY <1>8
    <3>4. HasRow(archs[cs], d, s) => RowAt(archs2[cs], d, s).e = RowAt(archs[cs], d, s).e
      <4>1. CASE d = c /\ s = r
        BY <1>a, <1>5, <3>3, <4>1
      <4>2. CASE ~ (d = c /\ s = r)
        BY <3>2, <4>2
      <4> QED BY <4>1, <4>2
    <3> QED BY <2>1, <3>1, <3>2, <3>4
  <2>2. CASE k # cs
    BY <1>7, <2>2
  <2> QED BY <2>1, <2>2
<1>10. ArchetypesOK(archs2)
  BY <1>2, <1>7, <1>8 DEF WorldOK, ArchetypesOK, SameKind
<1>11. Placed(ents, archs2)
  BY <1>7, <1>9 DEF WorldOK, Placed, SlotRow
<1>12. Named(ents, archs2)
  BY <1>7, <1>9 DEF WorldOK, Named
<1>13. ASSUME NEW j \in DOMAIN ents, j # i, ents[j].has_value
       PROVE  SlotCells(ents, archs2, j) = SlotCells(ents, archs, j)
  <2>1. PICK k, d, s : k = ents[j].arch /\ d = ents[j].chunk /\ s = ents[j].row
    OBVIOUS
  <2>2. /\ k \in DOMAIN archs /\ HasRow(archs[k], d, s)
        /\ RowAt(archs[k], d, s).e = [idx |-> j, version |-> ents[j].version]
    BY <1>13, <2>1 DEF WorldOK, Placed, SlotRow
  <2>3. RowAt(archs[k], d, s).e.idx = j /\ RowAt(archs[cs], c, r).e.idx = i
    BY <1>a, <1>2, <2>2
  <2>4. ~ (k = cs /\ d = c /\ s = r)
    BY <1>13, <2>3
  <2> QED BY <1>9, <2>1, <2>2, <2>4 DEF SlotCells, SlotRow
<1>14. SlotCells(ents, archs2, i) = cells
  BY <1>a, <1>2, <1>5, <1>8 DEF SlotCells, SlotRow
<1>15. KindsKept(archs, archs2)
  BY <1>7, <1>8 DEF KindsKept, SameKind
<1> QED BY <1>7, <1>10, <1>11, <1>12, <1>13, <1>14, <1>15 DEF WorldOK, OthersKept

(* Slots that hold no value do not matter to the rows.                     *)
LEMMA EmptySlotFacts ==
  ASSUME NEW ents, NEW archs, WorldOK(ents, archs), NEW ents2 \in Seq(EntitySpecs),
         \A j \in DOMAIN ents : j \in DOMAIN ents2 /\ ents2[j] = ents[j],
         \A j \in DOMAIN ents2 : j \notin DOMAIN ents => ~ ents2[j].has_value
  PROVE  WorldOK(ents2, archs)
<1>1. Placed(ents2, archs)
  BY DEF WorldOK, Placed, SlotRow
<1>2. Named(ents2, archs)
  BY DEF WorldOK, Named, Names
<1> QED BY <1>1, <1>2 DEF WorldOK
----------------------------------------------------------------------------
(* Cells.                                                                  *)

(* Cells stay well typed when one of them is written.                     *)
LEMMA WriteAtType ==
  ASSUME tick \in 1..MaxTick, NEW c, NEW value \in Values
  PROVE  /\ WriteAt(c, value, tick) \in Cell
         /\ c \notin ChangeAble => WriteAt(c, value, tick).changed = Untracked
<1>1. tick \in 0..MaxTick /\ 0 \in 0..MaxTick
  BY StorageAssumption
<1>2. (IF c \in ChangeAble THEN tick ELSE Untracked) \in 0..MaxTick
  BY <1>1 DEF Untracked
<1>3. (c \in EnableAble => value \notin Disabled) \in BOOLEAN
  OBVIOUS
<1> QED BY <1>2, <1>3 DEF WriteAt, Cell

(* Cells stay well typed when some of them are replaced.                  *)
LEMMA ReplaceAtType ==
  ASSUME tick \in 1..MaxTick, NEW c, NEW value \in Values, NEW cell \in Cell,
         c \notin ChangeAble => cell.changed = Untracked
  PROVE  /\ ReplaceAt(cell, c, value, tick) \in Cell
         /\ c \notin ChangeAble => ReplaceAt(cell, c, value, tick).changed = Untracked
<1>1. tick \in 0..MaxTick
  BY StorageAssumption
<1> QED BY <1>1 DEF ReplaceAt, Cell

(* A bundle gives values to some components, never to none.               *)
LEMMA BundleFacts ==
  ASSUME NEW values \in Bundles
  PROVE  /\ DOMAIN values \in ComponentSets
         /\ DOMAIN values \in SUBSET Components
         /\ DOMAIN values # {}
         /\ \A c \in DOMAIN values : values[c] \in Values
BY DEF Bundles, ComponentSets

(* The cells a new row begins with.                                       *)
LEMMA NewCellsType ==
  ASSUME tick \in 1..MaxTick, NEW values \in Bundles
  PROVE  NewCells(values, tick) \in CellsFor(DOMAIN values)
<1>1. \A c \in DOMAIN values : /\ WriteAt(c, values[c], tick) \in Cell
                               /\ c \notin ChangeAble =>
                                    WriteAt(c, values[c], tick).changed = Untracked
  BY BundleFacts, WriteAtType
<1> QED BY <1>1 DEF NewCells, CellsFor

(* The cells of a row that moves on to more components.                   *)
LEMMA MergedCellsType ==
  ASSUME tick \in 1..MaxTick, NEW values \in Bundles,
         NEW cs, NEW cells \in CellsFor(cs)
  PROVE  MergedCells(cells, values, tick) \in CellsFor(cs \cup DOMAIN values)
<1>1. DOMAIN cells = cs
  BY DEF CellsFor
<1>2. ASSUME NEW c \in cs \cup DOMAIN values
      PROVE  /\ MergedCells(cells, values, tick)[c] \in Cell
             /\ c \notin ChangeAble => MergedCells(cells, values, tick)[c].changed = Untracked
  <2>1. c \in cs => cells[c] \in Cell /\ (c \notin ChangeAble => cells[c].changed = Untracked)
    BY DEF CellsFor
  <2>2. c \in DOMAIN values => values[c] \in Values
    BY BundleFacts
  <2>3. CASE c \notin DOMAIN values
    <3>1. MergedCells(cells, values, tick)[c] = cells[c]
      BY <1>1, <1>2, <2>3 DEF MergedCells
    <3> QED BY <1>2, <2>1, <2>3, <3>1
  <2>4. CASE c \in DOMAIN values /\ c \in cs
    <3>1. MergedCells(cells, values, tick)[c] = ReplaceAt(cells[c], c, values[c], tick)
      BY <1>1, <2>4 DEF MergedCells
    <3> QED BY <2>1, <2>2, <2>4, <3>1, ReplaceAtType
  <2>5. CASE c \in DOMAIN values /\ c \notin cs
    <3>1. MergedCells(cells, values, tick)[c] = WriteAt(c, values[c], tick)
      BY <1>1, <2>5 DEF MergedCells
    <3> QED BY <2>2, <2>5, <3>1, WriteAtType
  <2> QED BY <2>3, <2>4, <2>5
<1>3. MergedCells(cells, values, tick) \in [cs \cup DOMAIN values -> Cell]
  <2>1. \E f : MergedCells(cells, values, tick) = [c \in cs \cup DOMAIN values |-> f[c]]
    <3>1. MergedCells(cells, values, tick) =
            [c \in cs \cup DOMAIN values |-> MergedCells(cells, values, tick)[c]]
      BY <1>1 DEF MergedCells
    <3> QED BY <3>1
  <2> QED BY <1>2, <2>1
<1> QED BY <1>2, <1>3 DEF CellsFor

(* The cells of a row that moves on to fewer components.                  *)
LEMMA RemainingCellsType ==
  ASSUME NEW cs, NEW cells \in CellsFor(cs), NEW removed
  PROVE  RemainingCells(cells, removed) \in CellsFor(cs \ removed)
BY DEF RemainingCells, CellsFor
----------------------------------------------------------------------------
(* The inductive invariant.                                                *)

(* A slot queued for recycling is empty, has a version left and is queued  *)
(* once: why a new entity never takes the row of a live one.               *)
FreeSlots(ents, free) ==
  /\ free \in Seq(Nat)
  /\ \A k \in DOMAIN free : /\ free[k] \in DOMAIN ents
                            /\ ~ ents[free[k]].has_value
                            /\ ents[free[k]].version < MaxVersion
  /\ \A j, k \in DOMAIN free : free[j] = free[k] => j = k

IInv ==
  /\ WorldOK(entities, archetypes)
  /\ Len(entities) <= MaxSlots
  /\ FreeSlots(entities, free_entities)
  /\ tick \in 1..MaxTick

(* The archetypes with some new, empty ones: what the operations work on   *)
(* after get_or_create_archetype_id.                                       *)
Grown(known) ==
  /\ WorldOK(entities, known)
  /\ \A cs \in DOMAIN archetypes : cs \in DOMAIN known /\ known[cs] = archetypes[cs]
  /\ \A cs \in DOMAIN known : cs \notin DOMAIN archetypes => CanTakeARow(known[cs])

(* An empty world.                                                        *)
LEMMA InitIInv == Init => IInv
<1> SUFFICES ASSUME Init PROVE IInv
  OBVIOUS
<1>1. /\ entities = << >> /\ free_entities = << >> /\ tick = 1
      /\ DOMAIN archetypes = {}
  BY DEF Init
<1>2. WorldOK(entities, archetypes)
  BY <1>1 DEF WorldOK, ArchetypesOK, Placed, Named
<1>3. FreeSlots(entities, free_entities)
  BY <1>1 DEF FreeSlots
<1> QED BY <1>1, <1>2, <1>3, SlotsAssumption, StorageAssumption DEF IInv

(* The slots, as a sequence.                                              *)
LEMMA EntitiesFacts ==
  ASSUME IInv
  PROVE  /\ entities \in Seq(EntitySpecs)
         /\ Len(entities) \in Nat
         /\ Len(entities) <= MaxSlots
         /\ DOMAIN entities = 1..Len(entities)
         /\ \A i \in DOMAIN entities : /\ i \in 1..MaxSlots
                                       /\ entities[i] \in EntitySpecs
                                       /\ entities[i].version \in 1..MaxVersion
                                       /\ entities[i].has_value \in BOOLEAN
                                       /\ entities[i].arch \in SUBSET Components
<1>1. entities \in Seq(EntitySpecs) /\ Len(entities) <= MaxSlots
  BY DEF IInv, WorldOK
<1> QED BY <1>1, SpecFacts, SlotsAssumption

(* Nothing registered is a special case of registering.                   *)
LEMMA GrownNone ==
  ASSUME IInv
  PROVE  Grown(archetypes)
BY DEF Grown, IInv

(* get_or_create_archetype_id keeps the archetypes there are.              *)
LEMMA GrownMore ==
  ASSUME NEW known, Grown(known),
         NEW cs \in SUBSET Components, NEW singleton \in BOOLEAN, NEW allow \in BOOLEAN,
         singleton => ~ allow,
         NEW more, more = WithArchetype(known, cs, NewArchetype(singleton, allow))
  PROVE  /\ Grown(more)
         /\ cs \in DOMAIN more
         /\ \A k \in DOMAIN known : k \in DOMAIN more /\ more[k] = known[k]
<1>a. WorldOK(entities, known)
  BY DEF Grown
<1>1. /\ WorldOK(entities, more)
      /\ DOMAIN more = DOMAIN known \cup {cs}
      /\ \A k \in DOMAIN known : more[k] = known[k]
      /\ cs \notin DOMAIN known => more[cs] = NewArchetype(singleton, allow)
  BY <1>a, WithArchetypeFacts
<1>2. CanTakeARow(NewArchetype(singleton, allow))
  BY NewArchetypeFacts
<1> QED BY <1>1, <1>2 DEF Grown

(* What a step that only adds archetypes leaves alone: everything live.    *)
LEMMA GrownKept ==
  ASSUME IInv, NEW known, Grown(known), NEW i
  PROVE  /\ OthersKept(entities, archetypes, entities, known, i)
         /\ KindsKept(archetypes, known)
         /\ \A j \in DOMAIN entities : entities[j].has_value =>
              SlotCells(entities, known, j) = SlotCells(entities, archetypes, j)
<1>1. \A j \in DOMAIN entities : entities[j].has_value =>
        SlotCells(entities, known, j) = SlotCells(entities, archetypes, j)
  BY DEF IInv, WorldOK, Placed, Grown, SlotCells, SlotRow
<1> QED BY <1>1 DEF OthersKept, KindsKept, SameKind, Grown

(* Edits one after the other.                                              *)
LEMMA KeptTwice ==
  ASSUME NEW ents, NEW archs, NEW ents1, NEW archs1, NEW ents2, NEW archs2, NEW i,
         OthersKept(ents, archs, ents1, archs1, i),
         OthersKept(ents1, archs1, ents2, archs2, i)
  PROVE  OthersKept(ents, archs, ents2, archs2, i)
BY DEF OthersKept

(* The same of the kinds of archetypes.                                   *)
LEMMA KindsKeptTwice ==
  ASSUME NEW archs, NEW archs1, NEW archs2,
         KindsKept(archs, archs1), KindsKept(archs1, archs2)
  PROVE  KindsKept(archs, archs2)
BY DEF KindsKept, SameKind

(* The queue of free slots does not care for a slot it does not hold.      *)
LEMMA FreeSlotsKept ==
  ASSUME NEW ents, NEW archs, NEW ents2, NEW archs2, NEW i,
         OthersKept(ents, archs, ents2, archs2, i),
         NEW free, FreeSlots(ents, free), \A k \in DOMAIN free : free[k] # i
  PROVE  FreeSlots(ents2, free)
BY DEF FreeSlots, OthersKept

(* A live entity: its slot, and the row its spec names.                    *)
LEMMA LiveFacts ==
  ASSUME IInv, NEW e \in Entity, Exists(entities, e)
  PROVE  /\ e.idx \in DOMAIN entities
         /\ entities[e.idx].has_value
         /\ entities[e.idx].version = e.version
         /\ e = [idx |-> e.idx, version |-> e.version]
         /\ SpecOf(e).arch \in DOMAIN archetypes
         /\ SpecOf(e).arch \in SUBSET Components
         /\ HasRow(archetypes[SpecOf(e).arch], SpecOf(e).chunk, SpecOf(e).row)
         /\ CellsOf(e) = SlotCells(entities, archetypes, e.idx)
         /\ CellsOf(e) \in CellsFor(SpecOf(e).arch)
         /\ \A k \in DOMAIN free_entities : free_entities[k] # e.idx
<1>1. /\ e.idx \in DOMAIN entities
      /\ entities[e.idx].has_value
      /\ entities[e.idx].version = e.version
  BY EntitiesFacts DEF Exists
<1>2. e = [idx |-> e.idx, version |-> e.version]
  BY DEF Entity
<1>3. PICK cs, c, r : cs = entities[e.idx].arch /\ c = entities[e.idx].chunk /\ r = entities[e.idx].row
  OBVIOUS
<1>4. cs \in DOMAIN archetypes /\ HasRow(archetypes[cs], c, r) /\ cs \in SUBSET Components
      /\ archetypes[cs] \in ArchetypesOf(Rows(cs))
  BY <1>1, <1>3 DEF IInv, WorldOK, Placed, ArchetypesOK
<1>5. RowAt(archetypes[cs], c, r) \in Rows(cs)
  <2>1. archetypes[cs].chunks[c] \in Seq(Rows(cs)) /\ r \in DOMAIN archetypes[cs].chunks[c]
    BY <1>4, FieldFacts DEF HasRow
  <2> QED BY <2>1, SeqFacts DEF RowAt
<1>6. RowAt(archetypes[cs], c, r).cells \in CellsFor(cs)
  BY <1>5 DEF Rows
<1>7. CellsOf(e) = RowAt(archetypes[cs], c, r).cells
  BY <1>3 DEF CellsOf, RowsAround, SpecOf, RowAt
<1>8. CellsOf(e) = SlotCells(entities, archetypes, e.idx)
  BY <1>3, <1>7 DEF SlotCells, SlotRow
<1>9. \A k \in DOMAIN free_entities : free_entities[k] # e.idx
  BY <1>1 DEF IInv, FreeSlots
<1> QED BY <1>1, <1>2, <1>3, <1>4, <1>6, <1>7, <1>8, <1>9 DEF SpecOf

(* new_entity_unlocked: the slot it takes is empty, and no longer queued.  *)
LEMMA SlotTaken ==
  ASSUME IInv, CanAllocate(entities, free_entities),
         NEW e, e = NextEntity(entities, free_entities),
         NEW slots, slots = SlotsAfterNew,
         NEW free, free = FreeAfterNew(free_entities)
  PROVE  /\ e \in Entity
         /\ slots \in Seq(EntitySpecs)
         /\ Len(slots) <= MaxSlots
         /\ e.idx \in DOMAIN slots
         /\ ~ slots[e.idx].has_value
         /\ e.idx \in DOMAIN entities => entities[e.idx].version < e.version
         /\ \A j \in DOMAIN entities : j \in DOMAIN slots /\ slots[j] = entities[j]
         /\ \A j \in DOMAIN slots : j \notin DOMAIN entities => j = e.idx
         /\ FreeSlots(slots, free)
         /\ \A k \in DOMAIN free : free[k] # e.idx
<1>1. /\ free_entities \in Seq(Nat)
      /\ \A k \in DOMAIN free_entities : /\ free_entities[k] \in DOMAIN entities
                                         /\ ~ entities[free_entities[k]].has_value
                                         /\ entities[free_entities[k]].version < MaxVersion
      /\ \A j, k \in DOMAIN free_entities : free_entities[j] = free_entities[k] => j = k
  BY DEF IInv, FreeSlots
<1>2. CASE free_entities # << >>
  <2>1. PICK i : i = Head(free_entities)
    OBVIOUS
  <2>2. /\ Len(free_entities) \in Nat /\ Len(free_entities) > 0
        /\ DOMAIN free_entities = 1..Len(free_entities)
        /\ i = free_entities[1]
        /\ Tail(free_entities) \in Seq(Nat)
        /\ DOMAIN Tail(free_entities) = 1..(Len(free_entities) - 1)
        /\ \A k \in DOMAIN Tail(free_entities) : Tail(free_entities)[k] = free_entities[k + 1]
    BY <1>1, <1>2, <2>1, SeqFacts
  <2>3. i \in DOMAIN entities /\ ~ entities[i].has_value /\ entities[i].version < MaxVersion
    BY <1>1, <2>2
  <2>4. slots = entities /\ free = Tail(free_entities)
    BY <1>2 DEF SlotsAfterNew, FreeAfterNew
  <2>5. e = [idx |-> i, version |-> entities[i].version + 1]
    BY <1>2, <2>1 DEF NextEntity, RecycledEntity
  <2>6. i \in 1..MaxSlots /\ entities[i].version + 1 \in 1..MaxVersion
    BY <2>3, EntitiesFacts, SlotsAssumption
  <2>7. e \in Entity /\ e.idx = i /\ entities[i].version < e.version
    BY <2>3, <2>5, <2>6, EntitiesFacts DEF Entity
  <2>8. \A k \in DOMAIN free : /\ free[k] = free_entities[k + 1]
                               /\ k + 1 \in DOMAIN free_entities /\ k + 1 # 1 /\ k \in Nat
    BY <2>2, <2>4
  <2>9. \A k \in DOMAIN free : free[k] # i
    BY <1>1, <2>2, <2>8
  <2>10. FreeSlots(slots, free)
    BY <1>1, <2>2, <2>4, <2>8 DEF FreeSlots
  <2> QED BY <2>3, <2>4, <2>7, <2>9, <2>10, EntitiesFacts
<1>3. CASE free_entities = << >>
  <2>1. /\ slots = Append(entities, NewEmptySpec)
        /\ free = << >>
        /\ e = [idx |-> Len(entities) + 1, version |-> 1]
        /\ Len(entities) < MaxSlots
    BY <1>3 DEF SlotsAfterNew, FreeAfterNew, NextEntity, FreshEntity, CanAllocate, INITIALIZE_VERSION
  <2>2. NewEmptySpec \in EntitySpecs /\ ~ NewEmptySpec.has_value
    BY SlotsAssumption DEF NewEmptySpec, EntitySpecs, INITIALIZE_VERSION
  <2>3. /\ slots \in Seq(EntitySpecs)
        /\ Len(slots) = Len(entities) + 1
        /\ DOMAIN slots = 1..(Len(entities) + 1)
        /\ \A j \in DOMAIN entities : slots[j] = entities[j]
        /\ slots[Len(entities) + 1] = NewEmptySpec
    BY <2>1, <2>2, EntitiesFacts, AppendFacts
  <2>4. e \in Entity /\ e.idx = Len(entities) + 1
    BY <2>1, EntitiesFacts, SlotsAssumption DEF Entity
  <2>5. FreeSlots(slots, free) /\ DOMAIN free = {}
    BY <2>1 DEF FreeSlots
  <2>6. Len(slots) <= MaxSlots /\ e.idx \in DOMAIN slots
    BY <2>1, <2>3, <2>4, EntitiesFacts, SlotsAssumption
  <2>7. \A j \in DOMAIN slots : j \notin DOMAIN entities => j = e.idx
    BY <2>3, <2>4, EntitiesFacts
  <2>8. e.idx \notin DOMAIN entities /\ \A j \in DOMAIN entities : j \in DOMAIN slots
    BY <2>3, <2>4, EntitiesFacts
  <2> QED BY <2>2, <2>3, <2>4, <2>5, <2>6, <2>7, <2>8
<1> QED BY <1>2, <1>3

(* Before and after, as another entity and as the store see them.          *)
Holds(ents, archs, e, cells) ==
  /\ e.idx \in DOMAIN ents
  /\ ents[e.idx].has_value
  /\ ents[e.idx].version = e.version
  /\ SlotCells(ents, archs, e.idx) = cells

Absent(ents, e) == e.idx \in DOMAIN ents => ~ ents[e.idx].has_value

Newer(e) == e.idx \in DOMAIN entities => entities[e.idx].version < e.version

Unseen(i) ==
  /\ OthersKept(entities, archetypes, entities', archetypes', i)
  /\ KindsKept(archetypes, archetypes')

(* push and update_entity_spec, for an entity whose slot was just taken.   *)
LEMMA PushNewFacts ==
  ASSUME IInv, CanAllocate(entities, free_entities),
         NEW known, Grown(known), NEW values \in Bundles, DOMAIN values \in DOMAIN known,
         CanTakeARow(known[DOMAIN values]),
         NEW e, e = NextEntity(entities, free_entities),
         PushNew(known, SlotsAfterNew, e, values),
         free_entities' = FreeAfterNew(free_entities), tick' = tick
  PROVE  /\ IInv'
         /\ e \in Entity
         /\ Unseen(e.idx)
         /\ Absent(entities, e) /\ Newer(e)
         /\ Holds(entities', archetypes', e, NewCells(values, tick))
<1>a. PICK slots, cs, cells, free :
        /\ slots = SlotsAfterNew /\ cs = DOMAIN values /\ cells = NewCells(values, tick)
        /\ free = FreeAfterNew(free_entities)
  OBVIOUS
<1>b. tick \in 1..MaxTick
  BY DEF IInv
<1>1. /\ e \in Entity
      /\ slots \in Seq(EntitySpecs)
      /\ Len(slots) <= MaxSlots
      /\ e.idx \in DOMAIN slots
      /\ ~ slots[e.idx].has_value
      /\ e.idx \in DOMAIN entities => entities[e.idx].version < e.version
      /\ \A j \in DOMAIN entities : j \in DOMAIN slots /\ slots[j] = entities[j]
      /\ \A j \in DOMAIN slots : j \notin DOMAIN entities => j = e.idx
      /\ FreeSlots(slots, free)
      /\ \A k \in DOMAIN free : free[k] # e.idx
  BY <1>a, SlotTaken
<1>2. WorldOK(entities, known)
  BY DEF Grown
<1>3. WorldOK(slots, known)
  <2>1. \A j \in DOMAIN slots : j \notin DOMAIN entities => ~ slots[j].has_value
    BY <1>1
  <2> QED BY <1>1, <1>2, <2>1, EmptySlotFacts
<1>4. /\ archetypes' = [known EXCEPT ![cs] = Push(@, [e |-> e, cells |-> cells])]
      /\ entities' = [slots EXCEPT ![e.idx] = EntitySpec(e.version, cs, NextRow(known[cs]))]
  BY <1>a DEF PushNew
<1>5. cells \in CellsFor(cs) /\ cs \in SUBSET Components
  BY <1>a, <1>b, NewCellsType, BundleFacts
<1>6. EntitySpec(e.version, cs, NextRow(known[cs])) \in EntitySpecs
  <2>1. known[cs] \in ArchetypesOf(Rows(cs)) /\ Sound(known[cs])
    BY <1>2, <1>a DEF WorldOK, ArchetypesOK
  <2>2. CanTakeARow(known[cs]) /\ [e |-> e, cells |-> cells] \in Rows(cs)
    BY <1>a, <1>1, <1>5 DEF Rows
  <2>4. NextRow(known[cs]).chunk \in Nat /\ NextRow(known[cs]).row \in Nat
    BY <2>1, <2>2, PushFacts
  <2>3. e.version \in 1..MaxVersion
    BY <1>1 DEF Entity
  <2> QED BY <1>5, <2>4, <2>3 DEF EntitySpec, EntitySpecs
<1>7. /\ entities' \in Seq(EntitySpecs)
      /\ DOMAIN entities' = DOMAIN slots
      /\ Len(entities') = Len(slots)
      /\ entities'[e.idx] = EntitySpec(e.version, cs, NextRow(known[cs]))
      /\ \A j \in DOMAIN slots : j # e.idx => entities'[j] = slots[j]
  BY <1>1, <1>4, <1>6, ReplaceFacts
<1>8. RowAdded(slots, known, e, cs, cells, entities', archetypes')
  BY <1>a, <1>1, <1>4, <1>5, <1>7 DEF RowAdded
<1>9. /\ WorldOK(entities', archetypes')
      /\ OthersKept(slots, known, entities', archetypes', e.idx)
      /\ SlotCells(entities', archetypes', e.idx) = cells
      /\ KindsKept(known, archetypes')
  BY <1>3, <1>8, AddRowFacts
<1>10. OthersKept(entities, archetypes, slots, known, e.idx) /\ KindsKept(archetypes, known)
  <2>1. OthersKept(entities, archetypes, entities, known, e.idx) /\ KindsKept(archetypes, known)
    BY GrownKept
  <2>2. OthersKept(entities, known, slots, known, e.idx)
    BY <1>1 DEF OthersKept, SlotCells, SlotRow
  <2> QED BY <2>1, <2>2, KeptTwice
<1>11. Unseen(e.idx)
  BY <1>9, <1>10, KeptTwice, KindsKeptTwice DEF Unseen
<1>12. FreeSlots(entities', free)
  BY <1>1, <1>9, FreeSlotsKept
<1>13. IInv'
  BY <1>a, <1>b, <1>1, <1>7, <1>9, <1>12 DEF IInv
<1>14. Absent(entities, e) /\ Newer(e)
  BY <1>1 DEF Absent, Newer
<1>15. Holds(entities', archetypes', e, cells)
  BY <1>1, <1>7, <1>9 DEF Holds, EntitySpec
<1> QED BY <1>a, <1>1, <1>11, <1>13, <1>14, <1>15

(* The specs after e has left its row.                                     *)
SpecsWithout(e) == EntitiesAfterErase(UpdateEntityIndices(RowsAround(e), SpecOf(e).row), e)

(* swap_remove_at with update_entity_indices, on the archetypes there are  *)
(* by then.                                                                *)
LEMMA LeaveRowFacts ==
  ASSUME IInv, NEW e \in Entity, Exists(entities, e), NEW known, Grown(known),
         NEW archs,
         archs = [known EXCEPT ![SpecOf(e).arch] = RemoveAt(@, SpecOf(e).chunk, SpecOf(e).row)]
  PROVE  /\ WorldOK(SpecsWithout(e), archs)
         /\ DOMAIN SpecsWithout(e) = DOMAIN entities
         /\ Len(SpecsWithout(e)) = Len(entities)
         /\ ~ SpecsWithout(e)[e.idx].has_value
         /\ SpecsWithout(e)[e.idx].version = e.version
         /\ OthersKept(entities, known, SpecsWithout(e), archs, e.idx)
         /\ KindsKept(known, archs)
         /\ DOMAIN archs = DOMAIN known
<1>a. PICK i, cs, c, r, rows, moved, upd, specs :
        /\ i = e.idx /\ cs = entities[i].arch /\ c = entities[i].chunk /\ r = entities[i].row
        /\ rows = archetypes[cs].chunks[c]
        /\ moved = rows[Len(rows)].e.idx
        /\ upd = UpdateEntityIndices(rows, r)
        /\ specs = SpecsWithout(e)
  OBVIOUS
<1>1. /\ i \in DOMAIN entities /\ entities[i].has_value
      /\ entities[i].version = e.version
      /\ cs \in DOMAIN archetypes
      /\ HasRow(archetypes[cs], c, r)
  BY <1>a, LiveFacts DEF SpecOf
<1>2. WorldOK(entities, known) /\ cs \in DOMAIN known /\ known[cs] = archetypes[cs]
  BY <1>1 DEF Grown
<1>3. specs = [upd EXCEPT ![i].has_value = FALSE]
  BY <1>a DEF SpecsWithout, EntitiesAfterErase, RowsAround, SpecOf
<1>4. /\ entities \in Seq(EntitySpecs)
      /\ entities[i] \in EntitySpecs
      /\ r \in Nat
  BY <1>a, <1>1, EntitiesFacts DEF EntitySpecs
<1>5. moved \in DOMAIN entities /\ (r # Len(rows) => moved # i)
  <2>1. archetypes[cs] \in ArchetypesOf(Rows(cs)) /\ Sound(archetypes[cs])
    BY <1>1 DEF IInv, WorldOK, ArchetypesOK
  <2>2. HasRow(archetypes[cs], c, Len(rows)) /\ RowAt(archetypes[cs], c, Len(rows)).e.idx = moved
    <3>1. PICK a : a = archetypes[cs]
      OBVIOUS
    <3>2. PICK last : last = Len(a.chunks[c])
      OBVIOUS
    <3>3. HasRow(a, c, last)
      BY <1>1, <2>1, <3>1, <3>2, RemoveAtFacts
    <3> QED BY <1>a, <3>1, <3>2, <3>3 DEF RowAt
  <2>3. moved \in DOMAIN entities /\ entities[moved].row = Len(rows)
    BY <1>1, <2>2 DEF IInv, WorldOK, Named, Names
  <2> QED BY <1>a, <2>3
<1>6. /\ upd \in Seq(EntitySpecs)
      /\ DOMAIN upd = DOMAIN entities
      /\ Len(upd) = Len(entities)
      /\ upd[i] = entities[i]
      /\ \A j \in DOMAIN entities : j # i /\ j # moved => upd[j] = entities[j]
      /\ r # Len(rows) => upd[moved] = [entities[moved] EXCEPT !.row = r]
  <2>1. CASE r = Len(rows)
    BY <1>a, <1>4, <2>1 DEF UpdateEntityIndices
  <2>2. CASE r # Len(rows)
    <3>1. upd = [entities EXCEPT ![moved] = [entities[moved] EXCEPT !.row = r]]
      BY <1>a, <2>2 DEF UpdateEntityIndices
    <3>2. entities[moved] \in EntitySpecs
      BY <1>5, EntitiesFacts
    <3>3. [entities[moved] EXCEPT !.row = r] \in EntitySpecs
      BY <1>4, <3>2 DEF EntitySpecs
    <3> QED BY <1>1, <1>4, <1>5, <2>2, <3>1, <3>3, ReplaceFacts
  <2> QED BY <2>1, <2>2
<1>7. /\ specs \in Seq(EntitySpecs)
      /\ DOMAIN specs = DOMAIN entities
      /\ Len(specs) = Len(entities)
      /\ ~ specs[i].has_value
      /\ specs[i].version = e.version
      /\ \A j \in DOMAIN entities : j # i => specs[j] = upd[j]
  <2>1. PICK empty : empty = [entities[i] EXCEPT !.has_value = FALSE]
    OBVIOUS
  <2>2. empty \in EntitySpecs /\ ~ empty.has_value /\ empty.version = e.version
    BY <1>1, <1>4, <2>1 DEF EntitySpecs
  <2>3. specs = [upd EXCEPT ![i] = empty]
    BY <1>3, <1>6, <2>1
  <2> QED BY <1>1, <1>6, <2>2, <2>3, ReplaceFacts
<1>8. archs = [known EXCEPT ![cs] = RemoveAt(known[cs], c, r)]
  BY <1>a DEF SpecOf
<1>9. RowRemoved(entities, known, i, specs, archs)
  <2>1. \A j \in DOMAIN entities : j # i /\ j # moved => specs[j] = entities[j]
    BY <1>6, <1>7
  <2>2. r # Len(rows) => specs[moved] = [entities[moved] EXCEPT !.row = r]
    BY <1>5, <1>6, <1>7
  <2>3. moved = known[cs].chunks[c][Len(known[cs].chunks[c])].e.idx /\ rows = known[cs].chunks[c]
    BY <1>a, <1>2
  <2> QED BY <1>a, <1>1, <1>7, <1>8, <2>1, <2>2, <2>3 DEF RowRemoved
<1>10. /\ WorldOK(specs, archs)
       /\ OthersKept(entities, known, specs, archs, i)
       /\ KindsKept(known, archs)
       /\ DOMAIN archs = DOMAIN known
  BY <1>2, <1>9, RemoveRowFacts
<1> QED BY <1>a, <1>7, <1>10

(* take_and_write_from and take_and_remove_from: a row removed here and    *)
(* added there. Only unlocked archetypes take part.                        *)
LEMMA MoveRowFacts ==
  ASSUME IInv, NEW e \in Entity, Exists(entities, e), NEW known, Grown(known),
         NEW dst \in DOMAIN known, dst # SpecOf(e).arch,
         MayChange(known, SpecOf(e).arch, dst),
         NEW cells \in CellsFor(dst), MoveRow(known, e, dst, cells),
         UNCHANGED <<free_entities, tick>>
  PROVE  /\ IInv'
         /\ Unseen(e.idx)
         /\ Holds(entities', archetypes', e, cells)
         /\ SpecOf(e).arch \in DOMAIN archetypes
         /\ entities'[e.idx].arch = dst
         /\ archetypes'[SpecOf(e).arch].allow_structure_change
         /\ archetypes'[dst].allow_structure_change
         /\ Len(entities') = Len(entities)
<1>a. PICK i, src, archs, specs :
        /\ i = e.idx /\ src = SpecOf(e).arch
        /\ archs = [known EXCEPT ![src] = RemoveAt(@, SpecOf(e).chunk, SpecOf(e).row)]
        /\ specs = SpecsWithout(e)
  OBVIOUS
<1>1. /\ i \in DOMAIN entities /\ entities[i].has_value
      /\ src \in DOMAIN archetypes
      /\ \A k \in DOMAIN free_entities : free_entities[k] # i
  BY <1>a, LiveFacts
<1>2. /\ WorldOK(entities, known) /\ src \in DOMAIN known
      /\ OthersKept(entities, archetypes, entities, known, i)
      /\ KindsKept(archetypes, known)
  BY <1>1, GrownKept DEF Grown
<1>3. /\ WorldOK(specs, archs)
      /\ DOMAIN specs = DOMAIN entities
      /\ Len(specs) = Len(entities)
      /\ ~ specs[i].has_value
      /\ OthersKept(entities, known, specs, archs, i)
      /\ KindsKept(known, archs)
      /\ DOMAIN archs = DOMAIN known
  BY <1>a, LeaveRowFacts
<1>4. archs[dst] = known[dst] /\ dst # src /\ dst \in DOMAIN archs
  BY <1>a, <1>3
<1>5. CanTakeARow(archs[dst])
  <2>1. known[dst].allow_structure_change
    BY DEF MayChange
  <2>2. ~ known[dst].is_singleton
    BY <1>2, <2>1 DEF WorldOK, ArchetypesOK
  <2> QED BY <1>4, <2>2 DEF CanTakeARow
<1>6. archetypes' = [archs EXCEPT ![dst] = Push(@, [e |-> e, cells |-> cells])]
  <2>1. archetypes' =
          [known EXCEPT ![dst] = Push(known[dst], [e |-> e, cells |-> cells]),
                        ![src] = RemoveAt(known[src], SpecOf(e).chunk, SpecOf(e).row)]
    BY <1>a, <1>4 DEF MoveRow
  <2> QED BY <1>a, <1>2, <1>4, <2>1
<1>7. e.version \in 1..MaxVersion /\ dst \in SUBSET Components
  BY <1>2 DEF Entity, WorldOK, ArchetypesOK
<1>8. EntitySpec(e.version, dst, NextRow(archs[dst])) \in EntitySpecs
  <2>1. archs[dst] \in ArchetypesOf(Rows(dst)) /\ Sound(archs[dst])
    BY <1>3, <1>4 DEF WorldOK, ArchetypesOK
  <2>2. [e |-> e, cells |-> cells] \in Rows(dst)
    BY DEF Rows
  <2>3. NextRow(archs[dst]).chunk \in Nat /\ NextRow(archs[dst]).row \in Nat
    BY <1>5, <2>1, <2>2, PushFacts
  <2> QED BY <1>7, <2>3 DEF EntitySpec, EntitySpecs
<1>9. entities' = [specs EXCEPT ![i] = EntitySpec(e.version, dst, NextRow(archs[dst]))]
  <2>1. PICK upd : upd = UpdateEntityIndices(RowsAround(e), SpecOf(e).row)
    OBVIOUS
  <2>2. specs = [upd EXCEPT ![i].has_value = FALSE]
    BY <1>a, <2>1 DEF SpecsWithout, EntitiesAfterErase
  <2>3. entities' = [upd EXCEPT ![i] = EntitySpec(e.version, dst, NextRow(known[dst]))]
    BY <1>a, <2>1 DEF MoveRow
  <2>4. i \in DOMAIN upd
    BY <1>1, <1>3, <2>2
  <2> QED BY <1>4, <2>2, <2>3, <2>4
<1>10. specs \in Seq(EntitySpecs) /\ i \in DOMAIN specs
  BY <1>1, <1>3 DEF WorldOK
<1>11. /\ entities' \in Seq(EntitySpecs)
       /\ Len(entities') = Len(specs)
       /\ DOMAIN entities' = DOMAIN specs
       /\ entities'[i] = EntitySpec(e.version, dst, NextRow(archs[dst]))
       /\ \A j \in DOMAIN specs : j # i => entities'[j] = specs[j]
  BY <1>8, <1>9, <1>10, ReplaceFacts
<1>12. RowAdded(specs, archs, e, dst, cells, entities', archetypes')
  BY <1>a, <1>3, <1>4, <1>5, <1>6, <1>10, <1>11 DEF RowAdded
<1>13. /\ WorldOK(entities', archetypes')
       /\ OthersKept(specs, archs, entities', archetypes', i)
       /\ SlotCells(entities', archetypes', i) = cells
       /\ KindsKept(archs, archetypes')
  BY <1>a, <1>3, <1>12, AddRowFacts
<1>14. OthersKept(entities, archetypes, entities', archetypes', i)
  <2>1. OthersKept(entities, archetypes, specs, archs, i)
    BY <1>2, <1>3, KeptTwice
  <2> QED BY <1>13, <2>1, KeptTwice
<1>15. KindsKept(known, archetypes')
  BY <1>3, <1>13, KindsKeptTwice
<1>16. Unseen(i)
  BY <1>2, <1>14, <1>15, KindsKeptTwice DEF Unseen
<1>17. FreeSlots(entities', free_entities)
  BY <1>1, <1>14, FreeSlotsKept DEF IInv
<1>18. IInv'
  BY <1>3, <1>11, <1>13, <1>17 DEF IInv
<1>19. Holds(entities', archetypes', e, cells) /\ entities'[i].arch = dst
  BY <1>a, <1>10, <1>11, <1>13 DEF Holds, EntitySpec
<1>20. archetypes'[src].allow_structure_change /\ archetypes'[dst].allow_structure_change
  BY <1>a, <1>2, <1>15 DEF KindsKept, SameKind, MayChange
<1>21. Len(entities') = Len(entities)
  BY <1>3, <1>11
<1> QED BY <1>a, <1>1, <1>16, <1>18, <1>19, <1>20, <1>21

(* A step that only adds archetypes: a registration, or an operation that  *)
(* was refused.                                                            *)
LEMMA GrownStep ==
  ASSUME IInv, Grown(archetypes'), UNCHANGED <<entities, free_entities, tick>>, NEW i
  PROVE  IInv' /\ Unseen(i)
<1>1. IInv'
  BY DEF IInv, Grown
<1>2. OthersKept(entities, archetypes, entities, archetypes', i) /\ KindsKept(archetypes, archetypes')
  BY GrownKept
<1> QED BY <1>1, <1>2 DEF Unseen

(* The cells of a live entity change where they are.                       *)
LEMMA SetCellsStep ==
  ASSUME IInv, NEW e \in Entity, Exists(entities, e), NEW known, Grown(known),
         NEW cells, CellsSet(entities, known, e.idx, cells, archetypes'),
         UNCHANGED <<entities, free_entities, tick>>
  PROVE  /\ IInv'
         /\ Unseen(e.idx)
         /\ Holds(entities', archetypes', e, cells)
         /\ entities'[e.idx].arch = SpecOf(e).arch
<1>1. e.idx \in DOMAIN entities /\ entities[e.idx].has_value /\ entities[e.idx].version = e.version
  BY LiveFacts
<1>2. WorldOK(entities, known)
  BY DEF Grown
<1>3. CellsSet(entities, known, e.idx, cells, archetypes')
  OBVIOUS
<1>4. /\ WorldOK(entities, archetypes')
      /\ OthersKept(entities, known, entities, archetypes', e.idx)
      /\ SlotCells(entities, archetypes', e.idx) = cells
      /\ KindsKept(known, archetypes')
  BY <1>2, <1>3, SetCellsFacts
<1>5. OthersKept(entities, archetypes, entities, known, e.idx) /\ KindsKept(archetypes, known)
  BY GrownKept
<1>6. Unseen(e.idx)
  BY <1>4, <1>5, KeptTwice, KindsKeptTwice DEF Unseen
<1>7. IInv'
  BY <1>4 DEF IInv
<1> QED BY <1>1, <1>4, <1>6, <1>7 DEF Holds, SpecOf
----------------------------------------------------------------------------
(* What a step is to the entities.                                         *)

Quiet == tick' = tick /\ \A i : Unseen(i)

Refused == Quiet /\ UNCHANGED entities

Created(e, cells) ==
  /\ tick' = tick
  /\ Absent(entities, e)
  /\ Newer(e)
  /\ Unseen(e.idx)
  /\ Holds(entities', archetypes', e, cells)

Destroyed(e) ==
  /\ tick' = tick
  /\ Exists(entities, e)
  /\ Unseen(e.idx)
  /\ Len(entities') = Len(entities)
  /\ e.idx \in DOMAIN entities'
  /\ Absent(entities', e)
  /\ entities'[e.idx].version = e.version

Changed(e, cells) ==
  /\ tick' = tick
  /\ Exists(entities, e)
  /\ Unseen(e.idx)
  /\ Len(entities') = Len(entities)
  /\ Holds(entities', archetypes', e, cells)
  /\ entities'[e.idx].arch # SpecOf(e).arch =>
       /\ archetypes'[SpecOf(e).arch].allow_structure_change
       /\ archetypes'[entities'[e.idx].arch].allow_structure_change

(* try_register_archetype and try_register_singleton.                      *)
LEMMA RegisterEitherStep ==
  ASSUME IInv, NEW cs \in ComponentSets, NEW allow \in BOOLEAN,
         RegisterArchetype(cs, allow) \/ RegisterSingleton(cs)
  PROVE  IInv' /\ Quiet
<1>1. Grown(archetypes) /\ cs \in SUBSET Components
  BY GrownNone DEF ComponentSets
<1>2. Grown(archetypes')
  <2>1. CASE RegisterArchetype(cs, allow)
    <3>1. archetypes' = WithArchetype(archetypes, cs, NewArchetype(FALSE, allow))
      BY <2>1 DEF RegisterArchetype, Chunked
    <3> QED BY <1>1, <3>1, GrownMore
  <2>2. CASE RegisterSingleton(cs)
    <3>1. archetypes' = WithArchetype(archetypes, cs, NewArchetype(TRUE, FALSE))
      BY <2>2 DEF RegisterSingleton, Singleton
    <3> QED BY <1>1, <3>1, GrownMore
  <2> QED BY <2>1, <2>2
<1>3. UNCHANGED <<entities, free_entities, tick>>
  BY DEF RegisterArchetype, RegisterSingleton
<1> QED BY <1>2, <1>3, GrownStep DEF Quiet

(* get_or_create_archetype_id, once and twice.                             *)
LEMMA GetOrCreateFacts ==
  ASSUME NEW known, Grown(known), NEW cs \in SUBSET Components,
         NEW more, more = GetOrCreate(known, cs)
  PROVE  /\ Grown(more)
         /\ cs \in DOMAIN more
         /\ \A k \in DOMAIN known : k \in DOMAIN more /\ more[k] = known[k]
<1>1. more = WithArchetype(known, cs, NewArchetype(FALSE, TRUE))
  BY DEF GetOrCreate, Chunked
<1> QED BY <1>1, GrownMore

(* A create that is refused after it took a slot: the slot stays empty.    *)
LEMMA RefusedCreateStep ==
  ASSUME IInv, CanAllocate(entities, free_entities), Grown(archetypes'),
         entities' = SlotsAfterNew, free_entities' = FreeAfterNew(free_entities), tick' = tick
  PROVE  IInv' /\ Quiet
<1>1. PICK e, slots, free :
        /\ e = NextEntity(entities, free_entities)
        /\ slots = entities' /\ free = free_entities'
  OBVIOUS
<1>2. /\ slots \in Seq(EntitySpecs)
      /\ Len(slots) <= MaxSlots
      /\ ~ slots[e.idx].has_value
      /\ \A j \in DOMAIN entities : j \in DOMAIN slots /\ slots[j] = entities[j]
      /\ \A j \in DOMAIN slots : j \notin DOMAIN entities => j = e.idx
      /\ FreeSlots(slots, free)
  BY <1>1, SlotTaken
<1>3. \A j \in DOMAIN slots : j \notin DOMAIN entities => ~ slots[j].has_value
  BY <1>2
<1>4. WorldOK(entities, archetypes')
  BY DEF Grown
<1>5. WorldOK(slots, archetypes')
  BY <1>2, <1>3, <1>4, EmptySlotFacts
<1>6. IInv'
  BY <1>1, <1>2, <1>5 DEF IInv
<1>7. ASSUME NEW i
      PROVE  Unseen(i)
  <2>1. OthersKept(entities, archetypes, entities, archetypes', i) /\ KindsKept(archetypes, archetypes')
    BY GrownKept
  <2>2. OthersKept(entities, archetypes', slots, archetypes', i)
    BY <1>2, <1>3 DEF OthersKept, SlotCells, SlotRow
  <2> QED BY <1>1, <2>1, <2>2, KeptTwice DEF Unseen
<1> QED BY <1>6, <1>7 DEF Quiet

(* try_create, refused by its archetype or not.                           *)
LEMMA TryCreateStep ==
  ASSUME IInv, NEW values \in Bundles, TryCreate(values)
  PROVE  IInv' /\ (Quiet \/ \E e \in Entity : Created(e, NewCells(values, tick)))
<1>1. PICK known, e : /\ known = GetOrCreate(archetypes, DOMAIN values)
                      /\ e = NextEntity(entities, free_entities)
  OBVIOUS
<1>2. Grown(known) /\ DOMAIN values \in DOMAIN known
  BY <1>1, GrownNone, GetOrCreateFacts, BundleFacts
<1>3. /\ CanAllocate(entities, free_entities)
      /\ free_entities' = FreeAfterNew(free_entities)
      /\ tick' = tick
      /\ \/ CanTakeARow(known[DOMAIN values]) /\ PushNew(known, SlotsAfterNew, e, values)
         \/ archetypes' = known /\ entities' = SlotsAfterNew
  BY <1>1 DEF TryCreate
<1>4. CASE CanTakeARow(known[DOMAIN values]) /\ PushNew(known, SlotsAfterNew, e, values)
  <2>1. /\ IInv' /\ e \in Entity /\ Unseen(e.idx) /\ Absent(entities, e) /\ Newer(e)
        /\ Holds(entities', archetypes', e, NewCells(values, tick))
    BY <1>1, <1>2, <1>3, <1>4, PushNewFacts
  <2> QED BY <1>3, <2>1 DEF Created
<1>5. CASE archetypes' = known /\ entities' = SlotsAfterNew
  BY <1>2, <1>3, <1>5, RefusedCreateStep
<1> QED BY <1>3, <1>4, <1>5

(* try_create_singleton.                                                  *)
LEMMA TryCreateSingletonStep ==
  ASSUME IInv, NEW values \in Bundles, TryCreateSingleton(values)
  PROVE  IInv' /\ (Quiet \/ \E e \in Entity : Created(e, NewCells(values, tick)))
<1>1. PICK known, e : /\ known = WithArchetype(archetypes, DOMAIN values, NewArchetype(TRUE, FALSE))
                      /\ e = NextEntity(entities, free_entities)
  OBVIOUS
<1>2. Grown(known) /\ DOMAIN values \in DOMAIN known
  <2>1. PICK cs : cs = DOMAIN values
    OBVIOUS
  <2>2. Grown(archetypes) /\ cs \in SUBSET Components
    BY <2>1, GrownNone, BundleFacts
  <2>3. known = WithArchetype(archetypes, cs, NewArchetype(TRUE, FALSE))
    BY <1>1, <2>1
  <2>4. \E singleton, allow \in BOOLEAN :
          /\ singleton => ~ allow
          /\ known = WithArchetype(archetypes, cs, NewArchetype(singleton, allow))
    BY <2>3
  <2>5. Grown(known) /\ cs \in DOMAIN known
    BY <2>2, <2>4, GrownMore
  <2> QED BY <2>1, <2>5
<1>3. /\ tick' = tick
      /\ \/ /\ CanTakeARow(known[DOMAIN values])
            /\ CanAllocate(entities, free_entities)
            /\ free_entities' = FreeAfterNew(free_entities)
            /\ PushNew(known, SlotsAfterNew, e, values)
         \/ archetypes' = known /\ UNCHANGED <<entities, free_entities>>
  BY <1>1 DEF TryCreateSingleton, Singleton
<1>4. CASE /\ CanTakeARow(known[DOMAIN values])
           /\ CanAllocate(entities, free_entities)
           /\ free_entities' = FreeAfterNew(free_entities)
           /\ PushNew(known, SlotsAfterNew, e, values)
  <2>1. /\ IInv' /\ e \in Entity /\ Unseen(e.idx) /\ Absent(entities, e) /\ Newer(e)
        /\ Holds(entities', archetypes', e, NewCells(values, tick))
    BY <1>1, <1>2, <1>3, <1>4, PushNewFacts
  <2> QED BY <1>3, <2>1 DEF Created
<1>5. CASE archetypes' = known /\ UNCHANGED <<entities, free_entities>>
  <2>1. Grown(archetypes') /\ UNCHANGED <<entities, free_entities, tick>>
    BY <1>2, <1>3, <1>5
  <2> QED BY <2>1, GrownStep DEF Quiet
<1> QED BY <1>3, <1>4, <1>5

(* try_destroy: leave the row, then erase the slot.                       *)
LEMMA TryDestroyStep ==
  ASSUME IInv, NEW e \in Entity, TryDestroy(e)
  PROVE  IInv' /\ Destroyed(e)
<1>1. /\ Exists(entities, e)
      /\ archetypes' = [archetypes EXCEPT ![SpecOf(e).arch] =
                          RemoveAt(@, SpecOf(e).chunk, SpecOf(e).row)]
      /\ entities' = SpecsWithout(e)
      /\ free_entities' = FreeAfterErase(entities, free_entities, e)
      /\ tick' = tick
  BY DEF TryDestroy, SpecsWithout
<1>2. Grown(archetypes)
  BY GrownNone
<1>3. /\ WorldOK(entities', archetypes')
      /\ DOMAIN entities' = DOMAIN entities
      /\ Len(entities') = Len(entities)
      /\ ~ entities'[e.idx].has_value
      /\ entities'[e.idx].version = e.version
      /\ OthersKept(entities, archetypes, entities', archetypes', e.idx)
      /\ KindsKept(archetypes, archetypes')
  BY <1>1, <1>2, LeaveRowFacts
<1>4. /\ e.idx \in DOMAIN entities /\ entities[e.idx].version = e.version
      /\ \A k \in DOMAIN free_entities : free_entities[k] # e.idx
  BY <1>1, LiveFacts
<1>5. FreeSlots(entities', free_entities)
  BY <1>3, <1>4, FreeSlotsKept DEF IInv
<1>6. FreeSlots(entities', free_entities')
  <2>1. CASE IsSpent(entities, e)
    BY <1>1, <1>5, <2>1 DEF FreeAfterErase
  <2>2. CASE ~ IsSpent(entities, e)
    <3>1. free_entities' = Append(free_entities, e.idx)
      BY <1>1, <2>2 DEF FreeAfterErase
    <3>2. free_entities \in Seq(Nat) /\ e.idx \in Nat
      BY <1>4, EntitiesFacts DEF IInv, FreeSlots
    <3>3. /\ Append(free_entities, e.idx) \in Seq(Nat)
          /\ Len(free_entities) \in Nat
          /\ DOMAIN free_entities = 1..Len(free_entities)
          /\ DOMAIN Append(free_entities, e.idx) = 1..(Len(free_entities) + 1)
          /\ \A k \in DOMAIN free_entities : Append(free_entities, e.idx)[k] = free_entities[k]
          /\ Append(free_entities, e.idx)[Len(free_entities) + 1] = e.idx
      BY <3>2, AppendFacts, SeqFacts
    <3>4. e.version < MaxVersion
      BY <1>4, <2>2, EntitiesFacts, SlotsAssumption DEF IsSpent
    <3>5. entities'[e.idx].version < MaxVersion
      BY <1>3, <3>4
    <3> QED BY <1>3, <1>4, <1>5, <3>1, <3>3, <3>5 DEF FreeSlots
  <2> QED BY <2>1, <2>2
<1>7. IInv'
  BY <1>1, <1>3, <1>6 DEF IInv
<1> QED BY <1>1, <1>3, <1>4, <1>7 DEF Destroyed, Unseen, Absent

(* try_add_component: a move to the union, or a refusal.                  *)
LEMMA TryAddComponentStep ==
  ASSUME IInv, NEW e \in Entity, NEW values \in Bundles, TryAddComponent(e, values)
  PROVE  IInv' /\ (Refused \/ Changed(e, MergedCells(CellsOf(e), values, tick)))
<1>1. PICK src, added, dst, with1, with2, cells :
        /\ src = SpecOf(e).arch /\ added = DOMAIN values /\ dst = src \cup added
        /\ with1 = GetOrCreate(archetypes, added) /\ with2 = GetOrCreate(with1, dst)
        /\ cells = MergedCells(CellsOf(e), values, tick)
  OBVIOUS
<1>2. /\ Exists(entities, e)
      /\ UNCHANGED <<free_entities, tick>>
      /\ \/ archetypes' = with1 /\ UNCHANGED entities
         \/ archetypes' = with2 /\ UNCHANGED entities
         \/ /\ src \cap added = {}
            /\ MayChange(with2, src, dst)
            /\ MoveRow(with2, e, dst, cells)
  BY <1>1 DEF TryAddComponent, SetOfPair, ContainsAnyComponentOf
<1>3. /\ src \in SUBSET Components /\ added \in SUBSET Components /\ added # {}
      /\ CellsOf(e) \in CellsFor(src)
  BY <1>1, <1>2, LiveFacts, BundleFacts
<1>4. Grown(with1)
  BY <1>1, <1>3, GrownNone, GetOrCreateFacts
<1>5. Grown(with2) /\ dst \in DOMAIN with2
  <2>1. dst \in SUBSET Components
    BY <1>1, <1>3
  <2> QED BY <1>1, <1>4, <2>1, GetOrCreateFacts
<1>6. CASE UNCHANGED entities /\ (archetypes' = with1 \/ archetypes' = with2)
  <2>1. Grown(archetypes') /\ UNCHANGED <<entities, free_entities, tick>>
    BY <1>2, <1>4, <1>5, <1>6
  <2> QED BY <2>1, GrownStep DEF Refused, Quiet
<1>7. CASE /\ src \cap added = {}
           /\ MayChange(with2, src, dst)
           /\ MoveRow(with2, e, dst, cells)
  <2>1. dst # SpecOf(e).arch
    BY <1>1, <1>3, <1>7
  <2>2. cells \in CellsFor(dst)
    BY <1>1, <1>3, MergedCellsType DEF IInv
  <2>3. MayChange(with2, SpecOf(e).arch, dst) /\ MoveRow(with2, e, dst, cells)
    BY <1>1, <1>7
  <2>4. /\ IInv' /\ Unseen(e.idx)
        /\ Holds(entities', archetypes', e, cells)
        /\ entities'[e.idx].arch = dst
        /\ archetypes'[SpecOf(e).arch].allow_structure_change
        /\ archetypes'[dst].allow_structure_change
        /\ Len(entities') = Len(entities)
    BY <1>2, <1>5, <2>1, <2>2, <2>3, MoveRowFacts
  <2> QED BY <1>1, <1>2, <2>4 DEF Changed
<1> QED BY <1>2, <1>6, <1>7

(* try_merge_component: in place where nothing is new, a move otherwise.  *)
LEMMA TryMergeComponentStep ==
  ASSUME IInv, NEW e \in Entity, NEW values \in Bundles, TryMergeComponent(e, values)
  PROVE  IInv' /\ (Refused \/ Changed(e, MergedCells(CellsOf(e), values, tick)))
<1>1. PICK src, added, dst, with1, known, cells :
        /\ src = SpecOf(e).arch /\ added = DOMAIN values /\ dst = src \cup added
        /\ with1 = GetOrCreate(archetypes, added) /\ known = GetOrCreate(with1, dst)
        /\ cells = MergedCells(CellsOf(e), values, tick)
  OBVIOUS
<1>2. /\ Exists(entities, e)
      /\ UNCHANGED <<free_entities, tick>>
      /\ \/ /\ dst = src
            /\ archetypes' = [known EXCEPT
                 ![src].chunks[SpecOf(e).chunk][SpecOf(e).row].cells = cells]
            /\ UNCHANGED entities
         \/ archetypes' = known /\ UNCHANGED entities
         \/ /\ dst # src
            /\ MayChange(known, src, dst)
            /\ MoveRow(known, e, dst, cells)
  BY <1>1 DEF TryMergeComponent, SetOfPair
<1>3. /\ src \in SUBSET Components /\ added \in SUBSET Components
      /\ CellsOf(e) \in CellsFor(src)
      /\ e.idx \in DOMAIN entities /\ entities[e.idx].has_value
  BY <1>1, <1>2, LiveFacts, BundleFacts
<1>4. Grown(with1)
  BY <1>1, <1>3, GrownNone, GetOrCreateFacts
<1>5. Grown(known) /\ dst \in DOMAIN known
  <2>1. dst \in SUBSET Components
    BY <1>1, <1>3
  <2> QED BY <1>1, <1>4, <2>1, GetOrCreateFacts
<1>6. cells \in CellsFor(dst)
  BY <1>1, <1>3, MergedCellsType DEF IInv
<1>7. CASE archetypes' = known /\ UNCHANGED entities
  <2>1. Grown(archetypes') /\ UNCHANGED <<entities, free_entities, tick>>
    BY <1>2, <1>5, <1>7
  <2> QED BY <2>1, GrownStep DEF Refused, Quiet
<1>8. CASE /\ dst = src
           /\ archetypes' = [known EXCEPT
                ![src].chunks[SpecOf(e).chunk][SpecOf(e).row].cells = cells]
           /\ UNCHANGED entities
  <2>1. CellsSet(entities, known, e.idx, cells, archetypes')
    BY <1>1, <1>3, <1>6, <1>8 DEF CellsSet, SpecOf
  <2>2. UNCHANGED <<entities, free_entities, tick>>
    BY <1>2, <1>8
  <2>3. /\ IInv' /\ Unseen(e.idx)
        /\ Holds(entities', archetypes', e, cells)
        /\ entities'[e.idx].arch = SpecOf(e).arch
    BY <1>2, <1>5, <2>1, <2>2, SetCellsStep
  <2> QED BY <1>1, <1>2, <2>2, <2>3 DEF Changed
<1>9. CASE /\ dst # src
           /\ MayChange(known, src, dst)
           /\ MoveRow(known, e, dst, cells)
  <2>1. /\ dst # SpecOf(e).arch
        /\ MayChange(known, SpecOf(e).arch, dst) /\ MoveRow(known, e, dst, cells)
    BY <1>1, <1>9
  <2>2. /\ IInv' /\ Unseen(e.idx)
        /\ Holds(entities', archetypes', e, cells)
        /\ entities'[e.idx].arch = dst
        /\ archetypes'[SpecOf(e).arch].allow_structure_change
        /\ archetypes'[dst].allow_structure_change
        /\ Len(entities') = Len(entities)
    BY <1>2, <1>5, <1>6, <2>1, MoveRowFacts
  <2> QED BY <1>1, <1>2, <2>2 DEF Changed
<1> QED BY <1>2, <1>7, <1>8, <1>9

(* try_remove_component: a move to the difference, or a refusal.          *)
LEMMA TryRemoveComponentStep ==
  ASSUME IInv, NEW e \in Entity, NEW removed \in ComponentSets, TryRemoveComponent(e, removed)
  PROVE  IInv' /\ (Refused \/ /\ removed \subseteq DOMAIN CellsOf(e)
                              /\ Changed(e, RemainingCells(CellsOf(e), removed)))
<1>1. PICK src, dst, with1, with2, cells :
        /\ src = SpecOf(e).arch /\ dst = src \ removed
        /\ with1 = GetOrCreate(archetypes, removed) /\ with2 = GetOrCreate(with1, dst)
        /\ cells = RemainingCells(CellsOf(e), removed)
  OBVIOUS
<1>2. /\ Exists(entities, e)
      /\ UNCHANGED <<free_entities, tick>>
      /\ \/ archetypes' = with1 /\ UNCHANGED entities
         \/ archetypes' = with2 /\ UNCHANGED entities
         \/ /\ removed \subseteq src
            /\ MayChange(with2, src, dst)
            /\ MoveRow(with2, e, dst, cells)
  BY <1>1 DEF TryRemoveComponent, SetOfAExcludeB, ContainsAllComponentsOf
<1>3. /\ src \in SUBSET Components /\ removed \in SUBSET Components /\ removed # {}
      /\ CellsOf(e) \in CellsFor(src)
  BY <1>1, <1>2, LiveFacts DEF ComponentSets
<1>4. Grown(with1)
  BY <1>1, <1>3, GrownNone, GetOrCreateFacts
<1>5. Grown(with2) /\ dst \in DOMAIN with2
  <2>1. dst \in SUBSET Components
    BY <1>1, <1>3
  <2> QED BY <1>1, <1>4, <2>1, GetOrCreateFacts
<1>6. CASE UNCHANGED entities /\ (archetypes' = with1 \/ archetypes' = with2)
  <2>1. Grown(archetypes') /\ UNCHANGED <<entities, free_entities, tick>>
    BY <1>2, <1>4, <1>5, <1>6
  <2> QED BY <2>1, GrownStep DEF Refused, Quiet
<1>7. CASE /\ removed \subseteq src
           /\ MayChange(with2, src, dst)
           /\ MoveRow(with2, e, dst, cells)
  <2>1. dst # SpecOf(e).arch
    BY <1>1, <1>3, <1>7
  <2>2. cells \in CellsFor(dst)
    BY <1>1, <1>3, RemainingCellsType
  <2>3. MayChange(with2, SpecOf(e).arch, dst) /\ MoveRow(with2, e, dst, cells)
    BY <1>1, <1>7
  <2>4. /\ IInv' /\ Unseen(e.idx)
        /\ Holds(entities', archetypes', e, cells)
        /\ entities'[e.idx].arch = dst
        /\ archetypes'[SpecOf(e).arch].allow_structure_change
        /\ archetypes'[dst].allow_structure_change
        /\ Len(entities') = Len(entities)
    BY <1>2, <1>5, <2>1, <2>2, <2>3, MoveRowFacts
  <2>5. removed \subseteq DOMAIN CellsOf(e)
    BY <1>3, <1>7 DEF CellsFor
  <2> QED BY <1>1, <1>2, <2>4, <2>5 DEF Changed
<1> QED BY <1>2, <1>6, <1>7

(* Any write of one cell of a live entity.                                *)
LEMMA WriteCellStep ==
  ASSUME IInv, NEW e \in Entity, Exists(entities, e), NEW c \in SpecOf(e).arch,
         NEW cell \in Cell, c \notin ChangeAble => cell.changed = Untracked,
         WriteCell(e, c, cell)
  PROVE  IInv' /\ Changed(e, [CellsOf(e) EXCEPT ![c] = cell])
<1>1. PICK cells : cells = [CellsOf(e) EXCEPT ![c] = cell]
  OBVIOUS
<1>2. /\ CellsOf(e) \in CellsFor(SpecOf(e).arch)
      /\ e.idx \in DOMAIN entities /\ entities[e.idx].has_value
  BY LiveFacts
<1>3. cells \in CellsFor(SpecOf(e).arch)
  BY <1>1, <1>2 DEF CellsFor
<1>4. archetypes' = [archetypes EXCEPT
        ![SpecOf(e).arch].chunks[SpecOf(e).chunk][SpecOf(e).row].cells = cells]
  BY <1>1 DEF WriteCell, CellsOf, RowsAround
<1>5. CellsSet(entities, archetypes, e.idx, cells, archetypes')
  BY <1>2, <1>3, <1>4 DEF CellsSet, SpecOf
<1>6. UNCHANGED <<entities, free_entities, tick>>
  BY DEF WriteCell
<1>7. Grown(archetypes)
  BY GrownNone
<1>8. /\ IInv' /\ Unseen(e.idx)
      /\ Holds(entities', archetypes', e, cells)
      /\ entities'[e.idx].arch = SpecOf(e).arch
  BY <1>5, <1>6, <1>7, SetCellsStep
<1> QED BY <1>1, <1>6, <1>8 DEF Changed

(* A write through Mut, and DetailItem::set_enabled.                       *)
LEMMA WriteComponentStep ==
  ASSUME IInv, NEW e \in Entity, NEW c \in Components, NEW value \in Values,
         WriteComponent(e, c, value)
  PROVE  /\ IInv'
         /\ c \in DOMAIN CellsOf(e)
         /\ Changed(e, [CellsOf(e) EXCEPT ![c] = ReplaceAt(CellsOf(e)[c], c, value, tick)])
<1>1. /\ Exists(entities, e) /\ c \in SpecOf(e).arch
      /\ WriteCell(e, c, ReplaceAt(CellsOf(e)[c], c, value, tick))
  BY DEF WriteComponent
<1>2. /\ CellsOf(e)[c] \in Cell
      /\ c \notin ChangeAble => CellsOf(e)[c].changed = Untracked
      /\ c \in DOMAIN CellsOf(e)
  BY <1>1, LiveFacts DEF CellsFor
<1>3. /\ ReplaceAt(CellsOf(e)[c], c, value, tick) \in Cell
      /\ c \notin ChangeAble => ReplaceAt(CellsOf(e)[c], c, value, tick).changed = Untracked
  BY <1>2, ReplaceAtType DEF IInv
<1> QED BY <1>1, <1>2, <1>3, WriteCellStep

(* set_enabled on a live entity.                                          *)
LEMMA SetEnabledStep ==
  ASSUME IInv, NEW e \in Entity, NEW c \in Components, NEW enabled \in BOOLEAN,
         SetEnabled(e, c, enabled)
  PROVE  /\ IInv'
         /\ c \in DOMAIN CellsOf(e) \cap EnableAble
         /\ Changed(e, [CellsOf(e) EXCEPT ![c] = SetEnabledAt(CellsOf(e)[c], enabled)])
<1>1. /\ Exists(entities, e) /\ c \in SpecOf(e).arch /\ c \in EnableAble
      /\ WriteCell(e, c, SetEnabledAt(CellsOf(e)[c], enabled))
  BY DEF SetEnabled
<1>2. /\ CellsOf(e)[c] \in Cell
      /\ c \notin ChangeAble => CellsOf(e)[c].changed = Untracked
      /\ c \in DOMAIN CellsOf(e)
  BY <1>1, LiveFacts DEF CellsFor
<1>3. /\ SetEnabledAt(CellsOf(e)[c], enabled) \in Cell
      /\ c \notin ChangeAble => SetEnabledAt(CellsOf(e)[c], enabled).changed = Untracked
  BY <1>2 DEF SetEnabledAt, Cell
<1> QED BY <1>1, <1>2, <1>3, WriteCellStep

(* A step that leaves the entities and the archetypes alone.               *)
LEMMA StutterUnseen ==
  ASSUME UNCHANGED <<entities, archetypes>>, NEW i
  PROVE  Unseen(i)
BY DEF Unseen, OthersKept, KindsKept, SameKind

(* Every step of the world, as its entities see it.                        *)
Effect ==
  \/ Quiet
  \/ \E e \in Entity, values \in Bundles :
       \/ Created(e, NewCells(values, tick))
       \/ Changed(e, MergedCells(CellsOf(e), values, tick))
  \/ \E e \in Entity : Destroyed(e)
  \/ \E e \in Entity, removed \in ComponentSets :
       /\ removed \subseteq DOMAIN CellsOf(e)
       /\ Changed(e, RemainingCells(CellsOf(e), removed))
  \/ \E e \in Entity, c \in Components, value \in Values :
       /\ c \in DOMAIN CellsOf(e)
       /\ Changed(e, [CellsOf(e) EXCEPT ![c] = ReplaceAt(CellsOf(e)[c], c, value, tick)])
  \/ \E e \in Entity, c \in Components, enabled \in BOOLEAN :
       /\ c \in DOMAIN CellsOf(e) \cap EnableAble
       /\ Changed(e, [CellsOf(e) EXCEPT ![c] = SetEnabledAt(CellsOf(e)[c], enabled)])
  \/ tick' = tick + 1 /\ \A i : Unseen(i)

(* The kinds of effects there are.                                        *)
LEMMA EffectCases ==
  ASSUME Effect
  PROVE  \/ \A i : Unseen(i)
         \/ \E e \in Entity : \E cells : Created(e, cells)
         \/ \E e \in Entity : Destroyed(e)
         \/ \E e \in Entity : \E cells : Changed(e, cells)
BY DEF Effect, Quiet

(* Every step keeps the invariant, and has one of the effects.            *)
LEMMA NextStep ==
  ASSUME IInv, [Next]_vars
  PROVE  IInv' /\ Effect
<1>1. CASE \E cs \in ComponentSets :
             \/ \E allow \in BOOLEAN : RegisterArchetype(cs, allow)
             \/ RegisterSingleton(cs)
  BY <1>1, RegisterEitherStep DEF Effect
<1>2. CASE \E values \in Bundles : TryCreate(values) \/ TryCreateSingleton(values)
  BY <1>2, TryCreateStep, TryCreateSingletonStep DEF Effect
<1>3. CASE \E e \in Entity : TryDestroy(e)
  BY <1>3, TryDestroyStep DEF Effect
<1>4. CASE \E e \in Entity, values \in Bundles :
             TryAddComponent(e, values) \/ TryMergeComponent(e, values)
  BY <1>4, TryAddComponentStep, TryMergeComponentStep DEF Effect, Refused
<1>5. CASE \E e \in Entity, cs \in ComponentSets : TryRemoveComponent(e, cs)
  BY <1>5, TryRemoveComponentStep DEF Effect, Refused
<1>6. CASE \E e \in Entity, c \in Components, value \in Values : WriteComponent(e, c, value)
  BY <1>6, WriteComponentStep DEF Effect
<1>7. CASE \E e \in Entity, c \in Components, enabled \in BOOLEAN : SetEnabled(e, c, enabled)
  <2>1. PICK e \in Entity, c \in Components, enabled \in BOOLEAN : SetEnabled(e, c, enabled)
    BY <1>7
  <2>2. /\ IInv'
        /\ c \in DOMAIN CellsOf(e) \cap EnableAble
        /\ Changed(e, [CellsOf(e) EXCEPT ![c] = SetEnabledAt(CellsOf(e)[c], enabled)])
    BY <2>1, SetEnabledStep
  <2>3. Effect
    BY ONLY <2>2 DEF Effect
  <2> QED BY <2>2, <2>3
<1>8. CASE AdvanceTick
  <2>1. /\ UNCHANGED <<entities, free_entities, archetypes>>
        /\ tick' = tick + 1 /\ tick < MaxTick
    BY <1>8 DEF AdvanceTick
  <2>2. IInv'
    BY <2>1, StorageAssumption DEF IInv
  <2> QED BY <2>1, <2>2, StutterUnseen DEF Effect
<1>9. CASE UNCHANGED vars
  <2>1. UNCHANGED <<entities, free_entities, archetypes, tick>>
    BY <1>9 DEF vars
  <2>2. IInv'
    BY <2>1 DEF IInv
  <2> QED BY <2>1, <2>2, StutterUnseen DEF Effect, Quiet
<1> QED BY <1>1, <1>2, <1>3, <1>4, <1>5, <1>6, <1>7, <1>8, <1>9 DEF Next

(* Specs and archetypes stay sound, whichever operations are called in     *)
(* whichever order, their refusals included.                               *)
THEOREM Invariant == Spec => []IInv
<1>1. IInv /\ [Next]_vars => IInv'
  BY NextStep
<1> QED BY <1>1, InitIInv, PTL DEF Spec
----------------------------------------------------------------------------
(* What the invariant says of the rows and of the chunks.                  *)

(* The invariant places rows and names them, which is what specs rely on.  *)
LEMMA RowsMatch ==
  ASSUME IInv
  PROVE  RowsMatchSpecs
<1>1. ASSUME NEW e \in Live
      PROVE  /\ SpecOf(e).chunk \in DOMAIN archetypes[SpecOf(e).arch].chunks
             /\ SpecOf(e).row \in DOMAIN RowsAround(e)
             /\ RowsAround(e)[SpecOf(e).row].e = e
  <2>1. /\ e \in Entity /\ e.idx \in DOMAIN entities /\ entities[e.idx].has_value
        /\ e = [idx |-> e.idx, version |-> entities[e.idx].version]
        /\ HasRow(archetypes[SpecOf(e).arch], SpecOf(e).chunk, SpecOf(e).row)
    BY LiveFacts DEF Live
  <2>2. SlotRow(entities, archetypes, e.idx).e = e
    BY <2>1 DEF IInv, WorldOK, Placed
  <2>3. RowsAround(e)[SpecOf(e).row].e = e
    BY <2>2 DEF SlotRow, RowAt, RowsAround, SpecOf
  <2> QED BY <2>1, <2>3 DEF HasRow, RowsAround
<1>2. ASSUME NEW cs \in DOMAIN archetypes, NEW chunk \in DOMAIN archetypes[cs].chunks,
             NEW r \in DOMAIN archetypes[cs].chunks[chunk],
             NEW e, e = archetypes[cs].chunks[chunk][r].e
      PROVE  /\ Exists(entities, e)
             /\ SpecOf(e) = EntitySpec(e.version, cs, [chunk |-> chunk, row |-> r])
  <2>1. Names(entities, e.idx, e.version, cs, chunk, r)
    BY <1>2 DEF IInv, WorldOK, Named, HasRow, RowAt
  <2>2. entities[e.idx] \in EntitySpecs /\ DOMAIN entities = 1..Len(entities)
    BY <2>1, EntitiesFacts DEF Names
  <2> QED BY <2>1, <2>2 DEF Names, Exists, SpecOf, EntitySpec, EntitySpecs
<1> QED BY <1>1, <1>2 DEF RowsMatchSpecs

(* What get_unchecked relies on: a live entity's spec names its row, and a *)
(* row below a chunk's len belongs to the live entity it names.            *)
THEOREM SpecsNameRows == Spec => []RowsMatchSpecs
<1>1. IInv => RowsMatchSpecs
  BY RowsMatch
<1> QED BY <1>1, Invariant, PTL

(* A queue that names its chunks once is as long as they are many.         *)
LEMMA QueueLength ==
  ASSUME NEW free \in Seq(Nat), \A j, k \in DOMAIN free : free[j] = free[k] => j = k,
         NEW stored, stored = {free[k] : k \in DOMAIN free}
  PROVE  Len(free) = Cardinality(stored)
<1>1. Len(free) \in Nat /\ DOMAIN free = 1..Len(free)
  BY SeqFacts
<1>2. IsFiniteSet(1..Len(free)) /\ Cardinality(1..Len(free)) = Len(free)
  BY <1>1, FS_Interval
<1>3. ExistsBijection(1..Len(free), stored)
  <2>1. PICK f : f = [k \in 1..Len(free) |-> free[k]]
    OBVIOUS
  <2>2. f \in [1..Len(free) -> stored] /\ \A t \in stored : \E k \in 1..Len(free) : f[k] = t
    BY <1>1, <2>1
  <2>3. \A j, k \in 1..Len(free) : f[j] = f[k] => j = k
    BY <1>1, <2>1
  <2>4. f \in Bijection(1..Len(free), stored)
    BY <2>2, <2>3 DEF Bijection, Injection, Surjection, IsInjective
  <2> QED BY <2>4 DEF ExistsBijection
<1> QED BY <1>2, <1>3, FS_Bijection

(* Chunk::len stays within the layout, and free_chunks names exactly the   *)
(* chunks with room: what take_a_free_chunk_idx writes into has room.      *)
THEOREM ChunksNeverOverrun == Spec => []FreeChunksExact
<1>1. IInv => FreeChunksExact
  <2> SUFFICES ASSUME IInv, NEW cs \in DOMAIN archetypes, NEW a, a = archetypes[cs]
               PROVE  /\ a.free_chunks_stored = {chunk \in DOMAIN a.chunks : ~ IsFull(a, chunk)}
                      /\ a.free_chunks_stored = {a.free_chunks[k] : k \in DOMAIN a.free_chunks}
                      /\ Len(a.free_chunks) = Cardinality(a.free_chunks_stored)
                      /\ \A chunk \in DOMAIN a.chunks : Len(a.chunks[chunk]) <= MaxLen(a)
                      /\ a.is_singleton => Len(a.chunks) <= 1
    BY DEF FreeChunksExact
  <2>1. a \in ArchetypesOf(Rows(cs)) /\ Fits(a) /\ QueueExactBut(a, {})
    BY DEF IInv, WorldOK, ArchetypesOK, Sound, QueueExact
  <2>2. a.free_chunks \in Seq(Nat)
    BY <2>1, FieldFacts
  <2>3. a.free_chunks_stored = {chunk \in DOMAIN a.chunks : ~ IsFull(a, chunk)}
    BY <2>1 DEF QueueExactBut, IsFull
  <2>4. a.free_chunks_stored = {a.free_chunks[k] : k \in DOMAIN a.free_chunks}
    BY <2>1 DEF QueueExactBut
  <2>5. \A j, k \in DOMAIN a.free_chunks : a.free_chunks[j] = a.free_chunks[k] => j = k
    BY <2>1 DEF QueueExactBut
  <2>6. Len(a.free_chunks) = Cardinality(a.free_chunks_stored)
    BY <2>2, <2>4, <2>5, QueueLength
  <2> QED BY <2>1, <2>3, <2>4, <2>6 DEF Fits
<1> QED BY <1>1, Invariant, PTL

(* The entity of a locked archetype leaves it by try_destroy only.         *)
THEOREM LockedStay == Spec => LocksHold
<1>1. ASSUME IInv, [Next]_vars
      PROVE  /\ \A cs \in DOMAIN archetypes :
                  /\ cs \in DOMAIN archetypes'
                  /\ archetypes'[cs].is_singleton = archetypes[cs].is_singleton
                  /\ archetypes'[cs].allow_structure_change
                       = archetypes[cs].allow_structure_change
             /\ \A e \in Live :
                  LET src == SpecOf(e).arch  dst == entities'[e.idx].arch IN
                  Exists(entities', e) /\ dst # src =>
                    \A cs \in {src, dst} : archetypes'[cs].allow_structure_change
  <2>1. IInv' /\ Effect
    BY <1>1, NextStep
  <2>2. KindsKept(archetypes, archetypes')
    BY <2>1, EffectCases DEF Created, Destroyed, Changed, Unseen
  <2>3. ASSUME NEW e \in Live, Exists(entities', e), entities'[e.idx].arch # SpecOf(e).arch
        PROVE  /\ archetypes'[SpecOf(e).arch].allow_structure_change
               /\ archetypes'[entities'[e.idx].arch].allow_structure_change
    <3>1. e \in Entity /\ Exists(entities, e) /\ e.idx \in DOMAIN entities
          /\ entities[e.idx].has_value /\ entities[e.idx].version = e.version
          /\ e = [idx |-> e.idx, version |-> e.version]
      BY <1>1, LiveFacts DEF Live
    <3>2. ~ Absent(entities', e)
      <4>1. entities' \in Seq(EntitySpecs)
        BY <2>1 DEF IInv, WorldOK
      <4>2. DOMAIN entities' = 1..Len(entities')
        BY <4>1, SeqFacts
      <4> QED BY <2>3, <4>2 DEF Absent, Exists
    <3>3. ASSUME NEW i, i # e.idx
          PROVE  ~ Unseen(i)
      BY <2>3, <3>1, <3>3 DEF Unseen, OthersKept, SpecOf
    <3>5. CASE \E f \in Entity : Destroyed(f)
      BY <3>1, <3>2, <3>3, <3>5 DEF Destroyed, Absent
    <3>6. CASE \E f \in Entity : \E cells : Created(f, cells)
      BY <3>1, <3>3, <3>6 DEF Created, Absent
    <3>7. CASE \E f \in Entity : \E cells : Changed(f, cells)
      <4>1. PICK f \in Entity : \E cells : Changed(f, cells)
        BY <3>7
      <4>2. f.idx = e.idx /\ Exists(entities, f)
        BY <3>3, <4>1 DEF Changed
      <4>3. f = e
        BY <3>1, <4>2 DEF Exists, Entity
      <4> QED BY <2>3, <4>1, <4>3 DEF Changed
    <3>8. CASE \A i : Unseen(i)
      <4>1. 0 # e.idx
        BY <3>1, SlotsAssumption DEF Entity
      <4> QED BY <3>3, <3>8, <4>1
    <3> QED BY <2>1, <3>5, <3>6, <3>7, <3>8, EffectCases
  <2> QED BY <2>2, <2>3 DEF KindsKept, SameKind
<1> QED BY <1>1, Invariant, PTL DEF Spec, LocksHold
----------------------------------------------------------------------------
(* The map from live handles to components that the world implements.      *)

LiveIn(ents) ==
  {e \in Entity : /\ e.idx \in DOMAIN ents
                  /\ ents[e.idx].has_value
                  /\ ents[e.idx].version = e.version}

MapOf(ents, archs) == [e \in LiveIn(ents) |-> SlotCells(ents, archs, e.idx)]

Map == [e \in Live |-> CellsOf(e)]

(* The map of the store, as a function of the slots and the archetypes.   *)
LEMMA MapFacts ==
  ASSUME IInv, IInv'
  PROVE  /\ Live = LiveIn(entities) /\ Map = MapOf(entities, archetypes)
         /\ Live' = LiveIn(entities') /\ Map' = MapOf(entities', archetypes')
<1>1. /\ entities \in Seq(EntitySpecs) /\ DOMAIN entities = 1..Len(entities)
      /\ entities' \in Seq(EntitySpecs) /\ DOMAIN entities' = 1..Len(entities')
  BY SeqFacts DEF IInv, WorldOK
<1>2. Live = LiveIn(entities)
  BY <1>1 DEF Live, LiveIn, Exists
<1>3. Live' = LiveIn(entities')
  BY <1>1 DEF Live, LiveIn, Exists
<1>4. Map = MapOf(entities, archetypes)
  BY <1>2 DEF Map, MapOf, CellsOf, RowsAround, SpecOf, SlotCells, SlotRow, RowAt
<1>5. Map' = MapOf(entities', archetypes')
  BY <1>3 DEF Map, MapOf, CellsOf, RowsAround, SpecOf, SlotCells, SlotRow, RowAt
<1> QED BY <1>2, <1>3, <1>4, <1>5

(* Entities of other slots are the same, with the same components.         *)
LEMMA OthersMapped ==
  ASSUME NEW ents, NEW archs, NEW ents2, NEW archs2, NEW i,
         OthersKept(ents, archs, ents2, archs2, i), NEW g \in Entity, g.idx # i
  PROVE  /\ g \in LiveIn(ents2) <=> g \in LiveIn(ents)
         /\ g \in LiveIn(ents) => MapOf(ents2, archs2)[g] = MapOf(ents, archs)[g]
<1>1. g \in LiveIn(ents2) <=> g \in LiveIn(ents)
  BY DEF LiveIn, OthersKept
<1>2. g \in LiveIn(ents) => SlotCells(ents2, archs2, g.idx) = SlotCells(ents, archs, g.idx)
  BY DEF LiveIn, OthersKept
<1> QED BY <1>1, <1>2 DEF MapOf

(* Two live entities never share a slot.                                  *)
LEMMA SameSlot ==
  ASSUME NEW ents, NEW e \in LiveIn(ents), NEW g \in LiveIn(ents), e.idx = g.idx
  PROVE  e = g
BY DEF LiveIn, Entity

(* One entity holds these cells now: as the map sees it.                   *)
LEMMA HoldsMapped ==
  ASSUME NEW ents, NEW archs, NEW ents2, NEW archs2, NEW e \in Entity,
         OthersKept(ents, archs, ents2, archs2, e.idx),
         NEW cells, Holds(ents2, archs2, e, cells),
         \A g \in LiveIn(ents) : g.idx = e.idx => g = e,
         NEW m, m = MapOf(ents, archs), NEW m2, m2 = MapOf(ents2, archs2)
  PROVE  m2 = [g \in DOMAIN m \cup {e} |-> IF g = e THEN cells ELSE m[g]]
<1>1. e \in LiveIn(ents2) /\ MapOf(ents2, archs2)[e] = cells
  BY DEF Holds, LiveIn, MapOf
<1>2. LiveIn(ents2) = LiveIn(ents) \cup {e}
  <2>1. ASSUME NEW g \in Entity
        PROVE  g \in LiveIn(ents2) <=> g \in LiveIn(ents) \/ g = e
    <3>1. CASE g.idx # e.idx
      BY <3>1, OthersMapped
    <3>2. CASE g.idx = e.idx
      BY <1>1, <3>2, SameSlot
    <3> QED BY <3>1, <3>2
  <2> QED BY <1>1, <2>1 DEF LiveIn
<1>3. ASSUME NEW g \in LiveIn(ents), g # e
      PROVE  MapOf(ents2, archs2)[g] = MapOf(ents, archs)[g]
  <2>1. g \in Entity /\ g.idx # e.idx
    BY <1>3 DEF LiveIn
  <2> QED BY <2>1, OthersMapped
<1>4. m2 = [g \in LiveIn(ents2) |-> m2[g]] /\ DOMAIN m = LiveIn(ents)
  BY DEF MapOf
<1> QED BY <1>1, <1>2, <1>3, <1>4

(* One entity is gone: the map loses it.                                  *)
LEMMA GoneMapped ==
  ASSUME NEW ents, NEW archs, NEW ents2, NEW archs2, NEW e \in LiveIn(ents),
         OthersKept(ents, archs, ents2, archs2, e.idx), Absent(ents2, e),
         NEW m, m = MapOf(ents, archs), NEW m2, m2 = MapOf(ents2, archs2)
  PROVE  m2 = [g \in DOMAIN m \ {e} |-> m[g]]
<1>1. LiveIn(ents2) = LiveIn(ents) \ {e}
  <2>1. ASSUME NEW g \in Entity
        PROVE  g \in LiveIn(ents2) <=> g \in LiveIn(ents) /\ g # e
    <3>1. CASE g.idx # e.idx
      BY <3>1, OthersMapped
    <3>2. CASE g.idx = e.idx
      BY <3>2, SameSlot DEF Absent, LiveIn
    <3> QED BY <3>1, <3>2
  <2> QED BY <2>1 DEF LiveIn
<1>2. ASSUME NEW g \in LiveIn(ents), g # e
      PROVE  MapOf(ents2, archs2)[g] = MapOf(ents, archs)[g]
  <2>1. g \in Entity /\ g.idx # e.idx
    BY <1>2, SameSlot DEF LiveIn
  <2> QED BY <2>1, OthersMapped
<1>3. m2 = [g \in LiveIn(ents2) |-> m2[g]] /\ DOMAIN m = LiveIn(ents)
  BY DEF MapOf
<1> QED BY <1>1, <1>2, <1>3

(* Nobody changed: neither does the map.                                  *)
LEMMA NobodyMapped ==
  ASSUME NEW ents, NEW archs, NEW ents2, NEW archs2,
         \A i : OthersKept(ents, archs, ents2, archs2, i)
  PROVE  MapOf(ents2, archs2) = MapOf(ents, archs)
<1>1. ASSUME NEW g \in Entity
      PROVE  /\ g \in LiveIn(ents2) <=> g \in LiveIn(ents)
             /\ g \in LiveIn(ents) => MapOf(ents2, archs2)[g] = MapOf(ents, archs)[g]
  <2>1. g.idx # 0
    BY SlotsAssumption DEF Entity
  <2>2. OthersKept(ents, archs, ents2, archs2, 0)
    OBVIOUS
  <2> QED BY <2>1, <2>2, OthersMapped
<1>2. LiveIn(ents2) = LiveIn(ents)
  BY <1>1 DEF LiveIn
<1>3. /\ MapOf(ents2, archs2) = [g \in LiveIn(ents2) |-> MapOf(ents2, archs2)[g]]
      /\ MapOf(ents, archs) = [g \in LiveIn(ents) |-> MapOf(ents, archs)[g]]
      /\ \A g \in LiveIn(ents) : g \in Entity
  BY DEF MapOf, LiveIn
<1> QED BY <1>1, <1>2, <1>3

(* The four ways a step is seen, on the map.                               *)
LEMMA QuietMap ==
  ASSUME IInv, IInv', \A i : Unseen(i)
  PROVE  Map' = Map
<1>1. \A i : OthersKept(entities, archetypes, entities', archetypes', i)
  BY DEF Unseen
<1> QED BY <1>1, MapFacts, NobodyMapped

(* A creation adds an entity to the map.                                  *)
LEMMA CreatedMap ==
  ASSUME IInv, IInv', NEW e \in Entity, NEW cells, Created(e, cells)
  PROVE  /\ e \notin DOMAIN Map
         /\ Map' = [g \in DOMAIN Map \cup {e} |-> IF g = e THEN cells ELSE Map[g]]
<1>1. /\ Map = MapOf(entities, archetypes) /\ Map' = MapOf(entities', archetypes')
      /\ DOMAIN Map = LiveIn(entities)
  BY MapFacts DEF MapOf
<1>2. \A g \in LiveIn(entities) : g.idx # e.idx
  BY DEF Created, Absent, LiveIn
<1>3. /\ OthersKept(entities, archetypes, entities', archetypes', e.idx)
      /\ Holds(entities', archetypes', e, cells)
  BY DEF Created, Unseen
<1> QED BY <1>1, <1>2, <1>3, HoldsMapped

(* A change puts other cells where the entity was.                        *)
LEMMA ChangedMap ==
  ASSUME IInv, IInv', NEW e \in Entity, NEW cells, Changed(e, cells)
  PROVE  /\ e \in DOMAIN Map
         /\ Map[e] = CellsOf(e)
         /\ Map[e] \in CellsFor(SpecOf(e).arch)
         /\ Map' = [Map EXCEPT ![e] = cells]
<1>1. /\ Map = MapOf(entities, archetypes) /\ Map' = MapOf(entities', archetypes')
      /\ DOMAIN Map = LiveIn(entities) /\ Live = LiveIn(entities)
  BY MapFacts DEF MapOf
<1>2. e \in Live
  BY DEF Changed, Live
<1>3. \A g \in LiveIn(entities) : g.idx = e.idx => g = e
  BY <1>1, <1>2, SameSlot
<1>4. /\ OthersKept(entities, archetypes, entities', archetypes', e.idx)
      /\ Holds(entities', archetypes', e, cells)
  BY DEF Changed, Unseen
<1>5. Map' = [g \in DOMAIN Map \cup {e} |-> IF g = e THEN cells ELSE Map[g]]
  BY <1>1, <1>3, <1>4, HoldsMapped
<1>6. Map' = [Map EXCEPT ![e] = cells]
  <2>1. Map = [g \in DOMAIN Map |-> Map[g]]
    BY DEF Map
  <2> QED BY <1>1, <1>2, <1>5, <2>1
<1>7. Map[e] = CellsOf(e)
  BY <1>2 DEF Map
<1>8. CellsOf(e) \in CellsFor(SpecOf(e).arch)
  BY LiveFacts DEF Changed
<1> QED BY <1>1, <1>2, <1>6, <1>7, <1>8

(* A destruction takes the entity out of the map.                         *)
LEMMA DestroyedMap ==
  ASSUME IInv, IInv', NEW e \in Entity, Destroyed(e)
  PROVE  /\ e \in DOMAIN Map
         /\ Map' = [g \in DOMAIN Map \ {e} |-> Map[g]]
<1>1. /\ Map = MapOf(entities, archetypes) /\ Map' = MapOf(entities', archetypes')
      /\ DOMAIN Map = LiveIn(entities) /\ Live = LiveIn(entities)
  BY MapFacts DEF MapOf
<1>2. e \in Live
  BY DEF Destroyed, Live
<1>3. /\ OthersKept(entities, archetypes, entities', archetypes', e.idx)
      /\ Absent(entities', e)
  BY DEF Destroyed, Unseen
<1> QED BY <1>1, <1>2, <1>3, GoneMapped
----------------------------------------------------------------------------
(* The cells of the store.                                                 *)

(* The cells of a new entity are those the store asks for.                *)
LEMMA FreshCells ==
  ASSUME NEW c, NEW v
  PROVE  Store!Fresh(c, v) = WriteAt(c, v, tick)
<1>1. (~ (c \in EnableAble /\ v \in Disabled)) = (c \in EnableAble => v \notin Disabled)
  OBVIOUS
<1> QED BY <1>1 DEF Store!Fresh, Store!Stamp, WriteAt, Untracked

(* A component the entity has: its enable bit and added tick are kept.     *)
LEMMA KeptCells ==
  ASSUME NEW cell \in Cell, NEW c, c \notin ChangeAble => cell.changed = Untracked, NEW v
  PROVE  ReplaceAt(cell, c, v, tick) =
           [value |-> v, enabled |-> cell.enabled,
            added |-> cell.added, changed |-> Store!Stamp(c)]
<1>1. (IF c \in ChangeAble THEN tick ELSE cell.changed) = Store!Stamp(c)
  BY DEF Store!Stamp, Untracked
<1>2. PICK stamp : stamp = (IF c \in ChangeAble THEN tick ELSE cell.changed)
  OBVIOUS
<1>3. PICK d : d = [cell EXCEPT !.value = v, !.changed = stamp]
  OBVIOUS
<1>4. ReplaceAt(cell, c, v, tick) = d
  BY <1>2, <1>3 DEF ReplaceAt
<1>5. d \in [value : Values \cup {v}, enabled : BOOLEAN,
             added : 0..MaxTick, changed : (0..MaxTick) \cup {stamp}]
  BY <1>3 DEF Cell
<1>6. d.value = v /\ d.changed = stamp /\ d.enabled = cell.enabled /\ d.added = cell.added
  BY <1>3 DEF Cell
<1>7. d = [value |-> v, enabled |-> cell.enabled, added |-> cell.added, changed |-> stamp]
  BY <1>5, <1>6
<1> QED BY <1>1, <1>2, <1>4, <1>7

(* The operations of the store, on the map.                                *)
LEMMA SpawnStep ==
  ASSUME IInv, IInv', NEW e \in Entity, NEW values \in Bundles,
         Created(e, NewCells(values, tick))
  PROVE  Store!Spawn(e, values)
<1>1. [c \in DOMAIN values |-> Store!Fresh(c, values[c])] = NewCells(values, tick)
  BY FreshCells DEF NewCells
<1>2. PICK cells : cells = NewCells(values, tick)
  OBVIOUS
<1>3. /\ e \notin DOMAIN Map
      /\ Map' = [g \in DOMAIN Map \cup {e} |-> IF g = e THEN cells ELSE Map[g]]
  BY <1>2, CreatedMap
<1>4. cells = [c \in DOMAIN values |-> Store!Fresh(c, values[c])]
  BY <1>1, <1>2
<1> QED BY <1>3, <1>4 DEF Store!Spawn, Map

(* try_destroy is the Despawn of the store.                               *)
LEMMA DespawnStep ==
  ASSUME IInv, IInv', NEW e \in Entity, Destroyed(e)
  PROVE  Store!Despawn(e)
BY DestroyedMap DEF Store!Despawn, Map

(* The cells Put gives an entity.                                          *)
PutCells(cells, values) ==
  [c \in DOMAIN cells \cup DOMAIN values |->
     IF c \in DOMAIN values \ DOMAIN cells THEN Store!Fresh(c, values[c])
     ELSE IF c \in DOMAIN values
     THEN [value |-> values[c], enabled |-> cells[c].enabled,
           added |-> cells[c].added, changed |-> Store!Stamp(c)]
     ELSE cells[c]]

(* A merge is the Put of the store.                                       *)
LEMMA PutStep ==
  ASSUME IInv, IInv', NEW e \in Entity, NEW values,
         Changed(e, PutCells(CellsOf(e), values))
  PROVE  Store!Put(e, values)
<1>1. PICK cells : cells = PutCells(CellsOf(e), values)
  OBVIOUS
<1>2. e \in DOMAIN Map /\ Map[e] = CellsOf(e) /\ Map' = [Map EXCEPT ![e] = cells]
  BY <1>1, ChangedMap
<1>3. cells = PutCells(Map[e], values)
  BY <1>1, <1>2
<1> QED BY <1>2, <1>3 DEF Store!Put, Map, PutCells

(* The cells of a merge, as the store says them.                          *)
LEMMA MergedIsPut ==
  ASSUME NEW cs, NEW cells \in CellsFor(cs), NEW values
  PROVE  MergedCells(cells, values, tick) = PutCells(cells, values)
<1>1. ASSUME NEW c \in DOMAIN cells \cup DOMAIN values
      PROVE  MergedCells(cells, values, tick)[c] = PutCells(cells, values)[c]
  <2>1. DOMAIN cells = cs
    BY DEF CellsFor
  <2>2. c \in cs => cells[c] \in Cell /\ (c \notin ChangeAble => cells[c].changed = Untracked)
    BY DEF CellsFor
  <2>3. CASE c \notin DOMAIN values
    BY <2>3 DEF MergedCells, PutCells
  <2>4. CASE c \in DOMAIN values /\ c \in cs
    <3>1. MergedCells(cells, values, tick)[c] = ReplaceAt(cells[c], c, values[c], tick)
      BY <2>1, <2>4 DEF MergedCells
    <3>2. PutCells(cells, values)[c] =
            [value |-> values[c], enabled |-> cells[c].enabled,
             added |-> cells[c].added, changed |-> Store!Stamp(c)]
      BY <2>1, <2>4 DEF PutCells
    <3> QED BY <2>2, <2>4, <3>1, <3>2, KeptCells
  <2>5. CASE c \in DOMAIN values /\ c \notin cs
    <3>1. MergedCells(cells, values, tick)[c] = WriteAt(c, values[c], tick)
      BY <2>1, <2>5 DEF MergedCells
    <3>2. PutCells(cells, values)[c] = Store!Fresh(c, values[c])
      BY <2>1, <2>5 DEF PutCells
    <3> QED BY <3>1, <3>2, FreshCells
  <2> QED BY <2>3, <2>4, <2>5
<1>2. MergedCells(cells, values, tick) =
        [c \in DOMAIN cells \cup DOMAIN values |-> MergedCells(cells, values, tick)[c]]
  BY DEF MergedCells
<1>3. PutCells(cells, values) =
        [c \in DOMAIN cells \cup DOMAIN values |-> PutCells(cells, values)[c]]
  BY DEF PutCells
<1> QED BY <1>1, <1>2, <1>3

(* A write of one component is a Put of it.                                *)
LEMMA WrittenIsPut ==
  ASSUME NEW cs, NEW cells \in CellsFor(cs), NEW c \in cs, NEW value \in Values,
         NEW values, values = [x \in {c} |-> value]
  PROVE  [cells EXCEPT ![c] = ReplaceAt(cells[c], c, value, tick)] = PutCells(cells, values)
<1>1. cells = [x \in cs |-> cells[x]] /\ DOMAIN cells = cs /\ DOMAIN values = {c} /\ values[c] = value
  BY DEF CellsFor
<1>2. cells[c] \in Cell /\ (c \notin ChangeAble => cells[c].changed = Untracked)
  BY DEF CellsFor
<1>3. PICK new : new = ReplaceAt(cells[c], c, value, tick)
  OBVIOUS
<1>4. new = [value |-> value, enabled |-> cells[c].enabled,
             added |-> cells[c].added, changed |-> Store!Stamp(c)]
  BY <1>2, <1>3, KeptCells
<1>5. PutCells(cells, values)[c] = new
  BY <1>1, <1>4 DEF PutCells
<1>6. \A x \in cs : x # c => PutCells(cells, values)[x] = cells[x]
  BY <1>1 DEF PutCells
<1>7. PutCells(cells, values) = [x \in cs |-> PutCells(cells, values)[x]]
  BY <1>1 DEF PutCells
<1>8. [cells EXCEPT ![c] = new] = [x \in cs |-> IF x = c THEN new ELSE cells[x]]
  BY <1>1
<1> QED BY <1>3, <1>5, <1>6, <1>7, <1>8

(* try_remove_component is the Take of the store.                         *)
LEMMA TakeStep ==
  ASSUME IInv, IInv', NEW e \in Entity, NEW removed, removed \subseteq DOMAIN CellsOf(e),
         Changed(e, RemainingCells(CellsOf(e), removed))
  PROVE  Store!Take(e, removed)
<1>1. PICK cells : cells = RemainingCells(CellsOf(e), removed)
  OBVIOUS
<1>2. e \in DOMAIN Map /\ Map[e] = CellsOf(e) /\ Map' = [Map EXCEPT ![e] = cells]
  BY <1>1, ChangedMap
<1>3. cells = RemainingCells(Map[e], removed)
  BY <1>1, <1>2
<1> QED BY <1>2, <1>3 DEF Store!Take, Map, RemainingCells

(* set_enabled is the SetEnabled of the store.                            *)
LEMMA SetEnabledMapped ==
  ASSUME IInv, IInv', NEW e \in Entity, NEW c \in DOMAIN CellsOf(e) \cap EnableAble,
         NEW enabled,
         Changed(e, [CellsOf(e) EXCEPT ![c] = SetEnabledAt(CellsOf(e)[c], enabled)])
  PROVE  Store!SetEnabled(e, c, enabled)
<1>1. PICK cells : cells = [CellsOf(e) EXCEPT ![c] = SetEnabledAt(CellsOf(e)[c], enabled)]
  OBVIOUS
<1>2. e \in DOMAIN Map /\ Map[e] = CellsOf(e) /\ Map' = [Map EXCEPT ![e] = cells]
  BY <1>1, ChangedMap
<1>3. cells = [Map[e] EXCEPT ![c].enabled = enabled]
  BY <1>1, <1>2 DEF SetEnabledAt
<1>4. Map' = [Map EXCEPT ![e][c].enabled = enabled]
  BY <1>2, <1>3
<1> QED BY <1>2, <1>4 DEF Store!SetEnabled, Map

(* Chunks, rows, swap-removal and archetype moves are an implementation of *)
(* a map from live handles to components: whatever is done to one entity,  *)
(* no value, enable bit or tick of another changes.                        *)
THEOREM ImplementsStore == Spec => StoresEntities
<1>1. Init => Store!Init
  <2> SUFFICES ASSUME Init PROVE Store!Init
    OBVIOUS
  <2>1. entities = << >> /\ tick = 1
    BY DEF Init
  <2>2. Live = {}
    BY <2>1 DEF Live, Exists
  <2> QED BY <2>1, <2>2 DEF Store!Init
<1>2. ASSUME IInv, [Next]_vars
      PROVE  [Store!Next]_(Store!vars)
  <2>1. IInv' /\ Effect
    BY <1>2, NextStep
  <2>2. CASE Quiet
    <3>1. Map' = Map /\ tick' = tick
      BY <1>2, <2>1, <2>2, QuietMap DEF Quiet
    <3> QED BY <3>1 DEF Store!vars, Map
  <2>3. CASE \E e \in Entity, values \in Bundles :
               \/ Created(e, NewCells(values, tick))
               \/ Changed(e, MergedCells(CellsOf(e), values, tick))
    <3>1. PICK e \in Entity, values \in Bundles :
            \/ Created(e, NewCells(values, tick))
            \/ Changed(e, MergedCells(CellsOf(e), values, tick))
      BY <2>3
    <3>2. values \in Store!Bundles
      BY DEF Bundles, ComponentSets, Store!Bundles
    <3>3. tick' = tick
      BY <3>1 DEF Created, Changed
    <3>4. CASE Created(e, NewCells(values, tick))
      <4>1. Store!Spawn(e, values)
        BY <1>2, <2>1, <3>4, SpawnStep
      <4> QED BY <3>2, <3>3, <4>1 DEF Store!Next, Store!Operate
    <3>5. CASE Changed(e, MergedCells(CellsOf(e), values, tick))
      <4>1. CellsOf(e) \in CellsFor(SpecOf(e).arch)
        BY <1>2, <3>5, LiveFacts DEF Changed
      <4>2. Changed(e, PutCells(CellsOf(e), values))
        BY <3>5, <4>1, MergedIsPut
      <4>3. Store!Put(e, values)
        BY <1>2, <2>1, <4>2, PutStep
      <4> QED BY <3>2, <3>3, <4>3 DEF Store!Next, Store!Operate
    <3> QED BY <3>1, <3>4, <3>5
  <2>4. CASE \E e \in Entity : Destroyed(e)
    <3>1. PICK e \in Entity : Destroyed(e)
      BY <2>4
    <3>2. Store!Despawn(e) /\ tick' = tick
      BY <1>2, <2>1, <3>1, DespawnStep DEF Destroyed
    <3> QED BY <3>2 DEF Store!Next, Store!Operate
  <2>5. CASE \E e \in Entity, removed \in ComponentSets :
               /\ removed \subseteq DOMAIN CellsOf(e)
               /\ Changed(e, RemainingCells(CellsOf(e), removed))
    <3>1. PICK e \in Entity, removed \in ComponentSets :
            /\ removed \subseteq DOMAIN CellsOf(e)
            /\ Changed(e, RemainingCells(CellsOf(e), removed))
      BY <2>5
    <3>2. Store!Take(e, removed) /\ tick' = tick
      BY <1>2, <2>1, <3>1, TakeStep DEF Changed
    <3>3. removed \in SUBSET Components
      BY DEF ComponentSets
    <3> QED BY <3>2, <3>3 DEF Store!Next, Store!Operate
  <2>6. CASE \E e \in Entity, c \in Components, value \in Values :
               /\ c \in DOMAIN CellsOf(e)
               /\ Changed(e, [CellsOf(e) EXCEPT
                               ![c] = ReplaceAt(CellsOf(e)[c], c, value, tick)])
    <3>1. PICK e \in Entity, c \in Components, value \in Values :
            /\ c \in DOMAIN CellsOf(e)
            /\ Changed(e, [CellsOf(e) EXCEPT
                            ![c] = ReplaceAt(CellsOf(e)[c], c, value, tick)])
      BY <2>6
    <3>2. PICK values : values = [x \in {c} |-> value]
      OBVIOUS
    <3>3. values \in Store!Bundles
      <4>1. values \in [{c} -> Values] /\ {c} \in (SUBSET Components) \ {{}}
        BY <3>2
      <4> QED BY <4>1 DEF Store!Bundles
    <3>4. CellsOf(e) \in CellsFor(SpecOf(e).arch)
      BY <1>2, <3>1, LiveFacts DEF Changed
    <3>5. c \in SpecOf(e).arch
      BY <3>1, <3>4 DEF CellsFor
    <3>6. Changed(e, PutCells(CellsOf(e), values))
      BY <3>1, <3>2, <3>4, <3>5, WrittenIsPut
    <3>7. Store!Put(e, values) /\ tick' = tick
      BY <1>2, <2>1, <3>6, PutStep DEF Changed
    <3> QED BY <3>3, <3>7 DEF Store!Next, Store!Operate
  <2>7. CASE \E e \in Entity, c \in Components, enabled \in BOOLEAN :
               /\ c \in DOMAIN CellsOf(e) \cap EnableAble
               /\ Changed(e, [CellsOf(e) EXCEPT
                               ![c] = SetEnabledAt(CellsOf(e)[c], enabled)])
    <3>1. PICK e \in Entity, c \in Components, enabled \in BOOLEAN :
            /\ c \in DOMAIN CellsOf(e) \cap EnableAble
            /\ Changed(e, [CellsOf(e) EXCEPT
                            ![c] = SetEnabledAt(CellsOf(e)[c], enabled)])
      BY <2>7
    <3>2. Store!SetEnabled(e, c, enabled) /\ tick' = tick
      BY <1>2, <2>1, <3>1, SetEnabledMapped DEF Changed
    <3> QED BY <3>2 DEF Store!Next, Store!Operate
  <2>8. CASE tick' = tick + 1 /\ \A i : Unseen(i)
    <3>1. Map' = Map /\ tick' = tick + 1
      BY <1>2, <2>1, <2>8, QuietMap
    <3> QED BY <3>1 DEF Store!Next, Store!AdvanceTick, Map
  <2> QED BY <2>1, <2>2, <2>3, <2>4, <2>5, <2>6, <2>7, <2>8 DEF Effect
<1> QED BY <1>1, <1>2, Invariant, PTL DEF Spec, StoresEntities, Store!Spec
----------------------------------------------------------------------------
(* Slots in account.                                                       *)

HeldSlots(ents) == {i \in DOMAIN ents : ents[i].has_value}

(* Empty slots without a version left to spend.                            *)
SpentSlots(ents) ==
  {i \in DOMAIN ents : ~ ents[i].has_value /\ ents[i].version = MaxVersion}

RetiredBounded ==
  /\ retired_entity_slots \in Nat
  /\ retired_entity_slots <= Cardinality(SpentSlots(entities))

(* The slots in use and the slots spent are finitely many.                *)
LEMMA SlotSets ==
  ASSUME NEW ents \in Seq(EntitySpecs)
  PROVE  /\ IsFiniteSet(HeldSlots(ents)) /\ Cardinality(HeldSlots(ents)) \in Nat
         /\ IsFiniteSet(SpentSlots(ents)) /\ Cardinality(SpentSlots(ents)) \in Nat
         /\ Cardinality(SpentSlots(ents)) <= Len(ents)
<1>1. Len(ents) \in Nat /\ DOMAIN ents = 1..Len(ents)
  BY SpecFacts
<1>2. IsFiniteSet(1..Len(ents)) /\ Cardinality(1..Len(ents)) = Len(ents)
  BY <1>1, FS_Interval
<1>3. HeldSlots(ents) \subseteq 1..Len(ents) /\ SpentSlots(ents) \subseteq 1..Len(ents)
  BY <1>1 DEF HeldSlots, SpentSlots
<1>4. /\ IsFiniteSet(HeldSlots(ents)) /\ IsFiniteSet(SpentSlots(ents))
      /\ Cardinality(SpentSlots(ents)) <= Cardinality(1..Len(ents))
  BY <1>2, <1>3, FS_Subset
<1> QED BY <1>2, <1>4, FS_CardinalityType

(* The same of the world, now and after a step.                           *)
LEMMA SlotSetsNow ==
  ASSUME IInv, IInv'
  PROVE  /\ entities \in Seq(EntitySpecs) /\ entities' \in Seq(EntitySpecs)
         /\ DOMAIN entities = 1..Len(entities) /\ DOMAIN entities' = 1..Len(entities')
         /\ Len(entities) \in Nat /\ Len(entities') \in Nat
         /\ Len(entities') <= MaxSlots
BY SpecFacts DEF IInv, WorldOK

(* A slot spent for good is never touched again.                           *)
LEMMA SpentKept ==
  ASSUME IInv, IInv', Effect
  PROVE  SpentSlots(entities) \subseteq SpentSlots(entities')
<1>1. \E i : Unseen(i) /\ i \notin SpentSlots(entities)
  <2>1. CASE \A i : Unseen(i)
    <3>1. 0 \notin SpentSlots(entities)
      BY SlotSetsNow DEF SpentSlots
    <3> QED BY <2>1, <3>1
  <2>2. CASE \E e \in Entity : \E cells : Created(e, cells)
    <3>1. PICK e \in Entity : Unseen(e.idx) /\ Newer(e)
      BY <2>2 DEF Created
    <3>2. e.version \in 1..MaxVersion
      BY DEF Entity
    <3>3. e.idx \notin SpentSlots(entities)
      BY <3>1, <3>2, EntitiesFacts, SlotsAssumption DEF Newer, SpentSlots
    <3> QED BY <3>1, <3>3
  <2>3. CASE \E e \in Entity : Destroyed(e) \/ \E cells : Changed(e, cells)
    <3>1. PICK e \in Entity : Unseen(e.idx) /\ Exists(entities, e)
      BY <2>3 DEF Destroyed, Changed
    <3> QED BY <3>1 DEF Exists, SpentSlots
  <2> QED BY <2>1, <2>2, <2>3, EffectCases
<1> QED BY <1>1 DEF Unseen, OthersKept, SpentSlots

(* A slot is counted as retired in the step that spends it.               *)
LEMMA RetiredStep ==
  ASSUME IInv, RetiredBounded, [Next]_vars
  PROVE  RetiredBounded'
<1>1. IInv' /\ Effect
  BY NextStep
<1>2. /\ IsFiniteSet(SpentSlots(entities')) /\ Cardinality(SpentSlots(entities')) \in Nat
      /\ IsFiniteSet(SpentSlots(entities)) /\ Cardinality(SpentSlots(entities)) \in Nat
  BY <1>1, SlotSets, SlotSetsNow
<1>3. SpentSlots(entities) \subseteq SpentSlots(entities')
  BY <1>1, SpentKept
<1>4. Cardinality(SpentSlots(entities)) <= Cardinality(SpentSlots(entities'))
  BY <1>2, <1>3, FS_Subset
<1>5. CASE retired_entity_slots' = retired_entity_slots
  BY <1>2, <1>4, <1>5 DEF RetiredBounded
<1>6. CASE \E e \in Entity : TryDestroy(e) /\ IsSpent(entities, e)
  <2>1. PICK e \in Entity : TryDestroy(e) /\ IsSpent(entities, e)
    BY <1>6
  <2>2. Destroyed(e) /\ retired_entity_slots' = retired_entity_slots + 1
    BY <2>1, TryDestroyStep DEF TryDestroy, RetiredAfterErase
  <2>3. Exists(entities, e)
    BY <2>2 DEF Destroyed
  <2>4. e.idx \in DOMAIN entities /\ entities[e.idx].has_value /\ e.version = MaxVersion
    <3>1. /\ e.idx \in DOMAIN entities /\ entities[e.idx].has_value
          /\ entities[e.idx].version = e.version
      BY <2>3, LiveFacts
    <3>2. entities[e.idx].version \in 1..MaxVersion /\ entities[e.idx].version >= MaxVersion
      BY <2>1, <3>1, EntitiesFacts DEF IsSpent
    <3> QED BY <3>1, <3>2, SlotsAssumption
  <2>5. e.idx \notin SpentSlots(entities) /\ e.idx \in SpentSlots(entities')
    BY <2>2, <2>4 DEF SpentSlots, Destroyed, Absent
  <2>6. /\ IsFiniteSet(SpentSlots(entities) \cup {e.idx})
        /\ Cardinality(SpentSlots(entities) \cup {e.idx}) = Cardinality(SpentSlots(entities)) + 1
    BY <1>2, <2>5, FS_AddElement
  <2>7. Cardinality(SpentSlots(entities)) + 1 <= Cardinality(SpentSlots(entities'))
    <3>1. SpentSlots(entities) \cup {e.idx} \subseteq SpentSlots(entities')
      BY <1>3, <2>5
    <3> QED BY <1>2, <2>6, <3>1, FS_Subset
  <2> QED BY <1>2, <2>2, <2>7 DEF RetiredBounded
<1>7. \/ retired_entity_slots' = retired_entity_slots
      \/ \E e \in Entity : TryDestroy(e) /\ IsSpent(entities, e)
  <2>1. ASSUME NEW e \in Entity, TryDestroy(e)
        PROVE  retired_entity_slots' = retired_entity_slots \/ IsSpent(entities, e)
    BY <2>1 DEF TryDestroy, RetiredAfterErase
  <2>2. ASSUME \/ \E cs \in ComponentSets :
                    \/ \E allow \in BOOLEAN : RegisterArchetype(cs, allow)
                    \/ RegisterSingleton(cs)
               \/ \E values \in Bundles : TryCreate(values) \/ TryCreateSingleton(values)
        PROVE  retired_entity_slots' = retired_entity_slots
    BY <2>2 DEF RegisterArchetype, RegisterSingleton, TryCreate, TryCreateSingleton
  <2>3. ASSUME NEW e \in Entity,
               \/ \E values \in Bundles : TryAddComponent(e, values) \/ TryMergeComponent(e, values)
               \/ \E cs \in ComponentSets : TryRemoveComponent(e, cs)
        PROVE  retired_entity_slots' = retired_entity_slots
    BY <2>3 DEF TryAddComponent, TryMergeComponent, TryRemoveComponent
  <2>4. ASSUME NEW e \in Entity, NEW c \in Components,
               \/ \E value \in Values : WriteComponent(e, c, value)
               \/ \E enabled \in BOOLEAN : SetEnabled(e, c, enabled)
        PROVE  retired_entity_slots' = retired_entity_slots
    BY <2>4 DEF WriteComponent, SetEnabled, WriteCell
  <2>5. AdvanceTick \/ UNCHANGED vars => retired_entity_slots' = retired_entity_slots
    BY DEF AdvanceTick, vars
  <2> QED BY <2>1, <2>2, <2>3, <2>4, <2>5 DEF Next
<1> QED BY <1>5, <1>6, <1>7

(* The world never retires more slots than it opened: a refused create and *)
(* a destroy each retire at most the slot they just emptied, which no live *)
(* entity and no entry of the free queue names (World::erase_entity).      *)
THEOREM RetiredNeverMore == Spec => []RetiredBounded
<1>1. Init => RetiredBounded
  <2> SUFFICES ASSUME Init PROVE RetiredBounded
    OBVIOUS
  <2>1. entities \in Seq(EntitySpecs) /\ retired_entity_slots = 0
    BY DEF Init
  <2> QED BY <2>1, SlotSets DEF RetiredBounded
<1>2. IInv /\ RetiredBounded /\ [Next]_vars => RetiredBounded'
  BY RetiredStep
<1> QED BY <1>1, <1>2, Invariant, PTL DEF Spec

(* Specs, queues, archetypes, rows and cells have their types, and there   *)
(* are never more retired slots than slots.                                *)
THEOREM TypeCorrect == Spec => []TypeOK
<1>1. IInv /\ RetiredBounded => TypeOK
  <2> SUFFICES ASSUME IInv, RetiredBounded PROVE TypeOK
    OBVIOUS
  <2>1. /\ Len(entities) <= MaxSlots
        /\ \A i \in DOMAIN entities :
             /\ entities[i].version \in 1..MaxVersion
             /\ entities[i].has_value \in BOOLEAN
             /\ entities[i].has_value => entities[i].arch \in DOMAIN archetypes
    BY EntitiesFacts DEF IInv, WorldOK, Placed
  <2>2. free_entities \in Seq(DOMAIN entities)
    <3>1. free_entities \in Seq(Nat) /\ \A k \in DOMAIN free_entities : free_entities[k] \in DOMAIN entities
      BY DEF IInv, FreeSlots
    <3>2. free_entities \in [1..Len(free_entities) -> DOMAIN entities] /\ Len(free_entities) \in Nat
      BY <3>1
    <3> QED BY <3>2
  <2>3. retired_entity_slots \in 0..MaxSlots
    BY SlotSets, EntitiesFacts, SlotsAssumption DEF RetiredBounded
  <2>4. ASSUME NEW cs \in DOMAIN archetypes
        PROVE  /\ cs \in SUBSET Components
               /\ archetypes[cs].is_singleton => ~ archetypes[cs].allow_structure_change
               /\ archetypes[cs].free_chunks_stored \subseteq DOMAIN archetypes[cs].chunks
    BY DEF IInv, WorldOK, ArchetypesOK, Sound, QueueExact, QueueExactBut
  <2>5. ASSUME NEW cs \in DOMAIN archetypes, NEW chunk \in DOMAIN archetypes[cs].chunks,
               NEW r \in DOMAIN archetypes[cs].chunks[chunk]
        PROVE  IsRow(cs, archetypes[cs].chunks[chunk][r])
    <3>1. archetypes[cs] \in ArchetypesOf(Rows(cs))
      BY DEF IInv, WorldOK, ArchetypesOK
    <3>2. archetypes[cs].chunks[chunk] \in Seq(Rows(cs))
      BY <3>1, FieldFacts
    <3>3. archetypes[cs].chunks[chunk][r] \in Rows(cs)
      BY <3>2, SeqFacts
    <3> QED BY <3>3 DEF IsRow, Rows, CellsFor
  <2>6. tick \in 1..MaxTick
    BY DEF IInv
  <2> QED BY <2>1, <2>2, <2>3, <2>4, <2>5, <2>6 DEF TypeOK
<1> QED BY <1>1, Invariant, RetiredNeverMore, PTL

(* The slots that hold a value, before and after.                          *)
LEMMA HeldKept ==
  ASSUME IInv, IInv', NEW i, Unseen(i), i \in HeldSlots(entities) <=> i \in HeldSlots(entities')
  PROVE  HeldSlots(entities') = HeldSlots(entities)
BY DEF Unseen, OthersKept, HeldSlots

(* A creation holds one slot more.                                        *)
LEMMA HeldCreated ==
  ASSUME IInv, IInv', NEW e \in Entity, NEW cells, Created(e, cells)
  PROVE  Cardinality(HeldSlots(entities')) = Cardinality(HeldSlots(entities)) + 1
<1>1. e.idx \notin HeldSlots(entities) /\ e.idx \in HeldSlots(entities')
  BY DEF Created, Absent, Holds, HeldSlots
<1>2. HeldSlots(entities') = HeldSlots(entities) \cup {e.idx}
  BY <1>1 DEF Created, Unseen, OthersKept, HeldSlots
<1>3. IsFiniteSet(HeldSlots(entities))
  BY SlotSets, SlotSetsNow
<1> QED BY <1>1, <1>2, <1>3, FS_AddElement

(* A destruction holds one slot less.                                     *)
LEMMA HeldDestroyed ==
  ASSUME IInv, IInv', NEW e \in Entity, Destroyed(e)
  PROVE  Cardinality(HeldSlots(entities')) = Cardinality(HeldSlots(entities)) - 1
<1>1. e.idx \in HeldSlots(entities) /\ e.idx \notin HeldSlots(entities')
  BY LiveFacts DEF Destroyed, Absent, HeldSlots
<1>2. HeldSlots(entities') = HeldSlots(entities) \ {e.idx}
  BY <1>1 DEF Destroyed, Unseen, OthersKept, HeldSlots
<1>3. IsFiniteSet(HeldSlots(entities))
  BY SlotSets, SlotSetsNow
<1> QED BY <1>1, <1>2, <1>3, FS_RemoveElement

(* A step that only rewrites or moves an entity loses no slot.             *)
LEMMA NothingLost ==
  ASSUME IInv, IInv', \/ UNCHANGED entities
                      \/ \E e \in Entity : \E cells : Changed(e, cells),
         UNCHANGED <<free_entities, retired_entity_slots>>
  PROVE  LostSlots' = LostSlots
<1>1. Len(entities') = Len(entities) /\ HeldSlots(entities') = HeldSlots(entities)
  <2>1. CASE \E e \in Entity : \E cells : Changed(e, cells)
    <3>1. PICK e \in Entity : \E cells : Changed(e, cells)
      BY <2>1
    <3>2. e.idx \in HeldSlots(entities) /\ e.idx \in HeldSlots(entities')
      BY <3>1, LiveFacts DEF Changed, Holds, HeldSlots
    <3> QED BY <3>1, <3>2, HeldKept DEF Changed
  <2>2. CASE UNCHANGED entities
    BY <2>2
  <2> QED BY <2>1, <2>2
<1> QED BY <1>1 DEF LostSlots, HeldSlots

(* Taking a slot leaves one slot more that is nowhere queued.              *)
LEMMA SlotCount ==
  ASSUME IInv, CanAllocate(entities, free_entities), NEW slots, slots = SlotsAfterNew,
         NEW free, free = FreeAfterNew(free_entities)
  PROVE  /\ Len(slots) - Len(free) = Len(entities) - Len(free_entities) + 1
         /\ Len(slots) \in Nat /\ Len(free) \in Nat
         /\ Len(entities) \in Nat /\ Len(free_entities) \in Nat
<1>1. /\ entities \in Seq(EntitySpecs) /\ Len(entities) \in Nat
      /\ free_entities \in Seq(Nat) /\ Len(free_entities) \in Nat
  BY EntitiesFacts, SeqFacts DEF IInv, FreeSlots
<1>2. CASE free_entities # << >>
  <2>1. slots = entities /\ free = Tail(free_entities)
    BY <1>2 DEF SlotsAfterNew, FreeAfterNew
  <2>2. Len(Tail(free_entities)) = Len(free_entities) - 1 /\ Len(free_entities) > 0
    BY <1>1, <1>2, SeqFacts
  <2>3. Len(slots) = Len(entities) /\ Len(free) = Len(free_entities) - 1
    BY <2>1, <2>2
  <2> QED BY <1>1, <2>2, <2>3
<1>3. CASE free_entities = << >>
  <2>1. slots = Append(entities, NewEmptySpec) /\ free = free_entities
    BY <1>3 DEF SlotsAfterNew, FreeAfterNew
  <2>2. NewEmptySpec \in EntitySpecs
    BY SlotsAssumption DEF NewEmptySpec, EntitySpecs, INITIALIZE_VERSION
  <2>3. Len(Append(entities, NewEmptySpec)) = Len(entities) + 1
    BY <1>1, <2>2, AppendFacts
  <2> QED BY <1>1, <2>1, <2>3
<1> QED BY <1>2, <1>3

(* A create that writes its row takes one slot and fills it.               *)
LEMMA PushLosesNone ==
  ASSUME IInv, RetiredBounded, CanAllocate(entities, free_entities),
         NEW known, Grown(known), NEW values \in Bundles, DOMAIN values \in DOMAIN known,
         CanTakeARow(known[DOMAIN values]),
         PushNew(known, SlotsAfterNew, NextEntity(entities, free_entities), values),
         free_entities' = FreeAfterNew(free_entities),
         UNCHANGED <<retired_entity_slots, tick>>
  PROVE  LostSlots' = LostSlots
<1>1. PICK e, slots, free : /\ e = NextEntity(entities, free_entities)
                            /\ slots = SlotsAfterNew /\ free = FreeAfterNew(free_entities)
  OBVIOUS
<1>2. /\ IInv' /\ e \in Entity /\ Unseen(e.idx) /\ Absent(entities, e) /\ Newer(e)
      /\ Holds(entities', archetypes', e, NewCells(values, tick))
  BY <1>1, PushNewFacts
<1>3. Cardinality(HeldSlots(entities')) = Cardinality(HeldSlots(entities)) + 1
  BY <1>2, HeldCreated DEF Created
<1>4. Len(entities') = Len(slots)
  <2>1. slots \in Seq(EntitySpecs)
    BY <1>1, SlotTaken
  <2>2. DOMAIN entities' = DOMAIN slots
    BY <1>1 DEF PushNew
  <2>3. /\ DOMAIN slots = 1..Len(slots) /\ Len(slots) \in Nat
        /\ DOMAIN entities' = 1..Len(entities') /\ Len(entities') \in Nat
    BY <1>2, <2>1, SpecFacts, SlotSetsNow
  <2> QED BY <2>2, <2>3
<1>5. /\ Len(slots) - Len(free) = Len(entities) - Len(free_entities) + 1
      /\ Len(slots) \in Nat /\ Len(free) \in Nat
      /\ Len(entities) \in Nat /\ Len(free_entities) \in Nat
  BY <1>1, SlotCount
<1>6. /\ Cardinality(HeldSlots(entities)) \in Nat /\ Cardinality(HeldSlots(entities')) \in Nat
      /\ retired_entity_slots \in Nat
  BY <1>2, SlotSets, SlotSetsNow DEF RetiredBounded
<1>7. LostSlots' = Len(slots) - (Cardinality(HeldSlots(entities)) + 1) - Len(free) - retired_entity_slots
  BY <1>1, <1>3, <1>4 DEF LostSlots, HeldSlots
<1>8. LostSlots = Len(entities) - Cardinality(HeldSlots(entities)) - Len(free_entities) - retired_entity_slots
  BY DEF LostSlots, HeldSlots
<1>9. PICK n, f, m, g, h, r :
        /\ n = Len(slots) /\ f = Len(free) /\ m = Len(entities) /\ g = Len(free_entities)
        /\ h = Cardinality(HeldSlots(entities)) /\ r = retired_entity_slots
  OBVIOUS
<1>10. /\ n \in Nat /\ f \in Nat /\ m \in Nat /\ g \in Nat /\ h \in Nat /\ r \in Nat
       /\ n - f = m - g + 1
  BY <1>5, <1>6, <1>9
<1>11. LostSlots' = n - (h + 1) - f - r /\ LostSlots = m - h - g - r
  BY <1>7, <1>8, <1>9
<1>12. n - (h + 1) - f - r = m - h - g - r
  BY ONLY <1>10
<1> QED BY <1>11, <1>12

(* A create refused after it took a slot loses it.                         *)
LEMMA RefusedLosesOne ==
  ASSUME IInv, RetiredBounded, CanAllocate(entities, free_entities),
         Grown(archetypes'), entities' = SlotsAfterNew,
         free_entities' = FreeAfterNew(free_entities),
         UNCHANGED <<retired_entity_slots, tick>>
  PROVE  LostSlots' = LostSlots + 1
<1>1. PICK slots, free : slots = entities' /\ free = free_entities'
  OBVIOUS
<1>2. IInv' /\ Quiet
  BY RefusedCreateStep
<1>3. HeldSlots(entities') = HeldSlots(entities)
  <2>1. Unseen(0) /\ 0 \notin HeldSlots(entities) /\ 0 \notin HeldSlots(entities')
    BY <1>2, SlotSetsNow DEF Quiet, HeldSlots
  <2> QED BY <1>2, <2>1, HeldKept
<1>4. /\ Len(slots) - Len(free) = Len(entities) - Len(free_entities) + 1
      /\ Len(slots) \in Nat /\ Len(free) \in Nat
      /\ Len(entities) \in Nat /\ Len(free_entities) \in Nat
  BY <1>1, SlotCount
<1>5. Cardinality(HeldSlots(entities)) \in Nat /\ retired_entity_slots \in Nat
  BY <1>2, SlotSets, SlotSetsNow DEF RetiredBounded
<1>6. LostSlots' = Len(slots) - Cardinality(HeldSlots(entities)) - Len(free) - retired_entity_slots
  BY <1>1, <1>3 DEF LostSlots, HeldSlots
<1>7. LostSlots = Len(entities) - Cardinality(HeldSlots(entities)) - Len(free_entities) - retired_entity_slots
  BY DEF LostSlots, HeldSlots
<1>8. PICK n, f, m, g, h, r :
        /\ n = Len(slots) /\ f = Len(free) /\ m = Len(entities) /\ g = Len(free_entities)
        /\ h = Cardinality(HeldSlots(entities)) /\ r = retired_entity_slots
  OBVIOUS
<1>9. /\ n \in Nat /\ f \in Nat /\ m \in Nat /\ g \in Nat /\ h \in Nat /\ r \in Nat
      /\ n - f = m - g + 1
  BY <1>4, <1>5, <1>8
<1>10. LostSlots' = n - h - f - r /\ LostSlots = m - h - g - r
  BY <1>6, <1>7, <1>8
<1>11. n - h - f - r = m - h - g - r + 1
  BY ONLY <1>9
<1> QED BY <1>10, <1>11

(* World::archetypes is a map: it has no value where it has no key.        *)
IsMap == archetypes = [cs \in DOMAIN archetypes |-> archetypes[cs]]

(* The archetypes stay a function.                                        *)
LEMMA IsMapStep ==
  ASSUME IsMap, [Next]_vars
  PROVE  IsMap'
<1>1. ASSUME NEW known, NEW cs, NEW new, archetypes' = WithArchetype(known, cs, new)
      PROVE  IsMap'
  BY <1>1 DEF WithArchetype, IsMap
<1>2. ASSUME NEW known, NEW cs, NEW new, archetypes' = [known EXCEPT ![cs] = new]
      PROVE  IsMap'
  BY <1>2 DEF IsMap
<1>3. ASSUME UNCHANGED archetypes
      PROVE  IsMap'
  BY <1>3 DEF IsMap
<1>4. ASSUME NEW known, NEW slots, NEW e, NEW values, PushNew(known, slots, e, values)
      PROVE  IsMap'
  BY <1>2, <1>4 DEF PushNew
<1>5. ASSUME NEW known, NEW e, NEW dst, NEW cells, MoveRow(known, e, dst, cells)
      PROVE  IsMap'
  <2>1. PICK archs, a, b : archetypes' = [[known EXCEPT ![dst] = a] EXCEPT ![SpecOf(e).arch] = b]
    BY <1>5 DEF MoveRow
  <2> QED BY <1>2, <2>1
<1>6. ASSUME NEW e, NEW c, NEW cell, WriteCell(e, c, cell)
      PROVE  IsMap'
  <2>1. PICK a : archetypes' = [archetypes EXCEPT ![SpecOf(e).arch] = a]
    BY <1>6 DEF WriteCell
  <2> QED BY <1>2, <2>1
<1>7. ASSUME NEW cs, NEW allow, RegisterArchetype(cs, allow) \/ RegisterSingleton(cs)
      PROVE  IsMap'
  BY <1>1, <1>7 DEF RegisterArchetype, RegisterSingleton
<1>8. ASSUME NEW values, TryCreate(values) \/ TryCreateSingleton(values)
      PROVE  IsMap'
  BY <1>1, <1>4, <1>8 DEF TryCreate, TryCreateSingleton, GetOrCreate
<1>9. ASSUME NEW e, TryDestroy(e)
      PROVE  IsMap'
  BY <1>2, <1>9 DEF TryDestroy
<1>10. ASSUME NEW e, NEW values, TryAddComponent(e, values)
       PROVE  IsMap'
  BY <1>1, <1>5, <1>10 DEF TryAddComponent, GetOrCreate
<1>11. ASSUME NEW e, NEW values, TryMergeComponent(e, values)
       PROVE  IsMap'
  BY <1>1, <1>2, <1>5, <1>11 DEF TryMergeComponent, GetOrCreate
<1>12. ASSUME NEW e, NEW removed, TryRemoveComponent(e, removed)
       PROVE  IsMap'
  BY <1>1, <1>5, <1>12 DEF TryRemoveComponent, GetOrCreate
<1>13. ASSUME NEW e, NEW c, NEW value, WriteComponent(e, c, value) \/ SetEnabled(e, c, value)
       PROVE  IsMap'
  BY <1>6, <1>13 DEF WriteComponent, SetEnabled
<1>14. ASSUME AdvanceTick \/ UNCHANGED vars
       PROVE  IsMap'
  BY <1>3, <1>14 DEF AdvanceTick, vars
<1> QED BY <1>7, <1>8, <1>9, <1>10, <1>11, <1>12, <1>13, <1>14 DEF Next

(* What the step of an operation does to the count of lost slots.          *)
LostOne ==
  /\ LostSlots' = LostSlots + 1
  /\ \E cs \in DOMAIN archetypes : ~ CanTakeARow(archetypes[cs])
  /\ archetypes' = archetypes
  /\ entities' = SlotsAfterNew
  /\ free_entities' = FreeAfterNew(free_entities)

(* try_create loses a slot only where it is refused.                      *)
LEMMA CreateLoses ==
  ASSUME IInv, RetiredBounded, IsMap, NEW values \in Bundles, TryCreate(values)
  PROVE  LostSlots' = LostSlots \/ LostOne
<1>1. PICK known, cs : known = GetOrCreate(archetypes, cs) /\ cs = DOMAIN values
  OBVIOUS
<1>2. /\ CanAllocate(entities, free_entities)
      /\ free_entities' = FreeAfterNew(free_entities)
      /\ UNCHANGED <<retired_entity_slots, tick>>
      /\ \/ /\ CanTakeARow(known[cs])
            /\ PushNew(known, SlotsAfterNew, NextEntity(entities, free_entities), values)
         \/ /\ ~ CanTakeARow(known[cs])
            /\ archetypes' = known
            /\ entities' = SlotsAfterNew
  BY <1>1 DEF TryCreate
<1>3. Grown(known) /\ cs \in DOMAIN known
  BY <1>1, GrownNone, GetOrCreateFacts, BundleFacts
<1>4. CASE /\ CanTakeARow(known[cs])
           /\ PushNew(known, SlotsAfterNew, NextEntity(entities, free_entities), values)
  BY <1>1, <1>2, <1>3, <1>4, PushLosesNone
<1>5. CASE /\ ~ CanTakeARow(known[cs])
           /\ archetypes' = known
           /\ entities' = SlotsAfterNew
  <2>1. LostSlots' = LostSlots + 1
    <3>1. Grown(archetypes') /\ entities' = SlotsAfterNew
      BY <1>3, <1>5
    <3> QED BY <1>2, <3>1, RefusedLosesOne
  <2>2. cs \in DOMAIN archetypes /\ archetypes[cs] = known[cs]
    BY <1>3, <1>5 DEF Grown
  <2>3. known = archetypes
    <3>1. known = [k \in DOMAIN archetypes \cup {cs} |->
                     IF k \in DOMAIN archetypes THEN archetypes[k] ELSE Chunked(TRUE)]
      BY <1>1 DEF GetOrCreate, WithArchetype
    <3>2. known = [k \in DOMAIN archetypes |-> archetypes[k]]
      BY <2>2, <3>1
    <3> QED BY <3>2 DEF IsMap
  <2> QED BY <1>2, <1>5, <2>1, <2>2, <2>3 DEF LostOne
<1> QED BY <1>2, <1>4, <1>5

(* try_create_singleton never loses one.                                  *)
LEMMA CreateSingletonLoses ==
  ASSUME IInv, RetiredBounded, NEW values \in Bundles, TryCreateSingleton(values)
  PROVE  LostSlots' = LostSlots
<1>1. PICK known, cs : /\ known = WithArchetype(archetypes, cs, NewArchetype(TRUE, FALSE))
                       /\ cs = DOMAIN values
  OBVIOUS
<1>2. /\ UNCHANGED <<retired_entity_slots, tick>>
      /\ \/ /\ CanTakeARow(known[cs])
            /\ CanAllocate(entities, free_entities)
            /\ free_entities' = FreeAfterNew(free_entities)
            /\ PushNew(known, SlotsAfterNew, NextEntity(entities, free_entities), values)
         \/ UNCHANGED <<entities, free_entities>>
  BY <1>1 DEF TryCreateSingleton, Singleton
<1>3. Grown(known) /\ cs \in DOMAIN known
  <2>1. Grown(archetypes) /\ cs \in SUBSET Components
    BY <1>1, GrownNone, BundleFacts
  <2>2. \E singleton, allow \in BOOLEAN :
          /\ singleton => ~ allow
          /\ known = WithArchetype(archetypes, cs, NewArchetype(singleton, allow))
    BY <1>1
  <2> QED BY <2>1, <2>2, GrownMore
<1>4. CASE /\ CanTakeARow(known[cs])
           /\ CanAllocate(entities, free_entities)
           /\ free_entities' = FreeAfterNew(free_entities)
           /\ PushNew(known, SlotsAfterNew, NextEntity(entities, free_entities), values)
  BY <1>1, <1>2, <1>3, <1>4, PushLosesNone
<1>5. CASE UNCHANGED <<entities, free_entities>>
  BY <1>2, <1>5 DEF LostSlots
<1> QED BY <1>2, <1>4, <1>5

(* Neither does try_destroy.                                              *)
LEMMA DestroyLoses ==
  ASSUME IInv, RetiredBounded, NEW e \in Entity, TryDestroy(e)
  PROVE  LostSlots' = LostSlots
<1>1. IInv' /\ Destroyed(e)
  BY TryDestroyStep
<1>2. /\ Cardinality(HeldSlots(entities')) = Cardinality(HeldSlots(entities)) - 1
      /\ Cardinality(HeldSlots(entities)) \in Nat
      /\ Len(entities') = Len(entities) /\ Len(entities) \in Nat
      /\ retired_entity_slots \in Nat
      /\ free_entities \in Seq(Nat) /\ Len(free_entities) \in Nat
  BY <1>1, HeldDestroyed, SlotSets, SlotSetsNow, SeqFacts
     DEF Destroyed, RetiredBounded, IInv, FreeSlots
<1>3. Len(free_entities') + retired_entity_slots' = Len(free_entities) + retired_entity_slots + 1
      /\ Len(free_entities') \in Nat /\ retired_entity_slots' \in Nat
  <2>1. CASE IsSpent(entities, e)
    <3>1. free_entities' = free_entities /\ retired_entity_slots' = retired_entity_slots + 1
      BY <2>1 DEF TryDestroy, FreeAfterErase, RetiredAfterErase
    <3> QED BY <1>2, <3>1
  <2>2. CASE ~ IsSpent(entities, e)
    <3>1. free_entities' = Append(free_entities, e.idx) /\ retired_entity_slots' = retired_entity_slots
      BY <2>2 DEF TryDestroy, FreeAfterErase, RetiredAfterErase
    <3>2. Len(Append(free_entities, e.idx)) = Len(free_entities) + 1
      <4>1. e.idx \in Nat
        BY DEF Entity
      <4> QED BY <1>2, <4>1, AppendFacts
    <3> QED BY <1>2, <3>1, <3>2
  <2> QED BY <2>1, <2>2
<1>4. /\ LostSlots = Len(entities) - Cardinality(HeldSlots(entities))
                       - Len(free_entities) - retired_entity_slots
      /\ LostSlots' = Len(entities') - Cardinality(HeldSlots(entities'))
                        - Len(free_entities') - retired_entity_slots'
  BY DEF LostSlots, HeldSlots
<1> QED BY <1>2, <1>3, <1>4

(* A slot falls out of account in one way only, a create refused by a      *)
(* singleton that holds its entity, and that call changes nothing else.    *)
THEOREM OneWayToLoseASlot == Spec => OnlyRefusedCreateLoses
<1>1. ASSUME IInv, RetiredBounded, IsMap, [Next]_vars
      PROVE  LostSlots' = LostSlots \/ LostOne
  <2>1. CASE \E cs \in ComponentSets :
               \/ \E allow \in BOOLEAN : RegisterArchetype(cs, allow)
               \/ RegisterSingleton(cs)
    BY <2>1 DEF RegisterArchetype, RegisterSingleton, LostSlots
  <2>2. CASE \E values \in Bundles : TryCreate(values) \/ TryCreateSingleton(values)
    BY <1>1, <2>2, CreateLoses, CreateSingletonLoses
  <2>3. CASE \E e \in Entity : TryDestroy(e)
    BY <1>1, <2>3, DestroyLoses
  <2>4. CASE \/ \E e \in Entity, values \in Bundles :
                  TryAddComponent(e, values) \/ TryMergeComponent(e, values)
             \/ \E e \in Entity, cs \in ComponentSets : TryRemoveComponent(e, cs)
             \/ \E e \in Entity, c \in Components, value \in Values : WriteComponent(e, c, value)
             \/ \E e \in Entity, c \in Components, enabled \in BOOLEAN : SetEnabled(e, c, enabled)
    <3>1. UNCHANGED <<free_entities, retired_entity_slots>>
      BY <2>4 DEF TryAddComponent, TryMergeComponent, TryRemoveComponent, WriteComponent,
                  SetEnabled, WriteCell
    <3>2. IInv' /\ (UNCHANGED entities \/ \E e \in Entity : \E cells : Changed(e, cells))
      <4>1. CASE \E e \in Entity, values \in Bundles :
                   TryAddComponent(e, values) \/ TryMergeComponent(e, values)
        BY <1>1, <4>1, TryAddComponentStep, TryMergeComponentStep DEF Refused
      <4>2. CASE \E e \in Entity, cs \in ComponentSets : TryRemoveComponent(e, cs)
        BY <1>1, <4>2, TryRemoveComponentStep DEF Refused
      <4>3. CASE \E e \in Entity, c \in Components, value \in Values : WriteComponent(e, c, value)
        BY <1>1, <4>3, WriteComponentStep
      <4>4. CASE \E e \in Entity, c \in Components, enabled \in BOOLEAN : SetEnabled(e, c, enabled)
        BY <1>1, <4>4, SetEnabledStep
      <4> QED BY <2>4, <4>1, <4>2, <4>3, <4>4
    <3> QED BY <1>1, <3>1, <3>2, NothingLost
  <2>5. CASE AdvanceTick \/ UNCHANGED vars
    BY <2>5 DEF AdvanceTick, vars, LostSlots
  <2> QED BY <1>1, <2>1, <2>2, <2>3, <2>4, <2>5 DEF Next
<1>2. Init => IsMap
  BY DEF Init, IsMap
<1>3. IsMap /\ [Next]_vars => IsMap'
  BY IsMapStep
<1>4. IInv /\ RetiredBounded /\ IsMap /\ [Next]_vars =>
        (LostSlots' # LostSlots =>
           /\ LostSlots' = LostSlots + 1
           /\ \E cs \in DOMAIN archetypes : ~ CanTakeARow(archetypes[cs])
           /\ archetypes' = archetypes
           /\ entities' = SlotsAfterNew
           /\ free_entities' = FreeAfterNew(free_entities))
  BY <1>1 DEF LostOne
<1> QED BY <1>2, <1>3, <1>4, Invariant, RetiredNeverMore, PTL DEF Spec, OnlyRefusedCreateLoses
=============================================================================

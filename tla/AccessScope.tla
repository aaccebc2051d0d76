---------------------------- MODULE AccessScope ----------------------------
(***************************************************************************)
(* What a query touches (src/src/query/access_scope.rs): the columns it    *)
(* reads and writes, and the components whose archetypes it leaves out.    *)
(* The bit sets of the code are sets of components here, an archetype is   *)
(* the set of its components.                                              *)
(***************************************************************************)
EXTENDS Integers, Sequences

CONSTANT Components

Scope == [read : SUBSET Components, write : SUBSET Components, exclude : SUBSET Components]

Default == [read |-> {}, write |-> {}, exclude |-> {}]

Intersects(a, b) == a \cap b # {}

(* The scopes of the elements of a query: &T and the filters on it, &mut T *)
(* and the filters on it, Without<T>.                                      *)
ReadsComponent(c)  == [Default EXCEPT !.read = {c}]
WritesComponent(c) == [Default EXCEPT !.write = {c}]
LacksComponent(c)  == [Default EXCEPT !.exclude = {c}]

Elements == UNION {{ReadsComponent(c), WritesComponent(c), LacksComponent(c)} : c \in Components}

Required(s) == s.read \cup s.write

CollideWith(s, t) ==
  \/ Intersects(s.read, t.write)
  \/ Intersects(s.write, t.read)
  \/ Intersects(s.write, t.write)

(* Bug: what the other side writes is forgotten, on both sides.            *)
MatchesArchetypesDisjointFrom_ReadsOnly(s, t) ==
  Intersects(s.exclude, t.read) \/ Intersects(t.exclude, s.read)

MatchesArchetypesDisjointFrom(s, t) ==
  \/ Intersects(s.exclude, Required(t))
  \/ Intersects(t.exclude, Required(s))

ConflictsWith(s, t) == ~ MatchesArchetypesDisjointFrom(s, t) /\ CollideWith(s, t)

(* Bug: Without is forgotten when archetypes are selected.                 *)
BelongTo_NoExclude(s, arch) == Required(s) \subseteq arch

(* The archetypes a query walks.                                           *)
BelongTo(s, arch) ==
  /\ s.read \subseteq arch
  /\ s.write \subseteq arch
  /\ ~ Intersects(arch, s.exclude)

(* Bug: what the element writes goes to what the query leaves out.         *)
Union_WriteAsExclude(s, t) ==
  [read    |-> s.read \cup t.read,
   write   |-> s.write \cup t.write,
   exclude |-> s.exclude \cup t.write]

(* The scope of a query with one more element.                             *)
Union(s, t) ==
  [read    |-> s.read \cup t.read,
   write   |-> s.write \cup t.write,
   exclude |-> s.exclude \cup t.exclude]
=============================================================================

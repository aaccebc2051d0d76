---------------------------- MODULE ChunkLayout ----------------------------
(***************************************************************************)
(* How a chunk's bytes are divided (src/src/chunk/layout.rs, header.rs,    *)
(* column.rs): the header holds the state regions of every component and   *)
(* the handles, the columns follow. The number of rows is found by a       *)
(* binary search over layouts that fit. All constants are those of the     *)
(* code, in bytes. A component's descriptor is its size, its alignment and *)
(* what is tracked; a region is its first byte and its length.             *)
(***************************************************************************)
EXTENDS Integers, Sequences

LOCAL Seqs == INSTANCE SequencesExt
Sets == INSTANCE FiniteSetsExt

CONSTANTS
  Descriptors,     \* the components of the program
  MaxComponents,   \* bound of the model on the components of an archetype
  ChunkSizes       \* ArchetypeCfg::chunk_size_in_byte, as registered

ASSUME DescriptorAssumption ==
  /\ Descriptors \subseteq [byte_size : Nat, align : {1, 2, 4, 8, 16, 32, 64},
                            enable_able : BOOLEAN, change_able : BOOLEAN]
  /\ \A des \in Descriptors : des.byte_size % des.align = 0

BITS_PER_BYTE == 8
CPU_WORD == 8
CHANGED_TICK_BYTE_SIZE == 4
ENTITY_BYTE_SIZE == 8
ENTITY_ALIGN == 8

VARIABLES
  components,           \* the descriptors of the archetype, in order
  chunk_size_in_byte,
  low, upper_bound,     \* the search of compute_layout
  best                  \* the layout it has

searchVars == <<components, chunk_size_in_byte, low, upper_bound, best>>

(* ArchetypeCfg::validate.                                                 *)
ValidChunkSize(size) == size # 0 /\ size % CPU_WORD = 0

DivCeil(n, d) == (n + d - 1) \div d

AlignUp(offset, align) == DivCeil(offset, align) * align

NoRegion == [offset |-> 0, size |-> 0]

(* Bug: a byte for every 8 rows, rounded down.                             *)
EnableBytes_Floor(rows) == AlignUp(rows \div BITS_PER_BYTE, CPU_WORD)

EnableBytes(rows) == AlignUp(DivCeil(rows, BITS_PER_BYTE), CPU_WORD)

TickBytes(rows) == AlignUp(rows * CHANGED_TICK_BYTE_SIZE, CPU_WORD)

(* The state regions of one more component of Header::new.                 *)
WithState(header, des, rows) ==
  LET enable  == IF des.enable_able THEN EnableBytes(rows) ELSE 0
      ticks   == IF des.change_able THEN TickBytes(rows) ELSE 0
      added   == header.size + enable
      changed == added + ticks
  IN [states |-> Append(header.states,
                        [enable  |-> [offset |-> header.size, size |-> enable],
                         added   |-> [offset |-> added,       size |-> ticks],
                         changed |-> [offset |-> changed,     size |-> ticks]]),
      size   |-> changed + ticks]

Header(rows, comps) ==
  LET states == Seqs!FoldLeft(LAMBDA h, des : WithState(h, des, rows),
                              [states |-> << >>, size |-> 0], comps)
      entities_offset == AlignUp(states.size, ENTITY_ALIGN)
  IN [states          |-> states.states,
      entities_offset |-> entities_offset,
      size            |-> AlignUp(entities_offset + rows * ENTITY_BYTE_SIZE, CPU_WORD)]

(* Bug: a column starts where the one before it ends.                      *)
WithColumn_Unaligned(acc, des, rows) ==
  [columns |-> Append(acc.columns, [offset |-> acc.cursor, size |-> rows * des.byte_size]),
   cursor  |-> acc.cursor + rows * des.byte_size]

WithColumn(acc, des, rows) ==
  LET offset == AlignUp(acc.cursor, des.align) IN
  [columns |-> Append(acc.columns, [offset |-> offset, size |-> rows * des.byte_size]),
   cursor  |-> offset + rows * des.byte_size]

Layout(rows, comps, size) ==
  LET header  == Header(rows, comps)
      columns == Seqs!FoldLeft(LAMBDA acc, des : WithColumn(acc, des, rows),
                               [columns |-> << >>, cursor |-> header.size], comps)
  IN [max_len |-> rows, header |-> header, columns |-> columns.columns, end |-> columns.cursor,
      size    |-> size,
      align   |-> Sets!Max({CPU_WORD} \cup {comps[i].align : i \in DOMAIN comps})]

(* try_layout: without a column nothing is compared with the chunk's size. *)
Fits(rows, comps, size) == comps = << >> \/ Layout(rows, comps, size).end <= size

(* Bug: the enable bit counts as a byte.                                   *)
BitsPerEntity_WholeByte(comps) ==
  Seqs!FoldLeft(LAMBDA bits, des :
                  bits + des.byte_size * BITS_PER_BYTE
                       + (IF des.enable_able THEN BITS_PER_BYTE ELSE 0)
                       + (IF des.change_able THEN 2 * CHANGED_TICK_BYTE_SIZE * BITS_PER_BYTE ELSE 0),
                ENTITY_BYTE_SIZE * BITS_PER_BYTE, comps)

BitsPerEntity(comps) ==
  Seqs!FoldLeft(LAMBDA bits, des :
                  bits + des.byte_size * BITS_PER_BYTE
                       + (IF des.enable_able THEN 1 ELSE 0)
                       + (IF des.change_able THEN 2 * CHANGED_TICK_BYTE_SIZE * BITS_PER_BYTE ELSE 0),
                ENTITY_BYTE_SIZE * BITS_PER_BYTE, comps)

EstimateMaxEntities(comps, size) == (size * BITS_PER_BYTE) \div BitsPerEntity(comps)

(* new_fitted: one row, in as many bytes as it takes.                      *)
FittedLayout(comps) ==
  LET probe == Layout(1, comps, 0)
      used  == Sets!Max({1, probe.header.size}
                 \cup {probe.columns[i].offset + comps[i].byte_size : i \in DOMAIN comps})
  IN Layout(1, comps, AlignUp(used, probe.align))

----------------------------------------------------------------------------
NoLayout == [max_len |-> 0]

Archetypes == {comps \in UNION {[1..n -> Descriptors] : n \in 0..MaxComponents} :
                 \A i, j \in DOMAIN comps : comps[i] = comps[j] => i = j}

LayoutInit ==
  /\ components \in Archetypes
  /\ chunk_size_in_byte \in {size \in ChunkSizes : ValidChunkSize(size)}
  /\ low = 1
  /\ upper_bound = EstimateMaxEntities(components, chunk_size_in_byte)
  /\ best = NoLayout

(* Bug: the search goes on below a number of rows that fits.               *)
Probe_Down ==
  LET mid == low + (upper_bound - low) \div 2 IN
  /\ low <= upper_bound
  /\ best' = IF Fits(mid, components, chunk_size_in_byte)
             THEN Layout(mid, components, chunk_size_in_byte) ELSE best
  /\ upper_bound' = mid - 1
  /\ UNCHANGED <<components, chunk_size_in_byte, low>>

(* A round of compute_layout.                                              *)
Probe ==
  LET mid == low + (upper_bound - low) \div 2 IN
  /\ low <= upper_bound
  /\ \/ /\ Fits(mid, components, chunk_size_in_byte)
        /\ best' = Layout(mid, components, chunk_size_in_byte)
        /\ low' = mid + 1
        /\ UNCHANGED upper_bound
     \/ /\ ~ Fits(mid, components, chunk_size_in_byte)
        /\ upper_bound' = mid - 1
        /\ UNCHANGED <<low, best>>
  /\ UNCHANGED <<components, chunk_size_in_byte>>

SearchDone == low > upper_bound

----------------------------------------------------------------------------
(* The regions of a layout with the alignment each one needs and the bytes *)
(* its rows take.                                                          *)
Regions(layout, comps) ==
  LET rows   == layout.max_len
      header == layout.header
      Region(name, at, align, needs) == [name |-> name, at |-> at, align |-> align, needs |-> needs]
  IN
  {Region(<<"handles", 0>>, [offset |-> header.entities_offset, size |-> rows * ENTITY_BYTE_SIZE],
          ENTITY_ALIGN, rows * ENTITY_BYTE_SIZE)}
  \cup
  {Region(<<"column", i>>, layout.columns[i], comps[i].align, rows * comps[i].byte_size) :
     i \in DOMAIN comps}
  \cup
  {Region(<<"enable", i>>, header.states[i].enable, 1, DivCeil(rows, BITS_PER_BYTE)) :
     i \in {k \in DOMAIN comps : comps[k].enable_able}}
  \cup
  {Region(<<state, i>>, header.states[i][state], CHANGED_TICK_BYTE_SIZE, rows * CHANGED_TICK_BYTE_SIZE) :
     state \in {"added", "changed"}, i \in {k \in DOMAIN comps : comps[k].change_able}}

Apart(r, s) == r.offset + r.size <= s.offset \/ s.offset + s.size <= r.offset

Sound(layout, comps) ==
  /\ \A r \in Regions(layout, comps) :
       /\ r.at.offset % r.align = 0
       /\ layout.align % r.align = 0
       /\ r.needs <= r.at.size
       /\ r.at.offset + r.needs <= layout.size
  /\ \A r, s \in Regions(layout, comps) : r.name # s.name => Apart(r.at, s.at)

(* Every layout that is handed out keeps its regions apart, aligned and    *)
(* inside the chunk, with room for all rows: every read and write of a     *)
(* component, a handle, a bit or a tick is an offset that is trusted.      *)
LayoutSound ==
  /\ best # NoLayout => Sound(best, components)
  /\ low = 1 => Sound(FittedLayout(components), components)

(* The search ends with the most rows that fit, or with none when one row  *)
(* does not: layout.rs:94, the estimate can only be too generous, and      *)
(* layout.rs:102, try_layout is monotonic. The chunk of a singleton could  *)
(* not be a step of its alignment smaller.                                 *)
SearchExact ==
  SearchDone =>
    /\ best.max_len = 0 \/ Fits(best.max_len, components, chunk_size_in_byte)
    /\ \A rows \in (best.max_len + 1)..(chunk_size_in_byte \div ENTITY_BYTE_SIZE) :
         \/ ~ Fits(rows, components, chunk_size_in_byte)
         \/ components = << >> /\ Layout(rows, components, chunk_size_in_byte).end > chunk_size_in_byte
    /\ LET fitted == FittedLayout(components) IN
       Layout(1, components, 0).end > fitted.size - fitted.align
=============================================================================

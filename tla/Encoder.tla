------------------------------- MODULE Encoder ------------------------------
(***************************************************************************)
(* Splitting an object into a tree of chunks with parity                   *)
(* (src/src/erasure/encoder.rs, src/src/erasure/mod.rs) and how a reader   *)
(* takes that tree apart again (src/src/erasure/joiner.rs: read_node).     *)
(* Leaves are numbered; `from' and `to' of a chunk name the leaves below   *)
(* it.  A raw span carries the length in its low bytes (below Low) and the *)
(* redundancy level in its top byte; sums of raw spans wrap.               *)
(***************************************************************************)
EXTENDS Integers, Sequences, SequencesExt

CONSTANTS
  CHUNK_SIZE,     \* bytes of a data chunk
  BRANCHES,       \* references of an intermediate chunk
  MAX_LEVEL,      \* trie levels
  erasure_table,  \* level -> rows <<shards, parities>>, descending
  Low,            \* 2^56: the lengths a span can carry
  MaxLeaves       \* bound: data chunks of the object

VARIABLES
  level,   \* redundancy level of the upload
  enc,     \* the encoder: entries and data children per level, codewords, full
  leaves,  \* data chunks written
  root     \* where the upload stands; the root references once finished

evars == <<level, enc, leaves, root>>

ETypeOK ==
  /\ level \in DOMAIN erasure_table
  /\ leaves \in 0..(MaxLeaves + 1) /\ enc.full \in BOOLEAN
  /\ \A l \in DOMAIN enc.entries : enc.eff[l] <= Len(enc.entries[l])

parities(lvl, shards) ==
  LET row == SelectInSeq(erasure_table[lvl], LAMBDA r : shards >= r[1])
  IN  IF row = 0 THEN 0 ELSE erasure_table[lvl][row][2]

max_shards(lvl) == BRANCHES - parities(lvl, BRANCHES)
max_children == max_shards(level) + parities(level, max_shards(level))

NewEncoder ==
  [entries |-> [l \in 1..(MAX_LEVEL + 1) |-> <<>>], eff |-> [l \in 1..(MAX_LEVEL + 1) |-> 0],
   rs |-> [l \in 0..(MAX_LEVEL - 1) |-> <<>>], full |-> FALSE]

Open == [st |-> "open", top |-> <<>>]

EInit == level \in DOMAIN erasure_table /\ enc = NewEncoder /\ leaves = 0 /\ root = Open

-----------------------------------------------------------------------------
Data(n, size) == [kind |-> "data", raw |-> size, from |-> n, to |-> n, refs |-> <<>>]
Named(c) == <<c.kind, c.from, c.to>>

\* Parity chunk number p of a codeword.
Parity(shards, p) ==
  [kind |-> "parity", raw |-> p, from |-> Head(shards).from, to |-> Last(shards).to,
   refs |-> [i \in DOMAIN shards |-> Named(shards[i])]]

\* The span of a node over `refs' of which the first n are data: the wrapping
\* sum of the data children's raw spans, the top byte replaced by the level
\* when the node has parity children.
RawSpan(refs, n) ==
  LET sum == FoldLeft(LAMBDA acc, c : (acc + c.raw) % (256 * Low), 0, SubSeq(refs, 1, n))
  IN  IF Len(refs) > n THEN (sum % Low) + (128 + level) * Low ELSE sum

Node(refs, n) ==
  [kind |-> "node", raw |-> RawSpan(refs, n), from |-> refs[1].from, to |-> refs[n].to, refs |-> refs]

RECURSIVE write_to_level(_, _, _, _)
RECURSIVE chunk_write(_, _, _)

\* A level's references become one node, which goes one level up and into the
\* codeword of that level.
wrap_level(e, l) ==
  LET node == Node(e.entries[l], e.eff[l])
      up == write_to_level([e EXCEPT !.entries[l] = <<>>, !.eff[l] = 0], l + 1, FALSE, node)
      done == chunk_write(up, l, node)
  IN  [done EXCEPT !.full = @ \/ l + 1 = MAX_LEVEL]

write_to_level(e, l, parity, c) ==
  LET f == [e EXCEPT !.entries[l] = Append(@, c), !.eff[l] = IF parity THEN @ ELSE @ + 1]
  IN  IF Len(f.entries[l]) = max_children THEN wrap_level(f, l) ELSE f

\* The buffered shards become parity chunks on the level above the buffer.
rs_encode(e, r) ==
  LET shards == e.rs[r]
      f == [e EXCEPT !.rs[r] = <<>>]
  IN  IF level = 0 \/ shards = <<>> THEN e
      ELSE FoldLeft(LAMBDA g, p : write_to_level(g, r + 1, TRUE, Parity(shards, p)), f,
                    [p \in 1..parities(level, Len(shards)) |-> p])

\* A shard joins codeword r, which is encoded when it fills.
Buffered(e, r, c) ==
  LET f == [e EXCEPT !.rs[r] = Append(@, c)]
  IN  IF Len(f.rs[r]) = max_shards(level) THEN rs_encode(f, r) ELSE f

chunk_write(e, r, c) == IF level = 0 \/ r > MAX_LEVEL - 1 THEN e ELSE Buffered(e, r, c)

\* Mutant: the carried chunk is not moved to the codeword above.
elevate_carrier_chunkNot(e, r) == e

\* The lone chunk of codeword r joins the codeword above.
elevate_carrier_chunk(e, r) ==
  IF level = 0 \/ r > MAX_LEVEL - 1 \/ Len(e.rs[r]) # 1 \/ r + 1 > MAX_LEVEL - 1 THEN e
  ELSE Buffered(e, r + 1, e.rs[r][1])

-----------------------------------------------------------------------------
written(e, n, size) == chunk_write(write_to_level(e, 1, FALSE, Data(n, size)), 0, Data(n, size))

\* One full data chunk.
Write ==
  /\ root = Open /\ leaves < MaxLeaves
  /\ IF enc.full THEN root' = [Open EXCEPT !.st = "full"] /\ UNCHANGED <<enc, leaves>>
     ELSE enc' = written(enc, leaves + 1, CHUNK_SIZE) /\ leaves' = leaves + 1 /\ UNCHANGED root
  /\ UNCHANGED level

\* One level of the flush.
Flushed(e, l) ==
  LET n == Len(e.entries[l])
  IN  CASE n = 0 -> e
        [] n > 0 /\ n = max_children -> wrap_level(e, l)
        [] n = 1 /\ n # max_children ->
             elevate_carrier_chunk(
               [e EXCEPT !.entries[l] = <<>>, !.eff[l] = 0,
                         !.entries[l + 1] = Append(@, e.entries[l][1]), !.eff[l + 1] = @ + 1], l - 1)
        [] OTHER -> wrap_level(rs_encode(e, l - 1), l)

\* The flush of every level; `tail' bytes are a last, shorter data chunk.
Finish(tail) ==
  LET n == IF tail > 0 \/ leaves = 0 THEN leaves + 1 ELSE leaves
      e == IF n > leaves THEN written(enc, n, tail) ELSE enc
      top == FoldLeft(Flushed, e, [l \in 1..(MAX_LEVEL - 1) |-> l]).entries[MAX_LEVEL]
  IN  /\ root = Open
      /\ root' = [st |-> IF enc.full /\ n > leaves THEN "full"
                        ELSE IF Len(top) = 1 THEN "built" ELSE "inconsistent",
                  top |-> IF enc.full /\ n > leaves THEN <<>> ELSE top]
      /\ leaves' = n
      /\ UNCHANGED <<level, enc>>

ENext == Write \/ \E tail \in 0..(CHUNK_SIZE - 1) : Finish(tail)

-----------------------------------------------------------------------------
\* The reader's side.

decode_span(raw) ==
  LET top == raw \div Low
  IN  IF top <= 128 THEN [level |-> 0, len |-> raw]
      ELSE [level |-> IF (top - 128) \in DOMAIN erasure_table THEN top - 128 ELSE 0, len |-> raw % Low]

\* Parity references of a node of `span' bytes: the smallest tree that spans
\* it, the bytes one reference covers, the references it takes.
reference_count(span, lvl) ==
  LET b == max_shards(lvl)
      height == CHOOSE h \in 1..(MAX_LEVEL + 1) :
                  /\ CHUNK_SIZE * b^(h - 1) >= span
                  /\ \A k \in 1..(h - 1) : CHUNK_SIZE * b^(k - 1) < span
      size == IF height < 3 THEN CHUNK_SIZE ELSE CHUNK_SIZE * b^(height - 2)
      data == IF span <= size THEN 1 ELSE (span + size - 1) \div size
  IN  [data |-> data, parities |-> parities(lvl, data)]

child_parity(c) ==
  LET d == decode_span(c.raw)
  IN  IF d.level = 0 THEN 0 ELSE reference_count(d.len, d.level).parities

\* The data children and the parity children the reader sees in a node.
chunk_addresses(c) == [shards |-> SubSeq(c.refs, 1, Len(c.refs) - child_parity(c)),
                       parity |-> SubSeq(c.refs, Len(c.refs) - child_parity(c) + 1, Len(c.refs))]

\* A chunk no longer than its payload is a leaf.
IsLeaf(c) == decode_span(c.raw).len <= IF c.kind = "data" THEN c.raw ELSE CHUNK_SIZE

\* The leaves of a tree in order; 0 stands for anything taken for data.
RECURSIVE read_node(_)
read_node(c) ==
  IF IsLeaf(c) THEN <<IF c.kind = "data" THEN c.from ELSE 0>>
  ELSE FoldLeft(LAMBDA acc, k : acc \o read_node(k), <<>>, chunk_addresses(c).shards)

RECURSIVE Covered(_)
Covered(c) ==
  \/ IsLeaf(c)
  \/ LET a == chunk_addresses(c)
     IN  /\ Len(a.parity) = parities(level, Len(a.shards))
         /\ \A p \in Range(a.parity) : p.kind = "parity" /\ p.refs = [i \in DOMAIN a.shards |-> Named(a.shards[i])]
         /\ \A k \in Range(a.shards) : k.kind # "parity" /\ Covered(k)

-----------------------------------------------------------------------------
\* Properties.

Finished == root.st \in {"built", "inconsistent"}

\* The tree reads back as exactly the leaves that were written, in order: what
\* reference_count recovers from a span is how the encoder split the node.
ReadsBack == Finished => Len(root.top) = 1 /\ read_node(root.top[1]) = [i \in 1..leaves |-> i]

\* Every node's parities were computed over exactly the data references of
\* that node, in the node's order, so any missing child can be rebuilt.
ParityCoversNode == Finished => Len(root.top) = 1 /\ Covered(root.top[1])
=============================================================================

------------------------------ MODULE Manifest ------------------------------
(***************************************************************************)
(* Collections as manifests (src/src/manifest.rs) and the lookup of a path *)
(* in one (src/src/client.rs: lookup_manifest_path, walk_manifest).  A     *)
(* manifest is a radix trie of nodes, each a chunk of its own that the     *)
(* lookup fetches; a node is named by the path that leads to it.  Paths    *)
(* are sequences of characters, Slash is '/'.                              *)
(***************************************************************************)
EXTENDS Integers, Sequences, SequencesExt, FiniteSets

CONSTANTS
  Collections,  \* path -> its file: the reference and the content type or None
  Indexes,      \* index documents: a path, or <<>> for none
  Requests,     \* paths looked up
  Slash, None

VARIABLES
  coll, index,   \* the collection uploaded and its index document
  want,          \* the path looked up
  at, rest,      \* the node the lookup is at and the path left
  type,          \* last_content_type
  redirected,    \* index_redirected
  found          \* "open", "failed", "none" or the reference

mvars == <<coll, index, want, at, rest, type, redirected, found>>

\* build_collection_manifest: one key per file, and the root path's metadata.
Keys == DOMAIN coll \cup (IF index = <<>> THEN {} ELSE {<<Slash>>})

CommonPrefix(p, q) == SubSeq(p, 1, CHOOSE n \in 0..Len(p) :
  /\ n <= Len(q) /\ SubSeq(p, 1, n) = SubSeq(q, 1, n)
  /\ (n < Len(p) /\ n < Len(q)) => p[n + 1] # q[n + 1])

\* The trie's nodes: the keys and the points where they part.
Nodes == {<<>>} \cup Keys \cup {CommonPrefix(p, q) : p, q \in Keys}

\* The fork of node p on character c: the nodes it leads to, at most one.
Forks(p, c) ==
  LET below == {q \in Nodes : Len(q) > Len(p) /\ IsPrefix(p, q) /\ q[Len(p) + 1] = c}
  IN  {q \in below : \A r \in below : Len(q) <= Len(r)}

\* decode_node: the root path's all-zero entry is no entry.
Entry(p) == IF p \in DOMAIN coll /\ ~(p = <<Slash>> /\ index # <<>>) THEN coll[p].ref ELSE None
Type(p) == IF p \in DOMAIN coll THEN coll[p].type ELSE None

\* The index document a node's forks carry.
extract_index_document(p) == IF p = <<>> THEN index ELSE <<>>

MTypeOK == at \in Nodes /\ redirected \in BOOLEAN /\ type \in {None} \cup {coll[p].type : p \in DOMAIN coll}

MInit ==
  /\ coll \in Collections /\ index \in Indexes /\ want \in Requests
  /\ at = <<>> /\ rest = want /\ type = None /\ redirected = FALSE /\ found = "open"

-----------------------------------------------------------------------------
\* A node cannot be fetched.
NodeFails == found = "open" /\ found' = "failed" /\ UNCHANGED <<coll, index, want, at, rest, type, redirected>>

\* The path ends at this node: its entry, or once the index document.
Arrive ==
  /\ found = "open" /\ rest = <<>>
  /\ IF Entry(at) # None THEN found' = Entry(at) /\ UNCHANGED <<rest, redirected>>
     ELSE IF ~redirected /\ extract_index_document(at) # <<>>
     THEN redirected' = TRUE /\ rest' = extract_index_document(at) /\ UNCHANGED found
     ELSE found' = "none" /\ UNCHANGED <<rest, redirected>>
  /\ UNCHANGED <<coll, index, want, at, type>>

\* Mutant: only the first character of a fork is compared.
MatchesFirst(prefix) == Len(prefix) <= Len(rest)

\* The path left goes through the whole prefix of a fork.
Matches(prefix) == IsPrefix(prefix, rest)

Descend ==
  /\ found = "open" /\ rest # <<>>
  /\ LET forks == Forks(at, rest[1])
         to == CHOOSE q \in forks : TRUE
         prefix == SubSeq(to, Len(at) + 1, Len(to))
     IN  IF forks = {} \/ ~Matches(prefix) THEN found' = "none" /\ UNCHANGED <<at, rest, type>>
         ELSE /\ at' = to /\ rest' = SubSeq(rest, Len(prefix) + 1, Len(rest))
              /\ type' = IF Type(to) # None THEN Type(to) ELSE type
              /\ UNCHANGED found
  /\ UNCHANGED <<coll, index, want, redirected>>

MNext == NodeFails \/ Arrive \/ Descend

\* walk_manifest: the entries below a node.
RECURSIVE walk_manifest(_)
walk_manifest(p) ==
  (IF Entry(p) # None THEN {p} ELSE {}) \cup
    UNION {walk_manifest(q) : q \in UNION {Forks(p, c) : c \in UNION {Range(k) : k \in Keys}}}

-----------------------------------------------------------------------------
\* Properties.

\* The empty path stands for the index document.
Target == IF want = <<>> THEN index ELSE want

\* A lookup finds a path exactly if it was uploaded, and then that file, with
\* the file's own content type if it has one; listing the manifest lists
\* exactly the uploaded paths.
LookupExact ==
  /\ found \notin {"open", "failed", "none"} =>
       /\ Target \in DOMAIN coll /\ found = coll[Target].ref
       /\ coll[Target].type \in {None, type}
  /\ found = "none" => Target \notin DOMAIN coll
  /\ found # "open" => walk_manifest(<<>>) = DOMAIN coll
=============================================================================

---------------------------- MODULE CompileCache ----------------------------
(***************************************************************************)
(* The lowering cache of the ahead-of-time compiler: run_compiler (cli.py) *)
(* and CacheManager (cache_manager.py).  Several compiler processes share  *)
(* one cache directory and compile one mechanism document, which its       *)
(* author edits meanwhile, as others edit the compiler.                    *)
(*                                                                         *)
(* The cache is a directory of names over inodes.  A pickle is two blocks, *)
(* a head and a tail, written and read one after the other; a block says   *)
(* which lowering it was dumped from: two dumps of one lowering are taken  *)
(* to be the same bytes.  The SHA-256 key does not collide.                *)
(***************************************************************************)
EXTENDS Integers, Sequences

CONSTANTS
  Compilers,   \* compiler processes
  None,        \* no inode
  Inodes,      \* enough for every name and every open file
  MaxEdits     \* bound: edits of the document and of the compiler, together

ASSUME InodesAssumption == None \notin Inodes
ASSUME BoundAssumption == MaxEdits \in Nat

Versions  == 0..MaxEdits
\* Lowering runs lowering.py, whose source is hashed, and parts whose source is
\* not: the parser and the equilibrium models.
Code      == [hashed : Versions, unhashed : Versions]
Lowerings == [document : Versions, code : Code]
Keys      == [document : Versions, hashed : Versions]
Blocks    == [part : {"head", "tail"}, of : Lowerings]
Hole      == [part |-> "hole"]
Unknown   == [part |-> "unknown"]
Results   == [of : Lowerings \union {Unknown}, complete : BOOLEAN]

VARIABLES
  document, \* the file on disk
  source,   \* the compiler's source files on disk
  pc,       \* where each compiler is
  parsed,   \* the lowering it would compute: document parsed, code loaded
  key,      \* cache_key
  fd,       \* the cache file it has open
  head,     \* the first block it has read
  meta,     \* mech.sympy_metadata
  name,     \* the cache directory: an inode for each key
  content,  \* the blocks of each inode
  torn,     \* history: some key is not of what was parsed and loaded
  killed,   \* history: some compiler died while it was storing
  raced     \* history: another one's unlink fell between exists and open

local == <<pc, parsed, key, fd, head, meta>>
cache == <<name, content>>
vars  == <<document, source, local, cache, torn, killed, raced>>

NoLowering == [document |-> 0, code |-> [hashed |-> 0, unhashed |-> 0]]
NoKey      == [document |-> 0, hashed |-> 0]
NoResult   == [of |-> Unknown, complete |-> FALSE]

TypeOK ==
  /\ document \in Versions
  /\ source \in Code
  /\ pc \in [Compilers -> {"idle", "hash", "exists", "open", "head", "tail", "unlink",
                           "lower", "store", "dump_head", "dump_tail", "generated", "failed"}]
  /\ parsed \in [Compilers -> Lowerings]
  /\ key \in [Compilers -> Keys]
  /\ fd \in [Compilers -> Inodes \union {None}]
  /\ \A c \in Compilers :
       pc[c] \in {"head", "tail", "dump_head", "dump_tail"} <=> fd[c] # None
  /\ head \in [Compilers -> Blocks \union {Unknown}]
  /\ meta \in [Compilers -> Results]
  /\ name \in [Keys -> Inodes \union {None}]
  /\ \A k1, k2 \in Keys : name[k1] = name[k2] /\ name[k1] # None => k1 = k2
  /\ content \in [Inodes -> Seq(Blocks \union {Hole})]
  /\ torn \in BOOLEAN
  /\ killed \in BOOLEAN
  /\ raced \in [Compilers -> BOOLEAN]

Init ==
  /\ document = 0
  /\ source = [hashed |-> 0, unhashed |-> 0]
  /\ pc = [c \in Compilers |-> "idle"]
  /\ parsed = [c \in Compilers |-> NoLowering]
  /\ key = [c \in Compilers |-> NoKey]
  /\ fd = [c \in Compilers |-> None]
  /\ head = [c \in Compilers |-> Unknown]
  /\ meta = [c \in Compilers |-> NoResult]
  /\ name = [k \in Keys |-> None]
  /\ content = [i \in Inodes |-> <<>>]
  /\ torn = FALSE
  /\ killed = FALSE
  /\ raced = [c \in Compilers |-> FALSE]

Goto(c, label) == pc' = [pc EXCEPT ![c] = label]

------------------------------------------------------------------------------
\* The environment.

MayEdit == document + source.hashed + source.unhashed < MaxEdits

EditDocument ==
  /\ MayEdit
  /\ document' = document + 1
  /\ UNCHANGED <<source, local, cache, torn, killed, raced>>

EditCompiler ==
  /\ MayEdit
  /\ \/ source' = [source EXCEPT !.hashed = @ + 1]
     \/ source' = [source EXCEPT !.unhashed = @ + 1]
  /\ UNCHANGED <<document, local, cache, torn, killed, raced>>

\* A file that has no name any more and that nobody has open is freed.
Freed(blocks, names, open) ==
  [i \in Inodes |->
     IF \E k \in Keys, c \in Compilers : i \in {names[k], open[c]} THEN blocks[i] ELSE <<>>]

\* What a compiler knows is gone with it.
Forget(c) ==
  /\ Goto(c, "idle")
  /\ parsed' = [parsed EXCEPT ![c] = NoLowering]
  /\ key' = [key EXCEPT ![c] = NoKey]
  /\ fd' = [fd EXCEPT ![c] = None]
  /\ head' = [head EXCEPT ![c] = Unknown]
  /\ meta' = [meta EXCEPT ![c] = NoResult]
  /\ raced' = [raced EXCEPT ![c] = FALSE]
  /\ content' = Freed(content, name, fd')

Die(c) ==
  /\ pc[c] \notin {"idle", "generated", "failed"}
  /\ Forget(c)
  /\ killed' = (killed \/ pc[c] \in {"dump_head", "dump_tail"})
  /\ UNCHANGED <<document, source, name, torn>>

Exit(c) ==
  /\ pc[c] \in {"generated", "failed"}
  /\ Forget(c)
  /\ UNCHANGED <<document, source, name, torn, killed>>

------------------------------------------------------------------------------
\* run_compiler

\* The process has loaded the compiler; load_mechanism reads the document.
Parse(c) ==
  /\ pc[c] = "idle"
  /\ parsed' = [parsed EXCEPT ![c] = [document |-> document, code |-> source]]
  /\ Goto(c, "hash")
  /\ UNCHANGED <<document, source, key, fd, head, meta, cache, torn, killed, raced>>

\* Fault: the document is left out of the hash.
KeyOfCompiler(doc, src) == [document |-> 0, hashed |-> src.hashed]

\* compute_key: SHA-256 of file contents and compiler source.
KeyOf(doc, src) == [document |-> doc, hashed |-> src.hashed]

\* compute_key reads the document and the source once more, from disk; --no-cache
\* skips the lookup and nothing else.
ComputeKey(c) ==
  /\ pc[c] = "hash"
  /\ key' = [key EXCEPT ![c] = KeyOf(document, source)]
  /\ torn' = (torn \/ parsed[c].document # document
                   \/ parsed[c].code.hashed # source.hashed)
  /\ \E noCache \in BOOLEAN : Goto(c, IF noCache THEN "lower" ELSE "exists")
  /\ UNCHANGED <<document, source, parsed, fd, head, meta, cache, killed, raced>>

\* On a miss everything is lowered afresh.
Lower(c) ==
  /\ pc[c] = "lower"
  /\ meta' = [meta EXCEPT ![c] = [of |-> parsed[c], complete |-> TRUE]]
  /\ Goto(c, "store")
  /\ UNCHANGED <<document, source, parsed, key, fd, head, cache, torn, killed, raced>>

------------------------------------------------------------------------------
\* CacheManager.lookup

LookupExists(c) ==
  /\ pc[c] = "exists"
  /\ Goto(c, IF name[key[c]] = None THEN "lower" ELSE "open")
  /\ UNCHANGED <<document, source, parsed, key, fd, head, meta, cache, torn, killed, raced>>

\* Fault: a file that is gone is read all the same.
OpenedBlindly(inode) == "head"

\* FileNotFoundError is not among the exceptions lookup turns into a miss:
\* run_compiler reports it and exits.
Opened(inode) == IF inode = None THEN "failed" ELSE "head"

LookupOpen(c) ==
  /\ pc[c] = "open"
  /\ fd' = [fd EXCEPT ![c] = name[key[c]]]
  /\ Goto(c, Opened(name[key[c]]))
  /\ UNCHANGED <<document, source, parsed, key, head, meta, cache, torn, killed, raced>>

\* Fault: a truncated pickle raises out of lookup.
DamageUncaught == "failed"

\* EOFError and UnpicklingError are caught.
Damage == "unlink"

\* The file is closed when the with statement is left, however it is left.
Close(c) ==
  /\ fd' = [fd EXCEPT ![c] = None]
  /\ head' = [head EXCEPT ![c] = Unknown]
  /\ content' = Freed(content, name, fd')

\* A file that starts with nothing or with a hole is no pickle.
LoadHead(c) ==
  LET blocks == content[fd[c]]
  IN  /\ pc[c] = "head"
      /\ IF Len(blocks) >= 1 /\ blocks[1] # Hole
         THEN head' = [head EXCEPT ![c] = blocks[1]] /\ Goto(c, "tail") /\ UNCHANGED <<fd, content>>
         ELSE Close(c) /\ Goto(c, Damage)
      /\ UNCHANGED <<document, source, parsed, key, meta, name, torn, killed, raced>>

\* The hit branch rebuilds the metadata from the entry, which has neither the
\* photolysis list nor the flux vector nor the equilibrium results.
HitResult(of) == [of |-> of, complete |-> FALSE]

Hit(c, of) == meta' = [meta EXCEPT ![c] = HitResult(of)] /\ Goto(c, "generated")

LoadTail(c) ==
  LET blocks == content[fd[c]]
      whole  == Len(blocks) >= 2 /\ blocks[2] = [part |-> "tail", of |-> head[c].of]
  IN  /\ pc[c] = "tail"
      /\ Close(c)
      /\ \/ whole /\ Hit(c, head[c].of)
         \/ ~whole /\ Goto(c, Damage) /\ UNCHANGED meta
         \/ \* Blocks of two pickles: an error lookup does not catch, or an
            \* entry nobody stored.
            /\ ~whole /\ Len(blocks) >= 2
            /\ (Goto(c, "failed") /\ UNCHANGED meta) \/ Hit(c, Unknown)
      /\ UNCHANGED <<document, source, parsed, key, name, torn, killed, raced>>

\* path.unlink(missing_ok=True), whichever file has the name by now.
Unlink(c) ==
  /\ pc[c] = "unlink"
  /\ name' = [name EXCEPT ![key[c]] = None]
  /\ content' = Freed(content, name', fd)
  /\ raced' = [d \in Compilers |-> raced[d] \/ (pc[d] = "open" /\ key[d] = key[c])]
  /\ Goto(c, "lower")
  /\ UNCHANGED <<document, source, parsed, key, fd, head, meta, torn, killed>>

------------------------------------------------------------------------------
\* CacheManager.store

\* open(path, "wb") truncates the file the name has, or makes one.
StoreOpen(c) ==
  /\ pc[c] = "store"
  /\ \E i \in Inodes :
       /\ IF name[key[c]] = None
          THEN \A k \in Keys, d \in Compilers : i # name[k] /\ i # fd[d]
          ELSE i = name[key[c]]
       /\ name' = [name EXCEPT ![key[c]] = i]
       /\ fd' = [fd EXCEPT ![c] = i]
       /\ content' = [content EXCEPT ![i] = <<>>]
  /\ Goto(c, "dump_head")
  /\ UNCHANGED <<document, source, parsed, key, head, meta, torn, killed, raced>>

\* Fault: the file is opened for appending.
WrittenAtEnd(blocks, at, block) == Append(blocks, block)

\* Each writer has its own offset; the bytes it skips read as zeros.
Written(blocks, at, block) ==
  [n \in 1..(IF Len(blocks) > at THEN Len(blocks) ELSE at) |->
     IF n = at THEN block ELSE IF n <= Len(blocks) THEN blocks[n] ELSE Hole]

DumpHead(c) ==
  /\ pc[c] = "dump_head"
  /\ content' = [content EXCEPT ![fd[c]] = Written(@, 1, [part |-> "head", of |-> meta[c].of])]
  /\ Goto(c, "dump_tail")
  /\ UNCHANGED <<document, source, parsed, key, fd, head, meta, name, torn, killed, raced>>

DumpTail(c) ==
  /\ pc[c] = "dump_tail"
  /\ fd' = [fd EXCEPT ![c] = None]
  /\ LET blocks == Written(content[fd[c]], 2, [part |-> "tail", of |-> meta[c].of])
     IN  content' = Freed([content EXCEPT ![fd[c]] = blocks], name, fd')
  /\ Goto(c, "generated")
  /\ UNCHANGED <<document, source, parsed, key, head, meta, name, torn, killed, raced>>

Compile(c) ==
  \/ Parse(c) \/ ComputeKey(c) \/ Lower(c) \/ Exit(c)
  \/ LookupExists(c) \/ LookupOpen(c) \/ LoadHead(c) \/ LoadTail(c) \/ Unlink(c)
  \/ StoreOpen(c) \/ DumpHead(c) \/ DumpTail(c)

Next ==
  \/ EditDocument
  \/ EditCompiler
  \/ \E c \in Compilers : Compile(c) \/ Die(c)

Spec == Init /\ [][Next]_vars

------------------------------------------------------------------------------
\* A key stands for one lowering: no edit ever fell between a parse and its
\* hash, and nothing the hash leaves out has changed.
KeysIdentify == ~torn /\ source.unhashed = 0

\* Code is generated from a lowering of the very document that was parsed, by
\* the lowering code that was loaded, whoever else stores, unlinks, dies or
\* edits, as long as keys stand for one lowering.
ServedOwnLowering ==
  \A c \in Compilers : pc[c] = "generated" /\ KeysIdentify => meta[c].of = parsed[c]

\* A compile is not brought down by what it finds in the cache (lookup:
\* "handle corruption gracefully"), unless another one unlinks the file between
\* its two looks at the name.
FailsOnlyWhenRaced ==
  \A c \in Compilers : pc[c] = "failed" /\ KeysIdentify => raced[c]

Storing(c) == pc[c] \in {"dump_head", "dump_tail"}
Whole(blocks) ==
  \E l \in Lowerings :
    /\ Len(blocks) >= 2
    /\ blocks[1] = [part |-> "head", of |-> l]
    /\ blocks[2] = [part |-> "tail", of |-> l]

\* Stores that overlap do not damage an entry for good: when nobody stores and
\* nobody has died doing so, every entry can be loaded.  Two writers leave the
\* bytes of both, which agree when dumps of one lowering do.
QuietCacheIsWhole ==
  KeysIdentify /\ ~killed /\ (\A c \in Compilers : ~Storing(c)) =>
    \A k \in Keys : name[k] # None => Whole(content[name[k]])

\* "any change to the compiler invalidates cached symbolic results"
\* (compute_key).
CompilerChangeInvalidates ==
  \A c \in Compilers : pc[c] = "generated" /\ ~torn /\ meta[c].of # Unknown =>
    meta[c].of.code = parsed[c].code

\* An entry "stores all expensive lowering results for a given input"
\* (CacheEntry): a hit generates code from what a miss does.
HitCarriesAllResults ==
  \A c \in Compilers : pc[c] = "generated" => meta[c].complete
==============================================================================

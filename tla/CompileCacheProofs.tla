------------------------- MODULE CompileCacheProofs -------------------------
(***************************************************************************)
(* For any number of compilers, inodes and edits: what the cache serves    *)
(* belongs to the document that was parsed, a compile fails only in the    *)
(* race of exists with unlink, and stores that overlap leave whole files.  *)
(***************************************************************************)
EXTENDS CompileCache, TLAPS

Pickle == Seq(Blocks \union {Hole})

\* A file belongs to one key: whoever has it open works on its name's key.
KeysApart ==
  \A c \in Compilers : fd[c] # None =>
    /\ \A k \in Keys : name[k] = fd[c] => k = key[c]
    /\ \A d \in Compilers : fd[d] = fd[c] => key[d] = key[c]

\* What a compiler is about to store, or has read, between two steps.
InHand ==
  \A c \in Compilers :
    /\ pc[c] \in {"store", "dump_head", "dump_tail"} => meta[c].of = parsed[c]
    /\ pc[c] = "tail" => head[c] \in Blocks

\* A name seen by exists is gone before open only if another one took it.
GoneWhenRaced ==
  \A c \in Compilers : pc[c] = "open" /\ name[key[c]] = None => raced[c]

\* The lowering a key stands for, as long as it stands for one.
LoweringOf(k) ==
  [document |-> k.document, code |-> [hashed |-> k.hashed, unhashed |-> 0]]
HeadOf(k) == [part |-> "head", of |-> LoweringOf(k)]
TailOf(k) == [part |-> "tail", of |-> LoweringOf(k)]

\* A file of key k, damaged or not, holds nothing but blocks of its lowering.
Belongs(blocks, k) ==
  /\ Len(blocks) <= 2
  /\ Len(blocks) >= 1 => blocks[1] \in {Hole, HeadOf(k)}
  /\ Len(blocks) = 2 => blocks[2] = TailOf(k)

\* Everything a compiler holds is of its key's lowering.
Tied ==
  \A c \in Compilers :
    /\ parsed[c].code.unhashed = 0
    /\ pc[c] \notin {"idle", "hash"} => parsed[c] = LoweringOf(key[c])
    /\ pc[c] = "tail" => head[c] = HeadOf(key[c])
    /\ pc[c] = "generated" => meta[c].of = parsed[c]
    /\ pc[c] = "failed" => raced[c]

FilesBelong ==
  /\ \A c \in Compilers : fd[c] # None => Belongs(content[fd[c]], key[c])
  /\ \A k \in Keys : name[k] # None => Belongs(content[name[k]], k)

Headless(blocks) == Len(blocks) = 0 \/ blocks[1] = Hole

\* What a named file lacks, somebody is about to write.
BeingStored ==
  \A k \in Keys : name[k] # None =>
    /\ Headless(content[name[k]]) =>
         \E c \in Compilers : fd[c] = name[k] /\ pc[c] = "dump_head"
    /\ Len(content[name[k]]) < 2 =>
         \E c \in Compilers : fd[c] = name[k] /\ Storing(c)

\* The inductive invariant.  Its last two parts are about keys that stand for
\* one lowering, and about stores nobody died in.
IInv ==
  /\ TypeOK
  /\ KeysApart
  /\ InHand
  /\ GoneWhenRaced
  /\ KeysIdentify => Tied /\ FilesBelong
  /\ ~killed => BeingStored

------------------------------------------------------------------------------
\* Records and files.

LEMMA Constant ==
  /\ NoLowering \in Lowerings /\ NoKey \in Keys /\ NoResult \in Results
  /\ 0 \in Versions
BY BoundAssumption DEF NoLowering, NoKey, NoResult, Lowerings, Code, Keys, Results, Versions

\* The parts of a key determine the lowering.
LEMMA SameLowering ==
  ASSUME NEW l \in Lowerings, NEW k \in Keys,
         l.document = k.document, l.code.hashed = k.hashed, l.code.unhashed = 0
  PROVE  l = LoweringOf(k)
<1>1. l.code = [hashed |-> k.hashed, unhashed |-> 0]
  BY DEF Lowerings, Code
<1> QED
  BY <1>1 DEF Lowerings, LoweringOf

\* A write makes the file as long as its end, and fills a gap with a hole.
LEMMA WriteResult ==
  ASSUME NEW blocks \in Pickle, NEW at \in {1, 2}, NEW block \in Blocks
  PROVE  LET new == Written(blocks, at, block)
         IN  /\ new \in Pickle
             /\ Len(new) = IF Len(blocks) > at THEN Len(blocks) ELSE at
             /\ new[at] = block
             /\ \A n \in 1..Len(new) : n # at =>
                  new[n] = IF n <= Len(blocks) THEN blocks[n] ELSE Hole
<1> DEFINE m == IF Len(blocks) > at THEN Len(blocks) ELSE at
           new == Written(blocks, at, block)
<1>1. m \in Nat /\ at \in 1..m
  BY DEF Pickle
<1>2. new = [n \in 1..m |->
               IF n = at THEN block ELSE IF n <= Len(blocks) THEN blocks[n] ELSE Hole]
  BY DEF Written
<1>3. \A n \in 1..m : new[n] \in Blocks \union {Hole}
  <2> TAKE n \in 1..m
  <2>1. CASE n = at
    BY <2>1, <1>2
  <2>2. CASE n # at /\ n <= Len(blocks)
    <3>1. blocks[n] \in Blocks \union {Hole}
      BY <2>2 DEF Pickle
    <3> QED
      BY <3>1, <2>2, <1>2
  <2>3. CASE n # at /\ ~(n <= Len(blocks))
    BY <2>3, <1>2
  <2> QED
    BY <2>1, <2>2, <2>3
<1> HIDE DEF new, m
<1>4. new \in Pickle /\ Len(new) = m
  BY <1>1, <1>2, <1>3 DEF Pickle
<1>5. /\ new[at] = block
      /\ \A n \in 1..m : n # at =>
           new[n] = IF n <= Len(blocks) THEN blocks[n] ELSE Hole
  BY <1>1, <1>2
<1> QED
  BY <1>4, <1>5 DEF new, m

LEMMA HeadWritten ==
  ASSUME NEW blocks \in Pickle, NEW block \in Blocks
  PROVE  /\ Len(Written(blocks, 1, block)) >= 1
         /\ Written(blocks, 1, block)[1] = block
<1>1. Len(blocks) \in Nat
  BY DEF Pickle
<1>2. /\ Len(Written(blocks, 1, block)) = IF Len(blocks) > 1 THEN Len(blocks) ELSE 1
      /\ Written(blocks, 1, block)[1] = block
  BY WriteResult
<1> QED
  BY <1>1, <1>2

LEMMA TailWritten ==
  ASSUME NEW blocks \in Pickle, NEW block \in Blocks
  PROVE  /\ Written(blocks, 2, block) \in Pickle
         /\ Len(Written(blocks, 2, block)) >= 2
         /\ Written(blocks, 2, block)[1] = IF 1 <= Len(blocks) THEN blocks[1] ELSE Hole
<1> DEFINE new == Written(blocks, 2, block)
<1>1. Len(blocks) \in Nat
  BY DEF Pickle
<1>2. /\ new \in Pickle
      /\ Len(new) = IF Len(blocks) > 2 THEN Len(blocks) ELSE 2
      /\ \A n \in 1..Len(new) : n # 2 =>
           new[n] = IF n <= Len(blocks) THEN blocks[n] ELSE Hole
  BY WriteResult
<1> HIDE DEF new
<1>3. Len(new) >= 2 /\ 1 \in 1..Len(new)
  BY <1>1, <1>2
<1>4. new[1] = IF 1 <= Len(blocks) THEN blocks[1] ELSE Hole
  BY <1>2, <1>3
<1> QED
  BY <1>2, <1>3, <1>4 DEF new

\* A file with a name or a reader is kept, any other is kept or emptied.
LEMMA FreedFiles ==
  ASSUME NEW blocks \in [Inodes -> Pickle], NEW names, NEW open, NEW self \in Compilers
  PROVE  /\ Freed(blocks, names, open) \in [Inodes -> Pickle]
         /\ \A k \in Keys : names[k] \in Inodes =>
              Freed(blocks, names, open)[names[k]] = blocks[names[k]]
         /\ \A c \in Compilers : open[c] \in Inodes =>
              Freed(blocks, names, open)[open[c]] = blocks[open[c]]
<1>1. <<>> \in Pickle
  BY DEF Pickle
<1>2. \A i \in Inodes :
        Freed(blocks, names, open)[i] =
          IF \E k \in Keys, c \in Compilers : i \in {names[k], open[c]}
          THEN blocks[i] ELSE <<>>
  BY DEF Freed
<1>3. Freed(blocks, names, open) \in [Inodes -> Pickle]
  BY <1>1 DEF Freed
<1>4. ASSUME NEW k \in Keys, names[k] \in Inodes
      PROVE  Freed(blocks, names, open)[names[k]] = blocks[names[k]]
  BY <1>2, <1>4
<1>5. ASSUME NEW c \in Compilers, open[c] \in Inodes
      PROVE  Freed(blocks, names, open)[open[c]] = blocks[open[c]]
  BY <1>2, <1>5, Constant
<1> QED
  BY <1>3, <1>4, <1>5

------------------------------------------------------------------------------
\* One action at a time.

LEMMA InitInv == Init => IInv
<1> SUFFICES ASSUME Init
             PROVE  IInv
  OBVIOUS
<1>1. TypeOK
  <2>1. [hashed |-> 0, unhashed |-> 0] \in Code
    BY BoundAssumption DEF Code, Versions
  <2>2. <<>> \in Seq(Blocks \union {Hole})
    OBVIOUS
  <2> QED
    BY <2>1, <2>2, Constant DEF Init, TypeOK
<1>2. NoLowering.code.unhashed = 0
  BY DEF NoLowering
<1>3. Tied /\ FilesBelong
  BY <1>2, Constant DEF Init, Tied, FilesBelong
<1> QED
  BY <1>1, <1>3 DEF Init, IInv, KeysApart, InHand, GoneWhenRaced, BeingStored

\* A process that is gone has nothing, and the files of the others stay.
LEMMA ForgetType ==
  ASSUME TypeOK, NEW c \in Compilers, Forget(c), UNCHANGED <<document, source, name, torn>>,
         killed' \in BOOLEAN
  PROVE  TypeOK'
<1>1. content' \in [Inodes -> Seq(Blocks \union {Hole})]
  BY FreedFiles DEF TypeOK, Forget, Pickle
<1>2. /\ pc' \in [Compilers -> {"idle", "hash", "exists", "open", "head", "tail", "unlink",
                           "lower", "store", "dump_head", "dump_tail", "generated", "failed"}]
      /\ fd' \in [Compilers -> Inodes \union {None}]
      /\ \A d \in Compilers :
           pc'[d] \in {"head", "tail", "dump_head", "dump_tail"} <=> fd'[d] # None
  BY DEF TypeOK, Forget, Goto
<1>3. /\ parsed' \in [Compilers -> Lowerings]
      /\ key' \in [Compilers -> Keys]
      /\ head' \in [Compilers -> Blocks \union {Unknown}]
      /\ meta' \in [Compilers -> Results]
      /\ raced' \in [Compilers -> BOOLEAN]
  BY Constant DEF TypeOK, Forget
<1> QED
  BY <1>1, <1>2, <1>3 DEF TypeOK

LEMMA TypeStep == IInv /\ Next => TypeOK'
<1> SUFFICES ASSUME IInv, Next
             PROVE  TypeOK'
  OBVIOUS
<1>0. TypeOK
  BY DEF IInv
<1>1. CASE EditDocument
  <2>1. document' \in Versions
    BY <1>0, <1>1, BoundAssumption DEF EditDocument, MayEdit, TypeOK, Code, Versions
  <2> QED
    BY <1>0, <1>1, <2>1 DEF EditDocument, TypeOK, local, cache
<1>2. CASE EditCompiler
  <2>1. source' \in Code
    BY <1>0, <1>2, BoundAssumption DEF EditCompiler, MayEdit, TypeOK, Code, Versions
  <2> QED
    BY <1>0, <1>2, <2>1 DEF EditCompiler, TypeOK, local, cache
<1>3. ASSUME NEW c \in Compilers, Compile(c) \/ Die(c)
      PROVE  TypeOK'
  <2>1. CASE Parse(c)
    <3>1. [document |-> document, code |-> source] \in Lowerings
      BY <1>0 DEF TypeOK, Lowerings
    <3> QED
      BY <1>0, <2>1, <3>1 DEF Parse, Goto, TypeOK, cache
  <2>2. CASE ComputeKey(c)
    <3>1. KeyOf(document, source) \in Keys
      BY <1>0 DEF TypeOK, KeyOf, Keys, Code
    <3>2. torn' \in BOOLEAN
      BY <1>0, <2>2 DEF TypeOK, ComputeKey
    <3> QED
      BY <1>0, <2>2, <3>1, <3>2 DEF ComputeKey, Goto, TypeOK, cache
  <2>3. CASE Lower(c)
    <3>1. [of |-> parsed[c], complete |-> TRUE] \in Results
      BY <1>0 DEF TypeOK, Results
    <3> QED
      BY <1>0, <2>3, <3>1 DEF Lower, Goto, TypeOK, cache
  <2>4. CASE Exit(c)
    BY <1>0, <2>4, ForgetType DEF Exit, TypeOK
  <2>5. CASE LookupExists(c)
    BY <1>0, <2>5 DEF LookupExists, Goto, TypeOK, cache
  <2>6. CASE LookupOpen(c)
    BY <1>0, <2>6 DEF LookupOpen, Opened, Goto, TypeOK, cache
  <2>7. CASE LoadHead(c)
    <3>1. CASE Close(c) /\ Goto(c, Damage)
      <4>1. content' \in [Inodes -> Seq(Blocks \union {Hole})]
        BY <1>0, <3>1, FreedFiles DEF TypeOK, Close, Pickle
      <4> QED
        BY <1>0, <2>7, <3>1, <4>1 DEF LoadHead, Close, Goto, Damage, TypeOK
    <3>2. CASE /\ Len(content[fd[c]]) >= 1 /\ content[fd[c]][1] # Hole
               /\ head' = [head EXCEPT ![c] = content[fd[c]][1]] /\ Goto(c, "tail")
               /\ UNCHANGED <<fd, content>>
      <4>1. content[fd[c]] \in Seq(Blocks \union {Hole})
        BY <1>0, <2>7 DEF LoadHead, TypeOK
      <4>2. content[fd[c]][1] \in Blocks
        BY <4>1, <3>2
      <4> QED
        BY <1>0, <2>7, <3>2, <4>2 DEF LoadHead, Goto, TypeOK
    <3> QED
      BY <2>7, <3>1, <3>2 DEF LoadHead
  <2>8. CASE LoadTail(c)
    <3>1. content' \in [Inodes -> Seq(Blocks \union {Hole})]
      BY <1>0, <2>8, FreedFiles DEF LoadTail, Close, TypeOK, Pickle
    <3>2. head[c] \in Blocks
      BY <2>8 DEF IInv, InHand, LoadTail
    <3>3. HitResult(head[c].of) \in Results /\ HitResult(Unknown) \in Results
      BY <3>2 DEF HitResult, Results, Blocks
    <3>4. /\ meta' \in [Compilers -> Results]
          /\ \/ Goto(c, "generated") \/ Goto(c, "unlink") \/ Goto(c, "failed")
      BY <1>0, <2>8, <3>3 DEF LoadTail, Hit, Damage, TypeOK
    <3>5. /\ pc' \in [Compilers -> {"idle", "hash", "exists", "open", "head", "tail", "unlink",
                           "lower", "store", "dump_head", "dump_tail", "generated", "failed"}]
          /\ fd' \in [Compilers -> Inodes \union {None}]
          /\ head' \in [Compilers -> Blocks \union {Unknown}]
          /\ \A d \in Compilers :
               pc'[d] \in {"head", "tail", "dump_head", "dump_tail"} <=> fd'[d] # None
      BY <1>0, <2>8, <3>4 DEF LoadTail, Close, Goto, TypeOK
    <3> QED
      BY <1>0, <2>8, <3>1, <3>4, <3>5 DEF LoadTail, TypeOK
  <2>9. CASE Unlink(c)
    <3>1. content' \in [Inodes -> Seq(Blocks \union {Hole})]
      BY <1>0, <2>9, FreedFiles DEF Unlink, TypeOK, Pickle
    <3>2. raced' \in [Compilers -> BOOLEAN]
      BY <1>0, <2>9 DEF Unlink, TypeOK
    <3> QED
      BY <1>0, <2>9, <3>1, <3>2 DEF Unlink, Goto, TypeOK
  <2>10. CASE StoreOpen(c)
    <3>1. content' \in [Inodes -> Seq(Blocks \union {Hole})]
      BY <1>0, <2>10 DEF StoreOpen, TypeOK
    <3>2. \A k1, k2 \in Keys : name'[k1] = name'[k2] /\ name'[k1] # None => k1 = k2
      BY <1>0, <2>10 DEF StoreOpen, TypeOK
    <3> QED
      BY <1>0, <2>10, <3>1, <3>2, InodesAssumption DEF StoreOpen, Goto, TypeOK
  <2>11. CASE DumpHead(c)
    <3> DEFINE block == [part |-> "head", of |-> meta[c].of]
    <3>1. block \in Blocks
      BY <1>0, <2>11 DEF IInv, InHand, DumpHead, TypeOK, Blocks
    <3>2. content[fd[c]] \in Pickle /\ fd[c] \in Inodes
      BY <1>0, <2>11 DEF DumpHead, TypeOK, Pickle
    <3>3. Written(content[fd[c]], 1, block) \in Pickle
      BY <3>1, <3>2, WriteResult
    <3>4. content' \in [Inodes -> Seq(Blocks \union {Hole})]
      BY <1>0, <2>11, <3>3 DEF DumpHead, TypeOK, Pickle
    <3> QED
      BY <1>0, <2>11, <3>4 DEF DumpHead, Goto, TypeOK
  <2>12. CASE DumpTail(c)
    <3> DEFINE block == [part |-> "tail", of |-> meta[c].of]
               blocks == Written(content[fd[c]], 2, block)
    <3>1. block \in Blocks
      BY <1>0, <2>12 DEF IInv, InHand, DumpTail, TypeOK, Blocks
    <3>2. content[fd[c]] \in Pickle /\ fd[c] \in Inodes
      BY <1>0, <2>12 DEF DumpTail, TypeOK, Pickle
    <3>3. blocks \in Pickle
      BY <3>1, <3>2, WriteResult
    <3> HIDE DEF blocks
    <3>4. [content EXCEPT ![fd[c]] = blocks] \in [Inodes -> Pickle]
      BY <1>0, <3>3 DEF TypeOK, Pickle
    <3>5. content' \in [Inodes -> Seq(Blocks \union {Hole})]
      BY <2>12, <3>4, FreedFiles DEF DumpTail, blocks, Pickle
    <3> QED
      BY <1>0, <2>12, <3>5 DEF DumpTail, Goto, TypeOK
  <2>13. CASE Die(c)
    BY <1>0, <2>13, ForgetType DEF Die, TypeOK
  <2> QED
    BY <1>3, <2>1, <2>2, <2>3, <2>4, <2>5, <2>6, <2>7, <2>8, <2>9, <2>10, <2>11, <2>12, <2>13
       DEF Compile
<1> QED
  BY <1>1, <1>2, <1>3 DEF Next

LEMMA ApartStep == IInv /\ Next => KeysApart'
<1> SUFFICES ASSUME IInv, Next
             PROVE  KeysApart'
  OBVIOUS
<1>0. TypeOK /\ KeysApart
  BY DEF IInv
<1>1. CASE EditDocument \/ EditCompiler
  BY <1>0, <1>1 DEF EditDocument, EditCompiler, KeysApart, local, cache
<1>2. ASSUME NEW c \in Compilers, Compile(c) \/ Die(c)
      PROVE  KeysApart'
  <2>1. CASE Exit(c) \/ Die(c)
    BY <1>0, <2>1 DEF Exit, Die, Forget, KeysApart, TypeOK
  <2>2. CASE ComputeKey(c)
    <3>1. fd[c] = None
      BY <1>0, <2>2 DEF ComputeKey, TypeOK
    <3> QED
      BY <1>0, <2>2, <3>1 DEF ComputeKey, KeysApart, TypeOK, cache
  <2>3. CASE LookupOpen(c)
    <3>1. key[c] \in Keys
      BY <1>0 DEF TypeOK
    <3>2. \A d \in Compilers : fd[d] = name[key[c]] /\ fd[d] # None => key[d] = key[c]
      BY <1>0, <3>1 DEF KeysApart
    <3>3. \A k \in Keys : name[k] = name[key[c]] /\ name[k] # None => k = key[c]
      BY <1>0, <3>1 DEF TypeOK
    <3> QED
      BY <1>0, <2>3, <3>2, <3>3 DEF LookupOpen, KeysApart, TypeOK, cache
  <2>4. CASE Unlink(c)
    BY <1>0, <2>4 DEF Unlink, KeysApart, TypeOK
  <2>5. CASE StoreOpen(c)
    <3>1. key[c] \in Keys
      BY <1>0 DEF TypeOK
    <3>2. PICK i \in Inodes :
            /\ IF name[key[c]] = None
               THEN \A k \in Keys, d \in Compilers : i # name[k] /\ i # fd[d]
               ELSE i = name[key[c]]
            /\ name' = [name EXCEPT ![key[c]] = i]
            /\ fd' = [fd EXCEPT ![c] = i]
      BY <2>5 DEF StoreOpen
    <3>3. \A d \in Compilers : fd[d] = i => key[d] = key[c]
      BY <1>0, <3>1, <3>2, InodesAssumption DEF KeysApart
    <3>4. \A k \in Keys : name[k] = i => k = key[c]
      BY <1>0, <3>1, <3>2, InodesAssumption DEF TypeOK
    <3>5. key' = key
      BY <2>5 DEF StoreOpen
    <3> QED
      BY <1>0, <3>1, <3>2, <3>3, <3>4, <3>5 DEF KeysApart, TypeOK
  <2>6. CASE LoadHead(c) \/ LoadTail(c) \/ DumpTail(c)
    <3>1. key' = key /\ name' = name /\ (fd' = fd \/ fd' = [fd EXCEPT ![c] = None])
      BY <2>6 DEF LoadHead, LoadTail, DumpTail, Close
    <3> QED
      BY <1>0, <3>1 DEF KeysApart, TypeOK
  <2>7. CASE Parse(c) \/ Lower(c) \/ LookupExists(c) \/ DumpHead(c)
    BY <1>0, <2>7 DEF Parse, Lower, LookupExists, DumpHead, KeysApart, cache
  <2> QED
    BY <1>2, <2>1, <2>2, <2>3, <2>4, <2>5, <2>6, <2>7 DEF Compile
<1> QED
  BY <1>1, <1>2 DEF Next

LEMMA HandStep == IInv /\ Next => InHand'
<1> SUFFICES ASSUME IInv, Next
             PROVE  InHand'
  OBVIOUS
<1>0. TypeOK /\ InHand
  BY DEF IInv
<1>1. CASE EditDocument \/ EditCompiler
  BY <1>0, <1>1 DEF EditDocument, EditCompiler, InHand, local
<1>2. ASSUME NEW c \in Compilers, Compile(c) \/ Die(c)
      PROVE  InHand'
  <2>1. CASE Exit(c) \/ Die(c)
    BY <1>0, <2>1 DEF Exit, Die, Forget, Goto, InHand, TypeOK
  <2>2. CASE Lower(c)
    BY <1>0, <2>2 DEF Lower, Goto, InHand, TypeOK
  <2>3. CASE Parse(c) \/ ComputeKey(c) \/ LookupExists(c) \/ LookupOpen(c) \/ Unlink(c)
    BY <1>0, <2>3
       DEF Parse, ComputeKey, LookupExists, LookupOpen, Opened, Unlink, Goto, InHand, TypeOK
  <2>4. CASE LoadHead(c)
    <3>1. content[fd[c]] \in Seq(Blocks \union {Hole})
      BY <1>0, <2>4 DEF LoadHead, TypeOK
    <3>2. /\ parsed' = parsed /\ meta' = meta
          /\ \/ Goto(c, "unlink") /\ head' = [head EXCEPT ![c] = Unknown]
             \/ Goto(c, "tail") /\ head' = [head EXCEPT ![c] = content[fd[c]][1]]
                /\ content[fd[c]][1] \in Blocks
      BY <2>4, <3>1 DEF LoadHead, Close, Damage
    <3> QED
      BY <1>0, <3>2 DEF Goto, InHand, TypeOK
  <2>5. CASE LoadTail(c)
    <3>1. /\ parsed' = parsed
          /\ \/ meta' = meta \/ \E m : meta' = [meta EXCEPT ![c] = m]
          /\ \/ Goto(c, "generated") \/ Goto(c, "unlink") \/ Goto(c, "failed")
          /\ head' = [head EXCEPT ![c] = Unknown]
      BY <2>5 DEF LoadTail, Hit, Damage, Close
    <3> QED
      BY <1>0, <3>1 DEF Goto, InHand, TypeOK
  <2>6. CASE StoreOpen(c) \/ DumpHead(c) \/ DumpTail(c)
    BY <1>0, <2>6 DEF StoreOpen, DumpHead, DumpTail, Goto, InHand, TypeOK
  <2> QED
    BY <1>2, <2>1, <2>2, <2>3, <2>4, <2>5, <2>6 DEF Compile
<1> QED
  BY <1>1, <1>2 DEF Next

LEMMA RacedStep == IInv /\ Next => GoneWhenRaced'
<1> SUFFICES ASSUME IInv, Next
             PROVE  GoneWhenRaced'
  OBVIOUS
<1>0. TypeOK /\ GoneWhenRaced
  BY DEF IInv
<1>1. CASE EditDocument \/ EditCompiler
  BY <1>0, <1>1 DEF EditDocument, EditCompiler, GoneWhenRaced, local, cache
<1>2. ASSUME NEW c \in Compilers, Compile(c) \/ Die(c)
      PROVE  GoneWhenRaced'
  <2>1. CASE Exit(c) \/ Die(c)
    BY <1>0, <2>1 DEF Exit, Die, Forget, Goto, GoneWhenRaced, TypeOK
  <2>2. CASE Unlink(c)
    BY <1>0, <2>2 DEF Unlink, Goto, GoneWhenRaced, TypeOK
  <2>3. CASE StoreOpen(c)
    BY <1>0, <2>3, InodesAssumption DEF StoreOpen, Goto, GoneWhenRaced, TypeOK
  <2>4. CASE ComputeKey(c)
    BY <1>0, <2>4 DEF ComputeKey, Goto, GoneWhenRaced, TypeOK, cache
  <2>5. CASE LookupExists(c)
    BY <1>0, <2>5 DEF LookupExists, Goto, GoneWhenRaced, TypeOK, cache
  <2>6. CASE LoadHead(c) \/ LoadTail(c)
    <3>1. /\ key' = key /\ name' = name /\ raced' = raced
          /\ \E label : label # "open" /\ Goto(c, label)
      BY <2>6 DEF LoadHead, LoadTail, Hit, Damage
    <3> QED
      BY <1>0, <3>1 DEF Goto, GoneWhenRaced, TypeOK
  <2>7. CASE Parse(c) \/ Lower(c) \/ LookupOpen(c) \/ DumpHead(c) \/ DumpTail(c)
    BY <1>0, <2>7
       DEF Parse, Lower, LookupOpen, Opened, DumpHead, DumpTail, Goto, GoneWhenRaced, TypeOK, cache
  <2> QED
    BY <1>2, <2>1, <2>2, <2>3, <2>4, <2>5, <2>6, <2>7 DEF Compile
<1> QED
  BY <1>1, <1>2 DEF Next

\* Edits and torn hashes are never undone.
LEMMA IdentityIsLost ==
  ASSUME TypeOK, Next, KeysIdentify'
  PROVE  KeysIdentify
<1>1. torn => torn'
  BY DEF Next, Compile, EditDocument, EditCompiler, Parse, ComputeKey, Lower, Exit, Die,
         LookupExists, LookupOpen, LoadHead, LoadTail, Unlink, StoreOpen, DumpHead, DumpTail
<1>2. source'.unhashed = 0 => source.unhashed = 0
  <2>1. CASE EditCompiler
    BY <2>1 DEF EditCompiler, TypeOK, Code, Versions
  <2>2. CASE source' = source
    BY <2>2
  <2> QED
    BY <2>1, <2>2
       DEF Next, Compile, EditDocument, Parse, ComputeKey, Lower, Exit, Die,
           LookupExists, LookupOpen, LoadHead, LoadTail, Unlink, StoreOpen, DumpHead, DumpTail
<1> QED
  BY <1>1, <1>2 DEF KeysIdentify

LEMMA WrittenBelongs ==
  ASSUME NEW blocks \in Pickle, NEW k \in Keys, Belongs(blocks, k)
  PROVE  /\ Belongs(Written(blocks, 1, HeadOf(k)), k)
         /\ Belongs(Written(blocks, 2, TailOf(k)), k)
<1>1. HeadOf(k) \in Blocks /\ TailOf(k) \in Blocks
  BY BoundAssumption DEF HeadOf, TailOf, LoweringOf, Blocks, Lowerings, Keys, Code, Versions
<1>2. Len(blocks) \in Nat
  BY DEF Pickle
<1>3. Belongs(Written(blocks, 1, HeadOf(k)), k)
  <2> DEFINE new == Written(blocks, 1, HeadOf(k))
  <2>1. /\ Len(new) = IF Len(blocks) > 1 THEN Len(blocks) ELSE 1
        /\ new[1] = HeadOf(k)
        /\ \A n \in 1..Len(new) : n # 1 =>
             new[n] = IF n <= Len(blocks) THEN blocks[n] ELSE Hole
    BY <1>1, WriteResult
  <2> HIDE DEF new
  <2>2. Len(new) = 2 => new[2] = blocks[2] /\ Len(blocks) = 2
    BY <1>2, <2>1
  <2>3. Belongs(new, k)
    BY <1>2, <2>1, <2>2 DEF Belongs
  <2> QED
    BY <2>3 DEF new
<1>4. Belongs(Written(blocks, 2, TailOf(k)), k)
  <2> DEFINE new == Written(blocks, 2, TailOf(k))
  <2>1. /\ Len(new) = IF Len(blocks) > 2 THEN Len(blocks) ELSE 2
        /\ new[2] = TailOf(k)
        /\ \A n \in 1..Len(new) : n # 2 =>
             new[n] = IF n <= Len(blocks) THEN blocks[n] ELSE Hole
    BY <1>1, WriteResult
  <2> HIDE DEF new
  <2>2. Len(new) = 2
    BY <1>2, <2>1 DEF Belongs
  <2>3. new[1] = IF 1 <= Len(blocks) THEN blocks[1] ELSE Hole
    BY <2>1, <2>2
  <2>4. Belongs(new, k)
    BY <1>2, <2>1, <2>2, <2>3 DEF Belongs
  <2> QED
    BY <2>4 DEF new
<1> QED
  BY <1>3, <1>4

LEMMA WholeFile ==
  ASSUME NEW blocks \in Pickle, NEW k, Belongs(blocks, k), ~(Len(blocks) < 2)
  PROVE  /\ Len(blocks) = 2 /\ blocks[2] = TailOf(k)
         /\ blocks[1] \in {Hole, HeadOf(k)}
<1>1. Len(blocks) \in Nat
  BY DEF Pickle
<1>2. /\ Len(blocks) <= 2
      /\ Len(blocks) >= 1 => blocks[1] \in {Hole, HeadOf(k)}
      /\ Len(blocks) = 2 => blocks[2] = TailOf(k)
  BY DEF Belongs
<1>3. Len(blocks) = 2 /\ Len(blocks) >= 1
  BY <1>1, <1>2
<1> QED
  BY <1>2, <1>3

\* A file left as it was, or emptied by nobody who uses it, still belongs.
LEMMA KeptBelongs ==
  ASSUME TypeOK, TypeOK', FilesBelong,
         \A c \in Compilers : fd'[c] # None =>
           fd'[c] = fd[c] /\ key'[c] = key[c] /\ content'[fd'[c]] = content[fd[c]],
         \A k \in Keys : name'[k] # None =>
           name'[k] = name[k] /\ content'[name'[k]] = content[name[k]]
  PROVE  FilesBelong'
BY DEF FilesBelong, Belongs

\* What a step that closes a file, or forgets a name, leaves of the others.
LEMMA FreeingKeeps ==
  ASSUME TypeOK, NEW c \in Compilers,
         fd' = fd \/ fd' = [fd EXCEPT ![c] = None],
         name' = name \/ name' = [name EXCEPT ![key[c]] = None],
         content' = Freed(content, name', fd')
  PROVE  /\ \A d \in Compilers : fd'[d] # None =>
              fd'[d] = fd[d] /\ content'[fd'[d]] = content[fd[d]]
         /\ \A k \in Keys : name'[k] # None =>
              name'[k] = name[k] /\ content'[name'[k]] = content[name[k]]
<1>1. content \in [Inodes -> Pickle]
  BY DEF TypeOK, Pickle
<1>2. \A d \in Compilers : fd'[d] # None => fd'[d] = fd[d] /\ fd[d] \in Inodes
  BY DEF TypeOK
<1>3. \A k \in Keys : name'[k] # None => name'[k] = name[k] /\ name[k] \in Inodes
  BY DEF TypeOK
<1> QED
  BY <1>1, <1>2, <1>3, FreedFiles

LEMMA FilesStep ==
  ASSUME IInv, Next, KeysIdentify, TypeOK'
  PROVE  FilesBelong'
<1>0. TypeOK /\ KeysApart /\ InHand /\ Tied /\ FilesBelong
  BY DEF IInv
<1>1. CASE EditDocument \/ EditCompiler
  BY <1>0, <1>1, KeptBelongs DEF EditDocument, EditCompiler, local, cache
<1>2. ASSUME NEW c \in Compilers, Compile(c) \/ Die(c)
      PROVE  FilesBelong'
  <2>1. CASE Exit(c) \/ Die(c)
    <3>1. /\ fd' = [fd EXCEPT ![c] = None] /\ name' = name
          /\ content' = Freed(content, name', fd')
          /\ \A d \in Compilers : d # c => key'[d] = key[d]
      BY <1>0, <2>1 DEF Exit, Die, Forget, TypeOK
    <3>2. fd'[c] = None
      BY <1>0, <3>1 DEF TypeOK
    <3> QED
      BY <1>0, <3>1, <3>2, FreeingKeeps, KeptBelongs
  <2>2. CASE LoadHead(c) \/ LoadTail(c) \/ Unlink(c)
    <3>1. CASE UNCHANGED <<fd, key, name, content>>
      BY <1>0, <3>1, KeptBelongs
    <3>2. CASE /\ key' = key
               /\ fd' = fd \/ fd' = [fd EXCEPT ![c] = None]
               /\ name' = name \/ name' = [name EXCEPT ![key[c]] = None]
               /\ content' = Freed(content, name', fd')
      BY <1>0, <3>2, FreeingKeeps, KeptBelongs
    <3> QED
      BY <2>2, <3>1, <3>2 DEF LoadHead, LoadTail, Unlink, Close
  <2>3. CASE ComputeKey(c)
    <3>1. fd[c] = None
      BY <1>0, <2>3 DEF ComputeKey, TypeOK
    <3>2. \A d \in Compilers : fd[d] # None => key'[d] = key[d]
      BY <1>0, <2>3, <3>1 DEF ComputeKey, TypeOK
    <3> QED
      BY <1>0, <2>3, <3>2, KeptBelongs DEF ComputeKey, cache
  <2>4. CASE Parse(c) \/ Lower(c) \/ LookupExists(c)
    BY <1>0, <2>4, KeptBelongs DEF Parse, Lower, LookupExists, cache
  <2>5. CASE LookupOpen(c)
    BY <1>0, <2>5 DEF LookupOpen, FilesBelong, TypeOK, cache
  <2>6. CASE StoreOpen(c)
    <3>1. PICK i \in Inodes :
            /\ name' = [name EXCEPT ![key[c]] = i]
            /\ fd' = [fd EXCEPT ![c] = i]
            /\ content' = [content EXCEPT ![i] = <<>>]
      BY <2>6 DEF StoreOpen
    <3>2. key' = key
      BY <2>6 DEF StoreOpen
    <3>3. Len(<<>>) = 0
      OBVIOUS
    <3>4. \A k : Belongs(<<>>, k)
      BY <3>3 DEF Belongs
    <3>5. /\ content'[i] = <<>>
          /\ \A j \in Inodes : j # i => content'[j] = content[j]
      BY <1>0, <3>1 DEF TypeOK
    <3>6. ASSUME NEW d \in Compilers, fd'[d] # None
          PROVE  Belongs(content'[fd'[d]], key'[d])
      <4>1. CASE fd'[d] = i
        BY <4>1, <3>4, <3>5
      <4>2. CASE fd'[d] # i
        BY <1>0, <4>2, <3>6, <3>1, <3>2, <3>5 DEF FilesBelong, TypeOK
      <4> QED
        BY <4>1, <4>2
    <3>7. ASSUME NEW k \in Keys, name'[k] # None
          PROVE  Belongs(content'[name'[k]], k)
      <4>1. CASE name'[k] = i
        BY <4>1, <3>4, <3>5
      <4>2. CASE name'[k] # i
        BY <1>0, <4>2, <3>7, <3>1, <3>2, <3>5 DEF FilesBelong, TypeOK
      <4> QED
        BY <4>1, <4>2
    <3> QED
      BY <3>6, <3>7 DEF FilesBelong
  <2>7. CASE DumpHead(c) \/ DumpTail(c)
    <3> DEFINE i == fd[c]
               k0 == key[c]
    <3>1. /\ i \in Inodes /\ i # None /\ k0 \in Keys /\ content[i] \in Pickle
          /\ meta[c].of = LoweringOf(k0)
          /\ Belongs(content[i], k0)
      <4>1. pc[c] \in {"dump_head", "dump_tail"}
        BY <2>7 DEF DumpHead, DumpTail
      <4>2. i \in Inodes /\ i # None /\ k0 \in Keys /\ content[i] \in Pickle
        BY <1>0, <4>1, InodesAssumption DEF TypeOK, Pickle
      <4>3. meta[c].of = LoweringOf(k0)
        BY <1>0, <4>1 DEF InHand, Tied
      <4> QED
        BY <1>0, <4>2, <4>3 DEF FilesBelong
    <3>2. \E new : /\ Belongs(new, k0)
                   /\ \/ DumpHead(c) /\ content' = [content EXCEPT ![i] = new]
                      \/ /\ DumpTail(c) /\ new \in Pickle
                         /\ content' = Freed([content EXCEPT ![i] = new], name, fd')
      <4>1. HeadOf(k0) = [part |-> "head", of |-> meta[c].of]
            /\ TailOf(k0) = [part |-> "tail", of |-> meta[c].of]
        BY <3>1 DEF HeadOf, TailOf
      <4>2. TailOf(k0) \in Blocks
        BY <3>1, BoundAssumption
           DEF TailOf, LoweringOf, Blocks, Lowerings, Keys, Code, Versions
      <4>3. Written(content[i], 2, TailOf(k0)) \in Pickle
        BY <3>1, <4>2, WriteResult
      <4>4. /\ Belongs(Written(content[i], 1, HeadOf(k0)), k0)
            /\ Belongs(Written(content[i], 2, TailOf(k0)), k0)
        BY <3>1, WrittenBelongs
      <4> HIDE DEF i, k0
      <4> QED
        BY <2>7, <4>1, <4>3, <4>4 DEF DumpHead, DumpTail, i
    <3>3. PICK new : /\ Belongs(new, k0)
                     /\ \/ DumpHead(c) /\ content' = [content EXCEPT ![i] = new]
                        \/ /\ DumpTail(c) /\ new \in Pickle
                           /\ content' = Freed([content EXCEPT ![i] = new], name, fd')
      BY <3>2
    <3>4. /\ key' = key /\ name' = name
          /\ fd' = fd \/ fd' = [fd EXCEPT ![c] = None]
      BY <2>7 DEF DumpHead, DumpTail
    <3>5. \A j \in Inodes :
            /\ (\E k \in Keys : name[k] = j) \/ (\E d \in Compilers : fd'[d] = j)
            => content'[j] = IF j = i THEN new ELSE content[j]
      <4>1. CASE DumpHead(c) /\ content' = [content EXCEPT ![i] = new]
        BY <1>0, <4>1, <3>1 DEF TypeOK
      <4>2. CASE new \in Pickle /\ content' = Freed([content EXCEPT ![i] = new], name, fd')
        <5>1. [content EXCEPT ![i] = new] \in [Inodes -> Pickle]
          BY <1>0, <4>2, <3>1 DEF TypeOK, Pickle
        <5>2. \A j \in Inodes :
                [content EXCEPT ![i] = new][j] = IF j = i THEN new ELSE content[j]
          BY <1>0, <3>1 DEF TypeOK
        <5> DEFINE written == [content EXCEPT ![i] = new]
        <5>3. content' = Freed(written, name, fd') /\ written \in [Inodes -> Pickle]
          BY <4>2, <5>1
        <5> HIDE DEF written, i
        <5>4. /\ \A k \in Keys : name[k] \in Inodes => content'[name[k]] = written[name[k]]
              /\ \A d \in Compilers : fd'[d] \in Inodes => content'[fd'[d]] = written[fd'[d]]
          BY <5>3, FreedFiles
        <5> QED
          BY <5>2, <5>4 DEF written
      <4> QED
        BY <3>3, <4>1, <4>2
    <3>6. ASSUME NEW d \in Compilers, fd'[d] # None
          PROVE  Belongs(content'[fd'[d]], key'[d])
      <4>1. fd'[d] = fd[d] /\ fd[d] \in Inodes
        BY <1>0, <3>4, <3>6 DEF TypeOK
      <4>2. content'[fd'[d]] = IF fd[d] = i THEN new ELSE content[fd[d]]
        BY <3>5, <4>1
      <4>3. CASE fd[d] = i
        BY <1>0, <3>1, <3>3, <3>4, <4>2, <4>3 DEF KeysApart
      <4>4. CASE fd[d] # i
        BY <1>0, <3>4, <3>6, <4>1, <4>2, <4>4 DEF FilesBelong
      <4> QED
        BY <4>3, <4>4
    <3>7. ASSUME NEW k \in Keys, name'[k] # None
          PROVE  Belongs(content'[name'[k]], k)
      <4>1. name'[k] = name[k] /\ name[k] \in Inodes
        BY <1>0, <3>4, <3>7 DEF TypeOK
      <4>2. content'[name'[k]] = IF name[k] = i THEN new ELSE content[name[k]]
        BY <3>5, <4>1
      <4>3. CASE name[k] = i
        BY <1>0, <3>1, <3>3, <4>2, <4>3 DEF KeysApart
      <4>4. CASE name[k] # i
        BY <1>0, <3>4, <3>7, <4>1, <4>2, <4>4 DEF FilesBelong
      <4> QED
        BY <4>3, <4>4
    <3> QED
      BY <3>6, <3>7 DEF FilesBelong
  <2> QED
    BY <1>2, <2>1, <2>2, <2>3, <2>4, <2>5, <2>6, <2>7 DEF Compile
<1> QED
  BY <1>1, <1>2 DEF Next

LEMMA TiedStep ==
  ASSUME IInv, Next, KeysIdentify, KeysIdentify'
  PROVE  Tied'
<1>0. TypeOK /\ InHand /\ GoneWhenRaced /\ Tied /\ FilesBelong
  BY DEF IInv
<1>1. CASE EditDocument \/ EditCompiler
  BY <1>0, <1>1 DEF EditDocument, EditCompiler, Tied, local
<1>2. ASSUME NEW c \in Compilers, Compile(c) \/ Die(c)
      PROVE  Tied'
  <2>1. CASE Exit(c) \/ Die(c)
    <3>1. NoLowering.code.unhashed = 0
      BY DEF NoLowering
    <3> QED
      BY <1>0, <2>1, <3>1 DEF Exit, Die, Forget, Goto, Tied, TypeOK
  <2>2. CASE Parse(c)
    <3>1. [document |-> document, code |-> source].code.unhashed = 0
      BY DEF KeysIdentify
    <3> QED
      BY <1>0, <2>2, <3>1 DEF Parse, Goto, Tied, TypeOK
  <2>3. CASE ComputeKey(c)
    <3>1. key'[c] = KeyOf(document, source) /\ KeyOf(document, source) \in Keys
      BY <1>0, <2>3 DEF ComputeKey, TypeOK, KeyOf, Keys, Code
    <3>2. /\ parsed[c].document = document /\ parsed[c].code.hashed = source.hashed
          /\ parsed[c] \in Lowerings /\ parsed[c].code.unhashed = 0
      BY <1>0, <2>3 DEF ComputeKey, KeysIdentify, Tied, TypeOK
    <3>3. parsed[c] = LoweringOf(key'[c])
      BY <3>1, <3>2, SameLowering DEF KeyOf
    <3>4. /\ parsed' = parsed /\ meta' = meta /\ head' = head /\ raced' = raced
          /\ \A d \in Compilers : d # c => key'[d] = key[d] /\ pc'[d] = pc[d]
          /\ pc'[c] \in {"lower", "exists"}
      BY <1>0, <2>3 DEF ComputeKey, Goto, TypeOK
    <3> QED
      BY <1>0, <3>3, <3>4 DEF Tied
  <2>4. CASE Lower(c) \/ LookupExists(c) \/ StoreOpen(c) \/ DumpHead(c)
    BY <1>0, <2>4 DEF Lower, LookupExists, StoreOpen, DumpHead, Goto, Tied, TypeOK
  <2>5. CASE LookupOpen(c)
    BY <1>0, <2>5 DEF LookupOpen, Opened, Goto, Tied, GoneWhenRaced, TypeOK
  <2>6. CASE LoadHead(c)
    <3>1. Belongs(content[fd[c]], key[c])
      BY <1>0, <2>6 DEF LoadHead, FilesBelong, TypeOK
    <3>2. /\ UNCHANGED <<parsed, meta, key, raced>>
          /\ \/ Goto(c, "unlink") /\ head' = [head EXCEPT ![c] = Unknown]
             \/ Goto(c, "tail") /\ head' = [head EXCEPT ![c] = HeadOf(key[c])]
      BY <2>6, <3>1 DEF LoadHead, Close, Damage, Belongs
    <3>3. /\ \A d \in Compilers : d # c => pc'[d] = pc[d] /\ head'[d] = head[d]
          /\ pc'[c] = "unlink" \/ (pc'[c] = "tail" /\ head'[c] = HeadOf(key[c]))
      BY <1>0, <3>2 DEF Goto, TypeOK
    <3>4. parsed[c] = LoweringOf(key[c])
      BY <1>0, <2>6 DEF LoadHead, Tied
    <3> QED
      BY <1>0, <3>2, <3>3, <3>4 DEF Tied
  <2>7. CASE LoadTail(c)
    <3>1. Belongs(content[fd[c]], key[c]) /\ content[fd[c]] \in Pickle
      BY <1>0, <2>7 DEF LoadTail, FilesBelong, TypeOK, Pickle
    <3>2. head[c] = HeadOf(key[c]) /\ parsed[c] = LoweringOf(key[c])
      BY <1>0, <2>7 DEF LoadTail, Tied
    <3>3. head[c].of = parsed[c]
      BY <3>2 DEF HeadOf
    <3>4. Len(content[fd[c]]) >= 2 =>
            content[fd[c]][2] = [part |-> "tail", of |-> head[c].of]
      <4>1. Len(content[fd[c]]) >= 2 => content[fd[c]][2] = TailOf(key[c])
        BY <3>1, WholeFile DEF Pickle
      <4> QED
        BY <3>2, <3>3, <4>1 DEF TailOf
    <3>5. /\ UNCHANGED <<parsed, key, raced>>
          /\ head' = [head EXCEPT ![c] = Unknown]
          /\ \/ Goto(c, "unlink") /\ meta' = meta
             \/ Goto(c, "generated") /\ meta' = [meta EXCEPT ![c] = HitResult(head[c].of)]
      BY <2>7, <3>4 DEF LoadTail, Close, Hit, Damage
    <3>6. HitResult(head[c].of).of = parsed[c]
      BY <3>3 DEF HitResult
    <3>7. /\ \A d \in Compilers : d # c =>
                pc'[d] = pc[d] /\ head'[d] = head[d] /\ meta'[d] = meta[d]
          /\ pc'[c] = "unlink" \/ (pc'[c] = "generated" /\ meta'[c].of = parsed[c])
      BY <1>0, <3>5, <3>6 DEF Goto, TypeOK
    <3> QED
      BY <1>0, <3>2, <3>5, <3>7 DEF Tied
  <2>8. CASE Unlink(c)
    BY <1>0, <2>8 DEF Unlink, Goto, Tied, TypeOK
  <2>9. CASE DumpTail(c)
    <3>1. meta[c].of = parsed[c]
      BY <1>0, <2>9 DEF DumpTail, InHand
    <3> QED
      BY <1>0, <2>9, <3>1 DEF DumpTail, Goto, Tied, TypeOK
  <2> QED
    BY <1>2, <2>1, <2>2, <2>3, <2>4, <2>5, <2>6, <2>7, <2>8, <2>9 DEF Compile
<1> QED
  BY <1>1, <1>2 DEF Next

\* The writer a file waits for is still there after another one's step.
LEMMA StillStored ==
  ASSUME TypeOK, BeingStored, NEW c \in Compilers, ~Storing(c),
         \A d \in Compilers : d # c => fd'[d] = fd[d] /\ pc'[d] = pc[d],
         \A k \in Keys : name'[k] # None =>
           name'[k] = name[k] /\ content'[name'[k]] = content[name[k]]
  PROVE  BeingStored'
<1>1. \A d \in Compilers : Storing(d) => d # c /\ fd'[d] = fd[d] /\ pc'[d] = pc[d]
  OBVIOUS
<1> QED
  BY <1>1 DEF BeingStored, Headless, Storing

LEMMA StoredStep ==
  ASSUME IInv, Next, ~killed'
  PROVE  BeingStored'
<1>0. TypeOK /\ KeysApart /\ InHand
  BY DEF IInv
<1>1. ~killed /\ BeingStored
  <2>1. killed => killed'
    BY DEF Next, Compile, EditDocument, EditCompiler, Parse, ComputeKey, Lower, Exit, Die,
           LookupExists, LookupOpen, LoadHead, LoadTail, Unlink, StoreOpen, DumpHead, DumpTail
  <2> QED
    BY <2>1 DEF IInv
<1>2. CASE EditDocument \/ EditCompiler
  BY <1>1, <1>2 DEF EditDocument, EditCompiler, BeingStored, Headless, Storing, local, cache
<1>3. ASSUME NEW c \in Compilers, Compile(c) \/ Die(c)
      PROVE  BeingStored'
  <2>1. CASE Exit(c) \/ Die(c)
    <3>1. /\ ~Storing(c)
          /\ fd' = [fd EXCEPT ![c] = None] /\ pc' = [pc EXCEPT ![c] = "idle"]
          /\ name' = name /\ content' = Freed(content, name', fd')
      BY <1>1, <2>1 DEF Exit, Die, Forget, Goto, Storing
    <3>2. \A d \in Compilers : d # c => fd'[d] = fd[d] /\ pc'[d] = pc[d]
      BY <1>0, <3>1 DEF TypeOK
    <3> QED
      BY <1>0, <1>1, <3>1, <3>2, FreeingKeeps, StillStored
  <2>2. CASE LoadHead(c) \/ LoadTail(c) \/ Unlink(c)
    <3>1. /\ ~Storing(c)
          /\ \E label : pc' = [pc EXCEPT ![c] = label]
          /\ fd' = fd \/ fd' = [fd EXCEPT ![c] = None]
          /\ name' = name \/ name' = [name EXCEPT ![key[c]] = None]
          /\ UNCHANGED <<name, content>> \/ content' = Freed(content, name', fd')
      BY <2>2 DEF LoadHead, LoadTail, Unlink, Close, Hit, Goto, Storing
    <3>2. \A d \in Compilers : d # c => fd'[d] = fd[d] /\ pc'[d] = pc[d]
      BY <1>0, <3>1 DEF TypeOK
    <3> QED
      BY <1>0, <1>1, <3>1, <3>2, FreeingKeeps, StillStored
  <2>3. CASE Parse(c) \/ ComputeKey(c) \/ Lower(c) \/ LookupExists(c) \/ LookupOpen(c)
    <3>1. /\ ~Storing(c)
          /\ \E label : pc' = [pc EXCEPT ![c] = label]
          /\ fd' = fd \/ \E i : fd' = [fd EXCEPT ![c] = i]
          /\ UNCHANGED <<name, content>>
      BY <2>3 DEF Parse, ComputeKey, Lower, LookupExists, LookupOpen, Goto, Storing, cache
    <3>2. \A d \in Compilers : d # c => fd'[d] = fd[d] /\ pc'[d] = pc[d]
      BY <1>0, <3>1 DEF TypeOK
    <3> QED
      BY <1>0, <1>1, <3>1, <3>2, StillStored
  <2>4. CASE StoreOpen(c)
    <3>1. PICK i \in Inodes :
            /\ IF name[key[c]] = None
               THEN \A k \in Keys, d \in Compilers : i # name[k] /\ i # fd[d]
               ELSE i = name[key[c]]
            /\ name' = [name EXCEPT ![key[c]] = i]
            /\ fd' = [fd EXCEPT ![c] = i]
            /\ content' = [content EXCEPT ![i] = <<>>]
      BY <2>4 DEF StoreOpen
    <3>2. key[c] \in Keys /\ pc[c] = "store" /\ pc' = [pc EXCEPT ![c] = "dump_head"]
      BY <1>0, <2>4 DEF StoreOpen, Goto, TypeOK
    <3>3. ASSUME NEW k \in Keys, name'[k] # None, k # key[c]
          PROVE  name'[k] = name[k] /\ content'[name'[k]] = content[name[k]]
      <4>1. name'[k] = name[k] /\ name[k] # i
        BY <1>0, <3>1, <3>2, <3>3 DEF TypeOK
      <4> QED
        BY <1>0, <3>1, <3>3, <4>1 DEF TypeOK
    <3>4. \A d \in Compilers : Storing(d) => d # c /\ fd'[d] = fd[d] /\ pc'[d] = pc[d]
      BY <1>0, <3>1, <3>2 DEF Storing, TypeOK
    <3>5. name'[key[c]] = i /\ fd'[c] = i /\ pc'[c] = "dump_head"
      BY <1>0, <3>1, <3>2 DEF TypeOK
    <3>6. ASSUME NEW k \in Keys, name'[k] # None
          PROVE  /\ Headless(content'[name'[k]]) =>
                      \E d \in Compilers : fd'[d] = name'[k] /\ pc'[d] = "dump_head"
                 /\ Len(content'[name'[k]]) < 2 =>
                      \E d \in Compilers : fd'[d] = name'[k] /\ Storing(d)'
      <4>1. CASE k = key[c]
        BY <3>5, <4>1 DEF Storing
      <4>2. CASE k # key[c]
        <5>1. name[k] # None /\ name'[k] = name[k] /\ content'[name'[k]] = content[name[k]]
          BY <3>3, <3>6, <4>2
        <5> QED
          BY <1>1, <3>4, <5>1 DEF BeingStored, Headless, Storing
      <4> QED
        BY <4>1, <4>2
    <3> QED
      BY <3>6 DEF BeingStored, Headless, Storing
  <2>5. CASE DumpHead(c)
    <3> DEFINE i == fd[c]
               block == [part |-> "head", of |-> meta[c].of]
               new == Written(content[i], 1, block)
    <3>1. pc[c] = "dump_head" /\ fd' = fd /\ name' = name /\ pc' = [pc EXCEPT ![c] = "dump_tail"]
      BY <2>5 DEF DumpHead, Goto
    <3>2. i \in Inodes /\ content[i] \in Pickle /\ block \in Blocks
      <4>1. i \in Inodes /\ content[i] \in Pickle
        BY <1>0, <3>1 DEF TypeOK, Pickle
      <4>2. meta[c].of \in Lowerings
        BY <1>0, <3>1 DEF TypeOK, InHand
      <4> QED
        BY <4>1, <4>2 DEF Blocks
    <3>3. Len(new) >= 1 /\ new[1] = block
      BY <3>2, HeadWritten
    <3>4. block # Hole
      BY DEF Hole
    <3>5. ~Headless(new)
      BY <3>3, <3>4 DEF Headless
    <3>6. \A j \in Inodes : content'[j] = IF j = i THEN new ELSE content[j]
      BY <1>0, <2>5 DEF DumpHead, TypeOK
    <3> HIDE DEF i, new, block
    <3>7. fd[c] = i /\ pc'[c] = "dump_tail" /\ \A d \in Compilers : d # c => pc'[d] = pc[d]
      BY <1>0, <3>1 DEF i, TypeOK
    <3>8. ASSUME NEW k \in Keys, name'[k] # None
          PROVE  /\ Headless(content'[name'[k]]) =>
                      \E d \in Compilers : fd'[d] = name'[k] /\ pc'[d] = "dump_head"
                 /\ Len(content'[name'[k]]) < 2 =>
                      \E d \in Compilers : fd'[d] = name'[k] /\ Storing(d)'
      <4>1. name[k] \in Inodes /\ name[k] # None /\ name'[k] = name[k]
        BY <1>0, <3>1, <3>8 DEF TypeOK
      <4>2. CASE name[k] = i
        BY <3>1, <3>5, <3>6, <3>7, <4>1, <4>2 DEF Storing
      <4>3. CASE name[k] # i
        <5>1. content'[name'[k]] = content[name[k]]
          BY <3>6, <4>1, <4>3
        <5> QED
          BY <1>1, <3>1, <3>7, <4>1, <4>3, <5>1 DEF BeingStored, Headless, Storing
      <4> QED
        BY <4>2, <4>3
    <3> QED
      BY <3>8 DEF BeingStored, Headless, Storing
  <2>6. CASE DumpTail(c)
    <3> DEFINE i == fd[c]
               block == [part |-> "tail", of |-> meta[c].of]
               new == Written(content[i], 2, block)
               written == [content EXCEPT ![i] = new]
    <3>1. /\ pc[c] = "dump_tail" /\ fd' = [fd EXCEPT ![c] = None] /\ name' = name
          /\ pc' = [pc EXCEPT ![c] = "generated"] /\ content' = Freed(written, name, fd')
      BY <2>6 DEF DumpTail, Goto
    <3>2. i \in Inodes /\ content[i] \in Pickle /\ block \in Blocks
      <4>1. i \in Inodes /\ content[i] \in Pickle
        BY <1>0, <3>1 DEF TypeOK, Pickle
      <4>2. meta[c].of \in Lowerings
        BY <1>0, <3>1 DEF TypeOK, InHand
      <4> QED
        BY <4>1, <4>2 DEF Blocks
    <3>3. /\ new \in Pickle
          /\ Len(new) >= 2
          /\ new[1] = IF 1 <= Len(content[i]) THEN content[i][1] ELSE Hole
      BY <3>2, TailWritten
    <3> HIDE DEF new
    <3>4. Headless(new) => Headless(content[i])
      BY <3>2, <3>3 DEF Headless, Pickle
    <3>5. /\ written \in [Inodes -> Pickle]
          /\ \A j \in Inodes : written[j] = IF j = i THEN new ELSE content[j]
      BY <1>0, <3>2, <3>3 DEF TypeOK, Pickle
    <3> HIDE DEF i, written, block
    <3>6. \A k \in Keys : name[k] \in Inodes => content'[name[k]] = written[name[k]]
      BY <3>1, <3>5, FreedFiles
    <3>7. /\ fd[c] = i /\ pc'[c] = "generated"
          /\ \A d \in Compilers : d # c => pc'[d] = pc[d] /\ fd'[d] = fd[d]
      BY <1>0, <3>1 DEF i, TypeOK
    <3>8. ASSUME NEW k \in Keys, name'[k] # None
          PROVE  /\ Headless(content'[name'[k]]) =>
                      \E d \in Compilers : fd'[d] = name'[k] /\ pc'[d] = "dump_head"
                 /\ Len(content'[name'[k]]) < 2 =>
                      \E d \in Compilers : fd'[d] = name'[k] /\ Storing(d)'
      <4>1. name[k] \in Inodes /\ name[k] # None /\ name'[k] = name[k]
        BY <1>0, <3>1, <3>8 DEF TypeOK
      <4>2. CASE name[k] = i
        <5>1. content'[name'[k]] = new
          BY <3>5, <3>6, <4>1, <4>2
        <5>2. ~(Len(new) < 2)
          BY <3>3 DEF Pickle
        <5>3. Headless(new) => \E d \in Compilers : fd[d] = i /\ pc[d] = "dump_head"
          BY <1>1, <3>4, <4>1, <4>2 DEF BeingStored
        <5>4. \A d \in Compilers : pc[d] = "dump_head" => d # c
          BY <3>1
        <5> QED
          BY <3>7, <4>1, <4>2, <5>1, <5>2, <5>3, <5>4
      <4>3. CASE name[k] # i
        <5>1. content'[name'[k]] = content[name[k]]
          BY <3>5, <3>6, <4>1, <4>3
        <5> QED
          BY <1>1, <3>1, <3>7, <4>1, <4>3, <5>1 DEF BeingStored, Headless, Storing
      <4> QED
        BY <4>2, <4>3
    <3> QED
      BY <3>8 DEF BeingStored, Headless, Storing
  <2> QED
    BY <1>3, <2>1, <2>2, <2>3, <2>4, <2>5, <2>6 DEF Compile
<1> QED
  BY <1>2, <1>3 DEF Next

------------------------------------------------------------------------------
LEMMA StepInv == IInv /\ [Next]_vars => IInv'
<1>1. CASE Next
  <2> SUFFICES ASSUME IInv
               PROVE  IInv'
    BY <1>1
  <2>1. TypeOK' /\ KeysApart' /\ InHand' /\ GoneWhenRaced'
    BY <1>1, TypeStep, ApartStep, HandStep, RacedStep
  <2>2. KeysIdentify' => Tied' /\ FilesBelong'
    BY <1>1, <2>1, IdentityIsLost, TiedStep, FilesStep DEF IInv
  <2>3. ~killed' => BeingStored'
    BY <1>1, StoredStep
  <2> QED
    BY <2>1, <2>2, <2>3 DEF IInv
<1>2. CASE UNCHANGED vars
  BY <1>2
     DEF vars, local, cache, IInv, TypeOK, KeysApart, InHand, GoneWhenRaced, KeysIdentify, Tied,
         FilesBelong, Belongs, BeingStored, Headless, Storing
<1> QED
  BY <1>1, <1>2

LEMMA Inductive == Spec => []IInv
BY InitInv, StepInv, PTL DEF Spec

\* Every reachable state is well typed (run_compiler, CacheManager).
THEOREM TypeCorrect == Spec => []TypeOK
<1>1. IInv => TypeOK
  BY DEF IInv
<1> QED
  BY <1>1, Inductive, PTL

\* A compile generates code from the lowering of its own document, by its own
\* lowering code, whoever shares the cache directory (lookup and store).
THEOREM ServesOwn == Spec => []ServedOwnLowering
<1>1. IInv => ServedOwnLowering
  BY DEF IInv, Tied, ServedOwnLowering
<1> QED
  BY <1>1, Inductive, PTL

\* A compile fails in lookup only if another one's unlink came between its
\* exists and its open.
THEOREM FailsRaced == Spec => []FailsOnlyWhenRaced
<1>1. IInv => FailsOnlyWhenRaced
  BY DEF IInv, Tied, FailsOnlyWhenRaced
<1> QED
  BY <1>1, Inductive, PTL

\* Whatever stores overlapped, when all have ended every entry is whole.
THEOREM QuietIsWhole == Spec => []QuietCacheIsWhole
<1>1. ASSUME IInv, KeysIdentify, ~killed, \A c \in Compilers : ~Storing(c),
             NEW k \in Keys, name[k] # None
      PROVE  Whole(content[name[k]])
  <2>1. content[name[k]] \in Pickle
    BY <1>1 DEF IInv, TypeOK, Pickle
  <2>2. ~Headless(content[name[k]]) /\ ~(Len(content[name[k]]) < 2)
    BY <1>1 DEF IInv, BeingStored, Storing
  <2>3. /\ Len(content[name[k]]) = 2
        /\ content[name[k]][1] = HeadOf(k)
        /\ content[name[k]][2] = TailOf(k)
    <3>1. Belongs(content[name[k]], k)
      BY <1>1 DEF IInv, FilesBelong
    <3> QED
      BY <2>1, <2>2, <3>1, WholeFile DEF Headless
  <2>4. LoweringOf(k) \in Lowerings
    BY BoundAssumption DEF LoweringOf, Lowerings, Keys, Code, Versions
  <2> QED
    BY <2>3, <2>4 DEF Whole, HeadOf, TailOf
<1>2. IInv => QuietCacheIsWhole
  BY <1>1 DEF QuietCacheIsWhole
<1> QED
  BY <1>2, Inductive, PTL
==============================================================================

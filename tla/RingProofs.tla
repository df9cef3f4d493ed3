----------------------------- MODULE RingProofs -----------------------------
(***************************************************************************)
(* Proofs about Ring, for any number of blocks of any size and a source of *)
(* any length.  Types holds whatever fails; the rest holds until the first *)
(* error of the source: the keys from read_key on lead to blocks with the  *)
(* bytes of their keys, so that they are different blocks, and there is    *)
(* always an older key the lru can do without.                             *)
(***************************************************************************)
EXTENDS Ring, SequenceTheorems, FiniteSetTheorems, NaturalsInduction, TLAPS

Elements(s) == {s[i] : i \in 1..Len(s)}
Distinct(s) == \A i, j \in 1..Len(s) : s[i] = s[j] => i = j

Filling == {"reading", "read", "read_last", "failed"}

ReaderTypes ==
  /\ mode \in Modes
  /\ reader \in {"ready", "ended"} \cup Filling
  /\ hand \in Blocks \cup {NoBlock}
  /\ reader \in Filling => hand \in Blocks
  /\ source \in Nat /\ write_key \in Nat /\ failures \in 0..MaxFailures

StoreTypes ==
  /\ full \in [DOMAIN full -> Blocks]
  /\ IsFiniteSet(DOMAIN full) /\ DOMAIN full \subseteq Nat
  /\ empty \in Seq(Blocks) /\ count \in 0..MaxBlocks
  /\ block \in [Blocks -> [at : Nat \cup {Unknown}, len : 0..BlockSize]]

ClientTypes ==
  /\ client \in {"idle", "finding", "copying", "returning"}
  /\ taken \in Blocks \cup {NoBlock} /\ current \in Blocks \cup {NoBlock}
  /\ client \in {"copying", "returning"} => taken \in Blocks
  /\ read_key \in Nat
  /\ offset \in 0..BlockSize /\ want \in Sizes \cup {0}
  /\ got \in Nat /\ offset <= got /\ zeros \in Nat /\ torn \in BOOLEAN

Types == ReaderTypes /\ StoreTypes /\ ClientTypes

-----------------------------------------------------------------------------
(* Until the first error.                                                  *)

\* The block libav is in the middle of.
Held == IF client = "copying" THEN taken ELSE current

\* What the reader is about to hand over begins where the last block ended.
SourceFits ==
  /\ reader \notin {"read", "read_last"} => source = write_key
  /\ reader \in {"read", "read_last"} =>
       block[hand].at = write_key /\ source = write_key + block[hand].len
  /\ reader = "read" => block[hand].len > 0
  /\ reader = "read_last" => block[hand].len = 0
  /\ reader # "failed"

\* The keys libav still has to come to; the last may be the mark of the end.
KeysFit ==
  /\ read_key <= write_key
  /\ \A k \in DOMAIN full : k <= write_key /\ (k = write_key => reader = "ended")
  /\ read_key < write_key => read_key \in DOMAIN full
  /\ \A k \in DOMAIN full : read_key <= k =>
       /\ block[full[k]].at = k
       /\ k < write_key => /\ block[full[k]].len > 0
                           /\ \/ k + block[full[k]].len = write_key
                              \/ /\ k + block[full[k]].len \in DOMAIN full
                                 /\ k + block[full[k]].len < write_key
       /\ k = write_key => block[full[k]].len = 0

\* A block is in one place, as long as the reader may take another.
OwnersFit ==
  reader # "ended" =>
    /\ Distinct(empty)
    /\ \A b \in Elements(empty) : b <= count /\ b # hand /\ b # taken /\ b # current
    /\ hand # NoBlock => hand <= count /\ hand # taken /\ hand # current
    /\ taken # NoBlock => taken <= count
    /\ current # NoBlock => current <= count
    /\ \A k \in DOMAIN full : read_key <= k =>
         /\ full[k] <= count /\ full[k] # hand /\ full[k] # taken /\ full[k] # current
         /\ full[k] \notin Elements(empty)

\* libav has all bytes before the place it reads at.
BytesFit ==
  /\ client \in {"idle", "finding"} => taken = NoBlock
  /\ client \in {"returning", "finding"} => current = NoBlock
  /\ client = "copying" => current \in {NoBlock, taken}
  /\ current = NoBlock => offset = 0
  /\ Held = NoBlock => got = read_key
  /\ Held # NoBlock => /\ block[Held].at + offset = got
                       /\ block[Held].at + block[Held].len = read_key
                       /\ offset <= block[Held].len
  /\ ~torn

Good == failures = 0 => SourceFits /\ KeysFit /\ OwnersFit /\ BytesFit
Inv == Types /\ Good

-----------------------------------------------------------------------------
(* Lists and the lru.                                                      *)

\* A list of different blocks, with one more at its end.
LEMMA AppendKeeps ==
  ASSUME NEW S, NEW s \in Seq(S), Distinct(s), NEW p \in S, p \notin Elements(s)
  PROVE  /\ Append(s, p) \in Seq(S) /\ Distinct(Append(s, p))
         /\ Elements(Append(s, p)) = Elements(s) \cup {p}
<1> DEFINE w == Append(s, p)
<1>1. /\ w \in Seq(S) /\ Len(w) = Len(s) + 1 /\ Len(s) \in Nat
      /\ \A i \in 1..Len(s) : w[i] = s[i]
      /\ w[Len(s) + 1] = p
  BY AppendProperties, LenProperties
<1> HIDE DEF w
<1>2. \A i \in 1..Len(w) : i \in 1..Len(s) \/ i = Len(s) + 1
  BY <1>1
<1>3. \A i \in 1..Len(s) : i \in 1..Len(w)
  BY <1>1
<1>4. Len(w) \in 1..Len(w) /\ w[Len(w)] = p
  BY <1>1
<1>5. \A i \in 1..Len(s) : s[i] # p
  BY DEF Elements
<1>6. Distinct(w)
  BY <1>1, <1>2, <1>5 DEF Distinct
<1>7. Elements(w) = Elements(s) \cup {p}
  BY <1>1, <1>2, <1>3, <1>4 DEF Elements
<1> QED BY <1>1, <1>6, <1>7 DEF w

\* The list without its first block.
LEMMA TailKeeps ==
  ASSUME NEW S, NEW s \in Seq(S), Distinct(s), s # <<>>
  PROVE  /\ Head(s) \in S /\ Head(s) \in Elements(s)
         /\ Tail(s) \in Seq(S) /\ Distinct(Tail(s))
         /\ Elements(Tail(s)) = Elements(s) \ {Head(s)}
<1> DEFINE w == Tail(s)
<1>1. /\ w \in Seq(S) /\ Len(w) = Len(s) - 1 /\ Head(s) \in S
      /\ \A i \in 1..Len(w) : w[i] = s[i+1]
  BY HeadTailProperties
<1>2. Len(s) \in Nat \ {0} /\ Head(s) = s[1]
  BY EmptySeq
<1> HIDE DEF w
<1>3. /\ \A i \in 1..Len(w) : i+1 \in 1..Len(s) /\ i+1 # 1
      /\ \A i \in 1..Len(s) : i # 1 => i-1 \in 1..Len(w) /\ i-1+1 = i
      /\ 1 \in 1..Len(s)
  BY <1>1, <1>2
<1>4. \A i, k \in 1..Len(w) : i+1 = k+1 => i = k
  BY <1>1, <1>2
<1>5. Distinct(w)
  BY <1>1, <1>3, <1>4 DEF Distinct
<1>6. \A q \in Elements(w) : q \in Elements(s) /\ q # s[1]
  BY <1>1, <1>3 DEF Elements, Distinct
<1>7. \A q \in Elements(s) : q # s[1] => q \in Elements(w)
  <2> SUFFICES ASSUME NEW i \in 1..Len(s), s[i] # s[1]  PROVE s[i] \in Elements(w)
    BY DEF Elements
  <2>1. i-1 \in 1..Len(w) /\ w[i-1] = s[i]
    BY <1>1, <1>3
  <2> QED BY <2>1 DEF Elements
<1>8. s[1] \in Elements(s)
  BY <1>3 DEF Elements
<1> QED BY <1>1, <1>2, <1>5, <1>6, <1>7, <1>8 DEF w

\* Such a list is as long as the number of its blocks.
LEMMA LengthIsCount ==
  ASSUME NEW S, NEW s \in Seq(S), Distinct(s)
  PROVE  Cardinality(Elements(s)) = Len(s)
<1>1. Len(s) \in Nat /\ s \in [1..Len(s) -> Elements(s)]
  BY LenProperties DEF Elements
<1>2. s \in Bijection(1..Len(s), Elements(s))
  BY <1>1 DEF Distinct, Elements, Bijection, Injection, Surjection, IsInjective
<1>3. IsFiniteSet(1..Len(s)) /\ Cardinality(1..Len(s)) = Len(s)
  BY <1>1, FS_Interval
<1> QED
  BY <1>2, <1>3, FS_Bijection DEF ExistsBijection

\* A set of keys has a least one.
LEMMA LeastKey ==
  ASSUME NEW c \in SUBSET Nat, c # {}
  PROVE  \E k \in c : \A j \in c : k <= j
<1>1. IsWellFoundedOn(OpToRel(<, Nat), Nat)
  BY NatLessThanWellFounded
<1> DEFINE R == OpToRel(<, Nat)
<1>2. PICK k \in c : \A j \in c : ~ (<<j, k>> \in R)
  BY <1>1, WFMin
<1>3. \A i \in Nat, j \in Nat : j < i => <<j, i>> \in R
  BY DEF OpToRel
<1> HIDE DEF R
<1>4. ASSUME NEW j \in c
      PROVE  k <= j
  <2>1. k \in Nat /\ j \in Nat
    OBVIOUS
  <2>2. ~(j < k)
    BY <1>2, <1>3, <2>1
  <2> QED BY <2>1, <2>2
<1> QED BY <1>4

\* There are MaxBlocks blocks.
LEMMA BlocksAreCounted == IsFiniteSet(Blocks) /\ Cardinality(Blocks) = MaxBlocks
BY RingAssumption, FS_Interval DEF Blocks

\* The lru leaves everything it keeps as it is, and keeps the keys from r on
\* if they lead to different blocks.
LEMMA Evicts ==
  ASSUME NEW D, IsFiniteSet(D), D \subseteq Nat, NEW f \in [D -> Blocks], NEW r \in Nat
  PROVE  LET e == Evicted(f) IN
         /\ DOMAIN e \subseteq D /\ IsFiniteSet(DOMAIN e) /\ e \in [DOMAIN e -> Blocks]
         /\ \A k \in DOMAIN e : e[k] = f[k]
         /\ (\A j, k \in D : r <= j /\ r <= k /\ f[j] = f[k] => j = k)
              => \A k \in D : r <= k => k \in DOMAIN e
<1> DEFINE e == Evicted(f)
           least == CHOOSE k \in D : \A j \in D : k <= j
<1>1. Cardinality(D) \in Nat
  BY FS_CardinalityType
<1>2. CASE Cardinality(D) <= MaxBlocks
  <2>1. e = f
    BY <1>2 DEF Evicted
  <2> QED BY <2>1
<1>3. CASE ~(Cardinality(D) <= MaxBlocks)
  <2>1. D # {}
    BY <1>3, FS_EmptySet, RingAssumption
  <2>2. \E k \in D : \A j \in D : k <= j
    BY <2>1, LeastKey
  <2>3. least \in D /\ \A j \in D : least <= j
    BY <2>2
  <2>4. e = [k \in D \ {least} |-> f[k]]
    BY <1>3 DEF Evicted, Restrict
  <2> HIDE DEF least
  <2>5. DOMAIN e = D \ {least} /\ IsFiniteSet(DOMAIN e)
    BY <2>4, FS_RemoveElement
  <2>6. \A k \in DOMAIN e : e[k] = f[k]
    BY <2>4, <2>5
  <2>7. e \in [DOMAIN e -> Blocks]
    BY <2>4, <2>5
  <2>8. ASSUME \A j, k \in D : r <= j /\ r <= k /\ f[j] = f[k] => j = k
        PROVE  ~(r <= least)
    <3>1. SUFFICES ASSUME r <= least PROVE FALSE
      OBVIOUS
    <3>2. \A k \in D : r <= k
      BY <2>3, <3>1
    <3>3. f \in Injection(D, Blocks)
      BY <2>8, <3>2 DEF Injection, IsInjective
    <3>4. Cardinality(D) <= Cardinality(Blocks)
      BY <3>3, BlocksAreCounted, FS_Injection
    <3> QED BY <1>3, <3>4, BlocksAreCounted
  <2> HIDE DEF e
  <2> QED BY <2>3, <2>5, <2>6, <2>7, <2>8 DEF e
<1> QED BY <1>2, <1>3, <1>1, RingAssumption

-----------------------------------------------------------------------------
(* The steps that move blocks.                                             *)

\* NoBlock is none of them.
LEMMA NoBlockIsNone == NoBlock \notin Blocks /\ (StoreTypes => Elements(empty) \subseteq Blocks)
<1>1. NoBlock \notin Blocks
  BY DEF NoBlock, Blocks
<1>2. StoreTypes => Elements(empty) \subseteq Blocks
  BY LenProperties, ElementOfSeq DEF StoreTypes, Elements
<1> QED BY <1>1, <1>2

\* acquire_empty gives the first empty block, a new one, or none.
LEMMA AcquireGives ==
  ASSUME Types, Acquire
  PROVE  \/ /\ hand' = NoBlock /\ reader' = "ended"
            /\ UNCHANGED <<block, empty, count>>
         \/ /\ hand' \in Blocks /\ reader' = "reading"
            /\ block' = [block EXCEPT ![hand'] = Content(Unknown, BlockSize)]
            /\ \/ /\ empty = <<>> /\ UNCHANGED empty
                  /\ hand' = count + 1 /\ count' = count + 1 /\ count < MaxBlocks
               \/ /\ empty # <<>> /\ UNCHANGED count
                  /\ empty' = Tail(empty) /\ hand' = Head(empty)
<1> USE RingAssumption DEF Types, StoreTypes, Acquire
<1>0. hand' = NextBlock
  OBVIOUS
<1>1. CASE empty # <<>>
  <2>1. NextBlock = Head(empty) /\ Head(empty) \in Blocks
    BY <1>1, HeadTailProperties DEF NextBlock
  <2>2. NextBlock # NoBlock
    BY <2>1, NoBlockIsNone
  <2> QED BY <1>1, <2>1, <2>2
<1>2. CASE empty = <<>> /\ count < MaxBlocks
  <2>1. NextBlock = count + 1 /\ count + 1 \in Blocks
    BY <1>2 DEF NextBlock, Blocks
  <2>2. NextBlock # NoBlock
    BY <2>1, NoBlockIsNone
  <2> QED BY <1>2, <2>1, <2>2
<1>3. CASE empty = <<>> /\ ~(count < MaxBlocks)
  <2>1. NextBlock = NoBlock
    BY <1>3 DEF NextBlock
  <2> QED BY <1>3, <2>1
<1> QED BY <1>1, <1>2, <1>3

\* Filling one block leaves the others.
LEMMA Refilled ==
  ASSUME StoreTypes, NEW b, NEW c \in [at : Nat \cup {Unknown}, len : 0..BlockSize]
  PROVE  [block EXCEPT ![b] = c] \in [Blocks -> [at : Nat \cup {Unknown}, len : 0..BlockSize]]
BY DEF StoreTypes

\* return_full: what is in the lru afterwards.
Handed == [k \in DOMAIN full \cup {write_key} |-> IF k = write_key THEN hand ELSE full[k]]

\* return_full adds the block in hand under write_key; no key that is still
\* to be read is evicted when their blocks are different.
LEMMA ReturnKeeps ==
  ASSUME Types, ReturnFull
  PROVE  /\ DOMAIN full' \subseteq DOMAIN full \cup {write_key}
         /\ IsFiniteSet(DOMAIN full') /\ full' \in [DOMAIN full' -> Blocks]
         /\ \A k \in DOMAIN full' : full'[k] = IF k = write_key THEN hand ELSE full[k]
         /\ (\A j, k \in DOMAIN full \cup {write_key} :
               read_key <= j /\ read_key <= k /\ Handed[j] = Handed[k] => j = k)
              => \A k \in DOMAIN full \cup {write_key} : read_key <= k => k \in DOMAIN full'
<1> DEFINE D == DOMAIN full \cup {write_key}
<1>1. IsFiniteSet(D) /\ D \subseteq Nat
  BY FS_AddElement DEF Types, StoreTypes, ReaderTypes
<1>2. Handed \in [D -> Blocks]
  BY DEF Types, StoreTypes, ReaderTypes, ReturnFull, Filling, Handed
<1>3. read_key \in Nat /\ full' = Evicted(Handed)
  BY DEF Types, ClientTypes, ReturnFull, Handed
<1>4. \A k \in D : Handed[k] = IF k = write_key THEN hand ELSE full[k]
  BY DEF Handed
<1> HIDE DEF D
<1>5. /\ DOMAIN full' \subseteq D /\ IsFiniteSet(DOMAIN full')
      /\ full' \in [DOMAIN full' -> Blocks]
      /\ \A k \in DOMAIN full' : full'[k] = Handed[k]
      /\ (\A j, k \in D : read_key <= j /\ read_key <= k /\ Handed[j] = Handed[k] => j = k)
           => \A k \in D : read_key <= k => k \in DOMAIN full'
  BY <1>1, <1>2, <1>3, Evicts
<1> QED BY <1>4, <1>5 DEF D

-----------------------------------------------------------------------------
(* Types.                                                                  *)

\* The reader.
LEMMA ReaderTypesStep ==
  ASSUME Types, [Next]_vars
  PROVE  ReaderTypes'
<1> USE RingAssumption DEF Types, ReaderTypes, Filling, Modes, reading, store, copying, vars
<1>1. ASSUME Open  PROVE ReaderTypes'
  BY <1>1 DEF Open
<1>2. ASSUME Acquire  PROVE ReaderTypes'
  BY <1>2, AcquireGives DEF Acquire
<1>3. ASSUME NEW n \in 0..BlockSize, Read(n)  PROVE ReaderTypes'
  BY <1>3 DEF Read
<1>4. ASSUME ReadFails  PROVE ReaderTypes'
  BY <1>4 DEF ReadFails
<1>5. ASSUME ReturnFull  PROVE ReaderTypes'
  <2>1. hand \in Blocks /\ block[hand].len \in Nat
    BY <1>5 DEF ReturnFull, StoreTypes
  <2>2. write_key' \in Nat
    BY <1>5, <2>1 DEF ReturnFull
  <2> QED BY <1>5, <2>2 DEF ReturnFull, Outcome
<1>6. ASSUME Stop  PROVE ReaderTypes'
  BY <1>6 DEF Stop
<1>7. ASSUME NEW size \in Sizes, Call(size)  PROVE ReaderTypes'
  BY <1>7 DEF Call
<1>8. ASSUME Find  PROVE ReaderTypes'
  BY <1>8 DEF Find
<1>9. ASSUME TimeOut  PROVE ReaderTypes'
  BY <1>9 DEF TimeOut
<1>10. ASSUME Copy  PROVE ReaderTypes'
  BY <1>10 DEF Copy
<1>11. ASSUME ReturnEmpty  PROVE ReaderTypes'
  BY <1>11 DEF ReturnEmpty
<1>12. ASSUME Close  PROVE ReaderTypes'
  BY <1>12 DEF Close
<1>13. ASSUME Join  PROVE ReaderTypes'
  BY <1>13 DEF Join
<1>14. ASSUME UNCHANGED vars  PROVE ReaderTypes'
  BY <1>14
<1> QED
  BY <1>1, <1>2, <1>3, <1>4, <1>5, <1>6, <1>7, <1>8, <1>9, <1>10, <1>11, <1>12, <1>13, <1>14 DEF Next, ReaderStep, ClientStep

\* The blocks and where they are.
LEMMA StoreTypesStep ==
  ASSUME Types, [Next]_vars
  PROVE  StoreTypes'
<1> USE RingAssumption DEF Types, StoreTypes, Content, Unknown, reading, store, copying, vars
<1>1. ASSUME Open  PROVE StoreTypes'
  BY <1>1 DEF Open
<1>2. ASSUME Acquire  PROVE StoreTypes'
  <2>1. block' \in [Blocks -> [at : Nat \cup {Unknown}, len : 0..BlockSize]]
    <3>1. Content(Unknown, BlockSize) \in [at : Nat \cup {Unknown}, len : 0..BlockSize]
      OBVIOUS
    <3>2. PICK c \in [at : Nat \cup {Unknown}, len : 0..BlockSize] :
            block' = block \/ block' = [block EXCEPT ![hand'] = c]
      BY <1>2, <3>1, AcquireGives
    <3>3. CASE block' = block
      BY <3>3
    <3>4. CASE block' = [block EXCEPT ![hand'] = c]
      BY <3>4, Refilled
    <3> QED BY <3>2, <3>3, <3>4
  <2>2. empty' \in Seq(Blocks) /\ count' \in 0..MaxBlocks
    <3>1. \/ empty' = empty
          \/ empty # <<>> /\ empty' = Tail(empty)
      BY <1>2 DEF Acquire
    <3>2. count' = count \/ (count < MaxBlocks /\ count' = count + 1)
      BY <1>2, AcquireGives
    <3>3. empty # <<>> => Tail(empty) \in Seq(Blocks)
      BY HeadTailProperties
    <3>4. empty' \in Seq(Blocks)
      BY <3>1, <3>3
    <3> QED BY <3>2, <3>4
  <2> QED BY <1>2, <2>1, <2>2 DEF Acquire
<1>3. ASSUME NEW n \in 0..BlockSize, Read(n)  PROVE StoreTypes'
  BY <1>3 DEF Read, ReaderTypes, Filling
<1>4. ASSUME ReadFails  PROVE StoreTypes'
  BY <1>4 DEF ReadFails, ReaderTypes, Filling
<1>5. ASSUME ReturnFull  PROVE StoreTypes'
  BY <1>5, ReturnKeeps DEF ReturnFull, ReaderTypes
<1>6. ASSUME Stop  PROVE StoreTypes'
  BY <1>6 DEF Stop
<1>7. ASSUME NEW size \in Sizes, Call(size)  PROVE StoreTypes'
  BY <1>7 DEF Call
<1>8. ASSUME Find  PROVE StoreTypes'
  BY <1>8 DEF Find
<1>9. ASSUME TimeOut  PROVE StoreTypes'
  BY <1>9 DEF TimeOut
<1>10. ASSUME Copy  PROVE StoreTypes'
  BY <1>10 DEF Copy
<1>11. ASSUME ReturnEmpty  PROVE StoreTypes'
  BY <1>11, AppendProperties DEF ReturnEmpty, ClientTypes
<1>12. ASSUME Close  PROVE StoreTypes'
  BY <1>12 DEF Close
<1>13. ASSUME Join  PROVE StoreTypes'
  BY <1>13 DEF Join
<1>14. ASSUME UNCHANGED vars  PROVE StoreTypes'
  BY <1>14
<1> QED
  BY <1>1, <1>2, <1>3, <1>4, <1>5, <1>6, <1>7, <1>8, <1>9, <1>10, <1>11, <1>12, <1>13, <1>14 DEF Next, ReaderStep, ClientStep

\* The client.
LEMMA ClientTypesStep ==
  ASSUME Types, [Next]_vars
  PROVE  ClientTypes'
<1> USE RingAssumption DEF Types, ClientTypes, reading, store, copying, vars
<1>1. ASSUME Open  PROVE ClientTypes'
  BY <1>1 DEF Open
<1>2. ASSUME Acquire  PROVE ClientTypes'
  BY <1>2 DEF Acquire
<1>3. ASSUME NEW n \in 0..BlockSize, Read(n)  PROVE ClientTypes'
  BY <1>3 DEF Read
<1>4. ASSUME ReadFails  PROVE ClientTypes'
  BY <1>4 DEF ReadFails
<1>5. ASSUME ReturnFull  PROVE ClientTypes'
  BY <1>5 DEF ReturnFull
<1>6. ASSUME Stop  PROVE ClientTypes'
  BY <1>6 DEF Stop
<1>7. ASSUME NEW size \in Sizes, Call(size)  PROVE ClientTypes'
  BY <1>7 DEF Call
<1>8. ASSUME Find  PROVE ClientTypes'
  <2>1. taken' \in Blocks /\ block[taken'].len \in Nat
    BY <1>8 DEF Find, StoreTypes
  <2> QED BY <1>8, <2>1 DEF Find
<1>9. ASSUME TimeOut  PROVE ClientTypes'
  BY <1>9 DEF TimeOut
<1>10. ASSUME Copy  PROVE ClientTypes'
  <2> DEFINE left == block[taken].len - offset
             n == IF left <= want THEN left ELSE want
  <2>0. taken \in Blocks /\ block[taken].len \in 0..BlockSize /\ want \in Nat
    BY <1>10 DEF Copy, StoreTypes
  <2>1. got' \in Nat /\ offset' \in 0..BlockSize /\ offset' <= got'
    <3>1. CASE left <= want
      BY <1>10, <2>0, <3>1 DEF Copy
    <3>2. CASE ~(left <= want)
      BY <1>10, <2>0, <3>2 DEF Copy
    <3> QED BY <3>1, <3>2
  <2>2. zeros' \in Nat
    BY <1>10 DEF Copy
  <2>3. torn' \in BOOLEAN
    BY <1>10 DEF Copy
  <2>4. UNCHANGED read_key
    BY <1>10 DEF Copy
  <2>5. \/ client' = "returning" /\ taken' = taken /\ want' = want /\ current' = NoBlock
        \/ client' = "idle" /\ taken' = NoBlock /\ want' = 0 /\ current' = taken
    BY <1>10 DEF Copy
  <2> QED BY <2>0, <2>1, <2>2, <2>3, <2>4, <2>5
<1>11. ASSUME ReturnEmpty  PROVE ClientTypes'
  BY <1>11 DEF ReturnEmpty
<1>12. ASSUME Close  PROVE ClientTypes'
  BY <1>12 DEF Close
<1>13. ASSUME Join  PROVE ClientTypes'
  BY <1>13 DEF Join
<1>14. ASSUME UNCHANGED vars  PROVE ClientTypes'
  BY <1>14
<1> QED
  BY <1>1, <1>2, <1>3, <1>4, <1>5, <1>6, <1>7, <1>8, <1>9, <1>10, <1>11, <1>12, <1>13, <1>14 DEF Next, ReaderStep, ClientStep

-----------------------------------------------------------------------------
(* Until the first error.                                                  *)

\* Nothing is lost with the block acquire_empty gives.
LEMMA TakenIsFree ==
  ASSUME Types, OwnersFit, Acquire, hand' # NoBlock
  PROVE  /\ hand' # taken /\ hand' # current
         /\ \A k \in DOMAIN full : read_key <= k => full[k] # hand'
<1> USE DEF Types, StoreTypes, OwnersFit
<1>0. reader # "ended"
  BY DEF Acquire
<1>1. CASE empty = <<>> /\ hand' = count + 1
  <2>1. \A b \in Blocks : b <= count => b # hand'
    BY <1>1 DEF Blocks
  <2>2. hand' # NoBlock
    OBVIOUS
  <2>3. \A k \in DOMAIN full : full[k] \in Blocks
    OBVIOUS
  <2>4. taken \in Blocks \cup {NoBlock} /\ current \in Blocks \cup {NoBlock}
    BY DEF ClientTypes
  <2> QED BY <1>0, <2>1, <2>2, <2>3, <2>4
<1>2. CASE empty # <<>> /\ hand' = Head(empty)
  <2>1. hand' \in Elements(empty)
    BY <1>0, <1>2, TailKeeps
  <2> QED BY <1>0, <2>1
<1> QED BY <1>1, <1>2, AcquireGives

\* The source.
LEMMA SourceStep ==
  ASSUME Types, SourceFits, KeysFit, OwnersFit, BytesFit, failures' = 0, [Next]_vars
  PROVE  SourceFits'
<1> USE RingAssumption DEF SourceFits, Filling, reading, store, copying, vars
<1>1. ASSUME Open  PROVE SourceFits'
  BY <1>1 DEF Open
<1>2. ASSUME Acquire  PROVE SourceFits'
  BY <1>2, AcquireGives DEF Acquire
<1>3. ASSUME NEW n \in 0..BlockSize, Read(n)  PROVE SourceFits'
  BY <1>3 DEF Read, Types, ReaderTypes, StoreTypes, Content
<1>4. ASSUME ReadFails  PROVE SourceFits'
  BY <1>4 DEF ReadFails, Types, ReaderTypes
<1>5. ASSUME ReturnFull  PROVE SourceFits'
  BY <1>5 DEF ReturnFull
<1>6. ASSUME Stop  PROVE SourceFits'
  BY <1>6 DEF Stop
<1>7. ASSUME NEW size \in Sizes, Call(size)  PROVE SourceFits'
  BY <1>7 DEF Call
<1>8. ASSUME Find  PROVE SourceFits'
  BY <1>8 DEF Find
<1>9. ASSUME TimeOut  PROVE SourceFits'
  BY <1>9 DEF TimeOut
<1>10. ASSUME Copy  PROVE SourceFits'
  BY <1>10 DEF Copy
<1>11. ASSUME ReturnEmpty  PROVE SourceFits'
  BY <1>11 DEF ReturnEmpty
<1>12. ASSUME Close  PROVE SourceFits'
  BY <1>12 DEF Close
<1>13. ASSUME Join  PROVE SourceFits'
  BY <1>13 DEF Join
<1>14. ASSUME UNCHANGED vars  PROVE SourceFits'
  BY <1>14
<1> QED
  BY <1>1, <1>2, <1>3, <1>4, <1>5, <1>6, <1>7, <1>8, <1>9, <1>10, <1>11, <1>12, <1>13, <1>14 DEF Next, ReaderStep, ClientStep

\* The keys from read_key on.
LEMMA KeysStep ==
  ASSUME Types, SourceFits, KeysFit, OwnersFit, BytesFit, failures' = 0, [Next]_vars
  PROVE  KeysFit'
<1> USE RingAssumption DEF KeysFit, reading, store, copying, vars
<1>1. ASSUME Open  PROVE KeysFit'
  BY <1>1 DEF Open
<1>2. ASSUME Acquire  PROVE KeysFit'
  <2>1. \A k \in DOMAIN full : read_key <= k => full[k] \in Blocks /\ full[k] # hand'
    BY <1>2, TakenIsFree, NoBlockIsNone DEF Acquire, Types, StoreTypes
  <2>2. \A k \in DOMAIN full : read_key <= k => block'[full[k]] = block[full[k]]
    BY <1>2, <2>1, AcquireGives DEF Types, StoreTypes
  <2>3. UNCHANGED <<full, read_key, write_key>> /\ reader # "ended"
    BY <1>2 DEF Acquire
  <2> QED BY <2>2, <2>3
<1>3. ASSUME NEW n \in 0..BlockSize, Read(n)  PROVE KeysFit'
  <2>1. \A k \in DOMAIN full : read_key <= k => block'[full[k]] = block[full[k]]
    BY <1>3 DEF Read, OwnersFit, Types, StoreTypes
  <2>2. UNCHANGED <<full, read_key, write_key>> /\ reader # "ended"
    BY <1>3 DEF Read
  <2> QED BY <2>1, <2>2
<1>4. ASSUME ReadFails  PROVE KeysFit'
  BY <1>4 DEF ReadFails, Types, ReaderTypes
<1>5. ASSUME ReturnFull  PROVE KeysFit'
  <2>1. reader \in {"read", "read_last"} /\ block[hand].at = write_key
    BY <1>5 DEF ReturnFull, SourceFits
  <2>2. \A k \in DOMAIN full : k < write_key
    BY <2>1 DEF Types, StoreTypes, ReaderTypes
  <2>3. \A j, k \in DOMAIN full \cup {write_key} :
          read_key <= j /\ read_key <= k /\ Handed[j] = Handed[k] => j = k
    BY <2>1, <2>2 DEF Handed
  <2>4. /\ DOMAIN full' \subseteq DOMAIN full \cup {write_key}
        /\ \A k \in DOMAIN full' : full'[k] = IF k = write_key THEN hand ELSE full[k]
        /\ \A k \in DOMAIN full \cup {write_key} : read_key <= k => k \in DOMAIN full'
    BY <1>5, <2>3, ReturnKeeps
  <2>5. /\ write_key' = write_key + block[hand].len /\ block[hand].len \in Nat
        /\ block[hand].len = 0 => reader' = "ended"
        /\ UNCHANGED <<block, read_key>>
    BY <1>5, <2>1 DEF ReturnFull, Goes, SourceFits, Types, ReaderTypes, StoreTypes, Filling
  <2>6. write_key \in Nat /\ read_key \in Nat /\ DOMAIN full \subseteq Nat
    BY DEF Types, ReaderTypes, StoreTypes, ClientTypes
  <2>7. ASSUME NEW k \in DOMAIN full', read_key <= k
        PROVE  /\ block[full'[k]].at = k
               /\ k < write_key' => /\ block[full'[k]].len > 0
                                    /\ \/ k + block[full'[k]].len = write_key'
                                       \/ /\ k + block[full'[k]].len \in DOMAIN full'
                                          /\ k + block[full'[k]].len < write_key'
               /\ k = write_key' => block[full'[k]].len = 0
    <3>1. CASE k = write_key
      BY <2>1, <2>4, <2>5, <2>6, <2>7, <3>1
    <3>2. CASE k # write_key
      <4>1. k \in DOMAIN full /\ full'[k] = full[k] /\ k < write_key
        BY <2>2, <2>4, <2>7, <3>2
      <4>2. block[full[k]].len \in Nat
        BY <4>1 DEF Types, StoreTypes
      <4>3. k + block[full[k]].len \in DOMAIN full \cup {write_key}
        BY <2>7, <4>1
      <4>4. k + block[full[k]].len \in DOMAIN full' /\ k + block[full[k]].len <= write_key
        BY <2>2, <2>4, <2>6, <2>7, <4>1, <4>2, <4>3
      <4> QED BY <2>5, <2>6, <2>7, <4>1, <4>2, <4>4
    <3> QED BY <3>1, <3>2
  <2>8. \A k \in DOMAIN full' : k <= write_key' /\ (k = write_key' => reader' = "ended")
    BY <2>2, <2>4, <2>5, <2>6
  <2>9. read_key' <= write_key' /\ (read_key' < write_key' => read_key' \in DOMAIN full')
    BY <2>4, <2>5, <2>6
  <2> QED BY <2>5, <2>7, <2>8, <2>9
<1>6. ASSUME Stop  PROVE KeysFit'
  BY <1>6 DEF Stop
<1>7. ASSUME NEW size \in Sizes, Call(size)  PROVE KeysFit'
  BY <1>7 DEF Call
<1>8. ASSUME Find  PROVE KeysFit'
  <2>1. /\ read_key \in DOMAIN full /\ taken' = full[read_key]
        /\ read_key' = read_key + block[full[read_key]].len
        /\ UNCHANGED <<full, block, write_key, reader>>
    BY <1>8 DEF Find
  <2>2. block[full[read_key]].len \in Nat /\ read_key \in Nat /\ DOMAIN full \subseteq Nat /\ write_key \in Nat
    BY <2>1 DEF Types, StoreTypes, ClientTypes, ReaderTypes
  <2>3. read_key <= read_key' /\ read_key' <= write_key
        /\ (read_key' < write_key => read_key' \in DOMAIN full)
    BY <2>1, <2>2
  <2>4. \A k \in DOMAIN full : read_key' <= k => read_key <= k
    BY <2>1, <2>2, <2>3
  <2> QED BY <2>1, <2>3, <2>4
<1>9. ASSUME TimeOut  PROVE KeysFit'
  BY <1>9 DEF TimeOut
<1>10. ASSUME Copy  PROVE KeysFit'
  BY <1>10 DEF Copy
<1>11. ASSUME ReturnEmpty  PROVE KeysFit'
  BY <1>11 DEF ReturnEmpty
<1>12. ASSUME Close  PROVE KeysFit'
  BY <1>12 DEF Close
<1>13. ASSUME Join  PROVE KeysFit'
  BY <1>13 DEF Join
<1>14. ASSUME UNCHANGED vars  PROVE KeysFit'
  BY <1>14
<1> QED
  BY <1>1, <1>2, <1>3, <1>4, <1>5, <1>6, <1>7, <1>8, <1>9, <1>10, <1>11, <1>12, <1>13, <1>14 DEF Next, ReaderStep, ClientStep

\* The owners.
LEMMA OwnersStep ==
  ASSUME Types, SourceFits, KeysFit, OwnersFit, BytesFit, failures' = 0, [Next]_vars
  PROVE  OwnersFit'
<1> USE RingAssumption DEF OwnersFit, reading, store, copying, vars
<1>1. ASSUME Open  PROVE OwnersFit'
  BY <1>1 DEF Open
<1>2. ASSUME Acquire  PROVE OwnersFit'
  <2>1. SUFFICES ASSUME reader' # "ended"  PROVE OwnersFit'
    OBVIOUS
  <2>2. hand' \in Blocks /\ hand' # NoBlock
    BY <1>2, <2>1, AcquireGives, NoBlockIsNone
  <2>3. /\ hand' # taken /\ hand' # current
        /\ \A k \in DOMAIN full : read_key <= k => full[k] # hand'
    BY <1>2, <2>2, TakenIsFree
  <2>4. /\ reader # "ended" /\ empty \in Seq(Blocks) /\ count \in Nat
        /\ UNCHANGED <<full, read_key, taken, current>>
    BY <1>2 DEF Acquire, Types, StoreTypes
  <2>5. /\ Distinct(empty') /\ Elements(empty') \subseteq Elements(empty) \ {hand'}
        /\ hand' <= count' /\ count <= count' /\ count' \in Nat
    <3>1. CASE empty = <<>> /\ UNCHANGED empty /\ hand' = count + 1 /\ count' = count + 1
      <4>1. Elements(empty) = {}
        BY <3>1 DEF Elements
      <4> QED BY <2>4, <3>1, <4>1
    <3>2. CASE empty # <<>> /\ UNCHANGED count /\ empty' = Tail(empty) /\ hand' = Head(empty)
      <4>1. /\ Head(empty) \in Elements(empty) /\ Distinct(empty')
            /\ Elements(empty') = Elements(empty) \ {Head(empty)}
        BY <2>4, <3>2, TailKeeps
      <4> QED BY <2>4, <3>2, <4>1
    <3> QED BY <1>2, <2>2, <3>1, <3>2, AcquireGives
  <2>6. \A b \in Blocks : b \in Int /\ (b <= count => b <= count')
    BY <2>4, <2>5 DEF Blocks
  <2>7. Elements(empty) \subseteq Blocks /\ \A k \in DOMAIN full : full[k] \in Blocks
    BY NoBlockIsNone DEF Types, StoreTypes
  <2>8. taken \in Blocks \cup {NoBlock} /\ current \in Blocks \cup {NoBlock}
    BY DEF Types, ClientTypes
  <2> QED BY <2>2, <2>3, <2>4, <2>5, <2>6, <2>7, <2>8
<1>3. ASSUME NEW n \in 0..BlockSize, Read(n)  PROVE OwnersFit'
  BY <1>3 DEF Read
<1>4. ASSUME ReadFails  PROVE OwnersFit'
  BY <1>4 DEF ReadFails, Types, ReaderTypes
<1>5. ASSUME ReturnFull  PROVE OwnersFit'
  <2>1. SUFFICES ASSUME reader' # "ended"  PROVE OwnersFit'
    OBVIOUS
  <2>2. /\ hand \in Blocks /\ hand # NoBlock /\ reader # "ended" /\ hand' = NoBlock
        /\ UNCHANGED <<empty, count, taken, current, read_key>>
    BY <1>5, NoBlockIsNone DEF ReturnFull, Types, ReaderTypes, Filling
  <2>3. \A k \in DOMAIN full' :
          \/ k \in DOMAIN full /\ full'[k] = full[k]
          \/ full'[k] = hand
    BY <1>5, ReturnKeeps
  <2>4. Elements(empty) \subseteq Blocks /\ NoBlock \notin Elements(empty)
    BY NoBlockIsNone DEF Types
  <2>5. \A k \in DOMAIN full' : full'[k] \in Blocks /\ full'[k] # NoBlock
    BY <1>5, ReturnKeeps, NoBlockIsNone
  <2> QED BY <2>2, <2>3, <2>4, <2>5
<1>6. ASSUME Stop  PROVE OwnersFit'
  BY <1>6 DEF Stop
<1>7. ASSUME NEW size \in Sizes, Call(size)  PROVE OwnersFit'
  BY <1>7 DEF Call
<1>8. ASSUME Find  PROVE OwnersFit'
  <2>1. SUFFICES ASSUME reader # "ended"  PROVE OwnersFit'
    BY <1>8 DEF Find
  <2>2. /\ read_key \in DOMAIN full /\ taken' = full[read_key]
        /\ read_key' = read_key + block[full[read_key]].len
        /\ UNCHANGED <<full, block, empty, count, hand, current, reader>>
    BY <1>8 DEF Find
  <2>3. block[full[read_key]].len \in Nat /\ block[full[read_key]].len > 0 /\ read_key \in Nat
    BY <2>1, <2>2 DEF KeysFit, Types, StoreTypes, ClientTypes, ReaderTypes
  <2>4. ASSUME NEW k \in DOMAIN full, read_key' <= k
        PROVE  read_key <= k /\ full[k] # full[read_key]
    <3>1. k \in Nat /\ read_key < k
      BY <2>2, <2>3, <2>4 DEF Types, StoreTypes
    <3>2. block[full[k]].at = k /\ block[full[read_key]].at = read_key
      BY <2>2, <2>3, <3>1 DEF KeysFit
    <3> QED BY <2>3, <3>1, <3>2
  <2>5. current = NoBlock /\ read_key <= read_key
    BY <1>8, <2>3 DEF Find, BytesFit
  <2> QED BY <2>1, <2>2, <2>4, <2>5
<1>9. ASSUME TimeOut  PROVE OwnersFit'
  BY <1>9 DEF TimeOut
<1>10. ASSUME Copy  PROVE OwnersFit'
  <2>1. /\ taken' \in {taken, NoBlock} /\ current' \in {taken, NoBlock}
        /\ UNCHANGED <<reader, hand, empty, count, full, read_key>>
    BY <1>10 DEF Copy
  <2>2. /\ \A b \in Elements(empty) : b # NoBlock
        /\ \A k \in DOMAIN full : full[k] # NoBlock
    BY NoBlockIsNone DEF Types, StoreTypes
  <2> QED BY <2>1, <2>2
<1>11. ASSUME ReturnEmpty  PROVE OwnersFit'
  <2>1. SUFFICES ASSUME reader # "ended"  PROVE OwnersFit'
    BY <1>11 DEF ReturnEmpty
  <2>2. taken \in Blocks /\ taken # NoBlock /\ current = NoBlock
    BY <1>11, NoBlockIsNone DEF ReturnEmpty, BytesFit, Types, ClientTypes
  <2>3. Distinct(empty') /\ Elements(empty') = Elements(empty) \cup {taken}
    BY <1>11, <2>1, <2>2, AppendKeeps DEF ReturnEmpty, Types, StoreTypes
  <2>4. taken' = NoBlock /\ UNCHANGED <<reader, hand, count, current, full, read_key>>
    BY <1>11 DEF ReturnEmpty
  <2>5. \A k \in DOMAIN full : full[k] # NoBlock
    BY NoBlockIsNone DEF Types, StoreTypes
  <2>6. \A b \in Elements(empty) : b # NoBlock
    BY NoBlockIsNone DEF Types
  <2> QED BY <2>1, <2>2, <2>3, <2>4, <2>5, <2>6
<1>12. ASSUME Close  PROVE OwnersFit'
  BY <1>12 DEF Close
<1>13. ASSUME Join  PROVE OwnersFit'
  BY <1>13 DEF Join
<1>14. ASSUME UNCHANGED vars  PROVE OwnersFit'
  BY <1>14
<1> QED
  BY <1>1, <1>2, <1>3, <1>4, <1>5, <1>6, <1>7, <1>8, <1>9, <1>10, <1>11, <1>12, <1>13, <1>14 DEF Next, ReaderStep, ClientStep

\* The bytes libav has.
LEMMA BytesStep ==
  ASSUME Types, SourceFits, KeysFit, OwnersFit, BytesFit, failures' = 0, [Next]_vars
  PROVE  BytesFit'
<1> USE RingAssumption DEF BytesFit, Held, reading, store, copying, vars
<1>1. ASSUME Open  PROVE BytesFit'
  BY <1>1 DEF Open
<1>2. ASSUME Acquire  PROVE BytesFit'
  <2>1. UNCHANGED <<client, taken, current, offset, got, read_key, torn>>
    BY <1>2 DEF Acquire
  <2>2. ASSUME Held # NoBlock  PROVE block'[Held] = block[Held]
    <3>1. Held \in Blocks
      BY <2>2 DEF Types, ClientTypes
    <3>2. DOMAIN block = Blocks
      BY DEF Types, StoreTypes
    <3>3. CASE hand' = NoBlock
      BY <1>2, <3>3, AcquireGives, NoBlockIsNone
    <3>4. CASE hand' # NoBlock
      <4>1. Held # hand'
        BY <1>2, <3>4, TakenIsFree
      <4>2. block' = [block EXCEPT ![hand'] = Content(Unknown, BlockSize)]
        BY <1>2, <3>4, AcquireGives
      <4> HIDE DEF Held
      <4> QED BY <3>1, <3>2, <4>1, <4>2
    <3> QED BY <3>3, <3>4
  <2> QED BY <2>1, <2>2
<1>3. ASSUME NEW n \in 0..BlockSize, Read(n)  PROVE BytesFit'
  <2>1. UNCHANGED <<client, taken, current, offset, got, read_key, torn>>
    BY <1>3 DEF Read
  <2>2. hand \in Blocks /\ hand # NoBlock /\ reader # "ended"
    BY <1>3, NoBlockIsNone DEF Read, Types, ReaderTypes, Filling
  <2>3. Held # NoBlock => block'[Held] = block[Held]
    BY <1>3, <2>2 DEF Read, OwnersFit, Types, StoreTypes, ClientTypes
  <2> QED BY <2>1, <2>3
<1>4. ASSUME ReadFails  PROVE BytesFit'
  BY <1>4 DEF ReadFails, Types, ReaderTypes
<1>5. ASSUME ReturnFull  PROVE BytesFit'
  BY <1>5 DEF ReturnFull
<1>6. ASSUME Stop  PROVE BytesFit'
  BY <1>6 DEF Stop
<1>7. ASSUME NEW size \in Sizes, Call(size)  PROVE BytesFit'
  BY <1>7 DEF Call
<1>8. ASSUME Find  PROVE BytesFit'
  <2>1. /\ read_key \in DOMAIN full /\ taken' = full[read_key] /\ client' = "copying"
        /\ read_key' = read_key + block[full[read_key]].len
        /\ UNCHANGED <<block, current, offset, got, torn>>
        /\ current = NoBlock /\ client = "finding"
    BY <1>8 DEF Find
  <2>2. full[read_key] # NoBlock /\ block[full[read_key]].len \in Nat /\ read_key \in Nat
    BY <2>1, NoBlockIsNone DEF Types, StoreTypes, ClientTypes
  <2>3. block[full[read_key]].at = read_key
    BY <2>1, <2>2 DEF KeysFit
  <2> QED BY <2>1, <2>2, <2>3
<1>9. ASSUME TimeOut  PROVE BytesFit'
  BY <1>9 DEF TimeOut
<1>10. ASSUME Copy  PROVE BytesFit'
  <2> DEFINE left == block[taken].len - offset
             n == IF left <= want THEN left ELSE want
  <2>0. taken \in Blocks /\ taken # NoBlock /\ Held = taken /\ client = "copying"
    BY <1>10, NoBlockIsNone DEF Copy, Types, ClientTypes
  <2>1. /\ block[taken].len \in Nat /\ offset \in Nat /\ want \in Nat /\ got \in Nat
        /\ block[taken].at \in Int
    BY <2>0 DEF Types, StoreTypes, ClientTypes, Unknown
  <2>2. /\ block[taken].at + offset = got /\ block[taken].at + block[taken].len = read_key
        /\ offset <= block[taken].len
    BY <2>0
  <2>3. ~torn' /\ UNCHANGED <<block, read_key>>
    BY <1>10, <2>2 DEF Copy
  <2>4. CASE left <= want
    <3>1. /\ got' = got + left /\ current' = NoBlock /\ offset' = 0 /\ client' = "returning"
      BY <1>10, <2>4 DEF Copy
    <3>2. got' = read_key
      BY <2>1, <2>2, <3>1
    <3> QED BY <2>3, <3>1, <3>2
  <2>5. CASE ~(left <= want)
    <3>1. /\ got' = got + want /\ current' = taken /\ offset' = offset + want
          /\ client' = "idle" /\ taken' = NoBlock
      BY <1>10, <2>5 DEF Copy
    <3>2. block[taken].at + offset' = got' /\ offset' <= block[taken].len
      BY <2>1, <2>2, <2>5, <3>1
    <3> QED BY <2>0, <2>2, <2>3, <3>1, <3>2
  <2> QED BY <2>4, <2>5
<1>11. ASSUME ReturnEmpty  PROVE BytesFit'
  BY <1>11 DEF ReturnEmpty
<1>12. ASSUME Close  PROVE BytesFit'
  BY <1>12 DEF Close
<1>13. ASSUME Join  PROVE BytesFit'
  BY <1>13 DEF Join
<1>14. ASSUME UNCHANGED vars  PROVE BytesFit'
  BY <1>14
<1> QED
  BY <1>1, <1>2, <1>3, <1>4, <1>5, <1>6, <1>7, <1>8, <1>9, <1>10, <1>11, <1>12, <1>13, <1>14 DEF Next, ReaderStep, ClientStep

\* The invariant holds initially.
LEMMA Start == Init => Inv
<1> SUFFICES ASSUME Init PROVE Inv
  OBVIOUS
<1> USE RingAssumption DEF Init
<1>1. DOMAIN full = {} /\ full = [k \in {} |-> NoBlock]
  OBVIOUS
<1>2. empty = <<>> /\ empty \in Seq(Blocks) /\ Elements(empty) = {} /\ Distinct(empty)
  BY EmptySeq DEF Elements, Distinct
<1>3. ReaderTypes
  BY DEF ReaderTypes, Modes, Filling
<1>4. StoreTypes
  <2>1. IsFiniteSet(DOMAIN full)
    BY <1>1, FS_EmptySet
  <2>2. full \in [DOMAIN full -> Blocks]
    BY <1>1
  <2>3. block \in [Blocks -> [at : Nat \cup {Unknown}, len : 0..BlockSize]]
    BY DEF Content
  <2> QED BY <1>1, <1>2, <2>1, <2>2, <2>3 DEF StoreTypes
<1>5. ClientTypes
  <2>1. torn \in BOOLEAN
    OBVIOUS
  <2> QED BY <2>1 DEF ClientTypes
<1>6. SourceFits /\ KeysFit /\ OwnersFit
  BY <1>1, <1>2 DEF SourceFits, KeysFit, OwnersFit
<1>7. BytesFit
  BY DEF BytesFit, Held
<1> QED BY <1>3, <1>4, <1>5, <1>6, <1>7 DEF Inv, Types, Good

\* The errors of the source are counted.
LEMMA ErrorsStay ==
  ASSUME Types, [Next]_vars, failures' = 0
  PROVE  failures = 0
<1>1. ReadFails => failures' # 0
  BY DEF ReadFails, Types, ReaderTypes
<1>2. ~ReadFails => failures' = failures
  BY DEF Next, ReaderStep, ClientStep, Open, Acquire, Read, ReturnFull, Stop, Call, Find,
         TimeOut, Copy, ReturnEmpty, Close, Join, vars
<1> QED BY <1>1, <1>2

-----------------------------------------------------------------------------
(* The theorems.                                                           *)

\* The invariant of the ring, the read thread and libav.
THEOREM Invariant == Spec => []Inv
<1>1. Init => Inv
  BY Start
<1>2. ASSUME Inv, [Next]_vars  PROVE Inv'
  <2>1. Types'
    BY <1>2, ReaderTypesStep, StoreTypesStep, ClientTypesStep DEF Inv, Types
  <2>2. ASSUME failures' = 0
        PROVE  SourceFits' /\ KeysFit' /\ OwnersFit' /\ BytesFit'
    <3>1. Types /\ SourceFits /\ KeysFit /\ OwnersFit /\ BytesFit
      BY <1>2, <2>2, ErrorsStay DEF Inv, Good
    <3> QED BY <1>2, <2>2, <3>1, SourceStep, KeysStep, OwnersStep, BytesStep
  <2> QED BY <2>1, <2>2 DEF Inv, Good
<1> QED BY <1>1, <1>2, PTL DEF Spec

\* Until the first error libav gets every byte once and in order: what is not
\* read yet is in the ring without a gap, however often blocks are filled
\* again and the lru evicts.
THEOREM BytesArriveInOrder == Spec => []BytesInOrder
<1>1. Inv => UnreadIsKept
  <2> SUFFICES ASSUME Inv, failures = 0
               PROVE  /\ read_key < write_key => read_key \in Unread
                      /\ \A k \in Unread :
                           /\ block[full[k]].at = k /\ block[full[k]].len > 0
                           /\ k + block[full[k]].len \in Unread \cup {write_key}
    BY DEF UnreadIsKept
  <2>1. KeysFit /\ read_key \in Nat /\ write_key \in Nat
    BY DEF Inv, Good, Types, ReaderTypes, ClientTypes
  <2>2. read_key < write_key => read_key \in Unread
    BY <2>1 DEF KeysFit, Unread
  <2>3. ASSUME NEW k \in Unread
        PROVE  /\ block[full[k]].at = k /\ block[full[k]].len > 0
               /\ k + block[full[k]].len \in Unread \cup {write_key}
    <3>1. k \in Nat /\ block[full[k]].len \in Nat
      BY DEF Inv, Types, StoreTypes, Unread
    <3> QED BY <2>1, <3>1 DEF KeysFit, Unread
  <2> QED BY <2>2, <2>3
<1>2. Inv => GivenInOrder
  BY DEF Inv, Good, BytesFit, GivenInOrder
<1>3. Inv => BytesInOrder
  BY <1>1, <1>2 DEF BytesInOrder
<1> QED BY <1>3, Invariant, PTL

\* A block that is still to be read, or being read, is neither being filled
\* nor waiting to be filled.
THEOREM BlocksHaveOneOwner == Spec => []OneOwner
<1>1. Inv => TypeOK
  <2> SUFFICES ASSUME Inv PROVE TypeOK
    OBVIOUS
  <2>1. {hand, taken, current} \subseteq Blocks \cup {NoBlock}
    BY DEF Inv, Types, ReaderTypes, ClientTypes
  <2>2. \A k \in DOMAIN full : full[k] \in Blocks
    BY DEF Inv, Types, StoreTypes
  <2>3. \A b \in Blocks : block[b].at \in Nat \cup {Unknown} /\ block[b].len \in 0..BlockSize
    BY DEF Inv, Types, StoreTypes
  <2>4. /\ mode \in Modes
        /\ reader \in {"ready", "reading", "read", "read_last", "failed", "ended"}
        /\ source \in Nat /\ write_key \in Nat /\ failures \in 0..MaxFailures
    BY DEF Inv, Types, ReaderTypes, Filling
  <2>5. DOMAIN full \subseteq Nat /\ empty \in Seq(Blocks) /\ count \in 0..MaxBlocks
    BY DEF Inv, Types, StoreTypes
  <2>6. /\ client \in {"idle", "finding", "copying", "returning"}
        /\ read_key \in Nat /\ offset \in 0..BlockSize /\ want \in Sizes \cup {0}
        /\ got \in Nat /\ zeros \in Nat /\ torn \in BOOLEAN
    BY DEF Inv, Types, ClientTypes
  <2> QED BY <2>1, <2>2, <2>3, <2>4, <2>5, <2>6 DEF TypeOK
<1>2. ASSUME Inv, failures = 0, reader # "ended"
      PROVE  LET busy == {full[k] : k \in Unread} \cup ({taken, current} \ {NoBlock}) IN
             /\ busy \cap (EmptyBlocks \cup {hand}) = {}
             /\ hand \notin EmptyBlocks
             /\ Cardinality(EmptyBlocks) = Len(empty)
  <2>1. OwnersFit /\ EmptyBlocks = Elements(empty)
    BY <1>2 DEF Inv, Good, EmptyBlocks, Elements
  <2>2. \A k \in Unread : full[k] # hand /\ full[k] \notin Elements(empty)
    BY <1>2, <2>1 DEF OwnersFit, Unread
  <2>3. \A b \in {taken, current} \ {NoBlock} : b # hand /\ b \notin Elements(empty)
    <3>1. hand \in Blocks \cup {NoBlock}
      BY <1>2 DEF Inv, Types, ReaderTypes
    <3> QED BY <1>2, <2>1, <3>1 DEF OwnersFit
  <2>4. hand \notin Elements(empty)
    BY <1>2, <2>1 DEF OwnersFit
  <2>5. Cardinality(Elements(empty)) = Len(empty)
    BY <1>2, <2>1, LengthIsCount DEF OwnersFit, Inv, Types, StoreTypes
  <2> QED BY <2>1, <2>2, <2>3, <2>4, <2>5
<1>3. Inv => OneOwner
  BY <1>1, <1>2 DEF OneOwner
<1> QED BY <1>3, Invariant, PTL

=============================================================================

------------------------ MODULE ParsedRequestProofs ------------------------
(***************************************************************************)
(* Proofs about ParsedRequest for every value of its constants.            *)
(***************************************************************************)
EXTENDS ParsedRequest, SequenceTheorems, WellFoundedInduction, TLAPS

-----------------------------------------------------------------------------
(* The inductive invariant *)

\* No key is live twice in an array, although set only appends and remove only
\* clears: the entry get finds first is the one that was set last.
Unique(hs) == \A i, j \in Live(hs) : hs[i].key = hs[j].key => i = j

\* The allocated blocks are those the object points to, and during a parse
\* the copy of the text.
Owned ==
  /\ ~badFree
  /\ path = "heap" <=> buf # NULL
  /\ phase \in {"idle", "headers"} =>
       heap = OwnBlocks \cup (IF phase = "headers" THEN {Tmp} ELSE {})
  /\ phase = "destroyed" => heap = {}
  /\ phase = "headers" => pos >= 1

ObjectInv == TypeOK /\ Unique(headers) /\ CapacityLeft /\ Owned

-----------------------------------------------------------------------------
(* Facts about the array *)

\* A non-empty set of naturals has a least element.
LEMMA LeastNatural ==
  ASSUME NEW T, T \subseteq Nat, T # {}
  PROVE  \E x \in T : \A y \in T : x <= y
<1> DEFINE R == {ss \in Nat \X Nat : ss[1] < ss[2]}
<1>1. IsWellFoundedOn(R, Nat)
  BY NatLessThanWellFounded DEF OpToRel
<1>2. PICK x \in T : \A y \in T : ~(<<y, x>> \in R)
  <2> HIDE DEF R
  <2> QED  BY <1>1, WFMin
<1>3. ASSUME NEW y \in T PROVE x <= y
  <2>1. <<y, x>> \in Nat \X Nat
    OBVIOUS
  <2>2. ~(<<y, x>>[1] < <<y, x>>[2])
    BY <1>2, <2>1
  <2> QED  BY <2>2
<1> QED  BY <1>3

\* A removed entry has no key.
LEMMA NoKeyIsNoKey == NoKey \notin Keys
<1> SUFFICES ASSUME NEW n \in 1 .. MaxLines, NoKey \in [1 .. n -> Names \cup {Blank}]
             PROVE  FALSE
  BY DEF Keys
<1>1. DOMAIN NoKey = 1 .. n /\ 1 \in 1 .. n
  BY MaxLinesAssumption
<1>2. DOMAIN NoKey = {}
  BY DEF NoKey
<1> QED  BY <1>1, <1>2

\* In an array without duplicates get finds the one entry of its key.
LEMMA GetUnique ==
  ASSUME NEW hs \in Seq(Entry), Unique(hs), NEW k \in Keys, Matches(hs, k) # {}
  PROVE  /\ ParsedHeader_get(hs, k) \in DOMAIN hs
         /\ Matches(hs, k) = {ParsedHeader_get(hs, k)}
<1>1. PICK i \in Matches(hs, k) : TRUE
  OBVIOUS
<1>2. i \in DOMAIN hs /\ DOMAIN hs \subseteq Nat
  BY <1>1, LenProperties DEF Matches
<1>3. \A j \in Matches(hs, k) : j = i
  BY <1>1, NoKeyIsNoKey DEF Matches, Live, Unique
<1>4. i <= i
  BY <1>2
<1>5. ParsedHeader_get(hs, k) = i
  BY <1>1, <1>3, <1>4 DEF ParsedHeader_get
<1> QED  BY <1>1, <1>2, <1>3, <1>5

\* What remove does to an array: the key is gone, everything else stays.
LEMMA RemovedFacts ==
  ASSUME NEW hs \in Seq(Entry), Unique(hs), NEW k \in Keys
  PROVE  LET rs == Removed(hs, k)
         IN  /\ rs \in Seq(Entry) /\ Len(rs) = Len(hs) /\ DOMAIN rs = DOMAIN hs
             /\ Live(rs) = Live(hs) \ Matches(hs, k)
             /\ \A i \in Live(rs) : rs[i] = hs[i] /\ rs[i].key # k
             /\ Unique(rs)
             /\ RemovedBlocks(hs, k) = UNION {Blocks(i) : i \in Matches(hs, k)}
<1> DEFINE rs == Removed(hs, k)
<1>0. DOMAIN hs = 1 .. Len(hs) /\ Len(hs) \in Nat
  BY LenProperties
<1>k. k # NoKey
  BY NoKeyIsNoKey
<1>1. CASE Matches(hs, k) = {}
  <2>1. rs = hs /\ RemovedBlocks(hs, k) = {}
    BY <1>1 DEF Removed, RemovedBlocks
  <2> QED  BY <1>1, <2>1 DEF Live, Matches
<1>2. CASE Matches(hs, k) # {}
  <2> DEFINE g == ParsedHeader_get(hs, k)
  <2>1. g \in DOMAIN hs /\ Matches(hs, k) = {g} /\ hs[g].key = k
    BY <1>2, GetUnique DEF Matches
  <2>2. rs = [hs EXCEPT ![g].key = NoKey] /\ RemovedBlocks(hs, k) = Blocks(g)
    BY <1>2 DEF Removed, RemovedBlocks
  <2> HIDE DEF g, rs
  <2>3. hs[g] \in Entry
    BY <2>1, <1>0
  <2>4. rs = [hs EXCEPT ![g] = [hs[g] EXCEPT !.key = NoKey]] /\ [hs[g] EXCEPT !.key = NoKey] \in Entry
    BY <2>2, <2>3 DEF Entry
  <2>5. rs \in Seq(Entry) /\ Len(rs) = Len(hs) /\ DOMAIN rs = DOMAIN hs
    BY <2>4, <2>1, ExceptSeq
  <2>6. rs[g].key = NoKey /\ \A i \in DOMAIN hs : i # g => rs[i] = hs[i]
    BY <2>4, <2>1, <2>3 DEF Entry
  <2>7. Live(rs) = Live(hs) \ {g}
    BY <2>5, <2>6 DEF Live
  <2>8. \A i \in Live(rs) : rs[i] = hs[i] /\ i # g
    BY <2>5, <2>6 DEF Live
  <2>9. \A i \in Live(rs) : rs[i].key # k
    BY <2>8, <2>1, <2>5 DEF Live, Matches
  <2>10. Unique(rs)
    BY <2>7, <2>8 DEF Unique
  <2>11. RemovedBlocks(hs, k) = UNION {Blocks(i) : i \in Matches(hs, k)}
    BY <2>1, <2>2
  <2> QED  BY <2>1, <2>5, <2>7, <2>8, <2>9, <2>10, <2>11 DEF rs
<1> QED  BY <1>1, <1>2

\* What set does to an array: one live entry for the key, at the end.
LEMMA SetFacts ==
  ASSUME NEW hs \in Seq(Entry), Unique(hs), NEW k \in Keys, NEW v \in Stored
  PROVE  LET ns == Append(Removed(hs, k), [key |-> k, value |-> v])
         IN  /\ ns \in Seq(Entry) /\ Len(ns) = Len(hs) + 1
             /\ Live(ns) = Live(Removed(hs, k)) \cup {Len(hs) + 1}
             /\ \A i \in Live(Removed(hs, k)) : ns[i] = hs[i]
             /\ ns[Len(hs) + 1] = [key |-> k, value |-> v]
             /\ Unique(ns)
<1> DEFINE rs == Removed(hs, k)
           e  == [key |-> k, value |-> v]
           ns == Append(rs, e)
           n  == Len(hs) + 1
<1>1. /\ rs \in Seq(Entry) /\ Len(rs) = Len(hs)
      /\ \A i \in Live(rs) : rs[i] = hs[i] /\ rs[i].key # k
      /\ Unique(rs)
  BY RemovedFacts
<1>2. e \in Entry /\ e.key = k /\ k # NoKey
  BY NoKeyIsNoKey DEF Entry
<1> HIDE DEF rs, e
<1>3. /\ ns \in Seq(Entry) /\ Len(ns) = n
      /\ \A i \in 1 .. Len(rs) : ns[i] = rs[i]
      /\ ns[n] = e
  BY <1>1, <1>2, AppendProperties
<1>4. DOMAIN ns = 1 .. n /\ DOMAIN rs = 1 .. Len(hs) /\ Len(hs) \in Nat
  BY <1>1, <1>3, LenProperties
<1> HIDE DEF ns
<1>5. \A i \in DOMAIN rs : ns[i] = rs[i] /\ i # n
  BY <1>1, <1>3, <1>4
<1>6. DOMAIN ns = DOMAIN rs \cup {n}
  BY <1>4
<1>7. Live(ns) = Live(rs) \cup {n}
  BY <1>2, <1>3, <1>5, <1>6 DEF Live
<1>8. \A i \in Live(rs) : ns[i] = rs[i] /\ ns[i].key # k
  BY <1>1, <1>5 DEF Live
<1>9. Unique(ns)
  BY <1>1, <1>2, <1>3, <1>7, <1>8 DEF Unique
<1> QED  BY <1>1, <1>3, <1>7, <1>8, <1>9 DEF rs, e, ns

\* The map an array stands for is given by its live entries.
LEMMA ValueFacts ==
  ASSUME NEW hs \in Seq(Entry), Unique(hs), NEW k \in Keys
  PROVE  /\ \A i \in Live(hs) : hs[i].key = k => HeaderValue(hs, k) = hs[i].value
         /\ (\A i \in Live(hs) : hs[i].key # k) => HeaderValue(hs, k) = NoValue
<1>1. Matches(hs, k) = {i \in Live(hs) : hs[i].key = k}
  BY NoKeyIsNoKey DEF Matches, Live
<1>2. ASSUME NEW i \in Live(hs), hs[i].key = k
      PROVE  HeaderValue(hs, k) = hs[i].value
  <2>1. Matches(hs, k) # {} /\ i \in Matches(hs, k)
    BY <1>1, <1>2
  <2>2. ParsedHeader_get(hs, k) = i
    BY <2>1, GetUnique
  <2> QED  BY <2>1, <2>2 DEF HeaderValue
<1>3. ASSUME \A i \in Live(hs) : hs[i].key # k PROVE HeaderValue(hs, k) = NoValue
  BY <1>1, <1>3 DEF HeaderValue
<1> QED  BY <1>2, <1>3

\* Two arrays with the same live entries for a key have the same value for it.
LEMMA ValueSame ==
  ASSUME NEW hs \in Seq(Entry), Unique(hs), NEW gs \in Seq(Entry), Unique(gs), NEW k \in Keys,
         \A i \in Live(hs) : hs[i].key = k => i \in Live(gs) /\ gs[i] = hs[i],
         \A i \in Live(gs) : gs[i].key = k => i \in Live(hs) /\ gs[i] = hs[i]
  PROVE  HeaderValue(gs, k) = HeaderValue(hs, k)
<1>1. CASE \E i \in Live(hs) : hs[i].key = k
  BY <1>1, ValueFacts
<1>2. CASE \A i \in Live(hs) : hs[i].key # k
  BY <1>2, ValueFacts
<1> QED  BY <1>1, <1>2

\* After a remove the key has no value and the others have theirs.
LEMMA RemovedValues ==
  ASSUME NEW hs \in Seq(Entry), Unique(hs), NEW k \in Keys, NEW l \in Keys
  PROVE  HeaderValue(Removed(hs, k), l) = IF l = k THEN NoValue ELSE HeaderValue(hs, l)
<1> DEFINE rs == Removed(hs, k)
<1>1. /\ rs \in Seq(Entry) /\ Live(rs) = Live(hs) \ Matches(hs, k)
      /\ \A i \in Live(rs) : rs[i] = hs[i] /\ rs[i].key # k
      /\ Unique(rs)
  BY RemovedFacts
<1> HIDE DEF rs
<1>2. CASE l = k
  BY <1>1, <1>2, ValueFacts DEF rs
<1>3. CASE l # k
  <2>1. \A i \in Live(hs) : hs[i].key = l => i \in Live(rs) /\ rs[i] = hs[i]
    BY <1>1, <1>3 DEF Matches
  <2>2. \A i \in Live(rs) : rs[i].key = l => i \in Live(hs) /\ rs[i] = hs[i]
    BY <1>1
  <2>3. HeaderValue(rs, l) = HeaderValue(hs, l)
    BY <1>1, <2>1, <2>2, ValueSame
  <2> QED  BY <1>3, <2>3 DEF rs
<1> QED  BY <1>2, <1>3

\* After a set the key has the new value and the others have theirs.
LEMMA SetValues ==
  ASSUME NEW hs \in Seq(Entry), Unique(hs), NEW k \in Keys, NEW v \in Stored, NEW l \in Keys
  PROVE  HeaderValue(Append(Removed(hs, k), [key |-> k, value |-> v]), l)
           = IF l = k THEN v ELSE HeaderValue(hs, l)
<1> DEFINE rs == Removed(hs, k)
           ns == Append(rs, [key |-> k, value |-> v])
           n  == Len(hs) + 1
<1>1. /\ rs \in Seq(Entry) /\ Unique(rs)
      /\ \A i \in Live(rs) : rs[i] = hs[i] /\ rs[i].key # k
  BY RemovedFacts
<1>2. /\ ns \in Seq(Entry) /\ Unique(ns) /\ Live(ns) = Live(rs) \cup {n}
      /\ \A i \in Live(rs) : ns[i] = hs[i]
      /\ ns[n] = [key |-> k, value |-> v]
  BY SetFacts
<1>3. HeaderValue(rs, l) = IF l = k THEN NoValue ELSE HeaderValue(hs, l)
  BY RemovedValues
<1> HIDE DEF rs, ns, n
<1>4. CASE l = k
  <2>1. n \in Live(ns) /\ ns[n].key = k /\ ns[n].value = v
    BY <1>2
  <2> QED  BY <1>2, <1>4, <2>1, ValueFacts DEF ns, rs
<1>5. CASE l # k
  <2>1. \A i \in Live(rs) : rs[i].key = l => i \in Live(ns) /\ ns[i] = rs[i]
    BY <1>1, <1>2
  <2>2. \A i \in Live(ns) : ns[i].key = l => i \in Live(rs) /\ ns[i] = rs[i]
    BY <1>1, <1>2, <1>5
  <2>3. HeaderValue(ns, l) = HeaderValue(rs, l)
    BY <1>1, <1>2, <2>1, <2>2, ValueSame
  <2> QED  BY <1>3, <1>5, <2>3 DEF ns, rs
<1> QED  BY <1>4, <1>5

-----------------------------------------------------------------------------
(* Blocks *)

\* The blocks of different entries are different, and none of them is one of
\* the object's own.
LEMMA BlocksApart ==
  ASSUME NEW i, NEW j
  PROVE  /\ i # j => Blocks(i) \cap Blocks(j) = {}
         /\ {Array, Buf, Path, Tmp} \cap Blocks(i) = {}
BY DEF Blocks, Array, Buf, Path, Tmp

\* remove frees exactly the blocks of the entry it clears.
LEMMA RemovedEntryBlocks ==
  ASSUME NEW hs \in Seq(Entry), Unique(hs), NEW k \in Keys
  PROVE  /\ RemovedBlocks(hs, k) \subseteq EntryBlocks(hs)
         /\ EntryBlocks(Removed(hs, k)) = EntryBlocks(hs) \ RemovedBlocks(hs, k)
         /\ {Array, Buf, Path, Tmp} \cap RemovedBlocks(hs, k) = {}
<1>1. /\ Live(Removed(hs, k)) = Live(hs) \ Matches(hs, k)
      /\ RemovedBlocks(hs, k) = UNION {Blocks(i) : i \in Matches(hs, k)}
  BY RemovedFacts
<1>2. Matches(hs, k) \subseteq Live(hs)
  BY NoKeyIsNoKey DEF Matches, Live
<1>3. RemovedBlocks(hs, k) \subseteq EntryBlocks(hs)
  BY <1>1, <1>2 DEF EntryBlocks
<1>4. EntryBlocks(Removed(hs, k)) = EntryBlocks(hs) \ RemovedBlocks(hs, k)
  BY <1>1, <1>2, BlocksApart DEF EntryBlocks
<1>5. {Array, Buf, Path, Tmp} \cap RemovedBlocks(hs, k) = {}
  BY <1>1, BlocksApart
<1> QED  BY <1>3, <1>4, <1>5

\* set allocates the blocks of the entry it adds.
LEMMA SetEntryBlocks ==
  ASSUME NEW hs \in Seq(Entry), Unique(hs), NEW k \in Keys, NEW v \in Stored
  PROVE  EntryBlocks(Append(Removed(hs, k), [key |-> k, value |-> v]))
           = EntryBlocks(Removed(hs, k)) \cup Blocks(Len(hs) + 1)
BY SetFacts DEF EntryBlocks

\* No entry owns one of the object's own blocks.
LEMMA EntryBlocksApart ==
  ASSUME NEW hs
  PROVE  {Array, Buf, Path, Tmp} \cap EntryBlocks(hs) = {}
BY BlocksApart DEF EntryBlocks

\* The object's own blocks are four different ones.
LEMMA OwnApart == Array # Buf /\ Array # Path /\ Array # Tmp /\ Buf # Path /\ Buf # Tmp /\ Path # Tmp
BY DEF Array, Buf, Path, Tmp

-----------------------------------------------------------------------------
(* Printing *)

\* What the loop of ParsedHeader_printHeaders has printed after each entry.
Prints(f, hs, n) ==
  /\ DOMAIN f = 0 .. n /\ f[0] = <<>>
  /\ \A m \in 1 .. n : f[m] = IF hs[m].key = NoKey THEN f[m - 1] ELSE Append(f[m - 1], hs[m])

\* The loop has a result for every array.
LEMMA PrintsExists ==
  ASSUME NEW hs \in Seq(Entry)
  PROVE  \E f : Prints(f, hs, Len(hs))
<1> DEFINE Bad == {n \in 0 .. Len(hs) : ~ \E f : Prints(f, hs, n)}
<1>0. Len(hs) \in Nat
  OBVIOUS
<1>1. SUFFICES Bad = {}
  BY <1>0, <1>1
<1>2. SUFFICES ASSUME Bad # {} PROVE FALSE
  OBVIOUS
<1>3. PICK n \in Bad : \A m \in Bad : n <= m
  <2>1. Bad \subseteq Nat
    BY <1>0
  <2> HIDE DEF Bad
  <2> QED  BY <2>1, <1>2, LeastNatural
<1>4. n \in 0 .. Len(hs) /\ ~ \E f : Prints(f, hs, n)
  OBVIOUS
<1>5. n # 0
  <2>1. Prints([m \in 0 .. 0 |-> <<>>], hs, 0)
    BY DEF Prints
  <2> QED  BY <2>1, <1>4
<1>6. n - 1 \in 0 .. Len(hs) /\ n - 1 \notin Bad
  <2>1. n - 1 \in 0 .. Len(hs) /\ ~(n <= n - 1)
    BY <1>4, <1>5, <1>0
  <2> QED  BY <2>1, <1>3
<1>7. PICK f : Prints(f, hs, n - 1)
  BY <1>6
<1> HIDE DEF Bad
<1> DEFINE new == IF hs[n].key = NoKey THEN f[n - 1] ELSE Append(f[n - 1], hs[n])
           g == [m \in 0 .. n |-> IF m = n THEN new ELSE f[m]]
<1>8. DOMAIN g = 0 .. n /\ g[n] = new /\ \A m \in 0 .. n - 1 : g[m] = f[m]
  BY <1>4, <1>0
<1> HIDE DEF g
<1>9. g[0] = <<>>
  BY <1>4, <1>5, <1>7, <1>8, <1>0 DEF Prints
<1>10. ASSUME NEW m \in 1 .. n
       PROVE  g[m] = IF hs[m].key = NoKey THEN g[m - 1] ELSE Append(g[m - 1], hs[m])
  <2>1. CASE m = n
    <3>1. g[m - 1] = f[n - 1]
      BY <2>1, <1>8, <1>4, <1>5, <1>0
    <3> QED  BY <3>1, <2>1, <1>8
  <2>2. CASE m # n
    <3>1. m \in 1 .. n - 1 /\ g[m] = f[m] /\ g[m - 1] = f[m - 1]
      BY <2>2, <1>8, <1>4, <1>0
    <3> QED  BY <3>1, <1>7 DEF Prints
  <2> QED  BY <2>1, <2>2
<1>11. Prints(g, hs, n)
  BY <1>8, <1>9, <1>10 DEF Prints
<1> QED  BY <1>11, <1>4

\* ParsedHeader_printHeaders returns what its loop has printed at the end.
LEMMA PrintHeadersLoop ==
  ASSUME NEW hs \in Seq(Entry)
  PROVE  \E f : Prints(f, hs, Len(hs)) /\ ParsedHeader_printHeaders(hs) = f[Len(hs)]
<1> DEFINE Loop(f) == f = [n \in 0 .. Len(hs) |->
                             IF n = 0 THEN <<>>
                             ELSE IF hs[n].key = NoKey THEN f[n - 1] ELSE Append(f[n - 1], hs[n])]
           p == CHOOSE f : Loop(f)
<1>0. Len(hs) \in Nat
  OBVIOUS
<1>1. PICK f : Prints(f, hs, Len(hs))
  BY PrintsExists
<1> DEFINE g == [n \in 0 .. Len(hs) |-> f[n]]
<1>2. Loop(g)
  <2>1. ASSUME NEW n \in 0 .. Len(hs)
        PROVE  g[n] = IF n = 0 THEN <<>>
                      ELSE IF hs[n].key = NoKey THEN g[n - 1] ELSE Append(g[n - 1], hs[n])
    <3>1. CASE n = 0
      BY <3>1, <1>1 DEF Prints
    <3>2. CASE n # 0
      <4>1. n \in 1 .. Len(hs) /\ n - 1 \in 0 .. Len(hs)
        BY <3>2, <1>0
      <4>2. g[n] = f[n] /\ g[n - 1] = f[n - 1]
        BY <4>1
      <4> HIDE DEF g
      <4>3. f[n] = IF hs[n].key = NoKey THEN f[n - 1] ELSE Append(f[n - 1], hs[n])
        BY <4>1, <1>1 DEF Prints
      <4> QED  BY <4>2, <4>3, <3>2
    <3> QED  BY <3>1, <3>2
  <2> QED  BY <2>1
<1>3. Loop(p)
  <2> HIDE DEF Loop
  <2> QED  BY <1>2
<1>4. ParsedHeader_printHeaders(hs) = p[Len(hs)]
  BY DEF ParsedHeader_printHeaders
<1> HIDE DEF p
<1>5. DOMAIN p = 0 .. Len(hs) /\ \A n \in 0 .. Len(hs) :
        p[n] = IF n = 0 THEN <<>>
               ELSE IF hs[n].key = NoKey THEN p[n - 1] ELSE Append(p[n - 1], hs[n])
  BY <1>3
<1>6. Prints(p, hs, Len(hs))
  <2>1. p[0] = <<>>
    BY <1>0, <1>5
  <2>2. ASSUME NEW m \in 1 .. Len(hs)
        PROVE  p[m] = IF hs[m].key = NoKey THEN p[m - 1] ELSE Append(p[m - 1], hs[m])
    <3>1. m \in 0 .. Len(hs) /\ m # 0
      BY <1>0
    <3> QED  BY <3>1, <1>5
  <2> QED  BY <2>1, <2>2, <1>5 DEF Prints
<1> QED  BY <1>4, <1>6

\* The loop prints the live entries, each of them, and no key twice.
LEMMA PrintsLive ==
  ASSUME NEW hs \in Seq(Entry), Unique(hs), NEW f, Prints(f, hs, Len(hs))
  PROVE  \A n \in 0 .. Len(hs) :
           /\ f[n] \in Seq(Entry)
           /\ \A i \in DOMAIN f[n] : \E j \in Live(hs) : j <= n /\ f[n][i] = hs[j]
           /\ \A j \in Live(hs) : j <= n => \E i \in DOMAIN f[n] : f[n][i] = hs[j]
           /\ \A i, l \in DOMAIN f[n] : f[n][i].key = f[n][l].key => i = l
<1> DEFINE Good(n) == /\ f[n] \in Seq(Entry)
                      /\ \A i \in DOMAIN f[n] : \E j \in Live(hs) : j <= n /\ f[n][i] = hs[j]
                      /\ \A j \in Live(hs) : j <= n => \E i \in DOMAIN f[n] : f[n][i] = hs[j]
                      /\ \A i, l \in DOMAIN f[n] : f[n][i].key = f[n][l].key => i = l
           Bad == {n \in 0 .. Len(hs) : ~Good(n)}
<1>0. Len(hs) \in Nat /\ DOMAIN hs = 1 .. Len(hs) /\ Live(hs) \subseteq 1 .. Len(hs)
  BY LenProperties DEF Live
<1>1. Good(0)
  <2>1. f[0] = <<>>
    BY DEF Prints
  <2>2. DOMAIN f[0] = {} /\ f[0] \in Seq(Entry)
    BY <2>1
  <2>3. \A j \in Live(hs) : ~(j <= 0)
    BY <1>0
  <2> QED  BY <2>2, <2>3
<1>2. ASSUME NEW n \in 1 .. Len(hs), Good(n - 1) PROVE Good(n)
  <2> DEFINE p == f[n - 1]
             q == f[n]
  <2>0. n \in Nat /\ n - 1 \in Nat /\ n \in DOMAIN hs /\ hs[n] \in Entry
    BY <1>0
  <2>1. /\ p \in Seq(Entry)
        /\ \A i \in DOMAIN p : \E j \in Live(hs) : j <= n - 1 /\ p[i] = hs[j]
        /\ \A j \in Live(hs) : j <= n - 1 => \E i \in DOMAIN p : p[i] = hs[j]
        /\ \A i, l \in DOMAIN p : p[i].key = p[l].key => i = l
    BY <1>2
  <2>2. q = IF hs[n].key = NoKey THEN p ELSE Append(p, hs[n])
    BY DEF Prints
  <2> HIDE DEF p, q
  <2>3. CASE hs[n].key = NoKey
    <3>1. q = p /\ n \notin Live(hs)
      BY <2>2, <2>3 DEF Live
    <3>2. \A j \in Live(hs) : j <= n <=> j <= n - 1
      <4>1. \A j \in Live(hs) : j # n /\ j \in Nat
        BY <3>1, <1>0
      <4> QED  BY <4>1, <2>0
    <3> QED  BY <3>1, <3>2, <2>1 DEF p, q
  <2>4. CASE hs[n].key # NoKey
    <3>1. q = Append(p, hs[n]) /\ n \in Live(hs)
      BY <2>2, <2>4, <2>0 DEF Live
    <3>2. /\ q \in Seq(Entry) /\ DOMAIN q = DOMAIN p \cup {Len(p) + 1}
          /\ Len(p) + 1 \notin DOMAIN p
          /\ q[Len(p) + 1] = hs[n] /\ \A i \in DOMAIN p : q[i] = p[i]
      BY <3>1, <2>1, <2>0, AppendProperties, LenProperties
    <3>3. \A j \in Live(hs) : j \in Nat /\ (j <= n => j <= n - 1 \/ j = n) /\ (j <= n - 1 => j <= n /\ j # n)
      BY <1>0, <2>0
    <3>4. ASSUME NEW i \in DOMAIN q PROVE \E j \in Live(hs) : j <= n /\ q[i] = hs[j]
      <4>1. CASE i = Len(p) + 1
        <5>1. n <= n
          BY <2>0
        <5> QED  BY <4>1, <5>1, <3>1, <3>2
      <4>2. CASE i \in DOMAIN p
        <5>1. PICK j \in Live(hs) : j <= n - 1 /\ p[i] = hs[j]
          BY <4>2, <2>1
        <5>2. j <= n
          BY <5>1, <3>3
        <5> QED  BY <4>2, <5>1, <5>2, <3>2
      <4> QED  BY <4>1, <4>2, <3>2
    <3>5. ASSUME NEW j \in Live(hs), j <= n PROVE \E i \in DOMAIN q : q[i] = hs[j]
      <4>1. CASE j = n
        BY <4>1, <3>2
      <4>2. CASE j <= n - 1
        <5>1. PICK i \in DOMAIN p : p[i] = hs[j]
          BY <4>2, <2>1
        <5> QED  BY <5>1, <3>2
      <4> QED  BY <4>1, <4>2, <3>3, <3>5
    <3>6. \A i \in DOMAIN p : p[i].key # hs[n].key
      BY <3>1, <3>3, <2>1 DEF Unique
    <3>7. \A i, l \in DOMAIN q : q[i].key = q[l].key => i = l
      BY <3>2, <3>6, <2>1
    <3> QED  BY <3>2, <3>4, <3>5, <3>7 DEF q
  <2> QED  BY <2>3, <2>4
<1> HIDE DEF Good
<1>3. Bad = {}
  <2> SUFFICES ASSUME Bad # {} PROVE FALSE
    OBVIOUS
  <2>1. Bad \subseteq Nat
    BY <1>0
  <2>2. PICK n \in Bad : \A m \in Bad : n <= m
    <3> HIDE DEF Bad
    <3> QED  BY <2>1, LeastNatural
  <2>3. n \in 1 .. Len(hs) /\ ~Good(n)
    BY <1>0, <1>1, <2>2
  <2>4. n - 1 \in 0 .. Len(hs) /\ ~(n <= n - 1)
    BY <2>3, <1>0
  <2>5. Good(n - 1)
    BY <2>2, <2>4
  <2> QED  BY <2>3, <2>5, <1>2
<1> QED  BY <1>3 DEF Good

\* What is printed from an array without duplicates is the map it stands for.
LEMMA PrintedFacts ==
  ASSUME NEW hs \in Seq(Entry), Unique(hs)
  PROVE  LET out == ParsedHeader_printHeaders(hs)
         IN  /\ \A i \in DOMAIN out : out[i].key \in Keys /\ HeaderValue(hs, out[i].key) = out[i].value
             /\ \A i, j \in DOMAIN out : out[i].key = out[j].key => i = j
             /\ \A k \in Keys : HeaderValue(hs, k) # NoValue => \E i \in DOMAIN out : out[i].key = k
<1> DEFINE out == ParsedHeader_printHeaders(hs)
<1>0. Len(hs) \in Nat /\ DOMAIN hs = 1 .. Len(hs)
  BY LenProperties
<1>1. PICK f : Prints(f, hs, Len(hs)) /\ out = f[Len(hs)]
  BY PrintHeadersLoop
<1>2. Len(hs) \in 0 .. Len(hs) /\ \A j \in Live(hs) : j <= Len(hs) /\ hs[j] \in Entry /\ hs[j].key # NoKey
  BY <1>0 DEF Live
<1>3. /\ \A i \in DOMAIN out : \E j \in Live(hs) : out[i] = hs[j]
      /\ \A j \in Live(hs) : \E i \in DOMAIN out : out[i] = hs[j]
      /\ \A i, l \in DOMAIN out : out[i].key = out[l].key => i = l
  BY <1>1, <1>2, PrintsLive
<1> HIDE DEF out
<1>4. ASSUME NEW i \in DOMAIN out
      PROVE  out[i].key \in Keys /\ HeaderValue(hs, out[i].key) = out[i].value
  <2>1. PICK j \in Live(hs) : out[i] = hs[j]
    BY <1>3
  <2>2. hs[j].key \in Keys
    BY <1>2 DEF Entry
  <2> QED  BY <2>1, <2>2, ValueFacts
<1>5. ASSUME NEW k \in Keys, HeaderValue(hs, k) # NoValue
      PROVE  \E i \in DOMAIN out : out[i].key = k
  <2>1. PICK j \in Live(hs) : hs[j].key = k
    BY <1>5, ValueFacts
  <2> QED  BY <2>1, <1>3
<1> QED  BY <1>3, <1>4, <1>5 DEF out

-----------------------------------------------------------------------------
(* Parsing a header line *)

\* The key a header line is filed under is a key, and its value one that the
\* array may hold.
LEMMA HeaderLine ==
  ASSUME TypeOK, pos >= 1, AtHeader, ValueEnds
  PROVE  KeyHere \in Keys /\ ValueHere \in Stored
<1>1. PICK m \in 0 .. MaxLines : lines \in [1 .. m -> Line]
  BY DEF TypeOK, Lines
<1>2. Len(lines) = m /\ m \in Nat /\ m <= MaxLines /\ pos \in Nat /\ MaxLines \in Nat
  BY <1>1, MaxLinesAssumption DEF TypeOK
<1>3. Colons(pos) \subseteq Nat /\ Colons(pos) # {}
  BY <1>2 DEF Colons, AtHeader
<1>4. NextColon \in Colons(pos)
  BY <1>3, LeastNatural DEF NextColon
<1>5. NextColon \in pos .. m /\ lines[NextColon].rest # NoValue
  BY <1>2, <1>4 DEF Colons
<1> HIDE DEF NextColon
<1>6. \A i \in pos .. m : lines[i] \in Line
  BY <1>1, <1>2
<1>7. ValueHere \in Stored
  <2>1. lines[NextColon] \in Line
    BY <1>5, <1>6
  <2>2. lines[NextColon].rest \in Rests
    BY <1>5, <2>1 DEF Line
  <2>3. CASE lines[NextColon].rest # <<>>
    BY <2>2, <2>3 DEF ValueHere, Stored
  <2>4. CASE lines[NextColon].rest = <<>>
    <3>1. LineEnds(NextColon + 1)
      BY <2>4 DEF ValueEnds
    <3>2. NextColon + 1 \in pos .. m
      BY <3>1, <1>2, <1>5 DEF LineEnds
    <3>3. lines[NextColon + 1] \in Line
      BY <3>2, <1>6
    <3> QED  BY <2>4, <3>3 DEF ValueHere, Stored
  <2> QED  BY <2>3, <2>4
<1> DEFINE n == NextColon - pos + 1
<1>8. n \in 1 .. MaxLines
  BY <1>2, <1>5
<1>9. ASSUME NEW i \in 1 .. n PROVE lines[pos + i - 1].name \in Names \cup {Blank}
  <2>1. pos + i - 1 \in pos .. m
    BY <1>2, <1>5
  <2> QED  BY <2>1, <1>6 DEF Line
<1>10. KeyHere \in [1 .. n -> Names \cup {Blank}]
  BY <1>9 DEF KeyHere
<1> QED  BY <1>7, <1>8, <1>10 DEF Keys

-----------------------------------------------------------------------------
(* The steps *)

\* ParsedHeader_set keeps the array well typed, without duplicates and with
\* room, frees only what is allocated and owns what it allocates.
LEMMA SetStep ==
  ASSUME ObjectInv, phase \in {"idle", "headers"}, NEW k \in Keys, NEW v \in Stored, Set(k, v),
         UNCHANGED <<phase, buf, path>>
  PROVE  /\ headers' \in Seq(Entry) /\ Unique(headers') /\ headerslen' \in Nat
         /\ Len(headers') < headerslen'
         /\ badFree' = FALSE
         /\ heap' = (OwnBlocks \cup (IF phase = "headers" THEN {Tmp} ELSE {}))'
<1> USE DEF ObjectInv
<1>1. headers \in Seq(Entry) /\ Unique(headers) /\ Len(headers) \in Nat /\ headerslen \in Nat
  BY LenProperties DEF TypeOK
<1> DEFINE rb == RemovedBlocks(headers, k)
           ns == Append(Removed(headers, k), [key |-> k, value |-> v])
<1>2. /\ headers' = ns /\ headerslen' = Grown(Len(headers))
      /\ heap' = (heap \ rb) \cup Blocks(Len(headers) + 1)
      /\ Frees(rb)
  BY DEF Set
<1>3. ns \in Seq(Entry) /\ Len(ns) = Len(headers) + 1 /\ Unique(ns)
  BY <1>1, SetFacts
<1>4. EntryBlocks(ns) = (EntryBlocks(headers) \ rb) \cup Blocks(Len(headers) + 1)
  BY <1>1, SetEntryBlocks, RemovedEntryBlocks
<1>5. rb \subseteq EntryBlocks(headers) /\ {Array, Buf, Path, Tmp} \cap rb = {}
  BY <1>1, RemovedEntryBlocks
<1> HIDE DEF rb, ns
<1>6. Len(headers) < headerslen
  BY DEF CapacityLeft
<1>7. headerslen' \in Nat /\ Len(headers) + 1 < headerslen'
  BY <1>1, <1>2, <1>6 DEF Grown
<1>8. heap = OwnBlocks \cup (IF phase = "headers" THEN {Tmp} ELSE {}) /\ ~badFree /\ path # "inner"
  BY DEF Owned, TypeOK, NULL
<1>9. badFree' = FALSE
  <2>1. rb \subseteq heap
    BY <1>5, <1>8 DEF OwnBlocks
  <2> QED  BY <2>1, <1>2, <1>8 DEF Frees
<1>10. heap' = (OwnBlocks \cup (IF phase = "headers" THEN {Tmp} ELSE {}))'
  <2> DEFINE own == (IF buf # NULL THEN {Buf} ELSE {}) \cup (IF path = "heap" THEN {Path} ELSE {})
                    \cup {Array} \cup (IF phase = "headers" THEN {Tmp} ELSE {})
  <2>1. heap = own \cup EntryBlocks(headers)
    BY <1>8 DEF OwnBlocks
  <2>2. (OwnBlocks \cup (IF phase = "headers" THEN {Tmp} ELSE {}))' = own \cup EntryBlocks(ns)
    BY <1>2, <1>8 DEF OwnBlocks
  <2>3. own \cap rb = {}
    BY <1>5
  <2> HIDE DEF own
  <2> QED  BY <2>1, <2>2, <2>3, <1>2, <1>4
<1> QED  BY <1>2, <1>3, <1>7, <1>9, <1>10

\* Removing a key, also in a set that then finds no memory, keeps the array
\* well typed and without duplicates and frees only what is allocated.
LEMMA RemoveStep ==
  ASSUME ObjectInv, phase \in {"idle", "headers"}, NEW k \in Keys,
         headers' = Removed(headers, k), heap' = heap \ RemovedBlocks(headers, k),
         Frees(RemovedBlocks(headers, k)), UNCHANGED <<phase, buf, path>>
  PROVE  /\ headers' \in Seq(Entry) /\ Unique(headers') /\ Len(headers') = Len(headers)
         /\ badFree' = FALSE
         /\ heap' = (OwnBlocks \cup (IF phase = "headers" THEN {Tmp} ELSE {}))'
<1> USE DEF ObjectInv
<1>1. headers \in Seq(Entry) /\ Unique(headers) /\ path # "inner"
  BY DEF TypeOK, NULL
<1>2. headers' \in Seq(Entry) /\ Len(headers') = Len(headers) /\ Unique(headers')
  BY <1>1, RemovedFacts
<1> DEFINE rb == RemovedBlocks(headers, k)
           own == (IF buf # NULL THEN {Buf} ELSE {}) \cup (IF path = "heap" THEN {Path} ELSE {})
                  \cup {Array} \cup (IF phase = "headers" THEN {Tmp} ELSE {})
<1>3. /\ rb \subseteq EntryBlocks(headers)
      /\ EntryBlocks(headers') = EntryBlocks(headers) \ rb
      /\ {Array, Buf, Path, Tmp} \cap rb = {}
  BY <1>1, RemovedEntryBlocks
<1>4. heap = own \cup EntryBlocks(headers) /\ ~badFree
  BY <1>1 DEF Owned, OwnBlocks
<1>5. heap' = heap \ rb /\ Frees(rb)
  OBVIOUS
<1>6. own \cap rb = {}
  BY <1>3
<1>7. (OwnBlocks \cup (IF phase = "headers" THEN {Tmp} ELSE {}))' = own \cup EntryBlocks(headers')
  BY <1>1 DEF OwnBlocks
<1> HIDE DEF rb, own
<1>8. badFree' = FALSE
  BY <1>3, <1>4, <1>5 DEF Frees
<1>9. heap' = own \cup EntryBlocks(headers')
  BY <1>3, <1>4, <1>5, <1>6
<1> QED  BY <1>2, <1>7, <1>8, <1>9

\* A set that succeeds or fails leaves the array well typed, without
\* duplicates and with room, and the heap as the object owns it.
LEMMA SetOrFailStep ==
  ASSUME ObjectInv, phase \in {"idle", "headers"}, NEW k \in Keys, NEW v \in Stored,
         Set(k, v) \/ SetFails(k), UNCHANGED <<phase, buf, path>>
  PROVE  /\ headers' \in Seq(Entry) /\ Unique(headers') /\ headerslen' \in Nat
         /\ Len(headers') < headerslen' /\ array' \in {NULL, "heap"}
         /\ badFree' = FALSE
         /\ heap' = (OwnBlocks \cup (IF phase = "headers" THEN {Tmp} ELSE {}))'
<1>1. array \in {NULL, "heap"} /\ headers \in Seq(Entry) /\ headerslen \in Nat /\ Len(headers) < headerslen
  BY DEF ObjectInv, TypeOK, CapacityLeft
<1>2. CASE Set(k, v)
  <2>1. array' = array
    BY <1>2 DEF Set
  <2> QED  BY <1>1, <1>2, <2>1, SetStep
<1>3. CASE SetFails(k)
  <2>1. /\ headers' = Removed(headers, k) /\ heap' = heap \ RemovedBlocks(headers, k)
        /\ Frees(RemovedBlocks(headers, k)) /\ headerslen' = 2 * headerslen /\ array' = NULL
    BY <1>3 DEF SetFails
  <2>2. /\ headers' \in Seq(Entry) /\ Unique(headers') /\ Len(headers') = Len(headers)
        /\ badFree' = FALSE
        /\ heap' = (OwnBlocks \cup (IF phase = "headers" THEN {Tmp} ELSE {}))'
    BY <2>1, RemoveStep
  <2>3. Len(headers) \in Nat
    BY <1>1, LenProperties
  <2>4. headerslen' \in Nat /\ Len(headers') < headerslen'
    BY <1>1, <2>1, <2>2, <2>3
  <2> QED  BY <2>1, <2>2, <2>4
<1> QED  BY <1>2, <1>3

\* Every step of the object keeps the invariant.
LEMMA InvStep == ObjectInv /\ [Next]_vars => ObjectInv'
<1> SUFFICES ASSUME ObjectInv, [Next]_vars PROVE ObjectInv'
  OBVIOUS
<1> USE DEF ObjectInv
<1>t. TypeOK /\ Unique(headers) /\ Owned /\ CapacityLeft
  OBVIOUS
<1>0. /\ headers \in Seq(Entry) /\ Unique(headers) /\ Len(headers) \in Nat
      /\ path # "inner" /\ NULL # "heap"
  BY LenProperties DEF TypeOK, NULL
<1>1. CASE ParsedHeader_set
  <2>1. phase = "idle" /\ UNCHANGED <<phase, buf, path, lines, pos, open>> /\ ret' \in {0, -1}
    BY <1>1 DEF ParsedHeader_set
  <2>2. PICK k \in Keys : (\E v \in Values : Set(k, v)) \/ SetFails(k)
    BY <1>1, UserKeysAssumption DEF ParsedHeader_set
  <2>3. PICK v \in Stored : Set(k, v) \/ SetFails(k)
    <3>1. CASE \E v \in Values : Set(k, v)
      BY <3>1 DEF Stored
    <3>2. CASE SetFails(k)
      <4>1. <<LF>> \o LineText([name |-> Blank, rest |-> NoValue]) \in Stored
        BY DEF Stored, Line
      <4> QED  BY <3>2, <4>1
    <3> QED  BY <2>2, <3>1, <3>2
  <2>4. /\ headers' \in Seq(Entry) /\ Unique(headers') /\ headerslen' \in Nat
        /\ Len(headers') < headerslen' /\ array' \in {NULL, "heap"} /\ badFree' = FALSE
        /\ heap' = (OwnBlocks \cup (IF phase = "headers" THEN {Tmp} ELSE {}))'
    BY <2>1, <2>3, SetOrFailStep
  <2>5. TypeOK'
    BY <2>1, <2>4 DEF TypeOK
  <2>6. CapacityLeft'
    BY <2>4 DEF CapacityLeft
  <2>7. Owned'
    BY <2>1, <2>4 DEF Owned
  <2> QED  BY <2>4, <2>5, <2>6, <2>7
<1>2. CASE Crash
  <2> USE <1>2 DEF Crash
  <2>1. TypeOK'
    BY DEF TypeOK
  <2>2. CapacityLeft' /\ Unique(headers') /\ Owned'
    BY DEF CapacityLeft, Owned, AtHeader
  <2> QED  BY <2>1, <2>2
<1>3. CASE ParsedHeader_remove
  <2>1. phase = "idle" /\ UNCHANGED <<phase, buf, path, array, headerslen, lines, pos, open>>
    BY <1>3 DEF ParsedHeader_remove
  <2>2. PICK k \in Keys : /\ headers' = Removed(headers, k)
                          /\ heap' = heap \ RemovedBlocks(headers, k)
                          /\ Frees(RemovedBlocks(headers, k))
                          /\ ret' \in {0, -1}
    BY <1>3, UserKeysAssumption DEF ParsedHeader_remove
  <2>3. /\ headers' \in Seq(Entry) /\ Unique(headers') /\ Len(headers') = Len(headers)
        /\ badFree' = FALSE
        /\ heap' = (OwnBlocks \cup (IF phase = "headers" THEN {Tmp} ELSE {}))'
    BY <2>1, <2>2, RemoveStep
  <2>4. TypeOK'
    BY <2>1, <2>2, <2>3 DEF TypeOK
  <2>5. CapacityLeft' /\ Owned'
    BY <2>1, <2>3 DEF CapacityLeft, Owned
  <2> QED  BY <2>3, <2>4, <2>5
<1>4. CASE ParseAgain
  <2> USE <1>4 DEF ParseAgain
  <2>1. TypeOK'
    BY DEF TypeOK
  <2>2. Unique(headers') /\ CapacityLeft'
    BY DEF CapacityLeft
  <2>3. OwnBlocks' = OwnBlocks
    BY DEF OwnBlocks
  <2> QED  BY <2>1, <2>2, <2>3 DEF Owned
<1>5. CASE ParseRefused
  <2>1. /\ phase = "idle" /\ buf = NULL /\ ret' = -1
        /\ UNCHANGED <<phase, buf, array, headers, headerslen, lines, pos, open>>
    BY <1>5 DEF ParseRefused
  <2>2. PICK line \in Refused :
          /\ heap' = (heap \cup Allocated(line)) \ Freed(line)
          /\ badFree' = (badFree \/ ~(Freed(line) \subseteq heap \cup Allocated(line)))
          /\ path' = NULL
    BY <1>5 DEF ParseRefused, PathAfter
  <2>3. Freed(line) = Allocated(line) /\ Freed(line) \subseteq {Tmp, Buf, Path}
    BY DEF Freed, Allocated
  <2>4. path = NULL /\ heap = EntryBlocks(headers) \cup {Array} /\ ~badFree
    BY <2>1, <1>0 DEF Owned, OwnBlocks, TypeOK
  <2>5. heap \cap {Tmp, Buf, Path} = {}
    BY <2>4, EntryBlocksApart, OwnApart
  <2>6. heap' = heap /\ badFree' = FALSE
    BY <2>2, <2>3, <2>4, <2>5
  <2>7. OwnBlocks' = OwnBlocks
    BY <2>1, <2>2, <2>4 DEF OwnBlocks
  <2>8. TypeOK'
    BY <2>1, <2>2, <2>6 DEF TypeOK
  <2>9. CapacityLeft' /\ Unique(headers')
    BY <2>1 DEF CapacityLeft
  <2>10. Owned'
    BY <2>1, <2>2, <2>4, <2>6, <2>7 DEF Owned
  <2> QED  BY <2>8, <2>9, <2>10
<1>6. CASE ParseAccepted
  <2> USE <1>6 DEF ParseAccepted
  <2>1. TypeOK'
    BY DEF TypeOK, Texts
  <2>2. CapacityLeft' /\ Unique(headers')
    BY DEF CapacityLeft
  <2>3. path = NULL /\ heap = EntryBlocks(headers) \cup {Array} /\ ~badFree
    BY <1>0 DEF Owned, OwnBlocks, TypeOK
  <2>4. OwnBlocks' = EntryBlocks(headers) \cup {Array, Buf, Path}
    BY <1>0 DEF OwnBlocks
  <2>5. heap' = OwnBlocks' \cup {Tmp}
    BY <2>3, <2>4
  <2>6. Owned'
    BY <2>3, <2>5, <1>0 DEF Owned
  <2> QED  BY <2>1, <2>2, <2>6
<1>7. CASE ParseHeader
  <2>1. /\ phase = "headers" /\ AtHeader /\ ValueEnds /\ pos' = pos + 1
        /\ UNCHANGED <<phase, buf, path, lines, open, ret>> /\ pos >= 1 /\ pos \in Nat
        /\ Set(KeyHere, ValueHere) \/ SetFails(KeyHere)
    BY <1>7 DEF ParseHeader, AtHeader, Owned, TypeOK
  <2>2. KeyHere \in Keys /\ ValueHere \in Stored
    BY <2>1, HeaderLine
  <2>3. /\ headers' \in Seq(Entry) /\ Unique(headers') /\ headerslen' \in Nat
        /\ Len(headers') < headerslen' /\ array' \in {NULL, "heap"} /\ badFree' = FALSE
        /\ heap' = (OwnBlocks \cup (IF phase = "headers" THEN {Tmp} ELSE {}))'
    BY <2>1, <2>2, SetOrFailStep
  <2>n. pos' \in Nat /\ pos' >= 1 /\ UNCHANGED <<phase, buf, path, lines, open, ret>>
    BY <2>1
  <2>4. TypeOK'
    BY <2>n, <2>3 DEF TypeOK
  <2>5. CapacityLeft'
    BY <2>3 DEF CapacityLeft
  <2>6. Owned'
    BY <2>1, <2>n, <2>3 DEF Owned
  <2> QED  BY <2>3, <2>4, <2>5, <2>6
<1>8. CASE ParseEnds
  <2> USE <1>8 DEF ParseEnds
  <2>1. heap = OwnBlocks \cup {Tmp} /\ ~badFree
    BY DEF Owned
  <2>2. Tmp \notin OwnBlocks
    BY EntryBlocksApart, OwnApart, <1>0 DEF OwnBlocks
  <2>3. badFree' = FALSE /\ heap' = OwnBlocks
    BY <2>1, <2>2 DEF Frees
  <2>4. OwnBlocks' = OwnBlocks
    BY DEF OwnBlocks
  <2>5. lines' \in Lines
    <3>1. <<>> \in [1 .. 0 -> Line] /\ 0 \in 0 .. MaxLines
      BY MaxLinesAssumption
    <3> QED  BY <3>1 DEF Lines
  <2>6. TypeOK'
    BY <2>3, <2>5 DEF TypeOK
  <2>7. CapacityLeft' /\ Unique(headers') /\ Owned'
    BY <2>3, <2>4 DEF CapacityLeft, Owned
  <2> QED  BY <2>6, <2>7
<1>9. CASE ParsedRequest_unparse
  <2> USE <1>9 DEF ParsedRequest_unparse
  <2>1. TypeOK'
    BY DEF TypeOK
  <2>2. Unique(headers') /\ CapacityLeft'
    BY DEF CapacityLeft
  <2>3. OwnBlocks' = OwnBlocks
    BY DEF OwnBlocks
  <2> QED  BY <2>1, <2>2, <2>3 DEF Owned
<1>10. CASE ParsedRequest_destroy
  <2> USE <1>10 DEF ParsedRequest_destroy
  <2>1. heap = OwnBlocks /\ ~badFree
    BY DEF Owned
  <2>2. badFree' = FALSE /\ heap' = {}
    BY <2>1 DEF Frees
  <2>3. headers' \in Seq(Entry) /\ Unique(headers')
    BY DEF Unique, Live
  <2>4. TypeOK'
    BY <2>2, <2>3 DEF TypeOK
  <2>5. CapacityLeft' /\ Owned'
    BY <2>2 DEF CapacityLeft, Owned
  <2> QED  BY <2>3, <2>4, <2>5
<1>11. CASE UNCHANGED vars
  <2> USE <1>11 DEF vars
  <2>1. TypeOK'
    BY DEF TypeOK
  <2>2. Unique(headers') /\ CapacityLeft'
    BY DEF CapacityLeft
  <2>3. OwnBlocks' = OwnBlocks
    BY DEF OwnBlocks
  <2> QED  BY <2>1, <2>2, <2>3 DEF Owned
<1> QED
  BY <1>1, <1>2, <1>3, <1>4, <1>5, <1>6, <1>7, <1>8, <1>9, <1>10, <1>11 DEF Next

\* A new object has the invariant.
LEMMA InvInit == Init => ObjectInv
<1> SUFFICES ASSUME Init PROVE ObjectInv
  OBVIOUS
<1> USE DEF Init
<1>1. headers \in Seq(Entry) /\ Len(headers) = 0 /\ Live(headers) = {}
  BY DEF Live
<1>2. lines \in Lines
  <2>1. <<>> \in [1 .. 0 -> Line] /\ 0 \in 0 .. MaxLines
    BY MaxLinesAssumption
  <2> QED  BY <2>1 DEF Lines
<1>3. TypeOK
  BY <1>1, <1>2, NHDRSAssumption DEF TypeOK
<1>4. Unique(headers) /\ CapacityLeft
  BY <1>1, NHDRSAssumption DEF Unique, CapacityLeft
<1>5. EntryBlocks(headers) = {}
  BY <1>1 DEF EntryBlocks
<1>6. Owned
  BY <1>5 DEF Owned, OwnBlocks, NULL
<1> QED  BY <1>3, <1>4, <1>6 DEF ObjectInv

\* The invariant holds of every request object.
LEMMA ObjectInvariant == Spec => []ObjectInv
<1>1. Init => ObjectInv
  BY InvInit
<1>2. ObjectInv /\ [Next]_vars => ObjectInv'
  BY InvStep
<1> QED  BY <1>1, <1>2, PTL DEF Spec

-----------------------------------------------------------------------------
(* The theorems *)

\* Every state of a request object is well typed; outside a parse, path never
\* points into the request line.
THEOREM RequestTypeCorrect == Spec => []TypeOK
<1>1. ObjectInv => TypeOK
  BY DEF ObjectInv
<1> QED  BY <1>1, ObjectInvariant, PTL

\* ParsedHeader_set always finds room for the entry it writes, for every
\* first size of the array from 2 on.
THEOREM RoomForNext == Spec => []CapacityLeft
<1>1. ObjectInv => CapacityLeft
  BY DEF ObjectInv
<1> QED  BY <1>1, ObjectInvariant, PTL

\* Only allocated blocks are freed, each once, on every error path of
\* ParsedRequest_parse, and ParsedRequest_destroy frees all of them.
THEOREM RequestMemorySafe == Spec => []MemorySafe
<1>1. ObjectInv => MemorySafe
  BY DEF ObjectInv, Owned, MemorySafe
<1> QED  BY <1>1, ObjectInvariant, PTL

\* The array of headers, with its removed entries, implements the map that
\* proxy_parse.h promises: set, also of a parsed line, gives exactly its key
\* the new value, remove takes exactly its key away, nothing else changes it.
THEOREM ArrayIsMap == Spec => ImplementsMap
<1> DEFINE M == [k \in Keys |-> HeaderValue(headers, k)]
<1>1. Init => Map!Init
  <2> SUFFICES ASSUME Init PROVE Map!Init
    OBVIOUS
  <2>1. \A k \in Keys : HeaderValue(headers, k) = NoValue
    BY DEF Init, HeaderValue, Matches
  <2>2. M = Map!Empty
    BY <2>1 DEF Map!Empty
  <2>3. last = Map!Call("other", NoKey, NoValue)
    BY DEF Init, Call, Map!Call
  <2> QED  BY <2>2, <2>3 DEF Map!Init
<1>2. ObjectInv /\ [Next]_vars => [Map!Next]_<<M, last>>
  <2> SUFFICES ASSUME ObjectInv, [Next]_vars PROVE [Map!Next]_<<M, last>>
    OBVIOUS
  <2>0. headers \in Seq(Entry) /\ Unique(headers)
    BY DEF ObjectInv, TypeOK
  <2>1. ASSUME NEW k \in Keys, NEW v \in Stored, Set(k, v) PROVE Map!Set
    <3>1. headers' = Append(Removed(headers, k), [key |-> k, value |-> v]) /\ last' = Call("set", k, v)
      BY <2>1 DEF Set
    <3>2. \A l \in Keys : HeaderValue(headers', l) = IF l = k THEN v ELSE HeaderValue(headers, l)
      BY <2>0, <3>1, SetValues
    <3>3. M' = [M EXCEPT ![k] = v]
      BY <3>2
    <3>4. last' = Map!Call("set", k, v)
      BY <3>1 DEF Call, Map!Call
    <3> QED  BY <3>3, <3>4 DEF Map!Set
  <2>2. ASSUME headers' = headers, Other PROVE Map!Other
    <3>1. M' = M
      BY <2>2
    <3>2. last' = Map!Call("other", NoKey, NoValue)
      BY <2>2 DEF Other, Call, Map!Call
    <3> QED  BY <3>1, <3>2 DEF Map!Other
  <2>f. ASSUME NEW k \in Keys, SetFails(k) PROVE Map!SetFails
    <3>1. headers' = Removed(headers, k) /\ last' = Call("setFails", k, NoValue)
      BY <2>f DEF SetFails
    <3>2. \A l \in Keys : HeaderValue(headers', l) = IF l = k THEN NoValue ELSE HeaderValue(headers, l)
      BY <2>0, <3>1, RemovedValues
    <3>3. M' = [M EXCEPT ![k] = NoValue]
      BY <3>2
    <3>4. last' = Map!Call("setFails", k, NoValue)
      BY <3>1 DEF Call, Map!Call
    <3> QED  BY <3>3, <3>4 DEF Map!SetFails
  <2>3. CASE ParsedHeader_set
    <3>1. PICK k \in Keys : (\E v \in Values : Set(k, v)) \/ SetFails(k)
      BY <2>3, UserKeysAssumption DEF ParsedHeader_set
    <3>2. Values \subseteq Stored
      BY DEF Stored
    <3> QED  BY <3>1, <3>2, <2>1, <2>f DEF Map!Next
  <2>4. CASE ParseHeader
    <3>1. AtHeader /\ ValueEnds /\ phase = "headers" /\ (Set(KeyHere, ValueHere) \/ SetFails(KeyHere))
      BY <2>4 DEF ParseHeader, AtHeader
    <3>2. KeyHere \in Keys /\ ValueHere \in Stored
      BY <3>1, HeaderLine DEF ObjectInv, Owned
    <3> QED  BY <3>1, <3>2, <2>1, <2>f DEF Map!Next
  <2>5. CASE ParsedHeader_remove
    <3>1. PICK k \in Keys : headers' = Removed(headers, k) /\ last' = Call("remove", k, NoValue)
      BY <2>5, UserKeysAssumption DEF ParsedHeader_remove
    <3>2. \A l \in Keys : HeaderValue(headers', l) = IF l = k THEN NoValue ELSE HeaderValue(headers, l)
      BY <2>0, <3>1, RemovedValues
    <3>3. M' = [M EXCEPT ![k] = NoValue]
      BY <3>2
    <3>4. last' = Map!Call("remove", k, NoValue)
      BY <3>1 DEF Call, Map!Call
    <3> QED  BY <3>3, <3>4 DEF Map!Remove, Map!Next
  <2>6. CASE ParsedRequest_destroy
    <3>1. \A k \in Keys : HeaderValue(headers', k) = NoValue
      BY <2>6 DEF ParsedRequest_destroy, HeaderValue, Matches
    <3>2. M' = Map!Empty
      BY <3>1 DEF Map!Empty
    <3>3. last' = Map!Call("destroy", NoKey, NoValue)
      BY <2>6 DEF ParsedRequest_destroy, Call, Map!Call
    <3> QED  BY <3>2, <3>3 DEF Map!Destroy, Map!Next
  <2>7. CASE Crash \/ ParseAgain \/ ParseRefused \/ ParseAccepted \/ ParseEnds \/ ParsedRequest_unparse
    <3>1. headers' = headers /\ Other
      BY <2>7 DEF Crash, ParseAgain, ParseRefused, ParseAccepted, ParseEnds, ParsedRequest_unparse
    <3> QED  BY <3>1, <2>2 DEF Map!Next
  <2>8. CASE UNCHANGED vars
    BY <2>8 DEF vars
  <2> QED  BY <2>3, <2>4, <2>5, <2>6, <2>7, <2>8 DEF Next
<1> QED  BY <1>1, <1>2, ObjectInvariant, PTL DEF Spec, ImplementsMap, Map!Spec

\* Whatever was set, removed and parsed, ParsedRequest_unparse prints the map:
\* every key once, with its value, and no removed one.
THEOREM PrintsTheMap == Spec => []PrintedIsMap
<1>1. ObjectInv => PrintedIsMap
  BY PrintedFacts DEF ObjectInv, TypeOK, PrintedIsMap
<1> QED  BY <1>1, ObjectInvariant, PTL

-----------------------------------------------------------------------------
(* The lines of a text *)

\* A line is parsed only once, and none after the last.
KeptInv == ParsedKept /\ (phase = "headers" => pos <= Len(lines) + 1)

\* A line with a colon is filed under its own name alone, one without a colon
\* under a longer key.
LEMMA LineKey ==
  ASSUME TypeOK, pos >= 1, AtHeader, NEW x
  PROVE  /\ lines[pos].rest # NoValue => KeyHere = <<lines[pos].name>> /\ NextColon = pos
         /\ KeyHere = <<x>> => lines[pos].rest # NoValue /\ lines[pos].name = x
<1>1. PICK m \in 0 .. MaxLines : lines \in [1 .. m -> Line]
  BY DEF TypeOK, Lines
<1>2. Len(lines) = m /\ m \in Nat /\ pos \in Nat /\ pos <= m
  BY <1>1, MaxLinesAssumption DEF TypeOK, AtHeader
<1>3. Colons(pos) \subseteq Nat /\ Colons(pos) # {}
  BY <1>2 DEF Colons, AtHeader
<1>4. NextColon \in Colons(pos) /\ \A l \in Colons(pos) : NextColon <= l
  BY <1>3, LeastNatural DEF NextColon
<1>5. NextColon \in pos .. m /\ lines[NextColon].rest # NoValue
  BY <1>2, <1>4 DEF Colons
<1> HIDE DEF NextColon
<1>6. ASSUME lines[pos].rest # NoValue PROVE NextColon = pos
  <2>1. pos \in Colons(pos)
    BY <1>6, <1>2 DEF Colons
  <2> QED  BY <2>1, <1>2, <1>4, <1>5
<1>7. ASSUME NextColon = pos PROVE KeyHere = <<lines[pos].name>>
  <2>1. NextColon - pos + 1 = 1 /\ \A i \in 1 .. 1 : pos + i - 1 = pos
    BY <1>7, <1>2
  <2>2. KeyHere = [i \in 1 .. 1 |-> lines[pos].name]
    BY <2>1 DEF KeyHere
  <2> QED  BY <2>2
<1>8. ASSUME KeyHere = <<x>> PROVE NextColon = pos
  <2>1. DOMAIN KeyHere = 1 .. NextColon - pos + 1
    BY DEF KeyHere
  <2>2. DOMAIN KeyHere = 1 .. 1
    BY <1>8
  <2>3. NextColon - pos + 1 \in Nat /\ NextColon - pos + 1 >= 1
    BY <1>2, <1>5
  <2>4. NextColon - pos + 1 = 1
    <3>1. NextColon - pos + 1 \in 1 .. NextColon - pos + 1
      BY <2>3
    <3>2. NextColon - pos + 1 \in 1 .. 1
      BY <2>1, <2>2, <3>1, Zenon
    <3> QED  BY <3>2
  <2> QED  BY <2>4, <1>2, <1>5
<1>9. ASSUME KeyHere = <<x>> PROVE lines[pos].rest # NoValue /\ lines[pos].name = x
  BY <1>9, <1>5, <1>7, <1>8
<1> QED  BY <1>6, <1>7, <1>9

\* Parsing one more line keeps the lines before it.
LEMMA KeptStep == ObjectInv /\ KeptInv /\ [Next]_vars => KeptInv'
<1> SUFFICES ASSUME ObjectInv, KeptInv, [Next]_vars, phase' = "headers" PROVE KeptInv'
  BY DEF KeptInv, ParsedKept
<1> USE DEF ObjectInv
<1>1. CASE ParseHeader
  <2>1. /\ phase = "headers" /\ AtHeader /\ ValueEnds /\ pos <= Len(lines) /\ pos' = pos + 1
        /\ lines' = lines /\ pos >= 1 /\ pos \in Nat
        /\ Set(KeyHere, ValueHere) \/ SetFails(KeyHere)
    BY <1>1 DEF ParseHeader, AtHeader, Owned, TypeOK
  <2>2. KeyHere \in Keys /\ ValueHere \in Stored
    BY <2>1, HeaderLine
  <2>3. headers \in Seq(Entry) /\ Unique(headers)
    BY DEF TypeOK
  <2>5. PICK m \in 0 .. MaxLines : lines \in [1 .. m -> Line]
    BY DEF TypeOK, Lines
  <2>6. Len(lines) = m /\ m \in Nat /\ m <= MaxLines
    BY <2>5, MaxLinesAssumption
  <2>7. ASSUME array' # NULL, NEW i \in 1 .. pos' - 1, lines[i].rest \notin {NoValue, <<>>},
               lines[i].rest[1] = SP, LastOfName(i)'
        PROVE  HeaderValue(headers', <<lines[i].name>>) = Tail(lines[i].rest)
    <3>0. i \in 1 .. pos /\ i \in Nat /\ i \in 1 .. m
      BY <2>1, <2>6
    <3>1. lines[i].name \in Names \cup {Blank}
      BY <3>0, <2>5 DEF Line
    <3>2. <<lines[i].name>> \in Keys
      <4>1. <<lines[i].name>> \in [1 .. 1 -> Names \cup {Blank}] /\ 1 \in 1 .. MaxLines
        BY <3>0, <3>1, <2>6, MaxLinesAssumption
      <4> QED  BY <4>1 DEF Keys
    <3>s. headers' = Append(Removed(headers, KeyHere), [key |-> KeyHere, value |-> ValueHere])
          /\ array # NULL
      BY <2>1, <2>7 DEF Set, SetFails
    <3>v. \A l \in Keys : HeaderValue(headers', l)
                            = IF l = KeyHere THEN ValueHere ELSE HeaderValue(headers, l)
      BY <3>s, <2>2, <2>3, SetValues
    <3>l. \A j \in i + 1 .. pos' - 1 : lines[j].name = lines[i].name => lines[j].rest = NoValue
      BY <2>1, <2>7 DEF LastOfName
    <3>3. CASE i = pos
      <4>1. KeyHere = <<lines[i].name>> /\ NextColon = i
        BY <3>3, <2>7, <2>1, LineKey
      <4>2. ValueHere = Tail(lines[i].rest)
        BY <4>1, <2>7 DEF ValueHere
      <4> QED  BY <4>1, <4>2, <3>2, <3>v
    <3>4. CASE i # pos
      <4>1. i \in 1 .. pos - 1 /\ pos \in i + 1 .. pos' - 1 /\ i + 1 .. pos - 1 \subseteq i + 1 .. pos' - 1
        BY <3>4, <3>0, <2>1
      <4>2. LastOfName(i)
        BY <4>1, <3>l DEF LastOfName
      <4>3. HeaderValue(headers, <<lines[i].name>>) = Tail(lines[i].rest)
        BY <4>1, <4>2, <3>s, <2>1, <2>7 DEF KeptInv, ParsedKept
      <4>4. KeyHere # <<lines[i].name>>
        BY <4>1, <3>l, <2>1, LineKey
      <4> QED  BY <4>3, <4>4, <3>2, <3>v
    <3> QED  BY <3>3, <3>4
  <2>8. pos' <= Len(lines') + 1
    BY <2>1, <2>6
  <2>9. ParsedKept'
    BY <2>1, <2>7 DEF ParsedKept
  <2> QED  BY <2>8, <2>9 DEF KeptInv
<1>2. CASE ParseAccepted
  <2>1. pos' = 1 /\ lines' \in Lines
    BY <1>2 DEF ParseAccepted, Texts
  <2>2. Len(lines') \in Nat
    BY <2>1, MaxLinesAssumption DEF Lines
  <2> QED  BY <2>1, <2>2 DEF KeptInv, ParsedKept
<1>3. CASE UNCHANGED vars
  BY <1>3 DEF vars, KeptInv, ParsedKept, LastOfName
<1>4. CASE \/ ParsedHeader_set \/ ParsedHeader_remove \/ ParseAgain \/ ParseRefused
           \/ ParseEnds \/ Crash \/ ParsedRequest_unparse \/ ParsedRequest_destroy
  BY <1>4 DEF ParsedHeader_set, ParsedHeader_remove, ParseAgain, ParseRefused,
              ParseEnds, Crash, ParsedRequest_unparse, ParsedRequest_destroy
<1> QED  BY <1>1, <1>2, <1>3, <1>4 DEF Next

\* Every header line "name: value" parsed so far has its value in the map
\* unless a later line of its name replaced it, whatever lines without a colon
\* or without a value stand around it, for every text.
THEOREM LinesKept == Spec => []ParsedKept
<1>1. Init => KeptInv
  BY DEF Init, KeptInv, ParsedKept
<1>2. ObjectInv /\ KeptInv /\ [Next]_vars => KeptInv'
  BY KeptStep
<1>3. KeptInv => ParsedKept
  BY DEF KeptInv
<1> QED  BY <1>1, <1>2, <1>3, ObjectInvariant, PTL DEF Spec
=============================================================================

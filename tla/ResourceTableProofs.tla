------------------------- MODULE ResourceTableProofs -------------------------
(***************************************************************************)
(* Theorems about ResourceTable, for any patterns, rules and URIs and      *)
(* tables of any length.                                                   *)
(***************************************************************************)
EXTENDS ResourceTable, SequenceTheorems, FiniteSetTheorems, WellFoundedInduction, TLAPS

\* The file is a mapping: one entry per pattern.
Mapping(entries) ==
    /\ entries \in Seq(Entries)
    /\ \A i, j \in DOMAIN entries : entries[i].pattern = entries[j].pattern => i = j

TableInv == Mapping(table)

-----------------------------------------------------------------------------
(* Which entry decides.                                                    *)

Applies(entries, uri, i) == uri \in MatchSet[entries[i].pattern]

Size(entries, i) == Len(entries[i].pattern)

LEMMA Sizes ==
    ASSUME NEW entries \in Seq(Entries), NEW i \in DOMAIN entries
    PROVE  Size(entries, i) \in Nat /\ i \in Nat /\ entries[i] \in Entries
<1>1. entries[i] \in Entries /\ i \in Nat
  OBVIOUS
<1>2. entries[i].pattern \in Patterns
  BY <1>1 DEF Entries
<1>3. Len(entries[i].pattern) \in Nat
  BY <1>2, PatternsAssumption, LenProperties
<1> QED
  BY <1>1, <1>3 DEF Size

\* `sorted` by length, longest first and stable, and the first that matches
\* (_resource_rule).
LEMMA Winner ==
    ASSUME NEW entries \in Seq(Entries), NEW uri, NEW i
    PROVE  i \in Deciding(entries, uri) <=>
               /\ i \in DOMAIN entries /\ Applies(entries, uri, i)
               /\ \A j \in DOMAIN entries : Applies(entries, uri, j) =>
                      \/ Size(entries, j) < Size(entries, i)
                      \/ Size(entries, j) = Size(entries, i) /\ i <= j
BY DEF Deciding, ResourceRule, Document, Applies, Size

\* At most one entry decides.
LEMMA OneWinner ==
    ASSUME NEW entries \in Seq(Entries), NEW uri,
           NEW i \in Deciding(entries, uri), NEW j \in Deciding(entries, uri)
    PROVE  i = j
<1>1. /\ i \in DOMAIN entries /\ j \in DOMAIN entries
      /\ Applies(entries, uri, i) /\ Applies(entries, uri, j)
  BY Winner
<1>2. /\ \/ Size(entries, j) < Size(entries, i)
         \/ Size(entries, j) = Size(entries, i) /\ i <= j
      /\ \/ Size(entries, i) < Size(entries, j)
         \/ Size(entries, i) = Size(entries, j) /\ j <= i
  BY <1>1, Winner
<1> QED
  BY <1>1, <1>2, Sizes

\* The answer is that of the entry that decides (decide_resource).
LEMMA WinnerDecides ==
    ASSUME NEW entries \in Seq(Entries), NEW uri, NEW roles, NEW i \in Deciding(entries, uri)
    PROVE  Decide(entries, uri, roles) = Match(entries[i].rule, roles)
<1>1. (CHOOSE k \in Deciding(entries, uri) : TRUE) = i
  BY OneWinner
<1>2. i \in DOMAIN entries
  BY Winner
<1> QED
  BY <1>1, <1>2 DEF Decide, DecideResource, Deciding, Document

\* The entries of one table are found in the other, every entry that matches
\* among them, and those of one length in the same order.
Placed(few, many, f, uri) ==
    /\ few \in Seq(Entries) /\ many \in Seq(Entries) /\ f \in [DOMAIN few -> DOMAIN many]
    /\ \A i \in DOMAIN few : many[f[i]] = few[i]
    /\ \A j \in DOMAIN many : Applies(many, uri, j) => \E i \in DOMAIN few : j = f[i]
    /\ \A i, j \in DOMAIN few :
           /\ Applies(few, uri, i) /\ Applies(few, uri, j)
           /\ Size(few, i) = Size(few, j) /\ i < j
           => f[i] < f[j]

\* Two such tables decide alike.
LEMMA SameDecision ==
    ASSUME NEW few, NEW many, NEW f, NEW uri, NEW roles, Placed(few, many, f, uri)
    PROVE  Decide(few, uri, roles) = Decide(many, uri, roles)
<1> USE DEF Placed
<1>1. \A i \in DOMAIN few : /\ Size(many, f[i]) = Size(few, i)
                            /\ Applies(many, uri, f[i]) <=> Applies(few, uri, i)
  BY DEF Size, Applies
<1>2. ASSUME NEW i \in Deciding(few, uri)
      PROVE  f[i] \in Deciding(many, uri)
  <2>1. /\ i \in DOMAIN few /\ Applies(few, uri, i)
        /\ \A k \in DOMAIN few : Applies(few, uri, k) =>
               \/ Size(few, k) < Size(few, i)
               \/ Size(few, k) = Size(few, i) /\ i <= k
    BY Winner
  <2>2. ASSUME NEW k \in DOMAIN few, Applies(few, uri, k)
        PROVE  \/ Size(many, f[k]) < Size(many, f[i])
               \/ Size(many, f[k]) = Size(many, f[i]) /\ f[i] <= f[k]
    <3>1. CASE Size(few, k) < Size(few, i)
      BY <1>1, <2>1, <3>1
    <3>2. CASE Size(few, k) = Size(few, i) /\ i = k
      BY <2>1, <3>2, Sizes
    <3>3. CASE Size(few, k) = Size(few, i) /\ i < k
      BY <1>1, <2>1, <2>2, <3>3, Sizes
    <3> QED
      BY <2>1, <2>2, <3>1, <3>2, <3>3, Sizes
  <2> QED
    BY <1>1, <2>1, <2>2, Winner
<1>3. ASSUME NEW j \in Deciding(many, uri)
      PROVE  \E i \in Deciding(few, uri) : j = f[i]
  <2>1. /\ j \in DOMAIN many /\ Applies(many, uri, j)
        /\ \A k \in DOMAIN many : Applies(many, uri, k) =>
               \/ Size(many, k) < Size(many, j)
               \/ Size(many, k) = Size(many, j) /\ j <= k
    BY Winner
  <2>2. PICK i \in DOMAIN few : j = f[i]
    BY <2>1
  <2>3. ASSUME NEW k \in DOMAIN few, Applies(few, uri, k)
        PROVE  \/ Size(few, k) < Size(few, i)
               \/ Size(few, k) = Size(few, i) /\ i <= k
    <3>1. \/ Size(few, k) < Size(few, i)
          \/ Size(few, k) = Size(few, i) /\ f[i] <= f[k]
      BY <1>1, <2>1, <2>2, <2>3
    <3>2. Size(few, k) = Size(few, i) /\ k < i => f[k] < f[i]
      BY <1>1, <2>1, <2>2, <2>3
    <3> QED
      BY <3>1, <3>2, Sizes
  <2>4. i \in Deciding(few, uri)
    BY <1>1, <2>1, <2>2, <2>3, Winner
  <2> QED
    BY <2>2, <2>4
<1>4. CASE Deciding(few, uri) = {}
  BY <1>3, <1>4 DEF Decide, DecideResource, Deciding
<1>5. ASSUME NEW i \in Deciding(few, uri)
      PROVE  Decide(few, uri, roles) = Decide(many, uri, roles)
  <2>1. i \in DOMAIN few
    BY Winner
  <2> QED
    BY <1>2, <2>1, WinnerDecides
<1> QED
  BY <1>4, <1>5

-----------------------------------------------------------------------------
(* Edits.                                                                  *)

\* Where the entries before and after a place are when that place is left free.
Past(at, i) == IF i < at THEN i ELSE i + 1

LEMMA Piece ==
    ASSUME NEW s \in Seq(Entries), NEW m \in 1..(Len(s) + 1), NEW n \in (m - 1)..Len(s)
    PROVE  /\ SubSeq(s, m, n) \in Seq(Entries) /\ Len(SubSeq(s, m, n)) = n - m + 1
           /\ \A i \in 1..(n - m + 1) : SubSeq(s, m, n)[i] = s[m + i - 1]
<1>1. Len(s) \in Nat /\ DOMAIN s = 1..Len(s) /\ m \in Int /\ n \in Int
  OBVIOUS
<1>2. \A i \in m..n : i \in 1..Len(s)
  BY <1>1
<1>3. \A i \in m..n : s[i] \in Entries
  BY <1>2, ElementOfSeq
<1>4. m <= n \/ n = m - 1
  BY <1>1
<1>5. /\ SubSeq(s, m, n) \in Seq(Entries)
      /\ Len(SubSeq(s, m, n)) = IF m <= n THEN n - m + 1 ELSE 0
      /\ \A i \in 1..(n - m + 1) : SubSeq(s, m, n)[i] = s[m + i - 1]
  BY <1>1, <1>3, SubSeqProperties
<1> QED
  BY <1>1, <1>4, <1>5

LEMMA Joined ==
    ASSUME NEW s \in Seq(Entries), NEW t \in Seq(Entries)
    PROVE  /\ s \o t \in Seq(Entries) /\ Len(s \o t) = Len(s) + Len(t)
           /\ \A i \in 1..Len(s) : (s \o t)[i] = s[i]
           /\ \A i \in 1..Len(t) : (s \o t)[Len(s) + i] = t[i]
<1>1. Len(s) \in Nat /\ Len(t) \in Nat
  OBVIOUS
<1>2. /\ s \o t \in Seq(Entries) /\ Len(s \o t) = Len(s) + Len(t)
      /\ \A i \in 1..(Len(s) + Len(t)) :
             (s \o t)[i] = IF i <= Len(s) THEN s[i] ELSE t[i - Len(s)]
  BY ConcatProperties
<1>3. ASSUME NEW i \in 1..Len(t) PROVE (s \o t)[Len(s) + i] = t[i]
  <2>1. /\ Len(s) + i \in 1..(Len(s) + Len(t)) /\ ~(Len(s) + i <= Len(s))
        /\ Len(s) + i - Len(s) = i
    BY <1>1
  <2> QED
    BY <1>2, <2>1
<1> QED
  BY <1>1, <1>2, <1>3

WithEntry(s, at, entry) == SubSeq(s, 1, at) \o <<entry>> \o SubSeq(s, at + 1, Len(s))

WithoutEntry(s, at) == SubSeq(s, 1, at - 1) \o SubSeq(s, at + 1, Len(s))

\* A table and the same table with one entry more, somewhere.
Opened(few, many, at) ==
    /\ few \in Seq(Entries) /\ many \in Seq(Entries) /\ at \in DOMAIN many
    /\ DOMAIN many = 1..(Len(few) + 1)
    /\ \A i \in DOMAIN few : many[Past(at, i)] = few[i]

LEMMA Inserted ==
    ASSUME NEW s, NEW at, NEW entry, s \in Seq(Entries), at \in 0..Len(s), entry \in Entries
    PROVE  /\ Opened(s, WithEntry(s, at, entry), at + 1)
           /\ WithEntry(s, at, entry)[at + 1] = entry
<1> DEFINE t     == WithEntry(s, at, entry)
           front == SubSeq(s, 1, at)
           back  == SubSeq(s, at + 1, Len(s))
           half  == front \o <<entry>>
<1>1. Len(s) \in Nat /\ at \in Nat /\ at <= Len(s) /\ DOMAIN s = 1..Len(s)
  OBVIOUS
<1>2. /\ front \in Seq(Entries) /\ Len(front) = at
      /\ \A i \in 1..at : front[i] = s[i]
  <2>1. /\ front \in Seq(Entries) /\ Len(front) = at - 1 + 1
        /\ \A i \in 1..(at - 1 + 1) : front[i] = s[1 + i - 1]
    BY <1>1, Piece
  <2> QED
    BY <1>1, <2>1
<1>3. /\ back \in Seq(Entries) /\ Len(back) = Len(s) - at
      /\ \A i \in 1..(Len(s) - at) : back[i] = s[at + i]
  <2>1. at + 1 \in 1..(Len(s) + 1) /\ Len(s) \in ((at + 1) - 1)..Len(s)
    BY <1>1
  <2>2. /\ back \in Seq(Entries) /\ Len(back) = Len(s) - (at + 1) + 1
        /\ \A i \in 1..(Len(s) - (at + 1) + 1) : back[i] = s[(at + 1) + i - 1]
    BY <2>1, Piece
  <2>3. Len(s) - (at + 1) + 1 = Len(s) - at
    BY <1>1
  <2>4. \A i \in 1..(Len(s) - at) : (at + 1) + i - 1 = at + i
    BY <1>1
  <2> QED
    BY <2>2, <2>3, <2>4
<1>4. /\ half \in Seq(Entries) /\ Len(half) = at + 1
      /\ half[at + 1] = entry
      /\ \A i \in 1..at : half[i] = s[i]
  <2> HIDE DEF front
  <2>1. <<entry>> \in Seq(Entries) /\ Len(<<entry>>) = 1 /\ <<entry>>[1] = entry
    OBVIOUS
  <2> QED
    BY <1>1, <1>2, <2>1, Joined
<1>5. t = half \o back
  BY DEF WithEntry
<1> HIDE DEF half, back, t
<1>6. /\ t \in Seq(Entries) /\ Len(t) = Len(s) + 1 /\ DOMAIN t = 1..(Len(s) + 1)
      /\ \A i \in 1..(at + 1) : t[i] = half[i]
      /\ \A i \in 1..(Len(s) - at) : t[at + 1 + i] = back[i]
  <2>1. LET both == half \o back
        IN  /\ both \in Seq(Entries) /\ Len(both) = Len(half) + Len(back)
            /\ \A i \in 1..Len(half) : both[i] = half[i]
            /\ \A i \in 1..Len(back) : both[Len(half) + i] = back[i]
    BY <1>3, <1>4, Joined
  <2>2. Len(half) + Len(back) = Len(s) + 1
    BY <1>1, <1>3, <1>4
  <2>3. DOMAIN t = 1..Len(t)
    BY <1>5, <2>1
  <2> QED
    BY <1>3, <1>4, <1>5, <2>1, <2>2, <2>3
<1>7. ASSUME NEW i \in DOMAIN s
      PROVE  t[Past(at + 1, i)] = s[i]
  <2>1. CASE i <= at
    BY <1>1, <1>4, <1>6, <2>1 DEF Past
  <2>2. CASE i > at
    <3> DEFINE k == i - at
    <3>1. k \in 1..(Len(s) - at) /\ i = at + k
      BY <1>1, <2>2
    <3>2. t[at + 1 + k] = s[at + k]
      BY <1>3, <1>6, <3>1
    <3>3. Past(at + 1, i) = at + 1 + k
      BY <1>1, <2>2 DEF Past
    <3> QED
      BY <3>1, <3>2, <3>3
  <2> QED
    BY <1>1, <1>7, <2>1, <2>2
<1>8. t[at + 1] = entry
  BY <1>1, <1>4, <1>6
<1>9. at + 1 \in DOMAIN t
  BY <1>1, <1>6
<1> QED
  BY <1>6, <1>7, <1>8, <1>9 DEF Opened, t

LEMMA Deleted ==
    ASSUME NEW s, NEW at, s \in Seq(Entries), at \in DOMAIN s
    PROVE  Opened(WithoutEntry(s, at), s, at)
<1> DEFINE t     == WithoutEntry(s, at)
           front == SubSeq(s, 1, at - 1)
           back  == SubSeq(s, at + 1, Len(s))
<1>1. Len(s) \in Nat /\ at \in Nat \ {0} /\ at <= Len(s) /\ DOMAIN s = 1..Len(s)
  OBVIOUS
<1>2. /\ front \in Seq(Entries) /\ Len(front) = at - 1
      /\ \A i \in 1..(at - 1) : front[i] = s[i]
  <2>1. /\ front \in Seq(Entries) /\ Len(front) = at - 1 - 1 + 1
        /\ \A i \in 1..(at - 1 - 1 + 1) : front[i] = s[1 + i - 1]
    BY <1>1, Piece
  <2> QED
    BY <1>1, <2>1
<1>3. /\ back \in Seq(Entries) /\ Len(back) = Len(s) - at
      /\ \A i \in 1..(Len(s) - at) : back[i] = s[at + i]
  <2>1. at + 1 \in 1..(Len(s) + 1) /\ Len(s) \in ((at + 1) - 1)..Len(s)
    BY <1>1
  <2>2. /\ back \in Seq(Entries) /\ Len(back) = Len(s) - (at + 1) + 1
        /\ \A i \in 1..(Len(s) - (at + 1) + 1) : back[i] = s[(at + 1) + i - 1]
    BY <2>1, Piece
  <2>3. Len(s) - (at + 1) + 1 = Len(s) - at
    BY <1>1
  <2>4. \A i \in 1..(Len(s) - at) : (at + 1) + i - 1 = at + i
    BY <1>1
  <2> QED
    BY <2>2, <2>3, <2>4
<1>t. t = front \o back
  BY DEF WithoutEntry
<1> HIDE DEF front, back, t
<1>4. /\ t \in Seq(Entries) /\ Len(t) = Len(s) - 1 /\ DOMAIN t = 1..(Len(s) - 1)
      /\ \A i \in 1..(at - 1) : t[i] = front[i]
      /\ \A i \in 1..(Len(s) - at) : t[at - 1 + i] = back[i]
  <2>1. LET both == front \o back
        IN  /\ both \in Seq(Entries) /\ Len(both) = Len(front) + Len(back)
            /\ \A i \in 1..Len(front) : both[i] = front[i]
            /\ \A i \in 1..Len(back) : both[Len(front) + i] = back[i]
    BY <1>2, <1>3, Joined
  <2>2. Len(front) + Len(back) = Len(s) - 1
    BY <1>1, <1>2, <1>3
  <2>3. DOMAIN t = 1..Len(t)
    BY <1>t, <2>1
  <2> QED
    BY <1>2, <1>3, <1>t, <2>1, <2>2, <2>3
<1>5. ASSUME NEW i \in DOMAIN t
      PROVE  t[i] = s[Past(at, i)]
  <2>1. CASE i < at
    BY <1>1, <1>2, <1>4, <2>1 DEF Past
  <2>2. CASE i >= at
    <3> DEFINE k == i - (at - 1)
    <3>1. k \in 1..(Len(s) - at) /\ i = at - 1 + k
      BY <1>1, <1>4, <2>2
    <3>2. t[at - 1 + k] = s[at + k]
      BY <1>3, <1>4, <3>1
    <3>3. Past(at, i) = at + k
      BY <1>1, <1>4, <2>2 DEF Past
    <3> QED
      BY <3>1, <3>2, <3>3
  <2> QED
    BY <1>1, <1>4, <1>5, <2>1, <2>2
<1>6. DOMAIN s = 1..(Len(t) + 1)
  BY <1>1, <1>4
<1> QED
  BY <1>4, <1>5, <1>6 DEF Opened, t


\* Where an entry is added or taken away, the others keep their order.
LEMMA PastOrder ==
    ASSUME NEW at \in Nat, NEW i \in Nat, NEW j \in Nat
    PROVE  /\ Past(at, i) \in Nat /\ Past(at, i) # at
           /\ i < j => Past(at, i) < Past(at, j)
BY DEF Past

\* The entry that one table has more is for a pattern of its own.
Grown(few, many, at) ==
    /\ Opened(few, many, at)
    /\ \A i \in DOMAIN few : few[i].pattern # many[at].pattern

\* They decide alike if the entry that one has more does not match.
LEMMA GrownDecide ==
    ASSUME NEW few, NEW many, NEW at, Grown(few, many, at), NEW uri, NEW roles,
           Applying(few, uri) = Applying(many, uri)
    PROVE  Decide(few, uri, roles) = Decide(many, uri, roles)
<1> DEFINE f == [i \in DOMAIN few |-> Past(at, i)]
<1>1. /\ few \in Seq(Entries) /\ many \in Seq(Entries)
      /\ Len(few) \in Nat /\ DOMAIN few = 1..Len(few)
      /\ DOMAIN many = 1..(Len(few) + 1) /\ at \in 1..(Len(few) + 1)
  BY DEF Grown, Opened
<1>2. f \in [DOMAIN few -> DOMAIN many]
  BY <1>1 DEF Past
<1>3. \A i \in DOMAIN few : many[f[i]] = few[i]
  BY DEF Grown, Opened
<1>4. ASSUME NEW j \in DOMAIN many, Applies(many, uri, j)
      PROVE  \E i \in DOMAIN few : j = f[i]
  <2>1. CASE j < at
    <3>1. j \in DOMAIN few /\ f[j] = j
      BY <1>1, <1>4, <2>1 DEF Past
    <3> QED
      BY <3>1
  <2>2. CASE j > at
    <3>1. j - 1 \in DOMAIN few /\ f[j - 1] = j
      BY <1>1, <1>4, <2>2 DEF Past
    <3> QED
      BY <3>1
  <2>3. CASE j = at
    <3>1. many[at] \in Applying(many, uri)
      BY <1>4, <2>3 DEF Applying, Applies
    <3>2. \E i \in DOMAIN few : few[i] = many[at]
      BY <3>1 DEF Applying
    <3> QED
      BY <3>2 DEF Grown
  <2> QED
    BY <1>1, <1>4, <2>1, <2>2, <2>3
<1>5. \A i, j \in DOMAIN few : i < j => f[i] < f[j]
  BY <1>1, PastOrder
<1> HIDE DEF f
<1>6. Placed(few, many, f, uri)
  BY <1>1, <1>2, <1>3, <1>4, <1>5 DEF Placed
<1> QED
  BY <1>6, SameDecision

\* Every edit adds an entry for a pattern of its own, or takes one away.
LEMMA EditsGrow ==
    ASSUME TableInv, Next
    PROVE  \E at : Grown(table, table', at) \/ Grown(table', table, at)
<1>1. table \in Seq(Entries) /\ Len(table) \in Nat /\ DOMAIN table = 1..Len(table)
  BY DEF TableInv, Mapping
<1>2. ASSUME NEW at \in 0..Len(table), NEW entry \in Entries, Insert(at, entry)
      PROVE  Grown(table, table', at + 1)
  <2>1. table' = WithEntry(table, at, entry)
    BY <1>2 DEF Insert, WithEntry
  <2>2. /\ Opened(table, WithEntry(table, at, entry), at + 1)
        /\ WithEntry(table, at, entry)[at + 1] = entry
    BY <1>1, <1>2, Inserted
  <2>3. \A i \in DOMAIN table : table[i].pattern # entry.pattern
    BY <1>2 DEF Insert
  <2> QED
    BY <2>1, <2>2, <2>3 DEF Grown
<1>3. ASSUME NEW at \in DOMAIN table, Delete(at)
      PROVE  Grown(table', table, at)
  <2>1. table' = WithoutEntry(table, at)
    BY <1>3 DEF Delete, WithoutEntry
  <2>2. Opened(WithoutEntry(table, at), table, at)
    BY <1>1, <1>3, Deleted
  <2>3. Opened(table', table, at)
    BY <2>1, <2>2
  <2>4. ASSUME NEW i \in DOMAIN table' PROVE table'[i].pattern # table[at].pattern
    <3>1. Len(table') \in Nat /\ DOMAIN table' = 1..Len(table')
      BY <2>3 DEF Opened
    <3>2. Past(at, i) \in DOMAIN table /\ Past(at, i) # at /\ table[Past(at, i)] = table'[i]
      BY <1>1, <1>3, <2>3, <3>1 DEF Opened, Past
    <3> QED
      BY <1>3, <3>2 DEF TableInv, Mapping
  <2> QED
    BY <2>3, <2>4 DEF Grown
<1> QED
  BY <1>2, <1>3 DEF Next

\* If there is one entry per pattern in the longer table there is in the
\* shorter, and the other way round.
LEMMA GrownMapping ==
    ASSUME NEW few, NEW many, NEW at, Grown(few, many, at)
    PROVE  Mapping(few) <=> Mapping(many)
<1>1. /\ few \in Seq(Entries) /\ many \in Seq(Entries)
      /\ Len(few) \in Nat /\ DOMAIN few = 1..Len(few)
      /\ DOMAIN many = 1..(Len(few) + 1) /\ at \in 1..(Len(few) + 1)
      /\ \A i \in DOMAIN few : many[Past(at, i)] = few[i]
  BY DEF Grown, Opened
<1>2. \A i \in DOMAIN few : Past(at, i) \in DOMAIN many
  BY <1>1 DEF Past
<1>3. \A i, j \in DOMAIN few : Past(at, i) = Past(at, j) => i = j
  BY <1>1 DEF Past
<1>4. Mapping(many) => Mapping(few)
  BY <1>1, <1>2, <1>3 DEF Mapping
<1>5. ASSUME NEW j \in DOMAIN many, j # at
      PROVE  \E i \in DOMAIN few : j = Past(at, i)
  <2>1. CASE j < at
    BY <1>1, <2>1 DEF Past
  <2>2. CASE j > at
    <3>1. j - 1 \in DOMAIN few /\ Past(at, j - 1) = j
      BY <1>1, <2>2 DEF Past
    <3> QED
      BY <3>1
  <2> QED
    BY <1>1, <1>5, <2>1, <2>2
<1>6. Mapping(few) => Mapping(many)
  BY <1>1, <1>5 DEF Mapping, Grown
<1> QED
  BY <1>4, <1>6

\* No edit makes a second entry for a pattern.
LEMMA TableNext == TableInv /\ [Next]_table => TableInv'
<1> SUFFICES ASSUME TableInv, [Next]_table PROVE TableInv'
  OBVIOUS
<1>1. CASE Next
  <2>1. PICK at : Grown(table, table', at) \/ Grown(table', table, at)
    BY <1>1, EditsGrow
  <2>2. PICK before, after : before = table /\ after = table'
    OBVIOUS
  <2>3. Mapping(before) <=> Mapping(after)
    BY <2>1, <2>2, GrownMapping
  <2> QED
    BY <2>2, <2>3 DEF TableInv, Mapping
<1>2. CASE UNCHANGED table
  BY <1>2 DEF TableInv, Mapping
<1> QED
  BY <1>1, <1>2

THEOREM TableInvariant == Spec => []TableInv
<1>1. Init => TableInv
  BY DEF Init, TableInv, Mapping
<1> QED
  BY <1>1, TableNext, PTL DEF Spec

\* An edit changes nothing for a URI that the edited pattern does not match
\* (_resource_rule).
THEOREM EditsStayLocal == Spec => EditsAreLocal
<1>1. TableInv /\ [Next]_table =>
          [\A uri \in Uris, roles \in SUBSET Roles :
              Applying(table', uri) = Applying(table, uri)
                  => Decide(table', uri, roles) = Decide(table, uri, roles)]_table
  <2> SUFFICES ASSUME TableInv, Next, NEW uri \in Uris, NEW roles \in SUBSET Roles,
                      Applying(table', uri) = Applying(table, uri)
               PROVE  Decide(table', uri, roles) = Decide(table, uri, roles)
    OBVIOUS
  <2>1. PICK at : Grown(table, table', at) \/ Grown(table', table, at)
    BY EditsGrow
  <2>2. PICK before, after : before = table /\ after = table'
    OBVIOUS
  <2>3. Grown(before, after, at) \/ Grown(after, before, at)
    BY <2>1, <2>2
  <2>4. Applying(before, uri) = Applying(after, uri)
    BY <2>2
  <2>5. Decide(before, uri, roles) = Decide(after, uri, roles)
    BY <2>3, <2>4, GrownDecide
  <2> QED
    BY <2>2, <2>5
<1> QED
  BY <1>1, TableInvariant, PTL DEF Spec, EditsAreLocal

-----------------------------------------------------------------------------
(* The order of the file.                                                  *)

\* The order of the file decides between patterns of one length, and nothing
\* else (_resource_rule, the stable sort by length).
THEOREM OrderMattersForTiesOnly == Spec => []OrderBreaksTiesOnly
<1>1. TableInv => OrderBreaksTiesOnly
  <2> SUFFICES ASSUME TableInv, NEW uri \in Uris, NEW roles \in SUBSET Roles, ~Tied(uri)
               PROVE  Decide(Reversed, uri, roles) = Decide(table, uri, roles)
    BY DEF OrderBreaksTiesOnly
  <2> DEFINE n == Len(table)
             f == [i \in DOMAIN table |-> n + 1 - i]
  <2>1. table \in Seq(Entries) /\ n \in Nat /\ DOMAIN table = 1..n
    BY DEF TableInv, Mapping
  <2>2. /\ Reversed \in [1..n -> Entries]
        /\ \A i \in 1..n : Reversed[i] = table[n + 1 - i]
    BY <2>1 DEF Reversed
  <2>3. Reversed \in Seq(Entries) /\ DOMAIN Reversed = 1..n
    BY <2>1, <2>2
  <2>4. f \in [DOMAIN table -> DOMAIN Reversed]
    BY <2>1, <2>3
  <2>5. \A i \in DOMAIN table : Reversed[f[i]] = table[i]
    BY <2>1, <2>2
  <2>6. ASSUME NEW j \in DOMAIN Reversed
        PROVE  \E i \in DOMAIN table : j = f[i]
    <3>1. n + 1 - j \in DOMAIN table /\ j = f[n + 1 - j]
      BY <2>1, <2>3, <2>6
    <3> QED
      BY <3>1
  <2>7. ASSUME NEW i \in DOMAIN table, NEW j \in DOMAIN table,
               Applies(table, uri, i), Applies(table, uri, j),
               Size(table, i) = Size(table, j)
        PROVE  ~(i < j)
    BY <2>1, <2>7 DEF Tied, Matching, Applies, Size
  <2> HIDE DEF f
  <2>8. PICK before, after : before = table /\ after = Reversed
    OBVIOUS
  <2>9. Placed(before, after, f, uri)
    BY <2>1, <2>3, <2>4, <2>5, <2>6, <2>7, <2>8 DEF Placed
  <2> QED
    BY <2>8, <2>9, SameDecision
<1> QED
  BY <1>1, TableInvariant, PTL

-----------------------------------------------------------------------------
(* The deepest path.  Induction is by the least element of a set.          *)

LEMMA LeastElement ==
    ASSUME NEW S, S \subseteq Nat, S # {}
    PROVE  \E m \in S : \A k \in S : m <= k
<1> DEFINE R == OpToRel(<, Nat)
<1>1. IsWellFoundedOn(R, Nat)
  BY NatLessThanWellFounded, Zenon
<1> HIDE DEF R
<1>2. PICK m \in S : \A k \in S : ~(<<k, m>> \in R)
  BY <1>1, WFMin
<1>3. ASSUME NEW k \in S PROVE ~(k < m)
  <2>1. <<k, m>> \in Nat \X Nat /\ <<k, m>>[1] = k /\ <<k, m>>[2] = m
    OBVIOUS
  <2>2. k < m => <<k, m>> \in R
    BY <2>1 DEF R, OpToRel
  <2> QED
    BY <1>2, <2>2
<1> QED
  BY <1>3

\* Where any entry matches, one decides: of the first entries of a table, and
\* so of all of them (_resource_rule, the loop over the sorted patterns).
Leads(entries, uri, n, i) ==
    /\ i \in 1..n /\ Applies(entries, uri, i)
    /\ \A j \in 1..n : Applies(entries, uri, j) =>
           \/ Size(entries, j) < Size(entries, i)
           \/ Size(entries, j) = Size(entries, i) /\ i <= j

LEMMA SomeWinner ==
    ASSUME NEW entries \in Seq(Entries), NEW uri,
           \E i \in DOMAIN entries : Applies(entries, uri, i)
    PROVE  \E i : i \in Deciding(entries, uri)
<1>1. Len(entries) \in Nat /\ DOMAIN entries = 1..Len(entries)
  OBVIOUS
<1> DEFINE Leaderless == {n \in 0..Len(entries) :
                             /\ \E i \in 1..n : Applies(entries, uri, i)
                             /\ \A i \in 1..n : ~Leads(entries, uri, n, i)}
<1>2. CASE Leaderless = {}
  <2>1. Len(entries) \notin Leaderless
    BY <1>2
  <2>2. PICK i \in DOMAIN entries : Leads(entries, uri, Len(entries), i)
    BY <1>1, <2>1
  <2> QED
    BY <1>1, <2>2, Winner DEF Leads
<1>3. CASE Leaderless # {}
  <2>0. PICK L : L = Leaderless
    OBVIOUS
  <2>a. PICK n \in L : \A k \in L : n <= k
    <3>1. L \subseteq Nat /\ L # {}
      BY <1>1, <1>3, <2>0
    <3> QED
      BY <3>1, LeastElement
  <2>1. n \in Leaderless /\ \A k \in Leaderless : n <= k
    BY <2>0, <2>a
  <2>2. /\ n \in 1..Len(entries) /\ n - 1 \in 0..Len(entries)
        /\ 1..n = 1..(n - 1) \cup {n} /\ n \notin 1..(n - 1)
        /\ \A i \in 1..(n - 1) : i < n
    BY <1>1, <2>1
  <2>3. n - 1 \notin Leaderless
    BY <1>1, <2>1, <2>2
  <2>4. \A i \in 1..n : Size(entries, i) \in Nat
    BY <1>1, <2>2, Sizes
  <2>5. CASE \A i \in 1..(n - 1) : ~Applies(entries, uri, i)
    <3>1. Leads(entries, uri, n, n)
      BY <2>1, <2>2, <2>5 DEF Leads
    <3> QED
      BY <2>1, <2>2, <3>1
  <2>6. CASE \E i \in 1..(n - 1) : Applies(entries, uri, i)
    <3>1. PICK i \in 1..(n - 1) : Leads(entries, uri, n - 1, i)
      BY <2>2, <2>3, <2>6
    <3>2. CASE Applies(entries, uri, n) /\ Size(entries, i) < Size(entries, n)
      <4>1. Leads(entries, uri, n, n)
        BY <1>1, <2>2, <2>4, <3>1, <3>2 DEF Leads
      <4> QED
        BY <2>1, <2>2, <4>1
    <3>3. CASE ~(Applies(entries, uri, n) /\ Size(entries, i) < Size(entries, n))
      <4>1. Leads(entries, uri, n, i)
        BY <1>1, <2>2, <2>4, <3>1, <3>3 DEF Leads
      <4> QED
        BY <2>1, <2>2, <4>1
    <3> QED
      BY <3>2, <3>3
  <2> QED
    BY <2>5, <2>6
<1> QED
  BY <1>2, <1>3

\* A path followed by "*" matches what begins with the path (fnmatchcase).
LEMMA PathMatches ==
    ASSUME NEW p, p \in Seq(Characters \cup {Star, One}), IsPrefix(p), NEW u, Matches(p, u)
    PROVE  \A k \in 1..(Len(p) - 1) : p[k] = u[k]
<1>1. Len(p) \in Nat /\ Len(p) # 0
  BY EmptySeq, LenProperties DEF IsPrefix
<1>2. PICK cut \in [0..Len(p) -> 0..Len(u)] :
          /\ cut[0] = 0
          /\ \A i \in 1..Len(p) :
                 \/ p[i] = Star
                 \/ cut[i] = cut[i - 1] + 1 /\ p[i] \in {One, u[cut[i]]}
  BY DEF Matches
<1>3. \A i \in 1..(Len(p) - 1) :
          cut[i] = cut[i - 1] + 1 /\ p[i] = u[cut[i]]
  BY <1>1, <1>2 DEF IsPrefix
<1> DEFINE Strayed == {i \in 0..(Len(p) - 1) : cut[i] # i}
<1>4. Strayed = {}
  <2> SUFFICES ASSUME Strayed # {} PROVE FALSE
    OBVIOUS
  <2>a. Strayed \subseteq Nat
    BY <1>1
  <2> HIDE DEF Strayed
  <2>b. PICK i \in Strayed : \A k \in Strayed : i <= k
    BY <2>a, LeastElement
  <2> USE DEF Strayed
  <2>1. i \in Strayed /\ \A k \in Strayed : i <= k
    BY <2>b
  <2>2. i # 0 /\ i - 1 \in 0..(Len(p) - 1) /\ i \in 1..(Len(p) - 1)
    BY <1>1, <1>2, <2>1
  <2>3. cut[i - 1] = i - 1
    BY <2>1, <2>2
  <2> QED
    BY <1>3, <2>1, <2>2, <2>3
<1>5. \A k \in 1..(Len(p) - 1) : cut[k] = k
  BY <1>1, <1>4
<1> QED
  BY <1>3, <1>5

\* Of two paths that begin one URI the longer extends the shorter.
LEMMA PathsNest ==
    ASSUME NEW p, p \in Seq(Characters \cup {Star, One}), IsPrefix(p),
           NEW q, q \in Seq(Characters \cup {Star, One}), IsPrefix(q),
           NEW u, Matches(p, u), Matches(q, u), Len(q) <= Len(p)
    PROVE  Extends(p, q)
<1> DEFINE n == Len(q) - 1
           S == Characters \cup {Star, One}
<1>1. /\ Len(q) \in Nat /\ Len(p) \in Nat /\ n \in Nat
      /\ n <= Len(p) - 1 /\ n <= Len(p) /\ n <= Len(q)
  BY EmptySeq, LenProperties DEF IsPrefix
<1>2. \A k \in 1..n : p[k] = q[k]
  BY <1>1, PathMatches
<1>3. ASSUME NEW s, s \in Seq(S), n <= Len(s)
      PROVE  /\ SubSeq(s, 1, n) \in Seq(S) /\ Len(SubSeq(s, 1, n)) = n
             /\ \A k \in 1..n : SubSeq(s, 1, n)[k] = s[k]
  <2>1. Len(s) \in Nat /\ 1..n \subseteq 1..Len(s)
    BY <1>1, <1>3
  <2>2. \A k \in 1..n : s[k] \in S
    BY <1>3, <2>1, ElementOfSeq
  <2>3. /\ SubSeq(s, 1, n) \in Seq(S)
        /\ Len(SubSeq(s, 1, n)) = IF 1 <= n THEN n - 1 + 1 ELSE 0
        /\ \A k \in 1..(n - 1 + 1) : SubSeq(s, 1, n)[k] = s[1 + k - 1]
    BY <1>1, <2>1, <2>2, SubSeqProperties
  <2> HIDE DEF n
  <2>4. /\ n - 1 + 1 = n /\ \A k \in 1..n : 1 + k - 1 = k
        /\ n \in Nat /\ (1 <= n \/ n = 0)
    BY <1>1
  <2> QED
    BY <2>3, <2>4
<1> HIDE DEF S
<1>4. SubSeq(p, 1, n) = SubSeq(q, 1, n)
  <2> DEFINE a == SubSeq(p, 1, n)
             b == SubSeq(q, 1, n)
  <2>1. /\ a \in Seq(S) /\ Len(a) = n /\ \A k \in 1..n : a[k] = p[k]
        /\ b \in Seq(S) /\ Len(b) = n /\ \A k \in 1..n : b[k] = q[k]
    BY <1>1, <1>3 DEF S
  <2> HIDE DEF a, b
  <2>2. \A k \in 1..Len(a) : a[k] = b[k]
    BY <1>2, <2>1
  <2>3. a = b
    BY <2>1, <2>2, SeqEqual
  <2> QED
    BY <2>3 DEF a, b
<1> QED
  BY <1>4 DEF Extends

\* Where every pattern that matches is a path followed by "*", exactly one rule
\* decides, and it is that of the deepest path (_resource_rule).
THEOREM DeepestPathWins == Spec => []DeepestPathDecides
<1>1. TableInv => DeepestPathDecides
  <2> SUFFICES ASSUME TableInv, NEW uri \in Uris,
                      \A i \in Matching(uri) : IsPrefix(table[i].pattern)
               PROVE  /\ Cardinality(Deciding(table, uri)) =
                             IF Matching(uri) = {} THEN 0 ELSE 1
                      /\ \A i \in Deciding(table, uri), j \in Matching(uri) :
                             Extends(table[i].pattern, table[j].pattern)
    BY DEF DeepestPathDecides
  <2>1. table \in Seq(Entries)
    BY DEF TableInv, Mapping
  <2>2. \A i : i \in Matching(uri) <=> i \in DOMAIN table /\ Applies(table, uri, i)
    BY DEF Matching, Applies
  <2>3. \A i \in DOMAIN table : table[i].pattern \in Patterns
    BY <2>1, Sizes DEF Entries
  <2>4. CASE Matching(uri) = {}
    <3>1. Deciding(table, uri) = {}
      BY <2>1, <2>2, <2>4, Winner
    <3> QED
      BY <2>4, <3>1, FS_EmptySet
  <2>5. CASE Matching(uri) # {}
    <3>1. PICK i : i \in Deciding(table, uri)
      BY <2>1, <2>2, <2>5, SomeWinner
    <3>2. Deciding(table, uri) = {i}
      BY <2>1, <3>1, OneWinner
    <3>3. Cardinality(Deciding(table, uri)) = 1
      BY <3>2, FS_Singleton
    <3>4. ASSUME NEW j \in Matching(uri)
          PROVE  Extends(table[i].pattern, table[j].pattern)
      <4> DEFINE p == table[i].pattern
                 q == table[j].pattern
      <4>1. i \in Matching(uri) /\ i \in DOMAIN table /\ j \in DOMAIN table
        BY <2>1, <2>2, <3>1, <3>4, Winner
      <4>2. p \in Patterns /\ q \in Patterns /\ IsPrefix(p) /\ IsPrefix(q)
        BY <2>3, <3>4, <4>1
      <4>3. Matches(p, uri) /\ Matches(q, uri)
        BY <3>4, <4>1, <4>2 DEF Matching, MatchSet
      <4>4. Len(q) <= Len(p)
        BY <2>1, <2>2, <3>1, <3>4, <4>1, Winner, Sizes DEF Size
      <4> HIDE DEF p, q
      <4>5. p \in Seq(Characters \cup {Star, One}) /\ q \in Seq(Characters \cup {Star, One})
        BY <4>2, PatternsAssumption
      <4>6. Extends(p, q)
        BY <4>2, <4>3, <4>4, <4>5, PathsNest
      <4> QED
        BY <4>6 DEF p, q
    <3> QED
      BY <2>5, <3>2, <3>3, <3>4
  <2> QED
    BY <2>4, <2>5
<1> QED
  BY <1>1, TableInvariant, PTL
=============================================================================

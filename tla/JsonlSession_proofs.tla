-------------------------- MODULE JsonlSession_proofs -------------------------
(***************************************************************************)
(* Theorems of JsonlSession, for every number of entries and of deaths,    *)
(* every way a write may be cut off and every text.                        *)
(***************************************************************************)
EXTENDS JsonlSession, SequenceTheorems, WellFoundedInduction, FiniteSetTheorems, TLAPS

LEMMA Bounds == MaxEntries \in Nat /\ MaxStops \in Nat
  BY JsonlSessionAssumption

-------------------------------------------------------------------------------
(* The tree of entries.  Path is a recursive function of the entries: it is *)
(* well defined, and grows by one entry at a time, when every entry names   *)
(* an earlier one as its parent.                                            *)
LEMMA LeastOf ==
  ASSUME NEW S, S \subseteq Nat, S # {}
  PROVE  \E x \in S : \A y \in S : x <= y
<1> DEFINE R == OpToRel(<, Nat)
<1>1. \A x, y \in Nat : y < x => <<y, x>> \in R
  BY DEF OpToRel
<1>2. IsWellFoundedOn(R, Nat)
  BY NatLessThanWellFounded
<1> HIDE DEF R
<1>3. PICK x \in S : \A y \in S : ~(<<y, x>> \in R)
  BY <1>2, WFMin
<1>4. ASSUME NEW y \in S PROVE x <= y
  <2>1. x \in Nat /\ y \in Nat /\ ~(y < x)
    BY <1>1, <1>3
  <2> QED BY <2>1
<1> QED BY <1>4

IdsUpTo(es, n) == {es[j].id : j \in 1 .. n}

IsTree(es) ==
  /\ es \in Seq(Entry)
  /\ \A i \in 1 .. Len(es) :
       /\ es[i].id \notin IdsUpTo(es, i - 1)
       /\ es[i].parent \in {0} \cup IdsUpTo(es, i - 1)

LEMMA EntryFields ==
  ASSUME NEW es, IsTree(es), NEW i \in 1 .. Len(es)
  PROVE  es[i] \in Entry /\ es[i].id \in Id /\ es[i].id # 0
<1>1. es[i] \in Entry
  BY DEF IsTree
<1> QED BY <1>1, Bounds DEF Entry, Id

LEMMA AllIds ==
  ASSUME NEW es, IsTree(es)
  PROVE  Ids(es) = IdsUpTo(es, Len(es)) /\ DOMAIN es = 1 .. Len(es) /\ Len(es) \in Nat
  BY DEF IsTree, Ids, IdsUpTo

(* An id names one entry. *)
LEMMA OneEntry ==
  ASSUME NEW es, IsTree(es), NEW i \in 1 .. Len(es), NEW j \in 1 .. Len(es),
         es[i].id = es[j].id
  PROVE  i = j
<1>1. \A k \in 1 .. Len(es), l \in 1 .. Len(es) : k < l => es[k].id # es[l].id
  <2> TAKE k \in 1 .. Len(es), l \in 1 .. Len(es)
  <2>1. k < l => k \in 1 .. l - 1
    BY AllIds
  <2> QED BY <2>1 DEF IsTree, IdsUpTo
<1>2. ~(i < j) /\ ~(j < i)
  BY <1>1
<1> QED BY <1>2, AllIds

LEMMA EntryOfId ==
  ASSUME NEW es, IsTree(es), NEW i \in 1 .. Len(es)
  PROVE  EntryOf(es, es[i].id) = es[i]
<1> DEFINE k == CHOOSE j \in DOMAIN es : es[j].id = es[i].id
<1>1. k \in 1 .. Len(es) /\ es[k].id = es[i].id
  BY AllIds
<1> HIDE DEF k
<1>2. k = i
  BY <1>1, OneEntry
<1> QED BY <1>2 DEF EntryOf, k

(* upTo of Path. *)
UpTo(es) ==
  CHOOSE f : f = [x \in {0} \cup Ids(es) |->
                    IF x = 0 THEN <<>> ELSE Append(f[EntryOf(es, x).parent], x)]

LEMMA PathIsUpTo == ASSUME NEW es, NEW id PROVE Path(es, id) = UpTo(es)[id]
  BY DEF Path, UpTo

LEMMA UpToExists ==
  ASSUME NEW es, IsTree(es)
  PROVE  \E f : f = [x \in {0} \cup Ids(es) |->
                       IF x = 0 THEN <<>> ELSE Append(f[EntryOf(es, x).parent], x)]
<1> DEFINE Up(f, n) ==
             f = [x \in {0} \cup IdsUpTo(es, n) |->
                    IF x = 0 THEN <<>> ELSE Append(f[EntryOf(es, x).parent], x)]
           Bad == {n \in 0 .. Len(es) : \A f : ~Up(f, n)}
<1>1. ASSUME NEW n \in 0 .. Len(es), n + 1 \in 1 .. Len(es), NEW f, Up(f, n)
      PROVE  \E g : Up(g, n + 1)
  <2> DEFINE e == es[n + 1]
             g == [x \in {0} \cup IdsUpTo(es, n + 1) |->
                     IF x = e.id THEN Append(f[e.parent], x) ELSE f[x]]
  <2>1. e.id \notin {0} \cup IdsUpTo(es, n) /\ e.parent \in {0} \cup IdsUpTo(es, n)
    BY <1>1, EntryFields DEF IsTree
  <2>2. IdsUpTo(es, n + 1) = IdsUpTo(es, n) \cup {e.id}
    BY <1>1, AllIds DEF IdsUpTo
  <2>3. EntryOf(es, e.id) = e
    BY <1>1, EntryOfId
  <2>4. ASSUME NEW x \in IdsUpTo(es, n)
        PROVE  EntryOf(es, x).parent \in {0} \cup IdsUpTo(es, n) /\ x # 0
    <3>1. PICK j \in 1 .. n : x = es[j].id
      BY DEF IdsUpTo
    <3>2. j \in 1 .. Len(es) /\ IdsUpTo(es, j - 1) \subseteq IdsUpTo(es, n)
      BY <1>1, AllIds DEF IdsUpTo
    <3>3. EntryOf(es, x) = es[j] /\ x # 0
      BY <3>1, <3>2, EntryOfId, EntryFields
    <3> QED BY <3>2, <3>3 DEF IsTree
  <2>5. \A x \in {0} \cup IdsUpTo(es, n) : g[x] = f[x]
    BY <2>1, <2>2
  <2>6. g[e.id] = Append(f[e.parent], e.id)
    BY <2>2
  <2>7. ASSUME NEW x \in {0} \cup IdsUpTo(es, n + 1)
        PROVE  g[x] = IF x = 0 THEN <<>> ELSE Append(g[EntryOf(es, x).parent], x)
    <3> HIDE DEF g
    <3>1. CASE x = e.id
      BY <2>1, <2>3, <2>5, <2>6, <3>1
    <3>2. CASE x = 0
      BY <1>1, <2>5, <3>2
    <3>3. CASE x \in IdsUpTo(es, n)
      <4>1. f[x] = Append(f[EntryOf(es, x).parent], x)
        BY <1>1, <2>4, <3>3
      <4> QED BY <2>4, <2>5, <3>3, <4>1
    <3> QED BY <2>2, <3>1, <3>2, <3>3
  <2>8. Up(g, n + 1)
    BY <2>7
  <2> QED BY <2>8
<1>2. 0 \notin Bad
  <2> DEFINE f == [x \in {0} \cup IdsUpTo(es, 0) |-> <<>>]
  <2>1. IdsUpTo(es, 0) = {}
    BY DEF IdsUpTo
  <2>2. Up(f, 0)
    BY <2>1
  <2> QED BY <2>2
<1>3. Bad = {}
  <2> SUFFICES ASSUME Bad # {} PROVE FALSE
    OBVIOUS
  <2>1. Bad \subseteq 0 .. Len(es) /\ Len(es) \in Nat
    BY AllIds
  <2>9. Bad \subseteq Nat
    BY <2>1
  <2>2. PICK n \in Bad : \A m \in Bad : n <= m
    BY <2>9, LeastOf
  <2>3. n # 0 /\ n \in 1 .. Len(es)
    <3> HIDE DEF Bad
    <3> QED BY <1>2, <2>1, <2>2
  <2>4. n - 1 \in 0 .. Len(es) /\ n - 1 \notin Bad
    <3> HIDE DEF Bad
    <3> QED BY <2>1, <2>2, <2>3
  <2>5. PICK f : Up(f, n - 1)
    <3> HIDE DEF Up
    <3> QED BY <2>4
  <2>6. (n - 1) + 1 = n
    BY <2>3
  <2> HIDE DEF Up
  <2>7. \E g : Up(g, n)
    BY <1>1, <2>3, <2>4, <2>5, <2>6
  <2> QED BY <2>2, <2>7
<1>5. \E f : Up(f, Len(es))
  <2> HIDE DEF Up
  <2> QED BY <1>3, AllIds
<1> QED BY <1>5, AllIds

LEMMA PathGrows ==
  ASSUME NEW es, IsTree(es)
  PROVE  /\ Path(es, 0) = <<>>
         /\ \A i \in 1 .. Len(es) :
              Path(es, es[i].id) = Append(Path(es, es[i].parent), es[i].id)
<1>1. UpTo(es) = [x \in {0} \cup Ids(es) |->
                    IF x = 0 THEN <<>> ELSE Append(UpTo(es)[EntryOf(es, x).parent], x)]
  BY UpToExists DEF UpTo
<1>2. UpTo(es)[0] = <<>>
  BY <1>1
<1>3. ASSUME NEW i \in 1 .. Len(es)
      PROVE  UpTo(es)[es[i].id] = Append(UpTo(es)[es[i].parent], es[i].id)
  <2>1. es[i].id \in Ids(es) /\ es[i].id # 0
    BY AllIds, EntryFields DEF Ids
  <2>2. EntryOf(es, es[i].id) = es[i]
    BY EntryOfId
  <2> QED BY <1>1, <2>1, <2>2
<1> QED BY <1>2, <1>3, PathIsUpTo

(* A path leads through entries not later than its last. *)
LEMMA PathIsSeq ==
  ASSUME NEW es, IsTree(es), NEW i \in 1 .. Len(es)
  PROVE  /\ Path(es, es[i].id) \in Seq(IdsUpTo(es, i))
         /\ Path(es, es[i].parent) \in Seq(IdsUpTo(es, i - 1))
<1> DEFINE P(k) == Path(es, es[k].id) \in Seq(IdsUpTo(es, k))
                   /\ Path(es, es[k].parent) \in Seq(IdsUpTo(es, k - 1))
           Bad == {k \in 1 .. Len(es) : ~P(k)}
<1>1. ASSUME NEW k \in 1 .. Len(es), \A j \in 1 .. k - 1 : P(j)
      PROVE  P(k)
  <2>1. Path(es, es[k].parent) \in Seq(IdsUpTo(es, k - 1))
    <3>1. CASE es[k].parent = 0
      <4>1. Path(es, es[k].parent) = <<>>
        BY <3>1, PathGrows
      <4> QED BY <4>1
    <3>2. CASE es[k].parent # 0
      <4>1. PICK j \in 1 .. k - 1 : es[k].parent = es[j].id
        BY <3>2 DEF IsTree, IdsUpTo
      <4>2. IdsUpTo(es, j) \subseteq IdsUpTo(es, k - 1)
        BY AllIds DEF IdsUpTo
      <4>3. Path(es, es[j].id) \in Seq(IdsUpTo(es, j))
        BY <1>1
      <4> QED BY <4>1, <4>2, <4>3
    <3> QED BY <3>1, <3>2
  <2>2. Path(es, es[k].id) = Append(Path(es, es[k].parent), es[k].id)
    BY PathGrows
  <2>3. IdsUpTo(es, k - 1) \subseteq IdsUpTo(es, k) /\ es[k].id \in IdsUpTo(es, k)
    BY AllIds DEF IdsUpTo
  <2>4. Path(es, es[k].parent) \in Seq(IdsUpTo(es, k))
    BY <2>1, <2>3
  <2> QED BY <2>1, <2>2, <2>3, <2>4
<1>2. Bad = {}
  <2> SUFFICES ASSUME Bad # {} PROVE FALSE
    OBVIOUS
  <2> HIDE DEF P
  <2>1. Bad \subseteq Nat
    BY AllIds
  <2>2. PICK k \in Bad : \A j \in Bad : k <= j
    BY <2>1, LeastOf
  <2>3. \A j \in 1 .. k - 1 : P(j)
    BY <2>1, <2>2, AllIds
  <2> QED BY <1>1, <2>2, <2>3
<1> QED BY <1>2

(* Every entry of the first is one of the second, in whatever order. *)
Within(es, gs) == \A i \in 1 .. Len(es) : \E j \in 1 .. Len(gs) : gs[j] = es[i]

(* An entry has the same path in any tree that holds it and its ancestors. *)
LEMMA SamePath ==
  ASSUME NEW es, NEW gs, IsTree(es), IsTree(gs), Within(es, gs),
         NEW x \in {0} \cup Ids(es)
  PROVE  Path(es, x) = Path(gs, x)
<1> DEFINE P(k) == Path(es, es[k].id) = Path(gs, es[k].id)
           Bad == {k \in 1 .. Len(es) : ~P(k)}
<1>1. Path(es, 0) = Path(gs, 0)
  BY PathGrows
<1>2. ASSUME NEW k \in 1 .. Len(es), \A j \in 1 .. k - 1 : P(j)
      PROVE  P(k)
  <2>1. Path(es, es[k].parent) = Path(gs, es[k].parent)
    <3>1. CASE es[k].parent = 0
      BY <1>1, <3>1
    <3>2. CASE es[k].parent # 0
      <4>1. PICK j \in 1 .. k - 1 : es[k].parent = es[j].id
        BY <3>2 DEF IsTree, IdsUpTo
      <4> QED BY <1>2, <4>1
    <3> QED BY <3>1, <3>2
  <2>2. PICK l \in 1 .. Len(gs) : gs[l] = es[k]
    BY DEF Within
  <2>3. Path(es, es[k].id) = Append(Path(es, es[k].parent), es[k].id)
    BY PathGrows
  <2>4. Path(gs, gs[l].id) = Append(Path(gs, gs[l].parent), gs[l].id)
    BY PathGrows
  <2> QED BY <2>1, <2>2, <2>3, <2>4
<1>3. Bad = {}
  <2> SUFFICES ASSUME Bad # {} PROVE FALSE
    OBVIOUS
  <2> HIDE DEF P
  <2>1. Bad \subseteq Nat
    BY AllIds
  <2>2. PICK k \in Bad : \A j \in Bad : k <= j
    BY <2>1, LeastOf
  <2>3. \A j \in 1 .. k - 1 : P(j)
    BY <2>1, <2>2, AllIds
  <2> QED BY <1>2, <2>2, <2>3
<1> QED BY <1>1, <1>3, AllIds DEF Ids

LEMMA SameKeep ==
  ASSUME NEW es, NEW gs, IsTree(es), IsTree(gs), Within(es, gs),
         NEW at \in {0} \cup Ids(es), NEW kept, MayKeep(es, at, kept)
  PROVE  MayKeep(gs, at, kept)
<1>1. PICK i \in 1 .. Len(es) : es[i].id = kept
  BY AllIds DEF MayKeep, Ids
<1>2. PICK j \in 1 .. Len(gs) : gs[j] = es[i]
  BY DEF Within
<1>3. kept \in Ids(gs)
  BY <1>1, <1>2, AllIds DEF Ids
<1>4. EntryOf(es, kept) = es[i] /\ EntryOf(gs, kept) = gs[j]
  BY <1>1, <1>2, EntryOfId
<1>5. Path(es, at) = Path(gs, at)
  BY SamePath
<1> QED BY <1>2, <1>3, <1>4, <1>5 DEF MayKeep, OnPath

-------------------------------------------------------------------------------
(* An entry that may be appended has the next id and the leaf as parent. *)
LEMMA CandidateTypes ==
  ASSUME TypeOK, used < MaxEntries, NEW e \in Candidates
  PROVE  e \in Entry /\ e.id = used + 1 /\ e.parent = leaf
<1>1. used + 1 \in Id
  BY Bounds DEF TypeOK, Id
<1>2. CASE \E k \in {"message", "note"} :
             e = [id |-> used + 1, parent |-> leaf, kind |-> k, kept |-> 0]
  BY <1>1, <1>2 DEF TypeOK, Entry, Kinds
<1>3. CASE \E x \in Ids(entries) :
             e = [id |-> used + 1, parent |-> leaf, kind |-> "compaction", kept |-> x]
  <2>1. \A i \in DOMAIN entries : entries[i] \in Entry
    BY DEF TypeOK
  <2>2. Ids(entries) \subseteq Id
    BY <2>1 DEF Ids, Entry
  <2> QED BY <1>1, <1>3, <2>2 DEF TypeOK, Entry, Kinds
<1> QED BY <1>2, <1>3 DEF Candidates

(* One line more: the file, whatever the write left of it. *)
LEMMA LineTypes ==
  ASSUME NEW e \in Entry, NEW end \in {"whole"} \cup Ends, NEW t \in Texts
  PROVE  [entry |-> e, end |-> end, text |-> t] \in Line
  BY JsonlSessionAssumption DEF Line

-------------------------------------------------------------------------------
(* The lines of the file form chains towards a root: the inductive form of *)
(* ParentsEarlier.  The ids in the file are ids already given out, and the *)
(* leaf of a process that runs is in the file, or there is none.           *)
FileIds(n) == {file[j].entry.id : j \in 1 .. n}

ChainInv ==
  /\ TypeOK
  /\ ParentsEarlier
  /\ FileIds(Len(file)) \subseteq 1 .. used
  /\ phase = "open" => leaf \in {0} \cup FileIds(Len(file))

LEMMA ChainInit == Init => ChainInv
  BY Bounds, JsonlSessionAssumption
  DEF Init, ChainInv, TypeOK, ParentsEarlier, FileIds

(* A line whose parent is the leaf and whose id is new, or none at all. *)
LEMMA OneMoreLine ==
  ASSUME ChainInv, phase = "open", used < MaxEntries, used' = used + 1,
         NEW e \in Candidates, NEW t \in Texts, NEW end \in {"whole"} \cup Ends,
         file' = Append(file, [entry |-> e, end |-> end, text |-> t])
  PROVE  /\ file' \in Seq(Line)
         /\ Len(file') = Len(file) + 1
         /\ ParentsEarlier'
         /\ FileIds(Len(file))' \subseteq 1 .. used'
         /\ FileIds(Len(file)) \subseteq FileIds(Len(file))'
         /\ e.id \in FileIds(Len(file))'
         /\ \A i \in 1 .. Len(file) : file'[i] = file[i]
         /\ file'[Len(file) + 1] = [entry |-> e, end |-> end, text |-> t]
<1> DEFINE n == Len(file)
           line == [entry |-> e, end |-> end, text |-> t]
<1>1. e \in Entry /\ e.id = used + 1 /\ e.parent = leaf
  BY CandidateTypes DEF ChainInv
<1>2. line \in Line
  BY <1>1, LineTypes
<1>3. file \in Seq(Line) /\ n \in Nat /\ used \in Nat
  BY DEF ChainInv, TypeOK
<1>4. file' \in Seq(Line) /\ Len(file') = n + 1
  BY <1>2, <1>3
<1>5. /\ \A i \in 1 .. n : file'[i] = file[i]
      /\ file'[n + 1] = line
  BY <1>2, <1>3
<1>6. \A i \in 1 .. n + 1 :
        {file'[j].entry.id : j \in 1 .. i - 1} = {file[j].entry.id : j \in 1 .. i - 1}
  <2> TAKE i \in 1 .. n + 1
  <2>1. \A j \in 1 .. i - 1 : file'[j] = file[j]
    BY <1>3, <1>5
  <2> QED BY <2>1
<1>7. FileIds(Len(file))' = FileIds(n) \cup {e.id}
  <2>1. FileIds(Len(file))' = {file'[j].entry.id : j \in 1 .. n + 1}
    BY <1>4 DEF FileIds
  <2>2. 1 .. n + 1 = (1 .. n) \cup {n + 1}
    BY <1>3
  <2>3. FileIds(n) = {file'[j].entry.id : j \in 1 .. n}
    BY <1>5 DEF FileIds
  <2>4. file'[n + 1].entry.id = e.id
    BY <1>5
  <2> HIDE DEF n, line
  <2> QED BY <2>1, <2>2, <2>3, <2>4
<1>8. ParentsEarlier'
  <2> SUFFICES ASSUME NEW i \in 1 .. n + 1
               PROVE  LET before == {file'[j].entry.id : j \in 1 .. i - 1}
                      IN  file'[i].entry.id \notin before
                          /\ file'[i].entry.parent \in {0} \cup before
    <3>1. DOMAIN file' = 1 .. n + 1
      BY <1>4
    <3> HIDE DEF n, line
    <3> QED BY <3>1, Zenon DEF ParentsEarlier
  <2>1. CASE i \in 1 .. n
    BY <1>3, <1>5, <1>6, <2>1 DEF ChainInv, ParentsEarlier
  <2>2. CASE i = n + 1
    <3>1. {file'[j].entry.id : j \in 1 .. i - 1} = FileIds(n)
      BY <1>3, <1>6, <2>2 DEF FileIds
    <3>2. file'[i].entry = e
      BY <1>5, <2>2
    <3>3. used + 1 \notin FileIds(n) /\ leaf \in {0} \cup FileIds(n)
      <4>1. FileIds(n) \subseteq 1 .. used /\ leaf \in {0} \cup FileIds(n)
        BY DEF ChainInv, n
      <4>2. used + 1 \notin 1 .. used
        BY <1>3
      <4> HIDE DEF n
      <4> QED BY <4>1, <4>2
    <3>4. e.id \notin FileIds(n) /\ e.parent \in {0} \cup FileIds(n)
      BY <1>1, <3>3
    <3> HIDE DEF n, line
    <3> QED BY <3>1, <3>2, <3>4
  <2>3. i \in 1 .. n \/ i = n + 1
    BY <1>3
  <2> QED BY <2>1, <2>2, <2>3, Zenon
<1>9. FileIds(n) \cup {e.id} \subseteq 1 .. used'
  BY <1>1, <1>3 DEF ChainInv
<1> QED BY <1>4, <1>5, <1>7, <1>8, <1>9

(* A file cut short, its last line perhaps cut as well. *)
LEMMA LinesLost ==
  ASSUME ChainInv, NEW n \in synced .. Len(file),
         \/ file' = SubSeq(file, 1, n)
         \/ n > synced /\ \E end \in Ends : file' = CutIn(n, end)
  PROVE  /\ file' \in Seq(Line)
         /\ Len(file') = n
         /\ ParentsEarlier'
         /\ FileIds(Len(file))' \subseteq FileIds(Len(file))
         /\ \A i \in 1 .. n : file'[i].entry = file[i].entry
<1>1. file \in Seq(Line) /\ synced \in 0 .. Len(file) /\ n \in 0 .. Len(file)
  BY DEF ChainInv, TypeOK
<1> DEFINE s == SubSeq(file, 1, n)
<1>2. s \in Seq(Line) /\ Len(s) = n /\ \A i \in 1 .. n : s[i] = file[i]
  BY <1>1
<1>3. /\ file' \in Seq(Line) /\ Len(file') = n
      /\ \A i \in 1 .. n : file'[i].entry = file[i].entry
  <2>1. CASE file' = s
    BY <1>2, <2>1
  <2>2. CASE n > synced /\ \E end \in Ends : file' = CutIn(n, end)
    <3>1. PICK end \in Ends : file' = CutIn(n, end)
      BY <2>2
    <3> DEFINE t == SubSeq(file, 1, n - 1)
               line == [entry |-> file[n].entry, end |-> end, text |-> file[n].text]
    <3>2. n \in 1 .. Len(file) /\ file[n] \in Line
      BY <1>1, <2>2
    <3>3. line \in Line
      BY <3>2, LineTypes DEF Line
    <3>4. t \in Seq(Line) /\ Len(t) = n - 1 /\ \A i \in 1 .. n - 1 : t[i] = file[i]
      BY <1>1, <3>2
    <3>5. file' = Append(t, line)
      BY <3>1 DEF CutIn
    <3>6. file' \in Seq(Line) /\ Len(file') = n /\ file'[n] = line
          /\ \A i \in 1 .. n - 1 : file'[i] = t[i]
      BY <3>2, <3>3, <3>4, <3>5
    <3> QED BY <3>2, <3>4, <3>6
  <2> QED BY <2>1, <2>2
<1>4. \A i \in 1 .. n :
        {file'[j].entry.id : j \in 1 .. i - 1} = {file[j].entry.id : j \in 1 .. i - 1}
  <2> TAKE i \in 1 .. n
  <2>1. \A j \in 1 .. i - 1 : file'[j].entry = file[j].entry
    BY <1>1, <1>3
  <2> QED BY <2>1
<1>5. ParentsEarlier'
  <2> SUFFICES ASSUME NEW i \in 1 .. n
               PROVE  LET before == {file'[j].entry.id : j \in 1 .. i - 1}
                      IN  file'[i].entry.id \notin before
                          /\ file'[i].entry.parent \in {0} \cup before
    BY <1>3 DEF ParentsEarlier
  <2>1. i \in DOMAIN file /\ file'[i].entry = file[i].entry
    BY <1>1, <1>3
  <2> QED BY <1>4, <2>1 DEF ChainInv, ParentsEarlier
<1>6. FileIds(Len(file))' \subseteq FileIds(Len(file))
  BY <1>1, <1>3 DEF FileIds
<1> QED BY <1>3, <1>5, <1>6

-------------------------------------------------------------------------------
LEMMA ChainStep ==
  ASSUME ChainInv, [Next]_vars
  PROVE  ChainInv'
<1> DEFINE n == Len(file)
<1> USE DEF ChainInv
<1>1. /\ file \in Seq(Line) /\ synced \in 0 .. n /\ entries \in Seq(Entry)
      /\ leaf \in {0} \cup Id /\ used \in 0 .. MaxEntries /\ stops \in 0 .. MaxStops
  BY DEF TypeOK
<1>2. ASSUME UNCHANGED <<synced, entries, leaf>>, phase = "open", used < MaxEntries,
             used' = used + 1, WritePartly
      PROVE  /\ file' \in Seq(Line) /\ synced' \in 0 .. Len(file')
             /\ ParentsEarlier' /\ FileIds(Len(file))' \subseteq 1 .. used'
             /\ leaf' \in {0} \cup FileIds(Len(file))'
  <2>1. CASE UNCHANGED file
    <3>1. ParentsEarlier' /\ FileIds(Len(file))' = FileIds(n)
      BY <2>1 DEF ParentsEarlier, FileIds
    <3> QED BY <1>1, <1>2, <2>1, <3>1
  <2>2. CASE \E e \in Candidates, t \in Texts, end \in Ends :
               file' = Append(file, [entry |-> e, end |-> end, text |-> t])
    <3>1. PICK e \in Candidates, t \in Texts, end \in Ends :
            file' = Append(file, [entry |-> e, end |-> end, text |-> t])
      BY <2>2
    <3>2. end \in {"whole"} \cup Ends
      OBVIOUS
    <3>3. /\ file' \in Seq(Line) /\ Len(file') = n + 1
          /\ ParentsEarlier' /\ FileIds(Len(file))' \subseteq 1 .. used'
          /\ FileIds(n) \subseteq FileIds(Len(file))'
      BY <1>2, <3>1, <3>2, OneMoreLine
    <3> QED BY <1>1, <1>2, <3>3
  <2> QED BY <1>2, <2>1, <2>2 DEF WritePartly
<1>3. CASE AppendEntry
  <2>1. PICK e \in Candidates, t \in Texts :
          /\ file' = Append(file, [entry |-> e, end |-> "whole", text |-> t])
          /\ entries' = Append(entries, e)
          /\ leaf' = e.id
    BY <1>3 DEF AppendEntry
  <2>2. e \in Entry /\ e.id = used + 1
    BY <1>3, CandidateTypes DEF AppendEntry, Appending
  <2>3. /\ file' \in Seq(Line) /\ Len(file') = n + 1
        /\ ParentsEarlier' /\ FileIds(Len(file))' \subseteq 1 .. used'
        /\ e.id \in FileIds(Len(file))'
    BY <1>3, <2>1, OneMoreLine DEF AppendEntry, Appending
  <2>4. TypeOK'
    <3>1. entries' \in Seq(Entry) /\ leaf' \in Id
      BY <1>1, <2>1, <2>2 DEF Entry
    <3>2. synced' \in 0 .. Len(file') /\ used' \in 0 .. MaxEntries
      BY <1>1, <1>3, <2>3, Bounds DEF AppendEntry, Appending
    <3> QED BY <1>3, <2>3, <3>1, <3>2 DEF TypeOK, AppendEntry
  <2> QED BY <2>1, <2>3, <2>4
<1>4. CASE AppendFails
  <2>1. used' \in 0 .. MaxEntries
    BY <1>1, <1>4, Bounds DEF AppendFails, Appending
  <2> QED BY <1>2, <1>4, <2>1 DEF AppendFails, Appending, TypeOK
<1>5. CASE DieInAppend
  <2>1. used' \in 0 .. MaxEntries /\ stops' \in 0 .. MaxStops
    BY <1>1, <1>5, Bounds DEF DieInAppend, Stopping
  <2> QED BY <1>2, <1>5, <2>1 DEF DieInAppend, Stopping, TypeOK
<1>6. CASE Exit
  <2>1. stops' \in 0 .. MaxStops
    BY <1>1, <1>6, Bounds DEF Exit, Stopping
  <2>2. ParentsEarlier' /\ FileIds(Len(file))' = FileIds(n)
    BY <1>6 DEF Exit, ParentsEarlier, FileIds
  <2> QED BY <1>6, <2>1, <2>2 DEF Exit, TypeOK
<1>7. CASE PowerFailure
  <2>1. PICK k \in synced .. n :
          \/ file' = SubSeq(file, 1, k)
          \/ k > synced /\ \E end \in Ends : file' = CutIn(k, end)
    BY <1>7 DEF PowerFailure
  <2>2. /\ file' \in Seq(Line) /\ Len(file') = k
        /\ ParentsEarlier' /\ FileIds(Len(file))' \subseteq FileIds(n)
    BY <2>1, LinesLost
  <2>3. stops' \in 0 .. MaxStops /\ synced' \in 0 .. Len(file')
    BY <1>1, <1>7, <2>2, Bounds DEF PowerFailure, Stopping
  <2> QED BY <1>7, <2>2, <2>3 DEF PowerFailure, TypeOK
<1>10. \A i \in 1 .. n : file[i].entry \in Entry
  <2>1. \A i \in 1 .. n : file[i] \in Line
    BY <1>1
  <2> QED BY <2>1 DEF Line
<1>8. CASE Load
  <2>1. ParentsEarlier' /\ FileIds(Len(file))' = FileIds(n)
    BY <1>8 DEF Load, ParentsEarlier, FileIds
  <2>2. CASE Loadable(file)
    <3>1. entries' = EntriesOf(file) /\ phase' = "open"
          /\ leaf' = IF file = <<>> THEN 0 ELSE file[n].entry.id
      BY <1>8, <2>2 DEF Load
    <3>2. entries' \in Seq(Entry)
      BY <1>1, <1>10, <3>1 DEF EntriesOf
    <3>3. leaf' \in {0} \cup Id /\ leaf' \in {0} \cup FileIds(n)
      <4>1. CASE file = <<>>
        BY <3>1, <4>1
      <4>2. CASE file # <<>>
        <5>1. n \in 1 .. n
          BY <1>1, <4>2
        <5>2. leaf' = file[n].entry.id /\ file[n].entry \in Entry
          BY <1>10, <3>1, <4>2, <5>1
        <5> QED BY <5>1, <5>2 DEF Entry, FileIds
      <4> QED BY <4>1, <4>2
    <3> QED BY <1>8, <2>1, <3>1, <3>2, <3>3 DEF Load, TypeOK
  <2>3. CASE ~Loadable(file)
    BY <1>8, <2>1, <2>3 DEF Load, TypeOK
  <2> QED BY <2>2, <2>3
<1>9. CASE UNCHANGED vars
  <2>1. ParentsEarlier' /\ FileIds(Len(file))' = FileIds(n)
    BY <1>9 DEF vars, ParentsEarlier, FileIds
  <2> QED BY <1>9, <2>1 DEF vars, TypeOK
<1> QED BY <1>3, <1>4, <1>5, <1>6, <1>7, <1>8, <1>9 DEF Next

LEMMA ChainAlways == Spec => []ChainInv
  BY ChainInit, ChainStep, PTL DEF Spec

(* The variables of a session file keep their types, whatever fails. *)
THEOREM TypeCorrect == Spec => []TypeOK
<1>1. ChainInv => TypeOK
  BY DEF ChainInv
<1> QED BY <1>1, ChainAlways, PTL

(* No sequence of failed, interrupted and acknowledged appends, deaths and *)
(* loads ever writes a line whose parent is not an earlier line, or reuses *)
(* an id.                                                                  *)
THEOREM LinesChained == Spec => []ParentsEarlier
<1>1. ChainInv => ParentsEarlier
  BY DEF ChainInv
<1> QED BY <1>1, ChainAlways, PTL

-------------------------------------------------------------------------------
(* What the object knows of the file.  Its entries are a tree whose last   *)
(* entry is the leaf and, until a power failure, lines of the file.        *)
ObjectInv ==
  /\ IsTree(entries)
  /\ leaf = IF entries = <<>> THEN 0 ELSE entries[Len(entries)].id
  /\ \A i \in 1 .. Len(entries) : entries[i].parent = 0 => i = 1
  /\ phase \in {"open", "down"} => Within(entries, EntriesOf(file))

(* The lines after the leaf are appends that failed on it. *)
LeafAt(m) ==
  /\ m \in synced .. Len(file)
  /\ m = 0 <=> entries = <<>>
  /\ m # 0 => file[m].entry.id = leaf
  /\ \A i \in m + 1 .. Len(file) :
       /\ file[i].entry.parent = leaf
       /\ \A j \in 1 .. Len(entries) : entries[j] # file[i].entry

LeafInv == phase \in {"open", "down"} => \E m \in 0 .. Len(file) : LeafAt(m)

(* Whatever was written after the last acknowledged append hangs on it. *)
SyncedId == IF synced = 0 THEN 0 ELSE file[synced].entry.id

TailInv ==
  \A i \in synced + 1 .. Len(file) :
    file[i].entry.parent \in {SyncedId} \cup {file[j].entry.id : j \in synced + 1 .. i - 1}

LEMMA ObjectInit == Init => ObjectInv /\ LeafInv /\ TailInv /\ KeptOnBranch
<1> SUFFICES ASSUME Init PROVE ObjectInv /\ LeafInv /\ TailInv /\ KeptOnBranch
  OBVIOUS
<1>1. file = <<>> /\ entries = <<>> /\ leaf = 0 /\ synced = 0
  BY DEF Init
<1>2. ObjectInv
  BY <1>1 DEF ObjectInv, IsTree, Within
<1>3. LeafAt(0)
  BY <1>1 DEF LeafAt
<1>4. LeafInv
  BY <1>1, <1>3 DEF LeafInv
<1>5. TailInv /\ KeptOnBranch
  BY <1>1 DEF TailInv, KeptOnBranch
<1> QED BY <1>2, <1>4, <1>5

(* The entries of a file whose lines are chained are a tree. *)
LEMMA FileTree ==
  ASSUME NEW lines \in Seq(Line),
         \A i \in DOMAIN lines :
           LET before == {lines[j].entry.id : j \in 1 .. i - 1}
           IN  lines[i].entry.id \notin before /\ lines[i].entry.parent \in {0} \cup before
  PROVE  /\ IsTree(EntriesOf(lines))
         /\ Len(EntriesOf(lines)) = Len(lines)
         /\ \A i \in 1 .. Len(lines) : EntriesOf(lines)[i] = lines[i].entry
         /\ Ids(EntriesOf(lines)) = {lines[j].entry.id : j \in 1 .. Len(lines)}
<1> DEFINE es == EntriesOf(lines)
<1>1. \A i \in 1 .. Len(lines) : lines[i].entry \in Entry
  <2>1. \A i \in 1 .. Len(lines) : lines[i] \in Line
    OBVIOUS
  <2> QED BY <2>1 DEF Line
<1>2. es \in Seq(Entry) /\ Len(es) = Len(lines) /\ \A i \in 1 .. Len(lines) : es[i] = lines[i].entry
  BY <1>1 DEF EntriesOf
<1> HIDE DEF es
<1>3. \A i \in 0 .. Len(lines) : IdsUpTo(es, i) = {lines[j].entry.id : j \in 1 .. i}
  <2> TAKE i \in 0 .. Len(lines)
  <2>1. \A j \in 1 .. i : es[j] = lines[j].entry
    BY <1>2
  <2> QED BY <2>1 DEF IdsUpTo
<1>4. ASSUME NEW i \in 1 .. Len(es)
      PROVE  /\ es[i].id \notin IdsUpTo(es, i - 1)
             /\ es[i].parent \in {0} \cup IdsUpTo(es, i - 1)
  <2>1. i - 1 \in 0 .. Len(lines) /\ i \in DOMAIN lines
    BY <1>2
  <2>2. IdsUpTo(es, i - 1) = {lines[j].entry.id : j \in 1 .. i - 1}
    BY <1>3, <2>1
  <2>3. es[i] = lines[i].entry
    BY <1>2, <2>1
  <2> QED BY <2>1, <2>2, <2>3
<1>5. IsTree(es)
  BY <1>2, <1>4 DEF IsTree
<1>6. Ids(es) = {lines[j].entry.id : j \in 1 .. Len(lines)}
  BY <1>2, <1>3, <1>5, AllIds
<1> QED BY <1>2, <1>5, <1>6 DEF es

LEMMA FileIsTree ==
  ASSUME ChainInv
  PROVE  /\ IsTree(EntriesOf(file))
         /\ Len(EntriesOf(file)) = Len(file) /\ Len(file) \in Nat
         /\ \A i \in 1 .. Len(file) : EntriesOf(file)[i] = file[i].entry
         /\ Ids(EntriesOf(file)) = FileIds(Len(file))
<1>1. file \in Seq(Line)
  BY DEF ChainInv, TypeOK
<1>2. Len(file) \in Nat
  BY <1>1
<1>3. ParentsEarlier
  BY DEF ChainInv
<1> QED BY <1>1, <1>2, <1>3, FileTree DEF ParentsEarlier, FileIds

LEMMA NextFileIsTree ==
  ASSUME ChainInv'
  PROVE  /\ IsTree(EntriesOf(file'))
         /\ Len(EntriesOf(file')) = Len(file') /\ Len(file') \in Nat
         /\ \A i \in 1 .. Len(file') : EntriesOf(file')[i] = file'[i].entry
         /\ Ids(EntriesOf(file')) = FileIds(Len(file))'
<1>1. file' \in Seq(Line)
  BY DEF ChainInv, TypeOK
<1> QED BY <1>1, FileTree DEF ChainInv, ParentsEarlier, FileIds

(* The id of an entry about to be appended is in neither. *)
LEMMA FreshId ==
  ASSUME ChainInv, ObjectInv, phase = "open", used < MaxEntries, NEW e \in Candidates
  PROVE  /\ e \in Entry /\ e.id \in Id /\ e.id = used + 1 /\ e.parent = leaf
         /\ e.id \notin FileIds(Len(file))
         /\ e.id \notin Ids(entries)
         /\ leaf \in {0} \cup Ids(entries)
<1>1. e \in Entry /\ e.id = used + 1 /\ e.parent = leaf
  BY CandidateTypes DEF ChainInv
<1>2. e.id \notin FileIds(Len(file))
  BY <1>1 DEF ChainInv, TypeOK
<1>3. Ids(entries) \subseteq FileIds(Len(file))
  <2>1. \A i \in 1 .. Len(entries) : \E j \in 1 .. Len(file) : file[j].entry = entries[i]
    BY FileIsTree DEF ObjectInv, Within
  <2> QED BY <2>1, AllIds DEF ObjectInv, Ids, FileIds
<1>4. leaf \in {0} \cup Ids(entries)
  <2>1. CASE entries = <<>>
    BY <2>1 DEF ObjectInv
  <2>2. CASE entries # <<>>
    <3>1. Len(entries) \in 1 .. Len(entries) /\ leaf = entries[Len(entries)].id
      BY <2>2 DEF ObjectInv, IsTree
    <3> QED BY <3>1, AllIds DEF ObjectInv, Ids
  <2> QED BY <2>1, <2>2
<1> QED BY <1>1, <1>2, <1>3, <1>4 DEF Entry

(* What is before a line of the file is a tree as well. *)
LEMMA SameBefore ==
  ASSUME NEW ls \in Seq(Line), NEW ms \in Seq(Line), NEW n \in Nat,
         n <= Len(ls), n <= Len(ms), \A j \in 1 .. n : ls[j].entry = ms[j].entry
  PROVE  EntriesOf(SubSeq(ls, 1, n)) = EntriesOf(SubSeq(ms, 1, n))
<1>1. /\ DOMAIN SubSeq(ls, 1, n) = 1 .. n /\ DOMAIN SubSeq(ms, 1, n) = 1 .. n
      /\ \A j \in 1 .. n : SubSeq(ls, 1, n)[j] = ls[j] /\ SubSeq(ms, 1, n)[j] = ms[j]
  OBVIOUS
<1>2. \A j \in 1 .. n : SubSeq(ls, 1, n)[j].entry = SubSeq(ms, 1, n)[j].entry
  BY <1>1
<1> QED BY <1>1, <1>2 DEF EntriesOf

LEMMA WholeFile ==
  ASSUME NEW ls \in Seq(Line), NEW ms \in Seq(Line), Len(ls) <= Len(ms),
         \A j \in 1 .. Len(ls) : ls[j].entry = ms[j].entry
  PROVE  EntriesOf(SubSeq(ms, 1, Len(ls))) = EntriesOf(ls)
<1>1. SubSeq(ls, 1, Len(ls)) = ls
  OBVIOUS
<1>2. EntriesOf(SubSeq(ls, 1, Len(ls))) = EntriesOf(SubSeq(ms, 1, Len(ls)))
  BY SameBefore
<1> QED BY <1>1, <1>2

(* KeptOnBranch holds of any beginning of the file. *)
LEMMA KeptOfShorter ==
  ASSUME ChainInv, ChainInv', KeptOnBranch, NEW i \in 1 .. Len(file'), i <= Len(file),
         \A j \in 1 .. i : file'[j].entry = file[j].entry
  PROVE  file'[i].entry.kind = "compaction" =>
           MayKeep(EntriesOf(SubSeq(file', 1, i - 1)), file'[i].entry.parent, file'[i].entry.kept)
<1>1. file \in Seq(Line) /\ file' \in Seq(Line)
  BY DEF ChainInv, TypeOK
<1>2. i \in DOMAIN file /\ i - 1 \in Nat /\ i - 1 <= Len(file) /\ i - 1 <= Len(file')
  BY <1>1
<1>3. EntriesOf(SubSeq(file, 1, i - 1)) = EntriesOf(SubSeq(file', 1, i - 1))
  BY <1>1, <1>2, SameBefore
<1>4. file[i].entry.kind = "compaction" =>
        MayKeep(EntriesOf(SubSeq(file, 1, i - 1)), file[i].entry.parent, file[i].entry.kept)
  BY <1>2 DEF KeptOnBranch
<1>5. file'[i].entry = file[i].entry
  OBVIOUS
<1> QED BY <1>3, <1>4, <1>5

(* What the object may keep, a line of the file may. *)
LEMMA KeptOfCandidate ==
  ASSUME ChainInv, ObjectInv, phase = "open", used < MaxEntries, NEW e \in Candidates,
         e.kind = "compaction"
  PROVE  MayKeep(EntriesOf(file), e.parent, e.kept)
<1>1. MayKeep(entries, leaf, e.kept)
  BY DEF Candidates
<1>2. e.parent = leaf /\ leaf \in {0} \cup Ids(entries)
  BY FreshId
<1>3. IsTree(entries) /\ IsTree(EntriesOf(file)) /\ Within(entries, EntriesOf(file))
  BY FileIsTree DEF ObjectInv
<1> QED BY <1>1, <1>2, <1>3, SameKeep

LEMMA KeptOfLine ==
  ASSUME ChainInv, ChainInv', ObjectInv, KeptOnBranch,
         phase = "open", used < MaxEntries, used' = used + 1,
         NEW e \in Candidates, NEW t \in Texts, NEW end \in {"whole"} \cup Ends,
         file' = Append(file, [entry |-> e, end |-> end, text |-> t])
  PROVE  KeptOnBranch'
<1>1. /\ Len(file') = Len(file) + 1 /\ Len(file) \in Nat
      /\ \A j \in 1 .. Len(file) : file'[j] = file[j]
      /\ file'[Len(file) + 1].entry = e
  BY OneMoreLine DEF ChainInv, TypeOK
<1>2. file \in Seq(Line) /\ file' \in Seq(Line) /\ DOMAIN file' = 1 .. Len(file')
  BY DEF ChainInv, TypeOK
<1>3. EntriesOf(SubSeq(file', 1, Len(file))) = EntriesOf(file)
  <2>1. Len(file) <= Len(file') /\ \A j \in 1 .. Len(file) : file[j].entry = file'[j].entry
    BY <1>1
  <2> QED BY <1>2, <2>1, WholeFile
<1> SUFFICES ASSUME NEW i \in 1 .. Len(file'), file'[i].entry.kind = "compaction"
             PROVE  MayKeep(EntriesOf(SubSeq(file', 1, i - 1)), file'[i].entry.parent,
                            file'[i].entry.kept)
  BY <1>2 DEF KeptOnBranch
<1>4. CASE i <= Len(file)
  <2>1. \A j \in 1 .. i : file'[j].entry = file[j].entry
    BY <1>1, <1>4
  <2> QED BY <1>4, <2>1, KeptOfShorter
<1>5. CASE i = Len(file) + 1
  <2>1. file'[i].entry = e /\ i - 1 = Len(file)
    BY <1>1, <1>5
  <2>2. MayKeep(EntriesOf(file), e.parent, e.kept)
    BY <2>1, KeptOfCandidate
  <2> QED BY <1>3, <2>1, <2>2
<1> QED BY <1>1, <1>4, <1>5

LEMMA KeptSameFile ==
  ASSUME KeptOnBranch, UNCHANGED file PROVE KeptOnBranch'
  BY DEF KeptOnBranch

LEMMA KeptStep ==
  ASSUME ChainInv, ChainInv', ObjectInv, KeptOnBranch, [Next]_vars
  PROVE  KeptOnBranch'
<1>1. ASSUME phase = "open", used < MaxEntries, used' = used + 1, WritePartly
      PROVE  KeptOnBranch'
  <2>1. CASE UNCHANGED file
    BY <2>1, KeptSameFile
  <2>2. CASE \E e \in Candidates, t \in Texts, end \in Ends :
               file' = Append(file, [entry |-> e, end |-> end, text |-> t])
    <3>1. PICK e \in Candidates, t \in Texts, end \in Ends :
            file' = Append(file, [entry |-> e, end |-> end, text |-> t])
      BY <2>2
    <3>2. end \in {"whole"} \cup Ends
      OBVIOUS
    <3> QED BY <1>1, <3>1, <3>2, KeptOfLine
  <2> QED BY <1>1, <2>1, <2>2 DEF WritePartly
<1>2. CASE AppendEntry
  <2>1. PICK e \in Candidates, t \in Texts :
          file' = Append(file, [entry |-> e, end |-> "whole", text |-> t])
    BY <1>2 DEF AppendEntry
  <2> QED BY <1>2, <2>1, KeptOfLine DEF AppendEntry, Appending
<1>3. CASE AppendFails
  BY <1>1, <1>3 DEF AppendFails, Appending
<1>4. CASE DieInAppend
  BY <1>1, <1>4 DEF DieInAppend, Stopping
<1>5. CASE PowerFailure
  <2>1. PICK k \in synced .. Len(file) :
          \/ file' = SubSeq(file, 1, k)
          \/ k > synced /\ \E end \in Ends : file' = CutIn(k, end)
    BY <1>5 DEF PowerFailure
  <2>2. Len(file') = k /\ \A i \in 1 .. k : file'[i].entry = file[i].entry
    BY <2>1, LinesLost
  <2>3. k \in Nat /\ k <= Len(file) /\ DOMAIN file' = 1 .. k
    BY <2>2 DEF ChainInv, TypeOK
  <2>4. ASSUME NEW i \in 1 .. k
        PROVE  file'[i].entry.kind = "compaction" =>
                 MayKeep(EntriesOf(SubSeq(file', 1, i - 1)), file'[i].entry.parent,
                         file'[i].entry.kept)
    <3>1. i \in 1 .. Len(file') /\ i <= Len(file) /\ \A j \in 1 .. i : file'[j].entry = file[j].entry
      BY <2>2, <2>3
    <3> QED BY <3>1, KeptOfShorter
  <2> QED BY <2>3, <2>4 DEF KeptOnBranch
<1>6. CASE Exit \/ Load \/ UNCHANGED vars
  <2>1. UNCHANGED file
    BY <1>6 DEF Exit, Load, vars
  <2> QED BY <2>1, KeptSameFile
<1> QED BY <1>2, <1>3, <1>4, <1>5, <1>6 DEF Next

-------------------------------------------------------------------------------
LEMMA WithinLonger ==
  ASSUME ChainInv, ChainInv', NEW es, Within(es, EntriesOf(file)), Len(file) <= Len(file'),
         \A j \in 1 .. Len(file) : file'[j].entry = file[j].entry
  PROVE  Within(es, EntriesOf(file'))
<1>1. \A j \in 1 .. Len(EntriesOf(file)) :
        j \in 1 .. Len(EntriesOf(file')) /\ EntriesOf(file')[j] = EntriesOf(file)[j]
  BY FileIsTree, NextFileIsTree
<1> QED BY <1>1 DEF Within

(* After a write that did not return. *)
LEMMA PartlyWritten ==
  ASSUME ChainInv, ObjectInv, LeafInv, TailInv, ChainInv',
         phase = "open", used < MaxEntries, used' = used + 1,
         WritePartly, UNCHANGED <<synced, entries, leaf>>
  PROVE  ObjectInv' /\ LeafInv' /\ TailInv'
<1>1. PICK m \in 0 .. Len(file) : LeafAt(m)
  BY DEF LeafInv
<1>2. synced \in 0 .. Len(file) /\ Len(file) \in Nat
  BY DEF ChainInv, TypeOK
<1>3. CASE UNCHANGED file
  <2>1. ObjectInv'
    BY <1>3 DEF ObjectInv
  <2>2. LeafAt(m)'
    BY <1>1, <1>3 DEF LeafAt
  <2>3. LeafInv'
    BY <1>3, <2>2 DEF LeafInv
  <2>4. TailInv'
    BY <1>3 DEF TailInv, SyncedId
  <2> QED BY <2>1, <2>3, <2>4
<1>4. CASE \E e \in Candidates, t \in Texts, end \in Ends :
             file' = Append(file, [entry |-> e, end |-> end, text |-> t])
  <2>1. PICK e \in Candidates, t \in Texts, end \in Ends :
          file' = Append(file, [entry |-> e, end |-> end, text |-> t])
    BY <1>4
  <2>2. end \in {"whole"} \cup Ends
    OBVIOUS
  <2>3. /\ Len(file') = Len(file) + 1
        /\ \A i \in 1 .. Len(file) : file'[i] = file[i]
        /\ file'[Len(file) + 1].entry = e
    BY <2>1, <2>2, OneMoreLine
  <2>4. e.parent = leaf /\ e.id \notin Ids(entries)
    BY FreshId
  <2>5. ObjectInv'
    <3>1. Within(entries, EntriesOf(file'))
      BY <1>2, <2>3, WithinLonger DEF ObjectInv
    <3> QED BY <3>1 DEF ObjectInv
  <2>6. LeafAt(m)'
    <3>1. m \in synced' .. Len(file') /\ m <= Len(file) /\ m \in Nat
      BY <1>1, <1>2, <2>3 DEF LeafAt
    <3>2. (m = 0 <=> entries' = <<>>) /\ (m # 0 => file'[m].entry.id = leaf')
      BY <1>1, <1>2, <2>3, <3>1 DEF LeafAt
    <3>3. \A i \in m + 1 .. Len(file) :
            /\ file'[i].entry.parent = leaf'
            /\ \A j \in 1 .. Len(entries) : entries[j] # file'[i].entry
      BY <1>1, <1>2, <2>3 DEF LeafAt
    <3>4. \A j \in 1 .. Len(entries) : entries[j] # e
      BY <2>4, AllIds DEF ObjectInv, Ids
    <3>5. \A i \in m + 1 .. Len(file') : i \in m + 1 .. Len(file) \/ i = Len(file) + 1
      BY <1>2, <2>3, <3>1
    <3>6. \A i \in m + 1 .. Len(file') :
            /\ file'[i].entry.parent = leaf'
            /\ \A j \in 1 .. Len(entries') : entries'[j] # file'[i].entry
      BY <2>3, <2>4, <3>3, <3>4, <3>5
    <3> QED BY <3>1, <3>2, <3>6 DEF LeafAt
  <2>7. LeafInv'
    <3>1. m \in 0 .. Len(file')
      BY <1>2, <2>3
    <3> QED BY <2>6, <3>1 DEF LeafInv
  <2>8. TailInv'
    <3>1. SyncedId' = SyncedId
      BY <1>2, <2>3 DEF SyncedId
    <3>2. leaf \in {SyncedId} \cup {file[j].entry.id : j \in synced + 1 .. Len(file)}
      <4>1. CASE m = 0
        BY <1>1, <1>2, <4>1 DEF LeafAt, ObjectInv, SyncedId
      <4>2. CASE m # 0
        <5>1. m = synced \/ m \in synced + 1 .. Len(file)
          BY <1>1, <1>2 DEF LeafAt
        <5> QED BY <1>1, <4>2, <5>1 DEF LeafAt, SyncedId
      <4> QED BY <4>1, <4>2
    <3>3. ASSUME NEW i \in synced + 1 .. Len(file) + 1
          PROVE  file'[i].entry.parent
                   \in {SyncedId} \cup {file'[j].entry.id : j \in synced + 1 .. i - 1}
      <4>1. {file'[j].entry.id : j \in synced + 1 .. i - 1}
              = {file[j].entry.id : j \in synced + 1 .. i - 1}
        <5>1. \A j \in synced + 1 .. i - 1 : file'[j] = file[j]
          BY <1>2, <2>3
        <5> QED BY <5>1
      <4>2. CASE i \in synced + 1 .. Len(file)
        <5>1. file[i].entry.parent
                \in {SyncedId} \cup {file[j].entry.id : j \in synced + 1 .. i - 1}
          BY <4>2 DEF TailInv
        <5>2. file'[i] = file[i]
          BY <1>2, <2>3, <4>2
        <5> QED BY <4>1, <5>1, <5>2
      <4>3. CASE i = Len(file) + 1
        <5>1. i - 1 = Len(file) /\ file'[i].entry.parent = leaf
          BY <1>2, <2>3, <2>4, <4>3
        <5> QED BY <3>2, <4>1, <5>1
      <4> QED BY <1>2, <4>2, <4>3
    <3> QED BY <2>3, <3>1, <3>3 DEF TailInv
  <2> QED BY <2>5, <2>7, <2>8
<1> QED BY <1>3, <1>4 DEF WritePartly

LEMMA TreeGrows ==
  ASSUME NEW es, IsTree(es), NEW e \in Entry, e.id \notin Ids(es), e.parent \in {0} \cup Ids(es)
  PROVE  /\ IsTree(Append(es, e))
         /\ Within(es, Append(es, e))
         /\ Len(Append(es, e)) = Len(es) + 1
         /\ \A i \in 1 .. Len(es) : Append(es, e)[i] = es[i]
         /\ Append(es, e)[Len(es) + 1] = e
<1> DEFINE gs == Append(es, e)
<1>1. /\ gs \in Seq(Entry) /\ Len(gs) = Len(es) + 1 /\ Len(es) \in Nat
      /\ \A i \in 1 .. Len(es) : gs[i] = es[i]
      /\ gs[Len(es) + 1] = e
  BY DEF IsTree
<1> HIDE DEF gs
<1>2. \A i \in 0 .. Len(es) : IdsUpTo(gs, i) = IdsUpTo(es, i)
  <2> TAKE i \in 0 .. Len(es)
  <2>1. \A j \in 1 .. i : gs[j] = es[j]
    BY <1>1
  <2> QED BY <2>1 DEF IdsUpTo
<1>3. ASSUME NEW i \in 1 .. Len(gs)
      PROVE  /\ gs[i].id \notin IdsUpTo(gs, i - 1)
             /\ gs[i].parent \in {0} \cup IdsUpTo(gs, i - 1)
  <2>1. i - 1 \in 0 .. Len(es)
    BY <1>1
  <2>2. CASE i \in 1 .. Len(es)
    BY <1>1, <1>2, <2>1, <2>2 DEF IsTree
  <2>3. CASE i = Len(es) + 1
    <3>1. IdsUpTo(gs, i - 1) = Ids(es)
      BY <1>1, <1>2, <2>1, <2>3, AllIds
    <3> QED BY <1>1, <2>3, <3>1
  <2> QED BY <1>1, <2>2, <2>3
<1>4. IsTree(gs)
  BY <1>1, <1>3 DEF IsTree
<1>5. \A i \in 1 .. Len(es) : i \in 1 .. Len(gs)
  BY <1>1
<1>6. Within(es, gs)
  BY <1>1, <1>5 DEF Within
<1> QED BY <1>1, <1>4, <1>6 DEF gs

LEMMA Appended ==
  ASSUME ChainInv, ObjectInv, ChainInv', AppendEntry
  PROVE  ObjectInv' /\ LeafInv' /\ TailInv'
<1>1. PICK e \in Candidates, t \in Texts :
        /\ file' = Append(file, [entry |-> e, end |-> "whole", text |-> t])
        /\ entries' = Append(entries, e)
        /\ leaf' = e.id
  BY DEF AppendEntry
<1>2. /\ phase = "open" /\ used < MaxEntries /\ used' = used + 1
      /\ phase' = "open" /\ synced' = Len(file')
  BY DEF AppendEntry, Appending
<1>3. /\ e \in Entry /\ e.id # 0 /\ e.parent = leaf /\ e.id \notin Ids(entries)
      /\ leaf \in {0} \cup Ids(entries)
  <2>1. e.id \in Id /\ Id = 1 .. MaxEntries
    BY <1>2, FreshId DEF Id
  <2> QED BY <1>2, <2>1, FreshId, Bounds
<1>4. /\ Len(file') = Len(file) + 1 /\ Len(file) \in Nat
      /\ \A i \in 1 .. Len(file) : file'[i] = file[i]
      /\ file'[Len(file) + 1].entry = e
  BY <1>1, <1>2, OneMoreLine DEF ChainInv, TypeOK
<1>5. /\ IsTree(entries') /\ Len(entries') = Len(entries) + 1 /\ Len(entries) \in Nat
      /\ \A i \in 1 .. Len(entries) : entries'[i] = entries[i]
      /\ entries'[Len(entries) + 1] = e
  <2>1. IsTree(entries) /\ Len(entries) \in Nat
    BY AllIds DEF ObjectInv
  <2> QED BY <1>1, <1>3, <2>1, TreeGrows
<1>6. entries' # <<>>
  BY <1>1
<1>7. Within(entries', EntriesOf(file'))
  <2>1. Within(entries, EntriesOf(file'))
    <3>1. Within(entries, EntriesOf(file)) /\ Len(file) <= Len(file')
      BY <1>2, <1>4 DEF ObjectInv
    <3> QED BY <1>4, <3>1, WithinLonger
  <2>2. /\ Len(file) + 1 \in 1 .. Len(EntriesOf(file'))
        /\ EntriesOf(file')[Len(file) + 1] = e
    BY <1>4, NextFileIsTree
  <2> QED BY <1>5, <2>1, <2>2 DEF Within
<1>8. \A i \in 1 .. Len(entries') : entries'[i].parent = 0 => i = 1
  <2> SUFFICES ASSUME NEW i \in 1 .. Len(entries'), entries'[i].parent = 0 PROVE i = 1
    OBVIOUS
  <2>1. CASE i \in 1 .. Len(entries)
    BY <1>5, <2>1 DEF ObjectInv
  <2>2. CASE i = Len(entries) + 1
    <3>1. leaf = 0
      BY <1>3, <1>5, <2>2
    <3>2. entries = <<>>
      <4>1. entries # <<>> => Len(entries) \in 1 .. Len(entries)
        BY <1>5 DEF ObjectInv, IsTree
      <4> QED BY <3>1, <4>1, EntryFields DEF ObjectInv
    <3> QED BY <2>2, <3>2
  <2> QED BY <1>5, <2>1, <2>2
<1>9. ObjectInv'
  BY <1>1, <1>5, <1>6, <1>7, <1>8 DEF ObjectInv
<1>10. LeafAt(Len(file))'
  <2>1. Len(file') \in Nat /\ Len(file') # 0 /\ file'[Len(file')].entry.id = leaf'
    BY <1>1, <1>4
  <2> QED BY <1>2, <1>6, <2>1 DEF LeafAt
<1>11. LeafInv'
  <2>1. Len(file') \in 0 .. Len(file')
    BY <1>4
  <2> QED BY <1>10, <2>1 DEF LeafInv
<1>12. TailInv'
  BY <1>2, <1>4 DEF TailInv
<1> QED BY <1>9, <1>11, <1>12

LEMMA PowerFailed ==
  ASSUME ChainInv, ObjectInv, TailInv, PowerFailure
  PROVE  ObjectInv' /\ LeafInv' /\ TailInv'
<1>1. PICK k \in synced .. Len(file) :
        \/ file' = SubSeq(file, 1, k)
        \/ k > synced /\ \E end \in Ends : file' = CutIn(k, end)
  BY DEF PowerFailure
<1>2. Len(file') = k /\ \A i \in 1 .. k : file'[i].entry = file[i].entry
  BY <1>1, LinesLost
<1>3. synced \in 0 .. Len(file) /\ Len(file) \in Nat
  BY DEF ChainInv, TypeOK
<1>4. phase' = "lost" /\ UNCHANGED <<synced, entries, leaf>>
  BY DEF PowerFailure
<1>5. ObjectInv' /\ LeafInv'
  BY <1>4 DEF ObjectInv, LeafInv
<1>6. SyncedId' = SyncedId
  BY <1>2, <1>3, <1>4 DEF SyncedId
<1>7. ASSUME NEW i \in synced + 1 .. k
      PROVE  file'[i].entry.parent
               \in {SyncedId} \cup {file'[j].entry.id : j \in synced + 1 .. i - 1}
  <2>1. \A j \in synced + 1 .. i - 1 : file'[j].entry = file[j].entry
    BY <1>2, <1>3
  <2>2. i \in synced + 1 .. Len(file) /\ file'[i].entry = file[i].entry
    BY <1>2, <1>3
  <2>3. file[i].entry.parent
          \in {SyncedId} \cup {file[j].entry.id : j \in synced + 1 .. i - 1}
    BY <2>2 DEF TailInv
  <2>4. {file'[j].entry.id : j \in synced + 1 .. i - 1}
          = {file[j].entry.id : j \in synced + 1 .. i - 1}
    BY <2>1
  <2> QED BY <2>2, <2>3, <2>4
<1> QED BY <1>2, <1>4, <1>5, <1>6, <1>7 DEF TailInv

LEMMA Loaded ==
  ASSUME ChainInv, ObjectInv, TailInv, Load
  PROVE  ObjectInv' /\ LeafInv' /\ TailInv'
<1>1. UNCHANGED <<file, synced>>
  BY DEF Load
<1>2. TailInv'
  BY <1>1 DEF TailInv, SyncedId
<1>3. CASE ~Loadable(file)
  <2>1. phase' = "refused" /\ UNCHANGED <<entries, leaf>>
    BY <1>3 DEF Load
  <2> QED BY <1>2, <2>1 DEF ObjectInv, LeafInv
<1>4. CASE Loadable(file)
  <2> DEFINE es == EntriesOf(file)
  <2>1. /\ phase' = "open" /\ entries' = es
        /\ leaf' = IF file = <<>> THEN 0 ELSE file[Len(file)].entry.id
    BY <1>4 DEF Load
  <2>2. /\ IsTree(es) /\ Len(es) = Len(file) /\ Len(file) \in Nat
        /\ \A i \in 1 .. Len(file) : es[i] = file[i].entry
    BY FileIsTree
  <2>3. \A i \in 1 .. Len(es) : es[i].parent = 0 => i = 1
    BY <1>4, <2>2, AllIds DEF Loadable, ValidTree
  <2> HIDE DEF es
  <2>4. (es = <<>> <=> Len(file) = 0) /\ (file = <<>> <=> Len(file) = 0)
    BY <2>2 DEF IsTree, ChainInv, TypeOK
  <2>5. leaf' = IF es = <<>> THEN 0 ELSE es[Len(es)].id
    BY <2>1, <2>2, <2>4
  <2>6. EntriesOf(file') = es
    BY <1>1 DEF es
  <2>7. Within(es, es)
    BY DEF Within
  <2>8. ObjectInv'
    BY <2>1, <2>2, <2>3, <2>5, <2>6, <2>7 DEF ObjectInv
  <2>9. LeafAt(Len(file))'
    <3>1. synced' \in 0 .. Len(file') /\ Len(file') = Len(file)
      BY <1>1 DEF ChainInv, TypeOK
    <3>2. Len(file') \in synced' .. Len(file')
      BY <2>2, <3>1
    <3>3. Len(file') = 0 <=> entries' = <<>>
      BY <2>1, <2>4, <3>1
    <3>4. Len(file') # 0 => file'[Len(file')].entry.id = leaf'
      BY <1>1, <2>1, <2>4
    <3>5. Len(file') + 1 .. Len(file') = {}
      BY <2>2, <3>1
    <3> QED BY <3>2, <3>3, <3>4, <3>5 DEF LeafAt
  <2>10. Len(file') \in 0 .. Len(file')
    BY <1>1, <2>2
  <2> QED BY <1>2, <2>8, <2>9, <2>10 DEF LeafInv
<1> QED BY <1>3, <1>4

LEMMA SameObject ==
  ASSUME ObjectInv, LeafInv, TailInv, UNCHANGED <<file, synced, entries, leaf>>,
         phase' \in {"open", "down"} => phase \in {"open", "down"}
  PROVE  ObjectInv' /\ LeafInv' /\ TailInv'
<1>1. \A m : LeafAt(m)' <=> LeafAt(m)
  BY DEF LeafAt
<1>2. LeafInv'
  BY <1>1 DEF LeafInv
<1> QED BY <1>2 DEF ObjectInv, TailInv, SyncedId

LEMMA ObjectStep ==
  ASSUME ChainInv, ChainInv', ObjectInv, LeafInv, TailInv, [Next]_vars
  PROVE  ObjectInv' /\ LeafInv' /\ TailInv'
<1>1. CASE AppendEntry
  BY <1>1, Appended
<1>2. CASE AppendFails
  BY <1>2, PartlyWritten DEF AppendFails, Appending
<1>3. CASE DieInAppend
  BY <1>3, PartlyWritten DEF DieInAppend, Stopping
<1>4. CASE PowerFailure
  BY <1>4, PowerFailed
<1>5. CASE Load
  BY <1>5, Loaded
<1>6. CASE Exit
  BY <1>6, SameObject DEF Exit, Stopping
<1>7. CASE UNCHANGED vars
  BY <1>7, SameObject DEF vars
<1> QED BY <1>1, <1>2, <1>3, <1>4, <1>5, <1>6, <1>7 DEF Next

FileInv == ChainInv /\ ObjectInv /\ LeafInv /\ TailInv /\ KeptOnBranch

LEMMA FileAlways == Spec => []FileInv
<1>1. Init => FileInv
  BY ChainInit, ObjectInit DEF FileInv
<1>2. FileInv /\ [Next]_vars => FileInv'
  BY ChainStep, KeptStep, ObjectStep DEF FileInv
<1> QED BY <1>1, <1>2, PTL DEF Spec

(* A checkpoint keeps from a message of the branch it was appended to,     *)
(* also when failed appends have left other branches in the file, and for  *)
(* any number of them (append_compaction, _is_ancestor).                   *)
THEOREM CheckpointsKeepTheirBranch == Spec => []KeptOnBranch
<1>1. FileInv => KeptOnBranch
  BY DEF FileInv
<1> QED BY <1>1, FileAlways, PTL

-------------------------------------------------------------------------------
(* JsonlSession implements DurableLog, step by step.                       *)
Log == Path(entries, leaf)
Acked == IF synced = 0 THEN <<>> ELSE Path(EntriesOf(file), file[synced].entry.id)
Doubts == {file[i].entry.id : i \in synced + 1 .. Len(file)}
Spoiled == \E i \in DOMAIN file :
             file[i].end # "whole" \/ file[i].entry \notin ToSet(entries)

LEMMA MemberOf ==
  ASSUME NEW es, IsTree(es), NEW e
  PROVE  e \in ToSet(es) <=> \E i \in 1 .. Len(es) : es[i] = e
  BY AllIds DEF ToSet

(* Two trees with a common beginning. *)
LEMMA CommonBeginning ==
  ASSUME NEW es, NEW gs, IsTree(es), IsTree(gs), NEW n \in 1 .. Len(es), n <= Len(gs),
         \A i \in 1 .. n : es[i] = gs[i]
  PROVE  Path(es, es[n].id) = Path(gs, es[n].id)
<1> DEFINE ps == SubSeq(es, 1, n)
<1>1. es \in Seq(Entry) /\ gs \in Seq(Entry)
  BY DEF IsTree
<1>2. ps \in Seq(Entry) /\ Len(ps) = n /\ \A i \in 1 .. n : ps[i] = es[i]
  BY <1>1
<1> HIDE DEF ps
<1>3. \A i \in 0 .. n : IdsUpTo(ps, i) = IdsUpTo(es, i)
  <2> TAKE i \in 0 .. n
  <2>1. \A j \in 1 .. i : ps[j] = es[j]
    BY <1>2
  <2> QED BY <2>1 DEF IdsUpTo
<1>4. IsTree(ps)
  <2>1. \A i \in 1 .. n : i - 1 \in 0 .. n /\ i \in 1 .. Len(es)
    BY <1>1
  <2> QED BY <1>2, <1>3, <2>1 DEF IsTree
<1>5. \A i \in 1 .. n : i \in 1 .. Len(es) /\ i \in 1 .. Len(gs)
  BY <1>1
<1>6. Within(ps, es) /\ Within(ps, gs)
  BY <1>2, <1>5 DEF Within
<1>7. es[n].id \in Ids(ps)
  BY <1>2, <1>4, AllIds DEF Ids
<1>8. \A x \in {0} \cup Ids(ps) : Path(ps, x) = Path(es, x)
  BY <1>4, <1>6, SamePath, Zenon
<1>9. \A x \in {0} \cup Ids(ps) : Path(ps, x) = Path(gs, x)
  BY <1>4, <1>6, SamePath, Zenon
<1> QED BY <1>7, <1>8, <1>9

LEMMA AckedStays ==
  ASSUME ChainInv, ChainInv', UNCHANGED synced, synced <= Len(file'),
         \A i \in 1 .. synced : file'[i].entry = file[i].entry
  PROVE  Acked' = Acked
<1>1. CASE synced = 0
  BY <1>1 DEF Acked
<1>2. CASE synced # 0
  <2>1. synced \in 1 .. Len(file) /\ synced \in 1 .. Len(file')
    BY <1>2 DEF ChainInv, TypeOK
  <2>2. \A i \in 1 .. synced : i \in 1 .. Len(file) /\ i \in 1 .. Len(file')
    BY <2>1, FileIsTree
  <2>3. \A i \in 1 .. synced : EntriesOf(file)[i] = EntriesOf(file')[i]
    BY <2>2, FileIsTree, NextFileIsTree
  <2>4. /\ IsTree(EntriesOf(file)) /\ IsTree(EntriesOf(file'))
        /\ synced \in 1 .. Len(EntriesOf(file)) /\ synced <= Len(EntriesOf(file'))
        /\ EntriesOf(file)[synced].id = file[synced].entry.id
    BY <2>1, FileIsTree, NextFileIsTree
  <2>5. Path(EntriesOf(file), file[synced].entry.id) = Path(EntriesOf(file'), file[synced].entry.id)
    BY <2>3, <2>4, CommonBeginning
  <2>6. file'[synced].entry = file[synced].entry
    BY <2>1
  <2> QED BY <1>2, <2>5, <2>6 DEF Acked
<1> QED BY <1>1, <1>2

(* A write that did not return leaves the file as it was, or in doubt. *)
LEMMA DoubtStep ==
  ASSUME FileInv, FileInv', phase = "open", used < MaxEntries, used' = used + 1,
         WritePartly, UNCHANGED <<synced, entries, leaf>>
  PROVE  /\ Log' = Log /\ Acked' = Acked
         /\ \/ Doubts' = Doubts /\ Spoiled' = Spoiled
            \/ Spoiled' /\ \E id \in Id : Doubts' = Doubts \cup {id}
<1>1. Log' = Log
  BY DEF Log
<1>2. synced \in 0 .. Len(file) /\ Len(file) \in Nat
  BY DEF FileInv, ChainInv, TypeOK
<1>3. CASE UNCHANGED file
  BY <1>1, <1>3 DEF Acked, Doubts, Spoiled
<1>4. CASE \E e \in Candidates, t \in Texts, end \in Ends :
             file' = Append(file, [entry |-> e, end |-> end, text |-> t])
  <2>1. PICK e \in Candidates, t \in Texts, end \in Ends :
          file' = Append(file, [entry |-> e, end |-> end, text |-> t])
    BY <1>4
  <2>2. end \in {"whole"} \cup Ends
    OBVIOUS
  <2>3. /\ Len(file') = Len(file) + 1
        /\ \A i \in 1 .. Len(file) : file'[i] = file[i]
        /\ file'[Len(file) + 1].entry = e
    BY <2>1, <2>2, OneMoreLine DEF FileInv
  <2>4. e.id \in Id /\ e.id \notin Ids(entries)
    BY FreshId DEF FileInv
  <2>5. Acked' = Acked
    <3>1. synced <= Len(file') /\ \A i \in 1 .. synced : file'[i].entry = file[i].entry
      BY <1>2, <2>3
    <3> QED BY <3>1, AckedStays DEF FileInv
  <2>6. Spoiled'
    <3>1. e \notin ToSet(entries)
      BY <2>4, MemberOf, AllIds DEF FileInv, ObjectInv, Ids
    <3>2. Len(file) + 1 \in DOMAIN file'
      BY <1>2, <2>3 DEF FileInv, ChainInv, TypeOK
    <3> QED BY <2>3, <3>1, <3>2 DEF Spoiled
  <2>7. Doubts' = Doubts \cup {e.id}
    <3>1. synced + 1 .. Len(file') = (synced + 1 .. Len(file)) \cup {Len(file) + 1}
      BY <1>2, <2>3
    <3>2. \A i \in synced + 1 .. Len(file) : file'[i] = file[i]
      BY <1>2, <2>3
    <3> QED BY <2>3, <3>1, <3>2 DEF Doubts
  <2> QED BY <1>1, <2>4, <2>5, <2>6, <2>7
<1> QED BY <1>3, <1>4 DEF WritePartly

(* An append that returned is the new end of the log. *)
LEMMA AcknowledgeStep ==
  ASSUME FileInv, FileInv', AppendEntry
  PROVE  /\ \E id \in Id : Log' = Append(Log, id)
         /\ Acked' = Log' /\ Doubts' = {} /\ Spoiled' = Spoiled
<1>1. PICK e \in Candidates, t \in Texts :
        /\ file' = Append(file, [entry |-> e, end |-> "whole", text |-> t])
        /\ entries' = Append(entries, e)
        /\ leaf' = e.id
  BY DEF AppendEntry
<1>2. phase = "open" /\ phase' = "open" /\ used < MaxEntries /\ used' = used + 1 /\ synced' = Len(file')
  BY DEF AppendEntry, Appending
<1>3. /\ e \in Entry /\ e.id \in Id /\ e.parent = leaf
      /\ e.id \notin Ids(entries) /\ e.id \notin FileIds(Len(file))
      /\ leaf \in {0} \cup Ids(entries)
  BY <1>2, FreshId DEF FileInv
<1>4. /\ Len(file') = Len(file) + 1 /\ Len(file) \in Nat
      /\ \A i \in 1 .. Len(file) : file'[i] = file[i]
      /\ file'[Len(file) + 1] = [entry |-> e, end |-> "whole", text |-> t]
  BY <1>1, <1>2, OneMoreLine DEF FileInv, ChainInv, TypeOK
<1>5. /\ IsTree(entries) /\ IsTree(entries') /\ Within(entries, entries')
      /\ Len(entries') = Len(entries) + 1 /\ Len(entries) \in Nat
      /\ \A i \in 1 .. Len(entries) : entries'[i] = entries[i]
      /\ entries'[Len(entries) + 1] = e
  <2>1. IsTree(entries) /\ Len(entries) \in Nat
    BY AllIds DEF FileInv, ObjectInv
  <2> QED BY <1>1, <1>3, <2>1, TreeGrows
<1>6. Log' = Append(Log, e.id)
  <2>1. Path(entries', e.id) = Append(Path(entries', leaf), e.id)
    <3>1. Len(entries) + 1 \in 1 .. Len(entries')
      BY <1>5
    <3> QED BY <1>3, <1>5, <3>1, PathGrows
  <2>2. Path(entries', leaf) = Path(entries, leaf)
    BY <1>3, <1>5, SamePath
  <2> QED BY <1>1, <2>1, <2>2 DEF Log
<1>7. Acked' = Log'
  <2>1. /\ Within(entries', EntriesOf(file')) /\ IsTree(EntriesOf(file'))
    BY <1>2, NextFileIsTree DEF FileInv, ObjectInv
  <2>2. e.id \in Ids(entries')
    <3>1. Len(entries) + 1 \in DOMAIN entries'
      BY <1>5, AllIds
    <3> QED BY <1>5, <3>1 DEF Ids
  <2>3. Path(entries', e.id) = Path(EntriesOf(file'), e.id)
    <3>1. IsTree(entries') /\ e.id \in {0} \cup Ids(entries')
      BY <1>5, <2>2
    <3> QED BY <2>1, <3>1, SamePath, Zenon
  <2>4. synced' # 0 /\ file'[synced'].entry.id = e.id
    BY <1>2, <1>4
  <2> QED BY <1>1, <2>3, <2>4 DEF Acked, Log
<1>8. Doubts' = {}
  <2>1. synced' + 1 .. Len(file') = {}
    BY <1>2, <1>4
  <2> QED BY <2>1 DEF Doubts
<1>9. Spoiled' = Spoiled
  <2>1. \A i \in 1 .. Len(file) : file[i].entry \in ToSet(entries) <=> file[i].entry \in ToSet(entries')
    <3> TAKE i \in 1 .. Len(file)
    <3>1. file[i].entry # e
      BY <1>3 DEF FileIds
    <3>2. \A j \in 1 .. Len(entries') : j \in 1 .. Len(entries) \/ j = Len(entries) + 1
      BY <1>5
    <3>3. \A j \in 1 .. Len(entries) : j \in 1 .. Len(entries')
      BY <1>5
    <3> QED BY <1>5, <3>1, <3>2, <3>3, MemberOf
  <2>2. file'[Len(file) + 1].end = "whole" /\ file'[Len(file) + 1].entry \in ToSet(entries')
    <3>1. Len(entries) + 1 \in 1 .. Len(entries')
      BY <1>5
    <3> QED BY <1>4, <1>5, <3>1, MemberOf
  <2>3. DOMAIN file = 1 .. Len(file) /\ DOMAIN file' = (1 .. Len(file)) \cup {Len(file) + 1}
    <3>1. DOMAIN file = 1 .. Len(file) /\ DOMAIN file' = 1 .. Len(file')
      BY DEF FileInv, ChainInv, TypeOK
    <3> QED BY <1>4, <3>1
  <2> QED BY <1>4, <2>1, <2>2, <2>3 DEF Spoiled
<1> QED BY <1>3, <1>6, <1>7, <1>8, <1>9

(* A power failure takes nothing that was acknowledged. *)
LEMMA LossStep ==
  ASSUME FileInv, FileInv', PowerFailure
  PROVE  /\ Log' = Log /\ Acked' = Acked /\ Doubts' \subseteq Doubts
         /\ Spoiled' => Spoiled \/ Doubts # {}
<1>1. PICK k \in synced .. Len(file) :
        \/ file' = SubSeq(file, 1, k)
        \/ k > synced /\ \E end \in Ends : file' = CutIn(k, end)
  BY DEF PowerFailure
<1>2. Len(file') = k /\ \A i \in 1 .. k : file'[i].entry = file[i].entry
  BY <1>1, LinesLost DEF FileInv
<1>3. synced \in 0 .. Len(file) /\ Len(file) \in Nat /\ file \in Seq(Line) /\ file' \in Seq(Line)
  BY DEF FileInv, ChainInv, TypeOK
<1>4. UNCHANGED <<synced, entries, leaf>>
  BY DEF PowerFailure
<1>5. Log' = Log
  BY <1>4 DEF Log
<1>6. Acked' = Acked
  <2>1. synced <= Len(file') /\ \A i \in 1 .. synced : file'[i].entry = file[i].entry
    BY <1>2, <1>3
  <2> QED BY <1>4, <2>1, AckedStays DEF FileInv
<1>7. Doubts' \subseteq Doubts
  <2>1. \A i \in synced + 1 .. k : i \in synced + 1 .. Len(file) /\ file'[i].entry = file[i].entry
    BY <1>2, <1>3
  <2> QED BY <1>2, <1>4, <2>1 DEF Doubts
<1>8. ASSUME Spoiled' PROVE Spoiled \/ Doubts # {}
  <2>1. PICK i \in 1 .. k : file'[i].end # "whole" \/ file'[i].entry \notin ToSet(entries)
    BY <1>2, <1>3, <1>4, <1>8 DEF Spoiled
  <2>2. CASE k > synced
    BY <1>3, <2>2 DEF Doubts
  <2>3. CASE ~(k > synced)
    <3>1. file' = SubSeq(file, 1, k)
      BY <1>1, <2>3
    <3>2. file'[i] = file[i] /\ i \in DOMAIN file
      BY <1>3, <3>1
    <3> QED BY <2>1, <3>2 DEF Spoiled
  <2> QED BY <2>2, <2>3
<1> QED BY <1>5, <1>6, <1>7, <1>8

(* Only what an append that did not return left behind makes load refuse a *)
(* file, when no text breaks a line in two.                                *)
LEMMA RefuseStep ==
  ASSUME FileInv, Texts \subseteq {"plain"}, ~Spoiled
  PROVE  Loadable(file)
<1> DEFINE es == EntriesOf(file)
<1>1. file \in Seq(Line) /\ DOMAIN file = 1 .. Len(file) /\ Len(file) \in Nat
  BY DEF FileInv, ChainInv, TypeOK
<1>2. \A i \in DOMAIN file : file[i].end = "whole" /\ file[i].entry \in ToSet(entries)
  BY DEF Spoiled
<1>3. Parses(file)
  <2>1. \A i \in DOMAIN file : file[i] \in Line
    BY <1>1
  <2> QED BY <1>2, <2>1 DEF Parses, Line
<1>4. /\ IsTree(es) /\ Len(es) = Len(file) /\ DOMAIN es = 1 .. Len(file)
      /\ \A i \in 1 .. Len(file) : es[i] = file[i].entry
  BY FileIsTree, AllIds DEF FileInv
<1>5. IsTree(entries) /\ \A a \in 1 .. Len(entries) : entries[a].parent = 0 => a = 1
  BY DEF FileInv, ObjectInv
<1>6. \A i \in 1 .. Len(file) : \E a \in 1 .. Len(entries) : entries[a] = es[i]
  BY <1>1, <1>2, <1>4, <1>5, MemberOf
<1> SUFFICES ASSUME NEW i \in 1 .. Len(file)
             PROVE  /\ es[i].id \notin Ids(SubSeq(es, 1, i - 1))
                    /\ es[i].parent = 0 <=> i = 1
                    /\ i > 1 => es[i].parent \in Ids(SubSeq(es, 1, i - 1))
                    /\ es[i].kind = "compaction"
                         => MayKeep(SubSeq(es, 1, i - 1), es[i].parent, es[i].kept)
  BY <1>3, <1>4 DEF Loadable, ValidTree
<1> HIDE DEF es
<1>7. i - 1 \in Nat /\ i - 1 <= Len(file) /\ es \in Seq(Entry)
  BY <1>1, <1>4 DEF IsTree
<1>8. Ids(SubSeq(es, 1, i - 1)) = IdsUpTo(es, i - 1)
  <2> DEFINE ps == SubSeq(es, 1, i - 1)
  <2>1. DOMAIN ps = 1 .. i - 1 /\ \A j \in 1 .. i - 1 : ps[j] = es[j]
    BY <1>4, <1>7
  <2> HIDE DEF ps
  <2>2. Ids(ps) = IdsUpTo(es, i - 1)
    BY <2>1 DEF Ids, IdsUpTo
  <2> QED BY <2>2 DEF ps
<1>9. es[i].id \notin IdsUpTo(es, i - 1) /\ es[i].parent \in {0} \cup IdsUpTo(es, i - 1)
  BY <1>4 DEF IsTree
<1>10. i = 1 => es[i].parent = 0
  BY <1>9 DEF IdsUpTo
<1>11. ASSUME es[i].parent = 0 PROVE i = 1
  <2>1. PICK a \in 1 .. Len(entries) : entries[a] = es[i]
    BY <1>6
  <2>2. 1 \in 1 .. Len(file)
    BY <1>1
  <2>3. PICK b \in 1 .. Len(entries) : entries[b] = es[1]
    BY <1>6, <2>2
  <2>4. es[1].parent = 0
    <3>1. es[1].parent \in {0} \cup IdsUpTo(es, 1 - 1)
      BY <1>4, <2>2 DEF IsTree
    <3> QED BY <3>1 DEF IdsUpTo
  <2>5. a = 1 /\ b = 1
    BY <1>5, <1>11, <2>1, <2>3, <2>4
  <2>6. es[i].id = es[1].id
    BY <2>1, <2>3, <2>5
  <2> QED BY <1>4, <2>2, <2>6, OneEntry
<1>12. es[i].kind = "compaction" => MayKeep(SubSeq(es, 1, i - 1), es[i].parent, es[i].kept)
  <2>1. EntriesOf(SubSeq(file, 1, i - 1)) = SubSeq(es, 1, i - 1)
    <3>1. /\ DOMAIN SubSeq(file, 1, i - 1) = 1 .. i - 1
          /\ \A j \in 1 .. i - 1 : SubSeq(file, 1, i - 1)[j] = file[j]
      BY <1>1, <1>7
    <3>2. /\ SubSeq(es, 1, i - 1) = [j \in 1 .. i - 1 |-> es[j]]
      BY <1>4, <1>7
    <3>3. \A j \in 1 .. i - 1 : es[j] = file[j].entry
      BY <1>1, <1>4
    <3> QED BY <3>1, <3>2, <3>3 DEF EntriesOf
  <2>2. es[i] = file[i].entry /\ i \in DOMAIN file
    BY <1>1, <1>4
  <2> QED BY <2>1, <2>2 DEF FileInv, KeptOnBranch
<1> QED BY <1>8, <1>9, <1>10, <1>11, <1>12

(* What a process finds after the one before it ended: the log, with at    *)
(* most one of the appends in doubt at its end.                            *)
LEMMA ReopenStep ==
  ASSUME FileInv, FileInv', Load, Loadable(file), phase = "down"
  PROVE  Log' \in {Log} \cup {Append(Log, id) : id \in Doubts \ ToSet(Log)}
<1> DEFINE es == EntriesOf(file)
<1>1. /\ entries' = es
      /\ leaf' = IF file = <<>> THEN 0 ELSE file[Len(file)].entry.id
  BY DEF Load
<1>2. /\ IsTree(es) /\ Len(es) = Len(file) /\ Len(file) \in Nat
      /\ \A i \in 1 .. Len(file) : es[i] = file[i].entry
      /\ file = <<>> <=> Len(file) = 0
  BY FileIsTree DEF FileInv, ChainInv, TypeOK
<1>3. IsTree(entries) /\ Within(entries, es)
  BY DEF FileInv, ObjectInv
<1> HIDE DEF es
<1>4. leaf \in {0} \cup Ids(entries)
  <2>1. entries # <<>> => Len(entries) \in 1 .. Len(entries)
    BY <1>3 DEF IsTree
  <2> QED BY <2>1, AllIds, <1>3 DEF FileInv, ObjectInv, Ids
<1>5. Path(es, leaf) = Log
  BY <1>2, <1>3, <1>4, SamePath DEF Log
<1>6. PICK m \in 0 .. Len(file) : LeafAt(m)
  BY DEF FileInv, LeafInv
<1>7. CASE m = Len(file)
  <2>1. leaf' = leaf
    <3>1. CASE m = 0
      BY <1>1, <1>2, <1>6, <1>7, <3>1 DEF LeafAt, FileInv, ObjectInv
    <3>2. CASE m # 0
      BY <1>1, <1>2, <1>6, <1>7, <3>2 DEF LeafAt
    <3> QED BY <3>1, <3>2
  <2> QED BY <1>1, <1>5, <2>1 DEF Log
<1>8. CASE m # Len(file)
  <2> DEFINE n == Len(file)
             last == es[n]
  <2>1. /\ n \in m + 1 .. n /\ n \in 1 .. Len(file) /\ n \in synced + 1 .. n
    <3>1. synced \in Nat /\ m \in synced .. n
      BY <1>6 DEF LeafAt, FileInv, ChainInv, TypeOK
    <3> QED BY <1>2, <1>8, <3>1
  <2>2. /\ last = file[n].entry /\ leaf' = last.id /\ last.parent = leaf
        /\ \A j \in 1 .. Len(entries) : entries[j] # last
    BY <1>1, <1>2, <1>6, <2>1 DEF LeafAt
  <2>3. Path(es, last.id) = Append(Path(es, leaf), last.id)
    BY <1>2, <2>1, <2>2, PathGrows
  <2>4. Log' = Append(Log, last.id)
    BY <1>1, <1>5, <2>2, <2>3 DEF Log
  <2>5. last.id \in Doubts
    BY <2>1, <2>2 DEF Doubts
  <2>6. last.id \notin ToSet(Log)
    <3>1. last.id \notin Ids(entries)
      <4> SUFFICES ASSUME NEW j \in 1 .. Len(entries), entries[j].id = last.id PROVE FALSE
        BY <1>3, AllIds DEF Ids
      <4>1. PICK k \in 1 .. Len(es) : es[k] = entries[j]
        BY <1>3 DEF Within
      <4>2. n \in 1 .. Len(es) /\ es[k].id = es[n].id
        BY <1>2, <2>1, <4>1
      <4>3. k = n
        BY <1>2, <4>2, OneEntry
      <4> QED BY <2>2, <4>1, <4>3
    <3>2. ToSet(Log) \subseteq Ids(entries)
      <4>1. CASE leaf = 0
        <5>1. Log = <<>>
          BY <1>3, <4>1, PathGrows DEF Log
        <5> QED BY <5>1 DEF ToSet
      <4>2. CASE leaf # 0
        <5>1. PICK i \in 1 .. Len(entries) : leaf = entries[i].id
          BY <1>3, <1>4, <4>2, AllIds DEF Ids
        <5>2. Log \in Seq(IdsUpTo(entries, i))
          BY <1>3, <5>1, PathIsSeq DEF Log
        <5>3. IdsUpTo(entries, i) \subseteq Ids(entries)
          BY <1>3, <5>1, AllIds DEF IdsUpTo, Ids
        <5> QED BY <5>2, <5>3 DEF ToSet
      <4> QED BY <4>1, <4>2
    <3> QED BY <3>1, <3>2
  <2> QED BY <2>4, <2>5, <2>6
<1> QED BY <1>7, <1>8

(* There are as many ids in doubt as lines after the last acknowledged one. *)
LEMMA DoubtsCounted ==
  ASSUME FileInv
  PROVE  Cardinality(Doubts) = Len(file) - synced
<1> DEFINE n == Len(file) - synced
           f == [i \in 1 .. n |-> file[synced + i].entry.id]
<1>1. synced \in Nat /\ synced <= Len(file) /\ Len(file) \in Nat /\ n \in Nat
  BY DEF FileInv, ChainInv, TypeOK
<1>2. \A i \in 1 .. n : synced + i \in synced + 1 .. Len(file) /\ synced + i \in 1 .. Len(file)
  BY <1>1
<1>3. \A i \in synced + 1 .. Len(file) : i - synced \in 1 .. n /\ synced + (i - synced) = i
  BY <1>1
<1>4. f \in [1 .. n -> Doubts]
  BY <1>2 DEF Doubts
<1>5. ASSUME NEW i \in 1 .. n, NEW j \in 1 .. n, f[i] = f[j]
      PROVE  i = j
  <2> DEFINE a == synced + i
             b == synced + j
  <2>1. a \in 1 .. Len(file) /\ b \in 1 .. Len(file) /\ file[a].entry.id = file[b].entry.id
    BY <1>2, <1>5
  <2>2. a = b
    <3> HIDE DEF a, b
    <3> QED BY <2>1, FileIsTree, OneEntry DEF FileInv
  <2> QED BY <1>1, <2>2
<1>6. ASSUME NEW d \in Doubts PROVE \E i \in 1 .. n : f[i] = d
  <2>1. PICK k \in synced + 1 .. Len(file) : d = file[k].entry.id
    BY DEF Doubts
  <2> QED BY <1>3, <2>1
<1> HIDE DEF f
<1>7. f \in Bijection(1 .. n, Doubts)
  BY <1>4, <1>5, <1>6 DEF Bijection, Injection, Surjection, IsInjective
<1>8. ExistsBijection(1 .. n, Doubts)
  BY <1>7 DEF ExistsBijection
<1> HIDE DEF n
<1>9. Cardinality(Doubts) = n
  BY <1>1, <1>8, FS_CountingElements
<1> QED BY <1>9 DEF n

LEMMA AppendAfter ==
  \A s, t \in Seq(Id), e \in Id : Append(s \o t, e) = s \o Append(t, e)
  OBVIOUS

(* What a process finds after a power failure: everything acknowledged, in *)
(* its place, and after it some of the appends in doubt.                   *)
LEMMA LostReopenStep ==
  ASSUME FileInv, Load, Loadable(file)
  PROVE  \E n \in 0 .. Cardinality(Doubts) : \E tail \in [1 .. n -> Doubts] : Log' = Acked \o tail
<1> DEFINE es == EntriesOf(file)
           Reached(k) == \E n \in 0 .. k - synced : \E tail \in [1 .. n -> Doubts] :
                        Path(es, es[k].id) = Acked \o tail
           Bad == {k \in synced + 1 .. Len(file) : ~Reached(k)}
<1>1. /\ entries' = es
      /\ leaf' = IF file = <<>> THEN 0 ELSE file[Len(file)].entry.id
  BY DEF Load
<1>2. /\ IsTree(es) /\ Len(es) = Len(file) /\ Len(file) \in Nat /\ synced \in 0 .. Len(file)
      /\ \A i \in 1 .. Len(file) : es[i] = file[i].entry
      /\ file = <<>> <=> Len(file) = 0
  BY FileIsTree DEF FileInv, ChainInv, TypeOK
<1> HIDE DEF es
<1>3. \A i \in 1 .. Len(file) : es[i].id \in Id
  BY <1>2, EntryFields
<1>4. Doubts \subseteq Id
  <2>1. \A i \in synced + 1 .. Len(file) : i \in 1 .. Len(file)
    BY <1>2
  <2> QED BY <1>2, <1>3, <2>1 DEF Doubts
<1>5. \A i \in synced + 1 .. Len(file) : es[i].id \in Doubts
  BY <1>2 DEF Doubts
<1>6. Path(es, SyncedId) = Acked /\ Acked \in Seq(Id)
  <2>1. CASE synced = 0
    <3>1. SyncedId = 0 /\ Acked = <<>>
      BY <2>1 DEF SyncedId, Acked
    <3> QED BY <1>2, <3>1, PathGrows
  <2>2. CASE synced # 0
    <3>1. synced \in 1 .. Len(file)
      BY <1>2, <2>2
    <3>2. SyncedId = es[synced].id /\ Acked = Path(es, SyncedId)
      BY <1>2, <2>2, <3>1 DEF SyncedId, Acked, es
    <3>3. Acked \in Seq(IdsUpTo(es, synced))
      BY <1>2, <3>1, <3>2, PathIsSeq
    <3>4. IdsUpTo(es, synced) \subseteq Id
      BY <1>2, <1>3 DEF IdsUpTo
    <3> QED BY <3>2, <3>3, <3>4
  <2> QED BY <2>1, <2>2
<1>7. ASSUME NEW k \in synced + 1 .. Len(file), \A j \in synced + 1 .. k - 1 : Reached(j)
      PROVE  Reached(k)
  <2>1. k \in 1 .. Len(es) /\ k \in Nat /\ es[k].id \in Doubts /\ es[k].id \in Id
    BY <1>2, <1>3, <1>5
  <2>2. Path(es, es[k].id) = Append(Path(es, es[k].parent), es[k].id)
    BY <1>2, <2>1, PathGrows
  <2>3. es[k].parent \in {SyncedId} \cup {es[j].id : j \in synced + 1 .. k - 1}
    <3>1. \A j \in synced + 1 .. k - 1 : es[j].id = file[j].entry.id
      BY <1>2
    <3>2. es[k].parent \in {SyncedId} \cup {file[j].entry.id : j \in synced + 1 .. k - 1}
      BY <1>2, <2>1 DEF FileInv, TailInv
    <3> QED BY <3>1, <3>2
  <2>4. \E n \in 0 .. k - 1 - synced : \E tail \in [1 .. n -> Doubts] :
          Path(es, es[k].parent) = Acked \o tail
    <3>1. CASE es[k].parent = SyncedId
      <4>1. Acked = Acked \o <<>>
        BY <1>6
      <4>2. <<>> \in [1 .. 0 -> Doubts] /\ 0 \in 0 .. k - 1 - synced
        BY <1>2
      <4> QED BY <1>6, <3>1, <4>1, <4>2
    <3>2. CASE \E j \in synced + 1 .. k - 1 : es[k].parent = es[j].id
      <4>1. PICK j \in synced + 1 .. k - 1 : es[k].parent = es[j].id
        BY <3>2
      <4>2. PICK n \in 0 .. j - synced : \E tail \in [1 .. n -> Doubts] :
              Path(es, es[j].id) = Acked \o tail
        BY <1>7
      <4>3. n \in 0 .. k - 1 - synced
        BY <1>2
      <4> QED BY <4>1, <4>2, <4>3
    <3> QED BY <2>3, <3>1, <3>2
  <2>0. PICK n \in 0 .. k - 1 - synced : \E tail \in [1 .. n -> Doubts] :
          Path(es, es[k].parent) = Acked \o tail
    BY <2>4
  <2>5. PICK tail \in [1 .. n -> Doubts] : Path(es, es[k].parent) = Acked \o tail
    BY <2>0
  <2>6. n \in Nat /\ tail \in Seq(Doubts) /\ Len(tail) = n
    BY <1>2
  <2>7. tail \in Seq(Id)
    <3>1. tail \in [1 .. n -> Id]
      BY <1>4
    <3> QED BY <2>6, <3>1
  <2>8. Append(Acked \o tail, es[k].id) = Acked \o Append(tail, es[k].id)
    <3>1. Acked \in Seq(Id) /\ tail \in Seq(Id) /\ es[k].id \in Id
      BY <1>6, <2>1, <2>7
    <3> QED BY <3>1, AppendAfter
  <2>9. Append(tail, es[k].id) \in [1 .. n + 1 -> Doubts]
    <3>1. Append(tail, es[k].id) \in Seq(Doubts) /\ Len(Append(tail, es[k].id)) = n + 1
      BY <2>1, <2>6, AppendProperties
    <3> QED BY <3>1, LenProperties
  <2>10. n + 1 \in 0 .. k - synced
    BY <1>2, <2>6
  <2> QED BY <2>2, <2>5, <2>8, <2>9, <2>10
<1>8. Bad = {}
  <2> SUFFICES ASSUME Bad # {} PROVE FALSE
    OBVIOUS
  <2> HIDE DEF Reached
  <2>1. Bad \subseteq Nat /\ Bad \subseteq synced + 1 .. Len(file)
    BY <1>2
  <2>2. PICK k \in Bad : \A j \in Bad : k <= j
    BY <2>1, LeastOf
  <2>3. \A j \in synced + 1 .. k - 1 : j \in synced + 1 .. Len(file) /\ ~(k <= j)
    BY <1>2, <2>1, <2>2
  <2>4. \A j \in synced + 1 .. k - 1 : Reached(j)
    BY <2>2, <2>3
  <2> QED BY <1>7, <2>2, <2>4
<1>9. Cardinality(Doubts) = Len(file) - synced
  BY DoubtsCounted
<1>10. CASE synced = Len(file)
  <2>1. leaf' = SyncedId
    BY <1>1, <1>2, <1>10 DEF SyncedId
  <2>2. Log' = Acked
    BY <1>1, <1>6, <2>1 DEF Log
  <2>3. Acked = Acked \o <<>> /\ <<>> \in [1 .. 0 -> Doubts] /\ 0 \in 0 .. Cardinality(Doubts)
    BY <1>2, <1>6, <1>9, <1>10
  <2> QED BY <2>2, <2>3
<1>11. CASE synced # Len(file)
  <2>1. Len(file) \in synced + 1 .. Len(file) /\ Len(file) \in 1 .. Len(file)
    BY <1>2, <1>11
  <2>2. leaf' = es[Len(file)].id
    BY <1>1, <1>2, <2>1
  <2>3. Reached(Len(file))
    <3> HIDE DEF Reached
    <3> QED BY <1>8, <2>1
  <2> QED BY <1>1, <1>9, <2>2, <2>3 DEF Log
<1> QED BY <1>10, <1>11

(* Nothing is left of a failed append in what load accepts, but perhaps a  *)
(* last line without its end.                                              *)
LEMMA SpoiledByLoad ==
  ASSUME FileInv, Load, Loadable(file)
  PROVE  Spoiled' \in {Spoiled, FALSE}
<1>1. file' = file /\ entries' = EntriesOf(file) /\ file \in Seq(Line)
  BY DEF Load, FileInv, ChainInv, TypeOK
<1>2. \A i \in 1 .. Len(file) : file[i].entry \in ToSet(EntriesOf(file))
  BY FileIsTree, MemberOf DEF FileInv
<1>3. ASSUME Spoiled' PROVE Spoiled
  <2>1. PICK i \in 1 .. Len(file) : file[i].end # "whole" \/ file[i].entry \notin ToSet(EntriesOf(file))
    BY <1>1, <1>3 DEF Spoiled
  <2> QED BY <1>1, <1>2, <2>1 DEF Spoiled
<1>4. Spoiled \in BOOLEAN /\ Spoiled' \in BOOLEAN
  BY DEF Spoiled
<1> QED BY <1>3, <1>4

LEMMA PromiseInit == Init => Promise!Init
<1> SUFFICES ASSUME Init PROVE Promise!Init
  OBVIOUS
<1>1. file = <<>> /\ entries = <<>> /\ leaf = 0 /\ synced = 0 /\ phase = "open"
  BY DEF Init
<1>2. Path(entries, leaf) = <<>>
  BY <1>1, ObjectInit, PathGrows DEF ObjectInv
<1> QED BY <1>1, <1>2 DEF Promise!Init

(* Every step of the session file is one of the promise, or none. *)
LEMMA PromiseStep ==
  ASSUME Texts \subseteq {"plain"}, FileInv, FileInv', [Next]_vars
  PROVE  [Promise!Next]_Promise!promise
<1> USE DEF Log, Acked, Doubts, Spoiled
<1>1. CASE AppendEntry
  <2>1. phase = "open" /\ phase' = "open"
    BY <1>1 DEF AppendEntry, Appending
  <2>2. Promise!Acknowledge
    BY <1>1, <2>1, AcknowledgeStep DEF Promise!Acknowledge
  <2> QED BY <2>2 DEF Promise!Next
<1>2. CASE AppendFails
  <2>1. phase = "open" /\ phase' = "open"
    BY <1>2 DEF AppendFails, Appending
  <2>2. Promise!Fail \/ UNCHANGED Promise!promise
    BY <1>2, <2>1, DoubtStep DEF AppendFails, Appending, Promise!Fail, Promise!promise
  <2> QED BY <2>2 DEF Promise!Next
<1>3. CASE DieInAppend
  <2>1. phase = "open" /\ phase' = "down"
    BY <1>3 DEF DieInAppend, Stopping
  <2>2. Promise!Fail \/ Promise!Stop
    BY <1>3, <2>1, DoubtStep DEF DieInAppend, Stopping, Promise!Fail, Promise!Stop
  <2> QED BY <2>2 DEF Promise!Next
<1>4. CASE Exit
  <2>1. Promise!Stop
    BY <1>4 DEF Exit, Stopping, Promise!Stop
  <2> QED BY <2>1 DEF Promise!Next
<1>5. CASE PowerFailure
  <2>1. phase = "open" /\ phase' = "lost"
    BY <1>5 DEF PowerFailure, Stopping
  <2>2. Promise!PowerFailure
    BY <1>5, <2>1, LossStep DEF Promise!PowerFailure
  <2> QED BY <2>2 DEF Promise!Next
<1>6. CASE Load
  <2>1. phase \in {"down", "lost"} /\ UNCHANGED <<file, synced>>
    BY <1>6 DEF Load
  <2>2. CASE Loadable(file)
    <3>1. phase' = "open"
      BY <1>6, <2>2 DEF Load
    <3>2. Spoiled' \in {Spoiled, FALSE}
      BY <1>6, <2>2, SpoiledByLoad
    <3>3. Acked' = Acked /\ Doubts' = Doubts
      BY <2>1
    <3>4. CASE phase = "down"
      <4>1. Log' \in {Log} \cup {Append(Log, id) : id \in Doubts \ ToSet(Log)}
        BY <1>6, <2>2, <3>4, ReopenStep
      <4>2. Promise!Reopen
        BY <3>1, <3>2, <3>3, <3>4, <4>1 DEF Promise!Reopen, Promise!ToSet, ToSet
      <4> QED BY <4>2 DEF Promise!Next
    <3>5. CASE phase = "lost"
      <4>1. \E n \in 0 .. Cardinality(Doubts) :
              \E tail \in [1 .. n -> Doubts] : Log' = Acked \o tail
        BY <1>6, <2>2, LostReopenStep
      <4>2. Promise!Cardinality(Doubts) = Cardinality(Doubts)
        BY DEF Promise!Cardinality, Cardinality
      <4>3. Promise!Reopen
        BY <3>1, <3>2, <3>3, <3>5, <4>1, <4>2 DEF Promise!Reopen
      <4> QED BY <4>3 DEF Promise!Next
    <3> QED BY <2>1, <3>4, <3>5
  <2>3. CASE ~Loadable(file)
    <3>1. phase' = "refused" /\ UNCHANGED <<entries, leaf>>
      BY <1>6, <2>3 DEF Load
    <3>2. Spoiled
      BY <2>3, RefuseStep
    <3>3. Promise!Refuse
      BY <2>1, <3>1, <3>2 DEF Promise!Refuse
    <3> QED BY <3>3 DEF Promise!Next
  <2> QED BY <2>2, <2>3
<1>7. CASE UNCHANGED vars
  BY <1>7 DEF vars, Promise!promise
<1> QED BY <1>1, <1>2, <1>3, <1>4, <1>5, <1>6, <1>7 DEF Next

(* Whatever fails, and for any number of appends and deaths: an append     *)
(* that returned is found again in its place, one that did not is found    *)
(* last or not at all, and a file is refused only when one of those left   *)
(* something in it.  Without the hypothesis, that no text holds a          *)
(* character at which str.splitlines breaks a line, the last does not      *)
(* hold: an acknowledged line may be refused.                              *)
THEOREM SessionKeepsPromise == Texts \subseteq {"plain"} => (Spec => PromiseKept)
<1> SUFFICES ASSUME Texts \subseteq {"plain"} PROVE Spec => PromiseKept
  OBVIOUS
<1>1. FileInv /\ FileInv' /\ [Next]_vars => [Promise!Next]_Promise!promise
  BY PromiseStep
<1> QED BY <1>1, FileAlways, PromiseInit, PTL DEF Spec, PromiseKept, Promise!Spec

-------------------------------------------------------------------------------

(* What the promise comes to, for texts with line separators too: these can *)
(* make a load refuse the file, and do no more.                             *)

Extends(t, s) == \E rest \in Seq(Id) : t = s \o rest

AckedInv == Log \in Seq(Id) /\ Acked \in Seq(Id) /\ Extends(Log, Acked)

\* The entries appended with success are the beginning of the active path, of
\* this process and of every later one, and none is ever taken back.
AcknowledgedStay == []Extends(Log, Acked) /\ [][Extends(Acked', Acked)]_vars

LEMMA LogStep ==
  ASSUME FileInv, FileInv', [Next]_vars
  PROVE  \/ Acked' = Log' /\ \E id \in Id : Log' = Append(Log, id)
         \/ Acked' = Acked /\ Log' = Log
         \/ Acked' = Acked /\ \E id \in Id : Log' = Append(Log, id)
         \/ Acked' = Acked /\ \E tail \in Seq(Id) : Log' = Acked \o tail
<1>1. CASE AppendEntry
  BY <1>1, AcknowledgeStep
<1>2. CASE AppendFails
  BY <1>2, DoubtStep DEF AppendFails, Appending
<1>3. CASE DieInAppend
  BY <1>3, DoubtStep DEF DieInAppend, Stopping
<1>4. CASE Exit \/ UNCHANGED vars
  BY <1>4 DEF Exit, vars, Log, Acked
<1>5. CASE PowerFailure
  BY <1>5, LossStep
<1>6. CASE Load
  <2>1. phase \in {"down", "lost"} /\ Acked' = Acked
    BY <1>6 DEF Load, Acked
  <2>2. Doubts \subseteq Id
    <3>1. file \in Seq(Line) /\ synced \in Nat /\ Len(file) \in Nat
      BY DEF FileInv, ChainInv, TypeOK
    <3>2. \A i \in synced + 1 .. Len(file) : i \in 1 .. Len(file) /\ file[i] \in Line
      BY <3>1
    <3> QED BY <3>2 DEF Doubts, Line, Entry
  <2>3. CASE ~Loadable(file)
    BY <1>6, <2>1, <2>3 DEF Load, Log
  <2>4. CASE Loadable(file) /\ phase = "down"
    BY <1>6, <2>1, <2>2, <2>4, ReopenStep
  <2>5. CASE Loadable(file) /\ phase = "lost"
    <3>1. PICK n \in 0 .. Cardinality(Doubts) : \E tail \in [1 .. n -> Doubts] : Log' = Acked \o tail
      BY <1>6, <2>5, LostReopenStep
    <3>2. n \in Nat
      BY DoubtsCounted DEF FileInv, ChainInv, TypeOK
    <3>3. PICK tail \in [1 .. n -> Doubts] : Log' = Acked \o tail
      BY <3>1
    <3>4. tail \in Seq(Id)
      BY <2>2, <3>2
    <3> QED BY <2>1, <3>3, <3>4
  <2> QED BY <2>1, <2>3, <2>4, <2>5
<1> QED BY <1>1, <1>2, <1>3, <1>4, <1>5, <1>6 DEF Next

LEMMA ConcatExtends ==
  ASSUME NEW s \in Seq(Id), NEW tail \in Seq(Id)
  PROVE  s \o tail \in Seq(Id) /\ Extends(s \o tail, s)
<1>1. s \o tail \in Seq(Id)
  OBVIOUS
<1> QED BY <1>1 DEF Extends

LEMMA ExtendsStep ==
  ASSUME FileInv, FileInv', AckedInv, [Next]_vars
  PROVE  AckedInv' /\ Extends(Acked', Acked)
<1> USE DEF AckedInv
<1>1. \A s \in Seq(Id) : Extends(s, s)
  <2> SUFFICES ASSUME NEW s \in Seq(Id) PROVE Extends(s, s)
    OBVIOUS
  <2>1. <<>> \in Seq(Id)
    OBVIOUS
  <2>2. s = s \o <<>>
    BY ConcatEmptySeq
  <2> QED BY <2>1, <2>2 DEF Extends
<1>2. PICK rest \in Seq(Id) : Log = Acked \o rest
  BY DEF Extends
<1>3. ASSUME NEW id \in Id, Log' = Append(Log, id)
      PROVE  Log' \in Seq(Id) /\ Extends(Log', Acked)
  <2>1. Log' = Acked \o Append(rest, id) /\ Append(rest, id) \in Seq(Id)
    BY <1>2, <1>3, AppendAfter
  <2> QED BY <2>1, ConcatExtends
<1>4. CASE Acked' = Log' /\ \E id \in Id : Log' = Append(Log, id)
  <2>1. Log' \in Seq(Id) /\ Extends(Log', Acked)
    BY <1>3, <1>4
  <2>2. Extends(Log', Log')
    BY <1>1, <2>1
  <2> QED BY <1>4, <2>1, <2>2 DEF Extends
<1>5. CASE Acked' = Acked /\ Log' = Log
  BY <1>1, <1>5 DEF Extends
<1>6. CASE Acked' = Acked /\ \E id \in Id : Log' = Append(Log, id)
  BY <1>1, <1>3, <1>6 DEF Extends
<1>7. CASE Acked' = Acked /\ \E tail \in Seq(Id) : Log' = Acked \o tail
  <2>1. Log' \in Seq(Id) /\ Extends(Log', Acked)
    BY <1>7, ConcatExtends
  <2> QED BY <1>1, <1>7, <2>1 DEF Extends
<1> QED BY <1>4, <1>5, <1>6, <1>7, LogStep

\* Whatever writes fail, however often the process dies and the power fails, and
\* whatever the texts hold (_append, load).
THEOREM AcknowledgedAreKept == Spec => AcknowledgedStay
<1>1. Init => AckedInv
  <2> SUFFICES ASSUME Init PROVE AckedInv
    OBVIOUS
  <2>1. entries = <<>> /\ leaf = 0 /\ synced = 0
    BY DEF Init
  <2>2. Log = <<>> /\ Acked = <<>>
    BY <2>1, ObjectInit, PathGrows DEF ObjectInv, Log, Acked
  <2>3. <<>> \in Seq(Id) /\ <<>> = <<>> \o <<>>
    OBVIOUS
  <2> QED BY <2>2, <2>3 DEF AckedInv, Extends
<1>2. FileInv /\ FileInv' /\ AckedInv /\ [Next]_vars => AckedInv' /\ Extends(Acked', Acked)
  BY ExtendsStep
<1>3. AckedInv => Extends(Log, Acked)
  BY DEF AckedInv
<1> QED BY <1>1, <1>2, <1>3, FileAlways, PTL DEF Spec, AcknowledgedStay
===============================================================================

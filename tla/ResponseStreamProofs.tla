------------------------ MODULE ResponseStreamProofs ------------------------
(***************************************************************************)
(* ContractsComplete and Aligned for any responses, any frames a           *)
(* process may send in their place, any limits and any number of requests. *)
(*                                                                         *)
(* The test of the programs is made at "keywordsEnd:", on a contract that  *)
(* later records could still change, and the snippet is delivered records  *)
(* later.  The invariant therefore follows one contract: no program is     *)
(* entered twice (Assembled), the header of the record being read was      *)
(* admitted for a reason that its payload cannot undo (Admitted), and each *)
(* snippet record is accounted for by exactly one contract, pending or     *)
(* delivered (Counted).                                                    *)
(*                                                                         *)
(* While the process is honest the reader stands at the place of the       *)
(* response that the records read so far determine (Remaining), inside a   *)
(* record whose other frames the plan accounts for (Planned), also before  *)
(* the count of pairs in it has been read.                                 *)
(***************************************************************************)
EXTENDS ResponseStream, FiniteSetTheorems, SequenceTheorems, WellFoundedInduction, TLAPS

(* The keyword families a program must have.                               *)
FamilySet == {"global", "local", "builtin"}

(* The families read for one program of a snippet.                         *)
Programs == [prog: SUBSET Nat, has: SUBSET FamilySet]
(* A contract under assembly.                                              *)
Contracts == [id: Int, mask: SUBSET Nat, programs: Seq(Programs)]
(* What a response can hold.                                               *)
Outs == [snippets: Seq(Contracts), kernels: SUBSET Int, paths: [PathTags -> Int],
         status: {"none", "failed", "answered"}]

(* Every variable of the reader stays in its domain.                       *)
Typed ==
    /\ kind \in Kinds \cup {"idle"}
    /\ wire \in Seq(Frames)
    /\ head \in Frames \cup {None} /\ body \in Seq(Frames)
    /\ log \in Seq([head: Frames, body: Seq(Frames)])
    /\ pending \in Contracts \cup {NoSnippet}
    /\ out \in Outs

(* The programs of a contract are single programs and none repeats.        *)
Single(c) ==
    /\ \A i \in DOMAIN c.programs : \E p : c.programs[i].prog = {p}
    /\ \A i, j \in DOMAIN c.programs : c.programs[i].prog = c.programs[j].prog => i = j

(* A contract that may be delivered.                                       *)
Whole(c) == Single(c) /\ ProgramsComplete(c)

(* The pending contract has no program twice, and is called complete only  *)
(* when the programs of its mask are.                                      *)
Assembled ==
    /\ pending # NoSnippet => Single(pending)
    /\ complete => pending # NoSnippet /\ ProgramsComplete(pending)

(* While a record's payload is read the reason its header was admitted     *)
(* still holds.                                                            *)
Admitted ==
    /\ head.tag = "snip" => pending = NoSnippet \/ complete
    /\ head.tag \in FamilySet => pending # NoSnippet /\ ~complete /\ InSequence(head)
    /\ head.tag = "end" => pending # NoSnippet /\ ProgramsComplete(pending)

(* A snippet that was sealed is whole.                                     *)
Delivered == \A i \in DOMAIN out.snippets : Whole(out.snippets[i])

(* The snippets announced in a log.                                        *)
Snips(records) == Cardinality({i \in DOMAIN records : records[i].head.tag = "snip"})

(* A snippet is opened by one record and is pending or delivered; only     *)
(* preprocess has snippets at all.                                         *)
Counted ==
    kind # "idle" =>
        /\ out.status = "none"
        /\ Snips(log) = Len(out.snippets) + (IF pending = NoSnippet THEN 0 ELSE 1)
        /\ kind # "preprocess" => pending = NoSnippet /\ out.snippets = <<>>
                                    /\ head.tag \notin {"snip", "end"} \cup FamilySet

(* The count holds still when the response has been accepted.              *)
AllDelivered ==
    out.status = "answered" =>
        /\ log # <<>>
        /\ Last(log).head.tag = "shader" /\ Last(log).head.n = 1 =>
             Len(out.snippets) = Snips(log)

(* The inductive invariant.                                                *)
RInv == Typed /\ Assembled /\ Admitted /\ Delivered /\ Counted /\ AllDelivered

-----------------------------------------------------------------------------
(* The sequence of families as a set.                                      *)
LEMMA FamiliesAre == ToSet(Families) = FamilySet
BY DEF ToSet, Families, FamilySet

(* A contract is not the absence of one.                                   *)
LEMMA ContractIsSnippet ==
    ASSUME NEW c \in Contracts PROVE c # NoSnippet
<1>1. "programs" \in DOMAIN c
  BY DEF Contracts
<1>2. "programs" \notin DOMAIN NoSnippet
  BY DEF NoSnippet
<1>. QED  BY <1>1, <1>2

(* A whole contract has one entry for each program of its mask.            *)
LEMMA WholeCovers ==
    ASSUME NEW c \in Contracts, Whole(c)
    PROVE  /\ UNION {c.programs[j].prog : j \in DOMAIN c.programs} = c.mask
           /\ Len(c.programs) = Cardinality(c.mask)
           /\ \A j \in DOMAIN c.programs : c.programs[j].has = ToSet(Families)
<1>. DEFINE n == Len(c.programs)
            f == [i \in 1..n |-> CHOOSE p : c.programs[i].prog = {p}]
<1>1. n \in Nat /\ DOMAIN c.programs = 1..n
  BY DEF Contracts
<1>2. \A i \in 1..n : c.programs[i].prog = {f[i]}
  BY <1>1 DEF Whole, Single
<1>3. \A i \in 1..n : c.programs[i].prog \subseteq c.mask
  BY <1>1 DEF Whole, ProgramsComplete
<1>4. \A p \in c.mask : \E i \in 1..n : p \in c.programs[i].prog
  BY <1>1 DEF Whole, ProgramsComplete
<1>5. \A i, j \in 1..n : c.programs[i].prog = c.programs[j].prog => i = j
  BY <1>1 DEF Whole, Single
<1>6. DOMAIN f = 1..n
  OBVIOUS
<1>. HIDE DEF f
<1>7. /\ f \in [1..n -> c.mask]
      /\ \A i, j \in 1..n : f[i] = f[j] => i = j
      /\ \A p \in c.mask : \E i \in 1..n : f[i] = p
  <2>1. \A i \in 1..n : f[i] \in c.mask
    BY <1>2, <1>3
  <2>2. f \in [1..n -> c.mask]
    BY <2>1 DEF f
  <2>3. \A i, j \in 1..n : f[i] = f[j] => i = j
    BY <1>2, <1>5
  <2>4. \A p \in c.mask : \E i \in 1..n : f[i] = p
    BY <1>2, <1>4
  <2>. QED  BY <2>2, <2>3, <2>4
<1>8. ExistsBijection(1..n, c.mask)
  BY <1>7 DEF ExistsBijection, Bijection, Injection, Surjection, IsInjective
<1>9. IsFiniteSet(1..n) /\ Cardinality(1..n) = n
  <2>. HIDE DEF n
  <2>1. 1 \in Int /\ n \in Int
    BY <1>1
  <2>2. IsFiniteSet(1..n) /\ Cardinality(1..n) = IF 1 > n THEN 0 ELSE n - 1 + 1
    BY <2>1, FS_Interval
  <2>. QED  BY <1>1, <2>2
<1>10. Cardinality(c.mask) = n
  BY <1>8, <1>9, FS_Bijection
<1>11. UNION {c.programs[j].prog : j \in DOMAIN c.programs} = c.mask
  BY <1>1, <1>3, <1>4
<1>. QED  BY <1>10, <1>11 DEF Whole, ProgramsComplete

(* A record adds to the count when it is a snippet.                        *)
LEMMA SnipsAppend ==
    ASSUME NEW S, NEW l \in Seq(S), NEW r \in S
    PROVE  /\ Snips(l) \in Nat
           /\ r.head.tag = "snip" => Snips(Append(l, r)) = Snips(l) + 1
           /\ r.head.tag # "snip" => Snips(Append(l, r)) = Snips(l)
<1>. DEFINE n == Len(l)
            m == Append(l, r)
            A == {i \in DOMAIN l : l[i].head.tag = "snip"}
            B == {i \in DOMAIN m : m[i].head.tag = "snip"}
<1>1. /\ n \in Nat /\ DOMAIN l = 1..n /\ DOMAIN m = 1..(n + 1) /\ m[n + 1] = r
      /\ \A i \in 1..n : m[i] = l[i]
  OBVIOUS
<1>2. IsFiniteSet(1..n)
  BY <1>1, FS_Interval
<1>3. A \subseteq 1..n
  BY <1>1
<1>4. IsFiniteSet(A) /\ Cardinality(A) \in Nat
  BY <1>2, <1>3, FS_Subset, FS_CardinalityType
<1>5. n + 1 \notin A
  BY <1>1, <1>3
<1>6. r.head.tag = "snip" => B = A \cup {n + 1}
  BY <1>1
<1>7. r.head.tag # "snip" => B = A
  BY <1>1
<1>8. Cardinality(A \cup {n + 1}) = Cardinality(A) + 1
  BY <1>4, <1>5, FS_AddElement
<1>9. Snips(l) = Cardinality(A) /\ Snips(m) = Cardinality(B)
  BY DEF Snips
<1>. HIDE DEF A, B, m
<1>. QED  BY <1>4, <1>6, <1>7, <1>8, <1>9 DEF m

(* An empty log has no snippets.                                           *)
LEMMA SnipsEmpty == Snips(<<>>) = 0
<1>1. {i \in DOMAIN <<>> : <<>>[i].head.tag = "snip"} = {}
  OBVIOUS
<1>. QED  BY <1>1, FS_EmptySet DEF Snips

(* The response a reader starts with.                                      *)
LEMMA NothingTyped == Nothing \in Outs /\ Nothing.snippets = <<>> /\ Nothing.status = "none"
BY DEF Nothing, Outs, PathTags

-----------------------------------------------------------------------------
(* The order of the numbers, as the relation that has no descent.          *)
Below == {ss \in Nat \X Nat : ss[1] < ss[2]}

(* A set of numbers has a least one.                                       *)
LEMMA LeastNumber ==
    ASSUME NEW T, T \subseteq Nat, T # {} PROVE \E x \in T : \A y \in T : x <= y
<1>1. IsWellFoundedOn(Below, Nat)
  BY ONLY NatLessThanWellFounded, Zenon DEF OpToRel, Below
<1>2. PICK x \in T : \A y \in T : ~(<<y, x>> \in Below)
  <2>1. \E x \in T : \A y \in T : ~(<<y, x>> \in Below)
    BY <1>1, WFMin
  <2>. QED  BY <2>1
<1>3. ASSUME NEW y \in T PROVE x <= y
  <2>1. y < x => <<y, x>> \in Below
    BY DEF Below
  <2>. QED  BY <1>2, <2>1
<1>. QED  BY <1>3

(* What holds at a and is kept by every step up to b holds up to b.        *)
LEMMA StepByStep ==
    ASSUME NEW a \in Nat, NEW b \in Nat, NEW Good, a \in Good,
           \A n \in (a + 1)..b : n - 1 \in Good => n \in Good
    PROVE  \A n \in a..b : n \in Good
<1>. DEFINE Bad == {n \in a..b : n \notin Good}
<1>. SUFFICES ASSUME Bad # {} PROVE FALSE  OBVIOUS
<1>1. PICK n \in Bad : \A m \in Bad : n <= m
  <2>1. Bad \subseteq Nat
    OBVIOUS
  <2>. HIDE DEF Bad
  <2>. QED  BY <2>1, LeastNumber
<1>2. n # a /\ n - 1 \in a..b /\ n \in (a + 1)..b
  OBVIOUS
<1>3. n - 1 \notin Bad
  BY <1>1, <1>2
<1>. QED  BY <1>2, <1>3

(* Concatenation, under a name of its own.                                 *)
Glue(a, b) == a \o b
(* f is the flattening of the first N sequences of s.                      *)
IsFlat(f, s, N) == f = [i \in 1..N |-> IF i = 1 THEN s[i] ELSE Glue(f[i - 1], s[i])]

(* What concatenation gives.                                               *)
LEMMA Glued ==
    ASSUME NEW S, NEW a \in Seq(S), NEW b \in Seq(S)
    PROVE  /\ Glue(a, b) \in Seq(S) /\ Len(a) \in Nat /\ Len(b) \in Nat
           /\ Len(Glue(a, b)) = Len(a) + Len(b)
           /\ \A j \in 1..Len(a) : Glue(a, b)[j] = a[j]
           /\ \A j \in 1..Len(b) : Glue(a, b)[Len(a) + j] = b[j]
           /\ Glue(<<>>, b) = b
<1>1. /\ Glue(a, b) \in Seq(S)
      /\ Len(Glue(a, b)) = Len(a) + Len(b)
      /\ \A j \in 1..(Len(a) + Len(b)) :
            Glue(a, b)[j] = IF j <= Len(a) THEN a[j] ELSE b[j - Len(a)]
  BY ConcatProperties DEF Glue
<1>2. Len(a) \in Nat /\ Len(b) \in Nat
  OBVIOUS
<1>3. Glue(<<>>, b) = b
  BY DEF Glue
<1>4. \A j \in 1..Len(a) : Glue(a, b)[j] = a[j]
  BY <1>1, <1>2
<1>5. ASSUME NEW j \in 1..Len(b) PROVE Glue(a, b)[Len(a) + j] = b[j]
  <2>1. Len(a) + j \in 1..(Len(a) + Len(b)) /\ ~(Len(a) + j <= Len(a)) /\ (Len(a) + j) - Len(a) = j
    BY <1>2
  <2>. QED  BY <1>1, <2>1
<1>. QED  BY <1>1, <1>2, <1>3, <1>4, <1>5

(* There is such a function.                                               *)
LEMMA FlatExists ==
    ASSUME NEW s, NEW N \in Nat PROVE \E f : IsFlat(f, s, N)
<1>. DEFINE e(f, i) == IF i = 1 THEN s[i] ELSE Glue(f[i - 1], s[i])
            Good == {m \in Nat : \E f : IsFlat(f, s, m)}
<1>1. 0 \in Good
  <2>1. 1..0 = {}
    OBVIOUS
  <2>2. IsFlat([i \in {} |-> 0], s, 0)
    BY <2>1 DEF IsFlat
  <2>. QED  BY <2>2
<1>2. ASSUME NEW m \in 1..N, m - 1 \in Good PROVE m \in Good
  <2>1. PICK f : IsFlat(f, s, m - 1)
    BY <1>2
  <2>. DEFINE g == [i \in 1..m |-> IF i < m THEN f[i] ELSE e(f, m)]
  <2>2. ASSUME NEW i \in 1..m PROVE g[i] = e(g, i)
    <3>1. i < m => f[i] = e(f, i)
      BY <2>1 DEF IsFlat
    <3>2. CASE i = 1
      BY <3>1, <3>2
    <3>3. CASE i # 1
      <4>1. g[i - 1] = f[i - 1]
        BY <3>3
      <4>2. CASE i < m
        BY <4>1, <4>2, <3>1, <3>3
      <4>3. CASE i = m
        BY <4>1, <4>3, <3>3
      <4>. QED  BY <4>2, <4>3
    <3>. QED  BY <3>2, <3>3
  <2>3. g = [i \in 1..m |-> e(g, i)]
    <3>1. g = [i \in 1..m |-> g[i]]
      OBVIOUS
    <3>. HIDE DEF g
    <3>. QED  BY <3>1, <2>2
  <2>. HIDE DEF g
  <2>4. IsFlat(g, s, m)
    BY <2>3 DEF IsFlat
  <2>. QED  BY <2>4
<1>. HIDE DEF Good
<1>3. \A m \in (0 + 1)..N : m - 1 \in Good => m \in Good
  BY <1>2
<1>4. N \in Good
  BY <1>1, <1>3, StepByStep
<1>. QED  BY <1>4 DEF Good

(* FlattenSeq chooses it.                                                  *)
LEMMA FlattenIs ==
    ASSUME NEW s, Len(s) # 0
    PROVE  FlattenSeq(s) = (CHOOSE f : IsFlat(f, s, Len(s)))[Len(s)]
BY Zenon DEF FlattenSeq, IsFlat, Glue

(* Flattening goes on from the first i sequences to the first i + 1.       *)
LEMMA Flattened ==
    ASSUME NEW S, NEW s \in Seq(Seq(S))
    PROVE  \E g \in [0..Len(s) -> Seq(S)] :
              /\ g[0] = <<>>
              /\ \A i \in 1..Len(s) : g[i] = Glue(g[i - 1], s[i])
              /\ FlattenSeq(s) = g[Len(s)]
<1>. DEFINE N == Len(s)
            f == CHOOSE h : IsFlat(h, s, N)
            e(i) == IF i = 1 THEN s[i] ELSE Glue(f[i - 1], s[i])
            g == [i \in 0..N |-> IF i = 0 THEN <<>> ELSE f[i]]
<1>0. N \in Nat /\ \A i \in 1..N : s[i] \in Seq(S)
  OBVIOUS
<1>. HIDE DEF N
<1>1. IsFlat(f, s, N)
  BY <1>0, FlatExists
<1>. HIDE DEF f
<1>2. \A i \in 1..N : f[i] = e(i)
  <2>1. f = [i \in 1..N |-> e(i)]
    BY <1>1 DEF IsFlat
  <2>. HIDE DEF e
  <2>. QED  BY <2>1
<1>3. \A i \in 1..N : g[i] = Glue(g[i - 1], s[i])
  <2>. SUFFICES ASSUME NEW i \in 1..N PROVE g[i] = Glue(g[i - 1], s[i])  OBVIOUS
  <2>1. g[i] = f[i] /\ (i # 1 => g[i - 1] = f[i - 1]) /\ (i = 1 => g[i - 1] = <<>>)
    BY <1>0
  <2>2. Glue(<<>>, s[i]) = s[i]
    BY <1>0, Glued
  <2>. HIDE DEF g
  <2>3. CASE i = 1
    BY <1>2, <2>1, <2>2, <2>3
  <2>4. CASE i # 1
    BY <1>2, <2>1, <2>4
  <2>. QED  BY <2>3, <2>4
<1>4. g[0] = <<>>
  BY <1>0
<1>5. \A i \in 0..N : g[i] \in Seq(S)
  <2>. HIDE DEF g
  <2>. DEFINE Good == {i \in Nat : g[i] \in Seq(S)}
  <2>0. <<>> \in Seq(S)
    OBVIOUS
  <2>1. 0 \in Good
    BY <1>4, <2>0
  <2>2. ASSUME NEW i \in 1..N, i - 1 \in Good PROVE i \in Good
    <3>1. g[i - 1] \in Seq(S) /\ s[i] \in Seq(S)
      BY <2>2, <1>0
    <3>2. g[i] \in Seq(S)
      BY <3>1, <1>3, Glued
    <3>. QED  BY <1>0, <3>2
  <2>. HIDE DEF Good
  <2>3. \A i \in (0 + 1)..N : i - 1 \in Good => i \in Good
    BY <1>0, <2>2
  <2>4. \A i \in 0..N : i \in Good
    BY <1>0, <2>1, <2>3, StepByStep
  <2>. QED  BY <2>4 DEF Good
<1>6. FlattenSeq(s) = g[N]
  <2>1. CASE N = 0
    <3>1. s = <<>>
      BY <2>1 DEF N
    <3>2. FlattenSeq(s) = s
      BY <2>1 DEF FlattenSeq, N
    <3>. QED  BY <2>1, <3>1, <3>2, <1>4
  <2>2. CASE N # 0
    <3>1. FlattenSeq(s) = f[N]
      BY <2>2, FlattenIs DEF N, f
    <3>. QED  BY <2>2, <3>1, <1>0
  <2>. QED  BY <2>1, <2>2
<1>7. g \in [0..N -> Seq(S)]
  BY <1>5
<1>. HIDE DEF g
<1>. QED  BY <1>3, <1>4, <1>6, <1>7 DEF N

(* What is repeated is what comes out.                                     *)
LEMMA RepeatedTyped ==
    ASSUME NEW S, NEW w \in Seq(S), NEW n \in Int PROVE Repeated(n, w) \in Seq(S)
<1>. DEFINE s == [i \in 1..n |-> w]
<1>1. s \in Seq(Seq(S))
  <2>1. CASE n >= 0
    BY <2>1
  <2>2. CASE n < 0
    <3>1. 1..n = 1..0
      BY <2>2
    <3>. QED  BY <3>1
  <2>. QED  BY <2>1, <2>2
<1>2. Len(s) \in Nat /\ FlattenSeq(s) \in Seq(S)
  <2>. HIDE DEF s
  <2>1. Len(s) \in Nat
    BY <1>1
  <2>2. PICK g \in [0..Len(s) -> Seq(S)] : FlattenSeq(s) = g[Len(s)]
    BY <1>1, Flattened
  <2>. QED  BY <2>1, <2>2
<1>. QED  BY <1>2 DEF Repeated

-----------------------------------------------------------------------------
(* at[i] frames of the wire are those of the first i records of r.         *)
IsLayout(at, r) ==
    /\ at \in [0..Len(r) -> Nat]
    /\ at[0] = 0
    /\ at[Len(r)] = Len(OnWire(r))
    /\ \A i \in 1..Len(r) :
         /\ at[i] = at[i - 1] + 1 + Len(r[i].body)
         /\ OnWire(r)[at[i - 1] + 1] = r[i].head
         /\ \A j \in DOMAIN r[i].body : OnWire(r)[at[i - 1] + 1 + j] = r[i].body[j]

(* Where the records of a response begin on the wire.                      *)
Starts(r) == CHOOSE at : IsLayout(at, r)

(* Such a layout exists, and what is on the wire is made of frames.        *)
LEMMA Layout ==
    ASSUME NEW r \in Seq(Records)
    PROVE  OnWire(r) \in Seq(Frames) /\ IsLayout(Starts(r), r)
<1>. DEFINE N == Len(r)
            one(i) == Glue(<<r[i].head>>, r[i].body)
            s == [i \in DOMAIN r |-> one(i)]
<1>1. N \in Nat /\ DOMAIN r = 1..N
  OBVIOUS
<1>2. \A i \in 1..N : r[i].head \in Frames /\ r[i].body \in Seq(Frames)
  <2>1. \A i \in 1..N : r[i] \in Records
    OBVIOUS
  <2>. QED  BY <2>1 DEF Records
<1>3. \A i \in 1..N : one(i) \in Seq(Frames) /\ Len(one(i)) = 1 + Len(r[i].body)
                        /\ one(i)[1] = r[i].head
                        /\ \A j \in DOMAIN r[i].body : one(i)[1 + j] = r[i].body[j]
  <2>. SUFFICES ASSUME NEW i \in 1..N
                PROVE /\ one(i) \in Seq(Frames) /\ Len(one(i)) = 1 + Len(r[i].body)
                      /\ one(i)[1] = r[i].head
                      /\ \A j \in DOMAIN r[i].body : one(i)[1 + j] = r[i].body[j]
    OBVIOUS
  <2>. DEFINE h == r[i].head
              b == r[i].body
  <2>1. h \in Frames /\ b \in Seq(Frames)
    BY <1>2
  <2>. HIDE DEF h, b
  <2>2. <<h>> \in Seq(Frames) /\ Len(<<h>>) = 1 /\ <<h>>[1] = h /\ DOMAIN b = 1..Len(b)
    BY <2>1
  <2>3. /\ Glue(<<h>>, b) \in Seq(Frames) /\ Len(Glue(<<h>>, b)) = 1 + Len(b)
        /\ Glue(<<h>>, b)[1] = h
        /\ \A j \in DOMAIN b : Glue(<<h>>, b)[1 + j] = b[j]
    <3>. DEFINE a == <<h>>
    <3>. HIDE DEF a
    <3>1. /\ Glue(a, b) \in Seq(Frames) /\ Len(Glue(a, b)) = Len(a) + Len(b)
          /\ \A j \in 1..Len(a) : Glue(a, b)[j] = a[j]
          /\ \A j \in 1..Len(b) : Glue(a, b)[Len(a) + j] = b[j]
      <4>1. a \in Seq(Frames) /\ b \in Seq(Frames)
        BY <2>1, <2>2 DEF a
      <4>2. /\ Glue(a, b) \in Seq(Frames) /\ Len(Glue(a, b)) = Len(a) + Len(b)
            /\ \A j \in 1..Len(a) : Glue(a, b)[j] = a[j]
        BY <4>1, Glued
      <4>3. \A j \in 1..Len(b) : Glue(a, b)[Len(a) + j] = b[j]
        BY <4>1, Glued
      <4>. QED  BY <4>2, <4>3
    <3>2. Len(a) = 1 /\ a[1] = h
      BY <2>2 DEF a
    <3>3. /\ Glue(a, b) \in Seq(Frames) /\ Len(Glue(a, b)) = 1 + Len(b)
          /\ Glue(a, b)[1] = h /\ \A j \in DOMAIN b : Glue(a, b)[1 + j] = b[j]
      BY <2>2, <3>1, <3>2
    <3>. QED  BY <3>3 DEF a
  <2>. QED  BY <2>3 DEF h, b
<1>4. s \in Seq(Seq(Frames)) /\ Len(s) = N /\ \A i \in 1..N : s[i] = one(i)
  <2>. HIDE DEF one
  <2>. QED  BY <1>1, <1>3
<1>5. OnWire(r) = FlattenSeq(s)
  BY DEF OnWire, Glue
<1>. HIDE DEF N, one, s
<1>6. PICK g \in [0..N -> Seq(Frames)] :
         /\ g[0] = <<>>
         /\ \A i \in 1..N : g[i] = Glue(g[i - 1], s[i])
         /\ FlattenSeq(s) = g[N]
  BY <1>4, Flattened
<1>. DEFINE at == [i \in 0..N |-> Len(g[i])]
            W == OnWire(r)
<1>7. W \in Seq(Frames) /\ W = g[N]
  BY <1>1, <1>5, <1>6
<1>8. \A i \in 0..N : g[i] \in Seq(Frames) /\ Len(g[i]) \in Nat
  BY <1>6
<1>9. ASSUME NEW i \in 0..N PROVE Len(g[i]) <= Len(W) /\ \A j \in 1..Len(g[i]) : g[i][j] = W[j]
  <2>. DEFINE Good == {m \in 0..N : /\ Len(g[i]) <= Len(g[m])
                                    /\ \A j \in 1..Len(g[i]) : g[i][j] = g[m][j]}
  <2>1. i \in Good
    BY <1>8
  <2>2. ASSUME NEW m \in (i + 1)..N, m - 1 \in Good PROVE m \in Good
    <3>1. m \in 1..N /\ m - 1 \in 0..N /\ m \in 0..N
      BY <1>1
    <3>2. g[m] = Glue(g[m - 1], s[m]) /\ g[m - 1] \in Seq(Frames) /\ s[m] \in Seq(Frames)
      BY <1>3, <1>4, <1>6, <1>8, <3>1
    <3>3. Len(g[m - 1]) <= Len(g[m]) /\ \A j \in 1..Len(g[m - 1]) : g[m][j] = g[m - 1][j]
      <4>. DEFINE a == g[m - 1]
                  b == s[m]
      <4>1. a \in Seq(Frames) /\ b \in Seq(Frames) /\ g[m] = Glue(a, b)
        BY <3>2
      <4>. HIDE DEF a, b
      <4>2. /\ Len(a) \in Nat /\ Len(b) \in Nat /\ Len(Glue(a, b)) = Len(a) + Len(b)
            /\ \A j \in 1..Len(a) : Glue(a, b)[j] = a[j]
        BY <4>1, Glued
      <4>3. Len(a) <= Len(g[m]) /\ \A j \in 1..Len(a) : g[m][j] = a[j]
        BY <4>1, <4>2
      <4>. QED  BY <4>3 DEF a
    <3>4. /\ Len(g[i]) <= Len(g[m - 1])
          /\ \A j \in 1..Len(g[i]) : g[i][j] = g[m - 1][j]
      BY <2>2
    <3>5. Len(g[i]) \in Nat /\ Len(g[m - 1]) \in Nat /\ Len(g[m]) \in Nat
      BY <1>8, <3>1
    <3>. QED  BY <3>1, <3>3, <3>4, <3>5
  <2>. HIDE DEF Good
  <2>3. i \in Nat /\ N \in i..N
    BY <1>1
  <2>4. N \in Good
    BY <1>1, <2>1, <2>2, <2>3, StepByStep
  <2>. QED  BY <2>4, <1>7 DEF Good
<1>10. ASSUME NEW i \in 1..N
       PROVE /\ Len(g[i]) = Len(g[i - 1]) + 1 + Len(r[i].body)
             /\ W[Len(g[i - 1]) + 1] = r[i].head
             /\ \A j \in DOMAIN r[i].body : W[Len(g[i - 1]) + 1 + j] = r[i].body[j]
  <2>. DEFINE b == r[i].body
              u == g[i - 1]
              v == s[i]
  <2>1. i - 1 \in 0..N /\ i \in 0..N
    BY <1>1
  <2>2. /\ u \in Seq(Frames) /\ v \in Seq(Frames) /\ g[i] = Glue(u, v) /\ b \in Seq(Frames)
        /\ Len(v) = 1 + Len(b) /\ v[1] = r[i].head
        /\ \A j \in DOMAIN b : v[1 + j] = b[j]
    BY <1>2, <1>3, <1>4, <1>6, <1>8, <2>1
  <2>3. \A j \in 1..Len(g[i]) : W[j] = g[i][j]
    BY <1>9, <2>1
  <2>. HIDE DEF b, u, v
  <2>4. /\ Len(u) \in Nat /\ Len(b) \in Nat /\ DOMAIN b = 1..Len(b)
        /\ Len(g[i]) = Len(u) + Len(v)
        /\ \A j \in 1..Len(v) : g[i][Len(u) + j] = v[j]
    <3>0. /\ Len(u) \in Nat /\ Len(Glue(u, v)) = Len(u) + Len(v)
          /\ \A j \in 1..Len(v) : Glue(u, v)[Len(u) + j] = v[j]
      <4>1. u \in Seq(Frames) /\ v \in Seq(Frames)
        BY <2>2
      <4>. QED  BY <4>1, Glued, Zenon
    <3>1. /\ Len(u) \in Nat /\ Len(g[i]) = Len(u) + Len(v)
          /\ \A j \in 1..Len(v) : g[i][Len(u) + j] = v[j]
      BY <2>2, <3>0
    <3>2. Len(b) \in Nat /\ DOMAIN b = 1..Len(b)
      BY <2>2
    <3>. QED  BY <3>1, <3>2
  <2>. HIDE DEF W
  <2>5. \A j \in 1..Len(v) : W[Len(u) + j] = v[j]
    <3>1. \A j \in 1..Len(v) : Len(u) + j \in 1..Len(g[i])
      BY <2>2, <2>4
    <3>. QED  BY <2>3, <2>4, <3>1
  <2>6. W[Len(u) + 1] = r[i].head
    <3>1. 1 \in 1..Len(v)
      BY <2>2, <2>4
    <3>. QED  BY <2>2, <2>5, <3>1
  <2>7. ASSUME NEW j \in DOMAIN b PROVE W[Len(u) + 1 + j] = b[j]
    <3>0. Len(v) = 1 + Len(b) /\ Len(b) \in Nat /\ Len(u) \in Nat /\ j \in 1..Len(b)
      BY <2>2, <2>4
    <3>1. 1 + j \in 1..Len(v) /\ Len(u) + 1 + j = Len(u) + (1 + j)
      BY <3>0
    <3>. QED  BY <2>2, <2>5, <3>1
  <2>8. Len(g[i]) = Len(u) + 1 + Len(b)
    BY <2>2, <2>4
  <2>. QED  BY <2>6, <2>7, <2>8 DEF b, u
<1>11. IsLayout(at, r)
  <2>1. at \in [0..N -> Nat] /\ at[0] = 0 /\ at[N] = Len(W)
    BY <1>1, <1>6, <1>7, <1>8
  <2>2. \A i \in 1..N : at[i] = Len(g[i]) /\ at[i - 1] = Len(g[i - 1])
    BY <1>1
  <2>. HIDE DEF at
  <2>. QED  BY <1>10, <2>1, <2>2 DEF IsLayout, N
<1>. HIDE DEF at
<1>. QED  BY <1>7, <1>11 DEF Starts

-----------------------------------------------------------------------------
(* The invariant holds initially.                                          *)
LEMMA InitRInv == Init => RInv
<1>. SUFFICES ASSUME Init PROVE RInv  OBVIOUS
<1>0. out.status = "none" /\ out.snippets = <<>> /\ out \in Outs
  BY NothingTyped DEF Init
<1>1. Typed
  BY <1>0 DEF Init, Typed
<1>2. Assembled /\ Admitted /\ Delivered /\ Counted /\ AllDelivered
  BY <1>0 DEF Init, Assembled, Admitted, Delivered, Counted, AllDelivered, None, FamilySet
<1>. QED  BY <1>1, <1>2 DEF RInv

(* A reader that starts afresh.                                            *)
LEMMA BlankInv ==
    ASSUME Blank, kind' \in Kinds \cup {"idle"}, wire' \in Seq(Frames), out' \in Outs,
           out'.snippets = <<>>, out'.status \in {"none", "failed"},
           kind' # "idle" => out'.status = "none"
    PROVE  RInv'
<1>1. Typed'
  BY DEF Blank, Typed
<1>2. Assembled' /\ Admitted' /\ Delivered' /\ AllDelivered'
  BY DEF Blank, Assembled, Admitted, Delivered, AllDelivered, None, FamilySet
<1>3. Snips(log') = 0 /\ Len(out'.snippets) = 0
  BY SnipsEmpty DEF Blank
<1>4. Counted'
  BY <1>3 DEF Counted, Blank, None, FamilySet
<1>. QED  BY <1>1, <1>2, <1>4 DEF RInv

(* A failure leaves nothing of what was parsed.                            *)
LEMMA FailInv == ASSUME Fail PROVE RInv'
<1>1. /\ out' \in Outs /\ out'.snippets = <<>> /\ out'.status = "failed"
  BY NothingTyped DEF Fail, Outs
<1>2. wire' = <<>> /\ kind' = "idle" /\ Blank
  BY DEF Fail
<1>. QED  BY <1>1, <1>2, BlankInv

(* A new request starts a fresh reader.                                    *)
LEMMA RequestInv ==
    ASSUME RInv, NEW k \in Kinds, NEW r \in Responses[k], Request(k, r)
    PROVE  RInv'
<1>1. OnWire(r) \in Seq(Frames)
  <2>1. r \in Seq(Records)
    BY FramesAssumption
  <2>. QED  BY <2>1, Layout
<1>2. wire' \in Seq(Frames)
  BY <1>1 DEF Request, RInv, Typed
<1>3. kind' \in Kinds /\ Blank /\ out' = Nothing
  BY DEF Request
<1>. QED  BY <1>2, <1>3, NothingTyped, BlankInv

(* Whatever the process sends instead, the reader is where it was.         *)
LEMMA GoWrongInv == ASSUME RInv, GoWrong PROVE RInv'
<1>. USE DEF RInv
<1>1. PICK stray \in Strays, lost \in {0, 1, Len(wire)} :
        wire' = stray \o SubSeq(wire, lost + 1, Len(wire))
  BY DEF GoWrong
<1>2. stray \in Seq(Frames)
  BY FramesAssumption
<1>3. SubSeq(wire, lost + 1, Len(wire)) \in Seq(Frames)
  BY DEF Typed
<1>4. wire' \in Seq(Frames)
  BY <1>1, <1>2, <1>3
<1>5. UNCHANGED <<kind, head, body, log, pending, complete, out>>
  BY DEF GoWrong, reader
<1>6. Typed'
  BY <1>4, <1>5 DEF Typed
<1>7. Assembled' /\ Admitted' /\ Delivered' /\ Counted' /\ AllDelivered'
  BY <1>5 DEF Assembled, Admitted, Delivered, Counted, AllDelivered, InSequence
<1>. QED  BY <1>6, <1>7

(* Stuttering.                                                             *)
LEMMA StutterInv == ASSUME RInv, UNCHANGED vars PROVE RInv'
BY DEF RInv, vars, reader, Typed, Assembled, Admitted, Delivered, Counted, AllDelivered,
   InSequence

(* A header is admitted for the reason recorded in Admitted, or the        *)
(* process is given up.                                                    *)
LEMMA ReadHeaderInv == ASSUME RInv, ReadHeader PROVE RInv'
<1>. USE DEF RInv
<1>. DEFINE f == Head(wire)
<1>1. CASE Fail
  BY <1>1, FailInv
<1>2. CASE ~Fail
  <2>1. /\ head' = f /\ body' = <<>> /\ wire' = Tail(wire) /\ Admits(f)
        /\ UNCHANGED <<kind, log, pending, complete, out>>
        /\ kind # "idle"
    BY <1>2 DEF ReadHeader
  <2>2. f \in Frames /\ Tail(wire) \in Seq(Frames)
    BY <1>2 DEF ReadHeader, Typed
  <2>. HIDE DEF f
  <2>3. Typed'
    BY <2>1, <2>2 DEF Typed
  <2>4. Assembled' /\ Delivered' /\ AllDelivered'
    BY <2>1 DEF Assembled, Delivered, AllDelivered
  <2>5. kind = "preprocess" =>
          /\ f.tag = "snip" => pending = NoSnippet \/ complete
          /\ f.tag \in FamilySet => pending # NoSnippet /\ ~complete /\ InSequence(f)
          /\ f.tag = "end" => pending # NoSnippet /\ ProgramsComplete(pending)
    BY <2>1, FamiliesAre DEF Admits, AdmitsPreprocess, FamilySet, PathTags
  <2>6. kind # "preprocess" => f.tag \notin {"snip", "end"} \cup FamilySet
    BY <2>1 DEF Admits, AdmitsCompile, AdmitsDisassemble, AdmitsKernel, AdmitsCompute, FamilySet
  <2>7. Admitted'
    BY <2>1, <2>5, <2>6 DEF Admitted, InSequence, FamilySet
  <2>8. Counted'
    BY <2>1, <2>6 DEF Counted
  <2>. QED  BY <2>3, <2>4, <2>7, <2>8
<1>. QED  BY <1>1, <1>2

(* A payload frame changes nothing but what has been read.                 *)
LEMMA ReadPayloadInv == ASSUME RInv, ReadPayload PROVE RInv'
<1>. USE DEF RInv
<1>1. CASE Fail
  BY <1>1, FailInv
<1>2. CASE ~Fail
  <2>1. /\ body' = Append(body, Head(wire)) /\ wire' = Tail(wire) /\ wire # <<>>
        /\ UNCHANGED <<kind, head, log, pending, complete, out>>
    BY <1>2 DEF ReadPayload
  <2>2. Head(wire) \in Frames /\ Tail(wire) \in Seq(Frames)
    BY <2>1 DEF Typed
  <2>3. Typed'
    BY <2>1, <2>2 DEF Typed
  <2>4. Assembled' /\ Admitted' /\ Delivered' /\ Counted' /\ AllDelivered'
    BY <2>1 DEF Assembled, Admitted, Delivered, Counted, AllDelivered, InSequence
  <2>. QED  BY <2>3, <2>4
<1>. QED  BY <1>1, <1>2

(* The log grows by the record that was read.                              *)
LEMMA NextRecordLog ==
    ASSUME RInv, head # None, NextRecord
    PROVE  /\ head' = None /\ body' = <<>> /\ head \in Frames
           /\ log' \in Seq([head: Frames, body: Seq(Frames)])
           /\ log' # <<>> /\ Last(log').head = head
           /\ Snips(log) \in Nat
           /\ head.tag = "snip" => Snips(log') = Snips(log) + 1
           /\ head.tag # "snip" => Snips(log') = Snips(log)
<1>. DEFINE S == [head: Frames, body: Seq(Frames)]
            r == Record(head, body)
<1>1. head \in Frames /\ body \in Seq(Frames) /\ log \in Seq(S)
  BY DEF RInv, Typed
<1>2. r \in S /\ r.head = head
  BY <1>1 DEF Record
<1>3. log' = Append(log, r)
  BY DEF NextRecord
<1>. HIDE DEF S, r
<1>4. log' \in Seq(S) /\ log' # <<>> /\ log'[Len(log')] = r
  BY <1>1, <1>2, <1>3
<1>5. /\ Snips(log) \in Nat
      /\ r.head.tag = "snip" => Snips(log') = Snips(log) + 1
      /\ r.head.tag # "snip" => Snips(log') = Snips(log)
  BY <1>1, <1>2, <1>3, SnipsAppend
<1>6. head' = None /\ body' = <<>>
  BY DEF NextRecord
<1>. QED  BY <1>1, <1>2, <1>4, <1>5, <1>6 DEF Last, S

(* A record that has been read has a header.                               *)
LEMMA ReadIsRecord ==
    ASSUME NEW tags, "none" \notin tags, RecordRead(tags)
    PROVE  head # None /\ kind # "idle" /\ head.tag \in tags
BY DEF RecordRead, None

(* Between records nothing is admitted yet.                                *)
LEMMA BetweenRecords == ASSUME head' = None PROVE Admitted'
BY DEF Admitted, None, FamilySet

(* A record that leaves the contract and the snippets alone.               *)
LEMMA PlainRecordInv ==
    ASSUME RInv, head # None, kind # "idle", NextRecord, head.tag # "snip",
           UNCHANGED <<kind, wire, pending, complete>>,
           out' \in Outs, out'.snippets = out.snippets, out'.status = out.status
    PROVE  RInv'
<1>0. /\ Snips(log') = Snips(log)
      /\ head' = None /\ body' = <<>>
      /\ log' \in Seq([head: Frames, body: Seq(Frames)]) /\ log' # <<>>
  BY NextRecordLog
<1>. USE DEF RInv
<1>1. Typed'
  BY <1>0 DEF Typed
<1>2. Assembled' /\ Delivered'
  BY DEF Assembled, Delivered
<1>3. Admitted'
  BY <1>0, BetweenRecords
<1>4. Counted' /\ AllDelivered'
  BY <1>0 DEF Counted, AllDelivered, None, FamilySet
<1>. QED  BY <1>1, <1>2, <1>3, <1>4

(* The records that do not touch snippets.                                 *)
LEMMA NoteInv ==
    ASSUME RInv, Paths \/ Note \/ ComputeKeywords \/ Kernel \/ Requirements
    PROVE  RInv'
<1>. USE DEF RInv
<1>1. CASE Fail
  BY <1>1, FailInv
<1>2. CASE Note \/ ComputeKeywords
  <2>1. RecordRead({"err", "reflection", "computeGlobal", "computeLocal"})
    BY <1>2 DEF Note, ComputeKeywords, RecordRead
  <2>2. head # None /\ kind # "idle" /\ head.tag # "snip"
    BY <2>1, ReadIsRecord
  <2>3. NextRecord /\ UNCHANGED <<kind, wire, pending, complete, out>>
    BY <1>2 DEF Note, ComputeKeywords, Keep
  <2>. QED  BY <2>2, <2>3, PlainRecordInv DEF Typed
<1>3. CASE Paths
  <2>1. head # None /\ kind # "idle" /\ head.tag # "snip" /\ head.tag \in PathTags
    BY <1>3, ReadIsRecord DEF Paths, PathTags
  <2>2. NextRecord /\ UNCHANGED <<kind, wire, pending, complete>>
    BY <1>3 DEF Paths, Keep
  <2>3. head \in Frames /\ out \in Outs
    BY <2>1 DEF Typed
  <2>4. out' = [out EXCEPT !.paths[head.tag] = out.paths[head.tag] + head.n]
    BY <1>3 DEF Paths
  <2>5. out' \in Outs /\ out'.snippets = out.snippets /\ out'.status = out.status
    <3>. DEFINE q == [out.paths EXCEPT ![head.tag] = out.paths[head.tag] + head.n]
    <3>1. head.n \in Int /\ out.paths \in [PathTags -> Int]
      BY <2>3 DEF Outs, Frames
    <3>2. q \in [PathTags -> Int]
      BY <2>1, <3>1
    <3>3. out' = [out EXCEPT !.paths = q]
      BY <2>3, <2>4 DEF Outs
    <3>. HIDE DEF q
    <3>. QED  BY <2>3, <3>2, <3>3 DEF Outs
  <2>. QED  BY <2>1, <2>2, <2>5, PlainRecordInv
<1>4. CASE Kernel /\ ~Fail
  <2>1. head # None /\ kind # "idle" /\ head.tag # "snip"
    BY <1>4, ReadIsRecord DEF Kernel
  <2>2. /\ NextRecord /\ UNCHANGED <<kind, wire, pending, complete>>
        /\ out' = [out EXCEPT !.kernels = @ \cup {head.id}]
    BY <1>4 DEF Kernel
  <2>3. head.id \in Int /\ out \in Outs
    BY <2>1 DEF Typed, Frames
  <2>4. out' \in Outs /\ out'.snippets = out.snippets /\ out'.status = out.status
    BY <2>2, <2>3 DEF Outs
  <2>. QED  BY <2>1, <2>2, <2>4, PlainRecordInv
<1>5. CASE Requirements /\ ~Fail
  <2>1. head # None /\ kind # "idle" /\ head.tag # "snip"
    BY <1>5, ReadIsRecord DEF Requirements
  <2>2. NextRecord /\ UNCHANGED <<kind, wire, pending, complete, out>>
    BY <1>5 DEF Requirements
  <2>. QED  BY <2>1, <2>2, PlainRecordInv DEF Typed
<1>. QED  BY <1>1, <1>2, <1>3, <1>4, <1>5

(* What seal_pending delivers.                                             *)
LEMMA SealedWhole ==
    ASSUME RInv, pending = NoSnippet \/ complete
    PROVE  /\ Sealed \in Seq(Contracts)
           /\ \A i \in DOMAIN Sealed : Whole(Sealed[i])
           /\ Len(Sealed) = Len(out.snippets) + (IF pending = NoSnippet THEN 0 ELSE 1)
<1>. USE DEF RInv
<1>1. out.snippets \in Seq(Contracts)
  BY DEF Typed, Outs
<1>2. CASE pending = NoSnippet
  BY <1>1, <1>2 DEF Sealed, Delivered
<1>3. CASE pending # NoSnippet
  <2>1. pending \in Contracts /\ Whole(pending)
    BY <1>3 DEF Typed, Assembled, Whole
  <2>2. Sealed = Append(out.snippets, pending)
    BY <1>3 DEF Sealed
  <2>. QED  BY <1>1, <1>3, <2>1, <2>2 DEF Delivered
<1>. QED  BY <1>2, <1>3

(* A snippet record seals the one before it.                               *)
LEMMA SnipInv == ASSUME RInv, Snip PROVE RInv'
<1>. USE DEF RInv
<1>1. head # None /\ kind # "idle" /\ head.tag = "snip"
  BY ReadIsRecord DEF Snip
<1>2. /\ NextRecord /\ UNCHANGED <<kind, wire>>
      /\ out' = [out EXCEPT !.snippets = Sealed]
      /\ pending' = Contract(head) /\ ~complete'
  BY DEF Snip, Keep
<1>3. head \in Frames /\ out \in Outs
  BY <1>1 DEF Typed
<1>4. pending = NoSnippet \/ complete
  BY <1>1 DEF Admitted
<1>5. /\ pending' \in Contracts /\ pending'.programs = <<>>
  BY <1>2, <1>3 DEF Contract, Contracts, Frames
<1>6. pending' # NoSnippet
  BY <1>5, ContractIsSnippet
<1>7. out' \in Outs /\ out'.snippets = Sealed /\ out'.status = out.status
  BY <1>2, <1>3, <1>4, SealedWhole DEF Outs
<1>0. /\ Snips(log') = Snips(log) + 1
      /\ head' = None /\ body' = <<>>
      /\ log' \in Seq([head: Frames, body: Seq(Frames)]) /\ log' # <<>>
  BY <1>1, <1>2, NextRecordLog
<1>8. Typed'
  BY <1>0, <1>2, <1>5, <1>7 DEF Typed
<1>9. Assembled'
  BY <1>2, <1>5 DEF Assembled, Single
<1>10. Admitted'
  BY <1>0, BetweenRecords
<1>11. Delivered'
  BY <1>4, <1>7, SealedWhole DEF Delivered
<1>12. kind = "preprocess"
  BY <1>1 DEF Counted
<1>13. Counted' /\ AllDelivered'
  <2>1. Snips(log') = Snips(log) + 1 /\ Snips(log) = Len(Sealed) /\ Len(Sealed) \in Nat
    <3>1. /\ Sealed \in Seq(Contracts)
          /\ Len(Sealed) = Len(out.snippets) + (IF pending = NoSnippet THEN 0 ELSE 1)
      BY <1>4, SealedWhole
    <3>2. Snips(log) = Len(out.snippets) + (IF pending = NoSnippet THEN 0 ELSE 1)
      BY <1>1 DEF Counted
    <3>3. Len(Sealed) \in Nat
      <4>1. Sealed \in Seq(Contracts)
        BY <3>1
      <4>. QED  BY <4>1
    <3>. QED  BY <1>0, <3>1, <3>2, <3>3
  <2>2. out'.status = "none"
    BY <1>1, <1>7 DEF Counted
  <2>. QED  BY <1>2, <1>6, <1>7, <1>12, <2>1, <2>2 DEF Counted, AllDelivered
<1>. QED  BY <1>8, <1>9, <1>10, <1>11, <1>13

(* The end of the keywords makes the contract complete.                    *)
LEMMA KeywordsEndInv == ASSUME RInv, KeywordsEnd PROVE RInv'
<1>. USE DEF RInv
<1>1. head # None /\ kind # "idle" /\ head.tag = "end"
  BY ReadIsRecord DEF KeywordsEnd
<1>2. NextRecord /\ UNCHANGED <<kind, wire, pending, out>> /\ complete'
  BY DEF KeywordsEnd, Keep
<1>3. pending # NoSnippet /\ ProgramsComplete(pending)
  BY <1>1 DEF Admitted
<1>0. /\ Snips(log') = Snips(log)
      /\ head' = None /\ body' = <<>>
      /\ log' \in Seq([head: Frames, body: Seq(Frames)]) /\ log' # <<>>
  BY <1>1, <1>2, NextRecordLog
<1>4. Typed'
  BY <1>0, <1>2 DEF Typed
<1>5. Assembled' /\ Delivered'
  BY <1>2, <1>3 DEF Assembled, Delivered
<1>6. Admitted'
  BY <1>0, BetweenRecords
<1>7. Counted' /\ AllDelivered'
  BY <1>0, <1>1, <1>2 DEF Counted, AllDelivered, None, FamilySet
<1>. QED  BY <1>4, <1>5, <1>6, <1>7

(* set_variant_combinations keeps one entry per program.                   *)
LEMMA KeywordsInv == ASSUME RInv, Keywords PROVE RInv'
<1>. DEFINE P == pending.programs
            new == [prog |-> head.prog, has |-> {"global"}]
            more == [P[Len(P)] EXCEPT !.has = @ \cup {head.tag}]
            Q == WithFamily(P)
<1>1. head # None /\ kind # "idle" /\ head.tag \in FamilySet
  BY ReadIsRecord, FamiliesAre DEF Keywords, FamilySet
<1>2. /\ NextRecord /\ UNCHANGED <<kind, wire, complete, out>>
      /\ pending' = [pending EXCEPT !.programs = Q]
  BY DEF Keywords, Keep
<1>0. /\ Snips(log') = Snips(log)
      /\ head' = None /\ body' = <<>>
      /\ log' \in Seq([head: Frames, body: Seq(Frames)]) /\ log' # <<>>
  BY <1>1, <1>2, NextRecordLog DEF FamilySet
<1>. USE DEF RInv
<1>3. pending \in Contracts /\ ~complete /\ InSequence(head) /\ head \in Frames /\ Single(pending)
  BY <1>1 DEF Admitted, Typed, Assembled
<1>4. P \in Seq(Programs)
  BY <1>3 DEF Contracts
<1>5. head.prog \in SUBSET Nat /\ \E p : head.prog = {p}
  BY <1>1, <1>3, FamiliesAre DEF Frames
<1>6. /\ Q \in Seq(Programs)
      /\ \A i \in DOMAIN Q : \E p : Q[i].prog = {p}
      /\ \A i, j \in DOMAIN Q : Q[i].prog = Q[j].prog => i = j
  <2>0. /\ \A i \in DOMAIN P : \E p : P[i].prog = {p}
        /\ \A i, j \in DOMAIN P : P[i].prog = P[j].prog => i = j
    BY <1>3 DEF Single
  <2>1. CASE head.tag = "global"
    <3>1. Q = Append(P, new) /\ new \in Programs /\ new.prog = head.prog
      BY <1>5, <2>1 DEF Programs, FamilySet, WithFamily
    <3>2. \A i \in DOMAIN P : P[i].prog # head.prog
      BY <1>3, <2>1 DEF InSequence
    <3>. HIDE DEF Q, new, P
    <3>3. /\ Q \in Seq(Programs) /\ DOMAIN P = 1..Len(P) /\ Len(P) \in Nat
          /\ DOMAIN Q = 1..(Len(P) + 1) /\ Q[Len(P) + 1] = new
          /\ \A i \in 1..Len(P) : Q[i] = P[i]
      BY <1>4, <3>1
    <3>4. \A i \in DOMAIN Q : (i \in DOMAIN P /\ Q[i] = P[i]) \/ (i = Len(P) + 1 /\ Q[i] = new)
      BY <3>3
    <3>5. \A i \in DOMAIN Q : \E p : Q[i].prog = {p}
      <4>1. PICK p : head.prog = {p}
        BY <1>5
      <4>2. new.prog = {p}
        BY <3>1, <4>1
      <4>. SUFFICES ASSUME NEW i \in DOMAIN Q PROVE \E x : Q[i].prog = {x}  OBVIOUS
      <4>3. CASE i \in DOMAIN P /\ Q[i] = P[i]
        BY <2>0, <4>3
      <4>4. CASE Q[i] = new
        BY <4>2, <4>4
      <4>. QED  BY <3>4, <4>3, <4>4
    <3>6. \A i, j \in DOMAIN Q : Q[i].prog = Q[j].prog => i = j
      BY <2>0, <3>1, <3>2, <3>4
    <3>. QED  BY <3>3, <3>5, <3>6
  <2>2. CASE head.tag # "global"
    <3>1. P # <<>> /\ head.tag \in FamilySet
      BY <1>1, <1>3, <2>2 DEF InSequence
    <3>2. Len(P) \in Nat /\ DOMAIN P = 1..Len(P) /\ Len(P) \in DOMAIN P
      BY <1>4, <3>1
    <3>3. P[Len(P)] \in Programs
      BY <1>4, <3>2
    <3>4. more \in Programs /\ more.prog = P[Len(P)].prog
      BY <3>1, <3>3 DEF Programs
    <3>5. Q = [P EXCEPT ![Len(P)] = more]
      BY <2>2 DEF WithFamily
    <3>. HIDE DEF Q, more, P
    <3>6. /\ Q \in Seq(Programs) /\ DOMAIN Q = DOMAIN P
          /\ \A i \in DOMAIN P : Q[i] = IF i = Len(P) THEN more ELSE P[i]
      BY <1>4, <3>2, <3>4, <3>5
    <3>7. \A i \in DOMAIN P : Q[i].prog = P[i].prog
      BY <3>4, <3>6
    <3>. QED  BY <2>0, <3>6, <3>7
  <2>. QED  BY <2>1, <2>2
<1>. HIDE DEF Q
<1>7. pending' \in Contracts /\ pending'.programs = Q
  BY <1>2, <1>3, <1>6 DEF Contracts
<1>8. pending' # NoSnippet /\ pending # NoSnippet /\ kind = "preprocess"
  BY <1>1, <1>3, <1>7, ContractIsSnippet DEF Counted
<1>9. Typed'
  BY <1>0, <1>2, <1>7 DEF Typed
<1>10. Assembled'
  <2>1. Single(pending')
    BY <1>6, <1>7 DEF Single
  <2>. QED  BY <1>2, <1>3, <2>1 DEF Assembled, Single
<1>11. Admitted'
  BY <1>0, BetweenRecords
<1>12. Delivered' /\ Counted' /\ AllDelivered'
  BY <1>0, <1>1, <1>2, <1>8 DEF Delivered, Counted, AllDelivered
<1>. QED  BY <1>9, <1>10, <1>11, <1>12

(* The final record delivers the last snippet, or nothing.                 *)
LEMMA FinalInv == ASSUME RInv, Final PROVE RInv'
<1>1. CASE Fail
  BY <1>1, FailInv
<1>2. CASE ~Fail
  <2>. DEFINE good == kind = "preprocess" /\ head.n = 1
              kept == IF good THEN Sealed ELSE <<>>
  <2>1. head # None /\ kind # "idle" /\ head.tag # "snip"
    BY ReadIsRecord DEF Final, FinalTags
  <2>2. /\ NextRecord /\ UNCHANGED wire /\ kind' = "idle" /\ MayEnd
        /\ out' = [out EXCEPT !.status = "answered", !.snippets = kept]
        /\ pending' = NoSnippet /\ ~complete'
    BY <1>2 DEF Final
  <2>0. /\ Snips(log') = Snips(log) /\ Last(log').head = head
        /\ head' = None /\ body' = <<>> /\ head \in Frames
        /\ log' \in Seq([head: Frames, body: Seq(Frames)]) /\ log' # <<>>
    BY <2>1, <2>2, NextRecordLog
  <2>3. good => pending = NoSnippet \/ complete
    BY <2>2 DEF MayEnd
  <2>4. /\ kept \in Seq(Contracts) /\ \A i \in DOMAIN kept : Whole(kept[i])
        /\ good => Len(kept) = Len(out.snippets) + (IF pending = NoSnippet THEN 0 ELSE 1)
        /\ ~good => kept = <<>>
    <3>1. CASE good
      <4>1. kept = Sealed
        BY <3>1
      <4>2. /\ Sealed \in Seq(Contracts) /\ \A i \in DOMAIN Sealed : Whole(Sealed[i])
            /\ Len(Sealed) = Len(out.snippets) + (IF pending = NoSnippet THEN 0 ELSE 1)
        BY <2>3, <3>1, SealedWhole
      <4>. QED  BY <3>1, <4>1, <4>2
    <3>2. CASE ~good
      <4>1. kept = <<>>
        BY <3>2
      <4>. HIDE DEF good, kept
      <4>2. kept \in Seq(Contracts) /\ DOMAIN kept = {}
        BY <4>1
      <4>. QED  BY <3>2, <4>1, <4>2
    <3>. QED  BY <3>1, <3>2
  <2>. HIDE DEF kept
  <2>. USE DEF RInv
  <2>5. out' \in Outs /\ out'.snippets = kept /\ out'.status = "answered"
    BY <2>2, <2>4 DEF Outs, Typed
  <2>6. Typed'
    BY <2>0, <2>2, <2>5 DEF Typed
  <2>7. Assembled' /\ Delivered'
    BY <2>2, <2>4, <2>5 DEF Assembled, Delivered
  <2>8. Admitted'
    BY <2>0, BetweenRecords
  <2>9. Counted'
    BY <2>2 DEF Counted
  <2>10. AllDelivered'
    <3>1. good => Len(kept) = Snips(log)
      BY <2>1, <2>4 DEF Counted
    <3>2. head.n = 1 /\ ~good => Len(kept) = Snips(log)
      BY <2>1, <2>4 DEF Counted
    <3>. QED  BY <2>0, <2>5, <3>1, <3>2 DEF AllDelivered
  <2>. QED  BY <2>6, <2>7, <2>8, <2>9, <2>10
<1>. QED  BY <1>1, <1>2

(* Every step preserves the inductive invariant.                           *)
LEMMA NextRInv == RInv /\ [Next]_vars => RInv'
<1>. SUFFICES ASSUME RInv, [Next]_vars PROVE RInv'  OBVIOUS
<1>1. ASSUME EndOfStream PROVE RInv'
  BY <1>1, FailInv DEF EndOfStream
<1>2. ASSUME Rest \/ UNCHANGED vars PROVE RInv'
  BY <1>2, StutterInv DEF Rest
<1>. QED
  BY <1>1, <1>2, RequestInv, GoWrongInv, ReadHeaderInv, ReadPayloadInv, NoteInv, SnipInv,
     KeywordsInv, KeywordsEndInv, FinalInv DEF Next

(***************************************************************************)
(* Whatever the process sends: the snippets of an accepted preprocess      *)
(* response have each program of their mask exactly once with its three    *)
(* families and no other program, and none of them is lost                 *)
(* (unity_compiler_preprocess_contract_response, seal_pending).            *)
(***************************************************************************)
THEOREM OnlyCompleteContracts == Spec => []ContractsComplete
<1>1. ASSUME RInv PROVE ContractsComplete
  <2>. USE <1>1 DEF RInv
  <2>1. ASSUME out.status = "answered", NEW i \in DOMAIN out.snippets
        PROVE  LET c == out.snippets[i]
               IN /\ UNION {c.programs[j].prog : j \in DOMAIN c.programs} = c.mask
                  /\ Len(c.programs) = Cardinality(c.mask)
                  /\ \A j \in DOMAIN c.programs : c.programs[j].has = ToSet(Families)
    <3>1. out.snippets[i] \in Contracts /\ Whole(out.snippets[i])
      BY DEF Typed, Outs, Delivered
    <3>. QED  BY <3>1, WholeCovers
  <2>. QED  BY <2>1 DEF ContractsComplete, AllDelivered, Snips
<1>2. RInv => ContractsComplete
  BY <1>1
<1>. QED  BY <1>2, InitRInv, NextRInv, PTL DEF Spec
-----------------------------------------------------------------------------
(* What a field of a payload may be.                                       *)
Words == {"string", "name", "number", "pairs"}
(* A plan in which no count of pairs is left.                              *)
NoPairs(p) == \A i \in DOMAIN p : p[i] # "pairs"
(* A plan that ends in a count of pairs.                                   *)
EndsInPairs(p) == p # <<>> /\ p[Len(p)] = "pairs" /\ \A i \in 1..(Len(p) - 1) : p[i] # "pairs"

(* When b frames of the record r are read, the plan p is for the others.   *)
Planned(b, p, r) ==
    \/ NoPairs(p) /\ b + Len(p) = Len(r.body)
    \/ /\ EndsInPairs(p) /\ b + Len(p) <= Len(r.body)
       /\ Len(r.body) = (b + Len(p)) + Len(Repeated(r.body[b + Len(p)].n, <<"name", "number">>))

(* The frames of the response that have been read.                         *)
Position == Starts(sent)[Len(log)] + (IF head = None THEN 0 ELSE 1 + Len(body))

(* The response goes on where the reader stands.                           *)
Remaining ==
    /\ Position + Len(wire) = Len(OnWire(sent))
    /\ \A j \in 1..Len(wire) : wire[j] = OnWire(sent)[Position + j]

(* The records read are the first ones sent.                               *)
ReadSoFar == Len(log) < Len(sent) /\ \A i \in 1..Len(log) : log[i] = sent[i]

(* The record being read is the next one sent.                             *)
InRecord ==
    IF head = None THEN plan = <<>>
    ELSE LET r == sent[Len(log) + 1]
         IN /\ head = r.head /\ Planned(Len(body), plan, r)
            /\ Len(body) <= Len(r.body) /\ \A j \in 1..Len(body) : body[j] = r.body[j]

(* Where the reader is while an honest process answers.                    *)
Underway ==
    honest /\ kind # "idle" =>
        /\ sent \in Responses[kind] /\ sent \in Seq(Records)
        /\ ReadSoFar /\ InRecord /\ Remaining
(* The inductive invariant of alignment.                                   *)
AInv == plan \in Seq(Words) /\ Underway /\ Aligned

(* A count of pairs ends a payload.                                        *)
LEMMA PayloadShape ==
    ASSUME NEW k, NEW f \in Frames
    PROVE  Payload(k, f) \in Seq(Words) /\ (NoPairs(Payload(k, f)) \/ EndsInPairs(Payload(k, f)))
<1>. DEFINE S == {"string", "name", "number"}
            P == Payload(k, f)
<1>0. f.n \in Int
  BY DEF Frames
<1>1. ASSUME NEW p \in Seq(S) PROVE p \in Seq(Words) /\ NoPairs(p)
  BY DEF Words, NoPairs
<1>2. /\ Repeated(f.n, <<"string">>) \in Seq(S)
      /\ Repeated(f.n, <<"name">>) \in Seq(S)
      /\ Repeated(f.n, <<"name", "string">>) \in Seq(S)
  <2>1. <<"string">> \in Seq(S) /\ <<"name">> \in Seq(S) /\ <<"name", "string">> \in Seq(S)
    OBVIOUS
  <2>. HIDE DEF S
  <2>. QED  BY <1>0, <2>1, RepeatedTyped
<1>3. /\ <<"string">> \in Seq(S) /\ <<"string", "string">> \in Seq(S) /\ <<>> \in Seq(S)
      /\ <<"number", "string">> \in Seq(S) /\ <<"name">> \in Seq(S)
      /\ <<"string", "number", "number", "number">> \in Seq(S)
  OBVIOUS
<1>4. ASSUME NEW p, p \in {<<"string", "string", "number", "pairs">>, <<"number", "pairs">>}
      PROVE  p \in Seq(Words) /\ EndsInPairs(p)
  <2>1. CASE p = <<"string", "string", "number", "pairs">>
    BY <2>1 DEF Words, EndsInPairs
  <2>2. CASE p = <<"number", "pairs">>
    BY <2>2 DEF Words, EndsInPairs
  <2>. QED  BY <1>4, <2>1, <2>2
<1>5. Repeated(f.n, <<"name">>) \o <<"string", "number", "number", "number">> \in Seq(S)
  <2>. HIDE DEF S
  <2>. QED  BY <1>2, <1>3
<1>. HIDE DEF S
<1>6. P \in Seq(S) \/ P \in {<<"string", "string", "number", "pairs">>, <<"number", "pairs">>}
  <2>. DEFINE T == Seq(S)
              a1 == Repeated(f.n, <<"string">>)
              a2 == Repeated(f.n, <<"name">>)
              a3 == Repeated(f.n, <<"name", "string">>)
              a4 == a2 \o <<"string", "number", "number", "number">>
  <2>1. a1 \in T /\ a2 \in T /\ a3 \in T /\ a4 \in T
    BY <1>2, <1>5
  <2>2. <<"string">> \in T /\ <<"string", "string">> \in T /\ <<>> \in T
          /\ <<"number", "string">> \in T /\ <<"name">> \in T
    BY <1>3
  <2>3. P \in {a1, a2, a3, a4, <<"string">>, <<"string", "string">>, <<>>, <<"number", "string">>,
               <<"name">>, <<"string", "string", "number", "pairs">>, <<"number", "pairs">>}
    <3>. HIDE DEF a4
    <3>1. a4 = Repeated(f.n, <<"name">>) \o <<"string", "number", "number", "number">>
      BY DEF a4
    <3>. HIDE DEF a1, a2, a3
    <3>. QED  BY <3>1 DEF Payload, ErrorPayload, a1, a2, a3
  <2>. HIDE DEF T, a1, a2, a3, a4
  <2>4. P \in T \/ P \in {<<"string", "string", "number", "pairs">>, <<"number", "pairs">>}
    BY <2>1, <2>2, <2>3
  <2>. QED  BY <2>4 DEF T
<1>. HIDE DEF P
<1>. QED  BY <1>1, <1>4, <1>6 DEF P

(* A failed transaction leaves nothing unread.                             *)
LEMMA FailAligned == ASSUME Fail PROVE AInv'
<1>1. plan' \in Seq(Words)
  BY DEF Fail, Blank
<1>2. kind' = "idle" /\ wire' = <<>> /\ out'.status = "failed"
  BY DEF Fail, Nothing
<1>. QED  BY <1>1, <1>2 DEF AInv, Underway, Aligned

(* Alignment at the beginning.                                             *)
LEMMA InitAligned == Init => AInv
BY DEF Init, AInv, Underway, Aligned, Nothing

(* A request to an intact process finds the stream empty.                  *)
LEMMA RequestAligned ==
    ASSUME RInv, AInv, NEW k \in Kinds, NEW r \in Responses[k], Request(k, r)
    PROVE  AInv'
<1>1. r \in Seq(Records) /\ r # <<>>
  BY FramesAssumption, ResponsesAreFramed
<1>2. OnWire(r) \in Seq(Frames) /\ IsLayout(Starts(r), r)
  BY <1>1, Layout
<1>3. /\ kind = "idle" /\ kind' = k /\ sent' = r /\ head' = None /\ log' = <<>> /\ plan' = <<>>
      /\ body' = <<>> /\ k # "idle" /\ honest' = (honest \/ ~alive)
      /\ wire' = (IF alive THEN wire ELSE <<>>) \o OnWire(r)
  BY DEF Request, Blank, Kinds
<1>4. honest' => wire' = OnWire(r)
  <2>1. honest' => (IF alive THEN wire ELSE <<>>) = <<>>
    BY <1>3 DEF AInv, Aligned
  <2>2. <<>> \o OnWire(r) = OnWire(r)
    BY <1>2
  <2>. QED  BY <1>3, <2>1, <2>2
<1>5. Starts(r)[0] = 0
  BY <1>2 DEF IsLayout
<1>6. Len(log') = 0 /\ Position' = 0 /\ Len(r) > 0
  <2>1. Len(log') = 0 /\ Len(r) > 0
    BY <1>1, <1>3
  <2>. QED  BY <1>3, <1>5, <2>1 DEF Position
<1>7. ReadSoFar' /\ InRecord'
  BY <1>3, <1>6 DEF ReadSoFar, InRecord
<1>8. honest' => Remaining'
  <2>. DEFINE W == OnWire(r)
  <2>1. W \in Seq(Frames) /\ (honest' => wire' = W) /\ Position' = 0 /\ OnWire(sent') = W
    BY <1>2, <1>3, <1>4, <1>6
  <2>. HIDE DEF W
  <2>2. Len(W) \in Nat
    BY <2>1
  <2>3. honest' => /\ Position' + Len(wire') = Len(OnWire(sent'))
                   /\ \A j \in 1..Len(wire') : wire'[j] = OnWire(sent')[Position' + j]
    BY <2>1, <2>2
  <2>. QED  BY <2>3 DEF Remaining
<1>. QED  BY <1>1, <1>3, <1>7, <1>8 DEF AInv, Underway, Aligned

(* A process that goes wrong is no longer honest.                          *)
LEMMA GoWrongAligned == ASSUME AInv, GoWrong PROVE AInv'
BY DEF AInv, Underway, Aligned, GoWrong, reader

(* Stuttering.                                                             *)
LEMMA StutterAligned == ASSUME AInv, UNCHANGED vars PROVE AInv'
BY DEF AInv, Underway, Aligned, vars, reader, ReadSoFar, InRecord, Planned, Remaining,
   Position

(* The place of the next record.                                           *)
LEMMA NextPlace ==
    ASSUME RInv, AInv, honest, kind # "idle"
    PROVE  LET n == Len(log)
               r == sent[n + 1]
               p == Starts(sent)
               W == OnWire(sent)
           IN /\ n \in Nat /\ n + 1 \in 1..Len(sent) /\ n + 1 \in DOMAIN sent /\ Len(sent) \in Nat
              /\ r \in Records /\ r = [head |-> r.head, body |-> r.body]
              /\ r.head \in Frames /\ r.body \in Seq(Frames)
              /\ p[n] \in Nat /\ p[n + 1] = p[n] + 1 + Len(r.body)
              /\ p[Len(sent)] = Len(W)
              /\ W[p[n] + 1] = r.head /\ \A j \in 1..Len(r.body) : W[p[n] + 1 + j] = r.body[j]
              /\ Len(W) \in Nat
              /\ Len(r.body) >= Len(Payload(kind, r.head)) /\ Len(r.body) = Width(kind, r)
              /\ r.head.tag \in FinalTags <=> n + 1 = Len(sent)
              /\ Len(body) \in Nat /\ Len(wire) \in Nat /\ Len(plan) \in Nat
<1>. DEFINE n == Len(log)
            r == sent[n + 1]
            p == Starts(sent)
            W == OnWire(sent)
<1>1. sent \in Responses[kind] /\ sent \in Seq(Records) /\ n < Len(sent) /\ kind \in Kinds
  BY DEF AInv, Underway, ReadSoFar, RInv, Typed
<1>2. n \in Nat /\ Len(body) \in Nat /\ Len(wire) \in Nat /\ Len(plan) \in Nat
  BY DEF RInv, Typed, AInv
<1>3. n + 1 \in 1..Len(sent) /\ n + 1 \in DOMAIN sent /\ Len(sent) \in Nat /\ r \in Records
  <2>1. Len(sent) \in Nat /\ DOMAIN sent = 1..Len(sent)
    BY <1>1
  <2>. HIDE DEF n
  <2>2. n + 1 \in 1..Len(sent)
    BY <1>1, <1>2, <2>1
  <2>3. sent[n + 1] \in Records
    BY <1>1, <2>1, <2>2
  <2>. QED  BY <2>1, <2>2, <2>3
<1>4. r = [head |-> r.head, body |-> r.body] /\ r.head \in Frames /\ r.body \in Seq(Frames)
  <2>. HIDE DEF r
  <2>. QED  BY <1>3 DEF Records
<1>5. W \in Seq(Frames) /\ IsLayout(p, sent)
  BY <1>1, Layout
<1>6. /\ Len(r.body) >= Len(Payload(kind, r.head)) /\ Len(r.body) = Width(kind, r)
      /\ r.head.tag \in FinalTags <=> n + 1 = Len(sent)
  BY <1>1, <1>3, ResponsesAreFramed
<1>. HIDE DEF n
<1>7. /\ p \in [0..Len(sent) -> Nat] /\ p[Len(sent)] = Len(W)
      /\ p[n + 1] = p[(n + 1) - 1] + 1 + Len(r.body)
      /\ W[p[(n + 1) - 1] + 1] = r.head
      /\ \A j \in DOMAIN r.body : W[p[(n + 1) - 1] + 1 + j] = r.body[j]
  BY <1>3, <1>5 DEF IsLayout
<1>8. (n + 1) - 1 = n /\ n \in 0..Len(sent)
  BY <1>1, <1>2, <1>3
<1>9. DOMAIN r.body = 1..Len(r.body) /\ Len(W) \in Nat
  BY <1>4, <1>5
<1>. HIDE DEF r, p, W
<1>10. p[n] \in Nat
  BY <1>7, <1>8
<1>. QED  BY <1>2, <1>3, <1>4, <1>6, <1>7, <1>8, <1>9, <1>10 DEF n, r, p, W

(* When a frame is read the rest stands one further on.                    *)
LEMMA OneFurther ==
    ASSUME NEW S, NEW w \in Seq(S), w # <<>>, NEW W, NEW a \in Nat, NEW L,
           a + Len(w) = L, \A j \in 1..Len(w) : w[j] = W[a + j]
    PROVE  /\ (a + 1) + Len(Tail(w)) = L
           /\ \A j \in 1..Len(Tail(w)) : Tail(w)[j] = W[(a + 1) + j]
<1>1. Len(w) \in Nat /\ Len(w) > 0 /\ Len(Tail(w)) = Len(w) - 1
  OBVIOUS
<1>2. \A j \in 1..(Len(w) - 1) : Tail(w)[j] = w[j + 1]
  OBVIOUS
<1>3. (a + 1) + (Len(w) - 1) = L
  BY <1>1
<1>4. ASSUME NEW j \in 1..(Len(w) - 1) PROVE Tail(w)[j] = W[(a + 1) + j]
  <2>1. j + 1 \in 1..Len(w) /\ a + (j + 1) = (a + 1) + j
    BY <1>1
  <2>2. w[j + 1] = W[a + (j + 1)]
    BY <2>1
  <2>. QED  BY <1>2, <2>1, <2>2
<1>. QED  BY <1>1, <1>3, <1>4

(* The header read is that of the next record.                             *)
LEMMA ReadHeaderAligned == ASSUME RInv, AInv, ReadHeader PROVE AInv'
<1>1. CASE Fail
  BY <1>1, FailAligned
<1>2. CASE ~Fail
  <2>. DEFINE f == Head(wire)
              P == Payload(kind, f)
  <2>1. /\ kind # "idle" /\ head = None /\ wire # <<>>
        /\ head' = f /\ body' = <<>> /\ plan' = P /\ wire' = Tail(wire)
        /\ UNCHANGED <<honest, kind, log, out, sent>>
    BY <1>2 DEF ReadHeader
  <2>2. wire \in Seq(Frames) /\ f \in Frames /\ f = wire[1] /\ Len(wire) \in Nat /\ Len(wire) > 0
    BY <2>1 DEF RInv, Typed
  <2>3. P \in Seq(Words) /\ (NoPairs(P) \/ EndsInPairs(P))
    BY <2>2, PayloadShape
  <2>4. Aligned'
    BY <2>1 DEF Aligned
  <2>5. ASSUME honest PROVE ReadSoFar' /\ InRecord' /\ Remaining'
    <3>. DEFINE n == Len(log)
                r == sent[n + 1]
                p == Starts(sent)
                W == OnWire(sent)
    <3>1. /\ n \in Nat /\ r.body \in Seq(Frames) /\ p[n] \in Nat /\ W[p[n] + 1] = r.head
          /\ Len(W) \in Nat /\ Len(r.body) >= Len(Payload(kind, r.head))
          /\ Len(r.body) = Width(kind, r)
      BY <2>1, <2>5, NextPlace
    <3>2. /\ ReadSoFar /\ Position = p[n] /\ Remaining
      BY <2>1, <2>5, <3>1 DEF AInv, Underway, Position
    <3>3. f = r.head
      <4>1. 1 \in 1..Len(wire)
        BY <2>2
      <4>2. wire[1] = W[p[n] + 1]
        BY <3>2, <4>1 DEF Remaining
      <4>. QED  BY <2>2, <3>1, <4>2
    <3>4. head' # None
      <4>1. f # None
        BY <2>2 DEF Frames, None
      <4>. QED  BY <2>1, <4>1
    <3>5. ReadSoFar'
      BY <2>1, <3>2 DEF ReadSoFar
    <3>6. Planned(0, P, r)
      <4>. HIDE DEF f, r
      <4>1. Len(P) \in Nat
        BY <2>3
      <4>2. CASE NoPairs(P)
        <5>1. ~(P # <<>> /\ Last(P) = "pairs")
          <6>1. P # <<>> => Len(P) \in DOMAIN P
            BY <2>3
          <6>. HIDE DEF P
          <6>. QED  BY <6>1, <4>2 DEF NoPairs, Last
        <5>2. Len(r.body) = Len(P)
          BY <3>1, <3>3, <5>1 DEF Width
        <5>. HIDE DEF P
        <5>. QED  BY <4>1, <4>2, <5>2 DEF Planned
      <4>3. CASE EndsInPairs(P)
        <5>1. P # <<>> /\ Last(P) = "pairs"
          <6>. HIDE DEF P
          <6>. QED  BY <4>3 DEF EndsInPairs, Last
        <5>2. Len(r.body) = Len(P) + Len(Repeated(r.body[Len(P)].n, <<"name", "number">>))
          BY <3>1, <3>3, <5>1 DEF Width
        <5>3. Len(P) <= Len(r.body) /\ 0 + Len(P) = Len(P) /\ Len(r.body) \in Nat
          BY <3>1, <3>3, <4>1
        <5>. HIDE DEF P
        <5>. QED  BY <4>3, <5>2, <5>3 DEF Planned
      <4>. HIDE DEF P
      <4>. QED  BY <2>3, <4>2, <4>3
    <3>7. InRecord'
      <4>1. Len(body') = 0 /\ 0 <= Len(r.body)
        BY <2>1, <3>1
      <4>2. sent'[Len(log') + 1] = r
        BY <2>1
      <4>. HIDE DEF r, P
      <4>3. /\ head' = r.head /\ Planned(Len(body'), plan', r) /\ Len(body') <= Len(r.body)
            /\ \A j \in 1..Len(body') : body'[j] = r.body[j]
        BY <2>1, <3>3, <3>6, <4>1
      <4>. QED  BY <3>4, <4>2, <4>3 DEF InRecord
    <3>8. Remaining'
      <4>1. Position' = p[n] + 1
        BY <2>1, <3>4, <3>1 DEF Position
      <4>3. p[n] + Len(wire) = Len(W) /\ \A j \in 1..Len(wire) : wire[j] = W[p[n] + j]
        BY <3>2 DEF Remaining
      <4>. DEFINE a == p[n]
                  L == Len(W)
      <4>4. a \in Nat /\ a + Len(wire) = L /\ \A j \in 1..Len(wire) : wire[j] = W[a + j]
        BY <3>1, <4>3
      <4>. HIDE DEF W, a, L
      <4>5. /\ (a + 1) + Len(Tail(wire)) = L
            /\ \A j \in 1..Len(Tail(wire)) : Tail(wire)[j] = W[(a + 1) + j]
        BY <2>1, <2>2, <4>4, OneFurther
      <4>6. Position' = a + 1 /\ OnWire(sent') = W /\ wire' = Tail(wire) /\ L = Len(W)
        BY <2>1, <4>1 DEF a, W, L
      <4>. QED  BY <4>5, <4>6 DEF Remaining
    <3>. QED  BY <3>5, <3>7, <3>8
  <2>6. Underway'
    BY <2>1, <2>5 DEF AInv, Underway
  <2>. QED  BY <2>1, <2>3, <2>4, <2>6 DEF AInv
<1>. QED  BY <1>1, <1>2

(* The frame read is the next one of the record.                           *)
LEMMA ReadPayloadAligned == ASSUME RInv, AInv, ReadPayload PROVE AInv'
<1>1. CASE Fail
  BY <1>1, FailAligned
<1>2. CASE ~Fail
  <2>. DEFINE f == Head(wire)
              more == Pairs(Head(plan), f)
  <2>1. /\ kind # "idle" /\ plan # <<>> /\ wire # <<>>
        /\ body' = Append(body, f) /\ plan' = Tail(plan) \o more /\ wire' = Tail(wire)
        /\ UNCHANGED <<honest, kind, head, log, out, sent>>
    BY <1>2 DEF ReadPayload
  <2>2. wire \in Seq(Frames) /\ f \in Frames /\ f = wire[1] /\ Len(wire) \in Nat /\ Len(wire) > 0
    BY <2>1 DEF RInv, Typed
  <2>3. f.n \in Int
    BY <2>2 DEF Frames
  <2>. HIDE DEF f
  <2>. DEFINE S == {"name", "number"}
              rep == Repeated(f.n, <<"name", "number">>)
  <2>4. rep \in Seq(S) /\ rep \in Seq(Words) /\ NoPairs(rep)
    <3>1. <<"name", "number">> \in Seq(S)
      OBVIOUS
    <3>2. rep \in Seq(S)
      <4>. HIDE DEF S
      <4>. QED  BY <2>3, <3>1, RepeatedTyped
    <3>. HIDE DEF rep
    <3>. QED  BY <3>2 DEF Words, NoPairs
  <2>5. /\ plan \in Seq(Words) /\ Len(plan) \in Nat /\ Len(plan) > 0 /\ Head(plan) = plan[1]
        /\ Tail(plan) \in Seq(Words) /\ Len(Tail(plan)) = Len(plan) - 1
        /\ \A i \in 1..(Len(plan) - 1) : Tail(plan)[i] = plan[i + 1]
    BY <2>1 DEF AInv
  <2>6. more = IF plan[1] = "pairs" THEN rep ELSE <<>>
    BY <2>5 DEF Pairs
  <2>. HIDE DEF more, rep
  <2>7. plan[1] # "pairs" => plan' = Tail(plan)
    BY <2>1, <2>5, <2>6
  <2>8. plan' \in Seq(Words)
    <3>1. more \in Seq(Words)
      BY <2>4, <2>6
    <3>. QED  BY <2>1, <2>5, <3>1
  <2>9. Aligned'
    BY <2>1 DEF Aligned
  <2>10. ASSUME honest PROVE ReadSoFar' /\ InRecord' /\ Remaining'
    <3>. DEFINE n == Len(log)
                r == sent[n + 1]
                p == Starts(sent)
                W == OnWire(sent)
                b == Len(body)
    <3>1. /\ n \in Nat /\ r.body \in Seq(Frames) /\ p[n] \in Nat
          /\ \A j \in 1..Len(r.body) : W[p[n] + 1 + j] = r.body[j]
          /\ Len(W) \in Nat /\ b \in Nat
      BY <2>1, <2>10, NextPlace
    <3>2. ReadSoFar /\ InRecord /\ Remaining
      BY <2>1, <2>10 DEF AInv, Underway
    <3>3. /\ head # None /\ head = r.head /\ Planned(b, plan, r) /\ b <= Len(r.body)
          /\ \A j \in 1..b : body[j] = r.body[j]
      BY <2>1, <3>2 DEF InRecord
    <3>4. Position = p[n] + (1 + b)
      BY <3>3 DEF Position
    <3>. HIDE DEF n, r, p, W
    <3>5. b < Len(r.body)
      <4>1. b + Len(plan) <= Len(r.body) /\ Len(r.body) \in Nat
        BY <2>5, <3>1, <3>3 DEF Planned
      <4>. HIDE DEF b
      <4>. QED  BY <2>5, <3>1, <4>1
    <3>6. f = r.body[b + 1]
      <4>1. 1 \in 1..Len(wire) /\ b + 1 \in 1..Len(r.body)
        BY <2>2, <3>1, <3>5
      <4>2. wire[1] = W[Position + 1]
        BY <3>2, <4>1 DEF Remaining, W
      <4>3. Position + 1 = p[n] + 1 + (b + 1)
        BY <3>1, <3>4
      <4>. QED  BY <2>2, <3>1, <4>1, <4>2, <4>3
    <3>7. Len(body') = b + 1 /\ \A j \in 1..(b + 1) : body'[j] = r.body[j]
      <4>1. body \in Seq(Frames)
        BY DEF RInv, Typed
      <4>2. /\ Len(body') = b + 1 /\ body'[b + 1] = f
            /\ \A j \in 1..b : body'[j] = body[j]
        BY <2>1, <2>2, <4>1
      <4>. HIDE DEF b
      <4>. QED  BY <3>1, <3>3, <3>6, <4>2
    <3>8. Planned(b + 1, plan', r)
      <4>. HIDE DEF b
      <4>0. Len(r.body) \in Nat /\ Len(rep) \in Nat
        BY <2>4, <3>1
      <4>1. CASE NoPairs(plan) /\ b + Len(plan) = Len(r.body)
        <5>1. plan[1] # "pairs"
          BY <2>5, <4>1 DEF NoPairs
        <5>2. NoPairs(Tail(plan)) /\ (b + 1) + Len(Tail(plan)) = Len(r.body)
          <6>1. DOMAIN Tail(plan) = 1..(Len(plan) - 1) /\ DOMAIN plan = 1..Len(plan)
            BY <2>5
          <6>2. NoPairs(Tail(plan))
            BY <2>5, <4>1, <6>1 DEF NoPairs
          <6>. QED  BY <2>5, <3>1, <4>1, <6>2
        <5>. QED  BY <2>7, <5>1, <5>2 DEF Planned
      <4>2. CASE EndsInPairs(plan) /\ Len(plan) = 1
        <5>1. plan[1] = "pairs" /\ Tail(plan) = <<>>
          <6>1. plan[1] = "pairs"
            <7>1. plan[Len(plan)] = "pairs" /\ Len(plan) = 1
              BY <4>2 DEF EndsInPairs
            <7>. QED  BY ONLY <7>1
          <6>2. Len(Tail(plan)) = 0
            BY <2>5, <4>2
          <6>3. Tail(plan) = <<>>
            <7>1. ASSUME NEW t \in Seq(Words), Len(t) = 0 PROVE t = <<>>
              BY <7>1
            <7>. QED  BY <2>5, <6>2, <7>1
          <6>. QED  BY <6>1, <6>3
        <5>2. plan' = rep
          <6>1. <<>> \o rep = rep
            BY <2>4
          <6>. QED  BY <2>1, <2>6, <5>1, <6>1
        <5>3. ~NoPairs(plan)
          BY <2>5, <5>1 DEF NoPairs
        <5>4. Len(r.body) = (b + 1) + Len(rep)
          BY <3>3, <3>6, <4>2, <5>3 DEF Planned, rep
        <5>. QED  BY <2>4, <5>2, <5>4 DEF Planned
      <4>3. CASE EndsInPairs(plan) /\ Len(plan) # 1
        <5>. DEFINE t == Tail(plan)
        <5>1. plan[1] # "pairs" /\ ~NoPairs(plan)
          <6>1. 1 \in 1..(Len(plan) - 1) /\ Len(plan) \in DOMAIN plan
            BY <2>5, <4>3
          <6>. QED  BY <4>3, <6>1 DEF EndsInPairs, NoPairs
        <5>2. plan' = t /\ Len(t) = Len(plan) - 1 /\ (b + 1) + Len(t) = b + Len(plan)
          BY <2>5, <2>7, <3>1, <5>1
        <5>3. EndsInPairs(t)
          <6>1. Len(t) >= 1 /\ t[Len(t)] = plan[Len(plan)]
            BY <2>5, <4>3
          <6>2. t # <<>> /\ t[Len(t)] = "pairs"
            <7>. HIDE DEF t
            <7>1. t = <<>> => Len(t) = 0
              OBVIOUS
            <7>. QED  BY <4>3, <6>1, <7>1 DEF EndsInPairs
          <6>3. ASSUME NEW i \in 1..(Len(t) - 1) PROVE t[i] # "pairs"
            <7>1. i \in 1..(Len(plan) - 1) /\ i + 1 \in 1..(Len(plan) - 1)
              BY <2>5, <5>2
            <7>. QED  BY <2>5, <4>3, <7>1 DEF EndsInPairs
          <6>. QED  BY <6>2, <6>3 DEF EndsInPairs
        <5>. HIDE DEF t
        <5>4. /\ b + Len(plan) <= Len(r.body)
              /\ Len(r.body) = (b + Len(plan))
                    + Len(Repeated(r.body[b + Len(plan)].n, <<"name", "number">>))
          BY <3>3, <5>1 DEF Planned
        <5>. QED  BY <5>2, <5>3, <5>4 DEF Planned
      <4>. QED  BY <3>3, <4>1, <4>2, <4>3 DEF Planned
    <3>9. ReadSoFar'
      BY <2>1, <3>2 DEF ReadSoFar
    <3>10. InRecord'
      <4>1. head' # None /\ head' = r.head /\ b + 1 <= Len(r.body)
        BY <2>1, <3>1, <3>3, <3>5
      <4>. HIDE DEF b
      <4>3. /\ Len(body') <= Len(r.body)
            /\ \A j \in 1..Len(body') : body'[j] = r.body[j]
        BY <3>7, <4>1
      <4>4. sent'[Len(log') + 1] = r
        BY <2>1 DEF r, n
      <4>. HIDE DEF r
      <4>. QED  BY <3>7, <3>8, <4>1, <4>3, <4>4 DEF InRecord
    <3>11. Remaining'
      <4>1. Position' = p[n] + (1 + (b + 1))
        BY <2>1, <3>3, <3>7 DEF Position, p, n
      <4>. DEFINE a == p[n] + (1 + b)
                  L == Len(W)
      <4>2. a \in Nat /\ p[n] + (1 + (b + 1)) = a + 1
        BY <3>1
      <4>3. Position = a /\ L = Len(OnWire(sent)) /\ W = OnWire(sent)
        BY <3>4 DEF W
      <4>. HIDE DEF W, a, L, b
      <4>4. a + Len(wire) = L /\ \A j \in 1..Len(wire) : wire[j] = W[a + j]
        BY <3>2, <4>3 DEF Remaining
      <4>5. /\ (a + 1) + Len(Tail(wire)) = L
            /\ \A j \in 1..Len(Tail(wire)) : Tail(wire)[j] = W[(a + 1) + j]
        BY <2>1, <2>2, <4>2, <4>4, OneFurther
      <4>6. Position' = a + 1 /\ OnWire(sent') = W /\ wire' = Tail(wire) /\ L = Len(W)
        BY <2>1, <4>1, <4>2, <4>3
      <4>. QED  BY <4>5, <4>6 DEF Remaining
    <3>. QED  BY <3>9, <3>10, <3>11
  <2>11. Underway'
    BY <2>1, <2>10 DEF AInv, Underway
  <2>. QED  BY <2>1, <2>8, <2>9, <2>11 DEF AInv
<1>. QED  BY <1>1, <1>2

(* A record that was read is the one that was sent.                        *)
LEMMA RecordIsSent ==
    ASSUME RInv, AInv, honest, kind # "idle", head # None, plan = <<>>, NextRecord
    PROVE  LET n == Len(log)
           IN /\ log' \in Seq(Records) /\ Len(log') = n + 1
              /\ \A i \in 1..(n + 1) : log'[i] = sent[i]
              /\ head = sent[n + 1].head
              /\ Starts(sent)[n + 1] + Len(wire) = Len(OnWire(sent))
              /\ \A j \in 1..Len(wire) : wire[j] = OnWire(sent)[Starts(sent)[n + 1] + j]
<1>. DEFINE n == Len(log)
            r == sent[n + 1]
            p == Starts(sent)
            W == OnWire(sent)
<1>1. /\ n \in Nat /\ r \in Records /\ r = [head |-> r.head, body |-> r.body]
      /\ r.body \in Seq(Frames)
      /\ p[n] \in Nat /\ p[n + 1] = p[n] + 1 + Len(r.body)
  BY NextPlace
<1>2. ReadSoFar /\ InRecord /\ Remaining
  BY DEF AInv, Underway
<1>3. /\ head = r.head /\ Planned(Len(body), plan, r)
      /\ \A j \in 1..Len(body) : body[j] = r.body[j]
  BY <1>2 DEF InRecord
<1>4. Position = p[n] + (1 + Len(body))
  BY DEF Position
<1>5. body \in Seq(Frames) /\ Len(body) \in Nat /\ log \in Seq(Records)
  BY DEF RInv, Typed, Records
<1>. HIDE DEF r
<1>6. Len(body) = Len(r.body)
  <2>1. Len(plan) = 0 /\ ~EndsInPairs(plan)
    BY DEF EndsInPairs
  <2>. QED  BY <1>3, <1>5, <2>1 DEF Planned
<1>7. body = r.body
  <2>1. ASSUME NEW s \in Seq(Frames), NEW t \in Seq(Frames), Len(s) = Len(t),
               \A j \in 1..Len(s) : s[j] = t[j]
        PROVE  s = t
    BY <2>1
  <2>. QED  BY <1>1, <1>3, <1>5, <1>6, <2>1
<1>8. Record(head, body) = r
  BY <1>1, <1>3, <1>7 DEF Record
<1>9. log' = Append(log, r)
  BY <1>8 DEF NextRecord
<1>10. /\ log' \in Seq(Records) /\ Len(log') = n + 1 /\ log'[n + 1] = r
       /\ \A i \in 1..n : log'[i] = log[i]
  BY <1>1, <1>5, <1>9
<1>11. \A i \in 1..(n + 1) : log'[i] = sent[i]
  <2>1. \A i \in 1..n : log[i] = sent[i]
    BY <1>2 DEF ReadSoFar
  <2>. HIDE DEF n
  <2>2. \A i \in 1..(n + 1) : i \in 1..n \/ i = n + 1
    BY <1>1
  <2>. QED  BY <1>10, <2>1, <2>2 DEF r
<1>12. Position = p[n + 1]
  BY <1>1, <1>4, <1>6
<1>13. p[n + 1] + Len(wire) = Len(W) /\ \A j \in 1..Len(wire) : wire[j] = W[p[n + 1] + j]
  BY <1>2, <1>12 DEF Remaining
<1>. QED  BY <1>3, <1>10, <1>11, <1>13 DEF r

(* Between the records of a response.                                      *)
LEMMA NextRecordAligned ==
    ASSUME RInv, AInv, kind # "idle", head # None, plan = <<>>, NextRecord,
           head.tag \notin FinalTags, UNCHANGED <<honest, kind, sent, wire>>
    PROVE  AInv'
<1>1. head' = None /\ plan' = <<>>
  BY DEF NextRecord
<1>2. ASSUME honest PROVE ReadSoFar' /\ InRecord' /\ Remaining'
  <2>. DEFINE n == Len(log)
  <2>1. /\ n \in Nat /\ n + 1 \in 1..Len(sent) /\ Len(sent) \in Nat
        /\ sent[n + 1].head.tag \in FinalTags <=> n + 1 = Len(sent)
        /\ Starts(sent)[n + 1] \in Nat
    <3>1. Starts(sent)[n] \in Nat /\ sent[n + 1].body \in Seq(Frames)
            /\ Starts(sent)[n + 1] = Starts(sent)[n] + 1 + Len(sent[n + 1].body)
      BY <1>2, NextPlace
    <3>2. Starts(sent)[n + 1] \in Nat
      <4>1. Len(sent[n + 1].body) \in Nat
        BY <3>1
      <4>. QED  BY <3>1, <4>1
    <3>. QED  BY <1>2, <3>2, NextPlace
  <2>2. /\ Len(log') = n + 1 /\ \A i \in 1..(n + 1) : log'[i] = sent[i]
        /\ head = sent[n + 1].head
        /\ Starts(sent)[n + 1] + Len(wire) = Len(OnWire(sent))
        /\ \A j \in 1..Len(wire) : wire[j] = OnWire(sent)[Starts(sent)[n + 1] + j]
    BY <1>2, RecordIsSent
  <2>. HIDE DEF n
  <2>3. n + 1 < Len(sent)
    BY <2>1, <2>2
  <2>4. ReadSoFar' /\ InRecord'
    BY <1>1, <2>2, <2>3 DEF ReadSoFar, InRecord
  <2>5. Position' = Starts(sent)[n + 1]
    BY <1>1, <2>1, <2>2 DEF Position
  <2>6. Remaining'
    BY <2>2, <2>5 DEF Remaining
  <2>. QED  BY <2>4, <2>6
<1>3. plan' \in Seq(Words)
  BY <1>1
<1>. QED  BY <1>2, <1>3 DEF AInv, Underway, Aligned

(* The final record is the last one, and nothing follows it.               *)
LEMMA FinalAligned == ASSUME RInv, AInv, Final PROVE AInv'
<1>1. CASE Fail
  BY <1>1, FailAligned
<1>2. CASE ~Fail
  <2>1. head # None /\ kind # "idle" /\ head.tag \in FinalTags /\ plan = <<>>
    <3>1. "none" \notin FinalTags
      BY DEF FinalTags
    <3>. QED  BY <3>1 DEF Final, RecordRead, None
  <2>2. NextRecord /\ UNCHANGED <<wire, honest, sent>> /\ kind' = "idle" /\ plan' = <<>>
    BY <1>2 DEF Final, NextRecord
  <2>3. ASSUME honest PROVE wire' = <<>> /\ log' = sent
    <3>. DEFINE n == Len(log)
    <3>1. /\ n \in Nat /\ n + 1 \in 1..Len(sent) /\ Len(sent) \in Nat
          /\ sent[n + 1].head.tag \in FinalTags <=> n + 1 = Len(sent)
          /\ Starts(sent)[Len(sent)] = Len(OnWire(sent)) /\ Len(OnWire(sent)) \in Nat
      BY <2>1, <2>3, NextPlace
    <3>2. /\ log' \in Seq(Records) /\ Len(log') = n + 1 /\ \A i \in 1..(n + 1) : log'[i] = sent[i]
          /\ head = sent[n + 1].head
          /\ Starts(sent)[n + 1] + Len(wire) = Len(OnWire(sent))
      BY <2>1, <2>2, <2>3, RecordIsSent
    <3>. HIDE DEF n
    <3>3. n + 1 = Len(sent)
      BY <2>1, <3>1, <3>2
    <3>4. sent \in Seq(Records) /\ wire \in Seq(Frames)
      BY <2>1, <2>3 DEF AInv, Underway, RInv, Typed
    <3>5. log' = sent
      BY <3>2, <3>3, <3>4
    <3>6. Len(wire) = 0
      <4>1. Len(wire) \in Nat
        BY <3>4
      <4>. QED  BY <3>1, <3>2, <3>3, <4>1
    <3>. QED  BY <2>2, <3>4, <3>5, <3>6
  <2>. QED  BY <2>2, <2>3 DEF AInv, Underway, Aligned
<1>. QED  BY <1>1, <1>2

(* The steps that end a record and not the response.                       *)
LEMMA RecordsAligned ==
    ASSUME RInv, AInv,
           Snip \/ Keywords \/ KeywordsEnd \/ Paths \/ Note \/ ComputeKeywords \/ Kernel
             \/ Requirements
    PROVE  AInv'
<1>. DEFINE Tags == {"snip", "end", "err", "reflection", "computeGlobal", "computeLocal",
                     "kernel", "requirements"} \cup FamilySet \cup PathTags
<1>1. CASE Fail
  BY <1>1, FailAligned
<1>2. CASE ~Fail
  <2>1. \E tags \in SUBSET Tags : RecordRead(tags)
    BY FamiliesAre DEF Snip, Keywords, KeywordsEnd, Paths, Note, ComputeKeywords, Kernel,
       Requirements
  <2>2. /\ kind # "idle" /\ head.tag \in Tags /\ plan = <<>>
    BY <2>1 DEF RecordRead
  <2>3. head # None /\ head.tag \notin FinalTags
    BY <2>2 DEF None, FinalTags, FamilySet, PathTags
  <2>4. NextRecord /\ UNCHANGED <<honest, kind, sent, wire>>
    BY <1>2 DEF Snip, Keywords, KeywordsEnd, Paths, Note, ComputeKeywords, Kernel,
       Requirements, Keep
  <2>. QED  BY <2>2, <2>3, <2>4, NextRecordAligned
<1>. QED  BY <1>1, <1>2

(* Every step keeps the reader in its place.                               *)
LEMMA NextAligned == ASSUME RInv, AInv, [Next]_vars PROVE AInv'
<1>1. ASSUME EndOfStream PROVE AInv'
  BY <1>1, FailAligned DEF EndOfStream
<1>2. ASSUME Rest \/ UNCHANGED vars PROVE AInv'
  BY <1>2, StutterAligned DEF Rest
<1>. QED
  BY <1>1, <1>2, RequestAligned, GoWrongAligned, ReadHeaderAligned, ReadPayloadAligned,
     FinalAligned, RecordsAligned DEF Next

(***************************************************************************)
(* For any framed responses, limits and number of requests, and whatever a *)
(* process may do wrong later: a response that an intact process sent is   *)
(* split into its records and consumed to the last frame, or the process   *)
(* is given up and the stream with it, so that no reader begins inside the *)
(* response of another request (the loops of unity_compiler_client.c and   *)
(* fail_compiler_transaction).                                             *)
(***************************************************************************)
THEOREM ReadersStayAligned == Spec => []Aligned
<1>1. Init => RInv /\ AInv
  BY InitRInv, InitAligned
<1>2. RInv /\ AInv /\ [Next]_vars => RInv' /\ AInv'
  BY NextRInv, NextAligned
<1>3. AInv => Aligned
  BY DEF AInv
<1>. QED  BY <1>1, <1>2, <1>3, PTL DEF Spec
=============================================================================

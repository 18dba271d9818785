------------------------- MODULE ShaderOutputProofs -------------------------
(***************************************************************************)
(* Theorems about what becomes of a reconstructed shader: the lifts of its *)
(* code, for any program, answers of the compiler and interruptions, and   *)
(* the batch that stages and publishes it, for any catalog, selection,     *)
(* options and retained snapshots, any number of edits and foreign files.  *)
(*                                                                         *)
(* The batch: a source is visited once, for its first selected record      *)
(* (First), so no result of it is older than the visit (Outcome) and a     *)
(* failed close revokes nothing that was published.  What is staged was    *)
(* read no later than the check of the closing source, so it has the       *)
(* catalogued version unless the check is deferred (Staging).  Files only  *)
(* appear, so what was published or found stays (Publishing), and a file   *)
(* that is created was missing when it was examined, which is what the     *)
(* ledger of residues rests on (Reported).                                 *)
(*                                                                         *)
(* The lifts: the call in progress carries the candidate of the program    *)
(* that is accepted (InHand), and replaying the edits a lift reports gives *)
(* the program it made (ReplayCopy, ReplayResult), so the journal stays a  *)
(* chain from the baseline (Chained).  A lift drops the writes of one      *)
(* instruction w.  Step by step the two programs agree on every lane but   *)
(* those that w wrote last (Agree); an operand that reads such a lane was  *)
(* rewritten to read what w read, which nobody has written since, because  *)
(* the context names the last writer of each lane (IsContext).  At the end *)
(* the outputs agree (Agreement), as a lane of w is never an output.       *)
(***************************************************************************)
EXTENDS ShaderBatch, LiftTransaction, SequenceTheorems, FiniteSetTheorems,
    WellFoundedInduction, TLAPS

(* The statuses of a record.                                               *)
Statuses == {"unselected", "unavailable", "failed", "pending"} \cup Successes

(* The types the argument needs.                                           *)
Typed ==
    /\ opts \in [meta: BOOLEAN, flat: BOOLEAN, defer: BOOLEAN, candidate: BOOLEAN]
    /\ sel \subseteq Records
    /\ cat \in [Records -> {"ready", "unavailable", "notReady"}]
    /\ version \in [Paths -> Nat]
    /\ snap \in [Paths -> {"open", "closed", "none"}]
    /\ pc \in {"scan", "visit", "commit", "publish", "done"}
    /\ cursor \in Nat \ {0}
    /\ closeDeferred \in BOOLEAN
    /\ status \in [Records -> Statuses]
    /\ authorized \in [Records -> BOOLEAN]
    /\ deferred \in [Records -> BOOLEAN]
    /\ DOMAIN disk = Files
    /\ DOMAIN wrote = Records
    /\ DOMAIN residue = Records

(* FileOf, Publication, PathsOf and Required as functions of the options.  *)
FileIn(o, r, m) ==
    <<Name[r],
      IF o.flat /\ Class[r] = "graphics" /\ ~Disambiguate(r) THEN NoSuffix ELSE Identity[r], m>>
BaseIn(o, r) ==
    IF Class[r] = "graphics"
    THEN IF o.meta THEN <<"meta", "shader">> ELSE <<"shader">>
    ELSE <<"binary", "manifest">>
PartsIn(o, s) ==
    IF Class[s.rec] # "graphics" /\ s.generated
    THEN <<"binary", "manifest", "source", "evidence">> ELSE BaseIn(o, s.rec)
Way(o, s) == [i \in DOMAIN PartsIn(o, s) |-> FileIn(o, s.rec, PartsIn(o, s)[i])]
Needs(o, r) == {FileIn(o, r, BaseIn(o, r)[i]) : i \in DOMAIN BaseIn(o, r)}

(* A staged publication.                                                   *)
Stagings == [rec: Records, ver: Nat, generated: BOOLEAN]

(* A source is being visited or its publications committed.                *)
InPath == pc \in {"visit", "commit", "publish"}

(* The path at hand is visited for the first time.                         *)
First ==
    InPath =>
        /\ cursor \in Records /\ cursor \in sel /\ cat[cursor] = "ready"
        /\ \A j \in 1..(cursor - 1) :
             ~(j \in sel /\ cat[j] = "ready" /\ Outer[j] = Outer[cursor])

(* The source of record r has been closed.                                 *)
Visited(r) ==
    \E j \in sel :
        /\ cat[j] = "ready" /\ Outer[j] = Outer[r] /\ j <= cursor
        /\ j = cursor => pc \in {"commit", "publish"}

(* Only pending records of closed sources get results.                     *)
Outcome ==
    \A r \in Records :
        /\ r \in sel <=> status[r] # "unselected"
        /\ status[r] = "pending" => cat[r] = "ready"
        /\ status[r] \in Successes \/ authorized[r] \/ deferred[r] \/ wrote[r] # {} => r \in sel /\ Visited(r)

(* What is staged is of the path at hand and of a version no later than    *)
(* the source's.                                                           *)
Staging ==
    /\ staged \in Seq(Stagings)
    /\ \A i \in DOMAIN staged :
         /\ InPath /\ staged[i].rec \in sel /\ Outer[staged[i].rec] = Outer[cursor]
         /\ pc = "visit" =>
              /\ staged[i].ver <= version[Outer[cursor]]
              /\ snap[Outer[cursor]] # "open" => staged[i].ver = 0
         /\ pc # "visit" /\ ~closeDeferred => staged[i].ver = 0
    /\ pc = "visit" =>
         /\ snap[Outer[cursor]] = "open" => opened = 0
         /\ \A m \in todo : \E q \in Records : Member[q] = m /\ Outer[q] = Outer[cursor]
    /\ pc \in {"commit", "publish"} => (closeDeferred <=> snap[Outer[cursor]] = "open")

(* The publication under way.                                              *)
Publishing ==
    pc = "publish" =>
        /\ staged # <<>>
        /\ status[Head(staged).rec] = "pending" /\ deferred[Head(staged).rec] = closeDeferred
        /\ DOMAIN pre = DOMAIN Way(opts, Head(staged))
        /\ \A i \in DOMAIN pre :
             /\ pre[i] \in {"missing", "unchanged"}
             /\ pre[i] = "unchanged" => disk[Way(opts, Head(staged))[i]] # NotThere
        /\ pub \in Seq(Successes) /\ Len(pub) < Len(Way(opts, Head(staged)))
        /\ \A i \in DOMAIN pub : disk[Way(opts, Head(staged))[i]] = Bytes(Head(staged))
        /\ \A g \in wrote[Head(staged).rec] :
             \E i \in DOMAIN pub : pub[i] = "emitted" /\ g = Way(opts, Head(staged))[i]

(* A file this run created is of a success, of the residue of a failure,   *)
(* or of the publication under way.                                        *)
Reported ==
    \A r \in Records : wrote[r] # {} =>
        \/ status[r] \in Successes
        \/ status[r] = "failed" /\ wrote[r] \subseteq residue[r]
        \/ pc = "publish" /\ Head(staged).rec = r

(* AuthorizedIsExact, with Needs for Required.                             *)
Exact ==
    \A r \in Records :
        /\ status[r] \in Successes => authorized[r] \/ deferred[r]
        /\ authorized[r] =>
              /\ status[r] \in Successes /\ ~deferred[r] /\ snap[Outer[r]] # "open"
              /\ \A f \in Needs(opts, r) : disk[f] = Built(r, 0)
        /\ deferred[r] => snap[Outer[r]] = "open"

(* The inductive invariant.                                                *)
IInv == Typed /\ First /\ Outcome /\ Staging /\ Publishing /\ Reported /\ Exact

-----------------------------------------------------------------------------
(* Records are positive numbers, and no publication has the content of a   *)
(* missing file.                                                           *)
LEMMA Facts ==
    /\ Records \subseteq Nat \ {0}
    /\ \A r \in Records : Outer[r] \in Paths /\ Member[r] \in Members
    /\ \A r, v : Built(r, v) # NotThere
  BY BatchAssumption DEF Records, Paths, Members, Built, NotThere

(* Every publication has a first file, and parts of its class only.        *)
LEMMA BaseShape ==
    ASSUME NEW o, NEW r \in Records
    PROVE /\ BaseIn(o, r) \in Seq(Parts(r))
          /\ DOMAIN BaseIn(o, r) = 1..Len(BaseIn(o, r))
          /\ Len(BaseIn(o, r)) \in Nat \ {0}
<1>1. CASE Class[r] = "graphics" /\ o.meta
  BY <1>1 DEF BaseIn, Parts
<1>2. CASE Class[r] = "graphics" /\ ~o.meta
  BY <1>2 DEF BaseIn, Parts
<1>3. CASE Class[r] # "graphics"
  BY <1>3 DEF BaseIn, Parts
<1> QED  BY <1>1, <1>2, <1>3

(* A publication begins with the files every publication of the record     *)
(* has.                                                                    *)
LEMMA PartsShape ==
    ASSUME NEW o, NEW s \in Stagings
    PROVE /\ PartsIn(o, s) \in Seq(Parts(s.rec))
          /\ DOMAIN PartsIn(o, s) = 1..Len(PartsIn(o, s))
          /\ Len(PartsIn(o, s)) \in Nat \ {0}
          /\ \A i \in DOMAIN BaseIn(o, s.rec) :
                 i \in DOMAIN PartsIn(o, s) /\ BaseIn(o, s.rec)[i] = PartsIn(o, s)[i]
<1>0. s.rec \in Records
  BY DEF Stagings
<1>1. CASE Class[s.rec] # "graphics" /\ s.generated
  <2>1. PartsIn(o, s) = <<"binary", "manifest", "source", "evidence">>
    BY <1>1 DEF PartsIn
  <2>2. BaseIn(o, s.rec) = <<"binary", "manifest">>
    BY <1>1 DEF BaseIn
  <2>3. Parts(s.rec) = {"binary", "manifest", "source", "evidence"}
    BY <1>1 DEF Parts
  <2> QED  BY <2>1, <2>2, <2>3
<1>2. CASE ~(Class[s.rec] # "graphics" /\ s.generated)
  <2>1. PartsIn(o, s) = BaseIn(o, s.rec)
    BY <1>2 DEF PartsIn
  <2> QED  BY <1>0, <2>1, BaseShape
<1> QED  BY <1>1, <1>2

(* Two pairs in a row.                                                     *)
LEMMA TwoAndTwo ==
    ASSUME NEW S, NEW a \in Seq(S), NEW b \in Seq(S), NEW c \in Seq(S),
           Len(a) = 2, Len(b) = 2, Len(c) = 4,
           a[1] = c[1], a[2] = c[2], b[1] = c[3], b[2] = c[4]
    PROVE a \o b = c
<1> DEFINE d == a \o b
<1>0. d \in Seq(S) /\ Len(d) = Len(a) + Len(b)
  BY ConcatProperties, Zenon
<1>1. Len(d) = 4
  BY <1>0
<1>2. \A i \in 1..Len(a) + Len(b) : d[i] = IF i <= Len(a) THEN a[i] ELSE b[i - Len(a)]
  BY ConcatProperties
<1> HIDE DEF d
<1>3. \A i \in 1..4 : d[i] = c[i]
  BY <1>2
<1>4. d = c
  BY <1>0, <1>1, <1>3
<1> QED  BY <1>4 DEF d

(* The paths of a publication depend on the options only.                  *)
LEMMA SamePaths ==
    ASSUME NEW s \in Stagings
    PROVE PathsOf(s) = Way(opts, s)
<1> DEFINE a == <<"binary", "manifest">>
           b == <<"source", "evidence">>
           c == <<"binary", "manifest", "source", "evidence">>
           S == {"binary", "manifest", "source", "evidence"}
<1>1. a \in Seq(S) /\ b \in Seq(S) /\ c \in Seq(S) /\ Len(a) = 2 /\ Len(b) = 2 /\ Len(c) = 4
  OBVIOUS
<1>2. a[1] = c[1] /\ a[2] = c[2] /\ b[1] = c[3] /\ b[2] = c[4]
  OBVIOUS
<1>3. a \o b = c
  <2> HIDE DEF a, b, c, S
  <2> QED  BY <1>1, <1>2, TwoAndTwo
<1>4. a \o << >> = a
  OBVIOUS
<1>5. PartsOf(s) = PartsIn(opts, s)
  BY <1>3, <1>4 DEF PartsOf, Publication, PartsIn, BaseIn
<1> QED  BY <1>5 DEF PathsOf, Way, FileOf, FileIn

(* So do the files a success needs.                                        *)
LEMMA SameNeeds == ASSUME NEW r \in Records PROVE Required(r) = Needs(opts, r)
<1>1. <<"binary", "manifest">> \o << >> = <<"binary", "manifest">>
  OBVIOUS
<1>2. Publication(r, FALSE) = BaseIn(opts, r)
  BY <1>1 DEF Publication, BaseIn
<1> QED  BY <1>2 DEF Required, Needs, FileOf, FileIn, Range

(* The path of a part is one of the output files.                          *)
LEMMA FilesExist ==
    ASSUME NEW o, NEW r \in Records, NEW m \in Parts(r) PROVE FileIn(o, r, m) \in Files
  BY DEF FileIn, Files

(* The paths of a publication are output files, and those a success needs  *)
(* are among them.                                                         *)
LEMMA WayShape ==
    ASSUME NEW o, NEW s \in Stagings
    PROVE /\ Way(o, s) \in Seq(Files) /\ Len(Way(o, s)) \in Nat \ {0}
          /\ DOMAIN Way(o, s) = 1..Len(Way(o, s))
          /\ \A f \in Needs(o, s.rec) : \E i \in DOMAIN Way(o, s) : f = Way(o, s)[i]
<1> DEFINE P == PartsIn(o, s)
<1>0. s.rec \in Records
  BY DEF Stagings
<1>1. P \in Seq(Parts(s.rec)) /\ Len(P) \in Nat \ {0} /\ DOMAIN P = 1..Len(P)
  BY PartsShape
<1>2. Way(o, s) = [i \in 1..Len(P) |-> FileIn(o, s.rec, P[i])]
  BY <1>1 DEF Way
<1>3. \A i \in DOMAIN BaseIn(o, s.rec) : i \in DOMAIN P /\ BaseIn(o, s.rec)[i] = P[i]
  BY PartsShape
<1> HIDE DEF P
<1>4. \A i \in 1..Len(P) : FileIn(o, s.rec, P[i]) \in Files
  BY <1>0, <1>1, FilesExist
<1>5. Way(o, s) \in Seq(Files) /\ Len(Way(o, s)) = Len(P)
  BY <1>1, <1>2, <1>4
<1>6. \A f \in Needs(o, s.rec) : \E i \in DOMAIN Way(o, s) : f = Way(o, s)[i]
  BY <1>1, <1>2, <1>3 DEF Needs
<1> QED  BY <1>1, <1>2, <1>5, <1>6

(* The files a success needs are output files.                             *)
LEMMA NeedsAreFiles == ASSUME NEW o, NEW r \in Records PROVE Needs(o, r) \subseteq Files
<1>1. \A i \in DOMAIN BaseIn(o, r) : BaseIn(o, r)[i] \in Parts(r)
  BY BaseShape
<1> QED  BY <1>1, FilesExist DEF Needs

(* The head and the tail of a nonempty sequence.                           *)
LEMMA TailFacts ==
    ASSUME NEW S, NEW q \in Seq(S), q # <<>>
    PROVE /\ Tail(q) \in Seq(S) /\ Head(q) = q[1] /\ q[1] \in S /\ 1 \in DOMAIN q
          /\ \A i \in DOMAIN Tail(q) : i + 1 \in DOMAIN q /\ Tail(q)[i] = q[i + 1]
  OBVIOUS

(* The fields of what is staged.                                           *)
LEMMA StagedTyped ==
    ASSUME NEW q \in Seq(Stagings)
    PROVE \A i \in DOMAIN q : q[i].rec \in Records /\ q[i].ver \in Nat /\ q[i].generated \in BOOLEAN
<1>1. \A i \in DOMAIN q : q[i] \in Stagings
  OBVIOUS
<1> QED  BY <1>1 DEF Stagings

(* A call begins in the invariant.                                         *)
LEMMA Start == ASSUME Init PROVE IInv
<1>0. \A r \in Records : cat[r] \in {"ready", "unavailable", "notReady"}
  BY CallsAreTyped DEF Init
<1>1. Typed
  <2>1. opts \in [meta: BOOLEAN, flat: BOOLEAN, defer: BOOLEAN, candidate: BOOLEAN] /\ sel \subseteq Records
    BY CallsAreTyped DEF Init
  <2>2. cat \in [Records -> {"ready", "unavailable", "notReady"}]
    BY CallsAreTyped DEF Init
  <2>3. version \in [Paths -> Nat] /\ snap \in [Paths -> {"open", "closed", "none"}]
    BY DEF Init
  <2>4. status \in [Records -> Statuses]
    BY DEF Init, Statuses, Successes
  <2>5. authorized \in [Records -> BOOLEAN] /\ deferred \in [Records -> BOOLEAN] /\ closeDeferred \in BOOLEAN
    BY DEF Init
  <2>6. DOMAIN disk = Files /\ DOMAIN wrote = Records /\ DOMAIN residue = Records
    BY DEF Init
  <2>7. pc = "scan" /\ cursor = 1
    BY DEF Init
  <2> QED  BY <2>1, <2>2, <2>3, <2>4, <2>5, <2>6, <2>7 DEF Typed
<1>2. First /\ Publishing
  BY DEF Init, First, InPath, Publishing
<1>3. Outcome
  BY <1>0 DEF Init, Outcome, Successes
<1>4. Staging
  BY DEF Init, Staging
<1>5. Reported /\ Exact
  BY DEF Init, Reported, Exact, Successes
<1> QED  BY <1>1, <1>2, <1>3, <1>4, <1>5 DEF IInv

(* Passing a record gives no result.                                       *)
LEMMA PassKeeps == ASSUME IInv, Pass PROVE IInv'
<1> USE DEF Pass, IInv, input, world, commit, ledger
<1>1. Typed'
  BY DEF Typed
<1>2. (First /\ Publishing)'
  BY DEF First, InPath, Publishing
<1>3. Outcome'
  BY Facts DEF Outcome, Visited, Typed
<1>4. Staging'
  BY DEF Staging, InPath
<1>5. (Reported /\ Exact)'
  BY DEF Reported, Exact
<1> QED  BY <1>1, <1>2, <1>3, <1>4, <1>5

(* A visit begins only for the first selected record of a path.            *)
LEMMA OpenKeeps == ASSUME IInv, OpenSource PROVE IInv'
<1> USE DEF OpenSource, IInv, input, world, commit, ledger
<1>0. cursor \in Records
  BY BatchAssumption DEF Typed, Records
<1>1. Typed'
  BY DEF Typed
<1>2. (First /\ Publishing)'
  BY <1>0 DEF First, InPath, Publishing, MustVisit, Outcome
<1>3. Outcome'
  BY <1>0 DEF Outcome, Visited, Typed
<1>4. Staging'
  BY <1>0 DEF Staging, InPath
<1>5. (Reported /\ Exact)'
  BY DEF Reported, Exact
<1> QED  BY <1>1, <1>2, <1>3, <1>4, <1>5

(* The end of a commit gives no result.                                    *)
LEMMA CommittedKeeps == ASSUME IInv, Committed PROVE IInv'
<1> USE DEF Committed, IInv, input, world, commit, ledger
<1>1. Typed'
  BY DEF Typed
<1>2. (First /\ Publishing)'
  BY DEF First, InPath, Publishing
<1>3. Outcome'
  BY Facts DEF Outcome, Visited, Typed
<1>4. Staging'
  BY DEF Staging, InPath
<1>5. (Reported /\ Exact)'
  BY DEF Reported, Exact
<1> QED  BY <1>1, <1>2, <1>3, <1>4, <1>5

(* What is still pending at the end has written nothing.                   *)
LEMMA FinishKeeps == ASSUME IInv, Finish PROVE IInv'
<1> USE DEF Finish, IInv, input, world, commit, MarkFailure
<1>1. Typed'
  BY DEF Typed, Statuses
<1>2. (First /\ Publishing)'
  BY DEF First, InPath, Publishing
<1>3. Outcome'
  BY DEF Outcome, Visited, Typed, Successes
<1>4. Staging'
  BY DEF Staging, InPath
<1>5. (Reported /\ Exact)'
  BY DEF Reported, Exact, Successes, Typed
<1> QED  BY <1>1, <1>2, <1>3, <1>4, <1>5

(* An edit only raises the version of a source, so what is staged stays no *)
(* later than it.                                                          *)
LEMMA EditKeeps == ASSUME IInv, NEW p \in Paths, EditSource(p) PROVE IInv'
<1> USE DEF EditSource, IInv, input, commit, ledger
<1>1. Typed'
  BY DEF Typed
<1>2. (First /\ Publishing)'
  BY DEF First, InPath, Publishing
<1>3. Outcome'
  BY DEF Outcome, Visited
<1>4. Staging'
  <2>1. \A i \in DOMAIN staged : staged[i].ver \in Nat
    BY StagedTyped DEF Staging
  <2>2. InPath => Outer[cursor] \in Paths
    BY Facts DEF First
  <2>3. \A q \in Paths : version[q] \in Nat /\ version'[q] \in Nat /\ version[q] <= version'[q]
    BY DEF Typed
  <2> QED  BY <2>1, <2>2, <2>3 DEF Staging, InPath
<1>5. (Reported /\ Exact)'
  BY DEF Reported, Exact
<1> QED  BY <1>1, <1>2, <1>3, <1>4, <1>5

(* A file that appears changes none that is there.                         *)
LEMMA CreateKeeps == ASSUME IInv, NEW f \in Files, NEW c, CreateFile(f, c) PROVE IInv'
<1> USE DEF CreateFile, IInv, input, commit, ledger
<1>0. \A g \in Files : disk[g] # NotThere => disk'[g] = disk[g]
  BY DEF Typed
<1>1. Typed'
  BY DEF Typed
<1>2. First'
  BY DEF First, InPath
<1>3. Outcome'
  BY DEF Outcome, Visited
<1>4. Staging'
  BY DEF Staging, InPath
<1>5. Publishing'
  <2> SUFFICES ASSUME pc = "publish" PROVE Publishing'
    BY DEF Publishing
  <2>1. Head(staged) \in Stagings
    BY TailFacts DEF Publishing, Staging
  <2>2. \A i \in DOMAIN Way(opts, Head(staged)) : Way(opts, Head(staged))[i] \in Files
    BY <2>1, WayShape DEF Typed
  <2>3. DOMAIN pub \subseteq DOMAIN Way(opts, Head(staged))
    BY <2>1, WayShape DEF Typed, Publishing
  <2> QED  BY <1>0, <2>1, <2>2, <2>3, Facts DEF Publishing, Bytes
<1>6. Reported'
  BY DEF Reported
<1>7. Exact'
  <2>1. \A r \in Records : \A g \in Needs(opts, r) : g \in Files
    BY NeedsAreFiles DEF Typed
  <2> QED  BY <1>0, <2>1, Facts DEF Exact
<1> QED  BY <1>1, <1>2, <1>3, <1>4, <1>5, <1>6, <1>7

(* The elements of a concatenation.                                        *)
LEMMA AppendFacts ==
    ASSUME NEW S, NEW a \in Seq(S), NEW b \in Seq(S)
    PROVE /\ a \o b \in Seq(S)
          /\ \A i \in DOMAIN (a \o b) :
               (\E j \in DOMAIN a : (a \o b)[i] = a[j]) \/ (\E j \in DOMAIN b : (a \o b)[i] = b[j])
<1> DEFINE d == a \o b
<1>0. d \in Seq(S) /\ Len(d) = Len(a) + Len(b)
  BY ConcatProperties, Zenon
<1>2. \A i \in 1..Len(a) + Len(b) : d[i] = IF i <= Len(a) THEN a[i] ELSE b[i - Len(a)]
  BY ConcatProperties
<1> HIDE DEF d
<1>3. \A i \in DOMAIN d : (\E j \in DOMAIN a : d[i] = a[j]) \/ (\E j \in DOMAIN b : d[i] = b[j])
  <2> TAKE i \in DOMAIN d
  <2>1. CASE i <= Len(a)
    BY <1>0, <1>2, <2>1
  <2>2. CASE ~(i <= Len(a))
    <3>1. i - Len(a) \in DOMAIN b /\ d[i] = b[i - Len(a)]
      BY <1>0, <1>2, <2>2
    <3> QED  BY <3>1
  <2> QED  BY <2>1, <2>2
<1> QED  BY <1>0, <1>3 DEF d

(* During its visit no record of a path has a result or a file.            *)
LEMMA Unvisited ==
    ASSUME IInv, pc = "visit", NEW r \in Records, Outer[r] = Outer[cursor]
    PROVE status[r] \notin Successes /\ ~authorized[r] /\ ~deferred[r] /\ wrote[r] = {}
<1>1. ~Visited(r)
  BY Facts DEF IInv, Typed, First, InPath, Visited
<1> QED  BY <1>1 DEF IInv, Outcome

(* A source delivers records of the path at hand, which had no result.     *)
LEMMA ProcessKeeps == ASSUME IInv, NEW m \in Members, ProcessSource(m) PROVE IInv'
<1> DEFINE M == Matching(m)
<1>0. pc = "visit" /\ cursor \in Records /\ Outer[cursor] \in Paths /\ version[Outer[cursor]] \in Nat
  BY Facts DEF ProcessSource, IInv, First, InPath, Typed
<1>1. \A r \in M :
        /\ r \in Records /\ status[r] = "pending" /\ r \in sel /\ Outer[r] = Outer[cursor]
        /\ snap[Outer[cursor]] = "open" \/ version[Outer[cursor]] = 0
  <2>1. PICK q \in Records : Member[q] = m /\ Outer[q] = Outer[cursor]
    BY <1>0 DEF ProcessSource, IInv, Staging
  <2>2. \A r \in M : r \in Records /\ status[r] = "pending" /\ Member[r] = m
              /\ (snap[Outer[r]] = "open" \/ version[Outer[r]] = 0)
    BY DEF Matching
  <2>3. \A r \in M : Outer[r] = Outer[cursor]
    BY <2>1, <2>2, BatchAssumption
  <2>4. \A r \in M : r \in sel
    BY <2>2 DEF IInv, Outcome
  <2> QED  BY <2>2, <2>3, <2>4
<1>2. PICK does \in [M -> UNION {Outcomes(r) : r \in M}] :
        /\ \E ready \in InOrder({r \in M : does[r] = "staged"} \cup {r \in M : does[r] = "generated"}) :
              staged' = staged \o [i \in DOMAIN ready |->
                          [rec |-> ready[i], ver |-> version[Outer[cursor]],
                           generated |-> ready[i] \in {r \in M : does[r] = "generated"}]]
        /\ status' = [r \in Records |->
              IF r \in {q \in M : does[q] = "content"} THEN "failed"
              ELSE IF r \in {q \in M : does[q] = "unavailable"} THEN "unavailable" ELSE status[r]]
  BY DEF ProcessSource
<1>3. PICK ready \in InOrder({r \in M : does[r] = "staged"} \cup {r \in M : does[r] = "generated"}) :
        staged' = staged \o [i \in DOMAIN ready |->
                          [rec |-> ready[i], ver |-> version[Outer[cursor]],
                           generated |-> ready[i] \in {r \in M : does[r] = "generated"}]]
  BY <1>2
<1> DEFINE new == [i \in DOMAIN ready |->
                          [rec |-> ready[i], ver |-> version[Outer[cursor]],
                           generated |-> ready[i] \in {r \in M : does[r] = "generated"}]]
<1> HIDE DEF M
<1>4. \A i \in DOMAIN ready : ready[i] \in M
  BY DEF InOrder
<1>5. \A i \in DOMAIN new : new[i].rec \in M /\ new[i].ver = version[Outer[cursor]]
  BY <1>4
<1>6. new \in Seq(Stagings)
  <2> DEFINE n == Cardinality({r \in M : does[r] = "staged"} \cup {r \in M : does[r] = "generated"})
  <2>1. DOMAIN ready = 1..n /\ n \in Nat
    <3>1. DOMAIN ready = 1..n
      BY DEF InOrder
    <3>2. IsFiniteSet(1..NumRecords) /\ M \subseteq 1..NumRecords
      BY <1>1, BatchAssumption, FS_Interval DEF Records
    <3>3. IsFiniteSet({r \in M : does[r] = "staged"} \cup {r \in M : does[r] = "generated"})
      BY <3>2, FS_Subset
    <3> QED  BY <3>1, <3>3, FS_CardinalityType
  <2>2. \A i \in DOMAIN new : new[i] \in Stagings
    BY <1>0, <1>1, <1>4 DEF Stagings
  <2> HIDE DEF n
  <2>3. DOMAIN new = 1..n
    BY <2>1
  <2>4. new = [i \in 1..n |-> new[i]]
    BY <2>1
  <2> HIDE DEF new
  <2> QED  BY <2>1, <2>2, <2>3, <2>4
<1> HIDE DEF new
<1>7. staged' = staged \o new
  BY <1>3 DEF new
<1>8. \A r \in Records : \/ status'[r] = status[r]
                         \/ r \in M /\ status'[r] \in {"failed", "unavailable"}
  BY <1>2
<1>9. /\ DOMAIN status' = Records
      /\ UNCHANGED <<opts, sel, cat, version, snap, pc, cursor, opened, closeDeferred, pre, pub,
                     authorized, deferred, residue, disk, wrote>>
      /\ todo' = todo \ {m}
  BY <1>2 DEF ProcessSource, input, world, commit
<1> USE DEF IInv
<1>11. Typed'
  <2>1. status' \in [Records -> Statuses]
    BY <1>2 DEF Statuses, Typed
  <2> QED  BY <2>1, <1>9 DEF Typed
<1>12. First' /\ Publishing'
  BY <1>0, <1>9 DEF First, InPath, Publishing
<1>13. Outcome'
  BY <1>1, <1>8, <1>9 DEF Outcome, Visited, Successes
<1>14. Staging'
  <2>1. staged \in Seq(Stagings)
    BY DEF Staging
  <2>2. staged' \in Seq(Stagings)
    BY <1>6, <1>7, <2>1, AppendFacts
  <2>3. ASSUME NEW i \in DOMAIN staged'
        PROVE /\ staged'[i].rec \in sel /\ Outer[staged'[i].rec] = Outer[cursor]
              /\ staged'[i].ver <= version[Outer[cursor]]
              /\ snap[Outer[cursor]] # "open" => staged'[i].ver = 0
    <3>1. CASE \E j \in DOMAIN staged : staged'[i] = staged[j]
      BY <3>1, <1>0 DEF Staging, InPath
    <3>2. CASE \E j \in DOMAIN new : staged'[i] = new[j]
      BY <3>2, <1>0, <1>1, <1>5
    <3> QED  BY <3>1, <3>2, <1>6, <1>7, <2>1, AppendFacts
  <2> QED  BY <1>0, <1>9, <2>2, <2>3 DEF Staging, InPath
<1>15. Reported' /\ Exact'
  <2>1. \A r \in Records : wrote[r] # {} => r \notin M
    BY <1>0, <1>1, Unvisited
  <2>2. \A r \in M : status[r] = "pending" /\ r \in Records
    BY <1>1
  <2>3. Reported'
    BY <1>0, <1>8, <1>9, <2>1 DEF Reported
  <2>4. Exact'
    BY <1>8, <1>9, <2>2 DEF Exact, Successes
  <2> QED  BY <2>3, <2>4
<1> QED  BY <1>11, <1>12, <1>13, <1>14, <1>15

(* A close that succeeds fixes the version of what is staged; one that     *)
(* fails revokes records without files.                                    *)
LEMMA CloseKeeps == ASSUME IInv, CloseSource PROVE IInv'
<1> DEFINE p == Outer[cursor]
           kept == snap[p] = "open" /\ opts.defer
<1>0. pc = "visit" /\ cursor \in Records /\ p \in Paths /\ version[p] \in Nat /\ cursor \in sel /\ cat[cursor] = "ready"
  BY Facts DEF CloseSource, IInv, First, InPath, Typed
<1>1. PICK visited \in {todo = {}, FALSE}, suspended \in BOOLEAN :
            /\ closeDeferred' = (kept /\ visited /\ suspended)
            /\ snap' = [snap EXCEPT ![p] =
                          IF @ = "open" /\ ~closeDeferred' THEN "closed" ELSE @]
            /\ \E ok \in IF closeDeferred' THEN {TRUE}
                         ELSE CloseStatus(visited /\ (kept => suspended)) :
                 IF ok THEN /\ pc' = "commit"
                            /\ UNCHANGED <<cursor, staged, ledger>>
                 ELSE /\ pc' = "scan" /\ cursor' = cursor + 1
                      /\ staged' = <<>>
                      /\ Revoke(p)
                      /\ UNCHANGED residue
  BY DEF CloseSource
<1>2. UNCHANGED <<opts, sel, cat, version, opened, pre, pub, disk, wrote>>
  BY DEF CloseSource, input, world, commit
<1>3. /\ closeDeferred' \in BOOLEAN
      /\ closeDeferred' => snap[p] = "open"
      /\ \A q \in Paths : q # p => snap'[q] = snap[q]
      /\ \A q \in Paths : snap'[q] = "open" => snap[q] = "open"
      /\ closeDeferred' <=> snap'[p] = "open"
      /\ snap' \in [Paths -> {"open", "closed", "none"}]
  BY <1>0, <1>1 DEF IInv, Typed
<1>4. \A r \in Records : Outer[r] = p =>
        status[r] \notin Successes /\ ~authorized[r] /\ ~deferred[r] /\ wrote[r] = {}
  BY <1>0, Unvisited
<1> USE DEF IInv
<1>5. CASE pc' = "commit" /\ UNCHANGED <<cursor, staged, ledger>>
           /\ (closeDeferred' \/ version[p] = opened)
  <2> USE <1>5, <1>2 DEF ledger
  <2>1. Typed'
    BY <1>3 DEF Typed
  <2>2. First' /\ Publishing'
    BY <1>0 DEF First, InPath, Publishing
  <2>3. Outcome'
    BY <1>0 DEF Outcome, Visited
  <2>4. Staging'
    <3>1. \A i \in DOMAIN staged : staged[i].ver \in Nat
      BY StagedTyped DEF Staging
    <3>2. ~closeDeferred' => \A i \in DOMAIN staged : staged[i].ver = 0
      BY <1>0, <3>1 DEF Staging
    <3> QED  BY <1>0, <1>3, <3>2 DEF Staging, InPath
  <2>5. Reported'
    BY <1>0 DEF Reported
  <2>6. Exact'
    <3>1. \A r \in Records : Outer[r] \in Paths
      BY Facts
    <3> QED  BY <1>0, <1>3, <1>4, <3>1 DEF Exact
  <2> QED  BY <2>1, <2>2, <2>3, <2>4, <2>5, <2>6
<1>6. CASE /\ pc' = "scan" /\ cursor' = cursor + 1
           /\ staged' = <<>>
           /\ Revoke(p)
           /\ UNCHANGED residue
  <2> USE <1>6, <1>2
  <2>0. /\ status' = [r \in Records |-> IF r \in sel /\ Outer[r] = p THEN "failed" ELSE status[r]]
        /\ authorized' = [r \in Records |-> ~(r \in sel /\ Outer[r] = p) /\ authorized[r]]
        /\ deferred' = [r \in Records |-> ~(r \in sel /\ Outer[r] = p) /\ deferred[r]]
    BY DEF Revoke, Typed
  <2>9. \A r \in Records : (authorized'[r] => authorized[r] /\ ~(r \in sel /\ Outer[r] = p))
                        /\ (deferred'[r] => deferred[r] /\ ~(r \in sel /\ Outer[r] = p))
    BY <2>0, Zenon
  <2>8. \A r \in Records : ~(r \in sel /\ Outer[r] = p) =>
            authorized'[r] = authorized[r] /\ deferred'[r] = deferred[r] /\ status'[r] = status[r]
    BY <2>0 DEF Typed
  <2>1. Typed'
    <3>1. status' \in [Records -> Statuses]
      BY <2>0 DEF Typed, Statuses
    <3>2. authorized' \in [Records -> BOOLEAN] /\ deferred' \in [Records -> BOOLEAN]
      BY <2>0
    <3>3. cursor' \in Nat \ {0}
      BY DEF Typed
    <3> QED  BY <1>3, <3>1, <3>2, <3>3 DEF Typed
  <2>2. First' /\ Publishing'
    BY DEF First, InPath, Publishing
  <2>3. Outcome'
    <3>1. ASSUME NEW r \in Records, Visited(r) PROVE Visited(r)'
      BY <3>1, <1>0, Facts DEF Visited, Typed
    <3>2. \A r \in Records : (status'[r] = "failed" /\ r \in sel) \/ status'[r] = status[r]
      BY <2>0
    <3>3. \A r \in Records : status'[r] \in Successes => status[r] \in Successes
      BY <2>0 DEF Successes
    <3>4. \A r \in Records : /\ r \in sel <=> status'[r] # "unselected"
                             /\ status'[r] = "pending" => cat[r] = "ready"
      BY <3>2 DEF Outcome
    <3>5. \A r \in Records : status'[r] \in Successes \/ authorized'[r] \/ deferred'[r] \/ wrote[r] # {}
                => r \in sel /\ Visited(r)
      BY <2>9, <3>3 DEF Outcome
    <3> QED  BY <3>1, <3>4, <3>5 DEF Outcome
  <2>4. Staging'
    BY DEF Staging
  <2>5. Reported'
    BY <1>0, <1>4, <2>8 DEF Reported, Typed
  <2>6. Exact'
    <3>1. \A r \in Records : Outer[r] \in Paths
      BY Facts
    <3>2. \A r \in Records : status'[r] \in Successes => status[r] \in Successes /\ ~(r \in sel /\ Outer[r] = p)
      BY <2>0 DEF Successes
    <3>3. \A r \in Records : status'[r] \in Successes => authorized'[r] \/ deferred'[r]
      BY <3>2, <2>8 DEF Exact
    <3>4. \A r \in Records : authorized'[r] =>
              /\ status'[r] \in Successes /\ ~deferred'[r] /\ snap'[Outer[r]] # "open"
              /\ \A f \in Needs(opts, r) : disk[f] = Built(r, 0)
      BY <2>8, <2>9, <1>3, <3>1 DEF Exact
    <3>5. \A r \in Records : deferred'[r] => snap'[Outer[r]] = "open"
      BY <2>9, <1>3, <1>4, <3>1 DEF Exact
    <3> QED  BY <3>3, <3>4, <3>5 DEF Exact
  <2> QED  BY <2>1, <2>2, <2>3, <2>4, <2>5, <2>6
<1> QED  BY <1>0, <1>1, <1>3, <1>5, <1>6 DEF CloseStatus

(* The first staged publication is of a selected record of the path at     *)
(* hand.                                                                   *)
LEMMA HeadFacts ==
    ASSUME IInv, pc \in {"commit", "publish"}, staged # <<>>
    PROVE /\ Head(staged) = staged[1] /\ 1 \in DOMAIN staged /\ Head(staged) \in Stagings
          /\ Head(staged).rec \in Records /\ Head(staged).rec \in sel /\ Head(staged).ver \in Nat
          /\ Outer[Head(staged).rec] = Outer[cursor] /\ Visited(Head(staged).rec)
          /\ ~closeDeferred => Head(staged).ver = 0
<1>1. Head(staged) = staged[1] /\ 1 \in DOMAIN staged /\ Head(staged) \in Stagings
  BY TailFacts DEF IInv, Staging
<1>2. Head(staged).rec \in Records /\ Head(staged).ver \in Nat
  BY <1>1 DEF Stagings
<1>3. /\ Head(staged).rec \in sel /\ Outer[Head(staged).rec] = Outer[cursor]
      /\ ~closeDeferred => Head(staged).ver = 0
  BY <1>1 DEF IInv, Staging
<1>4. Visited(Head(staged).rec)
  BY <1>3 DEF IInv, First, InPath, Visited, Typed
<1> QED  BY <1>1, <1>2, <1>3, <1>4

(* Disposing of the first staged publication keeps the others.             *)
LEMMA MovedOn ==
    ASSUME IInv, pc \in {"commit", "publish"}, staged # <<>>, NextStaged,
           UNCHANGED <<opts, sel, cat, version, snap, cursor, todo, opened, closeDeferred>>
    PROVE (First /\ Staging /\ Publishing)'
<1> USE DEF NextStaged, IInv
<1>1. First'
  BY DEF First, InPath
<1>2. Staging'
  <2>1. staged \in Seq(Stagings)
    BY DEF Staging
  <2>2. staged' \in Seq(Stagings) /\ \A i \in DOMAIN staged' : i + 1 \in DOMAIN staged /\ staged'[i] = staged[i + 1]
    BY <2>1, TailFacts
  <2> QED  BY <2>2 DEF Staging, InPath
<1>3. Publishing'
  BY DEF Publishing
<1> QED  BY <1>1, <1>2, <1>3

(* The examination finds every file missing or exact, or the record fails  *)
(* with nothing written.                                                   *)
LEMMA BeginKeeps == ASSUME IInv, BeginCommit PROVE IInv'
<1> DEFINE s == Head(staged)
           r == s.rec
<1>0. pc = "commit" /\ staged # <<>>
  BY DEF BeginCommit
<1>1. s \in Stagings /\ r \in Records /\ r \in sel /\ Outer[r] = Outer[cursor] /\ Visited(r)
  BY <1>0, HeadFacts
<1>2. UNCHANGED <<opts, sel, cat, version, snap, cursor, todo, opened, closeDeferred,
                  authorized, residue, disk, wrote>>
  BY DEF BeginCommit, input, world
<1>3. closeDeferred \in BOOLEAN /\ (closeDeferred <=> snap[Outer[r]] = "open")
  BY <1>0, <1>1 DEF IInv, Staging, Typed
<1>4. \A q \in Records : pc' \in {"commit", "publish"} /\ Visited(q) => Visited(q)'
  BY <1>0, <1>2 DEF Visited
<1> HIDE DEF s, r
<1>5. CASE status[r] # "pending" /\ NextStaged /\ UNCHANGED <<status, failure, stats, deferred>>
  <2> USE <1>2, <1>5 DEF IInv
  <2>1. (First /\ Staging /\ Publishing)'
    BY <1>0, MovedOn
  <2>2. pc' = "commit"
    BY DEF NextStaged
  <2>3. Typed'
    BY <2>2 DEF Typed
  <2>4. Outcome'
    BY <1>4, <2>2 DEF Outcome
  <2>5. Reported' /\ Exact'
    BY <1>0, <2>2 DEF Reported, Exact
  <2> QED  BY <2>1, <2>3, <2>4, <2>5
<1>6. ASSUME status[r] = "pending", deferred' = [deferred EXCEPT ![r] = closeDeferred],
             pc' \in {"commit", "publish"}, pc' = "commit" => status'[r] = "failed",
             status' = [q \in Records |-> status'[q]], status'[r] \in {"pending", "failed"},
             \A q \in Records : q # r => status'[q] = status[q]
      PROVE (Typed /\ Outcome /\ Reported /\ Exact)'
  <2> USE <1>2, <1>6 DEF IInv
  <2>1. Typed'
    <3>1. status' \in [Records -> Statuses]
      <4>1. \A q \in Records : status'[q] \in Statuses
        BY DEF Statuses, Typed
      <4> QED  BY <4>1
    <3>2. deferred' \in [Records -> BOOLEAN]
      BY <1>3 DEF Typed
    <3> QED  BY <3>1, <3>2 DEF Typed
  <2>2. Outcome'
    BY <1>1, <1>3, <1>4 DEF Outcome, Successes, Typed
  <2>3. wrote[r] = {}
    BY <1>0, <1>1 DEF Reported, Successes
  <2>4. Reported'
    BY <1>0, <1>1, <2>3 DEF Reported
  <2>5. Exact'
    BY <1>1, <1>3 DEF Exact, Successes, Typed
  <2> QED  BY <2>1, <2>2, <2>4, <2>5
<1> DEFINE w == Way(opts, s)
<1>7. PathsOf(s) = w
  BY <1>1, SamePaths
<1>8. ASSUME status[r] = "pending", deferred' = [deferred EXCEPT ![r] = closeDeferred],
             NEW why, MarkFailure({r}, why), NextStaged
      PROVE IInv'
  <2> USE <1>8
  <2>1. status' = [q \in Records |-> IF q = r THEN "failed" ELSE status[q]]
    BY <1>1 DEF MarkFailure
  <2>2. pc' = "commit" /\ status'[r] = "failed" /\ status' = [q \in Records |-> status'[q]]
        /\ \A q \in Records : q # r => status'[q] = status[q]
    BY <1>1, <2>1 DEF NextStaged
  <2>3. (First /\ Staging /\ Publishing)'
    BY <1>0, <1>2, MovedOn
  <2>4. (Typed /\ Outcome /\ Reported /\ Exact)'
    BY <2>2, <1>6
  <2> QED  BY <2>3, <2>4 DEF IInv
<1>9. ASSUME status[r] = "pending", deferred' = [deferred EXCEPT ![r] = closeDeferred],
             NEW found \in [DOMAIN w -> {"missing", "unchanged", "collision", "ioError"}],
             \A i \in DOMAIN found : found[i] \in Preflight(w[i], Bytes(s)),
             Range(found) \cap {"collision", "ioError"} = {},
             pc' = "publish", pre' = found, pub' = <<>>,
             UNCHANGED <<staged, status, failure, stats>>
      PROVE IInv'
  <2> USE <1>9, <1>2
  <2>1. (Typed /\ Outcome /\ Reported /\ Exact)'
    <3>1. status' = [q \in Records |-> status'[q]] /\ status'[r] = "pending"
          /\ \A q \in Records : q # r => status'[q] = status[q]
      BY DEF IInv, Typed
    <3>2. pc' \in {"commit", "publish"} /\ (pc' = "commit" => status'[r] = "failed") /\ status'[r] \in {"pending", "failed"}
      BY <3>1
    <3> QED  BY <3>1, <3>2, <1>6
  <2>2. First'
    BY <1>0 DEF IInv, First, InPath
  <2>3. Staging'
    BY <1>0 DEF IInv, Staging, InPath
  <2>4. Publishing'
    <3>1. \A i \in DOMAIN found :
             /\ found[i] \in {"missing", "unchanged"}
             /\ found[i] = "unchanged" => disk[w[i]] # NotThere
      BY DEF Range, Preflight
    <3>2. wrote[r] = {}
      BY <1>0, <1>1 DEF IInv, Reported, Successes
    <3>3. Len(w) \in Nat \ {0}
      BY <1>1, WayShape
    <3>4. Head(staged)' = s /\ Way(opts, Head(staged))' = w /\ Head(staged)'.rec = r
      BY DEF s, w, r
    <3>5. status'[r] = "pending" /\ deferred'[r] = closeDeferred' /\ staged' # <<>>
      BY <1>0, <1>1 DEF IInv, Typed
    <3> HIDE DEF w
    <3>6. pub' \in Seq(Successes) /\ Len(pub') < Len(w) /\ DOMAIN pub' = {}
      BY <3>3
    <3> QED  BY <3>1, <3>2, <3>4, <3>5, <3>6 DEF Publishing
  <2> QED  BY <2>1, <2>2, <2>3, <2>4 DEF IInv
<1>10. CASE status[r] = "pending"
  <2>1. deferred' = [deferred EXCEPT ![r] = closeDeferred] /\ (CannotBegin(r) \/ PreflightAll(s))
    BY <1>10 DEF BeginCommit, s, r
  <2>2. CASE CannotBegin(r)
    BY <1>8, <1>10, <2>1, <2>2 DEF CannotBegin
  <2>3. CASE PreflightAll(s)
    <3>1. PICK found \in [DOMAIN w -> {"missing", "unchanged", "collision", "ioError"}] :
            /\ \A i \in DOMAIN found : found[i] \in Preflight(w[i], Bytes(s))
            /\ IF Range(found) \cap {"collision", "ioError"} = {}
               THEN /\ pc' = "publish" /\ pre' = found /\ pub' = <<>>
                    /\ UNCHANGED <<staged, status, failure, stats>>
               ELSE /\ MarkFailure({r}, IF "collision" \in Range(found)
                                        THEN "outputCollision" ELSE "outputIo")
                    /\ NextStaged
      BY <2>3, <1>7 DEF PreflightAll, r
    <3> HIDE DEF w
    <3>2. CASE Range(found) \cap {"collision", "ioError"} = {}
      BY <1>9, <1>10, <2>1, <3>1, <3>2
    <3>3. CASE Range(found) \cap {"collision", "ioError"} # {}
      BY <1>8, <1>10, <2>1, <3>1, <3>3
    <3> QED  BY <3>2, <3>3
  <2> QED  BY <2>1, <2>2, <2>3
<1>11. CASE status[r] # "pending"
  BY <1>5, <1>11 DEF BeginCommit, s, r
<1> QED  BY <1>10, <1>11

(* A file is published: what was created before is remembered, and the     *)
(* last one completes the record.                                          *)
LEMMA PublishKeeps == ASSUME IInv, PublishNext PROVE IInv'
<1> DEFINE s == Head(staged)
           r == s.rec
           k == Len(pub) + 1
           w == Way(opts, s)
           f == w[k]
<1>0. pc = "publish" /\ staged # <<>>
  BY DEF PublishNext, IInv, Publishing
<1>1. /\ s \in Stagings /\ r \in Records /\ r \in sel /\ Outer[r] = Outer[cursor] /\ Visited(r)
      /\ ~closeDeferred => s.ver = 0
  BY <1>0, HeadFacts
<1>2. PathsOf(s) = w /\ w \in Seq(Files) /\ DOMAIN w = 1..Len(w) /\ Len(w) \in Nat
      /\ \A g \in Needs(opts, r) : \E i \in DOMAIN w : g = w[i]
  BY <1>1, SamePaths, WayShape
<1>3. UNCHANGED <<opts, sel, cat, version, snap, cursor, todo, opened, closeDeferred, deferred>>
  BY DEF PublishNext, input, world
<1>4. /\ status[r] = "pending" /\ deferred[r] = closeDeferred
      /\ DOMAIN pre = DOMAIN w
      /\ \A i \in DOMAIN pre : pre[i] \in {"missing", "unchanged"} /\ (pre[i] = "unchanged" => disk[w[i]] # NotThere)
      /\ pub \in Seq(Successes) /\ Len(pub) < Len(w) /\ DOMAIN pub = 1..Len(pub) /\ Len(pub) \in Nat
      /\ \A i \in DOMAIN pub : disk[w[i]] = Bytes(s)
      /\ \A g \in wrote[r] : \E i \in DOMAIN pub : pub[i] = "emitted" /\ g = w[i]
  BY <1>0 DEF IInv, Publishing
<1>5. PICK out \in PublishExact(f, Bytes(s)) :
            /\ disk' = [disk EXCEPT ![f] = out.now]
            /\ wrote' = [wrote EXCEPT ![r] = IF out.now = disk[f] THEN @ ELSE @ \cup {f}]
            /\ IF out.is \notin Successes
               THEN /\ residue' = [residue EXCEPT ![r] =
                          ResidueAfter(s, k, ResiduePossible(pre[k], out.is, out.now, Bytes(s)))]
                    /\ MarkFailure({r}, IF out.is = "collision" THEN "outputCollision"
                                        ELSE "outputIo")
                    /\ NextStaged
                    /\ UNCHANGED authorized
               ELSE IF k < Len(w)
               THEN /\ pub' = Append(pub, out.is)
                    /\ UNCHANGED <<pc, staged, pre, status, failure, stats, authorized, residue>>
               ELSE /\ Succeed(s, Append(pub, out.is))
                    /\ NextStaged
                    /\ UNCHANGED <<failure, residue>>
  BY <1>2 DEF PublishNext
<1>6. k \in DOMAIN w /\ k \in Nat /\ f \in Files /\ k \in DOMAIN pre
  BY <1>2, <1>4
<1>7. Bytes(s) # NotThere
  BY Facts DEF Bytes
<1>8. /\ out.is \in Successes => out.now = Bytes(s)
      /\ out.now # disk[f] => disk[f] = NotThere /\ out.now = Bytes(s)
      /\ out.now # disk[f] => out.is \in {"emitted", "ioError"}
  BY DEF PublishExact, Successes
<1> HIDE DEF f, w, s, r, k
<1>9. /\ \A g \in Files : disk[g] # NotThere => disk'[g] = disk[g]
      /\ disk'[f] = out.now /\ DOMAIN disk' = Files
  BY <1>5, <1>6, <1>8 DEF IInv, Typed
<1>10. /\ \A q \in Records : q # r => wrote'[q] = wrote[q]
       /\ \A g \in wrote'[r] : g \in wrote[r] \/ (g = f /\ out.now # disk[f])
       /\ DOMAIN wrote' = Records
  BY <1>1, <1>5 DEF IInv, Typed
<1>11. \A q \in Records : pc' \in {"commit", "publish"} /\ Visited(q) => Visited(q)'
  BY <1>0, <1>3 DEF Visited
<1>12. \A q \in Records : \A g \in Needs(opts, q) : disk[g] = Built(q, 0) => disk'[g] = Built(q, 0)
  BY <1>9, Facts, NeedsAreFiles
<1>13. \A i \in DOMAIN w : w[i] \in Files
  BY <1>2
<1> USE DEF IInv
<1>14. CASE out.is \notin Successes
  <2>1. /\ residue' = [residue EXCEPT ![r] =
                          ResidueAfter(s, k, ResiduePossible(pre[k], out.is, out.now, Bytes(s)))]
        /\ status' = [q \in Records |-> IF q = r THEN "failed" ELSE status[q]]
        /\ NextStaged /\ pc' = "commit"
        /\ UNCHANGED authorized
    BY <1>1, <1>4, <1>5, <1>14 DEF MarkFailure, NextStaged
  <2>2. (First /\ Staging /\ Publishing)'
    BY <1>0, <1>3, <2>1, MovedOn
  <2>3. Typed'
    <3>1. status' \in [Records -> Statuses]
      BY <2>1 DEF Typed, Statuses
    <3> QED  BY <3>1, <2>1, <1>3, <1>9, <1>10 DEF Typed
  <2>4. Outcome'
    BY <1>1, <1>3, <1>10, <1>11, <2>1 DEF Outcome, Successes
  <2>5. Reported'
    <3>1. wrote'[r] \subseteq residue'[r]
      <4>1. residue'[r] = {w[i] : i \in {i \in 1..(k - 1) : pub[i] = "emitted"}}
                 \cup (IF ResiduePossible(pre[k], out.is, out.now, Bytes(s)) THEN {f} ELSE {})
        BY <1>1, <1>2, <2>1 DEF ResidueAfter, Typed, f
      <4>2. \A g \in wrote[r] : g \in residue'[r]
        <5>1. DOMAIN pub = 1..(k - 1)
          BY <1>4 DEF k
        <5> QED  BY <1>4, <4>1, <5>1
      <4>3. out.now # disk[f] => f \in residue'[r]
        <5>1. ASSUME out.now # disk[f] PROVE pre[k] = "missing" /\ out.is = "ioError" /\ out.now = Bytes(s)
          BY <5>1, <1>4, <1>6, <1>8, <1>14 DEF f, Successes
        <5> QED  BY <4>1, <5>1 DEF ResiduePossible
      <4> QED  BY <1>10, <4>2, <4>3
    <3>2. \A q \in Records : q # r => residue'[q] = residue[q]
      BY <2>1 DEF Typed
    <3> QED  BY <1>0, <1>1, <1>10, <2>1, <3>1, <3>2 DEF Reported, r, s
  <2>6. Exact'
    BY <1>1, <1>3, <1>4, <1>12, <2>1 DEF Exact, Successes
  <2> QED  BY <2>2, <2>3, <2>4, <2>5, <2>6
<1>15. CASE out.is \in Successes /\ k < Len(w)
  <2>1. /\ pub' = Append(pub, out.is)
        /\ UNCHANGED <<pc, staged, pre, status, failure, stats, authorized, residue>>
    BY <1>5, <1>15
  <2>2. Typed'
    BY <2>1, <1>3, <1>9, <1>10 DEF Typed
  <2>3. First' /\ Staging'
    BY <2>1, <1>3 DEF First, Staging, InPath
  <2>4. Outcome'
    BY <1>0, <1>1, <1>3, <1>10, <1>11, <2>1 DEF Outcome
  <2>5. Reported'
    BY <1>0, <1>10, <2>1 DEF Reported, r, s
  <2>6. Exact'
    BY <1>3, <1>12, <2>1 DEF Exact
  <2>7. Publishing'
    <3>1. Head(staged)' = s /\ Way(opts, Head(staged))' = w /\ Head(staged)'.rec = r /\ staged' # <<>>
      BY <1>0, <1>3, <2>1 DEF s, w, r
    <3>2. pub' \in Seq(Successes) /\ Len(pub') = k /\ DOMAIN pub' = 1..k
          /\ pub'[k] = out.is /\ \A i \in DOMAIN pub : pub'[i] = pub[i] /\ i \in DOMAIN pub'
      BY <1>4, <1>15, <2>1 DEF k
    <3>3. \A i \in DOMAIN pub' : i = k \/ i \in DOMAIN pub
      BY <1>4, <3>2 DEF k
    <3>4. \A i \in DOMAIN pub' : disk'[w[i]] = Bytes(s)
      <4>1. disk'[w[k]] = Bytes(s)
        BY <1>8, <1>9, <1>15 DEF f
      <4>2. \A i \in DOMAIN pub : disk'[w[i]] = Bytes(s)
        BY <1>2, <1>4, <1>7, <1>9, <1>13
      <4> QED  BY <3>3, <4>1, <4>2
    <3>5. \A g \in wrote'[r] : \E i \in DOMAIN pub' : pub'[i] = "emitted" /\ g = w[i]
      <4>1. ASSUME NEW g \in wrote'[r], g \in wrote[r]
            PROVE \E i \in DOMAIN pub' : pub'[i] = "emitted" /\ g = w[i]
        BY <4>1, <1>4, <3>2
      <4>2. ASSUME NEW g \in wrote'[r], g = f, out.now # disk[f]
            PROVE \E i \in DOMAIN pub' : pub'[i] = "emitted" /\ g = w[i]
        <5>1. out.is = "emitted"
          BY <4>2, <1>8, <1>15 DEF Successes
        <5>2. k \in DOMAIN pub'
          BY <3>2, <1>6, <1>2
        <5> QED  BY <4>2, <5>1, <5>2, <3>2 DEF f
      <4> QED  BY <1>10, <4>1, <4>2
    <3>6. \A i \in DOMAIN pre : pre[i] = "unchanged" => disk'[w[i]] # NotThere
      BY <1>4, <1>9, <1>13
    <3>7. DOMAIN pre' = DOMAIN w /\ Len(pub') < Len(w) /\ pre' = pre
      BY <1>4, <1>15, <2>1, <3>2
    <3>8. status'[r] = "pending" /\ deferred'[r] = closeDeferred'
      BY <1>3, <1>4, <2>1
    <3> QED  BY <3>1, <3>2, <3>4, <3>5, <3>6, <3>7, <3>8, <1>4 DEF Publishing
  <2> QED  BY <2>2, <2>3, <2>4, <2>5, <2>6, <2>7
<1>16. CASE out.is \in Successes /\ ~(k < Len(w))
  <2>0. PICK how \in Successes :
        /\ status' = [status EXCEPT ![r] = how]
        /\ authorized' = [authorized EXCEPT ![r] = ~closeDeferred]
    BY <1>5, <1>16 DEF Succeed, Successes, r
  <2>1. NextStaged /\ pc' = "commit" /\ UNCHANGED residue
    BY <1>5, <1>16 DEF NextStaged
  <2>2. (First /\ Staging /\ Publishing)'
    BY <1>0, <1>3, <2>1, MovedOn
  <2>3. closeDeferred \in BOOLEAN
    BY DEF Typed
  <2>4. Typed'
    <3>1. status' \in [Records -> Statuses]
      BY <2>0 DEF Typed, Statuses
    <3>2. authorized' \in [Records -> BOOLEAN]
      BY <2>0, <2>3 DEF Typed
    <3> QED  BY <3>1, <3>2, <2>1, <1>3, <1>9, <1>10 DEF Typed
  <2>5. /\ status'[r] \in Successes /\ authorized'[r] = ~closeDeferred
        /\ \A q \in Records : q # r => status'[q] = status[q] /\ authorized'[q] = authorized[q]
    BY <1>1, <2>0 DEF Typed
  <2>6. Outcome'
    BY <1>1, <1>3, <1>10, <1>11, <2>1, <2>5 DEF Outcome, Successes
  <2>7. Reported'
    BY <1>0, <1>10, <2>1, <2>5 DEF Reported, r, s
  <2>8. Exact'
    <3>1. \A i \in DOMAIN w : disk'[w[i]] = Bytes(s)
      <4>1. disk'[w[k]] = Bytes(s)
        BY <1>8, <1>9, <1>16 DEF f
      <4>2. \A i \in DOMAIN w : i = k \/ i \in DOMAIN pub
        BY <1>2, <1>4, <1>16 DEF k
      <4> QED  BY <4>1, <4>2, <1>4, <1>7, <1>9, <1>13
    <3>2. ~closeDeferred => \A g \in Needs(opts, r) : disk'[g] = Built(r, 0)
      BY <1>1, <1>2, <3>1 DEF Bytes, r
    <3>3. closeDeferred <=> snap[Outer[r]] = "open"
      BY <1>0, <1>1 DEF Staging
    <3>4. deferred'[r] = closeDeferred /\ deferred' = deferred /\ snap' = snap /\ opts' = opts
      BY <1>3, <1>4
    <3>5. ASSUME NEW q \in Records, q # r
          PROVE /\ status'[q] \in Successes => authorized'[q] \/ deferred[q]
                /\ authorized'[q] =>
                      /\ status'[q] \in Successes /\ ~deferred[q] /\ snap[Outer[q]] # "open"
                      /\ \A g \in Needs(opts, q) : disk'[g] = Built(q, 0)
                /\ deferred[q] => snap[Outer[q]] = "open"
      BY <3>5, <2>5, <1>12 DEF Exact
    <3>6. /\ authorized'[r] \/ deferred[r]
          /\ authorized'[r] => ~deferred[r] /\ snap[Outer[r]] # "open"
               /\ \A g \in Needs(opts, r) : disk'[g] = Built(r, 0)
          /\ deferred[r] => snap[Outer[r]] = "open"
      BY <2>3, <2>5, <3>2, <3>3, <3>4
    <3> QED  BY <2>5, <3>4, <3>5, <3>6 DEF Exact
  <2> QED  BY <2>2, <2>4, <2>6, <2>7, <2>8
<1> QED  BY <1>14, <1>15, <1>16

(* Other programs create output files.                                     *)
LEMMA ClaimedAreFiles == ASSUME IInv PROVE Claimed \subseteq Files
<1>1. ASSUME NEW r \in sel, NEW m \in Parts(r) PROVE FileOf(r, m) \in Files
  BY <1>1, FilesExist DEF IInv, Typed, FileOf, FileIn
<1> QED  BY <1>1 DEF Claimed

(* Every step keeps the invariant.                                         *)
LEMMA Inductive == ASSUME IInv, [Next]_vars PROVE IInv'
<1>1. CASE Step
  <2>1. CASE Pass  BY <2>1, PassKeeps
  <2>2. CASE OpenSource  BY <2>2, OpenKeeps
  <2>3. CASE CloseSource  BY <2>3, CloseKeeps
  <2>4. CASE BeginCommit  BY <2>4, BeginKeeps
  <2>5. CASE PublishNext  BY <2>5, PublishKeeps
  <2>6. CASE Committed  BY <2>6, CommittedKeeps
  <2>7. CASE Finish  BY <2>7, FinishKeeps
  <2>8. CASE \E m \in Members : ProcessSource(m)  BY <2>8, ProcessKeeps
  <2> QED  BY <1>1, <2>1, <2>2, <2>3, <2>4, <2>5, <2>6, <2>7, <2>8 DEF Step
<1>2. CASE \E p \in Paths : EditSource(p)
  BY <1>2, EditKeeps
<1>3. CASE \E f \in Claimed : \E c \in {Foreign} \cup {Built(r, 0) : r \in sel} : CreateFile(f, c)
  BY <1>3, CreateKeeps, ClaimedAreFiles
<1>4. CASE UNCHANGED vars
  <2> USE <1>4 DEF vars, input, commit, ledger, IInv
  <2>1. Typed'
    BY DEF Typed
  <2>2. (First /\ Publishing)'
    BY DEF First, InPath, Publishing
  <2>3. Outcome'
    BY DEF Outcome, Visited
  <2>4. Staging'
    BY DEF Staging, InPath
  <2>5. (Reported /\ Exact)'
    BY DEF Reported, Exact
  <2> QED  BY <2>1, <2>2, <2>3, <2>4, <2>5
<1> QED  BY <1>1, <1>2, <1>3, <1>4 DEF Next, Returned

(* The invariant holds in every state of the batch.                        *)
THEOREM InvariantHolds == Spec => []IInv
<1>1. Init => IInv
  BY Start
<1>2. IInv /\ [Next]_vars => IInv'
  BY Inductive
<1> QED  BY <1>1, <1>2, PTL DEF Spec

(* shader_batch_extract_ex gives the authority of a source only to records *)
(* whose files have the exact bytes of the catalogued source, and every    *)
(* other success keeps its snapshot for the deferred close.                *)
THEOREM AuthorityIsExact == Spec => []AuthorizedIsExact
<1>1. IInv => AuthorizedIsExact
  BY SameNeeds DEF IInv, Exact, AuthorizedIsExact
<1> QED  BY <1>1, InvariantHolds, PTL

(* Every file shader_batch_extract_ex created is part of a success, in the *)
(* reported residue of a failure, or of the publication under way,         *)
(* whichever of the files failed and how.                                  *)
THEOREM EveryFileIsReported == Spec => []NothingUnreported
<1>1. IInv => NothingUnreported
  BY DEF IInv, Reported, NothingUnreported
<1> QED  BY <1>1, InvariantHolds, PTL

(* When shader_batch_is_complete holds at the end, every selected record   *)
(* is on disk with the exact bytes of the catalogued source.               *)
THEOREM CompleteBatchIsPublished == Spec => []CompleteIsPublished
<1>1. IInv => CompleteIsPublished
  <2> SUFFICES ASSUME IInv, IsComplete, NEW r \in sel
               PROVE \A f \in Required(r) : disk[f] = Built(r, 0)
    BY DEF CompleteIsPublished
  <2>1. r \in Records /\ status[r] # "unselected"
    BY DEF IInv, Typed, Outcome
  <2>2. authorized[r]
    BY <2>1 DEF IsComplete
  <2> QED  BY <2>1, <2>2, SameNeeds DEF IInv, Exact
<1> QED  BY <1>1, InvariantHolds, PTL

-----------------------------------------------------------------------------
(* The candidate of a call, from the program that is accepted.             *)
Candidate(lift, i, p) ==
    CASE lift = "copy" -> CopyLiftCreate(p, i)
      [] lift = "result" -> ResultLiftCreate(p, i)
      [] OTHER -> [status |-> "ok", program |-> p]

(* The records of the transaction have their fields.                       *)
CallShape ==
    at = [step |-> at.step, lift |-> at.lift, i |-> at.i, cand |-> at.cand,
          artifact |-> at.artifact]
TxnShape ==
    txn = [program |-> txn.program, artifact |-> txn.artifact, result |-> txn.result,
           journal |-> txn.journal, candidates |-> txn.candidates,
               compiles |-> txn.compiles,
           ctl |-> txn.ctl, high |-> txn.high]
(* The call in progress carries the candidate of the accepted program.     *)
InHand ==
    /\ at.step \in {"made", "sent", "answered"} =>
           at.cand = Candidate(at.lift, at.i, txn.program)
    /\ at.step \in {"sent", "answered"} => at.cand.status = "ok"
    /\ at.step = "answered" =>
           at.artifact = [of |-> at.cand.program, high |-> at.lift = "high level",
                          controls |-> at.artifact.controls,
                              answer |-> at.artifact.answer]
    /\ at.step = "answered" => at.artifact.answer \in Answers
(* Nothing is accepted before the baseline, and every lift follows it.     *)
Unaccepted ==
    /\ at.lift \in {"baseline", "copy", "result", "high level", "none"}
    /\ at.lift = "none" => at.step \in {"done", "failed"}
    /\ at.step = "failed" => at.lift = "none"
    /\ at.step = "begin" => at.lift = "baseline"
    /\ at.step = "try" => at.lift # "baseline"
    /\ at.lift = "baseline" => txn.artifact = Nothing
    /\ txn.artifact = Nothing => txn.program = base /\ txn.result = Nothing
           /\ txn.journal = <<>>
    /\ txn.artifact = Nothing => at.lift = "baseline" \/ at.step = "failed"

(* The program that step n of a journal started from.                      *)
Was(b, j, n) == IF n = 1 THEN b ELSE j[n - 1].after.of
(* The journal as a chain from the baseline to the artifact.               *)
Chained(b, j, artifact) ==
    /\ \A n \in DOMAIN j :
         /\ j[n].before.of = Was(b, j, n) /\ j[n].after.of = Replay(Was(b, j, n), j[n])
         /\ j[n].before.controls = j[n].after.controls /\ j[n].after.answer = "equal"
    /\ j # <<>> => j[Len(j)].after = artifact
    /\ j = <<>> => artifact.of = b
(* What is accepted is accounted for, as AcceptedIsAccounted says.         *)
Accounted ==
    txn.artifact # Nothing =>
        /\ txn.artifact = txn.result
        /\ txn.artifact.of = txn.program /\ txn.artifact.answer = "equal"
        /\ txn.artifact.high = txn.high
        /\ Chained(base, txn.journal, txn.artifact)
(* The inductive invariant of the transaction.                             *)
TInv ==
    /\ CallShape /\ TxnShape /\ InHand /\ Unaccepted /\ Accounted
    /\ \E S : txn.journal \in Seq(S)

(* The edits of a copy lift, replayed, give its program.                   *)
LEMMA ReplayCopy ==
    ASSUME NEW p, NEW c, NEW cand, cand = CopyLiftCreate(p, c), cand.status = "ok",
           NEW s, s.lift = "copy", s.i = c, s.edits = cand.edits
    PROVE  cand.program = Replay(p, s)
<1>. DEFINE ctx == Context(p)
            uses == {q \in ((c + 1)..Len(p)) \X {1, 2} :
                    /\ q[2] \in DOMAIN p[q[1]].src /\ p[q[1]].src[q[2]].kind = "temp"
                    /\ p[q[1]].src[q[2]].reg = p[c].dst.reg}
            outcome == [q \in uses |-> UseStatus(p, ctx, c, q[1], q[2])]
            comp(i, k) == SourceComponents(p, CopiedLanes(p, ctx, c, i, k), c, i, k)
            changed == {[i |-> q[1], k |-> q[2], comp |-> comp(q[1], q[2])]
                         : q \in {u \in uses : outcome[u] = "ok"}}
            new == [i \in DOMAIN p |->
                  IF i = c THEN Nop
                  ELSE [p[i] EXCEPT !.src = [k \in DOMAIN @ |->
                          LET mine == {e \in changed : e.i = i /\ e.k = k}
                          IN IF mine = {} THEN @[k] ELSE Select(p[c].src[1],
                                 (CHOOSE e \in mine : TRUE).comp)]]]
<1>1. cand = [status |-> "ok", edits |-> changed, producer |-> c, program |-> new]
  <2>. DEFINE bad == {q \in uses : outcome[q] \notin {"ok", "none"}}
  <2>1. bad # {} => outcome[CHOOSE q \in bad : TRUE] # "ok"
    OBVIOUS
  <2>. QED  BY <2>1 DEF CopyLiftCreate, Failed
<1>2. s.edits = changed /\ cand.program = new
  <2>. HIDE DEF changed, new
  <2>. QED  BY <1>1
<1>. HIDE DEF comp
<1>3. ASSUME NEW e \in changed PROVE e.comp = comp(e.i, e.k)
  <2>1. PICK q \in {u \in uses : outcome[u] = "ok"} : e
            = [i |-> q[1], k |-> q[2], comp |-> comp(q[1], q[2])]
    OBVIOUS
  <2>. HIDE DEF uses, outcome
  <2>. QED  BY <2>1
<1>. HIDE DEF changed
<1>4. ASSUME NEW i, NEW k PROVE
        LET mine == {e \in changed : e.i = i /\ e.k = k}
        IN  IF mine = {} THEN ~\E e \in changed : e.i = i /\ e.k = k
            ELSE /\ \E e \in changed : e.i = i /\ e.k = k
                 /\ (CHOOSE e \in mine : TRUE).comp = comp(i, k)
                 /\ (CHOOSE e \in changed : e.i = i /\ e.k = k).comp = comp(i, k)
  BY <1>3
<1>5. new = Replay(p, s)
  BY <1>2, <1>4 DEF Replay
<1>. QED  BY <1>2, <1>5

(* The edits of a result lift, replayed, give its program.                 *)
LEMMA ReplayResult ==
    ASSUME NEW p, NEW c, NEW cand, cand = ResultLiftCreate(p, c), cand.status = "ok",
           NEW s, s.lift = "result", s.i = c, s.edits = cand.edits, s.producer
           = cand.producer
    PROVE  cand.program = Replay(p, s)
<1>. DEFINE copy == p[c]
            j == ProducerOf(p, c)
            made == p[j]
            lane == [l \in copy.dst.mask |-> copy.src[1].sel[l]]
            comp(k) == [l \in Comp |->
                       IF l \notin copy.dst.mask THEN 1
                       ELSE IF made.src[k].kind = "imm" THEN lane[l]
                                ELSE made.src[k].sel[lane[l]]]
            changed == {[i |-> c, k |-> k, comp |-> comp(k)] : k \in DOMAIN made.src}
            new == [p EXCEPT ![j] = Nop,
                  ![c] = [made EXCEPT !.dst = copy.dst,
                                      !.src = [k \in DOMAIN @ |-> Select(@[k], comp(k))]]]
<1>1. cand = [status |-> "ok", producer |-> j, edits |-> changed, program |-> new]
  BY DEF ResultLiftCreate, Failed
<1>2. s.edits = changed /\ cand.program = new /\ s.producer = j
  <2>. HIDE DEF changed, new, j
  <2>. QED  BY <1>1
<1>. HIDE DEF comp
<1>3. ASSUME NEW k \in DOMAIN made.src
      PROVE  (CHOOSE e \in changed : e.i = c /\ e.k = k).comp = comp(k)
  <2>1. [i |-> c, k |-> k, comp |-> comp(k)] \in changed
    OBVIOUS
  <2>2. ASSUME NEW e \in changed, e.k = k PROVE e.comp = comp(k)
    BY <2>2
  <2>. HIDE DEF changed
  <2>. QED  BY <2>1, <2>2
<1>. HIDE DEF changed
<1>. DEFINE f == [k \in DOMAIN made.src |-> Select(made.src[k], comp(k))]
            g == [k \in DOMAIN made.src |->
                    Select(made.src[k], (CHOOSE e \in changed : e.i = c /\ e.k = k).comp)]
            with(h) == [p EXCEPT ![j] = Nop,
                        ![c] = [made EXCEPT !.dst = p[c].dst, !.src = h]]
<1>4. f = g
  BY <1>3
<1>5. new = with(f)
  OBVIOUS
<1>6. Replay(p, s) = with(g)
  <2>. HIDE DEF j
  <2>. QED  BY <1>2 DEF Replay
<1>. HIDE DEF f, g, with
<1>. QED  BY <1>2, <1>4, <1>5, <1>6

(* The call verify_copy_lifts makes next.                                  *)
LEMMA AfterIs ==
    ASSUME NEW outcome
    PROVE  LET u == After(outcome)
           IN  /\ u = [step |-> u.step, lift |-> u.lift, i |-> u.i, cand |-> u.cand,
                       artifact |-> u.artifact]
               /\ u.step \in {"failed", "done", "try"}
               /\ u.lift \in {"copy", "result", "high level", "none"}
               /\ u.lift = "none" => u.step \in {"done", "failed"}
               /\ u.step = "failed" => u.lift = "none"
               /\ at.lift = "baseline" /\ outcome # "verified" => u.step = "failed"
BY DEF After, Call

(* What is accepted stays as it is.                                        *)
Kept ==
    /\ TxnShape' /\ base' = base
    /\ txn'.program = txn.program /\ txn'.artifact = txn.artifact
           /\ txn'.result = txn.result
    /\ txn'.journal = txn.journal /\ txn'.high = txn.high

(* A step that keeps what is accepted keeps the account of it.             *)
LEMMA KeptAccounted ==
    ASSUME Accounted, Kept PROVE Accounted'
<1>1. CASE txn.artifact = Nothing
  BY <1>1 DEF Accounted, Kept, Nothing
<1>2. CASE txn.artifact # Nothing
  <2>1. Chained(base', txn'.journal, txn'.artifact)
    BY <1>2 DEF Accounted, Kept
  <2>2. Chained(base, txn.journal, txn.artifact)'
    BY <2>1
  <2>. QED  BY <1>2, <2>2 DEF Accounted, Kept
<1>. QED  BY <1>1, <1>2

(* A call that returns without accepting keeps the invariant.              *)
LEMMA ReturnInv ==
    ASSUME TInv, Kept, NEW outcome, Return(outcome),
           outcome # "verified" \/ at.lift # "baseline",
           at.lift # "none"
    PROVE  TInv'
<1>1. CallShape' /\ InHand'
  BY AfterIs DEF Return, CallShape, InHand
<1>2. Unaccepted'
  <2>1. /\ at'.step \in {"failed", "done", "try"}
        /\ at'.lift \in {"copy", "result", "high level", "none"}
        /\ at'.lift = "none" => at'.step \in {"done", "failed"}
        /\ at'.step = "failed" => at'.lift = "none"
        /\ at.lift = "baseline" => at'.step = "failed"
    BY AfterIs DEF Return
  <2>2. Unaccepted /\ base' = base /\ txn'.artifact = txn.artifact
            /\ txn'.program = txn.program
        /\ txn'.result = txn.result /\ txn'.journal = txn.journal
    BY DEF TInv, Kept
  <2>. QED  BY <2>1, <2>2 DEF Unaccepted, Nothing
<1>3. Accounted' /\ \E S : txn'.journal \in Seq(S)
  BY KeptAccounted DEF TInv, Kept
<1>. QED  BY <1>1, <1>2, <1>3 DEF TInv, Kept

(* A control that stops, and a step that leaves the transaction alone,     *)
(* keep what is accepted.                                                  *)
LEMMA StopIs ==
    ASSUME TInv, NEW outcome, txn' = [txn EXCEPT !.ctl = outcome], base' = base PROVE Kept
BY DEF TInv, TxnShape, Kept

LEMMA SameIs == ASSUME TInv, txn' = txn, base' = base PROVE Kept
BY DEF TInv, TxnShape, Kept

(* Each step of the transaction keeps the invariant.                       *)
LEMMA BeginInv == ASSUME TInv, Begin PROVE TInv'
<1>1. Kept
  BY SameIs DEF Begin
<1>2. at.lift = "baseline" /\ txn.program = base /\ txn.artifact = Nothing
  BY DEF Begin, TInv, Unaccepted
<1>3. CASE asked = "clock unavailable"
  BY <1>1, <1>2, <1>3, ReturnInv DEF Begin
<1>4. CASE asked # "clock unavailable"
  <2>1. at' = [step |-> "made", lift |-> "baseline", i |-> at.i,
               cand |-> [status |-> "ok", program |-> base], artifact |-> at.artifact]
    BY <1>2, <1>4 DEF Begin, TInv, CallShape
  <2>2. CallShape' /\ InHand' /\ Unaccepted'
    BY <1>1, <1>2, <2>1 DEF Kept, CallShape, InHand, Unaccepted, Candidate, TInv
  <2>3. Accounted' /\ \E S : txn'.journal \in Seq(S)
    BY <1>1, KeptAccounted DEF TInv, Kept
  <2>. QED  BY <1>1, <2>2, <2>3 DEF TInv, Kept
<1>. QED  BY <1>3, <1>4

LEMMA TryInv == ASSUME TInv, Try PROVE TInv'
<1>0. at.step = "try" /\ at.lift \in {"copy", "result", "high level"} /\ base' = base
  BY DEF Try, TInv, Unaccepted
<1>1. CASE \E outcome : Stop(outcome)
  BY <1>0, <1>1, StopIs, ReturnInv DEF Stop
<1>2. CASE /\ txn' = [txn EXCEPT !.candidates = @ + 1]
           /\ at' = [at EXCEPT !.step = "made",
                     !.cand = Candidate(at.lift, at.i, txn.program)]
  <2>1. Kept
    BY <1>0, <1>2 DEF TInv, TxnShape, Kept
  <2>2. at' = [step |-> "made", lift |-> at.lift, i |-> at.i,
               cand |-> Candidate(at.lift, at.i, txn.program), artifact |-> at.artifact]
    BY <1>2 DEF TInv, CallShape
  <2>3. CallShape' /\ InHand' /\ Unaccepted'
    BY <1>0, <2>1, <2>2 DEF Kept, CallShape, InHand, Unaccepted, TInv
  <2>4. Accounted' /\ \E S : txn'.journal \in Seq(S)
    BY <2>1, KeptAccounted DEF TInv, Kept
  <2>. QED  BY <2>1, <2>3, <2>4 DEF TInv, Kept
<1>. QED  BY <1>1, <1>2 DEF Try, Candidate

LEMMA SendInv == ASSUME TInv, Send PROVE TInv'
<1>0. at.step = "made" /\ at.lift # "none" /\ base' = base
  BY DEF Send, TInv, Unaccepted
<1>1. CASE \E outcome : outcome # "verified" /\ Stop(outcome)
  BY <1>0, <1>1, StopIs, ReturnInv DEF Stop
<1>2. CASE \E outcome : outcome # "verified" /\ Return(outcome) /\ UNCHANGED txn
  BY <1>0, <1>2, SameIs, ReturnInv
<1>3. CASE /\ txn' = [txn EXCEPT !.compiles = @ + 1] /\ at' = [at EXCEPT !.step = "sent"]
           /\ at.cand.status = "ok"
  <2>1. Kept
    BY <1>0, <1>3 DEF TInv, TxnShape, Kept
  <2>2. at' = [step |-> "sent", lift |-> at.lift, i |-> at.i, cand |-> at.cand,
               artifact |-> at.artifact]
    BY <1>3 DEF TInv, CallShape
  <2>3. CallShape' /\ InHand' /\ Unaccepted'
    BY <1>0, <1>3, <2>1, <2>2 DEF Kept, CallShape, InHand, Unaccepted, TInv
  <2>4. Accounted' /\ \E S : txn'.journal \in Seq(S)
    BY <2>1, KeptAccounted DEF TInv, Kept
  <2>. QED  BY <2>1, <2>3, <2>4 DEF TInv, Kept
<1>. QED  BY <1>1, <1>2, <1>3 DEF Send

LEMMA AnswerInv == ASSUME TInv, Answer PROVE TInv'
<1>1. Kept
  BY SameIs DEF Answer
<1>2. PICK a \in Answers :
        at' = [at EXCEPT !.step = "answered",
                     !.artifact = [of |-> at.cand.program,
                                   high |-> at.lift = "high level",
                                   controls |-> controls, answer |-> a]]
  BY DEF Answer
<1>3. at' = [step |-> "answered", lift |-> at.lift, i |-> at.i, cand |-> at.cand,
             artifact |-> [of |-> at.cand.program, high |-> at.lift = "high level",
                           controls |-> controls, answer |-> a]]
  BY <1>2 DEF TInv, CallShape
<1>4. at.step = "sent"
  BY DEF Answer
<1>5. CallShape' /\ InHand' /\ Unaccepted'
  BY <1>1, <1>3, <1>4 DEF Kept, CallShape, InHand, Unaccepted, TInv
<1>6. Accounted' /\ \E S : txn'.journal \in Seq(S)
  BY <1>1, KeptAccounted DEF TInv, Kept
<1>. QED  BY <1>1, <1>5, <1>6 DEF TInv, Kept

(* A high level candidate has the program it started from.                 *)
LEMMA ReplayHigh == ASSUME NEW p, NEW s, s.lift = "high level" PROVE Replay(p, s) = p
BY DEF Replay

(* An artifact is not the absence of one.                                  *)
LEMMA ArtifactIsSomething ==
    ASSUME NEW r, NEW a, NEW b, NEW c, NEW d,
           r = [of |-> a, high |-> b, controls |-> c, answer |-> d]
    PROVE  r # Nothing /\ r.of = a /\ r.high = b
<1>1. DOMAIN r # {}
  OBVIOUS
<1>2. DOMAIN Nothing = {}
  BY DEF Nothing
<1>. QED  BY <1>1, <1>2

(* What record_step appends continues the chain of the journal.            *)
LEMMA AcceptIs ==
    ASSUME TInv, Accept, base' = base, at.step = "answered", at.lift # "none",
           at.artifact.answer = "equal", SameControls(at.artifact)
    PROVE  /\ TxnShape' /\ Accounted' /\ txn'.artifact # Nothing
           /\ \E S : txn'.journal \in Seq(S)
<1>. DEFINE j == txn.journal
            s == [lift |-> at.lift, i |-> at.i,
                  producer |-> IF at.lift = "high level" THEN 0 ELSE at.cand.producer,
                  edits |-> IF at.lift = "high level" THEN {} ELSE at.cand.edits,
                  before |-> txn.result, after |-> at.artifact]
            new == IF at.lift = "baseline" THEN j ELSE Append(j, s)
<1>1. txn' = [program |-> at.cand.program, artifact |-> at.artifact,
              result |-> at.artifact,
              journal |-> new, candidates |-> txn.candidates,
              compiles |-> txn.compiles, ctl |-> txn.ctl, high |-> at.lift = "high level"]
  <2>. HIDE DEF s
  <2>. QED  BY DEF Accept, TInv, TxnShape, s
<1>2. /\ at.artifact = [of |-> at.cand.program, high |-> at.lift = "high level",
                        controls |-> at.artifact.controls, answer |-> at.artifact.answer]
      /\ at.cand = Candidate(at.lift, at.i, txn.program) /\ at.cand.status = "ok"
  BY DEF TInv, InHand
<1>3. at.artifact # Nothing /\ at.artifact.of = at.cand.program
      /\ at.artifact.high = (at.lift = "high level")
  <2>. DEFINE hi == at.lift = "high level"
  <2>1. at.artifact = [of |-> at.cand.program, high |-> hi,
                       controls |-> at.artifact.controls, answer |-> at.artifact.answer]
    BY <1>2
  <2>. HIDE DEF hi
  <2>2. at.artifact # Nothing /\ at.artifact.of = at.cand.program /\ at.artifact.high = hi
    BY <2>1, ArtifactIsSomething
  <2>. QED  BY <2>2 DEF hi
<1>4. PICK S : j \in Seq(S)
  BY DEF TInv
<1>5. Chained(base, new, at.artifact) /\ \E T : new \in Seq(T)
  <2>1. CASE at.lift = "baseline"
    <3>1. j = <<>> /\ at.cand.program = base
      BY <2>1, <1>2 DEF TInv, Unaccepted, Candidate
    <3>. QED  BY <2>1, <3>1, <1>3, <1>4 DEF Chained
  <2>2. CASE at.lift # "baseline"
    <3>1. /\ txn.artifact # Nothing /\ txn.artifact = txn.result
                 /\ txn.artifact.of = txn.program
          /\ Chained(base, j, txn.artifact)
                 /\ at.artifact.controls = txn.artifact.controls
      BY <2>2 DEF TInv, Unaccepted, Accounted, SameControls
    <3>2. /\ new = Append(j, s) /\ new \in Seq(S \cup {s}) /\ Len(new) = Len(j) + 1
          /\ \A n \in DOMAIN j : new[n] = j[n]
          /\ new[Len(j) + 1] = s /\ DOMAIN new = 1..(Len(j) + 1) /\ DOMAIN j = 1..Len(j)
          /\ Len(j) \in Nat
      <4>. HIDE DEF s, j
      <4>1. new = Append(j, s)
        BY <2>2
      <4>2. j \in Seq(S \cup {s}) /\ s \in S \cup {s}
        BY <1>4
      <4>. HIDE DEF new
      <4>. QED  BY <4>1, <4>2
    <3>3. /\ s.lift = at.lift /\ s.i = at.i /\ s.before = txn.result
                 /\ s.after = at.artifact
          /\ at.lift # "high level" => s.producer = at.cand.producer
                 /\ s.edits = at.cand.edits
      OBVIOUS
    <3>. HIDE DEF s, new, j
    <3>4. Was(base, new, Len(j) + 1) = txn.program
      <4>1. CASE Len(j) = 0
        <5>1. j = <<>>
          BY <4>1, <1>4
        <5>. QED  BY <4>1, <5>1, <3>1 DEF Was, Chained
      <4>2. CASE Len(j) # 0
        <5>1. j # <<>> /\ Len(j) \in DOMAIN j /\ Len(j) + 1 # 1
          BY <4>2, <3>2
        <5>. QED  BY <5>1, <3>1, <3>2 DEF Was, Chained
      <4>. QED  BY <4>1, <4>2
    <3>5. \A n \in DOMAIN j : Was(base, new, n) = Was(base, j, n)
      BY <3>2 DEF Was
    <3>6. at.cand.program = Replay(txn.program, s)
      <4>1. CASE at.lift = "copy"
        BY <4>1, <1>2, <3>3, ReplayCopy DEF Candidate
      <4>2. CASE at.lift = "result"
        BY <4>2, <1>2, <3>3, ReplayResult DEF Candidate
      <4>3. CASE at.lift = "high level"
        <5>1. Candidate("high level", at.i, txn.program).program = txn.program
          BY DEF Candidate
        <5>2. Replay(txn.program, s) = txn.program
          BY <4>3, <3>3, ReplayHigh
        <5>. QED  BY <4>3, <1>2, <5>1, <5>2
      <4>. QED  BY <4>1, <4>2, <4>3, <2>2 DEF TInv, Unaccepted
    <3>7. ASSUME NEW n \in DOMAIN new
          PROVE /\ new[n].before.of = Was(base, new, n)
                /\ new[n].after.of = Replay(Was(base, new, n), new[n])
                /\ new[n].before.controls = new[n].after.controls
                       /\ new[n].after.answer = "equal"
      <4>1. CASE n \in DOMAIN j
        BY <4>1, <3>1, <3>2, <3>5 DEF Chained
      <4>2. CASE n = Len(j) + 1
        BY <4>2, <3>1, <3>2, <3>3, <3>4, <3>6, <1>3
      <4>. QED  BY <4>1, <4>2, <3>2
    <3>8. new # <<>> /\ new[Len(new)].after = at.artifact
      <4>1. Len(new) # 0
        BY <3>2
      <4>. QED  BY <4>1, <3>2, <3>3
    <3>. QED  BY <3>2, <3>7, <3>8 DEF Chained
  <2>. QED  BY <2>1, <2>2
<1>. HIDE DEF new
<1>6. TxnShape' /\ txn'.artifact # Nothing
  BY <1>1, <1>3 DEF TxnShape
<1>7. Chained(base, txn.journal, txn.artifact)'
  <2>1. Chained(base', txn'.journal, txn'.artifact)
    BY <1>1, <1>5
  <2>. QED  BY <2>1
<1>8. Accounted'
  BY <1>1, <1>3, <1>7 DEF Accounted
<1>. QED  BY <1>1, <1>5, <1>6, <1>8

(* A verdict accepts what was compiled from the candidate, or nothing.     *)
LEMMA JudgeInv == ASSUME TInv, Judge PROVE TInv'
<1>. DEFINE v == Verdict(at.artifact)
<1>0. at.step = "answered" /\ at.lift # "none" /\ base' = base
  BY DEF Judge, TInv, Unaccepted
<1>1. CASE \E outcome : outcome # "verified" /\ Stop(outcome)
  BY <1>0, <1>1, StopIs, ReturnInv DEF Stop
<1>2. CASE v # "verified" /\ Return(v) /\ UNCHANGED txn
  BY <1>0, <1>2, SameIs, ReturnInv
<1>3. CASE v = "verified" /\ Accept /\ Return(v)
  <2>1. at.artifact.answer = "equal" /\ SameControls(at.artifact)
    <3>. HIDE DEF SameControls
    <3>1. at.artifact.answer \in Answers
      BY <1>0 DEF TInv, InHand
    <3>. QED  BY <1>3, <3>1 DEF Verdict, Answers
  <2>2. /\ TxnShape' /\ Accounted' /\ txn'.artifact # Nothing
        /\ \E S : txn'.journal \in Seq(S)
    BY <1>0, <1>3, <2>1, AcceptIs
  <2>3. /\ CallShape' /\ at'.step \in {"failed", "done", "try"}
        /\ at'.lift \in {"copy", "result", "high level", "none"}
        /\ at'.lift = "none" => at'.step \in {"done", "failed"}
        /\ at'.step = "failed" => at'.lift = "none"
    BY <1>3, AfterIs DEF Return, CallShape
  <2>4. InHand' /\ Unaccepted'
    BY <2>2, <2>3 DEF InHand, Unaccepted
  <2>. QED  BY <2>2, <2>3, <2>4 DEF TInv
<1>4. Terminal \cap {"verified"} = {}
  BY DEF Terminal
<1>. HIDE DEF v
<1>. QED  BY <1>1, <1>2, <1>3, <1>4 DEF Judge, Late, v

(* The invariant holds when the transaction begins and after every step.   *)
LEMMA TransactionInitInv == ASSUME TransactionInit PROVE TInv
<1>1. CallShape /\ TxnShape /\ InHand /\ Unaccepted /\ Accounted
  BY DEF TransactionInit, Call, CallShape, TxnShape, InHand, Unaccepted, Accounted
<1>2. txn.journal \in Seq({})
  BY DEF TransactionInit
<1>. QED  BY <1>1, <1>2 DEF TInv

LEMMA TransactionNextInv == ASSUME TInv, [TransactionStep]_tvars PROVE TInv'
<1>1. CASE UNCHANGED <<base, txn, at>>
  <2>1. Kept
    BY <1>1, SameIs
  <2>2. CallShape' /\ InHand' /\ Unaccepted'
    BY <1>1 DEF TInv, CallShape, InHand, Unaccepted
  <2>3. Accounted' /\ \E S : txn'.journal \in Seq(S)
    BY <2>1, KeptAccounted DEF TInv, Kept
  <2>. QED  BY <2>1, <2>2, <2>3 DEF TInv, Kept
<1>2. CASE Interrupt \/ Revise \/ UNCHANGED tvars
  BY <1>1, <1>2 DEF Interrupt, Revise, tvars
<1>. QED  BY <1>2, BeginInv, TryInv, SendInv, AnswerInv, JudgeInv DEF TransactionStep

(* AcceptedIsAccounted: at every moment of a transaction the accepted      *)
(* artifact was compiled from the accepted program, equals the target      *)
(* under the controls of the baseline, and the journal of record_step,     *)
(* replayed from the baseline, gives that program.                         *)
THEOREM JournalAccountsForTheSource ==
    TransactionInit /\ [][TransactionStep]_tvars => []AcceptedIsAccounted
<1>1. TransactionInit => TInv
  BY TransactionInitInv
<1>2. TInv /\ [TransactionStep]_tvars => TInv'
  BY TransactionNextInv
<1>3. TInv => AcceptedIsAccounted
  BY DEF TInv, Accounted, Chained, Was, AcceptedIsAccounted, Last
<1>. QED  BY <1>1, <1>2, <1>3, PTL

(* Once the control has stopped, no step changes what is accepted.         *)
LEMMA InterruptedKeeps ==
    ASSUME TInv, [TransactionStep]_tvars, asked # "verified"
    PROVE  txn'.program = txn.program /\ txn'.artifact = txn.artifact
               /\ txn'.journal = txn.journal
<1>1. CASE \E outcome : txn' = [txn EXCEPT !.ctl = outcome]
  BY <1>1 DEF TInv, TxnShape
<1>2. CASE txn' = txn
  BY <1>2
<1>3. Check # "verified"
  BY DEF Check
<1>4. CASE Judge
  BY <1>1, <1>3, <1>4 DEF Judge, Late, Stop
<1>5. CASE Try
  BY <1>1, <1>3, <1>5 DEF Try, Stop
<1>6. CASE Send
  BY <1>1, <1>3, <1>6 DEF Send, Stop
<1>7. CASE Begin \/ Answer \/ Interrupt \/ Revise \/ UNCHANGED tvars
  BY <1>2, <1>7 DEF Begin, Answer, Interrupt, Revise, tvars
<1>. QED  BY <1>4, <1>5, <1>6, <1>7 DEF TransactionStep

(* LateAnswersDiscarded: after a cancellation or the deadline, work_status *)
(* lets no answer of a compile change what is accepted.                    *)
THEOREM LateResponsesAreDiscarded ==
    TransactionInit /\ [][TransactionStep]_tvars => LateAnswersDiscarded
<1>1. TransactionInit => TInv
  BY TransactionInitInv
<1>2. TInv /\ [TransactionStep]_tvars => TInv'
  BY TransactionNextInv
<1>3. TInv /\ [TransactionStep]_tvars =>
        [at.step # "idle" /\ asked # "verified" =>
         txn'.program = txn.program /\ txn'.artifact = txn.artifact
             /\ txn'.journal = txn.journal]_tvars
  BY InterruptedKeeps
<1>. QED  BY <1>1, <1>2, <1>3, PTL DEF LateAnswersDiscarded

(* The order of the numbers, as the relation that has no descent.          *)
Below == {ss \in Nat \X Nat : ss[1] < ss[2]}

(* A set of numbers has a least one.                                       *)
LEMMA Least ==
    ASSUME NEW T, T \subseteq Nat, T # {} PROVE \E x \in T : \A y \in T : x <= y
<1>0. IsWellFoundedOn(Below, Nat)
  BY ONLY NatLessThanWellFounded, Zenon DEF OpToRel, Below
<1>1. \E x \in T : \A y \in T : ~(<<y, x>> \in Below)
  BY <1>0, WFMin
<1>2. PICK x \in T : \A y \in T : ~(<<y, x>> \in Below)
  BY <1>1
<1>3. \A y \in T : x <= y
  <2>1. ASSUME NEW y \in Nat, NEW z \in Nat, y < z PROVE <<y, z>> \in Below
    BY <2>1 DEF Below
  <2>2. \A y \in T : ~(y < x)
    BY <1>2, <2>1
  <2> QED  BY <2>2
<1> QED  BY <1>3

(* What holds at 0 and is kept by every step up to N holds up to N.        *)
LEMMA Climb ==
    ASSUME NEW N \in Nat, NEW Good, 0 \in Good,
           \A n \in 1..N : n - 1 \in Good => n \in Good
    PROVE  \A n \in 0..N : n \in Good
<1>. DEFINE Bad == {n \in 0..N : n \notin Good}
<1>1. Bad = {}
  <2>. SUFFICES ASSUME Bad # {} PROVE FALSE  OBVIOUS
  <2>1. PICK n \in Bad : \A m \in Bad : n <= m
    <3>1. Bad \subseteq Nat
      OBVIOUS
    <3>. HIDE DEF Bad
    <3>. QED  BY <3>1, Least
  <2>2. n # 0 /\ n - 1 \in 0..N /\ n \in 1..N
    OBVIOUS
  <2>3. n - 1 \notin Bad
    BY <2>1, <2>2
  <2>. QED  BY <2>2, <2>3
<1>. QED  BY <1>1

(* The contents of the registers as a function of the steps taken.         *)
Unset == [x \in Cells |-> <<"undefined">>]
(* f is the execution of the first N instructions of p.                    *)
IsRun(f, p, N) == f = [n \in 0..N |-> IF n = 0 THEN Unset ELSE Executed(f[n - 1], p[n])]

(* There is such an execution, so Contents is it.                          *)
LEMMA RunExists ==
    ASSUME NEW p, NEW N \in Nat PROVE \E f : IsRun(f, p, N)
<1>. DEFINE e(f, n) == IF n = 0 THEN Unset ELSE Executed(f[n - 1], p[n])
            Good == {m \in Nat : \E f : IsRun(f, p, m)}
<1>1. 0 \in Good
  <2>1. 0..0 = {0}
    OBVIOUS
  <2>2. IsRun([n \in {0} |-> Unset], p, 0)
    BY <2>1 DEF IsRun
  <2>. QED  BY <2>2
<1>2. ASSUME NEW m \in 1..N, m - 1 \in Good PROVE m \in Good
  <2>1. PICK f : IsRun(f, p, m - 1)
    BY <1>2
  <2>. DEFINE g == [n \in 0..m |-> IF n < m THEN f[n] ELSE Executed(f[m - 1], p[m])]
  <2>2. ASSUME NEW n \in 0..m PROVE g[n] = e(g, n)
    <3>0. n < m => f[n] = e(f, n)
      BY <2>1 DEF IsRun
    <3>1. CASE n = 0
      BY <3>0, <3>1
    <3>2. CASE n # 0
      <4>1. g[n - 1] = f[n - 1]
        BY <3>2
      <4>2. CASE n < m
        BY <4>1, <4>2, <3>0, <3>2
      <4>3. CASE n = m
        BY <4>1, <4>3, <3>2
      <4>. QED  BY <4>2, <4>3
    <3>. QED  BY <3>1, <3>2
  <2>3. g = [n \in 0..m |-> e(g, n)]
    <3>1. g = [n \in 0..m |-> g[n]]
      OBVIOUS
    <3>. HIDE DEF g
    <3>. QED  BY <3>1, <2>2
  <2>. HIDE DEF g
  <2>4. IsRun(g, p, m)
    BY <2>3 DEF IsRun
  <2>. QED  BY <2>4
<1>. HIDE DEF Good
<1>3. N \in Good
  BY <1>1, <1>2, Climb
<1>. QED  BY <1>3 DEF Good

LEMMA ContentsIs == ASSUME NEW p PROVE Contents(p) = CHOOSE f : IsRun(f, p, Len(p))
BY Zenon DEF Contents, IsRun, Unset

(* One step of the execution.                                              *)
LEMMA ContentsAt ==
    ASSUME NEW p, Len(p) \in Nat
    PROVE  /\ Contents(p)[0] = Unset
           /\ \A n \in 1..Len(p) : Contents(p)[n] = Executed(Contents(p)[n - 1], p[n])
<1>1. IsRun(Contents(p), p, Len(p))
  BY RunExists, ContentsIs
<1>. DEFINE f == Contents(p)
            e(n) == IF n = 0 THEN Unset ELSE Executed(f[n - 1], p[n])
<1>. HIDE DEF f
<1>2. f = [n \in 0..Len(p) |-> e(n)]
  BY <1>1 DEF IsRun, f
<1>3. \A n \in 0..Len(p) : f[n] = e(n)
  <2>. HIDE DEF e
  <2>. QED  BY <1>2
<1>4. f[0] = Unset /\ \A n \in 1..Len(p) : f[n] = Executed(f[n - 1], p[n])
  BY <1>3
<1>. QED  BY <1>4 DEF f

(* A program is a sequence of instructions.                                *)
LEMMA ProgramDomain ==
    ASSUME NEW p, IsProgram(p)
    PROVE  Len(p) \in Nat /\ DOMAIN p = 1..Len(p)
               /\ \A i \in DOMAIN p : IsInstruction(p[i])
BY DEF IsProgram

(* The cell x is one that inst writes.                                     *)
Hits(inst, x) == x[1] = Written(inst) /\ x[2] \in inst.dst.mask

(* What an instruction leaves in a cell.                                   *)
LEMMA ExecutedAt ==
    ASSUME NEW regs, NEW inst, NEW x \in Cells
    PROVE  Executed(regs, inst)[x] =
             IF Hits(inst, x) THEN InstructionTerm(regs, inst, x[2]) ELSE regs[x]
BY DEF Executed, Hits

(* An instruction writes a cell of a temporary if it names it.             *)
LEMMA HitsTemp ==
    ASSUME NEW inst, IsInstruction(inst), NEW x \in Cells
    PROVE  /\ WritesTemp(inst, x[1], x[2]) => Hits(inst, x) /\ x[1] \in Registers
           /\ Hits(inst, x) /\ x[1] \in Registers => WritesTemp(inst, x[1], x[2])
           /\ Hits(inst, x) /\ inst.dst.kind = "temp" => WritesTemp(inst, x[1], x[2])
BY OutputIsNoRegister DEF IsInstruction, WritesTemp, Hits, Written, Cells

(* The lanes of the temporaries are cells.                                 *)
LEMMA TempCell == ASSUME NEW r \in Registers, NEW m \in Comp PROVE <<r, m>> \in Cells
BY DEF Cells

(* A lane nobody writes keeps its contents.                                *)
LEMMA Untouched ==
    ASSUME NEW p, IsProgram(p), NEW r \in Registers, NEW m \in Comp,
           NEW b \in 0..Len(p), NEW a \in 0..b,
           \A j \in (a + 1)..b : ~WritesTemp(p[j], r, m)
    PROVE  Contents(p)[b][<<r, m>>] = Contents(p)[a][<<r, m>>]
<1>. DEFINE x == <<r, m>>
            Good == {n \in 0..b : n < a \/ Contents(p)[n][x] = Contents(p)[a][x]}
<1>0. Len(p) \in Nat /\ DOMAIN p = 1..Len(p) /\ x \in Cells
  BY ProgramDomain, TempCell
<1>1. 0 \in Good
  BY <1>0
<1>2. ASSUME NEW n \in 1..b, n - 1 \in Good PROVE n \in Good
  <2>1. CASE n <= a
    BY <2>1, <1>0
  <2>2. CASE n > a
    <3>1. n \in (a + 1)..b /\ n \in 1..Len(p) /\ IsInstruction(p[n])
      BY <2>2, <1>0, ProgramDomain
    <3>2. ~Hits(p[n], x)
      BY <3>1, <1>0, HitsTemp
    <3>3. Contents(p)[n][x] = Contents(p)[n - 1][x]
      BY <3>1, <3>2, <1>0, ContentsAt, ExecutedAt
    <3>. QED  BY <1>2, <2>2, <3>3
  <2>. QED  BY <2>1, <2>2, <1>0
<1>. HIDE DEF Good
<1>3. b \in Nat /\ b \in 0..b
  BY <1>0
<1>4. \A n \in 1..b : n - 1 \in Good => n \in Good
  BY <1>2
<1>5. b \in Good
  BY <1>1, <1>3, <1>4, Climb
<1>. QED  BY <1>5 DEF Good

(* rewrite_selection keeps an operand an operand, and lane l of the        *)
(* rewritten one reads what comp says.                                     *)
LEMMA SelectIs ==
    ASSUME NEW o, IsOperand(o), NEW comp \in [Comp -> Comp]
    PROVE  /\ IsOperand(Select(o, comp))
           /\ Select(o, comp).kind = o.kind /\ Select(o, comp).reg = o.reg
           /\ Select(o, comp).neg = o.neg
           /\ \A l \in Comp : Select(o, comp).sel[l] = IF o.kind = "imm"
                  THEN o.sel[comp[l]] ELSE comp[l]
<1>. DEFINE u == Select(o, comp)
            lanes == IF o.kind = "imm" THEN [l \in Comp |-> o.sel[comp[l]]] ELSE comp
<1>1. u = [kind |-> o.kind, reg |-> o.reg, sel |-> lanes, neg |-> o.neg]
  BY DEF Select, IsOperand
<1>2. lanes = [l \in Comp |-> lanes[l]] /\ (o.kind # "imm" => lanes \in [Comp -> Comp])
      /\ \A l \in Comp : lanes[l] = IF o.kind = "imm" THEN o.sel[comp[l]] ELSE comp[l]
  OBVIOUS
<1>. HIDE DEF u, lanes
<1>3. IsOperand(u)
  BY <1>1, <1>2 DEF IsOperand
<1>. QED  BY <1>1, <1>2, <1>3 DEF u

(* The operations a term is made of.                                       *)
LEMMA SameTerm ==
    ASSUME NEW one, IsInstruction(one), one.op \in {"mov", "add", "mul", "dp2", "nop",
           "ret"},
           NEW two, two.op = one.op, two.sat = one.sat, NEW before, NEW after,
           \A k \in DOMAIN one.src : \A m \in UsedLanes(one) :
               OperandTerm(after, two.src[k], m) = OperandTerm(before, one.src[k], m),
           NEW l \in one.dst.mask
    PROVE  InstructionTerm(after, two, l) = InstructionTerm(before, one, l)
<1>1. l \in Comp /\ l \in UsedLanes(one)
  BY DEF IsInstruction, UsedLanes
<1>2. CASE one.op = "mov"
  <2>1. OperandTerm(after, two.src[1], l) = OperandTerm(before, one.src[1], l)
    BY <1>1, <1>2 DEF IsInstruction
  <2>. QED  BY <1>2, <2>1 DEF InstructionTerm
<1>3. CASE one.op \in {"add", "mul"}
  <2>1. /\ OperandTerm(after, two.src[1], l) = OperandTerm(before, one.src[1], l)
        /\ OperandTerm(after, two.src[2], l) = OperandTerm(before, one.src[2], l)
    BY <1>1, <1>3 DEF IsInstruction
  <2>. QED  BY <1>3, <2>1 DEF InstructionTerm
<1>4. CASE one.op = "dp2"
  <2>1. UsedLanes(one) = {1, 2} /\ DOMAIN one.src = {1, 2}
    BY <1>4 DEF UsedLanes, Comp, IsInstruction
  <2>2. \A k \in {1, 2} : \A m \in {1, 2} :
            OperandTerm(after, two.src[k], m) = OperandTerm(before, one.src[k], m)
    BY <2>1
  <2>. QED  BY <1>4, <2>2 DEF InstructionTerm
<1>5. one.op \notin {"nop", "ret"}
  BY DEF IsInstruction
<1>. QED  BY <1>2, <1>3, <1>4, <1>5

(* After n steps the cell x still has what instruction w wrote into it.    *)
Stale(p, w, x, n) ==
    /\ w <= n /\ WritesTemp(p[w], x[1], x[2])
    /\ \A j \in (w + 1)..n : ~WritesTemp(p[j], x[1], x[2])
(* Everywhere else the two programs have computed the same.                *)
Agree(p, q, w, n) ==
    \A x \in Cells : ~Stale(p, w, x, n) => Contents(q)[n][x] = Contents(p)[n][x]

(* They have agreed at every step so far.                                  *)
AgreeUpTo(p, q, w, n) == \A b \in 0..n : Agree(p, q, w, b)

(* A program that drops the writes of w, and computes the others from what *)
(* agrees, has the outputs of the first.                                   *)
LEMMA Agreement ==
    ASSUME NEW p, IsProgram(p), NEW q, IsProgram(q), Len(q) = Len(p),
           NEW w \in DOMAIN p, p[w].dst.kind = "temp", q[w] = Nop,
           \A n \in DOMAIN p : n # w => q[n].dst = p[n].dst,
           \A n \in DOMAIN p : n # w /\ AgreeUpTo(p, q, w, n - 1) =>
               \A l \in p[n].dst.mask :
                   InstructionTerm(Contents(q)[n - 1], q[n], l)
                       = InstructionTerm(Contents(p)[n - 1], p[n], l)
    PROVE  Outputs(q) = Outputs(p)
<1>. DEFINE N == Len(p)
            Good == {n \in 0..N : AgreeUpTo(p, q, w, n)}
<1>0. N \in Nat /\ DOMAIN p = 1..N /\ DOMAIN q = 1..N /\ Len(q) = N /\ w \in 1..N
  BY ProgramDomain
<1>1. 0 \in Good
  <2>1. Contents(p)[0] = Unset /\ Contents(q)[0] = Unset
    BY <1>0, ContentsAt
  <2>2. Agree(p, q, w, 0)
    BY <2>1, <1>0 DEF Agree
  <2>. QED  BY <2>2, <1>0 DEF AgreeUpTo
<1>2. ASSUME NEW n \in 1..N, AgreeUpTo(p, q, w, n - 1), NEW x \in Cells,
             ~Stale(p, w, x, n)
      PROVE  Contents(q)[n][x] = Contents(p)[n][x]
  <2>a. Agree(p, q, w, n - 1)
    BY <1>2, <1>0 DEF AgreeUpTo
  <2>0. /\ Contents(p)[n] = Executed(Contents(p)[n - 1], p[n])
        /\ Contents(q)[n] = Executed(Contents(q)[n - 1], q[n])
        /\ n \in DOMAIN p /\ IsInstruction(p[n])
    BY <1>0, ContentsAt, ProgramDomain
  <2>1. /\ Contents(p)[n][x] = IF Hits(p[n], x)
               THEN InstructionTerm(Contents(p)[n - 1], p[n], x[2])
                               ELSE Contents(p)[n - 1][x]
        /\ Contents(q)[n][x] = IF Hits(q[n], x)
               THEN InstructionTerm(Contents(q)[n - 1], q[n], x[2])
                               ELSE Contents(q)[n - 1][x]
    BY <2>0, ExecutedAt
  <2>2. CASE n = w
    <3>1. ~Hits(p[n], x)
      <4>. SUFFICES ASSUME Hits(p[n], x) PROVE FALSE  OBVIOUS
      <4>1. WritesTemp(p[w], x[1], x[2])
        BY <2>0, <2>2, HitsTemp
      <4>. QED  BY <4>1, <1>2, <2>2 DEF Stale
    <3>2. ~Hits(q[n], x)
      BY <2>2 DEF Hits, Nop, NoOperand
    <3>3. ~Stale(p, w, x, n - 1)
      BY <2>2, <1>0 DEF Stale
    <3>. QED  BY <2>1, <3>1, <3>2, <3>3, <2>a DEF Agree
  <2>3. CASE n # w
    <3>1. Hits(q[n], x) <=> Hits(p[n], x)
      BY <2>0, <2>3 DEF Hits, Written
    <3>2. CASE Hits(p[n], x)
      <4>1. x[2] \in p[n].dst.mask
        BY <3>2 DEF Hits
      <4>. QED  BY <2>0, <2>1, <2>3, <3>1, <3>2, <4>1, <1>2
    <3>3. CASE ~Hits(p[n], x)
      <4>1. ~WritesTemp(p[n], x[1], x[2])
        BY <3>3, <2>0, HitsTemp
      <4>2. ~Stale(p, w, x, n - 1)
        BY <4>1, <1>2, <1>0, <2>3 DEF Stale
      <4>. QED  BY <2>1, <3>1, <3>3, <4>2, <2>a DEF Agree
    <3>. QED  BY <3>2, <3>3
  <2>. QED  BY <2>2, <2>3
<1>3. \A n \in 1..N : n - 1 \in Good => n \in Good
  <2>. SUFFICES ASSUME NEW n \in 1..N, n - 1 \in Good PROVE n \in Good  OBVIOUS
  <2>1. AgreeUpTo(p, q, w, n - 1)
    OBVIOUS
  <2>2. Agree(p, q, w, n)
    BY <1>2, <2>1 DEF Agree
  <2>. QED  BY <1>0, <2>1, <2>2 DEF AgreeUpTo
<1>. HIDE DEF Good
<1>4. N \in Good
  <2>1. N \in 0..N
    BY <1>0
  <2>. QED  BY <1>0, <1>1, <1>3, <2>1, Climb
<1>5. Agree(p, q, w, N)
  BY <1>0, <1>4 DEF Good, AgreeUpTo
<1>6. ASSUME NEW l \in Comp
      PROVE  Contents(q)[N][<<"output", l>>] = Contents(p)[N][<<"output", l>>]
  <2>1. <<"output", l>> \in Cells
    BY DEF Cells
  <2>2. ~WritesTemp(p[w], "output", l)
    BY <1>0, ProgramDomain, OutputIsNoRegister DEF WritesTemp, IsInstruction
  <2>3. ~Stale(p, w, <<"output", l>>, N)
    BY <2>2 DEF Stale
  <2>. QED  BY <1>5, <2>1, <2>3 DEF Agree
<1>. QED  BY <1>0, <1>6 DEF Outputs

(* The contents a definition leaves for a later reader.                    *)
LEMMA DefinedBy ==
    ASSUME NEW p, IsProgram(p), NEW i \in DOMAIN p, NEW r \in Registers, NEW m \in Comp,
           NEW d \in DOMAIN p, IsLastWriter(p, i, r, m, d)
    PROVE  Contents(p)[i - 1][<<r, m>>] = InstructionTerm(Contents(p)[d - 1], p[d], m)
<1>0. Len(p) \in Nat /\ DOMAIN p = 1..Len(p) /\ IsInstruction(p[d]) /\ <<r, m>> \in Cells
  BY ProgramDomain, TempCell
<1>1. d \in 0..(i - 1) /\ i - 1 \in 0..Len(p) /\ WritesTemp(p[d], r, m)
      /\ \A j \in (d + 1)..(i - 1) : ~WritesTemp(p[j], r, m)
  BY <1>0 DEF IsLastWriter
<1>2. Contents(p)[i - 1][<<r, m>>] = Contents(p)[d][<<r, m>>]
  BY <1>1, Untouched
<1>3. Hits(p[d], <<r, m>>)
  <2>1. WritesTemp(p[d], <<r, m>>[1], <<r, m>>[2])
    BY <1>1
  <2>. QED  BY <2>1, <1>0, HitsTemp
<1>4. Contents(p)[d] = Executed(Contents(p)[d - 1], p[d])
  BY <1>0, ContentsAt
<1>5. Contents(p)[d][<<r, m>>] = InstructionTerm(Contents(p)[d - 1], p[d], m)
  BY <1>0, <1>3, <1>4, ExecutedAt
<1>. QED  BY <1>2, <1>5

(* There is one last writer.                                               *)
LEMMA WriterUnique ==
    ASSUME NEW p, NEW i \in Nat, NEW r, NEW m, NEW d, NEW e,
           IsLastWriter(p, i, r, m, d), IsLastWriter(p, i, r, m, e)
    PROVE  d = e
<1>1. d \in 0..(i - 1) /\ e \in 0..(i - 1)
  BY DEF IsLastWriter
<1>2. ~(d < e)
  BY <1>1 DEF IsLastWriter
<1>3. ~(e < d)
  BY <1>1 DEF IsLastWriter
<1>. QED  BY <1>1, <1>2, <1>3

(* A cell that is stale before i was last written by w.                    *)
LEMMA StaleWriter ==
    ASSUME NEW p, NEW i \in Nat, NEW w \in Nat, w > 0, NEW r, NEW m,
           Stale(p, w, <<r, m>>, i - 1)
    PROVE  IsLastWriter(p, i, r, m, w)
BY DEF Stale, IsLastWriter

(* The later operands that name the register of the copy at c, those that  *)
(* are rewritten, and the components they take.                            *)
CopyUses(p, c) ==
    {q \in ((c + 1)..Len(p)) \X {1, 2} :
        /\ q[2] \in DOMAIN p[q[1]].src /\ p[q[1]].src[q[2]].kind = "temp"
        /\ p[q[1]].src[q[2]].reg = p[c].dst.reg}
Rewritten(p, c, i, k) == <<i, k>> \in CopyUses(p, c)
    /\ UseStatus(p, Context(p), c, i, k) = "ok"
UseComponents(p, c, i, k) ==
    SourceComponents(p, CopiedLanes(p, Context(p), c, i, k), c, i, k)

(* hlsl_copy_lift_create when it succeeds.                                 *)
LEMMA CopyLiftIs ==
    ASSUME NEW p, NEW c, NEW cand, cand = CopyLiftCreate(p, c), cand.status = "ok"
    PROVE  /\ ValidateRegion(p)
           /\ p[c].op = "mov" /\ ~p[c].sat /\ p[c].dst.kind = "temp" /\ Plain(p[c].src[1])
           /\ p[c].src[1].kind \in {"temp", "input"}
           /\ \A u \in CopyUses(p, c) : UseStatus(p, Context(p), c, u[1],
                  u[2]) \in {"ok", "none"}
           /\ cand.program = [i \in DOMAIN p |->
                  IF i = c THEN Nop
                  ELSE [p[i] EXCEPT !.src = [k \in DOMAIN p[i].src |->
                          IF Rewritten(p, c, i, k) THEN Select(p[c].src[1],
                              UseComponents(p, c, i, k))
                          ELSE p[i].src[k]]]]
<1>. DEFINE ctx == Context(p)
            uses == CopyUses(p, c)
            outcome == [q \in uses |-> UseStatus(p, ctx, c, q[1], q[2])]
            comp(i, k) == UseComponents(p, c, i, k)
            changed == {[i |-> q[1], k |-> q[2], comp |-> comp(q[1], q[2])]
                         : q \in {u \in uses : outcome[u] = "ok"}}
            bad == {q \in uses : outcome[q] \notin {"ok", "none"}}
            of(i, k) == LET mine == {e \in changed : e.i = i /\ e.k = k}
                        IN IF mine = {} THEN p[i].src[k]
                           ELSE Select(p[c].src[1], (CHOOSE e \in mine : TRUE).comp)
            src(i) == [k \in DOMAIN p[i].src |-> of(i, k)]
            new == [i \in DOMAIN p |-> IF i = c THEN Nop ELSE [p[i] EXCEPT !.src = src(i)]]
<1>1. /\ ValidateRegion(p)
      /\ p[c].op = "mov" /\ ~p[c].sat /\ p[c].dst.kind = "temp" /\ Plain(p[c].src[1])
      /\ p[c].src[1].kind \in {"temp", "input"} /\ bad = {}
      /\ cand = [status |-> "ok", edits |-> changed, producer |-> c, program |-> new]
  <2>1. bad # {} => outcome[CHOOSE q \in bad : TRUE] # "ok"
    OBVIOUS
  <2>. QED  BY <2>1 DEF CopyLiftCreate, Failed, CopyUses, UseComponents
<1>2. cand.program = new
  <2>. HIDE DEF new, changed
  <2>. QED  BY <1>1
<1>3. \A u \in uses : UseStatus(p, ctx, c, u[1], u[2]) \in {"ok", "none"}
  BY <1>1
<1>4. ASSUME NEW i, NEW k \in DOMAIN p[i].src
      PROVE  of(i, k) = IF Rewritten(p, c, i, k) THEN Select(p[c].src[1], comp(i, k))
                 ELSE p[i].src[k]
  <2>. DEFINE mine == {e \in changed : e.i = i /\ e.k = k}
  <2>. HIDE DEF comp
  <2>1. ASSUME NEW e \in changed, e.i = i, e.k = k
        PROVE  e.comp = comp(i, k) /\ Rewritten(p, c, i, k)
    <3>1. PICK q \in {u \in uses : outcome[u] = "ok"} : e
              = [i |-> q[1], k |-> q[2], comp |-> comp(q[1], q[2])]
      OBVIOUS
    <3>2. q[1] = i /\ q[2] = k /\ e.comp = comp(q[1], q[2])
      <4>. HIDE DEF uses, outcome, changed
      <4>. QED  BY <3>1, <2>1
    <3>3. q \in uses /\ outcome[q] = "ok"
      <4>. HIDE DEF uses, outcome
      <4>. QED  OBVIOUS
    <3>4. UseStatus(p, ctx, c, q[1], q[2]) = "ok"
      <4>. HIDE DEF uses
      <4>. QED  BY <3>3
    <3>5. q = <<q[1], q[2]>>
      <4>1. uses \subseteq ((c + 1)..Len(p)) \X {1, 2}
        BY DEF CopyUses
      <4>. HIDE DEF uses, outcome
      <4>. QED  BY <3>3, <4>1
    <3>. QED  BY <3>2, <3>3, <3>4, <3>5 DEF Rewritten
  <2>2. ASSUME Rewritten(p, c, i, k) PROVE \E e \in changed : e.i = i /\ e.k = k
    <3>1. <<i, k>> \in uses /\ outcome[<<i, k>>] = "ok"
      BY <2>2 DEF Rewritten
    <3>2. [i |-> i, k |-> k, comp |-> comp(i, k)] \in changed
      <4>. HIDE DEF uses, outcome
      <4>. QED  BY <3>1
    <3>. HIDE DEF changed
    <3>. QED  BY <3>2
  <2>. HIDE DEF changed
  <2>3. CASE mine = {}
    BY <2>2, <2>3
  <2>4. CASE mine # {}
    <3>1. (CHOOSE e \in mine : TRUE).comp = comp(i, k) /\ Rewritten(p, c, i, k)
      BY <2>1, <2>4
    <3>. HIDE DEF mine
    <3>2. of(i, k) = Select(p[c].src[1], (CHOOSE e \in mine : TRUE).comp)
      BY <2>4 DEF mine
    <3>. QED  BY <3>1, <3>2
  <2>. QED  BY <2>3, <2>4
<1>5. ASSUME NEW i
      PROVE  src(i) = [k \in DOMAIN p[i].src |->
                          IF Rewritten(p, c, i, k) THEN Select(p[c].src[1], comp(i, k))
                              ELSE p[i].src[k]]
  <2>. HIDE DEF of, comp
  <2>. QED  BY <1>4
<1>. HIDE DEF src
<1>6. new = [i \in DOMAIN p |->
                  IF i = c THEN Nop
                  ELSE [p[i] EXCEPT !.src = [k \in DOMAIN p[i].src |->
                          IF Rewritten(p, c, i, k) THEN Select(p[c].src[1], comp(i, k))
                          ELSE p[i].src[k]]]]
  BY <1>5
<1>. QED  BY <1>1, <1>2, <1>3, <1>6

(* The conditions under which hlsl_copy_lift_create succeeds.              *)
LEMMA CopyGuards ==
    ASSUME NEW p, NEW c, NEW cand, cand = CopyLiftCreate(p, c), cand.status = "ok"
    PROVE  /\ ValidateRegion(p)
           /\ p[c].op = "mov" /\ ~p[c].sat /\ p[c].dst.kind = "temp" /\ Plain(p[c].src[1])
           /\ p[c].src[1].kind \in {"temp", "input"}
           /\ \A u \in CopyUses(p, c) : UseStatus(p, Context(p), c, u[1],
                  u[2]) \in {"ok", "none"}
<1>. DEFINE X == [i \in DOMAIN p |->
                  IF i = c THEN Nop
                  ELSE [p[i] EXCEPT !.src = [k \in DOMAIN p[i].src |->
                          IF Rewritten(p, c, i, k) THEN Select(p[c].src[1],
                              UseComponents(p, c, i, k))
                          ELSE p[i].src[k]]]]
<1>1. /\ ValidateRegion(p)
      /\ p[c].op = "mov" /\ ~p[c].sat /\ p[c].dst.kind = "temp" /\ Plain(p[c].src[1])
      /\ p[c].src[1].kind \in {"temp", "input"}
      /\ \A u \in CopyUses(p, c) : UseStatus(p, Context(p), c, u[1], u[2]) \in {"ok",
             "none"}
      /\ cand.program = X
  BY CopyLiftIs
<1>. HIDE DEF X
<1>. QED  BY <1>1

(* What a replaceable use, and one that does not read the copy, is.        *)
LEMMA UseOk ==
    ASSUME NEW p, NEW ctx, NEW c, NEW i, NEW k
    PROVE  /\ UseStatus(p, ctx, c, i, k) = "none" => CopiedLanes(p, ctx, c, i, k) = {}
           /\ UseStatus(p, ctx, c, i, k) = "ok" =>
                /\ CopiedLanes(p, ctx, c, i, k) = UsedLanes(p[i])
                /\ Plain(p[i].src[k])
                /\ ~Immutable(p[c].src[1]) =>
                     \A l \in CopiedLanes(p, ctx, c, i, k) :
                        LET x == <<p[c].src[1].reg,
                            SourceComponents(p, CopiedLanes(p, ctx, c, i, k), c, i,
                                             k)[l]>>
                        IN  ctx.prov[c][x].by = ctx.prov[i][x].by
BY DEF UseStatus

(* A function on 1..n is a sequence.                                       *)
LEMMA FunctionIsSeq ==
    ASSUME NEW n \in Nat, NEW S, NEW f \in [1..n -> S]
    PROVE  f \in Seq(Range(f)) /\ Len(f) = n /\ DOMAIN f = 1..n
<1>0. DOMAIN f = 1..n /\ f = [x \in 1..n |-> f[x]]
  OBVIOUS
<1>1. \A x \in 1..n : f[x] \in Range(f)
  BY <1>0 DEF Range
<1>. DEFINE R == Range(f)
<1>. HIDE DEF R
<1>2. f \in [1..n -> R]
  BY <1>0, <1>1 DEF R
<1>3. f \in Seq(R) /\ Len(f) = n
  BY <1>2
<1>. QED  BY <1>0, <1>3 DEF R

(* The sources of an instruction are numbered from 1.                      *)
LEMMA SourcesAre ==
    ASSUME NEW inst, IsInstruction(inst)
    PROVE  \E n \in Nat : DOMAIN inst.src = 1..n
BY DEF IsInstruction

(* An operand whose cell has the same contents has the same term.          *)
LEMMA SameOperand ==
    ASSUME NEW before, NEW after, NEW o, NEW m,
           o.kind = "temp" => after[<<o.reg, o.sel[m]>>] = before[<<o.reg, o.sel[m]>>]
    PROVE  OperandTerm(after, o, m) = OperandTerm(before, o, m)
BY DEF OperandTerm

(* The term of an operand without modifiers.                               *)
LEMMA PlainTerm ==
    ASSUME NEW regs, NEW o, Plain(o), NEW m
    PROVE  /\ o.kind = "temp" => OperandTerm(regs, o, m) = regs[<<o.reg, o.sel[m]>>]
           /\ o.kind = "input" => OperandTerm(regs, o, m) = <<"input", o.reg, o.sel[m]>>
           /\ o.kind = "imm" => OperandTerm(regs, o, m) = <<"word", o.sel[m]>>
BY DEF OperandTerm, Plain, Modified

(* An instruction with other sources of the same kind.                     *)
LEMMA WithSources ==
    ASSUME NEW inst, IsInstruction(inst), NEW src, NEW S, src \in [DOMAIN inst.src -> S],
           \A k \in DOMAIN inst.src : IsOperand(src[k]),
           NEW new, new = [op |-> inst.op, sat |-> inst.sat, dst |-> inst.dst,
                           src |-> src]
    PROVE  /\ IsInstruction(new) /\ new.op = inst.op /\ new.sat = inst.sat
                  /\ new.dst = inst.dst
           /\ new.src = src
<1>2. PICK n \in Nat : DOMAIN inst.src = 1..n
  BY SourcesAre
<1>3. src \in Seq(Range(src)) /\ DOMAIN src = DOMAIN inst.src
  <2>1. src \in [1..n -> S]
    BY <1>2
  <2>. QED  BY <1>2, <2>1, FunctionIsSeq
<1>4. new.op = inst.op /\ new.sat = inst.sat /\ new.dst = inst.dst /\ new.src = src
  OBVIOUS
<1>. QED  BY <1>3, <1>4 DEF IsInstruction

(* A nop is an instruction.                                                *)
LEMMA NopIs == IsInstruction(Nop)
<1>1. <<>> \in Seq(Range(<<>>)) /\ DOMAIN <<>> = {}
  OBVIOUS
<1>. QED  BY <1>1 DEF IsInstruction, Nop, NoOperand

(* The components that take the place of a use of a copy.                  *)
LEMMA CopyComponents ==
    ASSUME NEW p, IsProgram(p), NEW c \in DOMAIN p, p[c].op = "mov",
           p[c].src[1].kind \in {"temp", "input"},
           NEW i \in DOMAIN p, NEW k, <<i, k>> \in CopyUses(p, c)
    PROVE  /\ UseComponents(p, c, i, k) \in [Comp -> Comp]
           /\ \A l \in CopiedLanes(p, Context(p), c, i, k) \cap Comp :
                UseComponents(p, c, i, k)[l] = p[c].src[1].sel[p[i].src[k].sel[l]]
           /\ IsOperand(p[c].src[1]) /\ IsOperand(p[i].src[k])
<1>1. k \in DOMAIN p[i].src /\ p[i].src[k].kind = "temp"
  BY DEF CopyUses
<1>2. IsOperand(p[i].src[k]) /\ IsOperand(p[c].src[1])
  BY <1>1 DEF IsProgram, IsInstruction
<1>3. p[i].src[k].sel \in [Comp -> Comp] /\ p[c].src[1].sel \in [Comp -> Comp]
  BY <1>1, <1>2 DEF IsOperand
<1>4. 1 \in Comp
  BY DEF Comp
<1>. QED  BY <1>2, <1>3, <1>4 DEF UseComponents, SourceComponents

(* The program a copy lift gives, instruction by instruction.              *)
LEMMA CopyWellFormed ==
    ASSUME NEW p, IsProgram(p), NEW c \in DOMAIN p,
           NEW cand, cand = CopyLiftCreate(p, c), cand.status = "ok"
    PROVE  /\ IsProgram(cand.program) /\ Len(cand.program) = Len(p)
                  /\ DOMAIN cand.program = DOMAIN p
           /\ cand.program[c] = Nop
           /\ \A i \in DOMAIN p : i # c =>
                /\ cand.program[i].op = p[i].op /\ cand.program[i].sat = p[i].sat
                /\ cand.program[i].dst = p[i].dst
                /\ \A k \in DOMAIN p[i].src :
                     cand.program[i].src[k] =
                        IF Rewritten(p, c, i, k) THEN Select(p[c].src[1],
                            UseComponents(p, c, i, k))
                        ELSE p[i].src[k]
<1>. DEFINE q == cand.program
            src(i) == [k \in DOMAIN p[i].src |->
                          IF Rewritten(p, c, i, k) THEN Select(p[c].src[1],
                              UseComponents(p, c, i, k))
                          ELSE p[i].src[k]]
<1>0. Len(p) \in Nat /\ DOMAIN p = 1..Len(p) /\ \A i \in DOMAIN p : IsInstruction(p[i])
  BY ProgramDomain
<1>1. /\ p[c].op = "mov" /\ p[c].src[1].kind \in {"temp", "input"}
      /\ q = [i \in DOMAIN p |-> IF i = c THEN Nop ELSE [p[i] EXCEPT !.src = src(i)]]
  BY CopyLiftIs
<1>. HIDE DEF q
<1>2. ASSUME NEW i \in DOMAIN p, i # c
      PROVE  /\ IsInstruction(q[i]) /\ q[i].op = p[i].op /\ q[i].sat = p[i].sat
                    /\ q[i].dst = p[i].dst
             /\ q[i].src = src(i)
  <2>1. ASSUME NEW k \in DOMAIN p[i].src PROVE IsOperand(src(i)[k])
    <3>1. CASE Rewritten(p, c, i, k)
      <4>1. <<i, k>> \in CopyUses(p, c)
        BY <3>1 DEF Rewritten
      <4>2. UseComponents(p, c, i, k) \in [Comp -> Comp] /\ IsOperand(p[c].src[1])
        BY <4>1, <1>1, CopyComponents
      <4>3. IsOperand(Select(p[c].src[1], UseComponents(p, c, i, k)))
        BY <4>2, SelectIs
      <4>. QED  BY <3>1, <4>3
    <3>2. CASE ~Rewritten(p, c, i, k)
      BY <3>2, <1>0 DEF IsInstruction
    <3>. QED  BY <3>1, <3>2
  <2>. DEFINE S == {src(i)[k] : k \in DOMAIN p[i].src}
  <2>2. src(i) \in [DOMAIN p[i].src -> S]
    OBVIOUS
  <2>. HIDE DEF src, S
  <2>3. q[i] = [op |-> p[i].op, sat |-> p[i].sat, dst |-> p[i].dst, src |-> src(i)]
    <3>1. q[i] = [p[i] EXCEPT !.src = src(i)]
      BY <1>1, <1>2
    <3>2. p[i] = [op |-> p[i].op, sat |-> p[i].sat, dst |-> p[i].dst, src |-> p[i].src]
      BY <1>0 DEF IsInstruction
    <3>. QED  BY <3>1, <3>2
  <2>4. IsInstruction(p[i]) /\ \A k \in DOMAIN p[i].src : IsOperand(src(i)[k])
    BY <1>0, <2>1
  <2>. DEFINE inst == p[i]
              s == src(i)
              new == q[i]
  <2>5. /\ IsInstruction(inst) /\ s \in [DOMAIN inst.src -> S]
               /\ \A k \in DOMAIN inst.src : IsOperand(s[k])
        /\ new = [op |-> inst.op, sat |-> inst.sat, dst |-> inst.dst, src |-> s]
    BY <2>2, <2>3, <2>4
  <2>. HIDE DEF inst, s, new
  <2>6. /\ IsInstruction(new) /\ new.op = inst.op /\ new.sat = inst.sat
               /\ new.dst = inst.dst
        /\ new.src = s
    BY <2>5, WithSources
  <2>. QED  BY <2>6 DEF inst, s, new
<1>3. q[c] = Nop
  BY <1>1
<1>. DEFINE T == {q[i] : i \in 1..Len(p)}
<1>4. q \in [1..Len(p) -> T]
  BY <1>0, <1>1
<1>5. IsProgram(q) /\ Len(q) = Len(p) /\ DOMAIN q = DOMAIN p
  <2>1. q \in Seq(Range(q)) /\ Len(q) = Len(p) /\ DOMAIN q = DOMAIN p
    <3>. HIDE DEF T
    <3>. QED  BY <1>0, <1>4, FunctionIsSeq
  <2>. HIDE DEF src
  <2>. QED  BY <2>1, <1>2, <1>3, NopIs DEF IsProgram
<1>6. \A i \in DOMAIN p : \A k \in DOMAIN p[i].src : src(i)[k] =
         IF Rewritten(p, c, i, k) THEN Select(p[c].src[1], UseComponents(p, c, i, k))
             ELSE p[i].src[k]
  OBVIOUS
<1>. HIDE DEF src
<1>. QED  BY <1>2, <1>3, <1>5, <1>6 DEF q

(* The lanes an instruction uses are components.                           *)
LEMMA LanesAre == ASSUME NEW inst, IsInstruction(inst)
PROVE UsedLanes(inst) \subseteq Comp
BY DEF IsInstruction, UsedLanes

(* What the context says of a temporary that is read.                      *)
LEMMA ReadDefinition ==
    ASSUME NEW p, IsProgram(p), IsContext(Context(p), p), NEW n \in DOMAIN p,
           NEW k \in DOMAIN p[n].src, NEW m \in UsedLanes(p[n]), p[n].src[k].kind = "temp"
    PROVE  /\ <<k, m>> \in Reads(p[n]) /\ m \in Comp
           /\ p[n].src[k].reg \in Registers /\ p[n].src[k].sel[m] \in Comp
           /\ IsLastWriter(p, n, p[n].src[k].reg, p[n].src[k].sel[m],
                           DefinitionOf(Context(p), n, k, m))
<1>1. IsInstruction(p[n]) /\ IsOperand(p[n].src[k])
  BY ProgramDomain DEF IsInstruction
<1>2. m \in Comp
  BY <1>1, LanesAre
<1>3. <<k, m>> \in Reads(p[n])
  BY <1>2 DEF Reads
<1>4. p[n].src[k].reg \in Registers /\ p[n].src[k].sel[m] \in Comp
  BY <1>1, <1>2 DEF IsOperand
<1>5. LET o == p[n].src[<<k, m>>[1]]
      IN IsLastWriter(p, n, o.reg, o.sel[<<k, m>>[2]],
                      DefinitionOf(Context(p), n, <<k, m>>[1], <<k, m>>[2]))
  BY <1>3 DEF IsContext
<1>. QED  BY <1>2, <1>3, <1>4, <1>5

(* Two operands that read the same lane of the same input.                 *)
LEMMA SameInput ==
    ASSUME NEW before, NEW after, NEW one, NEW two, NEW l, NEW m, one.kind
           = "input", two.kind = "input",
           two.reg = one.reg, two.neg = one.neg, two.sel[m] = one.sel[l]
    PROVE  OperandTerm(after, two, m) = OperandTerm(before, one, l)
BY DEF OperandTerm

(* What a use of the copy reads, read from the copy's source instead.      *)
LEMMA RewrittenUse ==
    ASSUME NEW p, IsProgram(p), NEW c \in DOMAIN p, IsContext(Context(p), p),
           NEW q, p[c].op = "mov", ~p[c].sat, Plain(p[c].src[1]),
           p[c].src[1].kind \in {"temp", "input"},
           NEW n \in DOMAIN p, Agree(p, q, c, n - 1),
           NEW k \in DOMAIN p[n].src, NEW m \in UsedLanes(p[n]), Rewritten(p, c, n, k)
    PROVE  OperandTerm(Contents(q)[n - 1],
                       Select(p[c].src[1], UseComponents(p, c, n, k)), m)
             = OperandTerm(Contents(p)[n - 1], p[n].src[k], m)
<1>. DEFINE s == p[c].src[1]
            o == p[n].src[k]
            comp == UseComponents(p, c, n, k)
            t == Select(s, comp)
            ctx == Context(p)
            lanes == CopiedLanes(p, ctx, c, n, k)
<1>0. Len(p) \in Nat /\ DOMAIN p = 1..Len(p) /\ c \in 1..Len(p) /\ n \in 1..Len(p)
  BY ProgramDomain
<1>1. <<n, k>> \in CopyUses(p, c) /\ UseStatus(p, ctx, c, n, k) = "ok" /\ c < n
          /\ o.kind = "temp"
  BY <1>0 DEF Rewritten, CopyUses
<1>2. /\ comp \in [Comp -> Comp] /\ IsOperand(s) /\ IsOperand(o)
      /\ \A l \in lanes \cap Comp : comp[l] = s.sel[o.sel[l]]
  BY <1>1, CopyComponents
<1>3. m \in lanes /\ Plain(o)
  BY <1>1, UseOk
<1>4. DefinitionOf(ctx, n, k, m) = c
  BY <1>3 DEF CopiedLanes
<1>5. m \in Comp /\ o.reg \in Registers /\ o.sel[m] \in Comp
          /\ IsLastWriter(p, n, o.reg, o.sel[m], c)
  BY <1>1, <1>4, ReadDefinition
<1>6. Contents(p)[n - 1][<<o.reg, o.sel[m]>>]
          = InstructionTerm(Contents(p)[c - 1], p[c], o.sel[m])
  BY <1>5, DefinedBy
<1>7. InstructionTerm(Contents(p)[c - 1], p[c], o.sel[m])
          = OperandTerm(Contents(p)[c - 1], s, o.sel[m])
  BY DEF InstructionTerm
<1>8. OperandTerm(Contents(p)[n - 1], o, m) = OperandTerm(Contents(p)[c - 1], s, o.sel[m])
  BY <1>1, <1>3, <1>6, <1>7, PlainTerm
<1>9. comp[m] = s.sel[o.sel[m]]
  BY <1>2, <1>3, <1>5
<1>10. IsOperand(t) /\ t.kind = s.kind /\ t.reg = s.reg /\ t.neg = s.neg
           /\ t.sel[m] = s.sel[o.sel[m]]
  <2>. HIDE DEF comp, s
  <2>1. s.kind # "imm"
    BY DEF s
  <2>. QED  BY <1>2, <1>5, <1>9, <2>1, SelectIs
<1>11. Plain(t)
  BY <1>10 DEF Plain
<1>. HIDE DEF t, comp, lanes
<1>12. CASE s.kind = "input"
  <2>1. OperandTerm(Contents(q)[n - 1], t, m)
            = OperandTerm(Contents(p)[c - 1], s, o.sel[m])
    BY <1>12, <1>10, SameInput
  <2>. QED  BY <2>1, <1>8 DEF t, comp
<1>13. CASE s.kind = "temp"
  <2>. DEFINE y == <<s.reg, s.sel[o.sel[m]]>>
              e == ctx.prov[c][y].by
  <2>1. s.reg \in Registers /\ s.sel[o.sel[m]] \in Comp /\ y \in Cells
    BY <1>13, <1>2, <1>5, TempCell DEF IsOperand
  <2>2. ctx.prov[n][y].by = e
    <3>1. ~Immutable(s)
      BY <1>13 DEF Immutable
    <3>2. LET x == <<p[c].src[1].reg,
              SourceComponents(p, CopiedLanes(p, ctx, c, n, k), c, n, k)[m]>>
          IN  ctx.prov[c][x].by = ctx.prov[n][x].by
      BY <3>1, <1>1, <1>3, UseOk DEF lanes
    <3>. QED  BY <3>2, <1>9 DEF comp, UseComponents
  <2>3. /\ IsLastWriter(p, c, s.reg, s.sel[o.sel[m]], e)
        /\ IsLastWriter(p, n, s.reg, s.sel[o.sel[m]], e)
    <3>. HIDE DEF s, o
    <3>1. \A i \in DOMAIN p : \A r \in Registers : \A j \in Comp : IsLastWriter(p, i, r,
              j, ctx.prov[i][<<r, j>>].by)
      BY DEF IsContext
    <3>. QED  BY <3>1, <2>1, <2>2
  <2>. HIDE DEF s, o
  <2>4. \A j \in c..(n - 1) : ~WritesTemp(p[j], s.reg, s.sel[o.sel[m]])
    <3>. HIDE DEF e
    <3>1. e \in 0..(c - 1) /\ \A j \in (e + 1)..(n - 1) : ~WritesTemp(p[j], s.reg,
              s.sel[o.sel[m]])
      BY <2>3 DEF IsLastWriter
    <3>2. \A j \in c..(n - 1) : j \in (e + 1)..(n - 1)
      BY <3>1, <1>0
    <3>. QED  BY <3>1, <3>2
  <2>5. Contents(p)[n - 1][y] = Contents(p)[c - 1][y]
    <3>1. n - 1 \in 0..Len(p) /\ c - 1 \in 0..(n - 1) /\ (c - 1) + 1 = c
      BY <1>0, <1>1
    <3>. QED  BY <3>1, <2>1, <2>4, Untouched
  <2>6. ~Stale(p, c, y, n - 1)
    BY <2>4, <1>0, <1>1 DEF Stale
  <2>7. Contents(q)[n - 1][y] = Contents(p)[n - 1][y]
    BY <2>1, <2>6 DEF Agree
  <2>8. OperandTerm(Contents(p)[c - 1], s, o.sel[m]) = Contents(p)[c - 1][y]
    BY <1>13, PlainTerm DEF s
  <2>9. OperandTerm(Contents(q)[n - 1], t, m) = Contents(q)[n - 1][y]
    BY <1>13, <1>10, <1>11, PlainTerm
  <2>. QED  BY <2>5, <2>7, <2>8, <2>9, <1>8 DEF t, comp, s, o
<1>. QED  BY <1>12, <1>13

(* An operand that is not rewritten does not read what the copy wrote.     *)
LEMMA OtherUse ==
    ASSUME NEW p, IsProgram(p), NEW c \in DOMAIN p, IsContext(Context(p), p), NEW q,
           \A u \in CopyUses(p, c) : UseStatus(p, Context(p), c, u[1], u[2]) \in {"ok",
               "none"},
           NEW n \in DOMAIN p, Agree(p, q, c, n - 1),
           NEW k \in DOMAIN p[n].src, NEW m \in UsedLanes(p[n]), ~Rewritten(p, c, n, k)
    PROVE  OperandTerm(Contents(q)[n - 1], p[n].src[k], m)
               = OperandTerm(Contents(p)[n - 1], p[n].src[k], m)
<1>. DEFINE o == p[n].src[k]
            x == <<o.reg, o.sel[m]>>
<1>0. /\ Len(p) \in Nat /\ DOMAIN p = 1..Len(p) /\ c \in 1..Len(p) /\ n \in 1..Len(p)
      /\ DOMAIN p[n].src \subseteq {1, 2}
  BY ProgramDomain DEF IsInstruction
<1>1. ASSUME o.kind = "temp" PROVE Contents(q)[n - 1][x] = Contents(p)[n - 1][x]
  <2>1. /\ m \in Comp /\ o.reg \in Registers /\ o.sel[m] \in Comp
        /\ IsLastWriter(p, n, o.reg, o.sel[m], DefinitionOf(Context(p), n, k, m))
    BY <1>1, ReadDefinition
  <2>2. ~Stale(p, c, x, n - 1)
    <3>. SUFFICES ASSUME Stale(p, c, x, n - 1) PROVE FALSE  OBVIOUS
    <3>1. IsLastWriter(p, n, o.reg, o.sel[m], c)
      <4>1. n \in Nat /\ c \in Nat /\ c > 0
        BY <1>0
      <4>. HIDE DEF o
      <4>. QED  BY <4>1, StaleWriter
    <3>2. DefinitionOf(Context(p), n, k, m) = c
      <4>1. n \in Nat
        BY <1>0
      <4>. HIDE DEF o
      <4>. QED  BY <4>1, <2>1, <3>1, WriterUnique
    <3>3. c <= n - 1 /\ o.reg = p[c].dst.reg
      BY DEF Stale, WritesTemp
    <3>4. <<n, k>> \in CopyUses(p, c)
      BY <3>3, <1>0, <1>1 DEF CopyUses
    <3>5. UseStatus(p, Context(p), c, n, k) = "none"
      <4>1. UseStatus(p, Context(p), c, <<n, k>>[1], <<n, k>>[2]) \in {"ok", "none"}
        BY <3>4
      <4>. QED  BY <4>1, <3>4 DEF Rewritten
    <3>6. m \in CopiedLanes(p, Context(p), c, n, k)
      BY <3>2 DEF CopiedLanes
    <3>. QED  BY <3>5, <3>6, UseOk
  <2>3. x \in Cells
    BY <2>1, TempCell
  <2>. QED  BY <2>2, <2>3 DEF Agree
<1>. HIDE DEF o
<1>2. OperandTerm(Contents(q)[n - 1], o, m) = OperandTerm(Contents(p)[n - 1], o, m)
  <2>1. o.kind = "temp" => Contents(q)[n - 1][<<o.reg, o.sel[m]>>]
            = Contents(p)[n - 1][<<o.reg, o.sel[m]>>]
    BY <1>1
  <2>. QED  BY <2>1 DEF OperandTerm
<1>. QED  BY <1>2 DEF o

(* A copy lift preserves what the program computes.                        *)
LEMMA CopyPreserves ==
    ASSUME NEW p, IsProgram(p), NEW c \in DOMAIN p,
           ValidateRegion(p) => IsContext(Context(p), p),
           NEW cand, cand = CopyLiftCreate(p, c), cand.status = "ok"
    PROVE  Outputs(cand.program) = Outputs(p)
<1>. DEFINE q == cand.program
<1>1. /\ IsProgram(q) /\ Len(q) = Len(p) /\ DOMAIN q = DOMAIN p
      /\ q[c] = Nop
      /\ \A i \in DOMAIN p : i # c =>
           /\ q[i].op = p[i].op /\ q[i].sat = p[i].sat /\ q[i].dst = p[i].dst
           /\ \A k \in DOMAIN p[i].src :
                q[i].src[k] = IF Rewritten(p, c, i, k)
                    THEN Select(p[c].src[1], UseComponents(p, c, i, k))
                              ELSE p[i].src[k]
  BY CopyWellFormed
<1>. HIDE DEF q
<1>2. /\ ValidateRegion(p) /\ p[c].op = "mov" /\ ~p[c].sat /\ p[c].dst.kind = "temp"
             /\ Plain(p[c].src[1])
      /\ p[c].src[1].kind \in {"temp", "input"}
      /\ \A u \in CopyUses(p, c) : UseStatus(p, Context(p), c, u[1], u[2]) \in {"ok",
             "none"}
  BY CopyGuards
<1>3. IsContext(Context(p), p)
  BY <1>2
<1>4. ASSUME NEW n \in DOMAIN p, n # c, Agree(p, q, c, n - 1), NEW l \in p[n].dst.mask
      PROVE  InstructionTerm(Contents(q)[n - 1], q[n], l)
                 = InstructionTerm(Contents(p)[n - 1], p[n], l)
  <2>1. ASSUME NEW k \in DOMAIN p[n].src, NEW m \in UsedLanes(p[n])
        PROVE  OperandTerm(Contents(q)[n - 1], q[n].src[k], m)
                   = OperandTerm(Contents(p)[n - 1], p[n].src[k], m)
    <3>1. CASE Rewritten(p, c, n, k)
      <4>1. q[n].src[k] = Select(p[c].src[1], UseComponents(p, c, n, k))
        BY <1>1, <1>4, <3>1
      <4>2. OperandTerm(Contents(q)[n - 1],
                        Select(p[c].src[1], UseComponents(p, c, n, k)), m)
              = OperandTerm(Contents(p)[n - 1], p[n].src[k], m)
        BY <1>2, <1>3, <1>4, <3>1, RewrittenUse
      <4>. QED  BY <4>1, <4>2
    <3>2. CASE ~Rewritten(p, c, n, k)
      <4>1. q[n].src[k] = p[n].src[k]
        BY <1>1, <1>4, <3>2
      <4>2. OperandTerm(Contents(q)[n - 1], p[n].src[k], m)
                = OperandTerm(Contents(p)[n - 1], p[n].src[k], m)
        BY <1>2, <1>3, <1>4, <3>2, OtherUse
      <4>. QED  BY <4>1, <4>2
    <3>. QED  BY <3>1, <3>2
  <2>2. IsInstruction(p[n]) /\ p[n].op \in {"mov", "add", "mul", "dp2", "nop", "ret"}
    BY <1>2, ProgramDomain DEF ValidateRegion
  <2>3. q[n].op = p[n].op /\ q[n].sat = p[n].sat
    BY <1>1, <1>4
  <2>. QED  BY <2>1, <2>2, <2>3, SameTerm
<1>5. \A n \in DOMAIN p : n # c => q[n].dst = p[n].dst
  BY <1>1
<1>6. ASSUME NEW n \in DOMAIN p, n # c, AgreeUpTo(p, q, c, n - 1), NEW l \in p[n].dst.mask
      PROVE  InstructionTerm(Contents(q)[n - 1], q[n], l)
                 = InstructionTerm(Contents(p)[n - 1], p[n], l)
  <2>1. n - 1 \in 0..(n - 1)
    BY ProgramDomain
  <2>. QED  BY <2>1, <1>6, <1>4 DEF AgreeUpTo
<1>7. Outputs(q) = Outputs(p)
  BY <1>1, <1>2, <1>5, <1>6, Agreement
<1>. QED  BY <1>7 DEF q

(* The producer is the nearest instruction before c that is not a nop.     *)
LEMMA ProducerIs ==
    ASSUME NEW p, NEW c \in Nat, ProducerOf(p, c) # 0
    PROVE  /\ ProducerOf(p, c) \in 1..(c - 1)
           /\ \A i \in (ProducerOf(p, c) + 1)..(c - 1) : p[i].op = "nop"
<1>. DEFINE before == {i \in 1..(c - 1) : p[i].op # "nop"}
            T == {c - i : i \in before}
<1>1. before # {} /\ ProducerOf(p, c) = CHOOSE i \in before : \A j \in before : j <= i
  BY DEF ProducerOf
<1>2. T \subseteq Nat /\ T # {}
  BY <1>1
<1>3. \E i \in before : \A j \in before : j <= i
  <2>1. PICK x \in T : \A y \in T : x <= y
    <3>. HIDE DEF T
    <3>. QED  BY <1>2, Least
  <2>2. PICK i \in before : x = c - i
    OBVIOUS
  <2>3. \A j \in before : c - i <= c - j
    BY <2>1, <2>2
  <2>. QED  BY <2>3
<1>. DEFINE g == CHOOSE i \in before : \A j \in before : j <= i
<1>4. g \in before /\ \A j \in before : j <= g
  <2>. HIDE DEF before
  <2>. QED  BY <1>3
<1>5. ProducerOf(p, c) = g
  BY <1>1
<1>. HIDE DEF g
<1>6. g \in 1..(c - 1) /\ \A i \in (g + 1)..(c - 1) : p[i].op = "nop"
  BY <1>4
<1>. QED  BY <1>5, <1>6

(* The components operand k of the moved operation takes.                  *)
MovedComponents(p, c, j, k) ==
    [l \in Comp |-> IF l \notin p[c].dst.mask THEN 1
                     ELSE IF p[j].src[k].kind = "imm" THEN p[c].src[1].sel[l]
                     ELSE p[j].src[k].sel[p[c].src[1].sel[l]]]

(* hlsl_result_lift_create when it succeeds.                               *)
ResultGuards(p, c, j) ==
    /\ ValidateRegion(p) /\ j # 0
    /\ p[c].op = "mov" /\ ~p[c].sat /\ p[c].dst.kind \in {"temp", "output"}
    /\ p[c].src[1].kind = "temp" /\ Plain(p[c].src[1])
    /\ p[j].op \in ResultOpcodes /\ ~p[j].sat /\ p[j].dst.kind = "temp"
    /\ p[j].dst.reg = p[c].src[1].reg /\ \A k \in DOMAIN p[j].src : Plain(p[j].src[k])
    /\ Range([l \in p[c].dst.mask |-> p[c].src[1].sel[l]]) = p[j].dst.mask
    /\ OnlyUse(p, Context(p), c, j)

ResultProgram(p, c, j) ==
    [p EXCEPT ![j] = Nop,
              ![c] = [p[j] EXCEPT !.dst = p[c].dst,
                        !.src = [k \in DOMAIN p[j].src |-> Select(p[j].src[k],
                            MovedComponents(p, c, j, k))]]]

LEMMA ResultLiftIs ==
    ASSUME NEW p, NEW c, NEW cand, cand = ResultLiftCreate(p, c), cand.status = "ok"
    PROVE  /\ ResultGuards(p, c, ProducerOf(p, c))
           /\ cand.program = ResultProgram(p, c, ProducerOf(p, c))
<1>. DEFINE j == ProducerOf(p, c)
            lane == [l \in p[c].dst.mask |-> p[c].src[1].sel[l]]
            comp(k) == [l \in Comp |->
                       IF l \notin p[c].dst.mask THEN 1
                       ELSE IF p[j].src[k].kind = "imm" THEN lane[l]
                                ELSE p[j].src[k].sel[lane[l]]]
            changed == {[i |-> c, k |-> k, comp |-> comp(k)] : k \in DOMAIN p[j].src}
            src == [k \in DOMAIN p[j].src |-> Select(p[j].src[k], comp(k))]
            new == [p EXCEPT ![j] = Nop,
                  ![c] = [p[j] EXCEPT !.dst = p[c].dst,
                          !.src = [k \in DOMAIN @ |-> Select(@[k], comp(k))]]]
            with(h) == [p EXCEPT ![j] = Nop,
                        ![c] = [p[j] EXCEPT !.dst = p[c].dst, !.src = h]]
<1>0. cand = [status |-> "ok", producer |-> j, edits |-> changed, program |-> new]
  BY DEF ResultLiftCreate, Failed
<1>a. Range(lane) = p[j].dst.mask
  BY DEF ResultLiftCreate, Failed
<1>b. OnlyUse(p, Context(p), c, j) /\ ValidateRegion(p)
  BY DEF ResultLiftCreate, Failed
<1>c. /\ p[c].op = "mov" /\ ~p[c].sat /\ p[c].dst.kind \in {"temp", "output"}
      /\ p[c].src[1].kind = "temp" /\ Plain(p[c].src[1])
  BY DEF ResultLiftCreate, Failed
<1>d. /\ j # 0 /\ p[j].op \in ResultOpcodes /\ ~p[j].sat /\ p[j].dst.kind = "temp"
      /\ p[j].dst.reg = p[c].src[1].reg /\ \A k \in DOMAIN p[j].src : Plain(p[j].src[k])
  BY DEF ResultLiftCreate, Failed
<1>. HIDE DEF j
<1>1. ResultGuards(p, c, j) /\ cand
          = [status |-> "ok", producer |-> j, edits |-> changed, program |-> new]
  BY <1>0, <1>a, <1>b, <1>c, <1>d DEF ResultGuards
<1>2. cand.program = new
  <2>. HIDE DEF new, changed, j
  <2>. QED  BY <1>1
<1>3. ASSUME NEW k PROVE comp(k) = MovedComponents(p, c, j, k)
  BY DEF MovedComponents
<1>. HIDE DEF comp
<1>5. new = with(src)
  OBVIOUS
<1>4. src = [k \in DOMAIN p[j].src |-> Select(p[j].src[k], MovedComponents(p, c, j, k))]
  BY <1>3
<1>. HIDE DEF src
<1>6. cand.program = ResultProgram(p, c, j)
  BY <1>2, <1>4, <1>5 DEF ResultProgram
<1>. QED  BY <1>1, <1>6 DEF j

(* The operation the copy becomes.                                         *)
Moved(p, c, j) ==
    [op |-> p[j].op, sat |-> p[j].sat, dst |-> p[c].dst,
     src |-> [k \in DOMAIN p[j].src |-> Select(p[j].src[k], MovedComponents(p, c, j, k))]]

(* The lanes of the copy stand for lanes the producer wrote.               *)
LEMMA MovedLanes ==
    ASSUME NEW p, IsProgram(p), NEW c \in DOMAIN p, NEW j \in DOMAIN p,
           ResultGuards(p, c, j),
           NEW l \in p[c].dst.mask
    PROVE  l \in Comp /\ p[c].src[1].sel[l] \in p[j].dst.mask
               /\ p[c].src[1].sel[l] \in Comp
<1>1. IsInstruction(p[c]) /\ IsInstruction(p[j])
  BY ProgramDomain
<1>. DEFINE lane == [i \in p[c].dst.mask |-> p[c].src[1].sel[i]]
<1>2. lane[l] \in Range(lane) /\ lane[l] = p[c].src[1].sel[l]
  BY DEF Range
<1>3. Range(lane) = p[j].dst.mask
  BY DEF ResultGuards
<1>. HIDE DEF lane
<1>. QED  BY <1>1, <1>2, <1>3 DEF IsInstruction

(* An operand of the moved operation reads on lane l what the operand of   *)
(* the producer read on the lane the copy took.                            *)
LEMMA MovedOperand ==
    ASSUME NEW p, IsProgram(p), NEW c \in DOMAIN p, NEW j \in DOMAIN p,
           ResultGuards(p, c, j),
           NEW k \in DOMAIN p[j].src, NEW t, t
           = Select(p[j].src[k], MovedComponents(p, c, j, k))
    PROVE  /\ IsOperand(t) /\ IsOperand(p[j].src[k]) /\ t.kind = p[j].src[k].kind
                  /\ t.reg = p[j].src[k].reg
           /\ t.neg = p[j].src[k].neg
           /\ \A l \in p[c].dst.mask : t.sel[l] = p[j].src[k].sel[p[c].src[1].sel[l]]
<1>. DEFINE o == p[j].src[k]
            s == p[c].src[1]
            comp == MovedComponents(p, c, j, k)
<1>1. IsInstruction(p[j]) /\ IsOperand(o)
  BY ProgramDomain DEF IsInstruction
<1>2. \A l \in p[c].dst.mask : l \in Comp /\ s.sel[l] \in Comp
  BY MovedLanes
<1>3. o.kind # "imm" => o.sel \in [Comp -> Comp]
  BY <1>1 DEF IsOperand
<1>. HIDE DEF o, s
<1>4. /\ comp \in [Comp -> Comp]
      /\ \A l \in p[c].dst.mask : comp[l] = IF o.kind = "imm" THEN s.sel[l]
             ELSE o.sel[s.sel[l]]
  <2>1. comp = [l \in Comp |-> IF l \notin p[c].dst.mask THEN 1
                               ELSE IF o.kind = "imm" THEN s.sel[l] ELSE o.sel[s.sel[l]]]
    BY DEF MovedComponents, o, s
  <2>2. 1 \in Comp
    BY DEF Comp
  <2>. HIDE DEF comp
  <2>. QED  BY <2>1, <2>2, <1>2, <1>3
<1>. HIDE DEF comp
<1>5. t = Select(o, comp)
  BY DEF o, comp
<1>6. /\ IsOperand(t) /\ t.kind = o.kind /\ t.reg = o.reg /\ t.neg = o.neg
      /\ \A l \in Comp : t.sel[l] = IF o.kind = "imm" THEN o.sel[comp[l]] ELSE comp[l]
  BY <1>1, <1>4, <1>5, SelectIs
<1>7. \A l \in p[c].dst.mask : t.sel[l] = o.sel[s.sel[l]]
  BY <1>2, <1>4, <1>6
<1>. QED  BY <1>1, <1>6, <1>7 DEF o, s

(* The moved operation is an instruction.                                  *)
LEMMA MovedIs ==
    ASSUME NEW p, IsProgram(p), NEW c \in DOMAIN p, NEW j \in DOMAIN p,
           ResultGuards(p, c, j)
    PROVE  IsInstruction(Moved(p, c, j))
<1>. DEFINE src == Moved(p, c, j).src
            of(k) == Select(p[j].src[k], MovedComponents(p, c, j, k))
            S == {of(k) : k \in DOMAIN p[j].src}
            new == Moved(p, c, j)
<1>1. IsInstruction(p[j]) /\ IsInstruction(p[c])
  BY ProgramDomain
<1>2. PICK n \in Nat : DOMAIN p[j].src = 1..n
  BY <1>1, SourcesAre
<1>. HIDE DEF of
<1>3. src = [k \in DOMAIN p[j].src |-> of(k)]
  BY DEF Moved, of
<1>. HIDE DEF src
<1>4. src \in [1..n -> S]
  BY <1>2, <1>3
<1>. HIDE DEF S
<1>5. src \in Seq(Range(src)) /\ DOMAIN src = DOMAIN p[j].src
  BY <1>2, <1>4, FunctionIsSeq
<1>6. \A k \in DOMAIN p[j].src : IsOperand(src[k])
  <2>1. ASSUME NEW k \in DOMAIN p[j].src PROVE IsOperand(of(k))
    BY MovedOperand DEF of
  <2>. QED  BY <1>3, <2>1
<1>7. new = [op |-> p[j].op, sat |-> p[j].sat, dst |-> p[c].dst, src |-> src]
  BY DEF Moved, src
<1>. HIDE DEF new
<1>8. new.op = p[j].op /\ new.sat = p[j].sat /\ new.dst = p[c].dst /\ new.src = src
  BY <1>7
<1>9. new.op \in {"add", "mul"} /\ new.dst.kind \in {"temp", "output"}
  BY <1>8 DEF ResultGuards, ResultOpcodes
<1>10. /\ (new.dst.kind = "temp" => new.dst.reg \in Registers)
              /\ new.dst.mask \subseteq Comp
       /\ DOMAIN new.src \subseteq {1, 2}
              /\ (p[j].op \in {"add", "mul", "dp2"} => DOMAIN new.src = {1, 2})
  BY <1>1, <1>5, <1>8 DEF IsInstruction
<1>11. IsInstruction(new)
  BY <1>5, <1>6, <1>7, <1>8, <1>9, <1>10 DEF IsInstruction
<1>. QED  BY <1>11 DEF new

(* The program a result lift gives, instruction by instruction.            *)
LEMMA ResultWellFormed ==
    ASSUME NEW p, IsProgram(p), NEW c \in DOMAIN p,
           NEW cand, cand = ResultLiftCreate(p, c), cand.status = "ok", NEW j, j
           = ProducerOf(p, c)
    PROVE  /\ ResultGuards(p, c, j) /\ j \in 1..(c - 1) /\ j \in DOMAIN p
           /\ \A i \in (j + 1)..(c - 1) : p[i].op = "nop"
           /\ IsProgram(cand.program) /\ Len(cand.program) = Len(p)
                  /\ DOMAIN cand.program = DOMAIN p
           /\ cand.program[j] = Nop /\ cand.program[c] = Moved(p, c, j)
           /\ \A i \in DOMAIN p : i \notin {j, c} => cand.program[i] = p[i]
<1>. DEFINE src == [k \in DOMAIN p[j].src |-> Select(p[j].src[k],
         MovedComponents(p, c, j, k))]
            new == [p[j] EXCEPT !.dst = p[c].dst, !.src = src]
            q == cand.program
<1>0. Len(p) \in Nat /\ DOMAIN p = 1..Len(p) /\ c \in Nat /\ p \in Seq(Range(p))
  BY ProgramDomain DEF IsProgram
<1>1. ResultGuards(p, c, j) /\ q = [p EXCEPT ![j] = Nop, ![c] = new]
  <2>1. ResultGuards(p, c, j) /\ q = ResultProgram(p, c, j)
    BY ResultLiftIs
  <2>. QED  BY <2>1 DEF ResultProgram
<1>2. j \in 1..(c - 1) /\ \A i \in (j + 1)..(c - 1) : p[i].op = "nop"
  BY <1>0, <1>1, ProducerIs DEF ResultGuards
<1>3. j \in DOMAIN p /\ j # c
  BY <1>0, <1>2
<1>4. new = Moved(p, c, j)
  <2>. HIDE DEF src
  <2>1. p[j] = [op |-> p[j].op, sat |-> p[j].sat, dst |-> p[j].dst, src |-> p[j].src]
    BY <1>3, ProgramDomain DEF IsInstruction
  <2>2. new = [op |-> p[j].op, sat |-> p[j].sat, dst |-> p[c].dst, src |-> src]
    <3>1. ASSUME NEW w, NEW x, NEW y, NEW z, NEW d, NEW s,
                 NEW u, u = [op |-> w, sat |-> x, dst |-> y, src |-> z], NEW v, v
                 = [u EXCEPT !.dst = d, !.src = s]
          PROVE  v = [op |-> w, sat |-> x, dst |-> d, src |-> s]
      BY <3>1
    <3>2. new = [p[j] EXCEPT !.dst = p[c].dst, !.src = src]
      OBVIOUS
    <3>. HIDE DEF new
    <3>. QED  BY <2>1, <3>1, <3>2, Zenon
  <2>. HIDE DEF new
  <2>. QED  BY <2>2 DEF Moved, src
<1>. HIDE DEF new, q
<1>5. /\ q[j] = Nop /\ q[c] = new /\ \A i \in DOMAIN p : i \notin {j, c} => q[i] = p[i]
      /\ DOMAIN q = DOMAIN p
  BY <1>0, <1>1, <1>3
<1>. DEFINE T == {q[i] : i \in 1..Len(p)}
<1>6. q \in [1..Len(p) -> T]
  BY <1>0, <1>1
<1>. HIDE DEF T
<1>7. q \in Seq(Range(q)) /\ Len(q) = Len(p)
  BY <1>0, <1>6, FunctionIsSeq
<1>8. \A i \in DOMAIN q : IsInstruction(q[i])
  BY <1>1, <1>3, <1>4, <1>5, NopIs, MovedIs, ProgramDomain
<1>9. IsProgram(q)
  BY <1>7, <1>8 DEF IsProgram
<1>. QED  BY <1>1, <1>2, <1>3, <1>4, <1>5, <1>7, <1>9 DEF q

(* A nop writes nothing.                                                   *)
LEMMA NopWrites ==
    ASSUME NEW inst, IsInstruction(inst), inst.op = "nop", NEW r, NEW m
    PROVE  ~WritesTemp(inst, r, m)
BY DEF IsInstruction, WritesTemp

(* An instruction other than the copy does not read the producer's result. *)
LEMMA UnmovedUse ==
    ASSUME NEW p, IsProgram(p), NEW c \in DOMAIN p, IsContext(Context(p), p), NEW q,
           NEW j \in DOMAIN p, OnlyUse(p, Context(p), c, j),
           NEW n \in DOMAIN p, n # c, Agree(p, q, j, n - 1),
           NEW k \in DOMAIN p[n].src, NEW m \in UsedLanes(p[n])
    PROVE  OperandTerm(Contents(q)[n - 1], p[n].src[k], m)
               = OperandTerm(Contents(p)[n - 1], p[n].src[k], m)
<1>. DEFINE o == p[n].src[k]
            x == <<o.reg, o.sel[m]>>
<1>0. Len(p) \in Nat /\ DOMAIN p = 1..Len(p) /\ j \in 1..Len(p) /\ n \in 1..Len(p)
  BY ProgramDomain
<1>1. ASSUME o.kind = "temp" PROVE Contents(q)[n - 1][x] = Contents(p)[n - 1][x]
  <2>1. /\ <<k, m>> \in Reads(p[n]) /\ o.reg \in Registers /\ o.sel[m] \in Comp
        /\ IsLastWriter(p, n, o.reg, o.sel[m], DefinitionOf(Context(p), n, k, m))
    BY <1>1, ReadDefinition
  <2>2. DefinitionOf(Context(p), n, k, m) # j
    <3>1. (DefinitionOf(Context(p), n, <<k, m>>[1], <<k, m>>[2]) = j) = (n = c)
      BY <2>1 DEF OnlyUse
    <3>. QED  BY <3>1
  <2>3. ~Stale(p, j, x, n - 1)
    <3>. SUFFICES ASSUME Stale(p, j, x, n - 1) PROVE FALSE  OBVIOUS
    <3>1. n \in Nat /\ j \in Nat /\ j > 0
      BY <1>0
    <3>. HIDE DEF o
    <3>2. IsLastWriter(p, n, o.reg, o.sel[m], j)
      BY <3>1, StaleWriter
    <3>. QED  BY <3>1, <3>2, <2>1, <2>2, WriterUnique
  <2>4. x \in Cells
    BY <2>1, TempCell
  <2>. QED  BY <2>3, <2>4 DEF Agree
<1>. HIDE DEF o
<1>2. OperandTerm(Contents(q)[n - 1], o, m) = OperandTerm(Contents(p)[n - 1], o, m)
  <2>1. o.kind = "temp" => Contents(q)[n - 1][<<o.reg, o.sel[m]>>]
            = Contents(p)[n - 1][<<o.reg, o.sel[m]>>]
    BY <1>1
  <2>. QED  BY <2>1 DEF OperandTerm
<1>. QED  BY <1>2 DEF o

(* What the copy read is what the producer computed.                       *)
LEMMA CopyReads ==
    ASSUME NEW p, IsProgram(p), NEW c \in DOMAIN p, IsContext(Context(p), p),
           NEW j \in DOMAIN p, ResultGuards(p, c, j), NEW l \in p[c].dst.mask
    PROVE  InstructionTerm(Contents(p)[c - 1], p[c], l)
             = InstructionTerm(Contents(p)[j - 1], p[j], p[c].src[1].sel[l])
<1>. DEFINE s == p[c].src[1]
<1>1. /\ p[c].op = "mov" /\ ~p[c].sat /\ s.kind = "temp" /\ Plain(s)
             /\ OnlyUse(p, Context(p), c, j)
  BY DEF ResultGuards
<1>2. 1 \in DOMAIN p[c].src /\ l \in UsedLanes(p[c])
  BY <1>1, ProgramDomain DEF IsInstruction, UsedLanes
<1>3. /\ <<1, l>> \in Reads(p[c]) /\ s.reg \in Registers /\ s.sel[l] \in Comp
      /\ IsLastWriter(p, c, s.reg, s.sel[l], DefinitionOf(Context(p), c, 1, l))
  BY <1>1, <1>2, ReadDefinition
<1>4. DefinitionOf(Context(p), c, 1, l) = j
  <2>1. (DefinitionOf(Context(p), c, <<1, l>>[1], <<1, l>>[2]) = j) = (c = c)
    BY <1>1, <1>3 DEF OnlyUse
  <2>. QED  BY <2>1
<1>5. Contents(p)[c - 1][<<s.reg, s.sel[l]>>]
          = InstructionTerm(Contents(p)[j - 1], p[j], s.sel[l])
  BY <1>3, <1>4, DefinedBy
<1>6. InstructionTerm(Contents(p)[c - 1], p[c], l) = OperandTerm(Contents(p)[c - 1], s, l)
  BY <1>1 DEF InstructionTerm
<1>7. OperandTerm(Contents(p)[c - 1], s, l) = Contents(p)[c - 1][<<s.reg, s.sel[l]>>]
  BY <1>1, PlainTerm
<1>. QED  BY <1>5, <1>6, <1>7

(* The shape of a program after a result lift.                             *)
ResultShape(p, q, c, j) ==
    /\ IsProgram(q) /\ Len(q) = Len(p) /\ ResultGuards(p, c, j) /\ j \in 1..(c - 1)
    /\ \A i \in (j + 1)..(c - 1) : p[i].op = "nop"
    /\ q[j] = Nop /\ \A i \in DOMAIN p : i \notin {j, c} => q[i] = p[i]

(* Where the copy was, the operands have what they had at the producer.    *)
LEMMA MovedUse ==
    ASSUME NEW p, IsProgram(p), NEW c \in DOMAIN p, NEW q, NEW j \in DOMAIN p,
           ResultShape(p, q, c, j),
           AgreeUpTo(p, q, j, c - 1),
           NEW k \in DOMAIN p[j].src, NEW l \in p[c].dst.mask,
           NEW t, t = Select(p[j].src[k], MovedComponents(p, c, j, k))
    PROVE  OperandTerm(Contents(q)[c - 1], t, l)
               = OperandTerm(Contents(p)[j - 1], p[j].src[k], p[c].src[1].sel[l])
<1>. DEFINE o == p[j].src[k]
            m == p[c].src[1].sel[l]
            x == <<o.reg, o.sel[m]>>
<1>a. /\ IsProgram(q) /\ Len(q) = Len(p) /\ ResultGuards(p, c, j) /\ j \in 1..(c - 1)
      /\ \A i \in (j + 1)..(c - 1) : p[i].op = "nop"
      /\ q[j] = Nop /\ \A i \in DOMAIN p : i \notin {j, c} => q[i] = p[i]
  BY DEF ResultShape
<1>0. Len(p) \in Nat /\ DOMAIN p = 1..Len(p) /\ DOMAIN q = 1..Len(p) /\ j \in 1..Len(p)
          /\ c \in 1..Len(p)
  BY <1>a, ProgramDomain
<1>1. t.kind = o.kind /\ t.reg = o.reg /\ t.neg = o.neg /\ IsOperand(o)
          /\ t.sel[l] = o.sel[m]
  BY <1>a, MovedOperand
<1>2. m \in Comp
  BY <1>a, MovedLanes
<1>. HIDE DEF o, m
<1>3. ASSUME o.kind = "temp" PROVE Contents(q)[c - 1][x] = Contents(p)[j - 1][x]
  <2>1. o.reg \in Registers /\ o.sel[m] \in Comp /\ x \in Cells
    BY <1>1, <1>2, <1>3, TempCell DEF IsOperand
  <2>2. ASSUME NEW i \in ((j - 1) + 1)..(c - 1) PROVE ~WritesTemp(q[i], o.reg, o.sel[m])
    <3>1. q[i].op = "nop" /\ i \in DOMAIN q
      BY <1>0, <1>a, <2>2 DEF Nop
    <3>. QED  BY <3>1, <1>a, NopWrites, ProgramDomain
  <2>3. Contents(q)[c - 1][x] = Contents(q)[j - 1][x]
    <3>1. c - 1 \in 0..Len(q) /\ j - 1 \in 0..(c - 1)
      BY <1>0, <1>a
    <3>. DEFINE a == j - 1
                b == c - 1
    <3>2. b \in 0..Len(q) /\ a \in 0..b
              /\ \A i \in (a + 1)..b : ~WritesTemp(q[i], o.reg, o.sel[m])
      BY <3>1, <2>2
    <3>. HIDE DEF a, b
    <3>3. Contents(q)[b][<<o.reg, o.sel[m]>>] = Contents(q)[a][<<o.reg, o.sel[m]>>]
      BY <1>a, <2>1, <3>2, Untouched
    <3>. QED  BY <3>3 DEF a, b
  <2>4. Agree(p, q, j, j - 1)
    BY <1>0, <1>a DEF AgreeUpTo
  <2>5. ~Stale(p, j, x, j - 1)
    BY <1>0 DEF Stale
  <2>. QED  BY <2>1, <2>3, <2>4, <2>5 DEF Agree
<1>4. OperandTerm(Contents(q)[c - 1], t, l) = OperandTerm(Contents(p)[j - 1], o, m)
  BY <1>1, <1>3 DEF OperandTerm
<1>. QED  BY <1>4 DEF o, m

(* A result lift preserves what the program computes.                      *)
LEMMA ResultPreserves ==
    ASSUME NEW p, IsProgram(p), NEW c \in DOMAIN p,
           ValidateRegion(p) => IsContext(Context(p), p),
           NEW cand, cand = ResultLiftCreate(p, c), cand.status = "ok"
    PROVE  Outputs(cand.program) = Outputs(p)
<1>. SUFFICES ASSUME NEW q, q = cand.program, NEW j, j = ProducerOf(p, c)
              PROVE Outputs(q) = Outputs(p)
  OBVIOUS
<1>1. /\ ResultGuards(p, c, j) /\ j \in 1..(c - 1) /\ j \in DOMAIN p
      /\ \A i \in (j + 1)..(c - 1) : p[i].op = "nop"
      /\ IsProgram(q) /\ Len(q) = Len(p) /\ DOMAIN q = DOMAIN p
      /\ q[j] = Nop /\ q[c] = Moved(p, c, j)
      /\ \A i \in DOMAIN p : i \notin {j, c} => q[i] = p[i]
  BY ResultWellFormed
<1>2. IsContext(Context(p), p) /\ OnlyUse(p, Context(p), c, j) /\ p[j].dst.kind = "temp"
  BY <1>1 DEF ResultGuards
<1>3. ASSUME NEW n \in DOMAIN p, n # j, AgreeUpTo(p, q, j, n - 1), NEW l \in p[n].dst.mask
      PROVE  InstructionTerm(Contents(q)[n - 1], q[n], l)
                 = InstructionTerm(Contents(p)[n - 1], p[n], l)
  <2>1. CASE n # c
    <3>1. Agree(p, q, j, n - 1)
      BY <1>3, ProgramDomain DEF AgreeUpTo
    <3>2. q[n] = p[n] /\ IsInstruction(p[n])
              /\ p[n].op \in {"mov", "add", "mul", "dp2", "nop", "ret"}
      BY <1>1, <1>3, <2>1, ProgramDomain DEF ResultGuards, ValidateRegion
    <3>3. \A k \in DOMAIN p[n].src : \A m \in UsedLanes(p[n]) :
             OperandTerm(Contents(q)[n - 1], p[n].src[k], m)
                 = OperandTerm(Contents(p)[n - 1], p[n].src[k], m)
      <4>. SUFFICES ASSUME NEW k \in DOMAIN p[n].src, NEW m \in UsedLanes(p[n])
                    PROVE  OperandTerm(Contents(q)[n - 1], p[n].src[k], m)
                               = OperandTerm(Contents(p)[n - 1], p[n].src[k], m)
        OBVIOUS
      <4>1. j \in DOMAIN p /\ OnlyUse(p, Context(p), c, j) /\ IsContext(Context(p), p)
        BY <1>1, <1>2
      <4>. QED  BY <4>1, <2>1, <3>1, UnmovedUse, SMTT(30)
    <3>. QED  BY <3>2, <3>3, SameTerm
  <2>2. CASE n = c
    <3>. DEFINE m == p[c].src[1].sel[l]
                new == Moved(p, c, j)
    <3>1. InstructionTerm(Contents(p)[c - 1], p[c], l)
              = InstructionTerm(Contents(p)[j - 1], p[j], m)
      BY <1>1, <1>2, <1>3, <2>2, CopyReads
    <3>2. p[j].op \in {"add", "mul"} /\ ~p[j].sat /\ DOMAIN p[j].src = {1, 2}
      BY <1>1, ProgramDomain DEF ResultGuards, ResultOpcodes, IsInstruction
    <3>3. ASSUME NEW k \in DOMAIN p[j].src
          PROVE  OperandTerm(Contents(q)[c - 1], new.src[k], l)
                     = OperandTerm(Contents(p)[j - 1], p[j].src[k], m)
      <4>1. new.src[k] = Select(p[j].src[k], MovedComponents(p, c, j, k))
        BY DEF Moved
      <4>2. l \in p[c].dst.mask /\ AgreeUpTo(p, q, j, c - 1)
        BY <1>3, <2>2
      <4>. DEFINE t == new.src[k]
      <4>3. t = Select(p[j].src[k], MovedComponents(p, c, j, k))
        BY <4>1
      <4>. HIDE DEF new, t, m
      <4>4. OperandTerm(Contents(q)[c - 1], t, l)
                = OperandTerm(Contents(p)[j - 1], p[j].src[k], p[c].src[1].sel[l])
        <5>1. ResultShape(p, q, c, j) /\ j \in DOMAIN p
          BY <1>1 DEF ResultShape
        <5>. QED  BY <5>1, <4>2, <4>3, MovedUse
      <4>. QED  BY <4>4 DEF t, m
    <3>4. new.op = p[j].op /\ new.sat = p[j].sat
      BY DEF Moved
    <3>. HIDE DEF new
    <3>5. InstructionTerm(Contents(q)[c - 1], new, l)
              = InstructionTerm(Contents(p)[j - 1], p[j], m)
      <4>1. /\ OperandTerm(Contents(q)[c - 1], new.src[1], l)
                   = OperandTerm(Contents(p)[j - 1], p[j].src[1], m)
            /\ OperandTerm(Contents(q)[c - 1], new.src[2], l)
                   = OperandTerm(Contents(p)[j - 1], p[j].src[2], m)
        BY <3>2, <3>3
      <4>. QED  BY <3>2, <3>4, <4>1 DEF InstructionTerm
    <3>. QED  BY <1>1, <2>2, <3>1, <3>5 DEF new
  <2>. QED  BY <2>1, <2>2
<1>4. \A n \in DOMAIN p : n # j => q[n].dst = p[n].dst
  BY <1>1 DEF Moved
<1>5. Outputs(q) = Outputs(p)
  BY <1>1, <1>2, <1>3, <1>4, Agreement
<1>. QED  BY <1>5

(* p computes what the baseline b does.                                    *)
Fits(b, p) == IsProgram(p) /\ Len(p) = Len(b) /\ Outputs(p) = Outputs(b)
(* A call of a lift is at an instruction of the baseline.                  *)
Place(b, i, lift) == i \in 0..Len(b) /\ (lift \in {"copy", "result"} => i # 0)
(* The accepted program and an acceptable candidate fit the baseline.      *)
OutputInv ==
    /\ IsProgram(base) /\ Fits(base, txn.program) /\ Place(base, at.i, at.lift)
    /\ at.step \in {"made", "sent", "answered"} /\ at.cand.status = "ok"
           => Fits(base, at.cand.program)

(* The next call is at an instruction of the baseline.                     *)
LEMMA AfterPlace ==
    ASSUME NEW outcome, IsProgram(base), Place(base, at.i, at.lift)
    PROVE  Place(base, After(outcome).i, After(outcome).lift)
<1>. DEFINE next == {i \in (at.i + 1)..Len(base) : base[i].op = "mov"}
            first == CHOOSE i \in next : \A j \in next : i <= j
<1>0. Len(base) \in Nat /\ at.i \in 0..Len(base)
  BY ProgramDomain DEF Place
<1>1. next # {} => first \in 1..Len(base)
  <2>1. next \subseteq 1..Len(base) /\ next \subseteq Nat
    BY <1>0
  <2>. HIDE DEF next
  <2>2. next # {} => \E i \in next : \A j \in next : i <= j
    BY <2>1, Least
  <2>. QED  BY <2>1, <2>2
<1>2. \/ After(outcome).lift \notin {"copy", "result"} /\ After(outcome).i = 0
      \/ at.lift = "copy" /\ After(outcome).i = at.i
      \/ next # {} /\ After(outcome).i = first
  <2>. HIDE DEF first, next
  <2>. QED  BY DEF After, Call, first, next
<1>. HIDE DEF first, next
<1>. QED  BY <1>0, <1>1, <1>2 DEF Place

(* A call that returns leaves an accepted program that fits.               *)
LEMMA ReturnFits ==
    ASSUME OutputInv, NEW outcome, Return(outcome), base' = base, Fits(base, txn'.program)
    PROVE  OutputInv'
<1>1. Place(base, at'.i, at'.lift)
  BY AfterPlace DEF Return, OutputInv
<1>2. at'.step \in {"failed", "done", "try"}
  BY AfterIs DEF Return
<1>3. IsProgram(base') /\ Fits(base', txn'.program) /\ Place(base', at'.i, at'.lift)
  BY <1>1 DEF OutputInv
<1>4. IsProgram(base)' /\ Fits(base, txn.program)' /\ Place(base, at.i, at.lift)'
  BY <1>3
<1>. QED  BY <1>2, <1>4 DEF OutputInv

(* A candidate of the accepted program fits if the context was exact.      *)
LEMMA CandidateFits ==
    ASSUME NEW b, IsProgram(b), NEW p, Fits(b, p), NEW lift, NEW i, Place(b, i, lift),
           lift \in {"copy", "result"} /\ ValidateRegion(p) => IsContext(Context(p), p),
           NEW cand, cand = Candidate(lift, i, p), cand.status = "ok"
    PROVE  Fits(b, cand.program)
<1>0. IsProgram(p) /\ Len(p) = Len(b) /\ Outputs(p) = Outputs(b)
  BY DEF Fits
<1>1. lift \in {"copy", "result"} => i \in DOMAIN p
  BY <1>0, ProgramDomain DEF Place
<1>2. CASE lift = "copy"
  <2>1. cand = CopyLiftCreate(p, i)
    BY <1>2 DEF Candidate
  <2>2. IsProgram(cand.program) /\ Len(cand.program) = Len(p)
    BY <1>0, <1>1, <1>2, <2>1, CopyWellFormed
  <2>3. Outputs(cand.program) = Outputs(p)
    BY <1>0, <1>1, <1>2, <2>1, CopyPreserves
  <2>. QED  BY <1>0, <2>2, <2>3 DEF Fits
<1>3. CASE lift = "result"
  <2>1. cand = ResultLiftCreate(p, i)
    BY <1>3 DEF Candidate
  <2>2. IsProgram(cand.program) /\ Len(cand.program) = Len(p)
    BY <1>0, <1>1, <1>3, <2>1, ResultWellFormed
  <2>3. Outputs(cand.program) = Outputs(p)
    BY <1>0, <1>1, <1>3, <2>1, ResultPreserves
  <2>. QED  BY <1>0, <2>2, <2>3 DEF Fits
<1>4. CASE lift \notin {"copy", "result"}
  BY <1>4 DEF Candidate
<1>. QED  BY <1>2, <1>3, <1>4

(* A call that goes on with a candidate that fits.                         *)
LEMMA HandedFits ==
    ASSUME OutputInv, base' = base, txn'.program = txn.program, at'.i = at.i, at'.lift
           = at.lift,
           at'.step \in {"made", "sent", "answered"} /\ at'.cand.status = "ok"
               => Fits(base, at'.cand.program)
    PROVE  OutputInv'
<1>1. IsProgram(base') /\ Fits(base', txn'.program) /\ Place(base', at'.i, at'.lift)
  BY DEF OutputInv
<1>2. IsProgram(base)' /\ Fits(base, txn.program)' /\ Place(base, at.i, at.lift)'
  BY <1>1
<1>3. at'.step \in {"made", "sent", "answered"} /\ at'.cand.status = "ok"
          => Fits(base', at'.cand.program)
  OBVIOUS
<1>4. (at.step \in {"made", "sent",
                    "answered"} /\ at.cand.status = "ok" => Fits(base, at.cand.program))'
  BY <1>3
<1>. QED  BY <1>2, <1>4 DEF OutputInv

(* Each step keeps what fits; a candidate is made in the state whose       *)
(* context is exact.                                                       *)
LEMMA BeginFits == ASSUME TInv, OutputInv, Begin PROVE OutputInv'
<1>1. base' = base /\ txn' = txn /\ Fits(base, txn'.program) /\ Fits(base, base)
  BY DEF Begin, OutputInv, Fits
<1>2. CASE asked = "clock unavailable"
  BY <1>1, <1>2, ReturnFits DEF Begin
<1>3. CASE asked # "clock unavailable"
  <2>1. at' = [step |-> "made", lift |-> at.lift, i |-> at.i,
               cand |-> [status |-> "ok", program |-> base], artifact |-> at.artifact]
    BY <1>3 DEF Begin, TInv, CallShape
  <2>. QED  BY <1>1, <2>1, HandedFits
<1>. QED  BY <1>2, <1>3

LEMMA TryFits == ASSUME TInv, OutputInv, ContextIsExact, Try PROVE OutputInv'
<1>0. at.step = "try" /\ base' = base /\ Fits(base, txn.program)
  BY DEF Try, OutputInv
<1>1. CASE \E outcome : Stop(outcome)
  <2>1. PICK outcome : Stop(outcome)
    BY <1>1
  <2>2. Kept
    BY <1>0, <2>1, StopIs DEF Stop
  <2>. QED  BY <1>0, <2>1, <2>2, ReturnFits DEF Stop, Kept
<1>2. CASE /\ txn' = [txn EXCEPT !.candidates = @ + 1]
           /\ at' = [at EXCEPT !.step = "made",
                     !.cand = Candidate(at.lift, at.i, txn.program)]
  <2>1. txn'.program = txn.program
    BY <1>2 DEF TInv, TxnShape
  <2>2. at' = [step |-> "made", lift |-> at.lift, i |-> at.i,
               cand |-> Candidate(at.lift, at.i, txn.program), artifact |-> at.artifact]
    BY <1>2 DEF TInv, CallShape
  <2>3. at'.cand = Candidate(at.lift, at.i, txn.program) /\ at'.i = at.i
            /\ at'.lift = at.lift
    BY <2>2
  <2>4. at'.cand.status = "ok" => Fits(base, at'.cand.program)
    BY <1>0, <2>3, CandidateFits DEF OutputInv, ContextIsExact
  <2>. QED  BY <1>0, <2>1, <2>3, <2>4, HandedFits
<1>. QED  BY <1>1, <1>2 DEF Try, Candidate

LEMMA SendFits == ASSUME TInv, OutputInv, Send PROVE OutputInv'
<1>0. at.step = "made" /\ base' = base /\ Fits(base, txn.program)
  BY DEF Send, OutputInv
<1>1. CASE \E outcome : Stop(outcome)
  <2>1. PICK outcome : Stop(outcome)
    BY <1>1
  <2>2. Kept
    BY <1>0, <2>1, StopIs DEF Stop
  <2>. QED  BY <1>0, <2>1, <2>2, ReturnFits DEF Stop, Kept
<1>2. CASE \E outcome : Return(outcome) /\ UNCHANGED txn
  BY <1>0, <1>2, ReturnFits
<1>3. CASE /\ txn' = [txn EXCEPT !.compiles = @ + 1] /\ at' = [at EXCEPT !.step = "sent"]
  <2>1. txn'.program = txn.program
    BY <1>3 DEF TInv, TxnShape
  <2>2. at' = [step |-> "sent", lift |-> at.lift, i |-> at.i, cand |-> at.cand,
               artifact |-> at.artifact]
    BY <1>3 DEF TInv, CallShape
  <2>. QED  BY <1>0, <2>1, <2>2, HandedFits DEF OutputInv
<1>. QED  BY <1>1, <1>2, <1>3 DEF Send

LEMMA AnswerFits == ASSUME TInv, OutputInv, Answer PROVE OutputInv'
<1>1. PICK a \in Answers :
        at' = [at EXCEPT !.step = "answered",
                     !.artifact = [of |-> at.cand.program,
                                   high |-> at.lift = "high level",
                                   controls |-> controls, answer |-> a]]
  BY DEF Answer
<1>2. at.step = "sent" /\ base' = base /\ txn' = txn
  BY DEF Answer
<1>3. at'.step = "answered" /\ at'.lift = at.lift /\ at'.i = at.i /\ at'.cand = at.cand
  BY <1>1 DEF TInv, CallShape
<1>. QED  BY <1>2, <1>3, HandedFits DEF OutputInv

(* A verdict accepts a candidate that fits.                                *)
LEMMA JudgeFits == ASSUME TInv, OutputInv, Judge PROVE OutputInv'
<1>. DEFINE v == Verdict(at.artifact)
<1>0. at.step = "answered" /\ base' = base /\ Fits(base, txn.program)
          /\ at.cand.status = "ok"
  BY DEF Judge, OutputInv, TInv, InHand
<1>1. CASE \E outcome : Stop(outcome)
  <2>1. PICK outcome : Stop(outcome)
    BY <1>1
  <2>2. Kept
    BY <1>0, <2>1, StopIs DEF Stop
  <2>. QED  BY <1>0, <2>1, <2>2, ReturnFits DEF Stop, Kept
<1>2. CASE Return(v) /\ UNCHANGED txn
  BY <1>0, <1>2, ReturnFits
<1>3. CASE Accept /\ Return(v)
  <2>1. txn'.program = at.cand.program
    BY <1>3 DEF Accept, TInv, TxnShape
  <2>2. Fits(base, txn'.program)
    BY <1>0, <2>1 DEF OutputInv
  <2>. HIDE DEF v
  <2>. QED  BY <1>0, <1>3, <2>2, ReturnFits
<1>. HIDE DEF v
<1>. QED  BY <1>1, <1>2, <1>3 DEF Judge, v

(* Every step of the transaction keeps the invariant.                      *)
LEMMA OutputNextInv ==
    ASSUME TInv, OutputInv, ContextIsExact, [TransactionStep]_tvars PROVE OutputInv'
<1>1. CASE UNCHANGED <<base, txn, at>>
  BY <1>1, HandedFits DEF OutputInv
<1>2. CASE Interrupt \/ Revise \/ UNCHANGED tvars
  BY <1>1, <1>2 DEF Interrupt, Revise, tvars
<1>. QED  BY <1>2, BeginFits, TryFits, SendFits, AnswerFits, JudgeFits DEF TransactionStep

(* LiftsPreserveOutputs, for every program, register file and order of     *)
(* lifts: if the context a lift is given is exact whenever it begins       *)
(* (ContextIsExact), the accepted program computes the outputs of the      *)
(* baseline, however many rewrites of hlsl_copy_lift_create and            *)
(* hlsl_result_lift_create were accepted before.                           *)
THEOREM LiftsComputeTheSame ==
    TransactionInit /\ [][TransactionStep]_tvars /\ []ContextIsExact
        => []LiftsPreserveOutputs
<1>1. TransactionInit => TInv /\ OutputInv
  <2>. SUFFICES ASSUME TransactionInit PROVE OutputInv  BY TransactionInitInv
  <2>1. IsProgram(base) /\ txn.program = base /\ at = Call("begin", "baseline", 0)
    BY BaselinesArePrograms DEF TransactionInit
  <2>2. Len(base) \in Nat
    BY <2>1, ProgramDomain
  <2>. QED  BY <2>1, <2>2 DEF OutputInv, Fits, Place, Call
<1>2. TInv /\ OutputInv /\ ContextIsExact /\ [TransactionStep]_tvars
          => (TInv /\ OutputInv)'
  BY TransactionNextInv, OutputNextInv
<1>3. TInv /\ OutputInv => LiftsPreserveOutputs
  BY DEF OutputInv, Fits, LiftsPreserveOutputs
<1>. QED  BY <1>1, <1>2, <1>3, PTL
=============================================================================

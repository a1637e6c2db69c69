------------------------ MODULE EvidenceBatchesProofs ------------------------
(* What TLAPS proves of EvidenceBatches: for any batches, however they overlap *)
(* and repeat each other, any number of writers and of crashes, a commit       *)
(* marker means that the whole batch is there.  The argument: files only ever  *)
(* move from absent over linked to exact, since a name is linked by the holder *)
(* of the lock who has just found it absent; whatever a writer has behind it   *)
(* is exact, and what it has before it ends with the marker.                   *)
EXTENDS EvidenceBatches, TLAPS

AllFiles(b) == FilesOf(MemberSet(b)) \cup {Marker(b)}
Elements(s) == {s[i] : i \in 1..Len(s)}

Jobs == [batch : Batches \cup {None}, todo : Seq(Files),
         at : {"idle", "next", "link", "unlink"}]

TypeInv ==
    /\ file \in [Files -> {"absent", "linked", "exact"}]
    /\ residue \subseteq Directories
    /\ lock \in Writers \cup {None}
    /\ job \in [Writers -> Jobs]
    /\ minted \subseteq Batches
    /\ crashes \in 0..MaxCrashes

\* Some committed batch has the LIVE outcome that o repeats.
Authorised(o) ==
    \E b \in Batches : file[Marker(b)] = "exact" /\ Source[o] \in MemberSet(b)

\* What a writer at work has behind it, and before it: the marker is the last.
AtItsPlace(w) ==
    LET b == job[w].batch
        todo == job[w].todo
    IN  /\ job[w] # Idle <=> lock = w
        /\ job[w] # Idle =>
              /\ b \in Batches /\ job[w].at # "idle"
              /\ Elements(todo) \subseteq AllFiles(b)
              /\ \A f \in AllFiles(b) \ Elements(todo) : file[f] = "exact"
              /\ \A i \in 1..Len(todo) : todo[i] = Marker(b) => i = Len(todo)
              /\ job[w].at \in {"link", "unlink"} => todo # <<>>
              /\ job[w].at = "link" => file[Head(todo)] = "absent"
              /\ job[w].at = "unlink" => file[Head(todo)] # "absent"
              /\ \A o \in Replays(b) : Authorised(o)

\* A marker that exists, and a capability that was given out.
Complete(b) ==
    file[Marker(b)] # "absent" => Exact(file, FilesOf(MemberSet(b)))
Given(b) ==
    /\ file[Marker(b)] = "exact"
    /\ ReceiptDirectories(MemberSet(b)) \cap residue = {}

Repeated(o) ==
    Source[o] # None /\ (\E f \in FilesOf({o}) : file[f] # "absent") => Authorised(o)

Inv ==
    /\ TypeInv
    /\ \A w \in Writers : AtItsPlace(w)
    /\ \A b \in Batches : Complete(b)
    /\ \A b \in minted : Given(b)
    /\ \A o \in Outcomes : Repeated(o)

-----------------------------------------------------------------------------
(* The files of a batch and their order.                                     *)

Kinds == {"artifact", "outcome", "binding"}

LEMMA FilesOfOutcomes ==
    ASSUME NEW os
    PROVE  FilesOf(os) = {Evidence(k, o) : k \in Kinds, o \in os}
<1>1. \A o : {OutcomeFiles(o)[i] : i \in 1..3} = {Evidence(k, o) : k \in Kinds}
  <2> SUFFICES ASSUME NEW o
               PROVE  {OutcomeFiles(o)[i] : i \in 1..3} = {Evidence(k, o) : k \in Kinds}
    OBVIOUS
  <2>1. /\ OutcomeFiles(o)[1] = Evidence("artifact", o)
        /\ OutcomeFiles(o)[2] = Evidence("outcome", o)
        /\ OutcomeFiles(o)[3] = Evidence("binding", o)
    BY DEF OutcomeFiles
  <2>2. 1..3 = {1, 2, 3}
    OBVIOUS
  <2> HIDE DEF OutcomeFiles
  <2> QED BY <2>1, <2>2 DEF Kinds
<1>2. ASSUME NEW f
      PROVE  f \in FilesOf(os) <=> \E o \in os : f \in {OutcomeFiles(o)[i] : i \in 1..3}
  BY DEF FilesOf
<1>3. ASSUME NEW f
      PROVE  f \in FilesOf(os) <=> \E o \in os : f \in {Evidence(k, o) : k \in Kinds}
  BY <1>1, <1>2
<1> QED BY <1>3

LEMMA MembersAreOutcomes ==
    ASSUME BatchesAssumption, NEW b \in Batches
    PROVE  /\ Members[b] \in Seq(Outcomes)
           /\ MemberSet(b) = {Members[b][i] : i \in 1..Len(Members[b])}
           /\ MemberSet(b) \subseteq Outcomes
<1>1. Members[b] \in Seq(Outcomes)
  BY DEF BatchesAssumption
<1>2. DOMAIN Members[b] = 1..Len(Members[b])
  BY <1>1
<1> QED BY <1>1, <1>2 DEF MemberSet

LEMMA FilesOfBatch ==
    ASSUME BatchesAssumption, NEW b \in Batches
    PROVE  /\ FilesOf(MemberSet(b)) = {Evidence(k, o) : k \in Kinds, o \in MemberSet(b)}
           /\ AllFiles(b) \subseteq Files
           /\ Marker(b) \notin FilesOf(MemberSet(b))
           /\ Markers \subseteq Files
<1>1. FilesOf(MemberSet(b)) = {Evidence(k, o) : k \in Kinds, o \in MemberSet(b)}
  BY FilesOfOutcomes
<1>2. MemberSet(b) \subseteq Outcomes
  BY MembersAreOutcomes
<1>3. \A k \in Kinds : \A o : Marker(b) # Evidence(k, o)
  BY DEF Kinds, Marker, Evidence
<1>4. FilesOf(MemberSet(b)) \subseteq Files /\ Marker(b) \in Files /\ Markers \subseteq Files
  BY <1>1, <1>2 DEF Files, Kinds, Markers
<1> QED BY <1>1, <1>3, <1>4 DEF AllFiles

\* The i-th file to write is one of the three of some member, and each comes.
LEMMA MemberFilesElements ==
    ASSUME BatchesAssumption, NEW b \in Batches
    PROVE  /\ MemberFiles(b) \in Seq(Files)
           /\ Elements(MemberFiles(b)) = FilesOf(MemberSet(b))
<1> DEFINE n == Len(Members[b])
           name(i) == OutcomeFiles(Members[b][1 + (i - 1) \div 3])[1 + ((i - 1) % 3)]
<1>1. n \in Nat /\ MemberSet(b) = {Members[b][j] : j \in 1..n}
  BY MembersAreOutcomes
<1>2. MemberFiles(b) = [i \in 1..3 * n |-> name(i)]
  BY DEF MemberFiles
<1>3. FilesOf(MemberSet(b)) \subseteq Files
  BY FilesOfBatch DEF AllFiles
<1> HIDE DEF n
<1>4. ASSUME NEW i \in 1..3 * n
      PROVE  name(i) \in FilesOf(MemberSet(b))
  <2>1. 1 + ((i - 1) \div 3) \in 1..n
    BY <1>1
  <2>2. 1 + ((i - 1) % 3) \in 1..3
    BY <1>1
  <2>3. Members[b][1 + ((i - 1) \div 3)] \in MemberSet(b)
    BY <1>1, <2>1
  <2> QED BY <2>2, <2>3 DEF FilesOf
<1>5. ASSUME NEW j \in 1..n, NEW k \in 1..3
      PROVE  \E i \in 1..3 * n : name(i) = OutcomeFiles(Members[b][j])[k]
  <2> DEFINE i == 3 * (j - 1) + k
  <2>1. i \in 1..3 * n
    BY <1>1
  <2>2. (i - 1) \div 3 = j - 1 /\ (i - 1) % 3 = k - 1
    BY <1>1
  <2> HIDE DEF i
  <2>3. 1 + ((i - 1) \div 3) = j /\ 1 + ((i - 1) % 3) = k
    BY <2>2
  <2> QED BY <2>1, <2>3
<1> HIDE DEF name
<1>6. \A i \in 1..3 * n : name(i) \in Files
  BY <1>3, <1>4
<1>7. 3 * n \in Nat
  BY <1>1
<1>8. MemberFiles(b) \in Seq(Files) /\ Len(MemberFiles(b)) = 3 * n
  BY <1>2, <1>6, <1>7
<1>9. \A i \in 1..3 * n : MemberFiles(b)[i] = name(i)
  BY <1>2
<1>10. Elements(MemberFiles(b)) = {name(i) : i \in 1..3 * n}
  BY <1>8, <1>9 DEF Elements
<1>11. FilesOf(MemberSet(b)) \subseteq {name(i) : i \in 1..3 * n}
  <2> SUFFICES ASSUME NEW f \in FilesOf(MemberSet(b))
               PROVE  f \in {name(i) : i \in 1..3 * n}
    OBVIOUS
  <2>1. PICK j \in 1..n, k \in 1..3 : f = OutcomeFiles(Members[b][j])[k]
    BY <1>1 DEF FilesOf
  <2> QED BY <2>1, <1>5
<1> QED BY <1>4, <1>8, <1>10, <1>11

LEMMA OrderElements ==
    ASSUME BatchesAssumption, NEW b \in Batches
    PROVE  /\ WriteOrder(b) \in Seq(Files)
           /\ Elements(WriteOrder(b)) = AllFiles(b)
           /\ \A i \in 1..Len(WriteOrder(b)) :
                WriteOrder(b)[i] = Marker(b) => i = Len(WriteOrder(b))
<1> DEFINE s == MemberFiles(b)
<1>1. s \in Seq(Files) /\ Elements(s) = FilesOf(MemberSet(b))
  BY MemberFilesElements
<1>2. Marker(b) \in Files /\ Marker(b) \notin FilesOf(MemberSet(b))
  BY FilesOfBatch DEF AllFiles
<1> HIDE DEF s
<1>3. /\ Append(s, Marker(b)) \in Seq(Files)
      /\ Len(Append(s, Marker(b))) = Len(s) + 1
      /\ \A i \in 1..Len(s) : Append(s, Marker(b))[i] = s[i]
      /\ Append(s, Marker(b))[Len(s) + 1] = Marker(b)
      /\ Len(s) \in Nat
  BY <1>1, <1>2
<1>4. Elements(Append(s, Marker(b))) = Elements(s) \cup {Marker(b)}
  BY <1>3 DEF Elements
<1>5. \A i \in 1..Len(s) : s[i] # Marker(b)
  BY <1>1, <1>2 DEF Elements
<1>6. WriteOrder(b) = Append(s, Marker(b))
  BY DEF WriteOrder, s
<1> QED BY <1>1, <1>3, <1>4, <1>5, <1>6 DEF AllFiles

\* What is left after the first file is taken off.
LEMMA TailElements ==
    ASSUME NEW s \in Seq(Files), s # <<>>
    PROVE  /\ Tail(s) \in Seq(Files) /\ Head(s) \in Files
           /\ Elements(s) = Elements(Tail(s)) \cup {Head(s)}
           /\ \A i \in 1..Len(Tail(s)) : Tail(s)[i] = s[i + 1] /\ i + 1 \in 1..Len(s)
           /\ Len(Tail(s)) = Len(s) - 1 /\ Len(s) \in Nat \ {0}
<1>1. /\ Tail(s) \in Seq(Files) /\ Head(s) = s[1] /\ Len(s) \in Nat \ {0}
      /\ Len(Tail(s)) = Len(s) - 1 /\ Head(s) \in Files
      /\ \A i \in 1..Len(Tail(s)) : Tail(s)[i] = s[i + 1] /\ i + 1 \in 1..Len(s)
  OBVIOUS
<1>2. Elements(Tail(s)) \subseteq Elements(s) /\ Head(s) \in Elements(s)
  BY <1>1 DEF Elements
<1>3. ASSUME NEW i \in 1..Len(s), s[i] # Head(s)
      PROVE  s[i] \in Elements(Tail(s))
  <2>1. i - 1 \in 1..Len(Tail(s)) /\ Tail(s)[i - 1] = s[i]
    BY <1>1, <1>3
  <2> QED BY <2>1 DEF Elements
<1> QED BY <1>1, <1>2, <1>3 DEF Elements

\* A receipt's directory holds its binding and nothing else.
LEMMA BindingDirectory ==
    ASSUME NEW f \in Files, NEW o, Directory(f) = Evidence("binding", o)
    PROVE  f = Evidence("binding", o)
BY DEF Files, Directory, Evidence, Marker

LEMMA MarkersAreFiles ==
    ASSUME NEW b \in Batches
    PROVE  Marker(b) \in Files
BY DEF Files

-----------------------------------------------------------------------------
(* What every step leaves as it was.                                         *)

Improves == \A f \in Files : file[f] = "exact" => file'[f] = "exact"
MakesNone == \A f \in Files : file[f] = "absent" => file'[f] = "absent"

LEMMA CleanedFiles ==
    ASSUME TypeInv, NEW D, file' = Cleaned(file, D)
    PROVE  /\ file' \in [Files -> {"absent", "linked", "exact"}]
           /\ Improves /\ MakesNone
           /\ \A f \in Files : Directory(f) \in D /\ file[f] # "absent" => file'[f] = "exact"
BY DEF TypeInv, Cleaned, Improves, MakesNone

LEMMA AuthorisedStays ==
    ASSUME NEW o, Authorised(o), Improves
    PROVE  Authorised(o)'
BY MarkersAreFiles DEF Authorised, Improves

LEMMA CompleteStays ==
    ASSUME BatchesAssumption, NEW b \in Batches, Complete(b), Improves,
           file[Marker(b)] = "absent" => file'[Marker(b)] = "absent"
    PROVE  Complete(b)'
BY FilesOfBatch DEF Complete, Exact, Improves, AllFiles

\* Where everything is exact, no pending file is made.
LEMMA GivenStays ==
    ASSUME BatchesAssumption, NEW b \in Batches, Complete(b), Given(b), Improves,
           NEW f \in Files, residue' \subseteq residue \cup {Directory(f)},
           file[f] = "absent" \/ residue' \subseteq residue
    PROVE  Given(b)'
<1>1. file'[Marker(b)] = "exact"
  BY MarkersAreFiles DEF Given, Improves
<1>2. ASSUME NEW o \in MemberSet(b), Evidence("binding", o) \in residue'
      PROVE  FALSE
  <2>1. Evidence("binding", o) \notin residue
    BY DEF Given, ReceiptDirectories
  <2>2. Directory(f) = Evidence("binding", o) /\ file[f] = "absent"
    BY <1>2, <2>1
  <2>3. f = Evidence("binding", o)
    BY <2>2, BindingDirectory
  <2>4. f \in FilesOf(MemberSet(b))
    BY <2>3, FilesOfBatch DEF Kinds
  <2>5. file[f] = "exact"
    BY <2>4 DEF Given, Complete, Exact
  <2> QED BY <2>2, <2>5
<1> QED BY <1>1, <1>2 DEF Given, ReceiptDirectories

LEMMA RepeatedStays ==
    ASSUME NEW o \in Outcomes, Repeated(o), Improves,
           \A f \in FilesOf({o}) : file[f] = "absent" => file'[f] = "absent"
    PROVE  Repeated(o)'
<1> SUFFICES ASSUME Source[o] # None, NEW f \in FilesOf({o}), file'[f] # "absent"
             PROVE  Authorised(o)'
  BY DEF Repeated
<1>1. file[f] # "absent"
  OBVIOUS
<1>2. Authorised(o)
  BY <1>1 DEF Repeated
<1> QED BY <1>2, AuthorisedStays

LEMMA FilesOfOne ==
    ASSUME NEW o \in Outcomes
    PROVE  FilesOf({o}) \subseteq Files
BY FilesOfOutcomes DEF Files, Kinds

\* A step that makes no file disturbs none of what the files say.
LEMMA FilesStay ==
    ASSUME BatchesAssumption, Inv, Improves, MakesNone,
           minted' = minted,
           NEW f \in Files, residue' \subseteq residue \cup {Directory(f)},
           file[f] = "absent" \/ residue' \subseteq residue
    PROVE  /\ \A b \in Batches : Complete(b)'
           /\ \A b \in minted' : Given(b)'
           /\ \A o \in Outcomes : Repeated(o)'
<1>1. ASSUME NEW b \in Batches
      PROVE  Complete(b)'
  BY CompleteStays, MarkersAreFiles DEF Inv, MakesNone
<1>2. ASSUME NEW b \in minted
      PROVE  Given(b)'
  BY GivenStays DEF Inv, TypeInv
<1>3. ASSUME NEW o \in Outcomes
      PROVE  Repeated(o)'
  BY RepeatedStays, FilesOfOne DEF Inv, MakesNone
<1> QED BY <1>1, <1>2, <1>3

\* While one writer works, the others are idle, and they stay so.
LEMMA OthersAreIdle ==
    ASSUME Inv, NEW w \in Writers, lock = w \/ lock = None, None \notin Writers
    PROVE  \A q \in Writers : q # w => job[q] = Idle
BY DEF Inv, AtItsPlace

LEMMA OthersStay ==
    ASSUME Inv, BatchesAssumption, NEW w \in Writers, lock = w \/ lock = None,
           lock' = w \/ lock' = None,
           \A q \in Writers : q # w => job'[q] = job[q],
           AtItsPlace(w)'
    PROVE  \A q \in Writers : AtItsPlace(q)'
<1> SUFFICES ASSUME NEW q \in Writers, q # w
             PROVE  AtItsPlace(q)'
  OBVIOUS
<1>1. job'[q] = Idle /\ lock' # q
  BY OthersAreIdle DEF BatchesAssumption
<1> QED BY <1>1 DEF AtItsPlace

-----------------------------------------------------------------------------
(* The invariant holds at the start, and every step keeps it.                *)

LEMMA InvInit ==
    ASSUME BatchesAssumption, Init
    PROVE  Inv
<1>1. Idle \in Jobs
  BY DEF Idle, Jobs
<1>2. TypeInv
  BY <1>1 DEF Init, TypeInv, BatchesAssumption
<1>3. \A w \in Writers : AtItsPlace(w)
  BY DEF Init, AtItsPlace, BatchesAssumption
<1>4. \A b \in Batches : Complete(b)
  BY MarkersAreFiles DEF Init, Complete
<1>5. \A o \in Outcomes : Repeated(o)
  BY FilesOfOne DEF Init, Repeated
<1> QED BY <1>2, <1>3, <1>4, <1>5 DEF Inv, Init

\* persist_batch is admitted when every replay's source is committed.
LEMMA PersistBatchKeepsInv ==
    ASSUME BatchesAssumption, Inv, NEW w \in Writers, NEW b \in Batches, PersistBatch(w, b)
    PROVE  Inv'
<1> DEFINE D == Preflight(b).dirs
<1>1. /\ lock = None /\ job[w] = Idle
      /\ file' = Cleaned(file, D) /\ residue' = residue \ D
      /\ UNCHANGED <<minted, crashes>>
  BY DEF PersistBatch
<1> HIDE DEF D
<1>2. /\ file' \in [Files -> {"absent", "linked", "exact"}]
      /\ Improves /\ MakesNone
  BY <1>1, CleanedFiles DEF Inv
<1>3. /\ \A c \in Batches : Complete(c)'
      /\ \A c \in minted' : Given(c)'
      /\ \A o \in Outcomes : Repeated(o)'
  BY <1>1, <1>2, MarkersAreFiles, FilesStay
<1>4. CASE Preflight(b).admitted
  <2>1. /\ lock' = w
        /\ job' = [job EXCEPT ![w] = [batch |-> b, todo |-> WriteOrder(b), at |-> "next"]]
    BY <1>4 DEF PersistBatch
  <2>2. ReplaysResolve(file', b)
    BY <1>1, <1>4 DEF Preflight, D
  <2>3. \A o \in Replays(b) : Authorised(o)'
    BY <2>2 DEF ReplaysResolve, SourceCommitted, Authorised
  <2>4. /\ WriteOrder(b) \in Seq(Files)
        /\ Elements(WriteOrder(b)) = AllFiles(b)
        /\ \A i \in 1..Len(WriteOrder(b)) :
                WriteOrder(b)[i] = Marker(b) => i = Len(WriteOrder(b))
    BY OrderElements
  <2>5. [batch |-> b, todo |-> WriteOrder(b), at |-> "next"] \in Jobs
    BY <2>4 DEF Jobs
  <2>6. TypeInv'
    BY <1>1, <1>2, <2>1, <2>5 DEF Inv, TypeInv
  <2>7. job'[w] = [batch |-> b, todo |-> WriteOrder(b), at |-> "next"] /\ job'[w] # Idle
    BY <2>1 DEF Inv, TypeInv, Idle
  <2>8. AtItsPlace(w)'
    BY <2>1, <2>3, <2>4, <2>7 DEF AtItsPlace
  <2>9. \A q \in Writers : AtItsPlace(q)'
    BY <1>1, <2>1, <2>8, OthersStay DEF Inv, TypeInv
  <2> QED BY <1>3, <2>6, <2>9 DEF Inv
<1>5. CASE ~Preflight(b).admitted
  <2>1. lock' = lock /\ job' = job
    BY <1>5 DEF PersistBatch
  <2>2. TypeInv'
    BY <1>1, <1>2, <2>1 DEF Inv, TypeInv
  <2>3. AtItsPlace(w)'
    BY <1>1, <2>1 DEF AtItsPlace, Inv
  <2>4. \A q \in Writers : AtItsPlace(q)'
    BY <1>1, <2>1, <2>3, OthersStay
  <2> QED BY <1>3, <2>2, <2>4 DEF Inv
<1> QED BY <1>4, <1>5

\* A committed batch that reopens is exact, and its receipts have no pending file.
LEMMA ResolvableIsGiven ==
    ASSUME NEW b \in Batches, Resolvable(b)
    PROVE  Given(b)
BY DEF Resolvable, Given, Pending, ReceiptDirectories

LEMMA ResolveVerifiedBatchKeepsInv ==
    ASSUME BatchesAssumption, Inv, NEW w \in Writers, NEW b \in Batches,
           ResolveVerifiedBatch(w, b)
    PROVE  Inv'
<1> DEFINE D == {Directory(Marker(b))}
<1>1. /\ lock = None /\ job[w] = Idle /\ Resolvable(b)
      /\ file' = Cleaned(file, D) /\ residue' = residue \ D
      /\ minted' = minted \cup {b}
      /\ UNCHANGED <<lock, job, crashes>>
  BY DEF ResolveVerifiedBatch
<1> HIDE DEF D
<1>2. /\ file' \in [Files -> {"absent", "linked", "exact"}]
      /\ Improves /\ MakesNone
  BY <1>1, CleanedFiles DEF Inv
<1>3. TypeInv'
  BY <1>1, <1>2 DEF Inv, TypeInv
<1>4. AtItsPlace(w)'
  BY <1>1 DEF AtItsPlace, Inv
<1>5. \A q \in Writers : AtItsPlace(q)'
  BY <1>1, <1>4, OthersStay
<1>6. ASSUME NEW c \in Batches
      PROVE  Complete(c)'
  BY <1>2, CompleteStays, MarkersAreFiles DEF Inv, MakesNone
<1>7. ASSUME NEW o \in Outcomes
      PROVE  Repeated(o)'
  BY <1>2, RepeatedStays, FilesOfOne DEF Inv, MakesNone
<1>8. ASSUME NEW c \in minted'
      PROVE  Given(c)'
  <2>1. c \in Batches /\ Given(c)
    BY <1>1, <1>8, ResolvableIsGiven DEF Inv, TypeInv
  <2>2. residue' \subseteq residue
    BY <1>1
  <2> QED BY <1>2, <2>1, <2>2, GivenStays, MarkersAreFiles DEF Inv
<1> QED BY <1>3, <1>5, <1>6, <1>7, <1>8 DEF Inv

LEMMA WritePendingKeepsInv ==
    ASSUME BatchesAssumption, Inv, NEW w \in Writers, WritePending(w)
    PROVE  Inv'
<1> DEFINE b == job[w].batch
           todo == job[w].todo
           f == Head(todo)
           D == {Directory(f)}
<1>1. /\ job[w].at = "next" /\ todo # <<>>
      /\ file' = Cleaned(file, D)
      /\ UNCHANGED <<lock, minted, crashes>>
  BY DEF WritePending
<1>2. job[w] # Idle /\ lock = w /\ b \in Batches
  BY <1>1 DEF Inv, AtItsPlace, Idle
<1>3. /\ Elements(todo) \subseteq AllFiles(b)
      /\ \A g \in AllFiles(b) \ Elements(todo) : file[g] = "exact"
      /\ \A i \in 1..Len(todo) : todo[i] = Marker(b) => i = Len(todo)
      /\ \A o \in Replays(b) : Authorised(o)
  BY <1>2 DEF Inv, AtItsPlace
<1>4. todo \in Seq(Files)
  BY DEF Inv, TypeInv, Jobs
<1> HIDE DEF b, todo, D
<1>5. f \in Files
  BY <1>1, <1>4, TailElements
<1> HIDE DEF f
<1>6. /\ file' \in [Files -> {"absent", "linked", "exact"}]
      /\ Improves /\ MakesNone
      /\ file[f] # "absent" => file'[f] = "exact"
  BY <1>1, <1>5, CleanedFiles DEF Inv, D
<1>7. \A o \in Replays(b) : Authorised(o)'
  BY <1>3, <1>6, AuthorisedStays
<1>8. AllFiles(b) \subseteq Files
  BY <1>2, FilesOfBatch
<1>9. CASE Exists(f)
  <2>1. residue' = residue \ D /\ job' = [job EXCEPT ![w].todo = Tail(@)]
    BY <1>9 DEF WritePending, D, f, todo
  <2>2. job' = [job EXCEPT ![w] = [job[w] EXCEPT !.todo = Tail(todo)]]
    BY <2>1 DEF Inv, TypeInv, todo
  <2>3. /\ Tail(todo) \in Seq(Files)
        /\ Elements(todo) = Elements(Tail(todo)) \cup {f}
        /\ \A i \in 1..Len(Tail(todo)) : Tail(todo)[i] = todo[i + 1] /\ i + 1 \in 1..Len(todo)
        /\ Len(Tail(todo)) = Len(todo) - 1 /\ Len(todo) \in Nat \ {0}
    BY <1>1, <1>4, TailElements DEF f
  <2>4. TypeInv'
    <3>1. [job[w] EXCEPT !.todo = Tail(todo)] \in Jobs
      BY <2>3 DEF Inv, TypeInv, Jobs
    <3>2. job' \in [Writers -> Jobs]
      BY <2>2, <3>1 DEF Inv, TypeInv
    <3> QED BY <1>1, <1>6, <2>1, <3>2 DEF Inv, TypeInv
  <2>5. /\ job'[w].batch = b /\ job'[w].todo = Tail(todo) /\ job'[w].at = "next"
        /\ \A q \in Writers : q # w => job'[q] = job[q]
    BY <1>1, <2>2 DEF Inv, TypeInv, b
  <2>6. file'[f] = "exact"
    BY <1>6, <1>9 DEF Exists
  <2>7. \A g \in AllFiles(b) \ Elements(Tail(todo)) : file'[g] = "exact"
    BY <1>3, <1>6, <1>8, <2>3, <2>6 DEF Improves
  <2>8. \A i \in 1..Len(Tail(todo)) : Tail(todo)[i] = Marker(b) => i = Len(Tail(todo))
    <3> SUFFICES ASSUME NEW i \in 1..Len(Tail(todo)), Tail(todo)[i] = Marker(b)
                 PROVE  i = Len(Tail(todo))
      OBVIOUS
    <3>1. todo[i + 1] = Marker(b) /\ i + 1 \in 1..Len(todo)
      BY <2>3
    <3>2. i + 1 = Len(todo)
      BY <1>3, <3>1
    <3>3. i \in Int /\ Len(todo) \in Int /\ Len(Tail(todo)) = Len(todo) - 1
      BY <2>3
    <3> QED BY <3>2, <3>3
  <2>9. job'[w] # Idle
    BY <2>5 DEF Idle
  <2>10. AtItsPlace(w)'
    BY <1>1, <1>2, <1>3, <1>7, <2>3, <2>5, <2>7, <2>8, <2>9 DEF AtItsPlace
  <2>11. \A q \in Writers : AtItsPlace(q)'
    BY <1>1, <1>2, <2>5, <2>10, OthersStay
  <2>12. residue' \subseteq residue
    BY <2>1
  <2> QED BY <1>1, <1>5, <1>6, <2>4, <2>11, <2>12, FilesStay DEF Inv
<1>10. CASE ~Exists(f)
  <2>1. residue' = residue \cup D /\ job' = [job EXCEPT ![w].at = "link"]
    BY <1>10 DEF WritePending, D, f, todo
  <2>2. Directory(f) \in Directories
    BY <1>5 DEF Directories
  <2>3. TypeInv'
    BY <1>1, <1>6, <2>1, <2>2 DEF Inv, TypeInv, Jobs, D
  <2>4. /\ job'[w].batch = b /\ job'[w].todo = todo /\ job'[w].at = "link"
        /\ \A q \in Writers : q # w => job'[q] = job[q]
    BY <1>1, <2>1 DEF Inv, TypeInv, b, todo
  <2>5. file[f] = "absent" /\ file'[f] = "absent"
    BY <1>5, <1>6, <1>10 DEF Exists, MakesNone
  <2>6. \A g \in AllFiles(b) \ Elements(todo) : file'[g] = "exact"
    BY <1>3, <1>6, <1>8 DEF Improves
  <2>7. job'[w] # Idle
    BY <2>4 DEF Idle
  <2>8. AtItsPlace(w)'
    BY <1>1, <1>2, <1>3, <1>7, <2>4, <2>5, <2>6, <2>7 DEF AtItsPlace, f
  <2>9. \A q \in Writers : AtItsPlace(q)'
    BY <1>1, <1>2, <2>4, <2>8, OthersStay
  <2>10. residue' \subseteq residue \cup {Directory(f)}
    BY <2>1 DEF D
  <2> QED BY <1>1, <1>5, <1>6, <2>3, <2>5, <2>9, <2>10, FilesStay DEF Inv
<1> QED BY <1>9, <1>10

\* The marker is linked last, so the batch it commits is there; and what is linked of
\* a replay is linked by a writer whose batch was admitted.
LEMMA LinkNameKeepsInv ==
    ASSUME BatchesAssumption, Inv, NEW w \in Writers, LinkName(w)
    PROVE  Inv'
<1> DEFINE b == job[w].batch
           todo == job[w].todo
           f == Head(todo)
<1>1. /\ job[w].at = "link" /\ file' = [file EXCEPT ![f] = "linked"]
      /\ residue' = residue \ {Directory(f)}
      /\ job' = [job EXCEPT ![w].at = "unlink"]
      /\ UNCHANGED <<lock, minted, crashes>>
  BY DEF LinkName
<1>2. job[w] # Idle /\ lock = w /\ b \in Batches
  BY <1>1 DEF Inv, AtItsPlace, Idle
<1>3. /\ Elements(todo) \subseteq AllFiles(b)
      /\ \A g \in AllFiles(b) \ Elements(todo) : file[g] = "exact"
      /\ \A i \in 1..Len(todo) : todo[i] = Marker(b) => i = Len(todo)
      /\ \A o \in Replays(b) : Authorised(o)
      /\ todo # <<>> /\ file[f] = "absent"
  BY <1>1, <1>2 DEF Inv, AtItsPlace
<1>4. todo \in Seq(Files)
  BY DEF Inv, TypeInv, Jobs
<1>5. job'[w] = [job[w] EXCEPT !.at = "unlink"] /\ job' \in [Writers -> Jobs]
  BY <1>1 DEF Inv, TypeInv, Jobs
<1>6. /\ job'[w].batch = b /\ job'[w].todo = todo /\ job'[w].at = "unlink"
      /\ \A q \in Writers : q # w => job'[q] = job[q]
  BY <1>1, <1>5 DEF Inv, TypeInv, Jobs
<1> HIDE DEF b, todo
<1>7. f \in Files /\ f = todo[1] /\ Len(todo) \in Nat \ {0} /\ f \in Elements(todo)
  BY <1>3, <1>4 DEF Elements
<1> HIDE DEF f
<1>8. /\ file' \in [Files -> {"absent", "linked", "exact"}] /\ file'[f] = "linked"
      /\ \A g \in Files : g # f => file'[g] = file[g]
      /\ Improves
  BY <1>1, <1>3, <1>7 DEF Inv, TypeInv, Improves
<1>9. AllFiles(b) \subseteq Files /\ f \in AllFiles(b)
  BY <1>2, <1>3, <1>7, FilesOfBatch
<1>10. TypeInv'
  BY <1>1, <1>5, <1>8 DEF Inv, TypeInv
<1>11. AtItsPlace(w)'
  <2>1. \A g \in AllFiles(b) \ Elements(todo) : file'[g] = "exact"
    BY <1>3, <1>8, <1>9 DEF Improves
  <2>2. \A o \in Replays(b) : Authorised(o)'
    BY <1>3, <1>8, AuthorisedStays
  <2>3. job'[w] # Idle
    BY <1>6 DEF Idle
  <2>4. file'[Head(todo)] # "absent"
    BY <1>8 DEF f
  <2> QED BY <1>1, <1>2, <1>3, <1>6, <2>1, <2>2, <2>3, <2>4 DEF AtItsPlace
<1>12. \A q \in Writers : AtItsPlace(q)'
  BY <1>1, <1>2, <1>6, <1>11, OthersStay
<1>13. ASSUME NEW c \in Batches
       PROVE  Complete(c)'
  <2>1. CASE f # Marker(c)
    BY <2>1, <1>8, CompleteStays, MarkersAreFiles DEF Inv
  <2>2. CASE f = Marker(c)
    <3>1. c = b
      BY <2>2, <1>2, <1>9, FilesOfBatch DEF AllFiles, Marker, Evidence, Kinds
    <3>2. Len(todo) = 1
      <4>1. 1 \in 1..Len(todo) /\ todo[1] = Marker(b)
        BY <2>2, <3>1, <1>7
      <4> QED BY <4>1, <1>3
    <3>3. Elements(todo) = {Marker(b)}
      BY <2>2, <3>1, <3>2, <1>7 DEF Elements
    <3>4. \A g \in FilesOf(MemberSet(b)) : file[g] = "exact"
      BY <1>2, <1>3, <3>3, FilesOfBatch DEF AllFiles
    <3>5. \A g \in FilesOf(MemberSet(b)) : file'[g] = "exact"
      BY <3>4, <1>8, <1>9 DEF Improves, AllFiles
    <3> QED BY <3>1, <3>5 DEF Complete, Exact
  <2> QED BY <2>1, <2>2
<1>14. ASSUME NEW c \in minted'
       PROVE  Given(c)'
  <2>1. c \in Batches /\ Given(c) /\ Complete(c) /\ residue' \subseteq residue
    BY <1>1, <1>14 DEF Inv, TypeInv
  <2> QED BY <1>7, <1>8, <2>1, GivenStays
<1>15. ASSUME NEW o \in Outcomes
       PROVE  Repeated(o)'
  <2>1. CASE f \notin FilesOf({o})
    BY <2>1, <1>8, RepeatedStays, FilesOfOne DEF Inv
  <2>2. CASE f \in FilesOf({o})
    <3>1. PICK k \in Kinds : f = Evidence(k, o)
      BY <2>2, FilesOfOutcomes
    <3>2. f # Marker(b)
      BY <3>1 DEF Evidence, Marker, Kinds
    <3>3. PICK j \in Kinds, m \in MemberSet(b) : f = Evidence(j, m)
      BY <3>2, <1>2, <1>9, FilesOfBatch DEF AllFiles
    <3>4. o \in MemberSet(b)
      BY <3>1, <3>3 DEF Evidence
    <3>5. Source[o] # None => Authorised(o)'
      BY <3>4, <1>3, <1>8, AuthorisedStays DEF Replays
    <3> QED BY <3>5 DEF Repeated
  <2> QED BY <2>1, <2>2
<1> QED BY <1>10, <1>12, <1>13, <1>14, <1>15 DEF Inv

LEMMA UnlinkPendingKeepsInv ==
    ASSUME BatchesAssumption, Inv, NEW w \in Writers, UnlinkPending(w)
    PROVE  Inv'
<1> DEFINE b == job[w].batch
           todo == job[w].todo
           f == Head(todo)
<1>1. /\ job[w].at = "unlink" /\ file' = [file EXCEPT ![f] = "exact"]
      /\ job' = [job EXCEPT ![w].at = "next", ![w].todo = Tail(@)]
      /\ UNCHANGED <<residue, lock, minted, crashes>>
  BY DEF UnlinkPending
<1>2. job[w] # Idle /\ lock = w /\ b \in Batches
  BY <1>1 DEF Inv, AtItsPlace, Idle
<1>3. /\ Elements(todo) \subseteq AllFiles(b)
      /\ \A g \in AllFiles(b) \ Elements(todo) : file[g] = "exact"
      /\ \A i \in 1..Len(todo) : todo[i] = Marker(b) => i = Len(todo)
      /\ \A o \in Replays(b) : Authorised(o)
      /\ todo # <<>> /\ file[f] # "absent"
  BY <1>1, <1>2 DEF Inv, AtItsPlace
<1>4. todo \in Seq(Files)
  BY DEF Inv, TypeInv, Jobs
<1>5. job' = [job EXCEPT ![w] = [job[w] EXCEPT !.at = "next", !.todo = Tail(todo)]]
  BY <1>1 DEF Inv, TypeInv
<1> HIDE DEF todo
<1>6. /\ Tail(todo) \in Seq(Files) /\ f \in Files
      /\ Elements(todo) = Elements(Tail(todo)) \cup {f}
      /\ \A i \in 1..Len(Tail(todo)) : Tail(todo)[i] = todo[i + 1] /\ i + 1 \in 1..Len(todo)
      /\ Len(Tail(todo)) = Len(todo) - 1 /\ Len(todo) \in Nat \ {0}
  BY <1>3, <1>4, TailElements
<1>7. [job[w] EXCEPT !.at = "next", !.todo = Tail(todo)] \in Jobs
  BY <1>6 DEF Inv, TypeInv, Jobs
<1>8. job' \in [Writers -> Jobs]
  BY <1>5, <1>7 DEF Inv, TypeInv
<1>9. /\ job'[w].batch = b /\ job'[w].todo = Tail(todo) /\ job'[w].at = "next"
      /\ \A q \in Writers : q # w => job'[q] = job[q]
  BY <1>5 DEF Inv, TypeInv, Jobs
<1> HIDE DEF b, f
<1>10. /\ file' \in [Files -> {"absent", "linked", "exact"}] /\ file'[f] = "exact"
       /\ Improves /\ MakesNone
  BY <1>1, <1>3, <1>6 DEF Inv, TypeInv, Improves, MakesNone
<1>11. TypeInv'
  BY <1>1, <1>8, <1>10 DEF Inv, TypeInv
<1>12. AtItsPlace(w)'
  <2>1. \A g \in AllFiles(b) \ Elements(Tail(todo)) : file'[g] = "exact"
    <3>1. AllFiles(b) \subseteq Files
      BY <1>2, FilesOfBatch
    <3> QED BY <3>1, <1>3, <1>6, <1>10 DEF Improves
  <2>2. \A o \in Replays(b) : Authorised(o)'
    BY <1>3, <1>10, AuthorisedStays
  <2>3. \A i \in 1..Len(Tail(todo)) : Tail(todo)[i] = Marker(b) => i = Len(Tail(todo))
    <3> SUFFICES ASSUME NEW i \in 1..Len(Tail(todo)), Tail(todo)[i] = Marker(b)
                 PROVE  i = Len(Tail(todo))
      OBVIOUS
    <3>1. todo[i + 1] = Marker(b) /\ i + 1 \in 1..Len(todo)
      BY <1>6
    <3>2. i + 1 = Len(todo)
      BY <1>3, <3>1
    <3>3. i \in Int /\ Len(todo) \in Int /\ Len(Tail(todo)) = Len(todo) - 1
      BY <1>6
    <3> QED BY <3>2, <3>3
  <2>4. job'[w] # Idle
    BY <1>9 DEF Idle
  <2> QED BY <1>1, <1>2, <1>3, <1>6, <1>9, <2>1, <2>2, <2>3, <2>4 DEF AtItsPlace
<1>13. \A q \in Writers : AtItsPlace(q)'
  BY <1>1, <1>2, <1>9, <1>12, OthersStay
<1>14. residue' \subseteq residue /\ residue' \subseteq residue \cup {Directory(f)}
  BY <1>1
<1> QED BY <1>1, <1>6, <1>10, <1>11, <1>13, <1>14, FilesStay DEF Inv

\* A writer that is done, or dead, leaves every file as it is.
LEMMA WriterLeaves ==
    ASSUME BatchesAssumption, Inv, NEW w \in Writers, job[w] # Idle,
           job' = [job EXCEPT ![w] = Idle], lock' = Release,
           UNCHANGED <<file, residue>>,
           minted' \subseteq Batches, \A b \in minted' : Given(b),
           crashes' \in 0..MaxCrashes
    PROVE  Inv'
<1>1. lock = w
  BY DEF Inv, AtItsPlace
<1>2. Idle \in Jobs
  BY DEF Idle, Jobs
<1>3. TypeInv'
  BY <1>2 DEF Inv, TypeInv, Release
<1>4. /\ job'[w] = Idle /\ lock' = None
      /\ \A q \in Writers : q # w => job'[q] = job[q]
  BY DEF Inv, TypeInv, Release
<1>5. AtItsPlace(w)'
  BY <1>4 DEF AtItsPlace, BatchesAssumption
<1>6. \A q \in Writers : AtItsPlace(q)'
  BY <1>1, <1>4, <1>5, OthersStay
<1>7. \A b \in Batches : Complete(b)'
  BY DEF Inv, Complete
<1>8. \A b \in minted' : Given(b)'
  BY DEF Given
<1>9. \A o \in Outcomes : Repeated(o)'
  BY DEF Inv, Repeated, Authorised
<1> QED BY <1>3, <1>6, <1>7, <1>8, <1>9 DEF Inv

LEMMA MintCapabilityKeepsInv ==
    ASSUME BatchesAssumption, Inv, NEW w \in Writers, MintCapability(w)
    PROVE  Inv'
<1>1. job[w].at = "next"
  BY DEF MintCapability
<1>2. job[w] # Idle /\ job[w].batch \in Batches
  BY <1>1 DEF Inv, AtItsPlace, Idle
<1>3. minted' \subseteq Batches /\ \A b \in minted' : Given(b)
  BY <1>2, ResolvableIsGiven DEF MintCapability, Inv, TypeInv
<1> QED BY <1>2, <1>3, WriterLeaves DEF MintCapability, Inv, TypeInv

LEMMA CrashKeepsInv ==
    ASSUME BatchesAssumption, Inv, NEW w \in Writers, Crash(w)
    PROVE  Inv'
<1>1. crashes' \in 0..MaxCrashes
  BY DEF Crash, Inv, TypeInv, BatchesAssumption
<1> QED BY <1>1, WriterLeaves DEF Crash, Inv, TypeInv

LEMMA NextKeepsInv ==
    ASSUME BatchesAssumption, Inv, [Next]_vars
    PROVE  Inv'
<1>1. CASE UNCHANGED vars
  BY <1>1 DEF vars, Inv, TypeInv, AtItsPlace, Complete, Given, Repeated, Authorised, Exact
<1>2. ASSUME NEW w \in Writers, Step(w)
      PROVE  Inv'
  BY <1>2, PersistBatchKeepsInv, ResolveVerifiedBatchKeepsInv, WritePendingKeepsInv,
     LinkNameKeepsInv, UnlinkPendingKeepsInv, MintCapabilityKeepsInv DEF Step
<1> QED BY <1>1, <1>2, CrashKeepsInv DEF Next

\* What the invariant says of a committed batch and of one that was given out.
LEMMA InvIsComplete ==
    ASSUME BatchesAssumption, Inv
    PROVE  CommittedIsComplete
<1>1. \A b \in Batches : file[Marker(b)] # "absent" => Exact(file, FilesOf(MemberSet(b)))
  BY DEF Inv, Complete
<1>2. \A o \in Outcomes :
          Source[o] # None /\ (\E f \in FilesOf({o}) : file[f] # "absent")
              => \E b \in Batches : file[Marker(b)] = "exact" /\ Source[o] \in MemberSet(b)
  BY DEF Inv, Repeated, Authorised
<1>3. ASSUME NEW b \in minted, Replays(b) = {}
      PROVE  Resolvable(b)
  <2>1. b \in Batches /\ Given(b)
    BY DEF Inv, TypeInv
  <2>2. Exact(file, FilesOf(MemberSet(b)))
    BY <2>1, <1>1 DEF Given
  <2>3. Sources(b) = {} /\ ReplaysResolve(file, b)
    BY <1>3 DEF Sources, ReplaysResolve
  <2>4. ASSUME NEW o \in MemberSet(b), Pending(file, residue, Evidence("binding", o))
        PROVE  FALSE
    <3>1. Evidence("binding", o) \notin residue
      BY <2>1 DEF Given, ReceiptDirectories
    <3>2. PICK f \in Files : Directory(f) = Evidence("binding", o) /\ file[f] = "linked"
      BY <2>4, <3>1 DEF Pending
    <3>3. f \in FilesOf(MemberSet(b))
      BY <2>1, <3>2, BindingDirectory, FilesOfOutcomes DEF Kinds
    <3> QED BY <2>2, <3>2, <3>3 DEF Exact
  <2> QED BY <2>1, <2>2, <2>3, <2>4 DEF Resolvable, Given, ReceiptDirectories
<1> QED BY <1>1, <1>2, <1>3 DEF CommittedIsComplete

-----------------------------------------------------------------------------
(* The theorems.                                                             *)

\* What a writer has behind it is exact, and the marker is the last before it.
THEOREM EvidenceInvariant ==
    ASSUME BatchesAssumption
    PROVE  Spec => []Inv
<1>1. Init => Inv
  BY InvInit
<1>2. Inv /\ [Next]_vars => Inv'
  BY NextKeepsInv
<1> QED BY <1>1, <1>2, PTL DEF Spec

\* The values of the variables, and that the lock is held by exactly who is at work.
THEOREM EvidenceTypes ==
    ASSUME BatchesAssumption
    PROVE  Spec => []TypeOK
<1>1. Inv => TypeOK
  BY DEF Inv, TypeInv, TypeOK, AtItsPlace, Jobs
<1> QED BY <1>1, EvidenceInvariant, PTL

\* A commit marker means that all of its batch is there, a REPLAY is written only
\* after its source is committed, and what was given out of LIVE outcomes can be
\* reopened for ever, whatever overlaps and wherever writers die.
THEOREM CommittedBatchesAreComplete ==
    ASSUME BatchesAssumption
    PROVE  Spec => []CommittedIsComplete
<1> QED BY InvIsComplete, EvidenceInvariant, PTL

=============================================================================

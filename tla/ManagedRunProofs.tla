--------------------------- MODULE ManagedRunProofs ---------------------------
(* Theorems about a managed run: about the activation of reviewed generations, *)
(* for any number of services, requests, files, crashes and failures, and      *)
(* about the start of the run, for any number of callers and operations.       *)
EXTENDS ManagedRun, FiniteSetTheorems, TLAPS

-----------------------------------------------------------------------------
(* The inductive invariant: what the rows and the files promise, and what a   *)
(* service at each place of its call can rely on.                             *)

Jobs == [request : Requests, op : {c.op : c \in Calls}, config : {c.config : c \in Calls},
         seen : Requests \cup {Zero}, ordinal : Int, known : SUBSET Int,
         image : Images \cup {None}]

FileStates == {"absent", "linked", "exact", "changed", "changing"}

RowsOK ==
    /\ active \in Requests \cup {Zero}
    /\ intents \in [Requests -> Commands \cup {None}]
    /\ events = [r \in Requests |-> events[r]]
    /\ \A r \in Requests : events[r] \subseteq Ordinals(r)
    /\ readiness \in [Requests -> Images \cup {None}]
    /\ activations \subseteq Requests

DiskOK ==
    /\ files = [r \in Requests |-> files[r]]
    /\ \A r \in Requests : files[r] \in [Ordinals(r) -> FileStates]
    /\ index \in [Requests -> Images \cup {None, Torn, Changed, Changing}]
    /\ ready \in [Requests -> Receipts \cup {None}]

PlacesOK ==
    /\ pc \in [Services -> Places]
    /\ job = [s \in Services |-> job[s]]
    /\ \A s \in Services : pc[s] \in InRepository <=> repository = s
    /\ \A s \in Services : pc[s] \in InTransaction <=> writer = s

\* Files are recorded in order, from the first one on, and once they are complete.
FilesRecorded ==
    \A r \in Requests :
        /\ \E k \in 0 .. Publications[r] : events[r] = 0 .. k - 1
        /\ \A n \in events[r] : files[r][n] \notin {"absent", "linked"}

\* A recorded index is there, sealed, and the last thing to be recorded.
IndexRecorded ==
    \A r \in Requests :
        readiness[r] # None =>
            /\ ready[r] = [image |-> readiness[r], links |-> 1]
            /\ index[r] \in {readiness[r], Changed, Changing}
            /\ events[r] = Ordinals(r)

\* An index was built as the command of its request asked.
BuiltAsAsked ==
    \A r \in Requests :
        /\ index[r] \in Images => intents[r] # None /\ index[r].config = intents[r].config
        /\ ready[r] # None =>
            intents[r] # None /\ ready[r].image.config = intents[r].config

ActiveIsRecorded ==
    active # Zero =>
        /\ active \in activations /\ intents[active] # None
        /\ events[active] = Ordinals(active) /\ readiness[active] # None

\* Nobody is told anything before there is an active generation.
Told ==
    \A a \in answers :
        /\ a.request \in Requests /\ active # Zero
        /\ a.result = "activated" <=> active = a.request /\ intents[a.request].op = a.op

Shared == RowsOK /\ DiskOK /\ FilesRecorded /\ IndexRecorded /\ BuiltAsAsked
            /\ ActiveIsRecorded /\ Told

\* The claim of a call is its own, and the files before its ordinal are recorded.
Claimed(s) ==
    LET r == job[s].request
    IN  pc[s] \notin {"idle", "preflight", "claim"} =>
            /\ intents[r] = Command(job[s])
            /\ job[s].ordinal \in 0 .. Publications[r]
            /\ 0 .. job[s].ordinal - 1 \subseteq events[r]

\* One file at a time; the index when all of them are recorded.
Publishing(s) ==
    LET r == job[s].request
    IN  /\ pc[s] \in {"preflight", "claim"} => job[s].ordinal = 0
        /\ pc[s] = "publish" => job[s].known \subseteq events[r]
        /\ pc[s] \in {"create", "linked", "record"} => job[s].ordinal \in Ordinals(r)
        /\ pc[s] \in {"build", "write", "written", "ready", "verify", "recordIndex"} =>
            events[r] = Ordinals(r)

\* READY is away while the index is written, and unsealed while it has two links;
\* what is verified and recorded after that is an index.
Building(s) ==
    LET r == job[s].request
    IN  /\ pc[s] \in {"write", "written"} => ready[r] = None
        /\ pc[s] = "ready" => ready[r] # None /\ ready[r].links = 2
        /\ pc[s] \in {"verify", "recordIndex"} => job[s].image # None

\* Files that change under the open authority transaction are "changing".
Activating(s) ==
    LET r == job[s].request
    IN  /\ pc[s] \in InTransaction =>
            /\ active = Zero /\ events[r] = Ordinals(r) /\ readiness[r] # None
            /\ \A n \in Ordinals(r) : files[r][n] \in {"exact", "changing"}
            /\ index[r] # Changed
        /\ pc[s] = "committed" => active = r

AtItsPlace(s) ==
    /\ pc[s] # "idle" => job[s] \in Jobs /\ Command(job[s]) \in Commands
    /\ Claimed(s) /\ Publishing(s) /\ Building(s) /\ Activating(s)

Inv == Shared /\ PlacesOK /\ \A s \in Services : AtItsPlace(s)

-----------------------------------------------------------------------------
(* Values.                                                                   *)

LEMMA IndexStates ==
    /\ Torn \notin Images /\ Changed \notin Images /\ Changing \notin Images
    /\ Torn # Changed /\ Torn # Changing /\ Changed # Changing
<1>1. \A x \in Images : DOMAIN x = {"config", "variant"}
    BY DEF Images
<1>2. DOMAIN Torn = {"torn"} /\ DOMAIN Changed = {"changed"} /\ DOMAIN Changing = {"changing"}
    BY DEF Torn, Changed, Changing
<1>3. QED
    BY <1>1, <1>2

LEMMA ReceiptsAreRecords ==
    ASSUME NEW x \in Receipts
    PROVE  x.image \in Images /\ x.links \in {1, 2} /\ x = [image |-> x.image, links |-> x.links]
BY DEF Receipts

LEMMA NoneIsNew ==
    /\ None \notin Images /\ None \notin Receipts /\ None \notin Commands
    /\ None \notin Services /\ None \notin Requests /\ Zero \notin Requests
    /\ None \notin {Torn, Changed, Changing}
BY ActivationAssumptions

LEMMA OrdinalsOfRequests ==
    ASSUME NEW r \in Requests
    PROVE  Publications[r] \in Nat /\ Ordinals(r) = 0 .. Publications[r] - 1
BY ActivationAssumptions DEF Ordinals

LEMMA InitInv == Init => Inv
<1> SUFFICES ASSUME Init PROVE Inv
    OBVIOUS
<1>1. \A r \in Requests : Publications[r] \in Nat
    BY OrdinalsOfRequests
<1>2. RowsOK /\ DiskOK /\ PlacesOK
    BY NoneIsNew DEF Init, RowsOK, DiskOK, PlacesOK, FileStates, Places, InRepository, InTransaction
<1>3. FilesRecorded
    <2>1. ASSUME NEW r \in Requests PROVE \E k \in 0 .. Publications[r] : events[r] = 0 .. k - 1
        <3>1. 0 \in 0 .. Publications[r] /\ events[r] = 0 .. 0 - 1
            BY <1>1 DEF Init
        <3>2. QED
            BY <3>1
    <2>2. QED
        BY <2>1 DEF Init, FilesRecorded
<1>4. IndexRecorded /\ BuiltAsAsked /\ ActiveIsRecorded /\ Told
    BY NoneIsNew DEF Init, IndexRecorded, BuiltAsAsked, ActiveIsRecorded, Told
<1>5. \A s \in Services : AtItsPlace(s)
    BY DEF Init, AtItsPlace, Claimed, Publishing, Building, Activating, InTransaction
<1>6. QED
    BY <1>2, <1>3, <1>4, <1>5 DEF Inv, Shared

-----------------------------------------------------------------------------
(* What a step means to the services that do not take it.                    *)

\* Rows are added and never changed.
RowsGrow ==
    /\ \A r \in Requests : intents[r] # None => intents'[r] = intents[r]
    /\ \A r \in Requests : events[r] \subseteq events'[r] /\ events'[r] \subseteq Ordinals(r)
    /\ \A r \in Requests : readiness[r] # None => readiness'[r] = readiness[r]
    /\ active # Zero => active' = active

\* READY is left to the holder of the repository, the authority to the open
\* transaction, and no file becomes "changed" while that is open.
Respects(g) ==
    LET r == job[g].request
    IN  /\ pc[g] \in InRepository => ready'[r] = ready[r]
        /\ pc[g] \in InTransaction =>
            /\ active' = active
            /\ \A n \in Ordinals(r) : files'[r][n] \in {files[r][n], "exact", "changing"}
            /\ index'[r] = index[r] \/ index'[r] # Changed

LEMMA OthersStay ==
    ASSUME Inv, RowsGrow, NEW g \in Services, Respects(g), pc'[g] = pc[g], job'[g] = job[g]
    PROVE  AtItsPlace(g)'
<1> DEFINE r == job[g].request
<1>1. AtItsPlace(g) /\ pc[g] \in Places
    BY DEF Inv, PlacesOK
<1>2. CASE pc[g] = "idle"
    BY <1>2 DEF AtItsPlace, Claimed, Publishing, Building, Activating, InTransaction
<1>3. CASE pc[g] # "idle"
    <2>1. /\ r \in Requests /\ job[g] \in Jobs /\ Command(job[g]) \in Commands
          /\ Command(job[g]) # None
        BY <1>1, <1>3, NoneIsNew DEF AtItsPlace, Jobs
    <2>2. Claimed(g)'
        BY <1>1, <2>1 DEF AtItsPlace, Claimed, RowsGrow, Command
    <2>3. Publishing(g)'
        BY <1>1, <2>1 DEF AtItsPlace, Publishing, RowsGrow
    <2>4. Building(g)'
        BY <1>1, <2>1 DEF AtItsPlace, Building, Respects, InRepository
    <2>5. Activating(g)'
        <3>1. CASE pc[g] \in InTransaction
            <4>1. /\ active = Zero /\ events[r] = Ordinals(r) /\ readiness[r] # None
                  /\ \A n \in Ordinals(r) : files[r][n] \in {"exact", "changing"}
                  /\ index[r] # Changed
                BY <1>1, <3>1 DEF AtItsPlace, Activating
            <4>2. active' = Zero /\ events'[r] = Ordinals(r) /\ readiness'[r] # None
                BY <2>1, <3>1, <4>1 DEF RowsGrow, Respects
            <4>3. index'[r] # Changed
                BY <3>1, <4>1 DEF Respects
            <4>4. \A n \in Ordinals(r) : files'[r][n] \in {"exact", "changing"}
                BY <3>1, <4>1 DEF Respects
            <4>5. QED
                BY <3>1, <4>2, <4>3, <4>4 DEF Activating, InTransaction
        <3>2. CASE pc[g] = "committed"
            BY <1>1, <2>1, <3>2, NoneIsNew DEF AtItsPlace, Activating, RowsGrow, InTransaction
        <3>3. CASE pc[g] \notin InTransaction \cup {"committed"}
            BY <3>3 DEF Activating
        <3>4. QED
            BY <3>1, <3>2, <3>3
    <2>6. QED
        BY <2>1, <2>2, <2>3, <2>4, <2>5 DEF AtItsPlace, Command
<1>4. QED
    BY <1>2, <1>3

OthersUntouched(s) ==
    \A g \in Services \ {s} : Respects(g) /\ pc'[g] = pc[g] /\ job'[g] = job[g]

LEMMA StepInv ==
    ASSUME Inv, NEW s \in Services, Shared', PlacesOK', RowsGrow, OthersUntouched(s),
           AtItsPlace(s)'
    PROVE  Inv'
<1>1. ASSUME NEW g \in Services, g # s PROVE AtItsPlace(g)'
    BY <1>1, OthersStay DEF OthersUntouched
<1>2. QED
    BY <1>1 DEF Inv

LEMMA QuietStep ==
    ASSUME Shared, UNCHANGED <<rows, disk>>
    PROVE  /\ RowsGrow /\ \A g \in Services : Respects(g)
           /\ RowsOK' /\ DiskOK' /\ FilesRecorded' /\ IndexRecorded' /\ BuiltAsAsked'
           /\ ActiveIsRecorded' /\ (answers' = answers => Told')
<1>1. UNCHANGED <<active, intents, events, readiness, activations, files, index, ready>>
    BY DEF rows, disk
<1>2. RowsGrow /\ \A g \in Services : Respects(g)
    BY <1>1 DEF Shared, RowsOK, RowsGrow, Respects
<1>3. RowsOK' /\ DiskOK'
    BY <1>1 DEF Shared, RowsOK, DiskOK
<1>4. FilesRecorded' /\ IndexRecorded' /\ BuiltAsAsked' /\ ActiveIsRecorded'
    BY <1>1 DEF Shared, FilesRecorded, IndexRecorded, BuiltAsAsked, ActiveIsRecorded
<1>5. answers' = answers => Told'
    BY <1>1 DEF Shared, Told
<1>6. QED
    BY <1>2, <1>3, <1>4, <1>5

-----------------------------------------------------------------------------
(* Steps that leave the rows and the files as they are.                      *)

\* A service that leaves its call gives back what it held.
LEMMA LeaveStep ==
    ASSUME Inv, NEW s \in Services, Leave(s)
    PROVE  /\ PlacesOK' /\ AtItsPlace(s)'
           /\ \A g \in Services \ {s} : pc'[g] = pc[g] /\ job'[g] = job[g]
<1>1. /\ pc' = [pc EXCEPT ![s] = "idle"] /\ job' = [job EXCEPT ![s] = None]
      /\ repository' = IF repository = s THEN None ELSE repository
      /\ writer' = IF writer = s THEN None ELSE writer
    BY DEF Leave
<1>2. pc \in [Services -> Places] /\ job = [g \in Services |-> job[g]]
    BY DEF Inv, PlacesOK
<1>3. PlacesOK'
    <2>1. pc' \in [Services -> Places] /\ job' = [g \in Services |-> job'[g]]
        BY <1>1, <1>2 DEF Places
    <2>2. ASSUME NEW g \in Services
          PROVE  /\ pc'[g] \in InRepository <=> repository' = g
                 /\ pc'[g] \in InTransaction <=> writer' = g
        BY <1>1, <1>2, NoneIsNew DEF Inv, PlacesOK, InRepository, InTransaction
    <2>3. QED
        BY <2>1, <2>2 DEF PlacesOK
<1>4. AtItsPlace(s)'
    BY <1>1, <1>2 DEF AtItsPlace, Claimed, Publishing, Building, Activating, InTransaction
<1>5. QED
    BY <1>1, <1>2, <1>3, <1>4

LEMMA SilentStep ==
    ASSUME Inv, NEW s \in Services, Leave(s), UNCHANGED <<rows, disk, answers>>
    PROVE  Inv'
<1>1. Shared' /\ RowsGrow /\ \A g \in Services : Respects(g)
    BY QuietStep DEF Inv, Shared, rows, disk
<1>2. OthersUntouched(s)
    BY <1>1, LeaveStep DEF OthersUntouched
<1>3. QED
    BY <1>1, <1>2, LeaveStep, StepInv

\* An answer that the active generation bears out is one that it will bear out.
LEMMA AnswerStep ==
    ASSUME Inv, NEW s \in Services, Leave(s), UNCHANGED <<rows, disk>>, active # Zero,
           NEW what, Answer(s, what), job[s].request \in Requests,
           what = "activated" <=>
                active = job[s].request /\ intents[job[s].request].op = job[s].op
    PROVE  Inv'
<1>1. /\ RowsGrow /\ \A g \in Services : Respects(g)
      /\ RowsOK' /\ DiskOK' /\ FilesRecorded' /\ IndexRecorded' /\ BuiltAsAsked'
      /\ ActiveIsRecorded'
    BY QuietStep DEF Inv
<1>2. active' = active /\ intents' = intents
    BY DEF rows
<1>3. Told'
    BY <1>2 DEF Inv, Shared, Told, Answer
<1>4. OthersUntouched(s)
    BY <1>1, LeaveStep DEF OthersUntouched
<1>5. QED
    BY <1>1, <1>3, <1>4, LeaveStep, StepInv DEF Shared

\* A service that goes on from one place to the next.
LEMMA WorkStep ==
    ASSUME Inv, NEW s \in Services,
           NEW to \in Places, pc' = [pc EXCEPT ![s] = to],
           NEW new, job' = [job EXCEPT ![s] = new],
           \A g \in Services \ {s} : (repository' = g <=> repository = g) /\ (writer' = g <=> writer = g),
           to \in InRepository <=> repository' = s, to \in InTransaction <=> writer' = s,
           Shared', RowsGrow, \A g \in Services \ {s} : Respects(g), AtItsPlace(s)'
    PROVE  Inv'
<1>1. pc \in [Services -> Places] /\ job = [g \in Services |-> job[g]]
    BY DEF Inv, PlacesOK
<1>2. PlacesOK'
    <2>1. pc' \in [Services -> Places] /\ job' = [g \in Services |-> job'[g]]
        BY <1>1
    <2>2. ASSUME NEW g \in Services
          PROVE  /\ pc'[g] \in InRepository <=> repository' = g
                 /\ pc'[g] \in InTransaction <=> writer' = g
        BY <1>1 DEF Inv, PlacesOK, InRepository, InTransaction
    <2>3. QED
        BY <2>1, <2>2 DEF PlacesOK
<1>3. OthersUntouched(s)
    BY <1>1 DEF OthersUntouched
<1>4. QED
    BY <1>2, <1>3, StepInv

\* The same when the rows and the files stay as they are.
LEMMA MoveStep ==
    ASSUME Inv, NEW s \in Services, UNCHANGED <<rows, disk, answers>>,
           NEW to \in Places, pc' = [pc EXCEPT ![s] = to],
           NEW new, job' = [job EXCEPT ![s] = new],
           \A g \in Services \ {s} : (repository' = g <=> repository = g) /\ (writer' = g <=> writer = g),
           to \in InRepository <=> repository' = s, to \in InTransaction <=> writer' = s,
           AtItsPlace(s)'
    PROVE  Inv'
<1>1. Shared' /\ RowsGrow /\ \A g \in Services : Respects(g)
    BY QuietStep DEF Inv, Shared, rows, disk
<1>2. QED
    BY <1>1, WorkStep

\* A service on its way: its job, and the locks that it holds.
LEMMA OnItsWay ==
    ASSUME Inv, NEW s \in Services
    PROVE  /\ AtItsPlace(s) /\ pc[s] \in Places /\ job = [job EXCEPT ![s] = job[s]]
           /\ pc[s] \in InRepository <=> repository = s
           /\ pc[s] \in InTransaction <=> writer = s
           /\ pc[s] # "idle" => /\ job[s].request \in Requests /\ job[s] \in Jobs
                               /\ Command(job[s]) \in Commands
                               /\ Command(job[s]) # None
                               /\ Publications[job[s].request] \in Nat
BY NoneIsNew, OrdinalsOfRequests DEF Inv, PlacesOK, AtItsPlace, Jobs

LEMMA BeginStep ==
    ASSUME Inv, NEW s \in Services, NEW c \in Calls, Begin(s, c)
    PROVE  Inv'
<1> DEFINE new == [request |-> c.request, op |-> c.op, config |-> c.config,
                   seen |-> active, ordinal |-> 0, known |-> {}, image |-> None]
<1>1. /\ pc[s] = "idle" /\ pc' = [pc EXCEPT ![s] = "preflight"]
      /\ job' = [job EXCEPT ![s] = new]
      /\ UNCHANGED <<rows, disk, locks, answers>>
    BY DEF Begin, Goto
<1>2. new \in Jobs /\ Command(new) \in Commands
    BY ActivationAssumptions DEF Inv, Shared, RowsOK, Jobs, Command, Commands
<1>3. pc'[s] = "preflight" /\ job'[s] = new
    BY <1>1 DEF Inv, PlacesOK
<1>4. AtItsPlace(s)'
    BY <1>2, <1>3 DEF AtItsPlace, Claimed, Publishing, Building, Activating, InTransaction, Command
<1> HIDE DEF new
<1>5. /\ repository' = repository /\ writer' = writer
      /\ "preflight" \in Places \ (InRepository \cup InTransaction)
      /\ repository # s /\ writer # s
    BY <1>1, OnItsWay DEF Places, InRepository, InTransaction, locks
<1>6. QED
    BY <1>1, <1>4, <1>5, MoveStep

LEMMA RefreshStep ==
    ASSUME Inv, NEW s \in Services, Refresh(s)
    PROVE  Inv'
<1> DEFINE r == job[s].request
           new == [job[s] EXCEPT !.known = events[r], !.image = readiness[r]]
<1>1. /\ pc[s] = "refresh" /\ pc' = [pc EXCEPT ![s] = "publish"]
      /\ job' = [job EXCEPT ![s] = new]
      /\ UNCHANGED <<rows, disk, locks, answers>>
    BY DEF Refresh, Goto
<1>2. /\ r \in Requests /\ job[s] \in Jobs /\ Command(job[s]) \in Commands /\ Claimed(s)
    BY <1>1, OnItsWay DEF AtItsPlace
<1>3. events[r] \subseteq Int /\ readiness[r] \in Images \cup {None}
    BY <1>2, OrdinalsOfRequests DEF Inv, Shared, RowsOK
<1>4. /\ new \in Jobs /\ Command(new) = Command(job[s]) /\ new.request = r
      /\ new.ordinal = job[s].ordinal /\ new.known = events[r]
    BY <1>2, <1>3 DEF Jobs, Command
<1> HIDE DEF new
<1>5. pc'[s] = "publish" /\ job'[s] = new /\ intents' = intents /\ events' = events
    BY <1>1 DEF Inv, PlacesOK, rows
<1>6. Claimed(s)'
    BY <1>1, <1>2, <1>4, <1>5 DEF Claimed, Command
<1>7. AtItsPlace(s)'
    BY <1>2, <1>4, <1>5, <1>6 DEF AtItsPlace, Publishing, Building, Activating, InTransaction, Command
<1>8. /\ repository' = repository /\ writer' = writer
      /\ "publish" \in Places \ (InRepository \cup InTransaction)
      /\ repository # s /\ writer # s
    BY <1>1, OnItsWay DEF Places, InRepository, InTransaction, locks
<1>9. QED
    BY <1>1, <1>7, <1>8, MoveStep

LEMMA ReopenStep ==
    ASSUME Inv, NEW s \in Services, Reopen(s)
    PROVE  Inv'
<1> DEFINE r == job[s].request
           n == job[s].ordinal
           new == [job[s] EXCEPT !.ordinal = n + 1]
<1>1. /\ pc[s] = "publish" /\ pc' = [pc EXCEPT ![s] = "refresh"]
      /\ n \in job[s].known
      /\ job' = [job EXCEPT ![s] = new]
      /\ UNCHANGED <<rows, disk, locks, answers>>
    BY DEF Reopen, Goto
<1>2. /\ r \in Requests /\ job[s] \in Jobs /\ Command(job[s]) \in Commands /\ Claimed(s)
      /\ Publishing(s) /\ Publications[r] \in Nat /\ n \in Int
    BY <1>1, OnItsWay DEF AtItsPlace, Jobs
<1>3. n \in events[r] /\ n \in 0 .. Publications[r] - 1
    BY <1>1, <1>2, OrdinalsOfRequests DEF Publishing, Inv, Shared, RowsOK
<1>4. /\ new \in Jobs /\ Command(new) = Command(job[s]) /\ new.request = r
      /\ new.ordinal = n + 1
    BY <1>2 DEF Jobs, Command
<1> HIDE DEF new
<1>5. pc'[s] = "refresh" /\ job'[s] = new /\ intents' = intents /\ events' = events
    BY <1>1 DEF Inv, PlacesOK, rows
<1>6. Claimed(s)'
    <2>1. intents[r] = Command(job[s]) /\ 0 .. n - 1 \subseteq events[r]
        BY <1>1, <1>2 DEF Claimed
    <2>2. n + 1 \in 0 .. Publications[r]
        BY <1>2, <1>3
    <2>3. 0 .. (n + 1) - 1 \subseteq events[r]
        BY <1>2, <1>3, <2>1
    <2>4. QED
        BY <1>4, <1>5, <2>1, <2>2, <2>3 DEF Claimed, Command
<1>7. AtItsPlace(s)'
    BY <1>2, <1>4, <1>5, <1>6 DEF AtItsPlace, Publishing, Building, Activating, InTransaction, Command
<1>8. /\ repository' = repository /\ writer' = writer
      /\ "refresh" \in Places \ (InRepository \cup InTransaction)
      /\ repository # s /\ writer # s
    BY <1>1, OnItsWay DEF Places, InRepository, InTransaction, locks
<1>9. QED
    BY <1>1, <1>7, <1>8, MoveStep

\* The index that is adopted becomes the one the call works for.
LEMMA AdoptIndexStep ==
    ASSUME Inv, NEW s \in Services, AdoptIndex(s)
    PROVE  Inv'
<1> DEFINE r == job[s].request
           new == [job[s] EXCEPT !.image = ready[r].image]
<1>1. /\ pc[s] = "build" /\ pc' = [pc EXCEPT ![s] = "recordIndex"]
      /\ ready[r] # None /\ job' = [job EXCEPT ![s] = new]
      /\ repository' = None /\ writer' = writer
      /\ UNCHANGED <<rows, disk, answers>>
    BY DEF AdoptIndex, Goto
<1>2. /\ r \in Requests /\ job[s] \in Jobs /\ Command(job[s]) \in Commands /\ Claimed(s)
      /\ Publishing(s) /\ repository = s
    BY <1>1, OnItsWay DEF AtItsPlace, InRepository
<1>3. ready[r].image \in Images
    BY <1>1, <1>2, ReceiptsAreRecords DEF Inv, Shared, DiskOK
<1>4. /\ new \in Jobs /\ Command(new) = Command(job[s]) /\ new.request = r
      /\ new.ordinal = job[s].ordinal /\ new.image # None
    BY <1>2, <1>3, NoneIsNew DEF Jobs, Command
<1> HIDE DEF new
<1>5. pc'[s] = "recordIndex" /\ job'[s] = new /\ intents' = intents /\ events' = events
    BY <1>1 DEF Inv, PlacesOK, rows
<1>6. Claimed(s)'
    BY <1>1, <1>2, <1>4, <1>5 DEF Claimed, Command
<1>7. Publishing(s)'
    BY <1>1, <1>2, <1>4, <1>5 DEF Publishing
<1>8. AtItsPlace(s)'
    BY <1>2, <1>4, <1>5, <1>6, <1>7 DEF AtItsPlace, Building, Activating, InTransaction, Command
<1>9. /\ "recordIndex" \in Places \ (InRepository \cup InTransaction)
      /\ repository = s /\ repository' = None /\ None \notin Services
      /\ writer' = writer /\ writer # s
    BY <1>1, <1>2, OnItsWay, NoneIsNew DEF Places, InRepository, InTransaction
<1>10. QED
    BY <1>1, <1>8, <1>9, MoveStep

\* The same for a service that keeps its job.
LEMMA WalkStep ==
    ASSUME Inv, NEW s \in Services, UNCHANGED <<rows, disk, answers, job>>, pc[s] # "idle",
           NEW to \in Places, pc' = [pc EXCEPT ![s] = to],
           \A g \in Services \ {s} : (repository' = g <=> repository = g) /\ (writer' = g <=> writer = g),
           to \in InRepository <=> repository' = s, to \in InTransaction <=> writer' = s,
           to = "claim" \/ pc[s] \notin {"preflight", "claim"},
           Publishing(s)', Building(s)', Activating(s)'
    PROVE  Inv'
<1>1. /\ pc'[s] = to /\ job' = job /\ intents' = intents /\ events' = events
      /\ AtItsPlace(s) /\ job' = [job EXCEPT ![s] = job[s]]
    BY OnItsWay DEF Inv, PlacesOK, rows
<1>2. Claimed(s)'
    BY <1>1 DEF AtItsPlace, Claimed, Command
<1>3. AtItsPlace(s)'
    BY <1>1, <1>2 DEF AtItsPlace, Command
<1>4. QED
    BY <1>1, <1>3, MoveStep

LEMMA PlainMoves ==
    ASSUME Inv, NEW s \in Services, Preflight(s) \/ VerifyIndex(s) \/ Guard(s)
    PROVE  Inv'
<1>1. PICK to \in {"claim", "guard", "activate"} :
        /\ pc' = [pc EXCEPT ![s] = to]
        /\ pc[s] \in {"preflight", "publish", "guard"} /\ (to = "claim" <=> pc[s] = "preflight")
        /\ UNCHANGED <<rows, disk, locks, job, answers>>
    BY DEF Preflight, VerifyIndex, Guard, Goto
<1>2. /\ repository' = repository /\ writer' = writer /\ repository # s /\ writer # s
      /\ to \in Places \ (InRepository \cup InTransaction) /\ pc'[s] = to
    BY <1>1, OnItsWay DEF Places, InRepository, InTransaction, locks, Inv, PlacesOK
<1>3. (Publishing(s) /\ Building(s) /\ Activating(s))'
    BY <1>1, <1>2, OnItsWay DEF AtItsPlace, Publishing, Building, Activating, InTransaction
<1>4. QED
    BY <1>1, <1>2, <1>3, WalkStep

LEMMA VerifyBuiltStep ==
    ASSUME Inv, NEW s \in Services, VerifyBuilt(s)
    PROVE  Inv'
<1>1. /\ pc[s] = "verify" /\ pc' = [pc EXCEPT ![s] = "recordIndex"] /\ repository' = None
      /\ UNCHANGED <<rows, disk, writer, job, answers>>
    BY DEF VerifyBuilt, Goto
<1>2. /\ repository = s /\ writer' = writer /\ writer # s /\ None \notin Services
      /\ "recordIndex" \in Places \ (InRepository \cup InTransaction) /\ pc'[s] = "recordIndex"
    BY <1>1, OnItsWay, NoneIsNew DEF Places, InRepository, InTransaction, Inv, PlacesOK
<1>3. (Publishing(s) /\ Building(s) /\ Activating(s))'
    BY <1>1, <1>2, OnItsWay DEF AtItsPlace, Publishing, Building, Activating, InTransaction, rows
<1>4. QED
    BY <1>1, <1>2, <1>3, WalkStep

\* The authority transaction opens on rows and files that are complete.
LEMMA UpdateAuthorityStep ==
    ASSUME Inv, NEW s \in Services, UpdateAuthority(s)
    PROVE  Inv'
<1> DEFINE r == job[s].request
<1>1. /\ pc[s] = "activate" /\ pc' = [pc EXCEPT ![s] = "updated"] /\ writer = None /\ writer' = s
      /\ Activatable(r, Command(job[s])) /\ Verified(r) /\ active = Zero
      /\ UNCHANGED <<rows, disk, repository, job, answers>>
    BY DEF UpdateAuthority, Goto
<1>2. /\ repository' = repository /\ repository # s /\ None \notin Services
      /\ "updated" \in Places \cap InTransaction /\ "updated" \notin InRepository
      /\ pc'[s] = "updated"
    BY <1>1, OnItsWay, NoneIsNew DEF Places, InRepository, InTransaction, Inv, PlacesOK
<1>3. /\ events[r] = Ordinals(r) /\ readiness[r] # None
      /\ \A n \in Ordinals(r) : files[r][n] = "exact"
      /\ index[r] = readiness[r]
    BY <1>1 DEF Activatable, Verified, Effects, Published, Indexed
<1>4. r \in Requests /\ index[r] # Changed
    BY <1>1, <1>3, OnItsWay, IndexStates DEF Inv, Shared, RowsOK
<1>5. (Publishing(s) /\ Building(s))'
    BY <1>2 DEF Publishing, Building
<1>6. Activating(s)'
    BY <1>1, <1>2, <1>3, <1>4 DEF Activating, rows, disk
<1>7. QED
    BY <1>1, <1>2, <1>5, <1>6, WalkStep

LEMMA RecheckEffectsStep ==
    ASSUME Inv, NEW s \in Services, RecheckEffects(s)
    PROVE  Inv'
<1>1. /\ pc[s] = "updated" /\ pc' = [pc EXCEPT ![s] = "checked"]
      /\ UNCHANGED <<rows, disk, locks, job, answers>>
    BY DEF RecheckEffects, Goto
<1>2. /\ repository' = repository /\ repository # s /\ writer' = writer /\ writer = s
      /\ "checked" \in Places \cap InTransaction /\ "checked" \notin InRepository
      /\ pc'[s] = "checked"
    BY <1>1, OnItsWay DEF Places, InRepository, InTransaction, Inv, PlacesOK, locks
<1>3. (Publishing(s) /\ Building(s) /\ Activating(s))'
    BY <1>1, <1>2, OnItsWay DEF AtItsPlace, Publishing, Building, Activating, InTransaction, rows,
        disk
<1>4. QED
    BY <1>1, <1>2, <1>3, WalkStep

LEMMA ReplayActivationStep ==
    ASSUME Inv, NEW s \in Services, ReplayActivation(s)
    PROVE  Inv'
<1>1. /\ pc[s] = "activate" /\ pc' = [pc EXCEPT ![s] = "committed"] /\ active = job[s].request
      /\ UNCHANGED <<rows, disk, locks, job, answers>>
    BY DEF ReplayActivation, Goto
<1>2. /\ repository' = repository /\ writer' = writer /\ repository # s /\ writer # s
      /\ "committed" \in Places \ (InRepository \cup InTransaction) /\ pc'[s] = "committed"
    BY <1>1, OnItsWay DEF Places, InRepository, InTransaction, locks, Inv, PlacesOK
<1>3. (Publishing(s) /\ Building(s) /\ Activating(s))'
    BY <1>1, <1>2 DEF Publishing, Building, Activating, InTransaction, rows
<1>4. QED
    BY <1>1, <1>2, <1>3, WalkStep

-----------------------------------------------------------------------------
(* Steps that end a call.                                                    *)

\* A call that is told "stale" works on another request than the active one, or
\* under another operation than the one that activated it.
LEMMA EndSteps ==
    ASSUME Inv, NEW s \in Services,
           StaleClaim(s) \/ Refuse(s) \/ StaleActivation(s) \/ Acknowledge(s) \/ Crash(s)
    PROVE  Inv'
<1> DEFINE r == job[s].request
<1>1. CASE StaleClaim(s)
    <2>1. /\ intents[r] = None /\ active # Zero /\ Answer(s, "stale") /\ Leave(s)
          /\ UNCHANGED <<rows, disk>> /\ pc[s] = "claim"
        BY <1>1 DEF StaleClaim, Stale
    <2>2. r \in Requests /\ active # r
        BY <2>1, OnItsWay DEF Inv, Shared, ActiveIsRecorded
    <2>3. QED
        BY <2>1, <2>2, AnswerStep
<1>2. CASE StaleActivation(s)
    <2>1. /\ r \notin activations /\ active # Zero /\ Answer(s, "stale") /\ Leave(s)
          /\ UNCHANGED <<rows, disk>> /\ pc[s] = "activate"
        BY <1>2 DEF StaleActivation
    <2>2. r \in Requests /\ active # r
        BY <2>1, OnItsWay DEF Inv, Shared, ActiveIsRecorded
    <2>3. QED
        BY <2>1, <2>2, AnswerStep
<1>3. CASE Acknowledge(s)
    <2>1. /\ pc[s] = "committed" /\ Answer(s, "activated") /\ Leave(s) /\ UNCHANGED <<rows, disk>>
        BY <1>3 DEF Acknowledge
    <2>2. /\ r \in Requests /\ active = r /\ intents[r] = Command(job[s])
        BY <2>1, OnItsWay DEF AtItsPlace, Activating, Claimed
    <2>3. active # Zero /\ intents[r].op = job[s].op
        BY <2>2, NoneIsNew DEF Command
    <2>4. QED
        BY <2>1, <2>2, <2>3, AnswerStep
<1>4. CASE Refuse(s) \/ Crash(s)
    BY <1>4, SilentStep DEF Refuse, Crash
<1>5. QED
    BY <1>1, <1>2, <1>3, <1>4

-----------------------------------------------------------------------------
(* Steps that add a row.                                                     *)

\* A claim repeats the one that is there or takes a decision that nobody has.
LEMMA ClaimStep ==
    ASSUME Inv, NEW s \in Services, Claim(s)
    PROVE  Inv'
<1> DEFINE r == job[s].request
           command == Command(job[s])
<1>1. /\ pc[s] = "claim" /\ pc' = [pc EXCEPT ![s] = "refresh"]
      /\ \/ intents[r] = command /\ intents' = intents
         \/ /\ intents[r] = None /\ active = Zero
            /\ intents' = [intents EXCEPT ![r] = command]
      /\ UNCHANGED <<active, events, readiness, activations, disk, locks, job, answers>>
    BY DEF Claim, Goto, Claims, Claimable
<1>2. /\ r \in Requests /\ command \in Commands /\ command # None /\ AtItsPlace(s)
      /\ job' = [job EXCEPT ![s] = job[s]] /\ Publications[r] \in Nat
    BY <1>1, OnItsWay
<1>3. /\ intents \in [Requests -> Commands \cup {None}]
      /\ files' = files /\ index' = index /\ ready' = ready
    BY <1>1 DEF Inv, Shared, RowsOK, disk
<1>4. intents'[r] = command /\ \A q \in Requests : intents[q] # None => intents'[q] = intents[q]
    BY <1>1, <1>2, <1>3
<1>5. RowsGrow /\ \A g \in Services \ {s} : Respects(g)
    BY <1>1, <1>3, <1>4 DEF Inv, Shared, RowsOK, RowsGrow, Respects
<1>6. Shared'
    <2>1. RowsOK' /\ DiskOK'
        BY <1>1, <1>2, <1>3 DEF Inv, Shared, RowsOK, DiskOK
    <2>2. FilesRecorded' /\ IndexRecorded'
        BY <1>1, <1>3 DEF Inv, Shared, FilesRecorded, IndexRecorded
    <2>3. BuiltAsAsked'
        BY <1>3, <1>4 DEF Inv, Shared, BuiltAsAsked
    <2>4. ActiveIsRecorded'
        BY <1>1, <1>4 DEF Inv, Shared, ActiveIsRecorded, RowsOK
    <2>5. Told'
        BY <1>1 DEF Inv, Shared, Told
    <2>6. QED
        BY <2>1, <2>2, <2>3, <2>4, <2>5 DEF Shared
<1>7. pc'[s] = "refresh" /\ job' = job
    BY <1>1 DEF Inv, PlacesOK
<1>8. AtItsPlace(s)'
    <2>1. job[s].ordinal = 0
        BY <1>1, <1>2 DEF AtItsPlace, Publishing
    <2>2. Claimed(s)'
        BY <1>2, <1>4, <1>7, <2>1 DEF Claimed, Command
    <2>3. QED
        BY <1>1, <1>2, <1>7, <2>2 DEF AtItsPlace, Publishing, Building, Activating, InTransaction,
            Command
<1>9. /\ repository' = repository /\ writer' = writer
      /\ "refresh" \in Places \ (InRepository \cup InTransaction)
      /\ repository # s /\ writer # s
    BY <1>1, OnItsWay DEF Places, InRepository, InTransaction, locks
<1>10. QED
    BY <1>1, <1>2, <1>5, <1>6, <1>8, <1>9, WorkStep

\* The next ordinal is the number of the ordinals recorded.
LEMMA RecordableIsNext ==
    ASSUME NEW r \in Requests, NEW k \in Nat, events[r] = 0 .. k - 1, NEW n \in Nat,
           Recordable(r, n)
    PROVE  n \in events[r] \/ (n = k /\ events[r] \cup {n} = 0 .. (k + 1) - 1)
<1>1. Cardinality(events[r]) = k
    BY FS_Interval
<1>2. QED
    BY <1>1 DEF Recordable

LEMMA RecordPublicationStep ==
    ASSUME Inv, NEW s \in Services, RecordPublication(s)
    PROVE  Inv'
<1> DEFINE r == job[s].request
           n == job[s].ordinal
           new == [job[s] EXCEPT !.ordinal = n + 1]
<1>1. /\ pc[s] = "record" /\ pc' = [pc EXCEPT ![s] = "refresh"]
      /\ files[r][n] = "exact" /\ Recordable(r, n)
      /\ events' = [events EXCEPT ![r] = @ \cup {n}]
      /\ job' = [job EXCEPT ![s] = new]
      /\ UNCHANGED <<active, intents, readiness, activations, disk, locks, answers>>
    BY DEF RecordPublication, Goto, Published
<1>2. /\ r \in Requests /\ job[s] \in Jobs /\ Command(job[s]) \in Commands /\ AtItsPlace(s)
      /\ Publications[r] \in Nat /\ Ordinals(r) = 0 .. Publications[r] - 1
    BY <1>1, OnItsWay, OrdinalsOfRequests
<1>3. /\ n \in Ordinals(r) /\ n \in Nat /\ n + 1 \in 0 .. Publications[r]
      /\ intents[r] = Command(job[s]) /\ 0 .. n - 1 \subseteq events[r]
    BY <1>1, <1>2 DEF AtItsPlace, Publishing, Claimed
<1>4. /\ \A q \in Requests : events'[q] = IF q = r THEN events[q] \cup {n} ELSE events[q]
      /\ files' = files /\ index' = index /\ ready' = ready
    BY <1>1, <1>2 DEF Inv, Shared, RowsOK, disk
<1>5. \A q \in Requests : events[q] \subseteq events'[q] /\ events'[q] \subseteq Ordinals(q)
    BY <1>3, <1>4 DEF Inv, Shared, RowsOK
<1>6. RowsGrow /\ \A g \in Services \ {s} : Respects(g)
    BY <1>1, <1>4, <1>5 DEF Inv, Shared, RowsOK, RowsGrow, Respects
<1>7. Shared'
    <2>1. RowsOK' /\ DiskOK'
        BY <1>1, <1>4, <1>5 DEF Inv, Shared, RowsOK, DiskOK
    <2>2. FilesRecorded'
        <3>1. ASSUME NEW q \in Requests
              PROVE  \E k \in 0 .. Publications[q] : events'[q] = 0 .. k - 1
            <4>1. PICK k \in 0 .. Publications[q] : events[q] = 0 .. k - 1
                BY DEF Inv, Shared, FilesRecorded
            <4>2. k \in Nat
                BY <4>1, OrdinalsOfRequests
            <4>3. CASE q # r \/ n \in events[r]
                BY <1>4, <4>1, <4>3
            <4>4. CASE q = r /\ n \notin events[r]
                <5>1. n = k /\ events[r] \cup {n} = 0 .. (k + 1) - 1
                    BY <1>1, <1>3, <4>1, <4>2, <4>4, RecordableIsNext
                <5>2. k + 1 \in 0 .. Publications[q]
                    BY <1>3, <4>4, <5>1
                <5>3. QED
                    BY <1>4, <4>4, <5>1, <5>2
            <4>5. QED
                BY <4>3, <4>4
        <3>2. \A q \in Requests : \A m \in events'[q] : files'[q][m] \notin {"absent", "linked"}
            BY <1>1, <1>4 DEF Inv, Shared, FilesRecorded
        <3>3. QED
            BY <3>1, <3>2 DEF FilesRecorded
    <2>3. IndexRecorded'
        BY <1>1, <1>3, <1>4 DEF Inv, Shared, IndexRecorded
    <2>4. BuiltAsAsked'
        BY <1>1, <1>4 DEF Inv, Shared, BuiltAsAsked
    <2>5. ActiveIsRecorded'
        BY <1>1, <1>3, <1>4 DEF Inv, Shared, ActiveIsRecorded, RowsOK
    <2>6. Told'
        BY <1>1 DEF Inv, Shared, Told
    <2>7. QED
        BY <2>1, <2>2, <2>3, <2>4, <2>5, <2>6 DEF Shared
<1>8. /\ new \in Jobs /\ Command(new) = Command(job[s]) /\ new.request = r
      /\ new.ordinal = n + 1
    BY <1>2 DEF Jobs, Command
<1> HIDE DEF new
<1>9. pc'[s] = "refresh" /\ job'[s] = new
    BY <1>1 DEF Inv, PlacesOK
<1>10. AtItsPlace(s)'
    <2>1. 0 .. (n + 1) - 1 \subseteq events'[r]
        <3>1. \A m \in 0 .. (n + 1) - 1 : m \in 0 .. n - 1 \/ m = n
            BY <1>3
        <3>2. QED
            BY <1>2, <1>3, <1>4, <3>1
    <2>2. Claimed(s)'
        BY <1>1, <1>3, <1>8, <1>9, <2>1 DEF Claimed, Command
    <2>3. QED
        BY <1>2, <1>8, <1>9, <2>2 DEF AtItsPlace, Publishing, Building, Activating, InTransaction,
            Command
<1>11. /\ repository' = repository /\ writer' = writer
       /\ "refresh" \in Places \ (InRepository \cup InTransaction)
       /\ repository # s /\ writer # s
    BY <1>1, OnItsWay DEF Places, InRepository, InTransaction, locks
<1>12. QED
    BY <1>1, <1>6, <1>7, <1>10, <1>11, WorkStep

\* The index is recorded as it is on the disk, for a request whose files all are.
LEMMA RecordIndexStep ==
    ASSUME Inv, NEW s \in Services, RecordIndex(s)
    PROVE  Inv'
<1> DEFINE r == job[s].request
           image == job[s].image
<1>1. /\ pc[s] = "recordIndex" /\ pc' = [pc EXCEPT ![s] = "guard"]
      /\ ready[r] = [image |-> image, links |-> 1] /\ index[r] = image
      /\ readiness[r] \in {None, image} /\ readiness' = [readiness EXCEPT ![r] = image]
      /\ UNCHANGED <<active, intents, events, activations, disk, locks, job, answers>>
    BY DEF RecordIndex, Goto, Effects, Indexed
<1>2. /\ r \in Requests /\ job[s] \in Jobs /\ Command(job[s]) \in Commands /\ AtItsPlace(s)
      /\ job' = [job EXCEPT ![s] = job[s]] /\ events[r] = Ordinals(r)
    BY <1>1, OnItsWay DEF AtItsPlace, Publishing
<1>3. image \in Images /\ image # None
    BY <1>1, <1>2 DEF Jobs, AtItsPlace, Building
<1>4. /\ \A q \in Requests : readiness'[q] = IF q = r THEN image ELSE readiness[q]
      /\ files' = files /\ index' = index /\ ready' = ready
    BY <1>1, <1>2 DEF Inv, Shared, RowsOK, disk
<1>5. RowsGrow /\ \A g \in Services \ {s} : Respects(g)
    BY <1>1, <1>4 DEF Inv, Shared, RowsOK, RowsGrow, Respects
<1>6. Shared'
    <2>1. RowsOK' /\ DiskOK'
        BY <1>1, <1>2, <1>3, <1>4 DEF Inv, Shared, RowsOK, DiskOK
    <2>2. FilesRecorded' /\ BuiltAsAsked'
        BY <1>1, <1>4 DEF Inv, Shared, FilesRecorded, BuiltAsAsked
    <2>3. IndexRecorded'
        BY <1>1, <1>2, <1>4 DEF Inv, Shared, IndexRecorded
    <2>4. ActiveIsRecorded'
        BY <1>1, <1>3, <1>4 DEF Inv, Shared, ActiveIsRecorded, RowsOK
    <2>5. Told'
        BY <1>1 DEF Inv, Shared, Told
    <2>6. QED
        BY <2>1, <2>2, <2>3, <2>4, <2>5 DEF Shared
<1>7. pc'[s] = "guard" /\ job' = job
    BY <1>1 DEF Inv, PlacesOK
<1>8. AtItsPlace(s)'
    BY <1>1, <1>2, <1>7 DEF AtItsPlace, Claimed, Publishing, Building, Activating, InTransaction,
        Command
<1>9. /\ repository' = repository /\ writer' = writer
      /\ "guard" \in Places \ (InRepository \cup InTransaction)
      /\ repository # s /\ writer # s
    BY <1>1, OnItsWay DEF Places, InRepository, InTransaction, locks
<1>10. QED
    BY <1>1, <1>2, <1>5, <1>6, <1>8, <1>9, WorkStep

\* The authority moves, from generation zero and to complete rows.
LEMMA CommitAuthorityStep ==
    ASSUME Inv, NEW s \in Services, CommitAuthority(s)
    PROVE  Inv'
<1> DEFINE r == job[s].request
<1>1. /\ pc[s] = "checked" /\ pc' = [pc EXCEPT ![s] = "committed"]
      /\ active' = r /\ activations' = activations \cup {r} /\ writer' = None
      /\ UNCHANGED <<intents, events, readiness, disk, repository, job, answers>>
    BY DEF CommitAuthority, Goto
<1>2. /\ r \in Requests /\ AtItsPlace(s) /\ job' = [job EXCEPT ![s] = job[s]]
      /\ writer = s /\ repository # s /\ intents[r] # None
    BY <1>1, OnItsWay DEF AtItsPlace, Claimed, InTransaction, InRepository
<1>3. active = Zero /\ events[r] = Ordinals(r) /\ readiness[r] # None
    BY <1>1, <1>2 DEF AtItsPlace, Activating, InTransaction
<1>4. files' = files /\ index' = index /\ ready' = ready
    BY <1>1 DEF disk
<1>5. RowsGrow
    BY <1>1, <1>3 DEF Inv, Shared, RowsOK, RowsGrow
<1>6. \A g \in Services \ {s} : Respects(g)
    BY <1>2, <1>4, OnItsWay DEF Respects
<1>7. Shared'
    <2>1. RowsOK' /\ DiskOK'
        BY <1>1, <1>2, <1>4 DEF Inv, Shared, RowsOK, DiskOK
    <2>2. FilesRecorded' /\ BuiltAsAsked' /\ IndexRecorded'
        BY <1>1, <1>4 DEF Inv, Shared, FilesRecorded, BuiltAsAsked, IndexRecorded
    <2>3. ActiveIsRecorded'
        BY <1>1, <1>2, <1>3 DEF ActiveIsRecorded
    <2>4. Told'
        BY <1>1, <1>3 DEF Inv, Shared, Told
    <2>5. QED
        BY <2>1, <2>2, <2>3, <2>4 DEF Shared
<1>8. pc'[s] = "committed" /\ job' = job
    BY <1>1 DEF Inv, PlacesOK
<1>9. AtItsPlace(s)'
    BY <1>1, <1>2, <1>8, OnItsWay DEF AtItsPlace, Claimed, Publishing, Building, Activating,
        InTransaction, Command
<1>10. "committed" \in Places \ (InRepository \cup InTransaction) /\ None \notin Services
    BY NoneIsNew DEF Places, InRepository, InTransaction
<1>11. QED
    BY <1>1, <1>2, <1>5, <1>6, <1>7, <1>9, <1>10, WorkStep

-----------------------------------------------------------------------------
(* Steps that change a file.                                                 *)

\* A published file is never taken away, and never "changed" under a transaction.
LEMMA FileStep ==
    ASSUME Inv, NEW r \in Requests, NEW n \in Ordinals(r), NEW x \in FileStates,
           files' = [files EXCEPT ![r][n] = x], UNCHANGED <<rows, index, ready, answers>>,
           \/ x \in {files[r][n], "exact", "changing"}
           \/ x = "linked" /\ files[r][n] = "absent"
           \/ x = "changed" /\ files[r][n] = "exact" /\ writer = None
    PROVE  Shared' /\ RowsGrow /\ \A g \in Services : Respects(g)
<1>1. /\ active' = active /\ intents' = intents /\ events' = events /\ readiness' = readiness
      /\ activations' = activations /\ index' = index /\ ready' = ready /\ answers' = answers
    BY DEF rows
<1>2. /\ files = [q \in Requests |-> files[q]]
      /\ \A q \in Requests : files[q] \in [Ordinals(q) -> FileStates]
    BY DEF Inv, Shared, DiskOK
<1>3. /\ files' = [q \in Requests |-> files'[q]]
      /\ \A q \in Requests : files'[q] \in [Ordinals(q) -> FileStates]
      /\ \A q \in Requests : q # r => files'[q] = files[q]
      /\ \A m \in Ordinals(r) : files'[r][m] = IF m = n THEN x ELSE files[r][m]
    BY <1>2
<1>4. RowsGrow
    BY <1>1 DEF Inv, Shared, RowsOK, RowsGrow
<1>5. Shared'
    <2>1. RowsOK' /\ DiskOK'
        BY <1>1, <1>3 DEF Inv, Shared, RowsOK, DiskOK
    <2>2. FilesRecorded'
        <3>1. ASSUME NEW q \in Requests, NEW m \in events[q]
              PROVE  files'[q][m] \notin {"absent", "linked"}
            <4>1. files[q][m] \notin {"absent", "linked"} /\ m \in Ordinals(q)
                BY DEF Inv, Shared, FilesRecorded, RowsOK
            <4>2. CASE q = r /\ m = n
                BY <1>3, <4>1, <4>2
            <4>3. CASE q # r \/ m # n
                BY <1>3, <4>1, <4>3
            <4>4. QED
                BY <4>2, <4>3
        <3>2. QED
            BY <1>1, <3>1 DEF Inv, Shared, FilesRecorded
    <2>3. IndexRecorded' /\ BuiltAsAsked' /\ ActiveIsRecorded' /\ Told'
        BY <1>1 DEF Inv, Shared, IndexRecorded, BuiltAsAsked, ActiveIsRecorded, Told
    <2>4. QED
        BY <2>1, <2>2, <2>3 DEF Shared
<1>6. ASSUME NEW g \in Services PROVE Respects(g)
    <2>1. ASSUME pc[g] \in InTransaction, NEW m \in Ordinals(job[g].request)
          PROVE  files'[job[g].request][m] \in {files[job[g].request][m], "exact", "changing"}
        <3>1. /\ writer = g /\ writer # None /\ job[g].request \in Requests
              /\ files[job[g].request][m] \in {"exact", "changing"}
            BY <2>1, OnItsWay, NoneIsNew DEF AtItsPlace, Activating, InTransaction
        <3>2. QED
            BY <1>3, <3>1
    <2>2. QED
        BY <1>1, <2>1 DEF Respects
<1>7. QED
    BY <1>4, <1>5, <1>6

\* The residue of a crash, a link without its temporary name removed, is made whole.
LEMMA LockForFileStep ==
    ASSUME Inv, NEW s \in Services, LockForFile(s)
    PROVE  Inv'
<1> DEFINE r == job[s].request
           n == job[s].ordinal
           x == IF files[r][n] = "linked" THEN "exact" ELSE files[r][n]
<1>1. /\ pc[s] = "publish" /\ pc' = [pc EXCEPT ![s] = "create"]
      /\ n \in Ordinals(r) /\ repository = None /\ repository' = s
      /\ files' = [files EXCEPT ![r][n] = x]
      /\ UNCHANGED <<rows, index, ready, writer, job, answers>>
    BY DEF LockForFile, Goto
<1>2. /\ r \in Requests /\ AtItsPlace(s) /\ job' = [job EXCEPT ![s] = job[s]]
      /\ writer # s
    BY <1>1, OnItsWay DEF InTransaction
<1>3. x \in FileStates /\ x \in {files[r][n], "exact"}
    BY <1>1, <1>2 DEF Inv, Shared, DiskOK, FileStates
<1> HIDE DEF x
<1>4. Shared' /\ RowsGrow /\ \A g \in Services : Respects(g)
    BY <1>1, <1>2, <1>3, FileStep
<1>5. /\ pc'[s] = "create" /\ job' = job /\ intents' = intents /\ events' = events
    BY <1>1 DEF Inv, PlacesOK, rows
<1>6. AtItsPlace(s)'
    BY <1>1, <1>2, <1>5, OnItsWay DEF AtItsPlace, Claimed, Publishing, Building, Activating,
        InTransaction, Command
<1>7. "create" \in Places \cap InRepository /\ "create" \notin InTransaction /\ None \notin Services
    BY NoneIsNew DEF Places, InRepository, InTransaction
<1>8. QED
    BY <1>1, <1>2, <1>4, <1>6, <1>7, WorkStep

LEMMA LinkFileStep ==
    ASSUME Inv, NEW s \in Services, LinkFile(s)
    PROVE  Inv'
<1> DEFINE r == job[s].request
           n == job[s].ordinal
<1>1. /\ pc[s] = "create"
      /\ \/ /\ files[r][n] = "absent" /\ files' = [files EXCEPT ![r][n] = "linked"]
            /\ pc' = [pc EXCEPT ![s] = "linked"] /\ repository' = repository
         \/ /\ pc' = [pc EXCEPT ![s] = "record"] /\ repository' = None /\ files' = files
      /\ UNCHANGED <<rows, index, ready, writer, job, answers>>
    BY DEF LinkFile
<1>2. /\ r \in Requests /\ AtItsPlace(s) /\ job' = [job EXCEPT ![s] = job[s]]
      /\ writer # s /\ repository = s /\ n \in Ordinals(r)
    BY <1>1, OnItsWay DEF InTransaction, InRepository, AtItsPlace, Publishing
<1>3. Shared' /\ RowsGrow /\ \A g \in Services : Respects(g)
    <2>1. CASE files[r][n] = "absent" /\ files' = [files EXCEPT ![r][n] = "linked"]
        BY <1>1, <1>2, <2>1, FileStep DEF FileStates
    <2>2. CASE files' = files
        BY <1>1, <2>2, QuietStep DEF Inv, Shared, disk
    <2>3. QED
        BY <1>1, <2>1, <2>2
<1>4. PICK to \in {"linked", "record"} :
        pc' = [pc EXCEPT ![s] = to] /\ repository' = IF to = "linked" THEN s ELSE None
    BY <1>1, <1>2
<1>5. /\ pc'[s] = to /\ job' = job /\ intents' = intents /\ events' = events
    BY <1>1, <1>4 DEF Inv, PlacesOK, rows
<1>6. AtItsPlace(s)'
    BY <1>1, <1>2, <1>5, OnItsWay DEF AtItsPlace, Claimed, Publishing, Building, Activating,
        InTransaction, Command
<1>7. /\ to \in Places /\ to \notin InTransaction /\ (to \in InRepository <=> to = "linked")
      /\ None \notin Services
    BY NoneIsNew DEF Places, InRepository, InTransaction
<1>8. QED
    BY <1>1, <1>2, <1>3, <1>4, <1>6, <1>7, WorkStep

LEMMA UnlinkTemporaryStep ==
    ASSUME Inv, NEW s \in Services, UnlinkTemporary(s)
    PROVE  Inv'
<1> DEFINE r == job[s].request
           n == job[s].ordinal
<1>1. /\ pc[s] = "linked" /\ pc' = [pc EXCEPT ![s] = "record"] /\ repository' = None
      /\ files' = [files EXCEPT ![r][n] = "exact"]
      /\ UNCHANGED <<rows, index, ready, writer, job, answers>>
    BY DEF UnlinkTemporary, Goto
<1>2. /\ r \in Requests /\ AtItsPlace(s) /\ job' = [job EXCEPT ![s] = job[s]]
      /\ writer # s /\ repository = s /\ n \in Ordinals(r)
    BY <1>1, OnItsWay DEF InTransaction, InRepository, AtItsPlace, Publishing
<1>3. Shared' /\ RowsGrow /\ \A g \in Services : Respects(g)
    BY <1>1, <1>2, FileStep DEF FileStates
<1>4. /\ pc'[s] = "record" /\ job' = job /\ intents' = intents /\ events' = events
    BY <1>1 DEF Inv, PlacesOK, rows
<1>5. AtItsPlace(s)'
    BY <1>1, <1>2, <1>4, OnItsWay DEF AtItsPlace, Claimed, Publishing, Building, Activating,
        InTransaction, Command
<1>6. "record" \in Places \ (InRepository \cup InTransaction) /\ None \notin Services
    BY NoneIsNew DEF Places, InRepository, InTransaction
<1>7. QED
    BY <1>1, <1>2, <1>3, <1>5, <1>6, WorkStep

-----------------------------------------------------------------------------
(* Steps that change the index or its READY receipt.                         *)

\* What is recorded stays, and what is built is what the claim asks for.
LEMMA IndexStep ==
    ASSUME Inv, NEW r \in Requests,
           NEW x \in Images \cup {None, Torn, Changed, Changing}, index' = [index EXCEPT ![r] = x],
           NEW y \in Receipts \cup {None}, ready' = [ready EXCEPT ![r] = y],
           UNCHANGED <<rows, files, answers>>,
           readiness[r] # None => y = ready[r] /\ x \in {index[r], Changed, Changing},
           x \in Images => intents[r] # None /\ x.config = intents[r].config,
           y # None => intents[r] # None /\ y.image.config = intents[r].config
    PROVE  /\ Shared' /\ RowsGrow
           /\ \A g \in Services :
                /\ pc[g] \in InRepository => y = ready[r]
                /\ pc[g] \in InTransaction => x = index[r] \/ x # Changed
                => Respects(g)
<1>1. /\ active' = active /\ intents' = intents /\ events' = events /\ readiness' = readiness
      /\ activations' = activations /\ files' = files /\ answers' = answers
    BY DEF rows
<1>2. /\ index \in [Requests -> Images \cup {None, Torn, Changed, Changing}]
      /\ ready \in [Requests -> Receipts \cup {None}]
    BY DEF Inv, Shared, DiskOK
<1>3. /\ \A q \in Requests : index'[q] = IF q = r THEN x ELSE index[q]
      /\ \A q \in Requests : ready'[q] = IF q = r THEN y ELSE ready[q]
    BY <1>2
<1>4. RowsGrow
    BY <1>1 DEF Inv, Shared, RowsOK, RowsGrow
<1>5. RowsOK' /\ DiskOK'
    BY <1>1, <1>2 DEF Inv, Shared, RowsOK, DiskOK
<1>6. FilesRecorded' /\ ActiveIsRecorded' /\ Told'
    BY <1>1 DEF Inv, Shared, FilesRecorded, ActiveIsRecorded, Told
<1>7. IndexRecorded'
    BY <1>1, <1>3 DEF Inv, Shared, IndexRecorded
<1>8. BuiltAsAsked'
    BY <1>1, <1>3 DEF Inv, Shared, BuiltAsAsked
<1>9. ASSUME NEW g \in Services,
             pc[g] \in InRepository => y = ready[r],
             pc[g] \in InTransaction => x = index[r] \/ x # Changed
      PROVE  Respects(g)
    <2>1. pc[g] \in InRepository \cup InTransaction => job[g].request \in Requests
        BY OnItsWay DEF InRepository, InTransaction
    <2>2. QED
        BY <1>1, <1>3, <1>9, <2>1 DEF Respects
<1>10. QED
    BY <1>4, <1>5, <1>6, <1>7, <1>8, <1>9 DEF Shared

\* A receipt that is recorded has one link, and stays.
LEMMA LockForIndexStep ==
    ASSUME Inv, NEW s \in Services, LockForIndex(s)
    PROVE  Inv'
<1> DEFINE r == job[s].request
           y == Sealed(ready[r])
<1>1. /\ pc[s] = "publish" /\ pc' = [pc EXCEPT ![s] = "build"] /\ Complete(s)
      /\ repository = None /\ repository' = s
      /\ ready' = [ready EXCEPT ![r] = y]
      /\ UNCHANGED <<rows, files, index, writer, job, answers>>
    BY DEF LockForIndex, Goto
<1>2. /\ r \in Requests /\ AtItsPlace(s) /\ job' = [job EXCEPT ![s] = job[s]]
      /\ writer # s /\ Ordinals(r) = 0 .. Publications[r] - 1
    BY <1>1, OnItsWay, OrdinalsOfRequests DEF InTransaction
<1>3. /\ index' = [index EXCEPT ![r] = index[r]]
      /\ index[r] \in Images \cup {None, Torn, Changed, Changing}
      /\ ready[r] \in Receipts \cup {None}
    BY <1>1, <1>2 DEF Inv, Shared, DiskOK
<1>4. /\ y \in {ready[r], None}
      /\ ready[r] # None /\ ready[r].links = 1 => y = ready[r]
    BY DEF Sealed
<1> HIDE DEF y
<1>5. readiness[r] # None => y = ready[r] /\ index[r] \in {index[r], Changed, Changing}
    <2>1. SUFFICES ASSUME readiness[r] # None PROVE y = ready[r]
        OBVIOUS
    <2>2. ready[r] = [image |-> readiness[r], links |-> 1] /\ readiness[r] \in Images
        BY <1>2, <2>1 DEF Inv, Shared, IndexRecorded, RowsOK
    <2>3. ready[r].links = 1
        BY <2>2
    <2>4. CASE ready[r] = None
        BY <1>4, <2>4
    <2>5. QED
        BY <1>4, <2>3, <2>4
<1>6. Shared' /\ RowsGrow /\ \A g \in Services \ {s} : Respects(g)
    <2>1. /\ index[r] \in Images => intents[r] # None /\ index[r].config = intents[r].config
          /\ y # None => intents[r] # None /\ y.image.config = intents[r].config
        BY <1>2, <1>4 DEF Inv, Shared, BuiltAsAsked
    <2>2. y \in Receipts \cup {None}
        BY <1>3, <1>4
    <2>3. \A g \in Services : pc[g] \notin InRepository
        BY <1>1, OnItsWay, NoneIsNew
    <2>4. QED
        BY <1>1, <1>2, <1>3, <1>5, <2>1, <2>2, <2>3, IndexStep
<1>7. /\ pc'[s] = "build" /\ job' = job /\ intents' = intents /\ events' = events
    BY <1>1 DEF Inv, PlacesOK, rows
<1>8. AtItsPlace(s)'
    <2>1. Claimed(s)'
        BY <1>1, <1>2, <1>7 DEF AtItsPlace, Claimed, Command
    <2>2. events[r] = Ordinals(r)
        BY <1>1, <1>2 DEF Complete, AtItsPlace, Claimed, Inv, Shared, RowsOK
    <2>3. QED
        BY <1>1, <1>2, <1>7, <2>1, <2>2, OnItsWay DEF AtItsPlace, Publishing, Building, Activating,
            InTransaction, Command
<1>9. "build" \in Places \cap InRepository /\ "build" \notin InTransaction /\ None \notin Services
    BY NoneIsNew DEF Places, InRepository, InTransaction
<1>10. QED
    BY <1>1, <1>2, <1>6, <1>8, <1>9, WorkStep

\* The holder of the repository, with no receipt or an unsealed one: nothing of its
\* request is recorded, and nobody else works on its index.
LEMMA BuilderIsAlone ==
    ASSUME Inv, NEW s \in Services, pc[s] \in {"build", "write", "written", "ready"},
           ready[job[s].request] = None \/ ready[job[s].request].links = 2
    PROVE  /\ readiness[job[s].request] = None
           /\ intents[job[s].request] = Command(job[s])
           /\ \A g \in Services \ {s} : pc[g] \notin InRepository
           /\ \A g \in Services : pc[g] \in InTransaction => job[g].request # job[s].request
<1> DEFINE r == job[s].request
<1>1. r \in Requests /\ repository = s /\ AtItsPlace(s)
    BY OnItsWay DEF InRepository
<1>2. readiness[r] = None
    <2>1. SUFFICES ASSUME readiness[r] # None PROVE FALSE
        OBVIOUS
    <2>2. ready[r] = [image |-> readiness[r], links |-> 1] /\ ready[r] \in Receipts \cup {None}
        BY <1>1, <2>1 DEF Inv, Shared, IndexRecorded, DiskOK
    <2>3. ready[r].links = 1 /\ ready[r] # None
        <3>1. readiness[r] \in Images
            BY <1>1, <2>1 DEF Inv, Shared, RowsOK
        <3>2. [image |-> readiness[r], links |-> 1] \in Receipts
            BY <3>1 DEF Receipts
        <3>3. QED
            BY <2>2, <3>2, NoneIsNew
    <2>4. QED
        BY <2>3
<1>3. intents[r] = Command(job[s])
    BY <1>1 DEF AtItsPlace, Claimed
<1>4. \A g \in Services \ {s} : pc[g] \notin InRepository
    BY <1>1, OnItsWay
<1>5. \A g \in Services : pc[g] \in InTransaction => job[g].request # r
    BY <1>2, OnItsWay DEF AtItsPlace, Activating
<1>6. QED
    BY <1>2, <1>3, <1>4, <1>5

LEMMA ResetIndexStep ==
    ASSUME Inv, NEW s \in Services, ResetIndex(s)
    PROVE  Inv'
<1> DEFINE r == job[s].request
<1>1. /\ pc[s] = "build" /\ pc' = [pc EXCEPT ![s] = "write"]
      /\ ready[r] = None /\ index' = [index EXCEPT ![r] = Torn]
      /\ UNCHANGED <<rows, files, ready, locks, job, answers>>
    BY DEF ResetIndex, Goto
<1>2. /\ r \in Requests /\ AtItsPlace(s) /\ job' = [job EXCEPT ![s] = job[s]]
      /\ writer # s /\ repository = s /\ repository' = repository /\ writer' = writer
    BY <1>1, OnItsWay DEF InTransaction, InRepository, locks
<1>3. /\ ready' = [ready EXCEPT ![r] = ready[r]] /\ ready[r] \in Receipts \cup {None}
    BY <1>1, <1>2 DEF Inv, Shared, DiskOK
<1>4. Shared' /\ RowsGrow /\ \A g \in Services \ {s} : Respects(g)
    <2>1. /\ readiness[r] = None /\ \A g \in Services \ {s} : pc[g] \notin InRepository
        BY <1>1, BuilderIsAlone
    <2>2. Torn \notin Images /\ Torn # Changed
        BY IndexStates
    <2>3. /\ index' = [index EXCEPT ![r] = Torn] /\ UNCHANGED <<rows, files, answers>>
          /\ Torn \in Images \cup {None, Torn, Changed, Changing}
        BY <1>1
    <2>4. ready[r] # None => intents[r] # None /\ ready[r].image.config = intents[r].config
        BY <1>1
    <2>5. QED
        BY <1>2, <1>3, <2>1, <2>2, <2>3, <2>4, IndexStep
<1>5. /\ pc'[s] = "write" /\ job' = job /\ intents' = intents /\ events' = events
    BY <1>1 DEF Inv, PlacesOK, rows
<1>6. AtItsPlace(s)'
    BY <1>1, <1>2, <1>5, OnItsWay DEF AtItsPlace, Claimed, Publishing, Building, Activating,
        InTransaction, Command
<1>7. "write" \in Places \cap InRepository /\ "write" \notin InTransaction
    BY DEF Places, InRepository, InTransaction
<1>8. QED
    BY <1>1, <1>2, <1>4, <1>6, <1>7, WorkStep

LEMMA WriteIndexStep ==
    ASSUME Inv, NEW s \in Services, WriteIndex(s)
    PROVE  Inv'
<1> DEFINE r == job[s].request
<1>1. PICK v \in Variants : index' = [index EXCEPT ![r] = [config |-> job[s].config, variant |-> v]]
    BY DEF WriteIndex
<1> DEFINE x == [config |-> job[s].config, variant |-> v]
<1>2. /\ pc[s] = "write" /\ pc' = [pc EXCEPT ![s] = "written"]
      /\ index' = [index EXCEPT ![r] = x]
      /\ UNCHANGED <<rows, files, ready, locks, job, answers>>
    BY <1>1 DEF WriteIndex, Goto
<1>3. /\ r \in Requests /\ AtItsPlace(s) /\ job' = [job EXCEPT ![s] = job[s]] /\ job[s] \in Jobs
      /\ writer # s /\ repository = s /\ repository' = repository /\ writer' = writer
      /\ Command(job[s]) # None
    BY <1>2, OnItsWay DEF InTransaction, InRepository, locks
<1>4. ready' = [ready EXCEPT ![r] = ready[r]] /\ ready[r] = None
    BY <1>2, <1>3 DEF Inv, Shared, DiskOK, AtItsPlace, Building
<1>5. x \in Images /\ x.config = Command(job[s]).config
    BY <1>3 DEF Images, Jobs, Command
<1> HIDE DEF x
<1>6. Shared' /\ RowsGrow /\ \A g \in Services \ {s} : Respects(g)
    <2>1. /\ readiness[r] = None /\ \A g \in Services \ {s} : pc[g] \notin InRepository
          /\ intents[r] = Command(job[s])
        BY <1>2, <1>4, BuilderIsAlone
    <2>2. x # Changed
        BY <1>5, IndexStates
    <2>3. /\ index' = [index EXCEPT ![r] = x] /\ UNCHANGED <<rows, files, answers>>
          /\ x \in Images \cup {None, Torn, Changed, Changing}
          /\ intents[r] # None /\ x.config = intents[r].config
        BY <1>2, <1>3, <1>5, <2>1
    <2>4. ready[r] \in Receipts \cup {None}
        BY <1>4
    <2>5. QED
        BY <1>3, <1>4, <2>1, <2>2, <2>3, <2>4, IndexStep
<1>7. /\ pc'[s] = "written" /\ job' = job /\ intents' = intents /\ events' = events
    BY <1>2 DEF Inv, PlacesOK, rows
<1>8. AtItsPlace(s)'
    BY <1>2, <1>3, <1>4, <1>7, OnItsWay DEF AtItsPlace, Claimed, Publishing, Building, Activating,
        InTransaction, Command
<1>9. "written" \in Places \cap InRepository /\ "written" \notin InTransaction
    BY DEF Places, InRepository, InTransaction
<1>10. QED
    BY <1>2, <1>3, <1>6, <1>8, <1>9, WorkStep

LEMMA LinkReadyStep ==
    ASSUME Inv, NEW s \in Services, LinkReady(s)
    PROVE  Inv'
<1> DEFINE r == job[s].request
           y == [image |-> index[r], links |-> 2]
<1>1. /\ pc[s] = "written" /\ pc' = [pc EXCEPT ![s] = "ready"] /\ index[r] \in Images
      /\ ready' = [ready EXCEPT ![r] = y]
      /\ UNCHANGED <<rows, files, index, locks, job, answers>>
    BY DEF LinkReady, Goto
<1>2. /\ r \in Requests /\ AtItsPlace(s) /\ job' = [job EXCEPT ![s] = job[s]]
      /\ writer # s /\ repository = s /\ repository' = repository /\ writer' = writer
    BY <1>1, OnItsWay DEF InTransaction, InRepository, locks
<1>3. index' = [index EXCEPT ![r] = index[r]] /\ ready[r] = None
    BY <1>1, <1>2 DEF Inv, Shared, DiskOK, AtItsPlace, Building
<1>4. y \in Receipts /\ y # None /\ y.image = index[r] /\ y.links = 2
    BY <1>1, NoneIsNew DEF Receipts
<1> HIDE DEF y
<1>5. Shared' /\ RowsGrow /\ \A g \in Services \ {s} : Respects(g)
    <2>1. /\ readiness[r] = None /\ \A g \in Services \ {s} : pc[g] \notin InRepository
        BY <1>1, <1>3, BuilderIsAlone
    <2>2. intents[r] # None /\ index[r].config = intents[r].config
        BY <1>1, <1>2 DEF Inv, Shared, BuiltAsAsked
    <2>3. QED
        BY <1>1, <1>2, <1>3, <1>4, <2>1, <2>2, IndexStep
<1>6. /\ pc'[s] = "ready" /\ job' = job /\ intents' = intents /\ events' = events
      /\ ready'[r] = y
    BY <1>1, <1>2 DEF Inv, PlacesOK, Shared, DiskOK, rows
<1>7. AtItsPlace(s)'
    BY <1>1, <1>2, <1>4, <1>6, OnItsWay DEF AtItsPlace, Claimed, Publishing, Building, Activating,
        InTransaction, Command
<1>8. "ready" \in Places \cap InRepository /\ "ready" \notin InTransaction
    BY DEF Places, InRepository, InTransaction
<1>9. QED
    BY <1>1, <1>2, <1>5, <1>7, <1>8, WorkStep

LEMMA UnlinkReadyStep ==
    ASSUME Inv, NEW s \in Services, UnlinkReady(s)
    PROVE  Inv'
<1> DEFINE r == job[s].request
           y == [ready[r] EXCEPT !.links = 1]
           new == [job[s] EXCEPT !.image = ready[r].image]
<1>1. /\ pc[s] = "ready" /\ pc' = [pc EXCEPT ![s] = "verify"]
      /\ ready' = [ready EXCEPT ![r] = y]
      /\ job' = [job EXCEPT ![s] = new]
      /\ UNCHANGED <<rows, files, index, locks, answers>>
    BY DEF UnlinkReady, Goto
<1>2. /\ r \in Requests /\ AtItsPlace(s) /\ job[s] \in Jobs /\ Command(job[s]) \in Commands
      /\ writer # s /\ repository = s /\ repository' = repository /\ writer' = writer
    BY <1>1, OnItsWay DEF InTransaction, InRepository, locks
<1>3. /\ index' = [index EXCEPT ![r] = index[r]]
      /\ index[r] \in Images \cup {None, Torn, Changed, Changing}
      /\ ready[r] # None /\ ready[r].links = 2 /\ ready[r] \in Receipts
    BY <1>1, <1>2 DEF Inv, Shared, DiskOK, AtItsPlace, Building
<1>4. ready[r].image \in Images /\ y \in Receipts /\ y # None /\ y.image = ready[r].image
    BY <1>3, NoneIsNew DEF Receipts
<1>5. /\ new \in Jobs /\ Command(new) = Command(job[s]) /\ new.request = r
      /\ new.ordinal = job[s].ordinal /\ new.image # None
    BY <1>2, <1>4, NoneIsNew DEF Jobs, Command
<1> HIDE DEF y, new
<1>6. Shared' /\ RowsGrow /\ \A g \in Services \ {s} : Respects(g)
    <2>1. /\ readiness[r] = None /\ \A g \in Services \ {s} : pc[g] \notin InRepository
        BY <1>1, <1>3, BuilderIsAlone
    <2>2. /\ intents[r] # None /\ y.image.config = intents[r].config
          /\ index[r] \in Images => index[r].config = intents[r].config
        BY <1>2, <1>3, <1>4 DEF Inv, Shared, BuiltAsAsked
    <2>3. QED
        BY <1>1, <1>2, <1>3, <1>4, <2>1, <2>2, IndexStep
<1>7. /\ pc'[s] = "verify" /\ job'[s] = new /\ intents' = intents /\ events' = events
    BY <1>1, <1>2 DEF Inv, PlacesOK, rows
<1>8. AtItsPlace(s)'
    <2>1. Claimed(s)'
        BY <1>1, <1>2, <1>5, <1>7 DEF AtItsPlace, Claimed, Command
    <2>2. Publishing(s)'
        BY <1>1, <1>2, <1>5, <1>7 DEF AtItsPlace, Publishing
    <2>3. QED
        BY <1>2, <1>5, <1>7, <2>1, <2>2 DEF AtItsPlace, Building, Activating, InTransaction, Command
<1>9. "verify" \in Places \cap InRepository /\ "verify" \notin InTransaction
    BY DEF Places, InRepository, InTransaction
<1>10. QED
    BY <1>1, <1>2, <1>6, <1>8, <1>9, WorkStep

-----------------------------------------------------------------------------
(* Failures and changes from outside.                                        *)

\* An error path makes the link it was about whole, or takes back its READY.
LEMMA UnwindStep ==
    ASSUME Inv, NEW s \in Services, pc[s] # "idle", Unwind(s)
    PROVE  Inv'
<1> DEFINE r == job[s].request
           n == job[s].ordinal
           y == Sealed(ready[r])
<1>1. Leave(s) /\ UNCHANGED <<rows, index, answers>> /\ r \in Requests /\ AtItsPlace(s)
    BY OnItsWay DEF Unwind
<1>2. CASE pc[s] \notin {"linked", "ready"}
    BY <1>1, <1>2, SilentStep DEF Unwind, disk
<1>3. CASE pc[s] = "linked"
    <2>1. files' = [files EXCEPT ![r][n] = "exact"] /\ ready' = ready
        BY <1>3 DEF Unwind
    <2>2. n \in Ordinals(r)
        BY <1>1, <1>3 DEF AtItsPlace, Publishing
    <2>3. Shared' /\ RowsGrow /\ \A g \in Services : Respects(g)
        BY <1>1, <2>1, <2>2, FileStep DEF FileStates
    <2>4. QED
        BY <1>1, <2>3, LeaveStep, StepInv DEF OthersUntouched
<1>4. CASE pc[s] = "ready"
    <2>1. files' = files /\ ready' = [ready EXCEPT ![r] = y]
        BY <1>4 DEF Unwind
    <2>2. /\ index' = [index EXCEPT ![r] = index[r]]
          /\ index[r] \in Images \cup {None, Torn, Changed, Changing}
        BY <1>1 DEF Inv, Shared, DiskOK
    <2>3. ready[r] # None /\ ready[r].links = 2
        BY <1>1, <1>4 DEF AtItsPlace, Building
    <2>4. y = None
        BY <2>3 DEF Sealed
    <2> HIDE DEF y
    <2>5. Shared' /\ RowsGrow /\ \A g \in Services \ {s} : Respects(g)
        <3>1. /\ readiness[r] = None /\ \A g \in Services \ {s} : pc[g] \notin InRepository
            BY <1>4, <2>3, BuilderIsAlone
        <3>2. index[r] \in Images => intents[r] # None /\ index[r].config = intents[r].config
            BY <1>1 DEF Inv, Shared, BuiltAsAsked
        <3>3. QED
            BY <1>1, <2>1, <2>2, <2>4, <3>1, <3>2, IndexStep
    <2>6. QED
        BY <1>1, <2>5, LeaveStep, StepInv DEF OthersUntouched
<1>5. QED
    BY <1>2, <1>3, <1>4

LEMMA TamperStep ==
    ASSUME Inv, NEW r \in Requests, Tamper(r)
    PROVE  Inv'
<1>1. UNCHANGED <<rows, ready, locks, pc, job, answers>>
    BY DEF Tamper
<1>2. Shared' /\ RowsGrow /\ \A g \in Services : Respects(g)
    <2>1. CASE /\ \E n \in Ordinals(r) :
                    /\ files[r][n] = "exact"
                    /\ files' = [files EXCEPT ![r][n] = IF writer = None THEN "changed" ELSE "changing"]
               /\ UNCHANGED index
        <3>1. PICK n \in Ordinals(r), x \in {"changed", "changing"} :
                /\ files[r][n] = "exact" /\ files' = [files EXCEPT ![r][n] = x]
                /\ x = "changed" => writer = None
            BY <2>1
        <3>2. QED
            BY <1>1, <2>1, <3>1, FileStep DEF FileStates
    <2>2. CASE /\ index[r] \in Images
               /\ index' = [index EXCEPT ![r] = IF writer = None THEN Changed ELSE Changing]
               /\ UNCHANGED files
        <3>1. PICK x \in {Changed, Changing} :
                index' = [index EXCEPT ![r] = x] /\ (writer = None \/ x # Changed)
            BY <2>2, IndexStates
        <3>2. /\ ready' = [ready EXCEPT ![r] = ready[r]] /\ ready[r] \in Receipts \cup {None}
              /\ ready[r] # None => intents[r] # None /\ ready[r].image.config = intents[r].config
              /\ x \notin Images
            BY <1>1, <3>1, IndexStates DEF Inv, Shared, DiskOK, BuiltAsAsked
        <3>3. \A g \in Services : pc[g] \in InTransaction => x # Changed
            BY <3>1, OnItsWay, NoneIsNew
        <3>4. QED
            BY <1>1, <2>2, <3>1, <3>2, <3>3, IndexStep
    <2>3. QED
        BY <2>1, <2>2 DEF Tamper
<1>3. PlacesOK'
    BY <1>1 DEF Inv, PlacesOK, locks
<1>4. \A g \in Services : AtItsPlace(g)'
    BY <1>1, <1>2, OthersStay
<1>5. QED
    BY <1>2, <1>3, <1>4 DEF Inv

LEMMA StepKeepsInv ==
    ASSUME Inv, [Next]_vars
    PROVE  Inv'
<1>1. CASE UNCHANGED vars
    <2>1. UNCHANGED <<rows, disk, locks, pc, job, answers>>
        BY <1>1 DEF vars
    <2>2. Shared' /\ RowsGrow /\ \A g \in Services : Respects(g)
        BY <2>1, QuietStep DEF Inv, Shared
    <2>3. PlacesOK'
        BY <2>1 DEF Inv, PlacesOK, locks
    <2>4. \A g \in Services : AtItsPlace(g)'
        BY <2>1, <2>2, OthersStay
    <2>5. QED
        BY <2>2, <2>3, <2>4 DEF Inv
<1>2. ASSUME NEW s \in Services, (\E c \in Calls : Begin(s, c)) \/ Step(s) \/ Fail(s) \/ Crash(s)
      PROVE  Inv'
    <2>1. CASE \E c \in Calls : Begin(s, c)
        BY <2>1, BeginStep
    <2>2. CASE Preflight(s) \/ VerifyIndex(s) \/ Guard(s)
        BY <2>2, PlainMoves
    <2>3. CASE Claim(s)
        BY <2>3, ClaimStep
    <2>4. CASE StaleClaim(s) \/ Refuse(s) \/ StaleActivation(s) \/ Acknowledge(s) \/ Crash(s)
        BY <2>4, EndSteps
    <2>5. CASE Refresh(s) \/ Reopen(s)
        BY <2>5, RefreshStep, ReopenStep
    <2>6. CASE LockForFile(s) \/ LinkFile(s) \/ UnlinkTemporary(s)
        BY <2>6, LockForFileStep, LinkFileStep, UnlinkTemporaryStep
    <2>7. CASE RecordPublication(s)
        BY <2>7, RecordPublicationStep
    <2>8. CASE LockForIndex(s) \/ AdoptIndex(s) \/ ResetIndex(s) \/ WriteIndex(s)
        BY <2>8, LockForIndexStep, AdoptIndexStep, ResetIndexStep, WriteIndexStep
    <2>9. CASE LinkReady(s) \/ UnlinkReady(s) \/ VerifyBuilt(s) \/ RecordIndex(s)
        BY <2>9, LinkReadyStep, UnlinkReadyStep, VerifyBuiltStep, RecordIndexStep
    <2>10. CASE UpdateAuthority(s) \/ RecheckEffects(s)
        BY <2>10, UpdateAuthorityStep, RecheckEffectsStep
    <2>11. CASE CommitAuthority(s) \/ ReplayActivation(s)
        BY <2>11, CommitAuthorityStep, ReplayActivationStep
    <2>12. CASE Raise(s) \/ Fail(s)
        BY <2>12, UnwindStep DEF Raise, Fail
    <2>13. QED
        BY <1>2, <2>1, <2>2, <2>3, <2>4, <2>5, <2>6, <2>7, <2>8, <2>9, <2>10, <2>11, <2>12 DEF Step
<1>3. QED
    BY <1>1, <1>2, TamperStep DEF Next

\* Few steps write the rows that the properties of a step are about.
LEMMA Writers ==
    ASSUME [Next]_vars
    PROVE  \/ UNCHANGED <<active, intents, readiness>>
           \/ \E s \in Services : Claim(s) \/ RecordIndex(s) \/ CommitAuthority(s)
<1>1. CASE UNCHANGED vars
    BY <1>1 DEF vars, rows
<1>2. ASSUME NEW s \in Services, (\E c \in Calls : Begin(s, c)) \/ Step(s) \/ Fail(s) \/ Crash(s)
      PROVE  \/ UNCHANGED <<active, intents, readiness>>
             \/ Claim(s) \/ RecordIndex(s) \/ CommitAuthority(s)
    <2>1. CASE (\E c \in Calls : Begin(s, c)) \/ Crash(s) \/ Fail(s) \/ Raise(s)
        BY <2>1 DEF Begin, Crash, Fail, Raise, Unwind, rows
    <2>2. CASE \/ Preflight(s) \/ StaleClaim(s) \/ Refuse(s) \/ Refresh(s) \/ Reopen(s)
               \/ LockForFile(s) \/ LinkFile(s) \/ UnlinkTemporary(s)
        BY <2>2 DEF Preflight, StaleClaim, Refuse, Refresh, Reopen, LockForFile, LinkFile,
            UnlinkTemporary, rows
    <2>3. CASE \/ RecordPublication(s) \/ VerifyIndex(s) \/ LockForIndex(s) \/ AdoptIndex(s)
               \/ ResetIndex(s) \/ WriteIndex(s) \/ LinkReady(s) \/ UnlinkReady(s)
        BY <2>3 DEF RecordPublication, VerifyIndex, LockForIndex, AdoptIndex, ResetIndex, WriteIndex,
            LinkReady, UnlinkReady, rows
    <2>4. CASE \/ VerifyBuilt(s) \/ Guard(s) \/ UpdateAuthority(s) \/ RecheckEffects(s)
               \/ ReplayActivation(s) \/ StaleActivation(s) \/ Acknowledge(s)
        BY <2>4 DEF VerifyBuilt, Guard, UpdateAuthority, RecheckEffects, ReplayActivation,
            StaleActivation, Acknowledge, rows
    <2>5. QED
        BY <1>2, <2>1, <2>2, <2>3, <2>4 DEF Step
<1>3. CASE \E r \in Requests : Tamper(r)
    BY <1>3 DEF Tamper, rows
<1>4. QED
    BY <1>1, <1>2, <1>3 DEF Next

-----------------------------------------------------------------------------
(* The theorems.                                                             *)

\* The invariant holds in every reachable state: each service can rely on what its
\* place in the call says, whatever the others do, and however calls end.
THEOREM ActivationInvariant == Spec => []Inv
<1>1. Inv /\ [Next]_vars => Inv'
    BY StepKeepsInv
<1>2. QED
    BY <1>1, InitInv, PTL DEF Spec

\* The rows, the files and the two locks have their types: a lock is held exactly
\* by the service whose place says so, after any crash.
THEOREM ActivationTypes == Spec => []TypeOK
<1>1. Inv => TypeOK
    BY DEF Inv, Shared, RowsOK, DiskOK, PlacesOK, TypeOK, FileStates
<1>2. QED
    BY <1>1, ActivationInvariant, PTL

\* The generation that answers questions is complete, and of one command.
THEOREM ActiveGenerationIsComplete == Spec => []ActiveIsComplete
<1>1. Inv => ActiveIsComplete
    <2> SUFFICES ASSUME Inv, active # Zero PROVE ActiveIsComplete
        BY DEF ActiveIsComplete
    <2>1. /\ active \in Requests /\ active \in activations /\ intents[active] # None
          /\ events[active] = Ordinals(active) /\ readiness[active] # None
        BY DEF Inv, Shared, RowsOK, ActiveIsRecorded
    <2>2. \A n \in Ordinals(active) : files[active][n] \notin {"absent", "linked"}
        BY <2>1 DEF Inv, Shared, FilesRecorded
    <2>3. /\ ready[active] = [image |-> readiness[active], links |-> 1]
          /\ index[active] \in {readiness[active], Changed, Changing}
        BY <2>1 DEF Inv, Shared, IndexRecorded
    <2>4. ready[active] # None
        <3>1. readiness[active] \in Images
            BY <2>1 DEF Inv, Shared, RowsOK
        <3>2. [image |-> readiness[active], links |-> 1] \in Receipts
            BY <3>1 DEF Receipts
        <3>3. QED
            BY <2>3, <3>2, NoneIsNew
    <2>5. readiness[active].config = intents[active].config
        BY <2>1, <2>3, <2>4 DEF Inv, Shared, BuiltAsAsked
    <2>6. QED
        BY <2>1, <2>2, <2>3, <2>5 DEF ActiveIsComplete
<1>2. QED
    BY <1>1, ActivationInvariant, PTL

\* What a receipt was recorded for is never reset, unsealed or taken away.
THEOREM EvidenceIsKept == Spec => []ReceiptsKeepTheirEvidence
<1>1. Inv => ReceiptsKeepTheirEvidence
    <2> SUFFICES ASSUME Inv, NEW r \in Requests
                 PROVE  /\ readiness[r] # None =>
                            /\ ready[r] = [image |-> readiness[r], links |-> 1]
                            /\ index[r] \in {readiness[r], Changed, Changing}
                            /\ events[r] = Ordinals(r)
                        /\ events[r] = 0 .. Cardinality(events[r]) - 1
                        /\ \A n \in events[r] : files[r][n] \notin {"absent", "linked"}
        BY DEF ReceiptsKeepTheirEvidence
    <2>1. PICK k \in 0 .. Publications[r] : events[r] = 0 .. k - 1
        BY DEF Inv, Shared, FilesRecorded
    <2>2. k \in Nat
        BY <2>1, OrdinalsOfRequests
    <2>3. Cardinality(events[r]) = k
        BY <2>1, <2>2, FS_Interval
    <2>4. QED
        BY <2>1, <2>3 DEF Inv, Shared, FilesRecorded, IndexRecorded
<1>2. QED
    BY <1>1, ActivationInvariant, PTL

\* What callers were told about an activation stays true.
THEOREM AnswersAreFinal == Spec => []AnswersStayTrue
<1>1. Inv => AnswersStayTrue
    BY DEF Inv, Shared, Told, AnswersStayTrue
<1>2. QED
    BY <1>1, ActivationInvariant, PTL

\* No file that changed before the authority transaction opened is activated.
THEOREM TamperedNeverActivated == Spec => TamperedIsNeverActivated
<1>1. ASSUME Inv, [Next]_vars
      PROVE  [active' # active =>
                /\ \A n \in Ordinals(active') : files[active'][n] # "changed"
                /\ index[active'] # Changed]_vars
    <2> SUFFICES ASSUME active' # active
                 PROVE  /\ \A n \in Ordinals(active') : files[active'][n] # "changed"
                        /\ index[active'] # Changed
        OBVIOUS
    <2>1. PICK s \in Services : CommitAuthority(s)
        BY <1>1, Writers DEF Claim, RecordIndex
    <2>2. pc[s] = "checked" /\ active' = job[s].request
        BY <2>1 DEF CommitAuthority, Goto
    <2>3. QED
        BY <1>1, <2>2, OnItsWay DEF AtItsPlace, Activating, InTransaction
<1>2. QED
    BY <1>1, ActivationInvariant, PTL DEF Spec, TamperedIsNeverActivated

\* What is served, in terms of the rows alone.
ServedAsRecorded ==
    Serving = IF active = Zero THEN Zero
              ELSE [request |-> active, files |-> CompleteFiles(active), index |-> readiness[active]]

LEMMA ServedInvariant == Spec => []ServedAsRecorded
<1>1. Inv => ServedAsRecorded
    <2> SUFFICES ASSUME Inv, active # Zero
                 PROVE  /\ Written(active) = CompleteFiles(active)
                        /\ WrittenIndex(active) = readiness[active]
        BY DEF ServedAsRecorded, Serving
    <2>1. /\ active \in Requests /\ events[active] = Ordinals(active) /\ readiness[active] # None
        BY DEF Inv, Shared, RowsOK, ActiveIsRecorded
    <2>2. \A n \in Ordinals(active) : files[active][n] \in {"exact", "changed", "changing"}
        BY <2>1 DEF Inv, Shared, DiskOK, FilesRecorded, FileStates
    <2>3. Written(active) = CompleteFiles(active)
        BY <2>2 DEF Written, CompleteFiles
    <2>4. /\ ready[active] = [image |-> readiness[active], links |-> 1]
          /\ index[active] \in {readiness[active], Changed, Changing}
          /\ readiness[active] \in Images
        BY <2>1 DEF Inv, Shared, RowsOK, IndexRecorded
    <2>5. ready[active] # None /\ ready[active].image = readiness[active]
        <3>1. [image |-> readiness[active], links |-> 1] \in Receipts
            BY <2>4 DEF Receipts
        <3>2. QED
            BY <2>4, <3>1, NoneIsNew
    <2>6. WrittenIndex(active) = readiness[active]
        BY <2>4, <2>5, IndexStates DEF WrittenIndex
    <2>7. QED
        BY <2>3, <2>6
<1>2. QED
    BY <1>1, ActivationInvariant, PTL

\* However many calls of however many services publish, build, crash and repeat each
\* other, what is served changes once, to the complete generation of one claimed
\* decision, indexed as its command asked.
THEOREM ActivationImplementsAuthority == Spec => ImplementsAuthority
<1>1. Init => Authority!Init
    BY DEF Init, Authority!Init, Serving
<1>2. ASSUME Inv, ServedAsRecorded, ServedAsRecorded', [Next]_vars
      PROVE  [Authority!Next]_<<intents, Serving>>
    <2>1. CASE UNCHANGED <<active, intents, readiness>>
        BY <1>2, <2>1 DEF ServedAsRecorded, CompleteFiles, Ordinals
    <2>2. ASSUME NEW s \in Services, Claim(s)
          PROVE  [Authority!Next]_<<intents, Serving>>
        <3> DEFINE r == job[s].request
                   command == Command(job[s])
        <3>1. /\ pc[s] = "claim" /\ UNCHANGED <<active, readiness>>
              /\ \/ intents' = intents
                 \/ /\ Claimable(r, command) /\ intents' = [intents EXCEPT ![r] = command]
            BY <2>2 DEF Claim, Goto
        <3>2. r \in Requests /\ command \in Commands
            BY <1>2, <3>1, OnItsWay
        <3>3. Serving' = Serving
            BY <1>2, <3>1 DEF ServedAsRecorded, CompleteFiles, Ordinals
        <3>4. CASE intents' = intents
            BY <3>3, <3>4
        <3>5. CASE Claimable(r, command) /\ intents' = [intents EXCEPT ![r] = command]
            <4>1. intents[r] = None /\ Serving = Zero
                BY <3>5 DEF Claimable, Serving
            <4>2. \A q \in Requests : intents[q] # None => intents[q].op # command.op
                BY <3>5 DEF Claimable, Owner
            <4>3. Authority!Claim(r, command)
                BY <3>3, <3>5, <4>1, <4>2 DEF Authority!Claim
            <4>4. QED
                BY <3>2, <4>3 DEF Authority!Next
        <3>6. QED
            BY <3>1, <3>4, <3>5
    <2>3. ASSUME NEW s \in Services, RecordIndex(s)
          PROVE  UNCHANGED <<intents, Serving>>
        <3> DEFINE r == job[s].request
        <3>1. /\ pc[s] = "recordIndex" /\ UNCHANGED <<active, intents>>
              /\ readiness[r] \in {None, job[s].image}
              /\ readiness' = [readiness EXCEPT ![r] = job[s].image]
            BY <2>3 DEF RecordIndex, Goto
        <3>2. active # Zero => readiness'[active] = readiness[active]
            BY <1>2, <3>1 DEF Inv, Shared, RowsOK, ActiveIsRecorded
        <3>3. QED
            BY <1>2, <3>1, <3>2 DEF ServedAsRecorded, CompleteFiles, Ordinals
    <2>4. ASSUME NEW s \in Services, CommitAuthority(s)
          PROVE  Authority!Next
        <3> DEFINE r == job[s].request
        <3>1. /\ pc[s] = "checked" /\ active' = r /\ UNCHANGED <<intents, readiness>>
            BY <2>4 DEF CommitAuthority, Goto
        <3>2. /\ r \in Requests /\ active = Zero /\ readiness[r] # None /\ intents[r] # None
            BY <1>2, <3>1, OnItsWay DEF AtItsPlace, Claimed, Activating, InTransaction
        <3>3. /\ readiness[r] \in Images /\ readiness[r].config = intents[r].config
            <4>1. ready[r] = [image |-> readiness[r], links |-> 1] /\ readiness[r] \in Images
                BY <1>2, <3>2 DEF Inv, Shared, RowsOK, IndexRecorded
            <4>2. ready[r] # None /\ ready[r].image = readiness[r]
                <5>1. [image |-> readiness[r], links |-> 1] \in Receipts
                    BY <4>1 DEF Receipts
                <5>2. QED
                    BY <4>1, <5>1, NoneIsNew
            <4>3. QED
                BY <1>2, <3>2, <4>1, <4>2 DEF Inv, Shared, BuiltAsAsked
        <3>4. Serving = Zero
            BY <3>2 DEF Serving
        <3>5. Serving' = [request |-> r, files |-> CompleteFiles(r), index |-> readiness[r]]
            BY <1>2, <3>1, <3>2, NoneIsNew DEF ServedAsRecorded, CompleteFiles, Ordinals
        <3>6. Authority!Activate(r, readiness[r])
            BY <3>1, <3>2, <3>3, <3>4, <3>5 DEF Authority!Activate
        <3>7. QED
            BY <3>2, <3>3, <3>6 DEF Authority!Next
    <2>5. QED
        BY <1>2, <2>1, <2>2, <2>3, <2>4, Writers
<1>3. QED
    BY <1>1, <1>2, ActivationInvariant, ServedInvariant, PTL
    DEF Spec, ImplementsAuthority, Authority!Spec

-----------------------------------------------------------------------------
(* The start of a run: the order of its steps.                                *)

LEMMA StartSuccessor ==
    ASSUME NEW s, NEW n \in Nat, DOMAIN s = 1..n, NEW i \in 1..n,
           \A j \in 1..n : s[j] = s[i] => j = i
    PROVE  Start!Successor(s, s[i]) = IF i = n THEN "returned" ELSE s[i + 1]
<1>1. Cardinality(DOMAIN s) = n
  BY FS_Interval, SMT
<1>2. (CHOOSE j \in DOMAIN s : s[j] = s[i]) = i
  OBVIOUS
<1>3. Start!Successor(s, s[i]) =
          IF s[i] = s[Cardinality(DOMAIN s)] THEN "returned"
          ELSE s[1 + CHOOSE j \in DOMAIN s : s[j] = s[i]]
  BY DEF Start!Successor, Start!Cardinality, Cardinality
<1>4. Start!Successor(s, s[i]) =
          IF s[i] = s[n] THEN "returned" ELSE s[1 + CHOOSE j \in DOMAIN s : s[j] = s[i]]
  BY <1>1, <1>3, Zenon
<1>5. Start!Successor(s, s[i]) = IF s[i] = s[n] THEN "returned" ELSE s[1 + i]
  BY <1>2, <1>4, Zenon
<1> QED
  BY <1>5

LEMMA StartStraight ==
    /\ DOMAIN Start!Straight = 1..16
    /\ \A i, j \in 1..16 : Start!Straight[j] = Start!Straight[i] => j = i
<1>1. DOMAIN Start!Straight = 1..16 BY DEF Start!Straight
<1>2. \A i \in 1..16 : i \in {1,2,3,4,5,6,7,8,9,10,11,12,13,14,15,16} OBVIOUS
<1>3. \A i, j \in {1,2,3,4,5,6,7,8,9,10,11,12,13,14,15,16} : Start!Straight[j] = Start!Straight[i] => j = i
  BY SMTT(60) DEF Start!Straight
<1> QED BY <1>1, <1>2, <1>3

LEMMA StartPublication ==
    /\ DOMAIN Start!Publication = 1..9
    /\ \A i, j \in 1..9 : Start!Publication[j] = Start!Publication[i] => j = i
<1>1. DOMAIN Start!Publication = 1..9 BY DEF Start!Publication
<1>3. \A i, j \in 1..9 : Start!Publication[j] = Start!Publication[i] => j = i
  BY SMTT(60) DEF Start!Publication
<1> QED BY <1>1, <1>3

LEMMA StartNoChange ==
    /\ DOMAIN Start!NoChange = 1..2
    /\ \A i, j \in 1..2 : Start!NoChange[j] = Start!NoChange[i] => j = i
BY DEF Start!NoChange

StartElementary ==
    /\ Start!Elements(Start!Straight) =
         {"extract", "bundle", "INCOMING", "incomingRow", "suiteRow", "incomingLink",
          "suiteLink", "baseline", "complete", "BASELINE", "baselineRow", "baselineLink",
          "seed", "classify", "classificationBatch", "CLASSIFICATION"}
    /\ Start!Elements(Start!Publication) =
         {"assess", "dependencyBatch", "DEPENDENCY", "manifest", "TEMPORAL",
          "commit", "proposalLink", "review", "reviewLink"}
    /\ Start!Elements(Start!NoChange) = {"noChange", "noChangeLink"}

LEMMA StartElements == StartElementary
<1> USE DEF StartElementary, Start!Elements
<1>1. \A x : x \in Start!Elements(Start!Straight) <=> \E i \in 1..16 : x = Start!Straight[i]
  BY StartStraight
<1>2. \A i \in 1..16 : i \in {1,2,3,4,5,6,7,8,9,10,11,12,13,14,15,16} OBVIOUS
<1> QED BY <1>1, <1>2, StartPublication, StartNoChange DEF Start!Straight, Start!Publication, Start!NoChange

\* Where a call goes on after each step, unless the run is refused there.
StartAfterwards ==
    /\ \A i \in 1..15 : Start!Following(Start!Straight[i]) = Start!Straight[i + 1]
    /\ Start!Following("CLASSIFICATION") = IF verdict = "unchanged" THEN "noChange" ELSE "assess"
    /\ \A i \in 1..8 : Start!Following(Start!Publication[i]) = Start!Publication[i + 1]
    /\ Start!Following("reviewLink") = "returned"
    /\ Start!Following("noChange") = "noChangeLink"
    /\ Start!Following("noChangeLink") = "returned"

LEMMA StartAfter == StartAfterwards
<1> USE DEF StartAfterwards
<1>1. ASSUME NEW i \in 1..15 PROVE Start!Following(Start!Straight[i]) = Start!Straight[i + 1]
  <2>1. Start!Straight[i] # "CLASSIFICATION"
    BY StartStraight DEF Start!Straight
  <2>2. /\ Start!Straight[i] \notin Start!Elements(Start!Publication)
        /\ Start!Straight[i] \notin Start!Elements(Start!NoChange)
    <3>1. i \in {1,2,3,4,5,6,7,8,9,10,11,12,13,14,15} OBVIOUS
    <3> QED BY <3>1, StartElements DEF Start!Straight, StartElementary
  <2>3. Start!Following(Start!Straight[i]) = Start!Successor(Start!Straight, Start!Straight[i])
    BY <2>1, <2>2 DEF Start!Following
  <2>4. i \in 1..16 /\ i # 16
    OBVIOUS
  <2> HIDE DEF StartAfterwards
  <2> QED BY <2>3, <2>4, StartStraight, StartSuccessor
<1>2. Start!Following("CLASSIFICATION") = IF verdict = "unchanged" THEN "noChange" ELSE "assess"
  <2>1. /\ "CLASSIFICATION" \notin Start!Elements(Start!Publication)
        /\ "CLASSIFICATION" \notin Start!Elements(Start!NoChange)
    BY StartElements DEF StartElementary
  <2> QED BY <2>1 DEF Start!Following
<1>3. ASSUME NEW i \in 1..9
      PROVE  Start!Following(Start!Publication[i]) =
                IF i = 9 THEN "returned" ELSE Start!Publication[i + 1]
  <2>1. Start!Publication[i] # "CLASSIFICATION"
    BY StartPublication DEF Start!Publication
  <2>2. /\ Start!Publication[i] \in Start!Elements(Start!Publication)
        /\ Start!Publication[i] \notin Start!Elements(Start!NoChange)
    BY StartElements, StartPublication DEF Start!Publication, StartElementary
  <2>3. Start!Following(Start!Publication[i]) =
           Start!Successor(Start!Publication, Start!Publication[i])
    BY <2>1, <2>2 DEF Start!Following
  <2>4. Start!Successor(Start!Publication, Start!Publication[i]) =
           IF i = 9 THEN "returned" ELSE Start!Publication[i + 1]
    BY StartPublication, StartSuccessor
  <2> QED BY <2>3, <2>4
<1>4. ASSUME NEW i \in 1..2
      PROVE  Start!Following(Start!NoChange[i]) =
                IF i = 2 THEN "returned" ELSE Start!NoChange[i + 1]
  <2>1. Start!NoChange[i] # "CLASSIFICATION" /\ Start!NoChange[i] \notin Start!Elements(Start!Publication)
        /\ Start!NoChange[i] \in Start!Elements(Start!NoChange)
    BY StartElements, StartNoChange DEF Start!NoChange, StartElementary
  <2>2. Start!Following(Start!NoChange[i]) = Start!Successor(Start!NoChange, Start!NoChange[i])
    BY <2>1 DEF Start!Following
  <2>3. Start!Successor(Start!NoChange, Start!NoChange[i]) =
           IF i = 2 THEN "returned" ELSE Start!NoChange[i + 1]
    BY StartNoChange, StartSuccessor
  <2> QED BY <2>2, <2>3
<1>5. /\ Start!Publication[9] = "reviewLink"
      /\ Start!NoChange[1] = "noChange" /\ Start!NoChange[2] = "noChangeLink"
  BY DEF Start!Publication, Start!NoChange
<1>6. Start!Following("reviewLink") = "returned"
  BY <1>3, <1>5
<1>7. Start!Following("noChange") = "noChangeLink" /\ Start!Following("noChangeLink") = "returned"
  BY <1>4, <1>5
<1> QED BY <1>1, <1>2, <1>3, <1>6, <1>7

StartNextPlaces ==
    \A step \in Start!Steps :
        /\ Start!After(step) \in Start!Steps \cup {"returned", "raised"}
        /\ Start!After(step) = "classificationBatch" => step = "classify"
        /\ Start!After(step) = "CLASSIFICATION" => step = "classificationBatch"
        /\ Start!After(step) = "noChange" => step = "CLASSIFICATION" /\ verdict = "unchanged"
        /\ Start!After(step) = "assess" => step = "CLASSIFICATION" /\ verdict # "unchanged"
        /\ Start!After(step) = "dependencyBatch" => step = "assess"
        /\ Start!After(step) = "DEPENDENCY" => step = "dependencyBatch"
        /\ Start!After(step) = "manifest" => step = "DEPENDENCY"
        /\ Start!After(step) = "commit" => step = "TEMPORAL"

\* ... and when the run is refused, the call only ends.
LEMMA StartNext == StartNextPlaces
<1>1. Start!Steps = Start!Elements(Start!Straight) \cup Start!Elements(Start!Publication)
                        \cup Start!Elements(Start!NoChange)
  BY DEF Start!Steps
<1>2. ASSUME NEW i \in 1..15
      PROVE  Start!Following(Start!Straight[i]) = Start!Straight[i + 1]
  BY StartAfter DEF StartAfterwards
<1>3. ASSUME NEW i \in 1..8
      PROVE  Start!Following(Start!Publication[i]) = Start!Publication[i + 1]
  BY StartAfter DEF StartAfterwards
<1>4. /\ Start!Following("extract") = "bundle" /\ Start!Following("bundle") = "INCOMING"
      /\ Start!Following("INCOMING") = "incomingRow" /\ Start!Following("incomingRow") = "suiteRow"
      /\ Start!Following("suiteRow") = "incomingLink" /\ Start!Following("incomingLink") = "suiteLink"
      /\ Start!Following("suiteLink") = "baseline" /\ Start!Following("baseline") = "complete"
      /\ Start!Following("complete") = "BASELINE" /\ Start!Following("BASELINE") = "baselineRow"
      /\ Start!Following("baselineRow") = "baselineLink" /\ Start!Following("baselineLink") = "seed"
      /\ Start!Following("seed") = "classify" /\ Start!Following("classify") = "classificationBatch"
      /\ Start!Following("classificationBatch") = "CLASSIFICATION"
  BY <1>2 DEF Start!Straight
<1>5. /\ Start!Following("assess") = "dependencyBatch" /\ Start!Following("dependencyBatch") = "DEPENDENCY"
      /\ Start!Following("DEPENDENCY") = "manifest"
      /\ Start!Following("manifest") = "TEMPORAL" /\ Start!Following("TEMPORAL") = "commit"
      /\ Start!Following("commit") = "proposalLink" /\ Start!Following("proposalLink") = "review"
      /\ Start!Following("review") = "reviewLink"
  BY <1>3 DEF Start!Publication
<1>6. /\ Start!Following("CLASSIFICATION") = IF verdict = "unchanged" THEN "noChange" ELSE "assess"
      /\ Start!Following("reviewLink") = "returned" /\ Start!Following("noChange") = "noChangeLink"
      /\ Start!Following("noChangeLink") = "returned"
  BY StartAfter DEF StartAfterwards
<1> SUFFICES ASSUME NEW step \in Start!Steps
             PROVE  StartNextPlaces!(step)
  BY DEF StartNextPlaces
<1> DEFINE next == Start!Following(step)
<1>10. SUFFICES
        /\ next \in Start!Steps \cup {"returned"}
        /\ next = "classificationBatch" => step = "classify"
        /\ next = "CLASSIFICATION" => step = "classificationBatch"
        /\ next = "noChange" => step = "CLASSIFICATION" /\ verdict = "unchanged"
        /\ next = "assess" => step = "CLASSIFICATION" /\ verdict # "unchanged"
        /\ next = "dependencyBatch" => step = "assess"
        /\ next = "DEPENDENCY" => step = "dependencyBatch"
        /\ next = "manifest" => step = "DEPENDENCY"
        /\ next = "commit" => step = "TEMPORAL"
  BY DEF Start!After
<1>7. CASE step \in Start!Elements(Start!Straight)
  BY <1>1, <1>4, <1>6, <1>7, StartElements DEF StartElementary
<1>8. CASE step \in Start!Elements(Start!Publication)
  BY <1>1, <1>5, <1>6, <1>8, StartElements DEF StartElementary
<1>9. CASE step \in Start!Elements(Start!NoChange)
  BY <1>1, <1>6, <1>9, StartElements DEF StartElementary
<1> QED BY <1>1, <1>7, <1>8, <1>9

-----------------------------------------------------------------------------
(* The start of a run.  What its rows and files promise, and what a call can  *)
(* rely on at each place.                                                     *)

StartCallStates ==
    [at : Start!Places, midway : BOOLEAN, command : Start!Commands \cup {None}]

StartRowTypes ==
    /\ claims \in [Operations -> Start!Commands \cup {None}]
    /\ byOperation \in [Operations -> Start!Commands \cup {None}]
    /\ byRun \in Start!Commands \cup {None}
    /\ done \in [Start!Durable -> Operations \cup {None}]
    /\ half \subseteq Start!Files \cup Operations \cup {"byRun"}
    /\ journal \in [Operations -> [Start!Asking -> {"none", "claimed", "recorded"}]]
    /\ verdict \in Start!Verdicts \cup {None}

StartCallTypes ==
    /\ start \in [Services -> StartCallStates]
    /\ result = [p \in Services |-> result[p]]

Within(p) == start[p].at \notin Start!Outside

OneWithin == \A p, q \in Services : Within(p) /\ Within(q) => p = q

TemporalThere == done["TEMPORAL"] # None /\ "TEMPORAL" \notin half

\* One operation owns the run and all it has; a commit can be found by the temporal
\* index; the verdict is the classification's, and the branch is the verdict's.
StartRows ==
    /\ \A o \in Operations : byOperation[o] # None => byOperation[o].op = o
    /\ \A s \in Start!Durable : done[s] # None => byRun # None /\ done[s] = byRun.op
    /\ \A o \in Operations, s \in Start!Asking :
        journal[o][s] # "none" => byRun # None /\ byRun.op = o
    /\ done["commit"] # None => TemporalThere
    /\ verdict # None <=> \E o \in Operations : journal[o]["classify"] = "recorded"
    /\ done["CLASSIFICATION"] # None => verdict # None
    /\ done["noChange"] # None => verdict = "unchanged"
    /\ done["manifest"] # None => verdict \notin {None, "unchanged"}

\* Where a call has made sure that the run is its operation's.
AsOwner == Start!Steps \cup {"returned", "raised"}

PlaceOK(c) ==
    /\ c.at # "idle" => c.command \in Start!Commands
    /\ c.at = "owned" \/ (c.at = "runFile" /\ c.midway) => byRun # None
    /\ c.at \in AsOwner => byRun # None /\ byRun.op = c.command.op
    /\ c.midway /\ c.at \in Start!Asking => journal[c.command.op][c.at] = "claimed"
    /\ c.midway /\ c.at \in Start!Files => done[c.at] # None
    /\ c.at = "commit" => TemporalThere
    /\ c.at \in {"classificationBatch", "CLASSIFICATION"} => verdict # None
    /\ c.at = "noChange" => verdict = "unchanged"
    /\ c.at \in {"assess", "dependencyBatch", "DEPENDENCY", "manifest"} =>
          verdict \notin {None, "unchanged"}

StartInvariant ==
    /\ StartRowTypes /\ StartCallTypes /\ OneWithin /\ StartRows
    /\ \A p \in Services : PlaceOK(start[p])
    /\ Start!IndeterminateMeansLost

LEMMA StartStepSets ==
    /\ Start!Steps = Start!Asking \cup Start!Durable
    /\ Start!Asking \cap Start!Durable = {}
    /\ Start!Files \subseteq Start!Durable
    /\ {"TEMPORAL", "commit", "CLASSIFICATION", "noChange", "manifest"} \subseteq Start!Durable
    /\ Start!Steps \cap (Start!Outside \cup {"operationFile", "runFile", "owned", "returned", "raised"}) = {}
BY StartElements DEF StartElementary, Start!Steps, Start!Durable, Start!Asking, Start!Files,
    Start!Indexes, Start!Outside

\* A caller whose call does nothing, while another changes the rows, is outside the lock.
LEMMA StartFrame ==
    ASSUME StartInvariant, NEW p \in Services, NEW c \in StartCallStates,
           start' = [start EXCEPT ![p] = c],
           StartRowTypes', result' = [q \in Services |-> result'[q]],
           StartRows', PlaceOK(c)',
           Within(p) \/ UNCHANGED <<byRun, done, half, journal, verdict>>,
           c.at \in Start!Outside \/ Within(p) \/ Start!LockFree,
           Start!IndeterminateMeansLost'
    PROVE  StartInvariant'
<1> USE DEF StartInvariant
<1>1. StartCallTypes'
  BY DEF StartCallTypes
<1>2. /\ start'[p] = c
      /\ \A q \in Services \ {p} : start'[q] = start[q]
  BY DEF StartCallTypes
<1>3. OneWithin'
  BY <1>2 DEF OneWithin, Within, Start!LockFree
<1>4. ASSUME NEW q \in Services, q # p PROVE PlaceOK(start[q])'
  <2>1. start'[q] = start[q] /\ PlaceOK(start[q])
    BY <1>2, <1>4
  <2>2. CASE Within(p)
    <3>1. start[q].at \in {"idle", "begun", "claimed"}
      BY <2>2, <1>4 DEF OneWithin, Within, Start!Outside
    <3>2. start[q].at \notin AsOwner /\ start[q].at \notin Start!Asking /\ start[q].at \notin Start!Files
      BY <3>1, StartStepSets DEF AsOwner, Start!Outside
    <3> QED BY <2>1, <3>1, <3>2 DEF PlaceOK
  <2>3. CASE UNCHANGED <<byRun, done, half, journal, verdict>>
    BY <2>1, <2>3 DEF PlaceOK, TemporalThere
  <2> QED BY <2>2, <2>3
<1>5. \A q \in Services : PlaceOK(start[q])'
  BY <1>2, <1>4
<1> QED
  BY <1>1, <1>3, <1>5

\* A call that is lost stays lost.
LEMMA StartStaysLost ==
    ASSUME StartInvariant, NEW p \in Services, NEW c \in StartCallStates,
           start' = [start EXCEPT ![p] = c],
           result' = result, journal' = journal,
           ~(c.midway /\ c.at \in Start!Asking)
    PROVE  Start!IndeterminateMeansLost'
<1> USE DEF StartInvariant, Start!IndeterminateMeansLost, Start!LostCall
<1>1. ASSUME NEW o \in Operations, NEW s \in Start!Asking, Start!Claimed(o, s), ~Start!Pending(o, s)
      PROVE  Start!Claimed(o, s)' /\ ~Start!Pending(o, s)'
  BY <1>1 DEF Start!Claimed, Start!Pending, Start!Op, StartCallTypes
<1> QED
  BY <1>1

\* A call ends, and leaves the rows and files as they are.
LEMMA StartEnd ==
    ASSUME StartInvariant, NEW p \in Services, NEW what, Start!End(p, what),
           UNCHANGED Start!files,
           what = "indeterminate" =>
              \E o \in Operations, s \in Start!Asking : Start!Claimed(o, s) /\ ~Start!Pending(o, s)
    PROVE  StartInvariant'
<1> DEFINE c == Start!Idle
<1> USE DEF StartInvariant
<1>1. /\ start' = [start EXCEPT ![p] = c] /\ result' = [result EXCEPT ![p] = what]
      /\ UNCHANGED <<claims, byOperation, byRun, done, half, journal, verdict>>
  BY DEF Start!End, Start!files
<1>2. c \in StartCallStates /\ c.at = "idle" /\ ~c.midway
  BY DEF Start!Idle, StartCallStates, Start!Places, Start!Outside
<1>3. StartRowTypes' /\ StartRows'
  BY <1>1 DEF StartRowTypes, StartRows, TemporalThere
<1>4. PlaceOK(c)'
  BY <1>2, StartStepSets DEF PlaceOK, AsOwner, Start!Outside
<1>5. Start!IndeterminateMeansLost'
  <2>1. ASSUME NEW o \in Operations, NEW s \in Start!Asking, Start!Claimed(o, s), ~Start!Pending(o, s)
        PROVE  Start!Claimed(o, s)' /\ ~Start!Pending(o, s)'
    BY <1>1, <1>2, <2>1 DEF Start!Claimed, Start!Pending, Start!Op, StartCallTypes
  <2> QED BY <1>1, <2>1 DEF Start!IndeterminateMeansLost, Start!LostCall, StartCallTypes
<1>6. result' = [q \in Services |-> result'[q]]
  BY <1>1 DEF StartCallTypes
<1>7. c.at \in Start!Outside
  BY <1>2 DEF Start!Outside
<1> HIDE DEF c
<1> QED
  BY <1>1, <1>2, <1>3, <1>4, <1>5, <1>6, <1>7, StartFrame

\* A call goes on to a place that it can rely on, and leaves the rows and files.
LEMMA StartGoesOn ==
    ASSUME StartInvariant, NEW p \in Services, NEW c \in StartCallStates,
           start' = [start EXCEPT ![p] = c], result' = result,
           UNCHANGED <<byOperation, byRun, done, half, journal, verdict>>,
           claims' \in [Operations -> Start!Commands \cup {None}],
           ~(c.midway /\ c.at \in Start!Asking), PlaceOK(c),
           c.at \in Start!Outside \/ Within(p) \/ Start!LockFree
    PROVE  StartInvariant'
<1>1. StartRowTypes' /\ StartRows' /\ PlaceOK(c)'
  BY DEF StartInvariant, StartRowTypes, StartRows, PlaceOK, TemporalThere
<1>2. result' = [q \in Services |-> result'[q]]
  BY DEF StartInvariant, StartCallTypes
<1> QED
  BY <1>1, <1>2, StartStaysLost, StartFrame

\* What is known of the call that takes a step.
LEMMA StartCaller ==
    ASSUME StartInvariant, NEW p \in Services
    PROVE  /\ start[p] \in StartCallStates /\ PlaceOK(start[p])
           /\ start[p].at # "idle" =>
                 /\ start[p].command \in Start!Commands
                 /\ Start!Op(p) \in Operations /\ Start!Op(p) = start[p].command.op
BY DEF StartInvariant, StartCallTypes, PlaceOK, Start!Op, Start!Commands

LEMMA StartBegin ==
    ASSUME StartInvariant, NEW p \in Services, NEW c \in StartCalls, NEW time \in Times[p],
           Start!Begin(p, c, time)
    PROVE  StartInvariant'
<1> DEFINE command == [op |-> c.op, input |-> c.input, time |-> time]
           s == [Start!Idle EXCEPT !.at = "begun", !.command = command]
<1>1. command \in Start!Commands
  BY RunAssumption DEF Start!StartAssumption, Start!Commands
<1>2. /\ s \in StartCallStates /\ s.at = "begun" /\ ~s.midway /\ s.command = command
  BY <1>1 DEF Start!Idle, StartCallStates, Start!Places, Start!Outside
<1>3. PlaceOK(s) /\ s.at \in Start!Outside
  BY <1>1, <1>2, StartStepSets DEF PlaceOK, AsOwner, Start!Outside
<1>4. UNCHANGED Start!files
  BY DEF Start!Begin, Start!files
<1>5. CASE Start!End(p, "refused")
  BY <1>4, <1>5, StartEnd
<1>6. CASE start' = [start EXCEPT ![p] = s] /\ result' = result
  <2>1. claims' \in [Operations -> Start!Commands \cup {None}]
    BY <1>4 DEF StartInvariant, StartRowTypes, Start!files
  <2> HIDE DEF s
  <2> QED BY <2>1, <1>2, <1>3, <1>4, <1>6, StartGoesOn DEF Start!files
<1> QED
  BY <1>5, <1>6 DEF Start!Begin

LEMMA StartClaimOperation ==
    ASSUME StartInvariant, NEW p \in Services, Start!ClaimOperation(p)
    PROVE  StartInvariant'
<1> DEFINE command == start[p].command
           claimed == [command EXCEPT !.time = Start!ClaimTime(command)]
           s == [start[p] EXCEPT !.at = "claimed", !.command.time = Start!ClaimTime(command)]
<1>1. start[p].at = "begun" /\ start[p] \in StartCallStates /\ command \in Start!Commands
      /\ Start!Op(p) \in Operations
  BY StartCaller DEF Start!ClaimOperation
<1>2. CASE Start!End(p, "refused") /\ claims' = claims
  BY <1>2, StartEnd DEF Start!ClaimOperation, Start!files
<1>3. CASE /\ claims' = [claims EXCEPT ![Start!Op(p)] = IF @ = None THEN command ELSE @]
           /\ start' = [start EXCEPT ![p].at = "claimed",
                                     ![p].command.time = Start!ClaimTime(command)]
           /\ result' = result
  <2>1. claimed \in Start!Commands
    BY <1>1 DEF Start!ClaimTime, Start!Commands, StartInvariant, StartRowTypes, Start!Op
  <2>2. s = [at |-> "claimed", midway |-> start[p].midway, command |-> claimed]
    <3>1. PICK place \in Start!Places, midway \in BOOLEAN, own \in Start!Commands \cup {None} :
             start[p] = [at |-> place, midway |-> midway, command |-> own]
      BY <1>1 DEF StartCallStates
    <3>2. [start[p] EXCEPT !.at = "claimed"] =
             [at |-> "claimed", midway |-> midway, command |-> own]
      BY <3>1
    <3>3. [start[p] EXCEPT !.at = "claimed"].command = command
      BY <3>1, <3>2
    <3>4. s = [[start[p] EXCEPT !.at = "claimed"] EXCEPT !.command = claimed]
      BY <3>3
    <3> HIDE DEF claimed, s
    <3>5. [[at |-> "claimed", midway |-> midway, command |-> own] EXCEPT !.command = claimed] =
             [at |-> "claimed", midway |-> midway, command |-> claimed]
      OBVIOUS
    <3> QED BY <3>1, <3>2, <3>4, <3>5
  <2>3. s \in StartCallStates
    BY <2>1, <2>2, <1>1 DEF StartCallStates, Start!Places, Start!Outside
  <2>4. start' = [start EXCEPT ![p] = s]
    BY <1>3 DEF StartInvariant, StartCallTypes
  <2>5. claims' \in [Operations -> Start!Commands \cup {None}]
    BY <1>1, <1>3 DEF StartInvariant, StartRowTypes
  <2>6. PlaceOK(s) /\ ~(s.midway /\ s.at \in Start!Asking) /\ s.at \in Start!Outside
    BY <2>1, <2>2, StartStepSets DEF PlaceOK, AsOwner, Start!Outside
  <2> HIDE DEF s
  <2> QED BY <2>3, <2>4, <2>5, <2>6, <1>3, StartGoesOn DEF Start!ClaimOperation
<1> QED
  BY <1>2, <1>3 DEF Start!ClaimOperation

\* The call of p at a place.
At(p, place, midway) == [at |-> place, midway |-> midway, command |-> start[p].command]

LEMMA StartRecords ==
    ASSUME NEW r \in StartCallStates, NEW place, NEW midway
    PROVE  /\ [r EXCEPT !.at = place, !.midway = midway] =
                [at |-> place, midway |-> midway, command |-> r.command]
           /\ [r EXCEPT !.midway = midway] =
                [at |-> r.at, midway |-> midway, command |-> r.command]
<1>1. PICK a \in Start!Places, m \in BOOLEAN, own \in Start!Commands \cup {None} :
         r = [at |-> a, midway |-> m, command |-> own]
  BY DEF StartCallStates
<1> DEFINE q == [at |-> a, midway |-> m, command |-> own]
<1>2. [[q EXCEPT !.at = place] EXCEPT !.midway = midway] =
         [at |-> place, midway |-> midway, command |-> own]
  <2>1. [q EXCEPT !.at = place] = [at |-> place, midway |-> m, command |-> own]
    OBVIOUS
  <2>2. [[at |-> place, midway |-> m, command |-> own] EXCEPT !.midway = midway] =
           [at |-> place, midway |-> midway, command |-> own]
    OBVIOUS
  <2> QED BY <2>1, <2>2
<1>3. [q EXCEPT !.midway = midway] = [at |-> a, midway |-> midway, command |-> own]
  OBVIOUS
<1>4. q.at = a /\ q.command = own
  OBVIOUS
<1> HIDE DEF q
<1>5. r = q
  BY <1>1 DEF q
<1> QED
  BY <1>2, <1>3, <1>4, <1>5

LEMMA StartGoto ==
    ASSUME StartInvariant, NEW p \in Services, NEW place \in Start!Places, Start!Goto(p, place)
    PROVE  /\ At(p, place, FALSE) \in StartCallStates
           /\ start' = [start EXCEPT ![p] = At(p, place, FALSE)]
<1>1. start[p] \in StartCallStates
  BY StartCaller
<1>2. At(p, place, FALSE) \in StartCallStates
  BY <1>1 DEF At, StartCallStates
<1>3. start' = [start EXCEPT ![p] = [start[p] EXCEPT !.at = place, !.midway = FALSE]]
  BY DEF Start!Goto, StartInvariant, StartCallTypes
<1> QED
  BY <1>1, <1>2, <1>3, StartRecords DEF At

LEMMA StartMidway ==
    ASSUME StartInvariant, NEW p \in Services, start' = [start EXCEPT ![p].midway = TRUE]
    PROVE  /\ At(p, start[p].at, TRUE) \in StartCallStates
           /\ start' = [start EXCEPT ![p] = At(p, start[p].at, TRUE)]
<1>1. start[p] \in StartCallStates
  BY StartCaller
<1>2. At(p, start[p].at, TRUE) \in StartCallStates
  BY <1>1 DEF At, StartCallStates
<1>3. start' = [start EXCEPT ![p] = [start[p] EXCEPT !.midway = TRUE]]
  BY DEF StartInvariant, StartCallTypes
<1> QED
  BY <1>1, <1>2, <1>3, StartRecords DEF At

LEMMA StartLock ==
    ASSUME StartInvariant, NEW p \in Services, Start!Lock(p)
    PROVE  StartInvariant'
<1>1. UNCHANGED Start!files /\ start[p].at = "claimed" /\ Start!LockFree
  BY DEF Start!Lock
<1>2. CASE Start!End(p, "refused")
  BY <1>1, <1>2, StartEnd
<1>3. CASE Start!Goto(p, "operationFile") /\ result' = result
  <2> DEFINE c == At(p, "operationFile", FALSE)
  <2>1. c \in StartCallStates /\ start' = [start EXCEPT ![p] = c]
    BY <1>3, StartGoto DEF Start!Places
  <2>2. PlaceOK(c) /\ ~c.midway
    BY <1>1, StartCaller, StartStepSets DEF At, PlaceOK, AsOwner
  <2>3. claims' \in [Operations -> Start!Commands \cup {None}]
    BY <1>1 DEF Start!files, StartInvariant, StartRowTypes
  <2> HIDE DEF c
  <2> QED BY <2>1, <2>2, <2>3, <1>1, <1>3, StartGoesOn DEF Start!files
<1> QED
  BY <1>2, <1>3 DEF Start!Lock

LEMMA StartLinkOperationFile ==
    ASSUME StartInvariant, NEW p \in Services, Start!LinkOperationFile(p)
    PROVE  StartInvariant'
<1>1. /\ start[p].at = "operationFile" /\ Start!Op(p) \in Operations
      /\ start[p].command \in Start!Commands /\ Start!Op(p) = start[p].command.op
      /\ Within(p)
  BY StartCaller DEF Start!LinkOperationFile, Within, Start!Outside
<1>2. UNCHANGED <<claims, byRun, done, journal, verdict, result>>
  BY DEF Start!LinkOperationFile
<1>3. CASE Start!Goto(p, "runFile") /\ UNCHANGED <<byOperation, half>>
  <2> DEFINE c == At(p, "runFile", FALSE)
  <2>1. c \in StartCallStates /\ start' = [start EXCEPT ![p] = c]
    BY <1>3, StartGoto DEF Start!Places
  <2>2. PlaceOK(c) /\ ~c.midway
    BY <1>1, StartStepSets DEF At, PlaceOK, AsOwner
  <2>3. claims' \in [Operations -> Start!Commands \cup {None}]
    BY <1>2 DEF StartInvariant, StartRowTypes
  <2> HIDE DEF c
  <2> QED BY <2>1, <2>2, <2>3, <1>1, <1>2, <1>3, StartGoesOn
<1>4. CASE /\ byOperation' = [byOperation EXCEPT ![Start!Op(p)] = start[p].command]
           /\ half' = (half \ Operations) \cup {Start!Op(p)}
           /\ start' = [start EXCEPT ![p].midway = TRUE]
  <2>0. PICK c \in StartCallStates : c = At(p, "operationFile", TRUE)
    BY <1>1, <1>4, StartMidway
  <2>1. start' = [start EXCEPT ![p] = c]
    BY <2>0, <1>1, <1>4, StartMidway
  <2>2. StartRowTypes'
    BY <1>1, <1>2, <1>4 DEF StartInvariant, StartRowTypes
  <2>3. TemporalThere => TemporalThere'
    BY <1>1, <1>2, <1>4, RunAssumption DEF TemporalThere, Start!StartAssumption, Start!Files,
       Start!Indexes
  <2>4. StartRows'
    <3>1. \A o \in Operations : byOperation'[o] # None => byOperation'[o].op = o
      BY <1>1, <1>4 DEF StartInvariant, StartRows, StartRowTypes
    <3> QED BY <3>1, <2>3, <1>2 DEF StartInvariant, StartRows
  <2>5. PlaceOK(c)' /\ ~(c.midway /\ c.at \in Start!Asking)
    BY <2>0, <1>1, StartStepSets DEF At, PlaceOK, AsOwner
  <2>6. result' = [q \in Services |-> result'[q]]
    BY <1>2 DEF StartInvariant, StartCallTypes
  <2>7. Start!IndeterminateMeansLost'
    BY <2>1, <2>5, <1>2, StartStaysLost
  <2> QED BY <2>1, <2>2, <2>4, <2>5, <2>6, <2>7, <1>1, StartFrame
<1> QED
  BY <1>3, <1>4 DEF Start!LinkOperationFile

LEMMA StartUnlinkOperationFile ==
    ASSUME StartInvariant, NEW p \in Services, Start!UnlinkOperationFile(p)
    PROVE  StartInvariant'
<1>1. /\ start[p].at = "operationFile" /\ Start!Op(p) \in Operations
      /\ start[p].command \in Start!Commands /\ Within(p)
  BY StartCaller DEF Start!UnlinkOperationFile, Within, Start!Outside
<1>2. /\ half' = half \ {Start!Op(p)}
      /\ UNCHANGED <<claims, byOperation, byRun, done, journal, verdict, result>>
  BY DEF Start!UnlinkOperationFile
<1>3. PICK c \in StartCallStates : c = At(p, "runFile", FALSE)
  BY StartGoto DEF Start!UnlinkOperationFile, Start!Places
<1>4. start' = [start EXCEPT ![p] = c]
  BY <1>3, StartGoto DEF Start!UnlinkOperationFile, Start!Places
<1>5. StartRowTypes' /\ StartRows'
  BY <1>2 DEF StartInvariant, StartRowTypes, StartRows, TemporalThere
<1>6. PlaceOK(c)' /\ ~(c.midway /\ c.at \in Start!Asking)
  BY <1>3, <1>1, StartStepSets DEF At, PlaceOK, AsOwner
<1>7. result' = [q \in Services |-> result'[q]] /\ Start!IndeterminateMeansLost'
  BY <1>2, <1>4, <1>6, StartStaysLost DEF StartInvariant, StartCallTypes
<1> QED
  BY <1>1, <1>4, <1>5, <1>6, <1>7, StartFrame

LEMMA StartLinkRunFile ==
    ASSUME StartInvariant, NEW p \in Services, Start!LinkRunFile(p)
    PROVE  StartInvariant'
<1>1. /\ start[p].at = "runFile" /\ start[p].command \in Start!Commands /\ Within(p)
  BY StartCaller DEF Start!LinkRunFile, Within, Start!Outside
<1>2. UNCHANGED <<claims, byOperation, done, journal, verdict, result>>
  BY DEF Start!LinkRunFile
<1>3. CASE byRun # None /\ Start!Goto(p, "owned") /\ UNCHANGED <<byRun, half>>
  <2> DEFINE c == At(p, "owned", FALSE)
  <2>1. c \in StartCallStates /\ start' = [start EXCEPT ![p] = c]
    BY <1>3, StartGoto DEF Start!Places
  <2>2. PlaceOK(c) /\ ~c.midway
    BY <1>1, <1>3, StartStepSets DEF At, PlaceOK, AsOwner
  <2>3. claims' \in [Operations -> Start!Commands \cup {None}]
    BY <1>2 DEF StartInvariant, StartRowTypes
  <2> HIDE DEF c
  <2> QED BY <2>1, <2>2, <2>3, <1>1, <1>2, <1>3, StartGoesOn
<1>4. CASE /\ byRun = None /\ byRun' = start[p].command
           /\ half' = half \cup {"byRun"}
           /\ start' = [start EXCEPT ![p].midway = TRUE]
  <2>1. PICK c \in StartCallStates : c = At(p, "runFile", TRUE)
    BY <1>1, <1>4, StartMidway
  <2>2. start' = [start EXCEPT ![p] = c]
    BY <2>1, <1>1, <1>4, StartMidway
  <2>3. StartRowTypes'
    BY <1>1, <1>2, <1>4 DEF StartInvariant, StartRowTypes
  <2>4. StartRows' /\ byRun' # None
    BY <1>1, <1>2, <1>4, RunAssumption, StartStepSets DEF StartInvariant, StartRows, TemporalThere,
       Start!StartAssumption
  <2>5. PlaceOK(c)' /\ ~(c.midway /\ c.at \in Start!Asking)
    BY <2>1, <2>4, <1>1, StartStepSets DEF At, PlaceOK, AsOwner
  <2>6. result' = [q \in Services |-> result'[q]] /\ Start!IndeterminateMeansLost'
    BY <1>2, <2>2, <2>5, StartStaysLost DEF StartInvariant, StartCallTypes
  <2> QED BY <2>2, <2>3, <2>4, <2>5, <2>6, <1>1, StartFrame
<1> QED
  BY <1>3, <1>4 DEF Start!LinkRunFile

LEMMA StartUnlinkRunFile ==
    ASSUME StartInvariant, NEW p \in Services, Start!UnlinkRunFile(p)
    PROVE  StartInvariant'
<1>1. /\ start[p].at = "runFile" /\ start[p].command \in Start!Commands /\ Within(p)
      /\ byRun # None
  BY StartCaller DEF Start!UnlinkRunFile, Within, Start!Outside, PlaceOK
<1>2. /\ half' = half \ {"byRun"}
      /\ UNCHANGED <<claims, byOperation, byRun, done, journal, verdict, result>>
  BY DEF Start!UnlinkRunFile
<1>3. PICK c \in StartCallStates : c = At(p, "owned", FALSE)
  BY StartGoto DEF Start!UnlinkRunFile, Start!Places
<1>4. start' = [start EXCEPT ![p] = c]
  BY <1>3, StartGoto DEF Start!UnlinkRunFile, Start!Places
<1>5. StartRowTypes' /\ StartRows'
  BY <1>2 DEF StartInvariant, StartRowTypes, StartRows, TemporalThere
<1>6. PlaceOK(c)' /\ ~(c.midway /\ c.at \in Start!Asking)
  BY <1>3, <1>1, <1>2, StartStepSets DEF At, PlaceOK, AsOwner
<1>7. result' = [q \in Services |-> result'[q]] /\ Start!IndeterminateMeansLost'
  BY <1>2, <1>4, <1>6, StartStaysLost DEF StartInvariant, StartCallTypes
<1> QED
  BY <1>1, <1>4, <1>5, <1>6, <1>7, StartFrame

LEMMA StartResume ==
    ASSUME StartInvariant, NEW p \in Services, Start!Resume(p)
    PROVE  StartInvariant'
<1>1. /\ start[p].at = "owned" /\ start[p].command \in Start!Commands /\ Within(p)
      /\ Start!Op(p) \in Operations /\ Start!Op(p) = start[p].command.op
      /\ byRun # None
  BY StartCaller DEF Start!Resume, Within, Start!Outside, PlaceOK
<1>2. UNCHANGED Start!files
  BY DEF Start!Resume
<1>3. CASE Start!End(p, "refused")
  BY <1>2, <1>3, StartEnd
<1>4. ASSUME byOperation[Start!Op(p)] = byRun, result' = result,
             NEW place \in {"noChangeLink", "proposalLink", "extract"}, Start!Goto(p, place)
      PROVE  StartInvariant'
  <2> DEFINE c == At(p, place, FALSE)
  <2>1. place \in Start!Steps
    BY StartElements DEF Start!Steps, StartElementary
  <2>2. c \in StartCallStates /\ start' = [start EXCEPT ![p] = c]
    BY <1>4, <2>1, StartGoto DEF Start!Places
  <2>3. byRun.op = start[p].command.op
    BY <1>1, <1>4 DEF StartInvariant, StartRows
  <2>4. PlaceOK(c) /\ ~c.midway
    BY <2>1, <2>3, <1>1, <1>4 DEF At, PlaceOK, AsOwner
  <2>5. claims' \in [Operations -> Start!Commands \cup {None}]
    BY <1>2 DEF Start!files, StartInvariant, StartRowTypes
  <2> HIDE DEF c
  <2> QED BY <2>2, <2>4, <2>5, <1>1, <1>2, <1>4, StartGoesOn DEF Start!files
<1> QED
  BY <1>3, <1>4 DEF Start!Resume

\* Where a call goes after a step, it can rely on the verdict and on the files.
LEMMA StartAfterwardsOK ==
    ASSUME StartInvariant, NEW p \in Services, NEW step \in Start!Steps, NEW c,
           c = At(p, Start!After(step), FALSE),
           start[p].command \in Start!Commands,
           byRun # None, byRun.op = start[p].command.op,
           step \in {"classify", "classificationBatch", "CLASSIFICATION"} => verdict # None,
           step \in {"assess", "dependencyBatch", "DEPENDENCY"} => verdict \notin {None, "unchanged"},
           step = "TEMPORAL" => TemporalThere
    PROVE  c \in StartCallStates /\ PlaceOK(c) /\ ~c.midway
<1>1. StartNextPlaces!(step)
  BY StartNext DEF StartNextPlaces
<1>2. /\ c.at = Start!After(step) /\ c.command = start[p].command /\ c.midway = FALSE
      /\ c = [at |-> Start!After(step), midway |-> FALSE, command |-> start[p].command]
  BY DEF At
<1>3. c \in StartCallStates
  BY <1>1, <1>2 DEF StartCallStates, Start!Places
<1>4. c.at \in Start!Steps \cup {"returned", "raised"}
  BY <1>1, <1>2
<1>5. c.at \notin {"idle", "owned", "runFile"}
  BY <1>4, StartStepSets DEF Start!Outside
<1> QED
  BY <1>1, <1>2, <1>3, <1>5 DEF PlaceOK

LEMMA StartAsk ==
    ASSUME StartInvariant, NEW p \in Services, Start!Ask(p)
    PROVE  StartInvariant'
<1> DEFINE step == start[p].at
<1>1. /\ step \in Start!Asking /\ ~start[p].midway /\ step \in Start!Steps /\ step \in AsOwner
      /\ start[p].command \in Start!Commands /\ PlaceOK(start[p])
      /\ Start!Op(p) \in Operations /\ Start!Op(p) = start[p].command.op /\ Within(p)
      /\ byRun # None /\ byRun.op = start[p].command.op
  BY StartCaller, StartStepSets DEF Start!Ask, Within, Start!Outside, PlaceOK, AsOwner
<1>2. UNCHANGED <<claims, byOperation, byRun, done, half, verdict>>
  BY DEF Start!Ask
<1>3. claims' \in [Operations -> Start!Commands \cup {None}]
  BY <1>2 DEF StartInvariant, StartRowTypes
<1>4. ASSUME NEW what \in {"refused", "indeterminate"}, Start!End(p, what), journal' = journal,
             what = "indeterminate" => journal[Start!Op(p)][step] = "claimed"
      PROVE  StartInvariant'
  <2>1. ~Start!Pending(Start!Op(p), step)
    <3>1. ASSUME NEW q \in Services, start[q].at = step PROVE q = p
      BY <1>1, <3>1 DEF StartInvariant, OneWithin, Within
    <3> QED BY <1>1, <3>1 DEF Start!Pending
  <2>2. what = "indeterminate" =>
           \E o \in Operations, s \in Start!Asking : Start!Claimed(o, s) /\ ~Start!Pending(o, s)
    BY <1>1, <1>4, <2>1 DEF Start!Claimed
  <2> QED BY <1>2, <1>4, <2>2, StartEnd DEF Start!files
<1>5. ASSUME NEW from \in Start!Steps, Start!Goto(p, Start!After(from)), result' = result,
             journal' = journal,
             from \in {"classify", "CLASSIFICATION"} => verdict # None,
             from \in {"assess", "DEPENDENCY"} => step = "assess",
             from \notin {"classificationBatch", "dependencyBatch", "TEMPORAL"}
      PROVE  StartInvariant'
  <2>1. Start!After(from) \in Start!Places
    BY StartNext DEF StartNextPlaces, Start!Places
  <2>2. PICK c : c = At(p, Start!After(from), FALSE)
    OBVIOUS
  <2>3. c \in StartCallStates /\ PlaceOK(c) /\ ~c.midway
    BY <1>1, <1>5, <2>2, StartAfterwardsOK DEF PlaceOK
  <2>4. start' = [start EXCEPT ![p] = c]
    BY <1>5, <2>1, <2>2, StartGoto
  <2> QED BY <1>1, <1>2, <1>3, <1>5, <2>3, <2>4, StartGoesOn
<1>6. CASE Start!Reopens(step)
  <2>1. /\ Start!Reopened(step) \in Start!Steps
        /\ step = "baseline" => Start!Reopened(step) = "complete"
        /\ step = "classify" => Start!Reopened(step) = "CLASSIFICATION" /\ done["CLASSIFICATION"] # None
        /\ step = "assess" => Start!Reopened(step) = "DEPENDENCY"
        /\ step \in {"baseline", "classify", "assess"}
    BY <1>1, <1>6, StartElements DEF Start!Reopens, Start!Reopened, Start!Steps, StartElementary,
       Start!Asking
  <2>2. step = "classify" => verdict # None
    BY <2>1 DEF StartInvariant, StartRows
  <2>3. CASE Start!Goto(p, Start!After(Start!Reopened(step))) /\ result' = result /\ journal' = journal
    <3> DEFINE from == Start!Reopened(step)
    <3>1. /\ from \in {"classify", "CLASSIFICATION"} => verdict # None
          /\ from \in {"assess", "DEPENDENCY"} => step = "assess"
          /\ from \notin {"classificationBatch", "dependencyBatch", "TEMPORAL"}
      BY <2>1, <2>2
    <3> HIDE DEF from
    <3> QED BY <2>1, <2>3, <3>1, <1>5 DEF from
  <2>4. CASE Start!End(p, "refused") /\ journal' = journal
    BY <2>4, <1>4
  <2> QED BY <1>6, <2>3, <2>4 DEF Start!Ask
<1>7. CASE ~Start!Reopens(step) /\ journal[Start!Op(p)][step] = "recorded"
           /\ Start!Goto(p, Start!After(step)) /\ UNCHANGED <<journal, result>>
  <2>1. step = "classify" => verdict # None
    BY <1>1, <1>7 DEF StartInvariant, StartRows
  <2>2. step \notin {"classificationBatch", "dependencyBatch", "TEMPORAL", "CLASSIFICATION", "DEPENDENCY"}
    BY <1>1 DEF Start!Asking
  <2> HIDE DEF step
  <2> QED BY <1>1, <1>5, <1>7, <2>1, <2>2
<1>8. CASE journal[Start!Op(p)][step] = "claimed" /\ Start!End(p, "indeterminate") /\ journal' = journal
  BY <1>4, <1>8
<1>9. CASE /\ journal[Start!Op(p)][step] = "none"
           /\ journal' = [journal EXCEPT ![Start!Op(p)][step] = "claimed"]
           /\ start' = [start EXCEPT ![p].midway = TRUE]
           /\ result' = result
  <2>1. PICK c \in StartCallStates : c = At(p, step, TRUE)
    BY <1>9, StartMidway
  <2>2. start' = [start EXCEPT ![p] = c]
    BY <2>1, <1>9, StartMidway
  <2>3. /\ \A o \in Operations, s \in Start!Asking :
             journal'[o][s] = IF o = Start!Op(p) /\ s = step THEN "claimed" ELSE journal[o][s]
        /\ StartRowTypes'
    BY <1>1, <1>2, <1>9 DEF StartInvariant, StartRowTypes
  <2>4. StartRows'
    <3>1. (\E o \in Operations : journal'[o]["classify"] = "recorded") <=>
             \E o \in Operations : journal[o]["classify"] = "recorded"
      BY <1>1, <1>9, <2>3 DEF Start!Asking
    <3>2. \A o \in Operations, s \in Start!Asking :
             journal'[o][s] # "none" => byRun # None /\ byRun.op = o
      BY <1>1, <2>3 DEF StartInvariant, StartRows
    <3> QED BY <1>2, <3>1, <3>2 DEF StartInvariant, StartRows, TemporalThere
  <2>5. /\ c.at = step /\ c.midway /\ c.command = start[p].command
        /\ journal'[c.command.op][c.at] = "claimed"
    BY <2>1, <2>3, <1>1 DEF At
  <2>6. PlaceOK(c)'
    BY <2>5, <1>1, <1>2, StartStepSets DEF PlaceOK, TemporalThere
  <2>7. Start!IndeterminateMeansLost'
    <3>1. ASSUME NEW o \in Operations, NEW s \in Start!Asking, Start!Claimed(o, s), ~Start!Pending(o, s)
          PROVE  Start!Claimed(o, s)' /\ ~Start!Pending(o, s)'
      <4>1. ~(o = Start!Op(p) /\ s = step)
        BY <3>1, <1>9 DEF Start!Claimed
      <4> QED
        BY <3>1, <4>1, <2>2, <2>3, <2>5, <1>1 DEF Start!Claimed, Start!Pending, Start!Op, StartInvariant,
           StartCallTypes
    <3> QED BY <1>9, <3>1 DEF Start!IndeterminateMeansLost, Start!LostCall, StartInvariant
  <2>8. result' = [q \in Services |-> result'[q]]
    BY <1>9 DEF StartInvariant, StartCallTypes
  <2> QED BY <1>1, <2>2, <2>3, <2>4, <2>6, <2>7, <2>8, StartFrame
<1> QED
  BY <1>6, <1>7, <1>8, <1>9 DEF Start!Ask

LEMMA StartAnswer ==
    ASSUME StartInvariant, NEW p \in Services, NEW v \in Start!Verdicts, Start!Answer(p, v)
    PROVE  StartInvariant'
<1> DEFINE step == start[p].at
<1>1. /\ step \in Start!Asking /\ start[p].midway /\ step \in Start!Steps /\ step \in AsOwner
      /\ start[p].command \in Start!Commands /\ PlaceOK(start[p])
      /\ Start!Op(p) \in Operations /\ Start!Op(p) = start[p].command.op /\ Within(p)
      /\ byRun # None /\ byRun.op = start[p].command.op
      /\ journal[Start!Op(p)][step] = "claimed"
  BY StartCaller, StartStepSets DEF Start!Answer, Within, Start!Outside, PlaceOK, AsOwner
<1>2. /\ UNCHANGED <<claims, byOperation, byRun, done, half, result>>
      /\ journal' = [journal EXCEPT ![Start!Op(p)][step] = "recorded"]
      /\ verdict' = IF step = "classify" THEN v ELSE verdict
  BY DEF Start!Answer
<1>3. /\ \A o \in Operations, s \in Start!Asking :
           journal'[o][s] = IF o = Start!Op(p) /\ s = step THEN "recorded" ELSE journal[o][s]
      /\ StartRowTypes'
  BY <1>1, <1>2 DEF StartInvariant, StartRowTypes
<1>4. step = "classify" => verdict = None
  BY <1>1 DEF StartInvariant, StartRows, Start!Asking
<1>5. v # None
  BY RunAssumption DEF Start!StartAssumption
<1>6. StartRows'
  <2>1. verdict' # None <=> \E o \in Operations : journal'[o]["classify"] = "recorded"
    BY <1>1, <1>2, <1>3, <1>5 DEF StartInvariant, StartRows, Start!Asking
  <2>2. \A o \in Operations, s \in Start!Asking :
           journal'[o][s] # "none" => byRun # None /\ byRun.op = o
    BY <1>1, <1>3 DEF StartInvariant, StartRows
  <2>3. /\ done["CLASSIFICATION"] # None => verdict' # None
        /\ done["noChange"] # None => verdict' = "unchanged"
        /\ done["manifest"] # None => verdict' \notin {None, "unchanged"}
    BY <1>2, <1>4, RunAssumption DEF StartInvariant, StartRows, Start!StartAssumption,
       Start!Verdicts
  <2> QED BY <1>2, <2>1, <2>2, <2>3 DEF StartInvariant, StartRows, TemporalThere
<1>7. StartNextPlaces!(step)
  BY <1>1, StartNext DEF StartNextPlaces
<1>8. PICK c : c = At(p, Start!After(step), FALSE)
  OBVIOUS
<1>9. start' = [start EXCEPT ![p] = c] /\ c \in StartCallStates
  BY <1>7, <1>8, StartGoto DEF Start!Places, Start!Answer
<1>10. /\ c.at = Start!After(step) /\ c.midway = FALSE /\ c.command = start[p].command
       /\ c.at \in AsOwner
  BY <1>7, <1>8 DEF At, AsOwner
<1>11. PlaceOK(c)'
  <2>1. step \notin {"classificationBatch", "CLASSIFICATION", "dependencyBatch", "DEPENDENCY", "TEMPORAL"}
    BY <1>1 DEF Start!Asking
  <2>2. /\ c.at = "classificationBatch" => verdict' # None
        /\ c.at \notin {"CLASSIFICATION", "noChange", "assess", "DEPENDENCY", "manifest", "commit"}
        /\ c.at = "dependencyBatch" => verdict' \notin {None, "unchanged"}
    BY <1>1, <1>2, <1>5, <1>7, <1>10, <2>1 DEF PlaceOK
  <2>3. c.at \notin {"idle", "owned", "runFile"}
    BY <1>10, StartStepSets DEF AsOwner, Start!Outside
  <2> QED BY <1>1, <1>2, <1>10, <2>2, <2>3 DEF PlaceOK
<1>12. Start!IndeterminateMeansLost'
  <2>1. ASSUME NEW o \in Operations, NEW s \in Start!Asking, Start!Claimed(o, s), ~Start!Pending(o, s)
        PROVE  Start!Claimed(o, s)' /\ ~Start!Pending(o, s)'
    <3>1. ~(o = Start!Op(p) /\ s = step)
      BY <2>1, <1>1 DEF Start!Pending
    <3> QED
      BY <2>1, <3>1, <1>3, <1>9, <1>10 DEF Start!Claimed, Start!Pending, Start!Op, StartInvariant,
         StartCallTypes
  <2> QED BY <1>2, <2>1 DEF Start!IndeterminateMeansLost, Start!LostCall, StartInvariant
<1>13. result' = [q \in Services |-> result'[q]]
  BY <1>2 DEF StartInvariant, StartCallTypes
<1> QED
  BY <1>1, <1>3, <1>6, <1>9, <1>11, <1>12, <1>13, StartFrame

LEMMA StartPerform ==
    ASSUME StartInvariant, NEW p \in Services, Start!Perform(p)
    PROVE  StartInvariant'
<1> DEFINE step == start[p].at
<1>1. /\ step \in Start!Durable /\ ~start[p].midway /\ step \in Start!Steps /\ step \in AsOwner
      /\ step \notin Start!Asking
      /\ start[p].command \in Start!Commands /\ PlaceOK(start[p])
      /\ Start!Op(p) \in Operations /\ Start!Op(p) = start[p].command.op /\ Within(p)
      /\ byRun # None /\ byRun.op = start[p].command.op
  BY StartCaller, StartStepSets DEF Start!Perform, Within, Start!Outside, PlaceOK, AsOwner
<1>2. UNCHANGED <<claims, byOperation, byRun, journal, verdict>>
  BY DEF Start!Perform
<1>3. CASE Start!End(p, "refused") /\ UNCHANGED <<done, half>>
  BY <1>2, <1>3, StartEnd DEF Start!files
<1>4. CASE /\ step \notin half /\ done' = [done EXCEPT ![step] = Start!Op(p)] /\ result' = result
           /\ \/ /\ step \in Start!Files /\ done[step] = None
                 /\ half' = half \cup {step}
                 /\ start' = [start EXCEPT ![p].midway = TRUE]
              \/ /\ ~(step \in Start!Files /\ done[step] = None)
                 /\ Start!Goto(p, Start!After(step)) /\ half' = half
  <2>1. /\ StartRowTypes'
        /\ \A s \in Start!Durable : done'[s] = IF s = step THEN Start!Op(p) ELSE done[s]
        /\ Start!Op(p) # None
    <3>1. half' \subseteq Start!Files \cup Operations \cup {"byRun"}
      BY <1>4 DEF StartInvariant, StartRowTypes
    <3> QED
      BY <1>1, <1>2, <1>4, <3>1, RunAssumption DEF StartInvariant, StartRowTypes, Start!StartAssumption
  <2>2. TemporalThere => TemporalThere'
    BY <1>4, <2>1, StartStepSets DEF TemporalThere
  <2>3. StartRows'
    <3>1. \A s \in Start!Durable : done'[s] # None => byRun # None /\ done'[s] = byRun.op
      BY <1>1, <2>1 DEF StartInvariant, StartRows
    <3>2. done'["commit"] # None => TemporalThere'
      BY <1>1, <2>1, <2>2, StartStepSets DEF StartInvariant, StartRows, PlaceOK
    <3>3. /\ done'["CLASSIFICATION"] # None => verdict # None
          /\ done'["noChange"] # None => verdict = "unchanged"
          /\ done'["manifest"] # None => verdict \notin {None, "unchanged"}
      BY <1>1, <2>1, StartStepSets DEF StartInvariant, StartRows, PlaceOK
    <3> QED BY <1>2, <3>1, <3>2, <3>3 DEF StartInvariant, StartRows
  <2>4. result' = [q \in Services |-> result'[q]]
    BY <1>4 DEF StartInvariant, StartCallTypes
  <2>5. CASE /\ step \in Start!Files /\ done[step] = None
             /\ half' = half \cup {step}
             /\ start' = [start EXCEPT ![p].midway = TRUE]
    <3>1. PICK c \in StartCallStates : c = At(p, step, TRUE)
      BY <2>5, StartMidway
    <3>2. start' = [start EXCEPT ![p] = c]
      BY <3>1, <2>5, StartMidway
    <3>3. c.at = step /\ c.midway /\ c.command = start[p].command
      BY <3>1 DEF At
    <3>4. PlaceOK(c)'
      <4>1. step \notin {"idle", "owned", "runFile"}
        BY <1>1, StartStepSets DEF Start!Outside
      <4> QED BY <1>1, <1>2, <2>1, <2>2, <3>3, <4>1 DEF PlaceOK
    <3>5. Start!IndeterminateMeansLost'
      BY <1>1, <1>2, <1>4, <3>2, <3>3, StartStaysLost
    <3> QED BY <1>1, <2>1, <2>3, <2>4, <3>2, <3>4, <3>5, StartFrame
  <2>6. CASE /\ ~(step \in Start!Files /\ done[step] = None)
             /\ Start!Goto(p, Start!After(step)) /\ half' = half
    <3>1. Start!After(step) \in Start!Places
      BY <1>1, StartNext DEF StartNextPlaces, Start!Places
    <3>2. PICK c : c = At(p, Start!After(step), FALSE)
      OBVIOUS
    <3>3. start' = [start EXCEPT ![p] = c]
      BY <2>6, <3>1, <3>2, StartGoto
    <3>4. step = "TEMPORAL" => TemporalThere
      BY <1>4, <2>6 DEF TemporalThere, Start!Files, Start!Indexes
    <3>5. /\ step \in {"classify", "classificationBatch", "CLASSIFICATION"} => verdict # None
          /\ step \in {"assess", "dependencyBatch", "DEPENDENCY"} => verdict \notin {None, "unchanged"}
      BY <1>1 DEF PlaceOK, Start!Asking
    <3>6. c \in StartCallStates /\ PlaceOK(c) /\ ~c.midway
      BY <1>1, <3>2, <3>4, <3>5, StartAfterwardsOK
    <3>7. PlaceOK(c)'
      BY <1>2, <2>2, <3>6 DEF PlaceOK
    <3>8. Start!IndeterminateMeansLost'
      BY <1>2, <1>4, <3>3, <3>6, StartStaysLost
    <3> QED BY <1>1, <2>1, <2>3, <2>4, <3>3, <3>6, <3>7, <3>8, StartFrame
  <2> QED BY <1>4, <2>5, <2>6
<1> QED
  BY <1>3, <1>4 DEF Start!Perform

LEMMA StartUnlink ==
    ASSUME StartInvariant, NEW p \in Services, Start!Unlink(p)
    PROVE  StartInvariant'
<1> DEFINE step == start[p].at
<1>1. /\ step \in Start!Files /\ start[p].midway /\ step \in Start!Steps /\ step \in AsOwner
      /\ step \notin Start!Asking
      /\ start[p].command \in Start!Commands /\ PlaceOK(start[p]) /\ Within(p)
      /\ byRun # None /\ byRun.op = start[p].command.op /\ done[step] # None
  BY StartCaller, StartStepSets DEF Start!Unlink, Within, Start!Outside, PlaceOK, AsOwner
<1>2. /\ half' = half \ {step}
      /\ UNCHANGED <<claims, byOperation, byRun, done, journal, verdict, result>>
  BY DEF Start!Unlink
<1>3. StartRowTypes' /\ StartRows' /\ (TemporalThere => TemporalThere')
  BY <1>2 DEF StartInvariant, StartRowTypes, StartRows, TemporalThere
<1>4. StartNextPlaces!(step)
  BY <1>1, StartNext DEF StartNextPlaces
<1>5. PICK c : c = At(p, Start!After(step), FALSE)
  OBVIOUS
<1>6. start' = [start EXCEPT ![p] = c] /\ c \in StartCallStates
  BY <1>4, <1>5, StartGoto DEF Start!Places, Start!Unlink
<1>7. /\ c.at = Start!After(step) /\ c.midway = FALSE /\ c.command = start[p].command
      /\ c.at \in AsOwner
  BY <1>4, <1>5 DEF At, AsOwner
<1>8. PlaceOK(c)'
  <2>1. step = "TEMPORAL" => TemporalThere'
    BY <1>1, <1>2 DEF TemporalThere
  <2>2. step \notin {"classify", "assess", "dependencyBatch", "classificationBatch"}
    BY <1>1 DEF Start!Files, Start!Indexes
  <2>3. c.at \notin {"idle", "owned", "runFile"}
    BY <1>7, StartStepSets DEF AsOwner, Start!Outside
  <2> QED BY <1>1, <1>2, <1>4, <1>7, <2>1, <2>2, <2>3 DEF PlaceOK
<1>9. result' = [q \in Services |-> result'[q]] /\ Start!IndeterminateMeansLost'
  BY <1>2, <1>6, <1>7, StartStaysLost DEF StartInvariant, StartCallTypes
<1> QED
  BY <1>1, <1>3, <1>6, <1>8, <1>9, StartFrame

LEMMA StartReturn ==
    ASSUME StartInvariant, NEW p \in Services, Start!Return(p)
    PROVE  StartInvariant'
<1>1. PICK what \in {"raised", "completed", "awaiting"} : Start!End(p, what)
  BY DEF Start!Return
<1> QED
  BY <1>1, StartEnd DEF Start!Return

LEMMA StartCrash ==
    ASSUME StartInvariant, NEW p \in Services, Start!Crash(p)
    PROVE  StartInvariant'
BY StartEnd DEF Start!Crash

LEMMA StartInitially == Start!Init => StartInvariant
<1> SUFFICES ASSUME Start!Init PROVE StartInvariant
  OBVIOUS
<1> USE DEF Start!Init
<1>1. StartRowTypes /\ StartCallTypes
  BY DEF StartRowTypes, StartCallTypes, StartCallStates, Start!Idle, Start!Places, Start!Outside
<1>2. OneWithin
  BY DEF OneWithin, Within, Start!Idle, Start!Outside
<1>3. StartRows
  BY StartStepSets DEF StartRows, Start!Asking
<1>4. \A p \in Services : PlaceOK(start[p])
  BY StartStepSets DEF PlaceOK, Start!Idle, AsOwner, Start!Outside
<1>5. Start!IndeterminateMeansLost
  BY DEF Start!IndeterminateMeansLost
<1> QED
  BY <1>1, <1>2, <1>3, <1>4, <1>5 DEF StartInvariant

LEMMA StartInvariantKept ==
    ASSUME StartInvariant, [Start!Next]_startVars
    PROVE  StartInvariant'
<1>1. CASE UNCHANGED startVars
  BY <1>1 DEF startVars, StartInvariant, StartRowTypes, StartCallTypes, OneWithin, Within, StartRows,
     TemporalThere, PlaceOK, Start!IndeterminateMeansLost, Start!LostCall, Start!Claimed,
     Start!Pending, Start!Op
<1>2. CASE Start!Next
  <2> SUFFICES ASSUME NEW p \in Services,
                      \/ \E c \in StartCalls, time \in Times[p] : Start!Begin(p, c, time)
                      \/ Start!Proceed(p) \/ Start!Crash(p)
               PROVE  StartInvariant'
    BY <1>2 DEF Start!Next
  <2>1. CASE \E c \in StartCalls, time \in Times[p] : Start!Begin(p, c, time)
    BY <2>1, StartBegin
  <2>2. CASE Start!Crash(p)
    BY <2>2, StartCrash
  <2>3. CASE Start!Proceed(p)
    BY <2>3, StartClaimOperation, StartLock, StartLinkOperationFile, StartUnlinkOperationFile,
       StartLinkRunFile, StartUnlinkRunFile, StartResume, StartAsk, StartAnswer, StartPerform,
       StartUnlink, StartReturn DEF Start!Proceed
  <2> QED BY <2>1, <2>2, <2>3
<1> QED
  BY <1>1, <1>2

\* The inductive invariant of a run's start: who is within the lock is one, and can rely,
\* at each place, on the owner of the run, on what it has left and on the verdict.
THEOREM RunStartInvariant == RunSpec => []StartInvariant
<1>1. RunInit => StartInvariant
  BY StartInitially DEF RunInit
<1>2. StartInvariant /\ [RunNext]_<<component, vars, startVars>> => StartInvariant'
  BY StartInvariantKept DEF RunNext
<1> QED
  BY <1>1, <1>2, PTL DEF RunSpec

\* One operation id owns the run, with all its rows, files, links and paid calls, its
\* commit can be found again, and what callers are told of lost calls is so: start_change,
\* for any number of callers, operations, deaths and orders of their steps.
THEOREM RunHasOneOutcome == RunSpec => []OneOutcomePerRun
<1>1. StartInvariant => OneOutcomePerRun
  BY RunAssumption DEF OneOutcomePerRun, Start!OneOutcomePerRun, StartInvariant, StartRows, TemporalThere
<1> QED
  BY <1>1, RunStartInvariant, PTL

=============================================================================

---------------------------- MODULE Screens_proofs -----------------------------
(***************************************************************************)
(* What users look at, for any number of commands, projects, tasks, steps  *)
(* and timers.  The cache of the terminal client never lacks an own write  *)
(* that was reported done, and what a command reads is fresh and in order; *)
(* the key u gives back the statuses there were; a cascade closes the      *)
(* steps first; and a page that is disconnected is polled.                 *)
(***************************************************************************)
EXTENDS Screens, SequenceTheorems, FiniteSetTheorems, TLAPS

States == [step : Steps, project : Projects, target : Projects, wrote : Nat, got : Seq(Snapshots)]

\* Types; the lock goes with the answer; and who delivers has read all of its parts.
TypeInv ==
  /\ rev \in [Projects -> Nat] /\ told \in [Projects -> Nat]
  /\ cached \in Snapshots \cup {Nothing} /\ answer \in Snapshots \cup {Nothing}
  /\ project \in Projects /\ (board # Nothing => board[1].project \in Projects)
  /\ running \in [Commands -> States]
  /\ mu \in Commands \cup {Nothing}
  /\ answer # Nothing => mu # Nothing
  /\ \A c \in Commands : running[c].step = "deliver" => Len(running[c].got) = Reads

\* What was reported, or is about to be, is committed; and a snapshot that is kept or on its way
\* has what was reported: nothing is reported while the lock is held.
CacheInv ==
  /\ \A p \in Projects : told[p] <= rev[p]
  /\ \A c \in Commands : running[c].step = "invalidate" => running[c].wrote <= rev[running[c].target]
  /\ cached # Nothing => told[cached.project] <= cached.rev
  /\ answer # Nothing => told[answer.project] <= answer.rev

\* A command that reads has had its own write reported, and has it in what it has read.
WriteInv ==
  \A c \in Commands :
    /\ running[c].step \in {"idle", "write"} => running[c].wrote = 0
    /\ running[c].step \in {"read", "deliver"} => running[c].wrote <= told[running[c].target]
    /\ running[c].step \notin {"read", "deliver"} => running[c].got = <<>>
    /\ \A i \in 1 .. Len(running[c].got) :
         running[c].got[i].project = running[c].target => running[c].wrote <= running[c].got[i].rev

-----------------------------------------------------------------------------
(* What a step does to the record of one command.                            *)

\* A command at rest.
LEMMA IdleIsState ==
  /\ Idle \in States /\ Idle.step = "idle" /\ Idle.target = Home
  /\ Idle.wrote = 0 /\ Idle.got = <<>> /\ Len(Idle.got) = 0
  <1>1. <<>> \in Seq(Snapshots) /\ Len(<<>>) = 0
    BY EmptySeq
  <1>2. QED
    BY <1>1, BoardAssumption DEF Idle, States, Steps

\* A snapshot is added at the end, and the command goes on reading or delivers.
LEMMA TakesType ==
  ASSUME TypeInv, NEW c \in Commands, NEW snapshot \in Snapshots, Takes(c, snapshot)
  PROVE  /\ running' \in [Commands -> States]
         /\ running'[c].step = "deliver" => Len(running'[c].got) = Reads
         /\ running'[c].got = Append(running[c].got, snapshot)
         /\ running'[c].step \in {"read", "deliver"}
         /\ running'[c].target = running[c].target /\ running'[c].wrote = running[c].wrote
         /\ \A d \in Commands \ {c} : running'[d] = running[d]
  <1>1. Append(running[c].got, snapshot) \in Seq(Snapshots)
    BY AppendProperties DEF TypeInv, States
  <1>2. QED
    BY <1>1 DEF TypeInv, States, Takes, Steps

\* What has been read stays, and the new part is the last.
LEMMA TakesGot ==
  ASSUME TypeInv, NEW c \in Commands, NEW snapshot \in Snapshots, Takes(c, snapshot),
         NEW i \in 1 .. Len(running'[c].got)
  PROVE  \/ i \in 1 .. Len(running[c].got) /\ running'[c].got[i] = running[c].got[i]
         \/ running'[c].got[i] = snapshot
  <1>1. running[c].got \in Seq(Snapshots) /\ running'[c].got = Append(running[c].got, snapshot)
    BY TakesType DEF TypeInv, States
  <1>2. Len(running'[c].got) = Len(running[c].got) + 1 /\ Len(running[c].got) \in Nat
    BY <1>1, AppendProperties
  <1>3. CASE i \in 1 .. Len(running[c].got)
    BY <1>1, <1>3, AppendProperties
  <1>4. CASE i = Len(running[c].got) + 1
    BY <1>1, <1>4, AppendProperties
  <1>5. QED
    BY <1>2, <1>3, <1>4

-----------------------------------------------------------------------------
(* Types.                                                                    *)

\* The board's state keeps its types, one lemma per action.
LEMMA TypesAtFirst == BoardInit => TypeInv
  <1> SUFFICES ASSUME BoardInit PROVE TypeInv
    OBVIOUS
  <1>1. running \in [Commands -> States] /\ \A c \in Commands : running[c].step # "deliver"
    BY IdleIsState DEF BoardInit
  <1>2. rev \in [Projects -> Nat] /\ told \in [Projects -> Nat]
    BY DEF BoardInit
  <1>3. QED
    BY <1>1, <1>2, BoardAssumption DEF BoardInit, TypeInv

\* A command begins with nothing written and nothing read.
LEMMA StartedType ==
  ASSUME TypeInv, NEW c \in Commands, NEW step \in {"read", "write"}, NEW p \in Projects,
         NEW target \in Projects, Started(c, step, p, target)
  PROVE  /\ running' \in [Commands -> States]
         /\ running'[c].step = step /\ running'[c].wrote = 0 /\ running'[c].got = <<>>
         /\ \A d \in Commands \ {c} : running'[d] = running[d]
  <1>1. [Idle EXCEPT !.step = step, !.project = p, !.target = target] \in States
    BY IdleIsState DEF States, Steps
  <1>2. QED
    BY <1>1 DEF TypeInv, Started, Idle

LEMMA ChangeTypes == ASSUME TypeInv, NEW c \in Commands, Change(c) PROVE TypeInv'
  <1>1. PICK p \in Projects : Started(c, "write", project, p)
    BY DEF Change, TypeInv
  <1>2. running' \in [Commands -> States] /\ \A d \in Commands : running'[d].step = "deliver" => Len(running'[d].got) = Reads
    BY <1>1, StartedType DEF TypeInv
  <1>3. QED
    BY <1>2 DEF TypeInv, Change

LEMMA OpenTypes == ASSUME TypeInv, NEW c \in Commands, NEW p \in Projects, Open(c, p) PROVE TypeInv'
  <1>1. running' \in [Commands -> States] /\ \A d \in Commands : running'[d].step = "deliver" => Len(running'[d].got) = Reads
    BY StartedType DEF TypeInv, Open
  <1>2. QED
    BY <1>1 DEF TypeInv, Open

LEMMA ElsewhereTypes == ASSUME TypeInv, NEW p \in Projects, Elsewhere(p) PROVE TypeInv'
  BY DEF TypeInv, Elsewhere

LEMMA WriteTypes == ASSUME TypeInv, NEW c \in Commands, Write(c) PROVE TypeInv'
  <1>1. running[c].target \in Projects /\ rev[running[c].target] + 1 \in Nat
    <2>1. running[c] \in States
      BY DEF TypeInv
    <2>2. running[c].target \in Projects
      BY <2>1 DEF States
    <2> QED
      BY <2>2 DEF TypeInv
  <1>2. rev' \in [Projects -> Nat]
    BY <1>1 DEF TypeInv, Write
  <1>3. running' \in [Commands -> States] /\ running'[c].step = "invalidate"
        /\ \A d \in Commands \ {c} : running'[d] = running[d]
    <2> DEFINE new == [running[c] EXCEPT !.step = "invalidate", !.wrote = rev[running[c].target] + 1]
    <2>1. running' = [running EXCEPT ![c] = new] /\ running \in [Commands -> States]
      BY DEF TypeInv, Write
    <2>2. new \in States /\ new.step = "invalidate"
      BY <1>1, <2>1 DEF States, Steps
    <2> HIDE DEF new
    <2> QED
      BY <2>1, <2>2
  <1>4. QED
    BY <1>2, <1>3 DEF TypeInv, Write

\* After an error a command ends or reads; it has not heard of a write.
LEMMA AfterErrorType ==
  ASSUME TypeInv, NEW c \in Commands, AfterError(c)
  PROVE  /\ running' \in [Commands -> States]
         /\ \/ running'[c] = Idle
            \/ running'[c] = [running[c] EXCEPT !.step = "read"]
         /\ running'[c].step \in {"idle", "read"}
         /\ \A d \in Commands \ {c} : running'[d] = running[d]
  <1>1. CASE Ends(c)
    BY <1>1, IdleIsState DEF TypeInv, Ends
  <1>2. CASE Goes(c, "read")
    BY <1>2 DEF TypeInv, States, Steps, Goes
  <1>3. QED
    BY <1>1, <1>2 DEF AfterError

LEMMA RefusedTypes == ASSUME TypeInv, NEW c \in Commands, Refused(c) PROVE TypeInv'
  <1>1. running' \in [Commands -> States] /\ \A d \in Commands : running'[d].step = "deliver" => Len(running'[d].got) = Reads
    BY AfterErrorType, IdleIsState DEF TypeInv, Refused
  <1>2. QED
    BY <1>1 DEF TypeInv, Refused

LEMMA ReplyLostTypes == ASSUME TypeInv, NEW c \in Commands, ReplyLost(c) PROVE TypeInv'
  <1>1. running[c].target \in Projects /\ rev[running[c].target] + 1 \in Nat
    BY DEF TypeInv, States
  <1>2. running' \in [Commands -> States] /\ \A d \in Commands : running'[d].step = "deliver" => Len(running'[d].got) = Reads
    BY AfterErrorType DEF TypeInv, ReplyLost
  <1>3. rev' \in [Projects -> Nat]
    BY <1>1 DEF TypeInv, ReplyLost
  <1>4. QED
    BY <1>2, <1>3 DEF TypeInv, ReplyLost

LEMMA InvalidateTypes == ASSUME TypeInv, NEW c \in Commands, Invalidate(c) PROVE TypeInv'
  BY DEF TypeInv, Invalidate, Goes, States, Steps

LEMMA HitTypes == ASSUME TypeInv, NEW c \in Commands, Hit(c) PROVE TypeInv'
  <1>1. cached \in Snapshots /\ Takes(c, cached)
    BY DEF TypeInv, Hit
  <1>2. running' \in [Commands -> States] /\ \A d \in Commands : running'[d].step = "deliver" => Len(running'[d].got) = Reads
    BY <1>1, TakesType DEF TypeInv
  <1>3. QED
    BY <1>2 DEF TypeInv, Hit

LEMMA FetchTypes == ASSUME TypeInv, NEW c \in Commands, Fetch(c) PROVE TypeInv'
  BY DEF TypeInv, Fetch

LEMMA GetSnapshotTypes == ASSUME TypeInv, GetSnapshot PROVE TypeInv'
  <1>1. running[mu].project \in Projects /\ rev[running[mu].project] \in Nat
    BY DEF TypeInv, GetSnapshot, States
  <1>2. QED
    BY <1>1 DEF TypeInv, GetSnapshot, Snapshots

LEMMA FetchedTypes == ASSUME TypeInv, NEW c \in Commands, Fetched(c) PROVE TypeInv'
  <1>1. answer \in Snapshots /\ Takes(c, answer)
    BY DEF TypeInv, Fetched
  <1>2. running' \in [Commands -> States] /\ \A d \in Commands : running'[d].step = "deliver" => Len(running'[d].got) = Reads
    BY <1>1, TakesType DEF TypeInv
  <1>3. QED
    BY <1>1, <1>2 DEF TypeInv, Fetched

LEMMA FetchFailsTypes == ASSUME TypeInv, NEW c \in Commands, FetchFails(c) PROVE TypeInv'
  BY IdleIsState DEF TypeInv, FetchFails, Ends

LEMMA DeliverTypes == ASSUME TypeInv, NEW c \in Commands, Deliver(c) PROVE TypeInv'
  <1>1. running[c].got \in Seq(Snapshots) /\ Len(running[c].got) = 3
    BY DEF TypeInv, Deliver, States, Reads
  <1>2. running[c].got[1] \in Snapshots
    BY <1>1, ElementOfSeq
  <1>3. board'[1].project \in Projects
    BY <1>2 DEF Deliver, Snapshots
  <1>4. QED
    BY <1>3, IdleIsState DEF TypeInv, Deliver, Ends

LEMMA TypesStay == TypeInv /\ [BoardNext]_boardVars => TypeInv'
  <1> SUFFICES ASSUME TypeInv, [BoardNext]_boardVars PROVE TypeInv'
    OBVIOUS
  <1>1. ASSUME NEW c \in Commands, Answering(c) PROVE TypeInv'
    BY <1>1, WriteTypes, RefusedTypes, ReplyLostTypes, GetSnapshotTypes, FetchedTypes, FetchFailsTypes, DeliverTypes
    DEF Answering
  <1>2. ASSUME NEW c \in Commands, Locking(c) PROVE TypeInv'
    BY <1>2, InvalidateTypes, HitTypes, FetchTypes DEF Locking
  <1>3. CASE UNCHANGED boardVars
    BY <1>3 DEF TypeInv, boardVars
  <1>4. QED
    BY <1>1, <1>2, <1>3, ChangeTypes, OpenTypes, ElsewhereTypes DEF BoardNext

-----------------------------------------------------------------------------
(* The cache.                                                                *)

\* Nothing is cached and nothing reported.
LEMMA CacheAtFirst == BoardInit => CacheInv
  BY IdleIsState DEF BoardInit, CacheInv

\* A command that begins, ends or reads leaves the cache and the daemon alone.
LEMMA CacheIfOnlyRunning ==
  ASSUME TypeInv, CacheInv, UNCHANGED <<rev, told, cached, answer>>, NEW c \in Commands,
         running'[c].step # "invalidate", \A d \in Commands \ {c} : running'[d] = running[d]
  PROVE  CacheInv'
  BY DEF TypeInv, CacheInv, States

LEMMA ElsewhereCache == ASSUME TypeInv, CacheInv, NEW p \in Projects, Elsewhere(p) PROVE CacheInv'
  <1>1. \A q \in Projects : rev[q] <= rev'[q] /\ rev'[q] \in Nat /\ told[q] \in Nat /\ rev[q] \in Nat
    BY DEF TypeInv, Elsewhere
  <1>2. \A d \in Commands : running[d].wrote \in Nat /\ running[d].target \in Projects
    BY DEF TypeInv, States
  <1>3. UNCHANGED <<told, cached, answer, running>>
    BY DEF Elsewhere
  <1>4. QED
    BY <1>1, <1>2, <1>3 DEF CacheInv

LEMMA WriteCache == ASSUME TypeInv, CacheInv, NEW c \in Commands, Write(c) PROVE CacheInv'
  <1>1. running[c].target \in Projects /\ \A d \in Commands : running[d].target \in Projects /\ running[d].wrote \in Nat
    BY DEF TypeInv, States
  <1>2. \A q \in Projects : rev[q] <= rev'[q] /\ rev'[q] \in Nat /\ told[q] \in Nat /\ rev[q] \in Nat
    BY DEF TypeInv, Write
  <1>3. rev'[running[c].target] = rev[running[c].target] + 1
    BY <1>1 DEF TypeInv, Write
  <1>4. /\ running'[c].wrote = rev[running[c].target] + 1 /\ running'[c].target = running[c].target
        /\ \A d \in Commands \ {c} : running'[d] = running[d]
    BY DEF TypeInv, States, Write
  <1>5. UNCHANGED <<told, cached, answer>>
    BY DEF Write
  <1>6. QED
    BY <1>1, <1>2, <1>3, <1>4, <1>5 DEF CacheInv

LEMMA ReplyLostCache == ASSUME TypeInv, CacheInv, NEW c \in Commands, ReplyLost(c) PROVE CacheInv'
  <1>1. running[c].target \in Projects /\ \A d \in Commands : running[d].target \in Projects /\ running[d].wrote \in Nat
    BY DEF TypeInv, States
  <1>2. rev' = [rev EXCEPT ![running[c].target] = @ + 1] /\ UNCHANGED <<told, cached, answer>>
    BY DEF ReplyLost
  <1>3. \A q \in Projects : rev[q] <= rev'[q] /\ rev'[q] \in Nat /\ told[q] \in Nat /\ rev[q] \in Nat
    BY <1>1, <1>2 DEF TypeInv
  <1>4. running'[c].step # "invalidate" /\ \A d \in Commands \ {c} : running'[d] = running[d]
    BY AfterErrorType DEF ReplyLost
  <1>5. QED
    BY <1>1, <1>2, <1>3, <1>4 DEF CacheInv

\* The lock is free, so that no answer is on its way, and what was cached is dropped.
LEMMA InvalidateCache == ASSUME TypeInv, CacheInv, NEW c \in Commands, Invalidate(c) PROVE CacheInv'
  <1>1. running[c].target \in Projects /\ running[c].wrote \in Nat /\ running[c].wrote <= rev[running[c].target]
    BY DEF TypeInv, States, CacheInv, Invalidate
  <1>2. \A q \in Projects : told'[q] <= rev[q]
    BY <1>1 DEF TypeInv, CacheInv, Invalidate
  <1>3. answer' = Nothing /\ cached' = Nothing /\ rev' = rev
    BY DEF TypeInv, Invalidate
  <1>4. running'[c].step # "invalidate" /\ \A d \in Commands \ {c} : running'[d] = running[d]
    BY DEF TypeInv, States, Invalidate, Goes
  <1>5. QED
    BY <1>2, <1>3, <1>4 DEF CacheInv

LEMMA GetSnapshotCache == ASSUME TypeInv, CacheInv, GetSnapshot PROVE CacheInv'
  <1>1. running[mu].project \in Projects
    BY DEF TypeInv, GetSnapshot, States
  <1>2. answer'.project = running[mu].project /\ answer'.rev = rev[running[mu].project]
    BY DEF GetSnapshot
  <1>3. QED
    BY <1>1, <1>2 DEF CacheInv, GetSnapshot

LEMMA FetchedCache == ASSUME TypeInv, CacheInv, NEW c \in Commands, Fetched(c) PROVE CacheInv'
  <1>1. answer \in Snapshots /\ Takes(c, answer)
    BY DEF TypeInv, Fetched
  <1>2. running'[c].step # "invalidate" /\ \A d \in Commands \ {c} : running'[d] = running[d]
    BY <1>1, TakesType
  <1>3. cached' = answer /\ answer' = Nothing /\ rev' = rev /\ told' = told
    BY DEF Fetched
  <1>4. QED
    BY <1>2, <1>3 DEF CacheInv

\* FetchFails drops the answer that there was.
LEMMA FetchFailsCache == ASSUME TypeInv, CacheInv, NEW c \in Commands, FetchFails(c) PROVE CacheInv'
  <1>1. running'[c].step # "invalidate" /\ \A d \in Commands \ {c} : running'[d] = running[d]
    BY IdleIsState DEF TypeInv, FetchFails, Ends
  <1>2. QED
    BY <1>1 DEF CacheInv, FetchFails

LEMMA CacheStays == TypeInv /\ CacheInv /\ [BoardNext]_boardVars => CacheInv'
  <1> SUFFICES ASSUME TypeInv, CacheInv, [BoardNext]_boardVars PROVE CacheInv'
    OBVIOUS
  <1>1. ASSUME NEW c \in Commands, Change(c) PROVE CacheInv'
    <2>1. PICK p \in Projects : Started(c, "write", project, p)
      BY <1>1 DEF Change, TypeInv
    <2>2. QED
      BY <1>1, <2>1, StartedType, CacheIfOnlyRunning DEF TypeInv, Change
  <1>2. ASSUME NEW c \in Commands, NEW p \in Projects, Open(c, p) PROVE CacheInv'
    BY <1>2, StartedType, CacheIfOnlyRunning DEF Open
  <1>3. ASSUME NEW c \in Commands, Refused(c) PROVE CacheInv'
    BY <1>3, AfterErrorType, IdleIsState, CacheIfOnlyRunning DEF Refused
  <1>4. ASSUME NEW c \in Commands, Hit(c) PROVE CacheInv'
    <2>1. cached \in Snapshots /\ Takes(c, cached)
      BY <1>4 DEF TypeInv, Hit
    <2>2. QED
      BY <1>4, <2>1, TakesType, CacheIfOnlyRunning DEF Hit
  <1>5. ASSUME NEW c \in Commands, Deliver(c) PROVE CacheInv'
    <2>1. running'[c].step # "invalidate" /\ \A d \in Commands \ {c} : running'[d] = running[d]
      BY <1>5, IdleIsState DEF TypeInv, Deliver, Ends
    <2>2. QED
      BY <1>5, <2>1, CacheIfOnlyRunning DEF Deliver
  <1>6. ASSUME NEW c \in Commands, Fetch(c) PROVE CacheInv'
    BY <1>6 DEF Fetch, CacheInv
  <1>7. CASE UNCHANGED boardVars
    BY <1>7 DEF CacheInv, boardVars
  <1>8. ASSUME NEW c \in Commands, Answering(c) \/ Locking(c) PROVE CacheInv'
    BY <1>3, <1>4, <1>5, <1>6, <1>8, WriteCache, ReplyLostCache, GetSnapshotCache, FetchedCache,
       FetchFailsCache, InvalidateCache DEF Answering, Locking
  <1>9. QED
    BY <1>1, <1>2, <1>7, <1>8, ElsewhereCache DEF BoardNext

\* The cache never lacks an own write that was reported done: whatever commands write, read and
\* invalidate at the same time, in how many projects, and whatever replies are lost.
THEOREM CacheKeepsUp == BoardSpec => []CacheHasOwnWrites
  <1>1. BoardInit => TypeInv /\ CacheInv
    BY TypesAtFirst, CacheAtFirst
  <1>2. (TypeInv /\ CacheInv) /\ [BoardNext]_boardVars => (TypeInv /\ CacheInv)'
    BY TypesStay, CacheStays
  <1>3. TypeInv /\ CacheInv => CacheHasOwnWrites
    BY DEF TypeInv, CacheInv, CacheHasOwnWrites, Snapshots
  <1>4. QED
    BY <1>1, <1>2, <1>3, PTL DEF BoardSpec

-----------------------------------------------------------------------------
(* What a command reads after its own write.                                 *)

\* No command is under way.
LEMMA WriteAtFirst == BoardInit => WriteInv
  BY IdleIsState DEF BoardInit, WriteInv

\* The part of WriteInv about one command, as it is after a step.
LEMMA WriteOfOne ==
  ASSUME TypeInv, WriteInv, TypeInv', told' = told, NEW c \in Commands,
         \A d \in Commands \ {c} : running'[d] = running[d],
         running'[c].step \in {"idle", "write"} => running'[c].wrote = 0,
         running'[c].step \in {"read", "deliver"} => running'[c].wrote <= told[running'[c].target],
         running'[c].step \notin {"read", "deliver"} => running'[c].got = <<>>,
         \A i \in 1 .. Len(running'[c].got) :
           running'[c].got[i].project = running'[c].target => running'[c].wrote <= running'[c].got[i].rev
  PROVE  WriteInv'
  BY DEF WriteInv

\* A command that has read nothing, written nothing, and neither delivers nor invalidates.
LEMMA WriteOfFresh ==
  ASSUME TypeInv, WriteInv, TypeInv', told' = told, NEW c \in Commands,
         \A d \in Commands \ {c} : running'[d] = running[d],
         running'[c].wrote = 0, running'[c].got = <<>>
  PROVE  WriteInv'
  <1>1. running'[c].target \in Projects /\ told[running'[c].target] \in Nat
    BY DEF TypeInv, States
  <1>2. Len(running'[c].got) = 0
    BY EmptySeq
  <1>3. QED
    BY <1>1, <1>2, WriteOfOne

\* What is read has what was reported, and so the command's own write.
LEMMA WriteIfTakes ==
  ASSUME TypeInv, WriteInv, TypeInv', told' = told, NEW c \in Commands, running[c].step = "read",
         NEW snapshot \in Snapshots, Takes(c, snapshot), told[snapshot.project] <= snapshot.rev
  PROVE  WriteInv'
  <1>1. /\ running'[c].target = running[c].target /\ running'[c].wrote = running[c].wrote
        /\ running'[c].step \in {"read", "deliver"}
        /\ \A d \in Commands \ {c} : running'[d] = running[d]
    BY TakesType
  <1>2. running[c].wrote <= told[running[c].target] /\ running[c].wrote \in Nat
        /\ told[running[c].target] \in Nat
    BY DEF WriteInv, TypeInv, States
  <1>3. ASSUME NEW i \in 1 .. Len(running'[c].got), running'[c].got[i].project = running[c].target
        PROVE  running[c].wrote <= running'[c].got[i].rev
    <2>1. CASE i \in 1 .. Len(running[c].got) /\ running'[c].got[i] = running[c].got[i]
      BY <1>3, <2>1 DEF WriteInv
    <2>2. CASE running'[c].got[i] = snapshot
      BY <1>2, <1>3, <2>2 DEF Snapshots
    <2>3. QED
      BY <2>1, <2>2, TakesGot
  <1>4. QED
    BY <1>1, <1>2, <1>3, WriteOfOne

\* The write that is reported is the command's own, and nothing has been read yet.
LEMMA WriteInvalidate ==
  ASSUME TypeInv, WriteInv, TypeInv', NEW c \in Commands, Invalidate(c)
  PROVE  WriteInv'
  <1>1. running[c].target \in Projects /\ running[c].wrote \in Nat /\ running[c].got = <<>>
    BY DEF TypeInv, States, WriteInv, Invalidate
  <1>2. \A q \in Projects : told[q] <= told'[q] /\ told[q] \in Nat /\ told'[q] \in Nat
    BY <1>1 DEF TypeInv, Invalidate
  <1>3. running[c].wrote <= told'[running[c].target]
    BY <1>1 DEF TypeInv, Invalidate
  <1>4. /\ running'[c].step = "read" /\ running'[c].wrote = running[c].wrote
        /\ running'[c].target = running[c].target /\ running'[c].got = <<>>
        /\ \A d \in Commands \ {c} : running'[d] = running[d]
    BY <1>1 DEF TypeInv, States, Invalidate, Goes
  <1>5. Len(<<>>) = 0
    BY EmptySeq
  <1>6. \A d \in Commands : running[d].wrote \in Nat /\ running[d].target \in Projects
    BY DEF TypeInv, States
  <1>7. \A d \in Commands \ {c} :
          running[d].step \in {"read", "deliver"} => running[d].wrote <= told'[running[d].target]
    BY <1>2, <1>6 DEF WriteInv
  <1>8. \A i \in 1 .. Len(running'[c].got) : FALSE
    BY <1>4, <1>5
  <1>9. QED
    BY <1>3, <1>4, <1>7, <1>8 DEF WriteInv

\* A write that is done is not reported before Invalidate.
LEMMA WriteWrite ==
  ASSUME TypeInv, WriteInv, TypeInv', NEW c \in Commands, Write(c)
  PROVE  WriteInv'
  <1>1. /\ running'[c].step = "invalidate" /\ running'[c].got = running[c].got
        /\ \A d \in Commands \ {c} : running'[d] = running[d]
    BY DEF TypeInv, States, Write
  <1>2. running[c].got = <<>> /\ Len(<<>>) = 0
    BY EmptySeq DEF WriteInv, Write
  <1>3. told' = told
    BY DEF Write
  <1>4. QED
    BY <1>1, <1>2, <1>3, WriteOfOne

\* Without a write that was reported there is nothing to be older than.
LEMMA WriteAfterError ==
  ASSUME TypeInv, WriteInv, TypeInv', NEW c \in Commands, Refused(c) \/ ReplyLost(c)
  PROVE  WriteInv'
  <1>1. AfterError(c) /\ told' = told /\ running[c].step = "write"
    BY DEF Refused, ReplyLost
  <1>2. running[c].got = <<>> /\ running[c].wrote = 0 /\ running[c] \in States
    BY <1>1 DEF TypeInv, WriteInv
  <1>3. running'[c].wrote = 0 /\ running'[c].got = <<>> /\ \A d \in Commands \ {c} : running'[d] = running[d]
    BY <1>1, <1>2, AfterErrorType, IdleIsState DEF States
  <1>4. QED
    BY <1>1, <1>3, WriteOfFresh

\* A fetch is a command's own: who holds the lock reads.
LockInv == mu # Nothing => running[mu].step = "read"

\* Nobody has the lock.
LEMMA LockAtFirst == BoardInit => LockInv
  BY DEF BoardInit, LockInv

\* Only Fetched and FetchFails, which let go of the lock, and nobody else, move the holder on.
LEMMA LockStays == TypeInv /\ LockInv /\ [BoardNext]_boardVars => LockInv'
  <1> SUFFICES ASSUME TypeInv, LockInv, [BoardNext]_boardVars PROVE LockInv'
    OBVIOUS
  <1>1. ASSUME NEW c \in Commands, UNCHANGED mu, mu = Nothing \/ running[c].step # "read",
               \A d \in Commands \ {c} : running'[d] = running[d]
        PROVE  LockInv'
    BY <1>1 DEF TypeInv, LockInv
  <1>2. ASSUME NEW c \in Commands, Write(c) \/ Deliver(c) \/ Invalidate(c) PROVE LockInv'
    <2>1. /\ UNCHANGED mu /\ running[c].step # "read" /\ \A d \in Commands \ {c} : running'[d] = running[d]
      BY <1>2 DEF TypeInv, Write, Deliver, Ends, Invalidate, Goes
    <2>2. QED
      BY <1>1, <2>1
  <1>3. ASSUME NEW c \in Commands, Refused(c) \/ ReplyLost(c) PROVE LockInv'
    <2>1. /\ UNCHANGED mu /\ running[c].step # "read" /\ \A d \in Commands \ {c} : running'[d] = running[d]
      BY <1>3, AfterErrorType DEF Refused, ReplyLost
    <2>2. QED
      BY <1>1, <2>1
  <1>4. ASSUME NEW c \in Commands, Hit(c) PROVE LockInv'
    BY <1>4 DEF Hit, LockInv
  <1>5. ASSUME NEW c \in Commands, Fetch(c) PROVE LockInv'
    BY <1>5 DEF Fetch, LockInv
  <1>6. ASSUME NEW c \in Commands, Fetched(c) \/ FetchFails(c) PROVE LockInv'
    BY <1>6 DEF Fetched, FetchFails, LockInv
  <1>7. CASE GetSnapshot
    BY <1>7 DEF GetSnapshot, LockInv
  <1>8. ASSUME NEW c \in Commands, Change(c) PROVE LockInv'
    <2>1. /\ UNCHANGED mu /\ running[c].step # "read" /\ \A d \in Commands \ {c} : running'[d] = running[d]
      BY <1>8, IdleIsState DEF TypeInv, Change, Started
    <2>2. QED
      BY <1>1, <2>1
  <1>9. ASSUME NEW c \in Commands, NEW p \in Projects, Open(c, p) PROVE LockInv'
    <2>1. /\ UNCHANGED mu /\ running[c].step # "read" /\ \A d \in Commands \ {c} : running'[d] = running[d]
      BY <1>9, IdleIsState DEF TypeInv, Open, Started
    <2>2. QED
      BY <1>1, <2>1
  <1>10. ASSUME NEW p \in Projects, Elsewhere(p) PROVE LockInv'
    BY <1>10 DEF Elsewhere, LockInv
  <1>11. CASE UNCHANGED boardVars
    BY <1>11 DEF LockInv, boardVars
  <1>12. QED
    BY <1>2, <1>3, <1>4, <1>5, <1>6, <1>7, <1>8, <1>9, <1>10, <1>11 DEF BoardNext, Answering, Locking

\* What is read while the lock is held, and what is cached, is not older than what was
\* reported.
LEMMA WriteStays ==
  ASSUME TypeInv, LockInv, CacheInv, WriteInv, [BoardNext]_boardVars
  PROVE  WriteInv'
  <1>0. TypeInv'
    BY TypesStay
  <1>1. ASSUME NEW c \in Commands, Change(c) PROVE WriteInv'
    <2>1. PICK p \in Projects : Started(c, "write", project, p)
      BY <1>1 DEF Change, TypeInv
    <2>2. told' = told
      BY <1>1 DEF Change
    <2>3. QED
      BY <1>0, <2>1, <2>2, StartedType, WriteOfFresh DEF TypeInv
  <1>2. ASSUME NEW c \in Commands, NEW p \in Projects, Open(c, p) PROVE WriteInv'
    BY <1>0, <1>2, StartedType, WriteOfFresh DEF Open
  <1>3. ASSUME NEW c \in Commands, Hit(c) PROVE WriteInv'
    <2>1. cached \in Snapshots /\ Takes(c, cached) /\ told' = told /\ running[c].step = "read"
      BY <1>3 DEF TypeInv, Hit
    <2>2. told[cached.project] <= cached.rev
      BY <1>3 DEF Hit, CacheInv
    <2>3. QED
      BY <1>0, <2>1, <2>2, WriteIfTakes
  <1>4. ASSUME NEW c \in Commands, Fetched(c) PROVE WriteInv'
    <2>1. answer \in Snapshots /\ Takes(c, answer) /\ told' = told
      BY <1>4 DEF TypeInv, Fetched
    <2>2. told[answer.project] <= answer.rev
      BY <1>4 DEF Fetched, CacheInv
    <2>3. running[c].step = "read"
      BY <1>4, BoardAssumption DEF Fetched, LockInv
    <2>4. QED
      BY <1>0, <2>1, <2>2, <2>3, WriteIfTakes
  <1>5. ASSUME NEW c \in Commands, FetchFails(c) \/ Deliver(c) PROVE WriteInv'
    <2>1. running'[c] = Idle /\ told' = told /\ \A d \in Commands \ {c} : running'[d] = running[d]
      BY <1>5 DEF TypeInv, FetchFails, Deliver, Ends
    <2>2. QED
      BY <1>0, <2>1, IdleIsState, WriteOfFresh
  <1>6. ASSUME NEW c \in Commands, Fetch(c) PROVE WriteInv'
    BY <1>6 DEF Fetch, WriteInv
  <1>7. CASE GetSnapshot
    BY <1>7 DEF GetSnapshot, WriteInv
  <1>8. ASSUME NEW p \in Projects, Elsewhere(p) PROVE WriteInv'
    BY <1>8 DEF Elsewhere, WriteInv
  <1>9. CASE UNCHANGED boardVars
    BY <1>9 DEF WriteInv, boardVars
  <1>10. ASSUME NEW c \in Commands, Answering(c) \/ Locking(c) PROVE WriteInv'
    BY <1>0, <1>3, <1>4, <1>5, <1>6, <1>7, <1>10, WriteWrite, WriteAfterError, WriteInvalidate
    DEF Answering, Locking
  <1>11. QED
    BY <1>1, <1>2, <1>8, <1>9, <1>10 DEF BoardNext

\* What a command hands over after its own write is not from before it, whatever other commands
\* fetch, invalidate and hand over in between.
THEOREM RefreshesAreFresh == BoardSpec => []RefreshShowsTheWrite
  <1> DEFINE Inv == TypeInv /\ LockInv /\ CacheInv /\ WriteInv
  <1>1. BoardInit => Inv
    BY TypesAtFirst, LockAtFirst, CacheAtFirst, WriteAtFirst
  <1>2. Inv /\ [BoardNext]_boardVars => Inv'
    BY TypesStay, LockStays, CacheStays, WriteStays
  <1>3. Inv => RefreshShowsTheWrite
    BY DEF TypeInv, WriteInv, RefreshShowsTheWrite
  <1>4. QED
    BY <1>1, <1>2, <1>3, PTL DEF BoardSpec

-----------------------------------------------------------------------------
(* The order in which a command reads.                                       *)

\* What was read, is kept or is on its way was committed, and what is kept or on its way is not
\* older than what anyone has read: the lock is held from the question to the answer, and
\* nobody reads meanwhile.
ForwardInv ==
  /\ \A c \in Commands : \A i \in 1 .. Len(running[c].got) : LET s == running[c].got[i] IN
       /\ s.rev <= rev[s.project]
       /\ cached # Nothing /\ cached.project = s.project => s.rev <= cached.rev
       /\ answer # Nothing /\ answer.project = s.project => s.rev <= answer.rev
  /\ cached # Nothing => cached.rev <= rev[cached.project]
  /\ answer # Nothing => answer.rev <= rev[answer.project]
  /\ LoadsGoForward

\* What a command has read are snapshots.
LEMMA GotAreSnapshots ==
  ASSUME TypeInv, NEW c \in Commands
  PROVE  /\ running[c].got \in Seq(Snapshots) /\ Len(running[c].got) \in Nat
         /\ DOMAIN running[c].got = 1 .. Len(running[c].got)
         /\ \A i \in 1 .. Len(running[c].got) :
              /\ running[c].got[i] \in Snapshots
              /\ running[c].got[i].rev \in Nat /\ running[c].got[i].project \in Projects
<1>1. running[c].got \in Seq(Snapshots)
  BY DEF TypeInv, States
<1>2. \A i \in 1 .. Len(running[c].got) : running[c].got[i] \in Snapshots
  BY <1>1, ElementOfSeq
<1> QED
  BY <1>1, <1>2, LenProperties DEF Snapshots

\* Nothing goes back in a step that reads nothing.
LEMMA ForwardIfKept ==
  ASSUME TypeInv, TypeInv', ForwardInv,
         \A p \in Projects : rev[p] <= rev'[p],
         cached' \in {cached, Nothing}, answer' \in {answer, Nothing},
         \A c \in Commands : running'[c].got \in {running[c].got, <<>>}
  PROVE  ForwardInv'
<1>1. \A p \in Projects : rev[p] \in Nat /\ rev'[p] \in Nat
  BY DEF TypeInv
<1>2. ASSUME NEW c \in Commands, NEW i \in 1 .. Len(running'[c].got)
      PROVE  /\ i \in 1 .. Len(running[c].got) /\ running'[c].got = running[c].got
             /\ running[c].got[i].rev \in Nat /\ running[c].got[i].project \in Projects
  <2>1. running'[c].got # <<>>
    BY EmptySeq
  <2> QED
    BY <2>1, GotAreSnapshots
<1>3. ASSUME NEW s \in Snapshots, s.rev <= rev[s.project] PROVE s.rev <= rev'[s.project]
  <2>1. s.rev \in Nat /\ s.project \in Projects
    BY DEF Snapshots
  <2> QED
    BY <1>1, <1>3, <2>1
<1>4. \A c \in Commands : \A i \in 1 .. Len(running'[c].got) : LET s == running'[c].got[i] IN
        /\ s.rev <= rev'[s.project]
        /\ cached' # Nothing /\ cached'.project = s.project => s.rev <= cached'.rev
        /\ answer' # Nothing /\ answer'.project = s.project => s.rev <= answer'.rev
  BY <1>2, <1>3, GotAreSnapshots DEF ForwardInv
<1>5. cached' # Nothing => cached'.rev <= rev'[cached'.project]
  BY <1>3 DEF ForwardInv, TypeInv
<1>6. answer' # Nothing => answer'.rev <= rev'[answer'.project]
  BY <1>3 DEF ForwardInv, TypeInv
<1>7. LoadsGoForward'
  <2> SUFFICES ASSUME NEW c \in Commands, NEW i \in DOMAIN running'[c].got, NEW j \in DOMAIN running'[c].got,
                      i < j, running'[c].got[i].project = running'[c].got[j].project
               PROVE  running'[c].got[i].rev <= running'[c].got[j].rev
    BY DEF LoadsGoForward
  <2>1. running'[c].got \in Seq(Snapshots)
    BY DEF TypeInv, States
  <2>2. i \in 1 .. Len(running'[c].got)
    BY <2>1
  <2> QED
    BY <1>2, <2>2 DEF ForwardInv, LoadsGoForward
<1> QED
  BY <1>4, <1>5, <1>6, <1>7 DEF ForwardInv

\* What is read is kept from then on, and is the newest that anyone has.
LEMMA ForwardIfTakes ==
  ASSUME TypeInv, TypeInv', ForwardInv, NEW c \in Commands, NEW snapshot \in Snapshots,
         Takes(c, snapshot), cached' = snapshot, answer' = Nothing, rev' = rev,
         snapshot.rev <= rev[snapshot.project],
         \A d \in Commands : \A i \in 1 .. Len(running[d].got) :
           snapshot.project = running[d].got[i].project => running[d].got[i].rev <= snapshot.rev
  PROVE  ForwardInv'
<1>1. /\ running'[c].got = Append(running[c].got, snapshot)
      /\ \A d \in Commands \ {c} : running'[d] = running[d]
  BY TakesType
<1>2. running[c].got \in Seq(Snapshots) /\ Len(running[c].got) \in Nat
  BY GotAreSnapshots
<1>3. snapshot.rev \in Nat
  BY DEF Snapshots
<1>4. ASSUME NEW d \in Commands, NEW i \in 1 .. Len(running'[d].got)
      PROVE  \/ running'[d].got[i] = snapshot
             \/ i \in 1 .. Len(running[d].got) /\ running'[d].got[i] = running[d].got[i]
  BY <1>1, <1>4, TakesGot
<1>5. \A d \in Commands : \A i \in 1 .. Len(running'[d].got) : LET s == running'[d].got[i] IN
        /\ s.rev <= rev[s.project]
        /\ snapshot.project = s.project => s.rev <= snapshot.rev
  BY <1>3, <1>4 DEF ForwardInv
<1>6. LoadsGoForward'
  <2> SUFFICES ASSUME NEW d \in Commands, NEW i \in DOMAIN running'[d].got, NEW j \in DOMAIN running'[d].got,
                      i < j, running'[d].got[i].project = running'[d].got[j].project
               PROVE  running'[d].got[i].rev <= running'[d].got[j].rev
    BY DEF LoadsGoForward
  <2>1. CASE d # c
    BY <1>1, <2>1 DEF ForwardInv, LoadsGoForward
  <2>2. CASE d = c
    <3>1. /\ Len(running'[c].got) = Len(running[c].got) + 1
          /\ running'[c].got[Len(running[c].got) + 1] = snapshot
          /\ \A k \in 1 .. Len(running[c].got) : running'[c].got[k] = running[c].got[k]
          /\ DOMAIN running'[c].got = 1 .. Len(running'[c].got)
      BY <1>1, <1>2, AppendProperties
    <3>2. i \in 1 .. Len(running'[c].got) /\ j \in 1 .. Len(running'[c].got)
      BY <2>2, <3>1
    <3>3. CASE j = Len(running[c].got) + 1
      BY <1>5, <2>2, <3>1, <3>2, <3>3
    <3>4. CASE j \in 1 .. Len(running[c].got)
      <4>1. i \in 1 .. Len(running[c].got)
        BY <1>2, <3>2, <3>4
      <4>2. i \in DOMAIN running[c].got /\ j \in DOMAIN running[c].got
        BY <1>2, <3>4, <4>1
      <4>3. running'[c].got[i] = running[c].got[i] /\ running'[c].got[j] = running[c].got[j]
        BY <3>1, <3>4, <4>1
      <4> QED
        BY <2>2, <4>2, <4>3 DEF ForwardInv, LoadsGoForward
    <3> QED
      BY <1>2, <3>1, <3>2, <3>3, <3>4
  <2> QED
    BY <2>1, <2>2
<1> QED
  BY <1>5, <1>6 DEF ForwardInv

\* An error takes nothing from what was read, or all of it.
LEMMA GotAfterError ==
  ASSUME TypeInv, NEW c \in Commands, AfterError(c)
  PROVE  \A d \in Commands : running'[d].got \in {running[d].got, <<>>}
<1>1. running[c] \in States
  BY DEF TypeInv
<1>2. running'[c].got \in {running[c].got, <<>>}
  <2>1. CASE running'[c] = Idle
    BY <2>1, IdleIsState
  <2>2. CASE running'[c] = [running[c] EXCEPT !.step = "read"]
    BY <1>1, <2>2 DEF States
  <2> QED
    BY <2>1, <2>2, AfterErrorType
<1> QED
  BY <1>2, AfterErrorType

\* Nothing has been read.
LEMMA ForwardAtFirst == BoardInit => ForwardInv
<1> SUFFICES ASSUME BoardInit PROVE ForwardInv
  OBVIOUS
<1>1. \A c \in Commands : running[c] = Idle /\ DOMAIN running[c].got = {} /\ Len(running[c].got) = 0
  BY IdleIsState, EmptySeq DEF BoardInit
<1> QED
  BY <1>1 DEF BoardInit, ForwardInv, LoadsGoForward

\* What is read next is cached or fetched later than what was read before it.
LEMMA ForwardStays ==
  ASSUME TypeInv, ForwardInv, [BoardNext]_boardVars
  PROVE  ForwardInv'
<1>0. TypeInv'
  BY TypesStay
<1>1. ASSUME NEW c \in Commands, NEW step \in {"read", "write"}, NEW p \in Projects, NEW target \in Projects,
             Started(c, step, p, target), UNCHANGED <<rev, cached, answer>>
      PROVE  ForwardInv'
  <2>1. \A d \in Commands : running'[d].got \in {running[d].got, <<>>}
    BY <1>1, StartedType
  <2>2. \A q \in Projects : rev[q] <= rev'[q]
    BY <1>1 DEF TypeInv
  <2> QED
    BY <1>0, <1>1, <2>1, <2>2, ForwardIfKept
<1>2. ASSUME NEW c \in Commands, Change(c) PROVE ForwardInv'
  <2>1. PICK p \in Projects : Started(c, "write", project, p)
    BY <1>2 DEF Change, TypeInv
  <2> QED
    BY <1>1, <1>2, <2>1 DEF Change, TypeInv
<1>3. ASSUME NEW c \in Commands, NEW p \in Projects, Open(c, p) PROVE ForwardInv'
  BY <1>1, <1>3 DEF Open
<1>4. ASSUME NEW p \in Projects, Elsewhere(p) PROVE ForwardInv'
  <2>1. \A q \in Projects : rev[q] <= rev'[q]
    BY <1>4 DEF TypeInv, Elsewhere
  <2> QED
    BY <1>0, <1>4, <2>1, ForwardIfKept DEF Elsewhere
<1>5. ASSUME NEW c \in Commands, Write(c) \/ ReplyLost(c) PROVE ForwardInv'
  <2>1. \A q \in Projects : rev[q] <= rev'[q]
    <3>1. running[c].target \in Projects /\ rev' = [rev EXCEPT ![running[c].target] = @ + 1]
      BY <1>5 DEF TypeInv, Write, ReplyLost, States
    <3> QED
      BY <3>1 DEF TypeInv
  <2>2. \A d \in Commands : running'[d].got \in {running[d].got, <<>>}
    <3>1. CASE Write(c)
      BY <3>1 DEF TypeInv, States, Write
    <3>2. CASE ReplyLost(c)
      BY <3>2, GotAfterError DEF ReplyLost
    <3> QED
      BY <1>5, <3>1, <3>2
  <2> QED
    BY <1>0, <1>5, <2>1, <2>2, ForwardIfKept DEF Write, ReplyLost
<1>6. ASSUME NEW c \in Commands, Refused(c) \/ Invalidate(c) \/ FetchFails(c) \/ Deliver(c) PROVE ForwardInv'
  <2>1. \A q \in Projects : rev[q] <= rev'[q]
    <3>1. rev' = rev
      BY <1>6 DEF Refused, Invalidate, FetchFails, Deliver
    <3> QED
      BY <3>1 DEF TypeInv
  <2>2. \A d \in Commands : running'[d].got \in {running[d].got, <<>>}
    <3>1. CASE Refused(c)
      BY <3>1, GotAfterError DEF Refused
    <3>2. CASE Invalidate(c)
      BY <3>2 DEF TypeInv, States, Invalidate, Goes
    <3>3. CASE FetchFails(c) \/ Deliver(c)
      BY <3>3, IdleIsState DEF TypeInv, FetchFails, Deliver, Ends
    <3> QED
      BY <1>6, <3>1, <3>2, <3>3
  <2> QED
    BY <1>0, <1>6, <2>1, <2>2, ForwardIfKept DEF Refused, Invalidate, FetchFails, Deliver
<1>7. ASSUME NEW c \in Commands, Hit(c) PROVE ForwardInv'
  <2>1. /\ cached \in Snapshots /\ cached # Nothing /\ Takes(c, cached) /\ cached' = cached
        /\ answer' = Nothing /\ rev' = rev
    BY <1>7 DEF TypeInv, Hit
  <2> QED
    BY <1>0, <2>1, ForwardIfTakes DEF ForwardInv
<1>8. ASSUME NEW c \in Commands, Fetched(c) PROVE ForwardInv'
  <2>1. /\ answer \in Snapshots /\ answer # Nothing /\ Takes(c, answer) /\ cached' = answer
        /\ answer' = Nothing /\ rev' = rev
    BY <1>8 DEF TypeInv, Fetched
  <2> QED
    BY <1>0, <2>1, ForwardIfTakes DEF ForwardInv
<1>9. CASE GetSnapshot
  <2>1. /\ answer'.project = running[mu].project /\ answer'.rev = rev[running[mu].project]
        /\ running[mu].project \in Projects /\ rev' = rev /\ running' = running /\ cached' = cached
    BY <1>9 DEF GetSnapshot, TypeInv, States
  <2> QED
    BY <2>1 DEF ForwardInv, LoadsGoForward, TypeInv
<1>10. ASSUME NEW c \in Commands, Fetch(c) PROVE ForwardInv'
  BY <1>10 DEF Fetch, ForwardInv, LoadsGoForward
<1>11. CASE UNCHANGED boardVars
  BY <1>11 DEF ForwardInv, LoadsGoForward, boardVars
<1> QED
  BY <1>2, <1>3, <1>4, <1>5, <1>6, <1>7, <1>8, <1>9, <1>10, <1>11 DEF BoardNext, Answering, Locking

-----------------------------------------------------------------------------
(* The key u and the cascades of the terminal client.                        *)

\* A sequence of all elements of a finite set.
LEMMA SetInSequence ==
  ASSUME NEW S, IsFiniteSet(S)
  PROVE  /\ KeyU!SetToSeq(S) \in Seq(S) /\ Len(KeyU!SetToSeq(S)) = Cardinality(S)
         /\ Cardinality(S) \in Nat
         /\ \A x \in S : \E i \in 1 .. Cardinality(S) : KeyU!SetToSeq(S)[i] = x
<1> DEFINE n == Cardinality(S)
           f == KeyU!SetToSeq(S)
<1>1. n \in Nat /\ ExistsBijection(1 .. n, S)
  BY FS_CardinalityType
<1>2. PICK g \in Bijection(1 .. n, S) : TRUE
  BY <1>1 DEF ExistsBijection
<1>3. g \in [1 .. n -> S] /\ KeyU!IsInjective(g)
  BY <1>2 DEF Bijection, Injection, IsInjective, KeyU!IsInjective
<1>0. KeyU!Cardinality(S) = Cardinality(S)
  BY DEF KeyU!Cardinality, Cardinality
<1>4. f \in [1 .. n -> S] /\ KeyU!IsInjective(f)
  BY <1>0, <1>3 DEF KeyU!SetToSeq
<1>5. f \in Injection(1 .. n, S)
  BY <1>4 DEF Injection, IsInjective, KeyU!IsInjective
<1>6. f \in Surjection(1 .. n, S)
  <2>1. Cardinality(1 .. n) = n
    BY <1>1, FS_Interval
  <2> QED
    BY <1>5, <2>1, FS_Injection
<1>7. f \in Seq(S) /\ Len(f) = n
  BY <1>1, <1>4
<1> QED
  BY <1>1, <1>6, <1>7 DEF Surjection

Values == KeyU!Settable \cup {KeyU!Gone}
Changes == [id : KeyU!Nodes, to : Values]
Plans == [requests : Seq(Changes), refresh : BOOLEAN, stops : BOOLEAN, closes : SUBSET KeyU!StepIds]

\* What a command of a cascade has yet to do: its steps, then the subject, all of them to be
\* done; other commands make one change, and none but a cascade closes a step.
Planned(r) ==
  /\ Len(r.requests) <= Cardinality(KeyU!StepIds) + 1
  /\ r # KeyU!Idle => r.refresh
  /\ ~r.stops => Len(r.requests) <= 1 /\ r.closes = {}
  /\ \A i \in 1 .. Len(r.requests) :
       /\ r.stops /\ i < Len(r.requests) => r.requests[i].id \in KeyU!StepIds
       /\ r.requests[i].id \in KeyU!StepIds => r.requests[i].to \in {"DONE", KeyU!Gone}

\* Types of what the key u works with.
KeyInv ==
  /\ status \in [KeyU!Nodes -> Values] /\ listed \in [KeyU!Nodes -> Values]
  /\ before \subseteq [KeyU!Nodes -> Values]
  /\ lastStatus = None \/ lastStatus \in [id : Tasks, to : KeyU!Settable]
  /\ requested \in [Commands -> Plans]
  /\ \A c \in Commands : Planned(requested[c])

\* A step that a cascade closes is closed, or still to be closed before the subject is.
ClosesInv ==
  \A c \in Commands : LET r == requested[c] IN
    \A s \in r.closes :
      \/ status[s] \in {"DONE", KeyU!Gone}
      \/ \E i \in 1 .. Len(r.requests) : i < Len(r.requests) /\ r.requests[i].id = s

\* Nodes and steps.
LEMMA KeyIds ==
  /\ KeyU!Nodes = Tasks \cup KeyU!StepIds /\ Tasks \cap KeyU!StepIds = {}
  /\ IsFiniteSet(KeyU!StepIds) /\ None \notin [id : Tasks, to : KeyU!Settable]
  /\ KeyU!Gone \notin KeyU!Settable /\ "DONE" \in KeyU!Settable
  BY ScreensAssumption DEF KeyU!Nodes, KeyU!StepIds, KeyU!Settable, KeyU!Gone

\* A plan with nothing left to do.
LEMMA IdlePlan ==
  /\ KeyU!Idle \in Plans /\ Planned(KeyU!Idle)
  /\ KeyU!Idle.requests = <<>> /\ ~KeyU!Idle.refresh /\ KeyU!Idle.closes = {}
<1>1. <<>> \in Seq(Changes) /\ Len(<<>>) = 0
  BY EmptySeq
<1>2. Cardinality(KeyU!StepIds) \in Nat
  BY KeyIds, FS_CardinalityType
<1> QED
  BY <1>1, <1>2 DEF KeyU!Idle, Plans, Planned

\* A change of one node.
LEMMA OnlyPlan ==
  ASSUME NEW n \in KeyU!Nodes, NEW to \in Values, n \in KeyU!StepIds => to = KeyU!Gone
  PROVE  /\ KeyU!Only(n, to) \in Plans /\ Planned(KeyU!Only(n, to))
         /\ KeyU!Only(n, to).requests = <<KeyU!Request(n, to)>>
         /\ KeyU!Only(n, to).closes = {} /\ ~KeyU!Only(n, to).stops
         /\ KeyU!Only(n, to) # KeyU!Idle
<1> DEFINE e == KeyU!Request(n, to)
<1>1. e \in Changes /\ e.id = n /\ e.to = to
  BY DEF KeyU!Request, Changes
<1> HIDE DEF e
<1>2. <<e>> \in Seq(Changes) /\ Len(<<e>>) = 1 /\ <<e>>[1] = e
  BY <1>1
<1>3. /\ KeyU!Only(n, to).requests = <<e>> /\ KeyU!Only(n, to).refresh = TRUE
      /\ KeyU!Only(n, to).stops = FALSE /\ KeyU!Only(n, to).closes = {}
      /\ KeyU!Only(n, to) \in Plans
  <2>2. KeyU!Only(n, to) = [KeyU!Idle EXCEPT !.requests = <<e>>, !.refresh = TRUE]
    BY DEF KeyU!Only, e
  <2>3. KeyU!Idle \in Plans /\ KeyU!Idle.stops = FALSE /\ KeyU!Idle.closes = {}
    BY IdlePlan DEF KeyU!Idle
  <2> DEFINE q == <<e>>
             new == KeyU!Only(n, to)
  <2>4. q \in Seq(Changes) /\ new = [KeyU!Idle EXCEPT !.requests = q, !.refresh = TRUE]
    BY <1>2, <2>2
  <2> HIDE DEF q, new
  <2>5. /\ new \in Plans /\ new.requests = q /\ new.refresh = TRUE
        /\ new.stops = FALSE /\ new.closes = {}
    BY <2>3, <2>4 DEF Plans
  <2> QED
    BY <2>5 DEF q, new
<1>4. Cardinality(KeyU!StepIds) \in Nat
  BY KeyIds, FS_CardinalityType
<1>6. Planned(KeyU!Only(n, to))
  BY <1>1, <1>2, <1>3, <1>4 DEF Planned
<1>7. KeyU!Only(n, to) # KeyU!Idle
  BY <1>3, IdlePlan
<1> QED
  BY <1>3, <1>6, <1>7 DEF e

\* The requests of a cascade: every step that is to be closed, before the subject.
LEMMA ClosingPlan ==
  ASSUME NEW n \in Tasks, NEW S \in SUBSET KeyU!StepIds
  PROVE  LET requests == KeyU!Closing(n, S) IN
         /\ requests \in Seq(Changes) /\ Len(requests) = Cardinality(S) + 1
         /\ Cardinality(S) \in Nat /\ Cardinality(S) <= Cardinality(KeyU!StepIds)
         /\ requests[Cardinality(S) + 1] = KeyU!Request(n, "DONE")
         /\ \A i \in 1 .. Cardinality(S) :
              requests[i].id \in S /\ requests[i].to = "DONE"
         /\ \A s \in S : \E i \in 1 .. Cardinality(S) : requests[i].id = s
<1> DEFINE k == Cardinality(S)
           f == KeyU!SetToSeq(S)
           a == Append(f, n)
           requests == KeyU!Closing(n, S)
<1>1. IsFiniteSet(S) /\ k <= Cardinality(KeyU!StepIds)
  BY KeyIds, FS_Subset
<1>2. f \in Seq(S) /\ Len(f) = k /\ k \in Nat /\ \A x \in S : \E i \in 1 .. k : f[i] = x
  BY <1>1, SetInSequence
<1> HIDE DEF f, k
<1>3. f \in Seq(KeyU!Nodes) /\ n \in KeyU!Nodes
  BY <1>2, KeyIds
<1>4. /\ a \in Seq(KeyU!Nodes) /\ Len(a) = k + 1 /\ a[k + 1] = n
      /\ \A i \in 1 .. k : a[i] = f[i] /\ f[i] \in S
  BY <1>2, <1>3, AppendProperties, ElementOfSeq
<1>5. requests = [i \in DOMAIN a |-> KeyU!Request(a[i], "DONE")]
  BY DEF KeyU!Closing, KeyU!Marking, f
<1> HIDE DEF a, requests
<1>6. DOMAIN a = 1 .. (k + 1) /\ \A i \in 1 .. (k + 1) : a[i] \in KeyU!Nodes
  BY <1>4, LenProperties, ElementOfSeq
<1>7. \A i \in 1 .. (k + 1) : /\ requests[i] = KeyU!Request(a[i], "DONE")
                              /\ requests[i] \in Changes /\ requests[i].id = a[i]
                              /\ requests[i].to = "DONE"
  BY <1>5, <1>6, KeyIds DEF KeyU!Request, Changes, Values
<1>8. requests \in [1 .. (k + 1) -> Changes]
  BY <1>5, <1>6, <1>7
<1>9. requests \in Seq(Changes) /\ Len(requests) = k + 1
  BY <1>2, <1>8
<1>10. \A i \in 1 .. k : i \in 1 .. (k + 1)
  BY <1>2
<1>11. k + 1 \in 1 .. (k + 1)
  BY <1>2
<1>12. /\ requests[k + 1] = KeyU!Request(n, "DONE")
       /\ \A i \in 1 .. k : requests[i].id \in S /\ requests[i].to = "DONE"
       /\ \A s \in S : \E i \in 1 .. k : requests[i].id = s
  <2>1. requests[k + 1] = KeyU!Request(n, "DONE")
    BY <1>4, <1>7, <1>11
  <2>2. \A i \in 1 .. k : requests[i].id = f[i] /\ f[i] \in S /\ requests[i].to = "DONE"
    BY <1>4, <1>7, <1>10
  <2> QED
    BY <1>2, <2>1, <2>2
<1> QED
  BY <1>1, <1>2, <1>9, <1>12 DEF k, requests

\* A request without its first element.
LEMMA NextRequests ==
  ASSUME NEW q \in Seq(Changes), q # <<>>
  PROVE  /\ Head(q) \in Changes /\ Head(q) = q[1] /\ 1 \in 1 .. Len(q)
         /\ Tail(q) \in Seq(Changes) /\ Len(Tail(q)) = Len(q) - 1 /\ Len(q) \in Nat \ {0}
         /\ \A i \in 1 .. Len(Tail(q)) : i + 1 \in 1 .. Len(q) /\ Tail(q)[i] = q[i + 1]
  BY HeadTailProperties

\* A command that starts.
LEMMA StartsPlan ==
  ASSUME KeyInv, NEW c \in Commands, NEW plan \in Plans, Planned(plan), KeyU!Runs(c, plan)
  PROVE  /\ requested' \in [Commands -> Plans] /\ \A d \in Commands : Planned(requested'[d])
         /\ requested[c] = KeyU!Idle /\ requested'[c] = plan
         /\ \A d \in Commands \ {c} : requested'[d] = requested[d]
BY DEF KeyInv, KeyU!Runs

\* A command that has sent its next request, or has passed over it.
LEMMA GoesOnPlan ==
  ASSUME KeyInv, NEW c \in Commands, requested[c].requests # <<>>,
         requested' = [requested EXCEPT ![c].requests = Tail(@)]
  PROVE  /\ requested' \in [Commands -> Plans] /\ \A d \in Commands : Planned(requested'[d])
         /\ requested'[c].requests = Tail(requested[c].requests)
         /\ requested'[c].stops = requested[c].stops /\ requested'[c].closes = requested[c].closes
         /\ requested'[c] # KeyU!Idle
         /\ \A d \in Commands \ {c} : requested'[d] = requested[d]
<1> DEFINE r == requested[c]
           q == r.requests
           new == requested'[c]
<1>1. r \in Plans /\ Planned(r) /\ q # <<>> /\ q \in Seq(Changes)
  BY DEF KeyInv, Plans
<1>2. r # KeyU!Idle /\ r.refresh
  BY <1>1, IdlePlan DEF Planned
<1>3. /\ Tail(q) \in Seq(Changes) /\ Len(Tail(q)) = Len(q) - 1 /\ Len(q) \in Nat \ {0}
      /\ \A i \in 1 .. Len(Tail(q)) : i + 1 \in 1 .. Len(q) /\ Tail(q)[i] = q[i + 1]
  BY <1>1, NextRequests
<1>4. /\ new \in Plans /\ new.requests = Tail(q) /\ new.stops = r.stops /\ new.closes = r.closes
      /\ new.refresh = r.refresh
      /\ requested' \in [Commands -> Plans] /\ \A d \in Commands \ {c} : requested'[d] = requested[d]
  BY <1>1, <1>3 DEF KeyInv, Plans
<1> HIDE DEF r, q, new
<1>5. Cardinality(KeyU!StepIds) \in Nat
  BY KeyIds, FS_CardinalityType
<1>6. Planned(new)
  <2>1. Len(new.requests) <= Cardinality(KeyU!StepIds) + 1
    BY <1>1, <1>3, <1>4, <1>5 DEF Planned, q
  <2>2. ~new.stops => Len(new.requests) <= 1 /\ new.closes = {}
    BY <1>1, <1>3, <1>4 DEF Planned, q
  <2>3. ASSUME NEW i \in 1 .. Len(new.requests)
        PROVE  /\ new.stops /\ i < Len(new.requests) => new.requests[i].id \in KeyU!StepIds
               /\ new.requests[i].id \in KeyU!StepIds => new.requests[i].to \in {"DONE", KeyU!Gone}
    <3>1. i + 1 \in 1 .. Len(q) /\ new.requests[i] = q[i + 1] /\ Len(new.requests) = Len(q) - 1
      BY <1>3, <1>4
    <3>2. i < Len(new.requests) => i + 1 < Len(q)
      <4>1. i \in Int /\ Len(q) \in Int
        BY <1>3
      <4> QED
        BY <3>1, <4>1
    <3> QED
      BY <1>1, <1>4, <3>1, <3>2 DEF Planned, q
  <2> QED
    BY <1>2, <1>4, <2>1, <2>2, <2>3 DEF Planned
<1>7. \A d \in Commands : Planned(requested'[d])
  BY <1>4, <1>6 DEF KeyInv, new
<1>8. new # KeyU!Idle
  BY <1>2, <1>4, IdlePlan
<1> QED
  BY <1>4, <1>7, <1>8 DEF r, q, new

\* A command that ends.
LEMMA EndsPlan ==
  ASSUME KeyInv, NEW c \in Commands, requested' = [requested EXCEPT ![c] = KeyU!Idle]
  PROVE  /\ requested' \in [Commands -> Plans] /\ \A d \in Commands : Planned(requested'[d])
         /\ requested'[c] = KeyU!Idle
         /\ \A d \in Commands \ {c} : requested'[d] = requested[d]
BY IdlePlan DEF KeyInv

\* A request that fails: the cascade is over, and other commands go on.
LEMMA FailsPlan ==
  ASSUME KeyInv, NEW c \in Commands, KeyU!SendFails(c)
  PROVE  /\ requested' \in [Commands -> Plans] /\ \A d \in Commands : Planned(requested'[d])
         /\ \A d \in Commands \ {c} : requested'[d] = requested[d]
         /\ requested[c].requests # <<>> /\ requested'[c].closes \subseteq requested[c].closes
         /\ requested[c].stops => requested'[c] = KeyU!Idle
         /\ ~requested[c].stops => requested'[c] # KeyU!Idle /\ ~requested'[c].stops
<1>1. CASE requested[c].stops
  <2>1. requested' = [requested EXCEPT ![c] = KeyU!Idle] /\ requested[c].requests # <<>>
    BY <1>1 DEF KeyU!SendFails
  <2> QED
    BY <1>1, <2>1, EndsPlan, IdlePlan
<1>2. CASE ~requested[c].stops
  <2>1. requested' = [requested EXCEPT ![c].requests = Tail(@)] /\ requested[c].requests # <<>>
    BY <1>2 DEF KeyU!SendFails, KeyInv
  <2> QED
    BY <1>2, <2>1, GoesOnPlan
<1> QED
  BY <1>1, <1>2

\* What a request does to a task, and to a step.
LEMMA AppliedStatus ==
  ASSUME KeyInv, NEW e \in Changes
  PROVE  /\ KeyU!Applied(e) \in [KeyU!Nodes -> Values]
         /\ \A n \in Tasks : KeyU!Applied(e)[n] = IF n = e.id THEN e.to ELSE status[n]
         /\ \A s \in KeyU!StepIds :
              \/ KeyU!Applied(e)[s] = status[s]
              \/ KeyU!Applied(e)[s] = KeyU!Gone
              \/ e.id = s /\ KeyU!Applied(e)[s] = e.to
         /\ e.id \in KeyU!StepIds => KeyU!Applied(e)[e.id] = e.to
<1>1. e.id \in KeyU!Nodes /\ e.to \in Values /\ KeyU!Gone \in Values
  BY DEF Changes, Values
<1> DEFINE below == {s \in KeyU!StepIds : e.to = KeyU!Gone /\ Owner[s] = e.id}
<1>2. KeyU!Applied(e) = [n \in KeyU!Nodes |-> IF n \in {e.id} \cup below THEN e.to ELSE status[n]]
  BY DEF KeyU!Applied
<1> HIDE DEF below
<1>3. KeyU!Applied(e) \in [KeyU!Nodes -> Values]
  BY <1>1, <1>2 DEF KeyInv
<1>4. \A n \in Tasks : KeyU!Applied(e)[n] = IF n = e.id THEN e.to ELSE status[n]
  BY <1>2, KeyIds DEF below
<1>5. \A s \in KeyU!StepIds :
        \/ KeyU!Applied(e)[s] = status[s]
        \/ KeyU!Applied(e)[s] = KeyU!Gone
        \/ e.id = s /\ KeyU!Applied(e)[s] = e.to
  BY <1>2, KeyIds DEF below
<1>6. e.id \in KeyU!StepIds => KeyU!Applied(e)[e.id] = e.to
  BY <1>1, <1>2
<1> QED
  BY <1>3, <1>4, <1>5, <1>6

\* What a cascade starts with.
LEMMA CascadePlan ==
  ASSUME KeyInv, NEW n \in Tasks, NEW S \in SUBSET KeyU!StepIds
  PROVE  LET plan == [requests |-> KeyU!Closing(n, S), refresh |-> TRUE, stops |-> TRUE, closes |-> S] IN
         /\ plan \in Plans /\ Planned(plan) /\ plan # KeyU!Idle
         /\ \A s \in S : \E i \in 1 .. Len(plan.requests) :
              i < Len(plan.requests) /\ plan.requests[i].id = s
<1> DEFINE k == Cardinality(S)
           q == KeyU!Closing(n, S)
           plan == [requests |-> q, refresh |-> TRUE, stops |-> TRUE, closes |-> S]
<1>1. /\ q \in Seq(Changes) /\ Len(q) = k + 1 /\ k \in Nat /\ k <= Cardinality(KeyU!StepIds)
      /\ q[k + 1] = KeyU!Request(n, "DONE")
      /\ \A i \in 1 .. k : q[i].id \in S /\ q[i].to = "DONE"
      /\ \A s \in S : \E i \in 1 .. k : q[i].id = s
  BY ClosingPlan
<1> HIDE DEF k, q
<1>2. plan \in Plans
  BY <1>1 DEF Plans
<1>3. Cardinality(KeyU!StepIds) \in Nat
  BY KeyIds, FS_CardinalityType
<1>4. q[k + 1].to = "DONE"
  BY <1>1 DEF KeyU!Request
<1>5. \A i \in 1 .. Len(q) : /\ i < Len(q) => i \in 1 .. k
                             /\ i \in 1 .. k \/ i = k + 1
  BY <1>1
<1>6. \A i \in 1 .. Len(q) : /\ i < Len(q) => q[i].id \in KeyU!StepIds
                             /\ q[i].to = "DONE"
  BY <1>1, <1>4, <1>5
<1>7. Len(q) <= Cardinality(KeyU!StepIds) + 1
  BY <1>1, <1>3
<1>8. /\ plan.requests = q /\ plan.refresh /\ plan.stops
  OBVIOUS
<1>9. Planned(plan) /\ plan # KeyU!Idle
  BY <1>6, <1>7, <1>8, IdlePlan DEF Planned
<1>10. \A s \in S : \E i \in 1 .. Len(q) : i < Len(q) /\ q[i].id = s
  <2> SUFFICES ASSUME NEW s \in S PROVE \E i \in 1 .. Len(q) : i < Len(q) /\ q[i].id = s
    OBVIOUS
  <2>1. PICK i \in 1 .. k : q[i].id = s
    BY <1>1
  <2> QED
    BY <1>1, <2>1
<1> QED
  BY <1>2, <1>8, <1>9, <1>10 DEF q

\* Nothing is planned.
LEMMA KeyAtFirst == KeyU!UndoInit => KeyInv /\ ClosesInv
<1> SUFFICES ASSUME KeyU!UndoInit PROVE KeyInv /\ ClosesInv
  OBVIOUS
<1>1. "OPEN" \in Values
  BY DEF Values, KeyU!Settable
<1>2. \A c \in Commands : requested[c] = KeyU!Idle
  BY DEF KeyU!UndoInit
<1>3. KeyInv
  BY <1>1, <1>2, IdlePlan DEF KeyU!UndoInit, KeyInv
<1>4. ClosesInv
  BY <1>2, IdlePlan DEF ClosesInv
<1> QED
  BY <1>3, <1>4

\* A cascade's part in ClosesInv stays when no step is opened again, for a command that does not
\* take a request back.
LEMMA ClosesOfOthers ==
  ASSUME KeyInv, ClosesInv, NEW c \in Commands,
         requested'[c] = requested[c] \/ requested'[c].closes = {},
         \A s \in KeyU!StepIds :
           status[s] \in {"DONE", KeyU!Gone} => status'[s] \in {"DONE", KeyU!Gone}
  PROVE  \A s \in requested'[c].closes :
           \/ status'[s] \in {"DONE", KeyU!Gone}
           \/ \E i \in 1 .. Len(requested'[c].requests) :
                i < Len(requested'[c].requests) /\ requested'[c].requests[i].id = s
<1>1. requested[c].closes \subseteq KeyU!StepIds
  BY DEF KeyInv, Plans
<1> QED
  BY <1>1 DEF ClosesInv

\* A change of a task or a deletion begins, by one command.
LEMMA KeyStarts ==
  ASSUME KeyInv, ClosesInv, NEW c \in Commands, NEW plan \in Plans, Planned(plan), KeyU!Runs(c, plan),
         \A s \in plan.closes : \E i \in 1 .. Len(plan.requests) :
           i < Len(plan.requests) /\ plan.requests[i].id = s,
         UNCHANGED <<status, listed>>, before' \in SUBSET {status} \/ before' \subseteq before,
         lastStatus' = None \/ lastStatus' \in [id : Tasks, to : KeyU!Settable]
  PROVE  KeyInv' /\ ClosesInv'
<1>1. /\ requested' \in [Commands -> Plans] /\ \A d \in Commands : Planned(requested'[d])
      /\ requested'[c] = plan /\ \A d \in Commands \ {c} : requested'[d] = requested[d]
  BY StartsPlan
<1>2. KeyInv'
  BY <1>1 DEF KeyInv
<1>3. ClosesInv'
  BY <1>1, ClosesOfOthers DEF ClosesInv
<1> QED
  BY <1>2, <1>3

\* What is remembered for u, and for the history.
LEMMA RememberedTypes ==
  ASSUME KeyInv, NEW n \in Tasks, NEW to, NEW closes, listed[n] # KeyU!Gone, KeyU!Remembers(n, to, closes)
  PROVE  /\ lastStatus' = KeyU!Request(n, listed[n])
         /\ lastStatus' \in [id : Tasks, to : KeyU!Settable]
         /\ before' \in SUBSET {status}
<1>1. listed[n] \in KeyU!Settable
  BY KeyIds DEF KeyInv, Values
<1> QED
  BY <1>1 DEF KeyU!Remembers, KeyU!Request, KeyU!Alone

\* One change of status is planned.
LEMMA ChooseKeeps ==
  ASSUME KeyInv, ClosesInv, NEW c \in Commands, NEW n \in Tasks, NEW to \in KeyU!Settable,
         KeyU!ChooseStatus(c, n, to)
  PROVE  KeyInv' /\ ClosesInv'
<1>1. n \in KeyU!Nodes /\ n \notin KeyU!StepIds /\ to \in Values
  BY KeyIds DEF Values
<1>2. /\ listed[n] # KeyU!Gone /\ KeyU!Remembers(n, to, {}) /\ KeyU!Runs(c, KeyU!Only(n, to))
      /\ UNCHANGED <<status, listed>>
  BY DEF KeyU!ChooseStatus
<1>3. /\ KeyU!Only(n, to) \in Plans /\ Planned(KeyU!Only(n, to)) /\ KeyU!Only(n, to).closes = {}
  BY <1>1, OnlyPlan
<1>4. lastStatus' \in [id : Tasks, to : KeyU!Settable] /\ before' \in SUBSET {status}
  BY <1>2, RememberedTypes
<1> QED
  BY <1>2, <1>3, <1>4, KeyStarts

\* The steps come before their task, and are all planned.
LEMMA CascadeKeeps ==
  ASSUME KeyInv, ClosesInv, NEW c \in Commands, NEW n \in Tasks, NEW choice \in Answers,
         KeyU!ApplyCascade(c, n, choice)
  PROVE  KeyInv' /\ ClosesInv'
<1> DEFINE S == IF choice = "close" THEN KeyU!OpenSteps(n) ELSE {}
           plan == [requests |-> KeyU!Closing(n, S), refresh |-> TRUE, stops |-> TRUE, closes |-> S]
<1>1. S \in SUBSET KeyU!StepIds
  BY DEF KeyU!OpenSteps, KeyU!StepsOf
<1>2. /\ listed[n] # KeyU!Gone /\ KeyU!Remembers(n, "DONE", S) /\ KeyU!Runs(c, plan)
      /\ UNCHANGED <<status, listed>>
  BY DEF KeyU!ApplyCascade
<1> HIDE DEF S
<1>3. /\ plan \in Plans /\ Planned(plan)
      /\ \A s \in S : \E i \in 1 .. Len(plan.requests) : i < Len(plan.requests) /\ plan.requests[i].id = s
  BY <1>1, CascadePlan
<1>4. plan.closes = S
  OBVIOUS
<1>5. lastStatus' \in [id : Tasks, to : KeyU!Settable] /\ before' \in SUBSET {status}
  BY <1>2, RememberedTypes
<1> HIDE DEF plan
<1> QED
  BY <1>2, <1>3, <1>4, <1>5, KeyStarts

\* One deletion is planned.
LEMMA DeleteKeeps ==
  ASSUME KeyInv, ClosesInv, NEW c \in Commands, NEW n \in KeyU!Nodes, KeyU!Delete(c, n)
  PROVE  KeyInv' /\ ClosesInv'
<1>1. /\ KeyU!Runs(c, KeyU!Only(n, KeyU!Gone)) /\ UNCHANGED <<status, listed, lastStatus>> /\ before' = {}
  BY DEF KeyU!Delete
<1>2. KeyU!Gone \in Values
  BY DEF Values
<1>3. /\ KeyU!Only(n, KeyU!Gone) \in Plans /\ Planned(KeyU!Only(n, KeyU!Gone))
      /\ KeyU!Only(n, KeyU!Gone).closes = {}
  BY <1>2, OnlyPlan
<1>4. lastStatus' = None \/ lastStatus' \in [id : Tasks, to : KeyU!Settable]
  BY <1>1 DEF KeyInv
<1> QED
  BY <1>1, <1>3, <1>4, KeyStarts

\* The change of status that u takes back is planned.
LEMMA UndoKeeps ==
  ASSUME KeyInv, ClosesInv, NEW c \in Commands, KeyU!Undo(c)
  PROVE  KeyInv' /\ ClosesInv'
<1> DEFINE plan == KeyU!Only(lastStatus.id, lastStatus.to)
<1>1. /\ lastStatus # None /\ lastStatus' = None /\ KeyU!Runs(c, plan)
      /\ UNCHANGED <<status, listed>> /\ before' \subseteq before
  BY DEF KeyU!Undo, KeyU!Alone
<1>2. lastStatus.id \in Tasks /\ lastStatus.to \in KeyU!Settable
  BY <1>1 DEF KeyInv
<1>3. plan \in Plans /\ Planned(plan) /\ plan.closes = {}
  BY <1>2, KeyIds, OnlyPlan DEF Values
<1> HIDE DEF plan
<1> QED
  BY <1>1, <1>3, KeyStarts

\* A request that the daemon does closes the step it was for, if any, and opens none.
LEMMA SendKeeps ==
  ASSUME KeyInv, ClosesInv, NEW c \in Commands, KeyU!Send(c)
  PROVE  KeyInv' /\ ClosesInv'
<1> DEFINE r == requested[c]
           q == r.requests
           e == Head(q)
<1>1. /\ q # <<>> /\ status' = KeyU!Applied(e) /\ UNCHANGED <<listed, lastStatus, before>>
      /\ requested' = [requested EXCEPT ![c].requests = Tail(@)]
  BY DEF KeyU!Send
<1>2. r \in Plans /\ q \in Seq(Changes) /\ Planned(r)
  BY DEF KeyInv, Plans
<1>3. /\ e \in Changes /\ e = q[1] /\ 1 \in 1 .. Len(q)
      /\ Tail(q) \in Seq(Changes) /\ Len(Tail(q)) = Len(q) - 1 /\ Len(q) \in Nat \ {0}
      /\ \A i \in 1 .. Len(Tail(q)) : i + 1 \in 1 .. Len(q) /\ Tail(q)[i] = q[i + 1]
  BY <1>1, <1>2, NextRequests
<1>4. /\ requested' \in [Commands -> Plans] /\ \A d \in Commands : Planned(requested'[d])
      /\ requested'[c].requests = Tail(q) /\ requested'[c].closes = r.closes
      /\ \A d \in Commands \ {c} : requested'[d] = requested[d]
  BY <1>1, GoesOnPlan
<1> HIDE DEF e
<1>5. status' \in [KeyU!Nodes -> Values]
  BY <1>1, <1>3, AppliedStatus
<1>6. KeyInv'
  BY <1>1, <1>4, <1>5 DEF KeyInv
<1>7. e.id \in KeyU!StepIds => e.to \in {"DONE", KeyU!Gone}
  BY <1>2, <1>3 DEF Planned
<1>8. \A s \in KeyU!StepIds : status[s] \in {"DONE", KeyU!Gone} => status'[s] \in {"DONE", KeyU!Gone}
  BY <1>1, <1>3, <1>7, AppliedStatus
<1>9. e.id \in KeyU!StepIds => status'[e.id] \in {"DONE", KeyU!Gone}
  BY <1>1, <1>3, <1>7, AppliedStatus
<1>10. ASSUME NEW s \in r.closes, status'[s] \notin {"DONE", KeyU!Gone}
       PROVE  \E i \in 1 .. Len(Tail(q)) : i < Len(Tail(q)) /\ Tail(q)[i].id = s
  <2>1. s \in KeyU!StepIds
    BY <1>2 DEF Plans
  <2>2. PICK i \in 1 .. Len(q) : i < Len(q) /\ q[i].id = s
    BY <1>8, <1>10, <2>1 DEF ClosesInv
  <2>3. i # 1
    BY <1>3, <1>9, <1>10, <2>1, <2>2
  <2>4. i - 1 \in 1 .. Len(Tail(q)) /\ i - 1 < Len(Tail(q))
    BY <1>3, <2>2, <2>3
  <2>5. Tail(q)[i - 1] = q[i]
    <3>1. (i - 1) + 1 = i
      OBVIOUS
    <3> QED
      BY <1>3, <2>4, <3>1
  <2> QED
    BY <2>2, <2>4, <2>5
<1>11. ClosesInv'
  <2>1. ASSUME NEW d \in Commands, d # c
        PROVE  \A s \in requested'[d].closes :
                 \/ status'[s] \in {"DONE", KeyU!Gone}
                 \/ \E i \in 1 .. Len(requested'[d].requests) :
                      i < Len(requested'[d].requests) /\ requested'[d].requests[i].id = s
    BY <1>4, <1>8, <2>1, ClosesOfOthers
  <2>2. \A s \in requested'[c].closes :
          \/ status'[s] \in {"DONE", KeyU!Gone}
          \/ \E i \in 1 .. Len(requested'[c].requests) :
               i < Len(requested'[c].requests) /\ requested'[c].requests[i].id = s
    BY <1>4, <1>10
  <2> QED
    BY <2>1, <2>2 DEF ClosesInv
<1> QED
  BY <1>6, <1>11

\* A cascade stops at a request that fails, and so never gets to its task; what goes on was to
\* close nothing.
LEMMA FailsKeeps ==
  ASSUME KeyInv, ClosesInv, NEW c \in Commands, KeyU!SendFails(c)
  PROVE  KeyInv' /\ ClosesInv'
<1>1. /\ requested' \in [Commands -> Plans] /\ \A d \in Commands : Planned(requested'[d])
      /\ \A d \in Commands \ {c} : requested'[d] = requested[d]
      /\ requested[c].stops => requested'[c] = KeyU!Idle
      /\ requested'[c].closes \subseteq requested[c].closes
  BY FailsPlan
<1>2. requested'[c].closes = {}
  BY <1>1, IdlePlan DEF KeyInv, Planned
<1>3. before' = {} /\ UNCHANGED <<status, listed, lastStatus>>
  BY DEF KeyU!SendFails
<1>4. KeyInv'
  BY <1>1, <1>3 DEF KeyInv
<1>5. ClosesInv'
  BY <1>1, <1>2, <1>3, ClosesOfOthers DEF ClosesInv
<1> QED
  BY <1>4, <1>5

\* A plan ends with nothing left to send.
LEMMA RefreshKeeps ==
  ASSUME KeyInv, ClosesInv, NEW c \in Commands, KeyU!Refresh(c)
  PROVE  KeyInv' /\ ClosesInv'
<1>1. requested' = [requested EXCEPT ![c] = KeyU!Idle] /\ listed' = status
      /\ UNCHANGED <<status, lastStatus, before>>
  BY DEF KeyU!Refresh
<1>2. /\ requested' \in [Commands -> Plans] /\ \A d \in Commands : Planned(requested'[d])
      /\ requested'[c] = KeyU!Idle /\ \A d \in Commands \ {c} : requested'[d] = requested[d]
  BY <1>1, EndsPlan
<1>3. KeyInv'
  BY <1>1, <1>2 DEF KeyInv
<1>4. ClosesInv'
  BY <1>1, <1>2, IdlePlan, ClosesOfOthers DEF ClosesInv
<1> QED
  BY <1>3, <1>4

\* All of them.
LEMMA KeyStays ==
  ASSUME KeyInv, ClosesInv, [KeyU!UndoNext]_undoVars
  PROVE  KeyInv' /\ ClosesInv'
<1>1. CASE UNCHANGED undoVars
  BY <1>1 DEF KeyInv, ClosesInv, undoVars
<1>2. CASE KeyU!UndoNext
  BY <1>2, ChooseKeeps, CascadeKeeps, DeleteKeeps, UndoKeeps, SendKeeps, FailsKeeps, RefreshKeeps
  DEF KeyU!UndoNext
<1> QED
  BY <1>1, <1>2

\* Nobody opens a step again.
LEMMA StepsStayClosed ==
  ASSUME KeyInv, [KeyU!UndoNext]_undoVars, NEW s \in KeyU!StepIds,
         status[s] \in {"DONE", KeyU!Gone}
  PROVE  status'[s] \in {"DONE", KeyU!Gone}
<1>1. ASSUME NEW c \in Commands, KeyU!Send(c) PROVE status'[s] \in {"DONE", KeyU!Gone}
  <2> DEFINE q == requested[c].requests
  <2>1. q # <<>> /\ status' = KeyU!Applied(Head(q))
    BY <1>1 DEF KeyU!Send
  <2>2. q \in Seq(Changes) /\ Planned(requested[c])
    BY DEF KeyInv, Plans
  <2>3. Head(q) \in Changes /\ Head(q) = q[1] /\ 1 \in 1 .. Len(q)
    BY <2>1, <2>2, NextRequests
  <2>4. Head(q).id \in KeyU!StepIds => Head(q).to \in {"DONE", KeyU!Gone}
    BY <2>2, <2>3 DEF Planned
  <2> HIDE DEF q
  <2> QED
    BY <2>1, <2>3, <2>4, AppliedStatus
<1>2. CASE UNCHANGED status
  BY <1>2
<1> QED
  BY <1>1, <1>2 DEF KeyU!UndoNext, KeyU!ChooseStatus, KeyU!ApplyCascade, KeyU!Delete, KeyU!Undo,
     KeyU!SendFails, KeyU!Refresh, undoVars

\* The subject of a cascade is the last of its requests.
LEMMA SubjectIsLast ==
  ASSUME KeyInv, ClosesInv, NEW c \in Commands, NEW n \in Tasks, requested[c].requests # <<>>,
         Head(requested[c].requests) = KeyU!Request(n, "DONE")
  PROVE  \A s \in requested[c].closes : s \in KeyU!StepIds /\ status[s] \in {"DONE", KeyU!Gone}
<1> DEFINE r == requested[c]
<1>1. r \in Plans /\ Planned(r) /\ r.requests \in Seq(Changes) /\ r.closes \subseteq KeyU!StepIds
  BY DEF KeyInv, Plans
<1>2. r.requests[1].id = n /\ 1 \in 1 .. Len(r.requests) /\ Len(r.requests) \in Nat
  BY <1>1, NextRequests DEF KeyU!Request
<1>3. n \notin KeyU!StepIds
  BY KeyIds
<1>4. r.closes # {} => r.stops
  BY <1>1 DEF Planned
<1>5. r.stops => ~(1 < Len(r.requests))
  BY <1>1, <1>2, <1>3 DEF Planned
<1>6. ASSUME NEW s \in r.closes, NEW i \in 1 .. Len(r.requests), i < Len(r.requests) PROVE FALSE
  BY <1>2, <1>4, <1>5, <1>6
<1> QED
  BY <1>1, <1>6 DEF ClosesInv

\* The board shows the tasks as the daemon has them, unless a command is under way that is going
\* to refresh it whatever fails: a cascade changes its task with its last request only.
SyncInv ==
  \A n \in Tasks : listed[n] # status[n] =>
    \E c \in Commands : /\ requested[c] # KeyU!Idle
                        /\ ~requested[c].stops \/ requested[c].requests = <<>>

\* The list is refreshed by whoever made it differ.
LEMMA SyncStays ==
  ASSUME KeyInv, SyncInv, [KeyU!UndoNext]_undoVars
  PROVE  SyncInv'
<1> USE DEF SyncInv
<1>1. ASSUME NEW c \in Commands, requested[c] = KeyU!Idle,
             \A d \in Commands \ {c} : requested'[d] = requested[d], UNCHANGED <<status, listed>>
      PROVE  SyncInv'
  BY <1>1
<1>2. ASSUME NEW c \in Commands, NEW plan, KeyU!Runs(c, plan), UNCHANGED <<status, listed>>
      PROVE  SyncInv'
  <2>1. requested[c] = KeyU!Idle /\ \A d \in Commands \ {c} : requested'[d] = requested[d]
    BY <1>2 DEF KeyU!Runs, KeyInv
  <2> QED
    BY <1>1, <1>2, <2>1
<1>3. ASSUME NEW c \in Commands, KeyU!Send(c) PROVE SyncInv'
  <2> DEFINE q == requested[c].requests
  <2>1. /\ q # <<>> /\ status' = KeyU!Applied(Head(q)) /\ UNCHANGED listed
        /\ requested' = [requested EXCEPT ![c].requests = Tail(@)]
    BY <1>3 DEF KeyU!Send
  <2>2. q \in Seq(Changes) /\ Planned(requested[c])
    BY DEF KeyInv, Plans
  <2>3. /\ Head(q) \in Changes /\ Head(q) = q[1] /\ 1 \in 1 .. Len(q)
        /\ Tail(q) \in Seq(Changes) /\ Len(Tail(q)) = Len(q) - 1 /\ Len(q) \in Nat \ {0}
    BY <2>1, <2>2, NextRequests
  <2>4. /\ requested'[c].requests = Tail(q) /\ requested'[c].stops = requested[c].stops
        /\ requested'[c] # KeyU!Idle /\ \A d \in Commands \ {c} : requested'[d] = requested[d]
    BY <2>1, GoesOnPlan
  <2>5. ASSUME NEW n \in Tasks, Head(q).id = n PROVE ~requested'[c].stops \/ requested'[c].requests = <<>>
    <3>1. n \notin KeyU!StepIds
      BY KeyIds
    <3>2. requested[c].stops => ~(1 < Len(q))
      BY <2>2, <2>3, <2>5, <3>1 DEF Planned
    <3>3. requested[c].stops => Len(Tail(q)) = 0
      <4> SUFFICES ASSUME requested[c].stops PROVE Len(Tail(q)) = 0
        OBVIOUS
      <4>1. ~(1 < Len(q))
        BY <3>2
      <4>2. ASSUME NEW k \in Nat \ {0}, ~(1 < k) PROVE k - 1 = 0
        BY <4>2
      <4> QED
        BY <2>3, <4>1, <4>2
    <3> QED
      BY <2>3, <2>4, <3>3, EmptySeq
  <2>6. \A n \in Tasks : n # Head(q).id => status'[n] = status[n]
    BY <2>1, <2>3, AppliedStatus
  <2> HIDE DEF q
  <2>7. ASSUME NEW n \in Tasks, listed'[n] # status'[n]
        PROVE  \E d \in Commands : /\ requested'[d] # KeyU!Idle
                                   /\ ~requested'[d].stops \/ requested'[d].requests = <<>>
    <3>1. CASE Head(q).id = n
      BY <2>4, <2>5, <3>1
    <3>2. CASE Head(q).id # n
      <4>1. PICK d \in Commands : /\ requested[d] # KeyU!Idle
                                  /\ ~requested[d].stops \/ requested[d].requests = <<>>
        BY <2>1, <2>6, <2>7, <3>2
      <4> QED
        BY <2>1, <2>4, <4>1 DEF q
    <3> QED
      BY <3>1, <3>2
  <2> QED
    BY <2>7
<1>4. ASSUME NEW c \in Commands, KeyU!SendFails(c) PROVE SyncInv'
  <2>1. /\ \A d \in Commands \ {c} : requested'[d] = requested[d]
        /\ requested[c].requests # <<>>
        /\ ~requested[c].stops => requested'[c] # KeyU!Idle /\ ~requested'[c].stops
    BY <1>4, FailsPlan
  <2>2. UNCHANGED <<status, listed>>
    BY <1>4 DEF KeyU!SendFails
  <2> QED
    BY <2>1, <2>2
<1>5. ASSUME NEW c \in Commands, KeyU!Refresh(c) PROVE SyncInv'
  BY <1>5 DEF KeyU!Refresh
<1>6. CASE UNCHANGED undoVars
  BY <1>6 DEF undoVars
<1>7. ASSUME NEW c \in Commands, NEW n \in Tasks, NEW to, KeyU!ChooseStatus(c, n, to) PROVE SyncInv'
  BY <1>2, <1>7 DEF KeyU!ChooseStatus
<1>8. ASSUME NEW c \in Commands, NEW n \in Tasks, NEW choice, KeyU!ApplyCascade(c, n, choice) PROVE SyncInv'
  BY <1>2, <1>8 DEF KeyU!ApplyCascade
<1>9. ASSUME NEW c \in Commands, NEW n, KeyU!Delete(c, n) PROVE SyncInv'
  BY <1>2, <1>9 DEF KeyU!Delete
<1>10. ASSUME NEW c \in Commands, KeyU!Undo(c) PROVE SyncInv'
  BY <1>2, <1>10 DEF KeyU!Undo
<1> QED
  BY <1>3, <1>4, <1>5, <1>6, <1>7, <1>8, <1>9, <1>10 DEF KeyU!UndoNext

\* One command is under way, with these requests, or none.
Sends(requests) ==
  \E c \in Commands : /\ requested[c] # KeyU!Idle /\ requested[c].requests = requests
                      /\ \A d \in Commands \ {c} : requested[d] = KeyU!Idle

\* The change of the history and what has happened to it: made, and over; then taken back.
Changed(b, n, to) ==
  \/ /\ lastStatus = KeyU!Request(n, b[n])
     /\ \/ status = b /\ Sends(<<KeyU!Request(n, to)>>)
        \/ status = [b EXCEPT ![n] = to] /\ (KeyU!AllIdle \/ Sends(<<>>))
  \/ /\ lastStatus = None
     /\ \/ status = [b EXCEPT ![n] = to] /\ Sends(<<KeyU!Request(n, b[n])>>)
        \/ status = b /\ (KeyU!AllIdle \/ Sends(<<>>))

\* What u is about to take back is that change.
HistoryInv ==
  before = {} \/ \E b \in [KeyU!Nodes -> Values], n \in Tasks, to \in KeyU!Settable :
    before = {b} /\ b[n] \in KeyU!Settable /\ Changed(b, n, to)

\* A command that begins while none is under way.
LEMMA OnlyOneSends ==
  ASSUME KeyInv, NEW c \in Commands, NEW plan \in Plans, KeyU!Runs(c, plan), KeyU!AllIdle,
         plan # KeyU!Idle
  PROVE  Sends(plan.requests)'
BY DEF KeyInv, KeyU!Runs, KeyU!AllIdle, Sends

\* The next request of the only command that is under way.
LEMMA OnlyOneGoesOn ==
  ASSUME KeyInv, NEW c \in Commands, NEW requests, Sends(requests), requested[c].requests # <<>>,
         requested' = [requested EXCEPT ![c].requests = Tail(@)]
  PROVE  requested[c].requests = requests /\ Sends(Tail(requests))'
<1>1. PICK d \in Commands : /\ requested[d].requests = requests
                            /\ \A x \in Commands \ {d} : requested[x] = KeyU!Idle
  BY DEF Sends
<1>2. d = c
  BY <1>1, IdlePlan
<1>3. /\ requested'[c].requests = Tail(requested[c].requests) /\ requested'[c] # KeyU!Idle
      /\ \A x \in Commands \ {c} : requested'[x] = requested[x]
  BY GoesOnPlan
<1> QED
  BY <1>1, <1>2, <1>3 DEF Sends

\* A change of a task's status, made and taken back.
LEMMA ThereAndBack ==
  ASSUME KeyInv, NEW b \in [KeyU!Nodes -> Values], NEW n \in Tasks, NEW to \in KeyU!Settable
  PROVE  /\ status = b => KeyU!Applied(KeyU!Request(n, to)) = [b EXCEPT ![n] = to]
         /\ b[n] \in KeyU!Settable /\ status = [b EXCEPT ![n] = to] =>
              KeyU!Applied(KeyU!Request(n, b[n])) = b
<1>1. n \in KeyU!Nodes /\ KeyU!Gone \notin KeyU!Settable
  BY KeyIds
<1>2. ASSUME NEW v \in KeyU!Settable
      PROVE  KeyU!Applied(KeyU!Request(n, v)) = [m \in KeyU!Nodes |-> IF m = n THEN v ELSE status[m]]
  <2>1. KeyU!Request(n, v).id = n /\ KeyU!Request(n, v).to = v /\ v # KeyU!Gone
    BY <1>1 DEF KeyU!Request
  <2>2. {s \in KeyU!StepIds : KeyU!Request(n, v).to = KeyU!Gone /\ Owner[s] = KeyU!Request(n, v).id} = {}
    BY <2>1
  <2>3. KeyU!Applied(KeyU!Request(n, v))
        = [m \in KeyU!Nodes |-> IF m \in {n} \cup {} THEN v ELSE status[m]]
    BY <2>1, <2>2 DEF KeyU!Applied
  <2> QED
    BY <2>3
<1>3. ASSUME status = b PROVE KeyU!Applied(KeyU!Request(n, to)) = [b EXCEPT ![n] = to]
  <2>1. [m \in KeyU!Nodes |-> IF m = n THEN to ELSE b[m]] = [b EXCEPT ![n] = to]
    BY <1>1
  <2> QED
    BY <1>2, <1>3, <2>1
<1>4. ASSUME b[n] \in KeyU!Settable, status = [b EXCEPT ![n] = to]
      PROVE  KeyU!Applied(KeyU!Request(n, b[n])) = b
  <2>1. [m \in KeyU!Nodes |-> IF m = n THEN b[n] ELSE [b EXCEPT ![n] = to][m]] = b
    BY <1>1
  <2> QED
    BY <1>2, <1>4, <2>1
<1> QED
  BY <1>3, <1>4

\* A change of one status begins: it is what u takes back from now on.
LEMMA HistoryBegins ==
  ASSUME KeyInv, SyncInv, NEW c \in Commands, NEW n \in Tasks, NEW to \in KeyU!Settable,
         NEW plan \in Plans, KeyU!Runs(c, plan), plan # KeyU!Idle, listed[n] # KeyU!Gone,
         lastStatus' = KeyU!Request(n, listed[n]), status' = status,
         before' = {} \/ (KeyU!AllIdle /\ before' = {status} /\ plan.requests = <<KeyU!Request(n, to)>>)
  PROVE  HistoryInv'
<1>1. CASE before' = {}
  BY <1>1 DEF HistoryInv
<1>2. CASE KeyU!AllIdle /\ before' = {status} /\ plan.requests = <<KeyU!Request(n, to)>>
  <2>1. listed[n] = status[n]
    BY <1>2 DEF SyncInv, KeyU!AllIdle
  <2>2. status \in [KeyU!Nodes -> Values] /\ status[n] \in KeyU!Settable
    BY <2>1, KeyIds DEF KeyInv, Values
  <2>3. Sends(plan.requests)'
    BY <1>2, OnlyOneSends
  <2>4. Sends(<<KeyU!Request(n, to)>>)'
    BY <1>2, <2>3 DEF Sends
  <2>5. Changed(status, n, to)'
    BY <2>1, <2>4 DEF Changed
  <2> QED
    BY <1>2, <2>2, <2>5 DEF HistoryInv
<1> QED
  BY <1>1, <1>2

\* A change that is alone remembers what it changes from.
LEMMA HistoryChoose ==
  ASSUME KeyInv, SyncInv, NEW c \in Commands, NEW n \in Tasks, NEW to \in KeyU!Settable,
         KeyU!ChooseStatus(c, n, to)
  PROVE  HistoryInv'
<1>1. /\ listed[n] # KeyU!Gone /\ KeyU!Runs(c, KeyU!Only(n, to)) /\ status' = status
      /\ lastStatus' = KeyU!Request(n, listed[n]) /\ before' = KeyU!Alone({status})
  BY DEF KeyU!ChooseStatus, KeyU!Remembers
<1>2. n \in KeyU!Nodes /\ n \notin KeyU!StepIds /\ to \in Values
  BY KeyIds DEF Values
<1>3. /\ KeyU!Only(n, to) \in Plans /\ KeyU!Only(n, to) # KeyU!Idle
      /\ KeyU!Only(n, to).requests = <<KeyU!Request(n, to)>>
  BY <1>2, OnlyPlan
<1>4. before' = {} \/ (KeyU!AllIdle /\ before' = {status})
  BY <1>1 DEF KeyU!Alone
<1> QED
  BY <1>1, <1>3, <1>4, HistoryBegins

\* A cascade that closes no steps is a change of one status.
LEMMA HistoryCascade ==
  ASSUME KeyInv, SyncInv, NEW c \in Commands, NEW n \in Tasks, NEW choice \in Answers,
         KeyU!ApplyCascade(c, n, choice)
  PROVE  HistoryInv'
<1> DEFINE S == IF choice = "close" THEN KeyU!OpenSteps(n) ELSE {}
           plan == [requests |-> KeyU!Closing(n, S), refresh |-> TRUE, stops |-> TRUE, closes |-> S]
<1>1. S \in SUBSET KeyU!StepIds
  BY DEF KeyU!OpenSteps, KeyU!StepsOf
<1>2. /\ listed[n] # KeyU!Gone /\ KeyU!Runs(c, plan) /\ status' = status
      /\ lastStatus' = KeyU!Request(n, listed[n])
      /\ before' = KeyU!Alone(IF S = {} THEN {status} ELSE {})
  BY DEF KeyU!ApplyCascade, KeyU!Remembers
<1> HIDE DEF S
<1>3. plan \in Plans /\ plan # KeyU!Idle
  BY <1>1, CascadePlan
<1>4. plan.requests = KeyU!Closing(n, S)
  OBVIOUS
<1>5. S = {} => KeyU!Closing(n, S) = <<KeyU!Request(n, "DONE")>>
  <2> SUFFICES ASSUME S = {} PROVE KeyU!Closing(n, S) = <<KeyU!Request(n, "DONE")>>
    OBVIOUS
  <2> DEFINE q == KeyU!Closing(n, S)
  <2>1. Cardinality(S) = 0
    BY FS_EmptySet
  <2>2. q \in Seq(Changes) /\ Len(q) = 0 + 1 /\ q[0 + 1] = KeyU!Request(n, "DONE")
    BY <1>1, <2>1, ClosingPlan
  <2> HIDE DEF q
  <2>3. q = <<KeyU!Request(n, "DONE")>>
    BY <2>2
  <2> QED
    BY <2>3 DEF q
<1>6. before' = {} \/ (KeyU!AllIdle /\ before' = {status} /\ S = {})
  BY <1>2 DEF KeyU!Alone
<1> HIDE DEF plan
<1> QED
  BY <1>2, <1>3, <1>4, <1>5, <1>6, KeyIds, HistoryBegins

\* u sends what was remembered.
LEMMA HistoryUndo ==
  ASSUME KeyInv, HistoryInv, NEW c \in Commands, KeyU!Undo(c)
  PROVE  HistoryInv'
<1>1. /\ lastStatus # None /\ lastStatus' = None
      /\ KeyU!Runs(c, KeyU!Only(lastStatus.id, lastStatus.to))
      /\ status' = status /\ before' = KeyU!Alone(before)
  BY DEF KeyU!Undo
<1>2. lastStatus.id \in Tasks /\ lastStatus.to \in KeyU!Settable
  BY <1>1 DEF KeyInv
<1>3. PICK plan \in Plans :
        /\ plan = KeyU!Only(lastStatus.id, lastStatus.to) /\ plan # KeyU!Idle
        /\ plan.requests = <<KeyU!Request(lastStatus.id, lastStatus.to)>>
  BY <1>2, KeyIds, OnlyPlan DEF Values
<1>4. CASE before' = {}
  BY <1>4 DEF HistoryInv
<1>5. CASE KeyU!AllIdle /\ before' = before /\ before # {}
  <2>1. PICK b \in [KeyU!Nodes -> Values], n \in Tasks, to \in KeyU!Settable :
          before = {b} /\ b[n] \in KeyU!Settable /\ Changed(b, n, to)
    BY <1>5 DEF HistoryInv
  <2>2. \A q : ~Sends(q)
    BY <1>5 DEF Sends, KeyU!AllIdle
  <2>3. lastStatus = KeyU!Request(n, b[n]) /\ status = [b EXCEPT ![n] = to]
    BY <1>1, <2>1, <2>2 DEF Changed
  <2>4. KeyU!Request(lastStatus.id, lastStatus.to) = KeyU!Request(n, b[n])
    BY <2>3 DEF KeyU!Request
  <2>5. Sends(plan.requests)'
    BY <1>1, <1>3, <1>5, OnlyOneSends
  <2>6. Sends(<<KeyU!Request(n, b[n])>>)'
    BY <1>3, <2>4, <2>5 DEF Sends
  <2>7. Changed(b, n, to)'
    BY <1>1, <2>3, <2>6 DEF Changed
  <2> QED
    BY <1>5, <2>1, <2>7 DEF HistoryInv
<1> QED
  BY <1>1, <1>4, <1>5 DEF KeyU!Alone

\* What is sent is that change or its reversal.
LEMMA HistorySend ==
  ASSUME KeyInv, HistoryInv, NEW c \in Commands, KeyU!Send(c)
  PROVE  HistoryInv'
<1> DEFINE q == requested[c].requests
<1>1. /\ q # <<>> /\ status' = KeyU!Applied(Head(q)) /\ UNCHANGED <<lastStatus, before>>
      /\ requested' = [requested EXCEPT ![c].requests = Tail(@)]
  BY DEF KeyU!Send
<1>2. CASE before = {}
  BY <1>1, <1>2 DEF HistoryInv
<1>3. CASE before # {}
  <2>1. PICK b \in [KeyU!Nodes -> Values], n \in Tasks, to \in KeyU!Settable :
          before = {b} /\ b[n] \in KeyU!Settable /\ Changed(b, n, to)
    BY <1>3 DEF HistoryInv
  <2>2. \A e : Sends(<<e>>) => q = <<e>> /\ Sends(<<>>)'
    <3> SUFFICES ASSUME NEW e, Sends(<<e>>) PROVE q = <<e>> /\ Sends(<<>>)'
      OBVIOUS
    <3>1. requested[c].requests = <<e>> /\ Sends(Tail(<<e>>))'
      BY <1>1, OnlyOneGoesOn
    <3>2. Tail(<<e>>) = <<>>
      OBVIOUS
    <3> QED
      BY <3>1, <3>2 DEF Sends
  <2>3. ~KeyU!AllIdle /\ ~Sends(<<>>)
    BY <1>1, IdlePlan DEF KeyU!AllIdle, Sends
  <2>4. CASE /\ lastStatus = KeyU!Request(n, b[n]) /\ status = b /\ Sends(<<KeyU!Request(n, to)>>)
    <3>1. Head(q) = KeyU!Request(n, to) /\ Sends(<<>>)'
      BY <2>2, <2>4
    <3>2. status' = [b EXCEPT ![n] = to]
      BY <1>1, <2>4, <3>1, ThereAndBack
    <3>3. Changed(b, n, to)'
      BY <1>1, <2>4, <3>1, <3>2 DEF Changed
    <3> QED
      BY <1>1, <2>1, <3>3 DEF HistoryInv
  <2>5. CASE /\ lastStatus = None /\ status = [b EXCEPT ![n] = to] /\ Sends(<<KeyU!Request(n, b[n])>>)
    <3>1. Head(q) = KeyU!Request(n, b[n]) /\ Sends(<<>>)'
      BY <2>2, <2>5
    <3>2. status' = b
      BY <1>1, <2>1, <2>5, <3>1, ThereAndBack
    <3>3. Changed(b, n, to)'
      BY <1>1, <2>5, <3>1, <3>2 DEF Changed
    <3> QED
      BY <1>1, <2>1, <3>3 DEF HistoryInv
  <2> QED
    BY <2>1, <2>3, <2>4, <2>5 DEF Changed
<1> QED
  BY <1>2, <1>3

\* A plan that is over leaves the status as it made it.
LEMMA HistoryRefresh ==
  ASSUME KeyInv, HistoryInv, NEW c \in Commands, KeyU!Refresh(c)
  PROVE  HistoryInv'
<1>1. /\ requested[c].refresh /\ requested[c].requests = <<>>
      /\ requested' = [requested EXCEPT ![c] = KeyU!Idle]
      /\ UNCHANGED <<status, lastStatus, before>>
  BY DEF KeyU!Refresh
<1>2. requested[c] # KeyU!Idle
  BY <1>1, IdlePlan
<1>3. ~KeyU!AllIdle
  BY <1>2 DEF KeyU!AllIdle
<1>4. \A q : Sends(q) => q = <<>> /\ KeyU!AllIdle'
  BY <1>1, <1>2, EndsPlan DEF Sends, KeyU!AllIdle
<1>5. \A e : ~Sends(<<e>>)
  BY <1>4
<1>6. CASE before = {}
  BY <1>1, <1>6 DEF HistoryInv
<1>7. CASE before # {}
  <2>1. PICK b \in [KeyU!Nodes -> Values], n \in Tasks, to \in KeyU!Settable :
          before = {b} /\ b[n] \in KeyU!Settable /\ Changed(b, n, to)
    BY <1>7 DEF HistoryInv
  <2>2. Changed(b, n, to)'
    BY <1>1, <1>3, <1>4, <1>5, <2>1 DEF Changed
  <2> QED
    BY <1>1, <2>1, <2>2 DEF HistoryInv
<1> QED
  BY <1>6, <1>7

\* All of them.
LEMMA HistoryStays ==
  ASSUME KeyInv, SyncInv, HistoryInv, [KeyU!UndoNext]_undoVars
  PROVE  HistoryInv'
<1>1. CASE UNCHANGED undoVars
  BY <1>1 DEF HistoryInv, Changed, Sends, KeyU!AllIdle, undoVars
<1>2. ASSUME NEW c \in Commands, NEW n \in KeyU!Nodes, KeyU!Delete(c, n) PROVE HistoryInv'
  BY <1>2 DEF KeyU!Delete, HistoryInv
<1>3. ASSUME NEW c \in Commands, KeyU!SendFails(c) PROVE HistoryInv'
  BY <1>3 DEF KeyU!SendFails, HistoryInv
<1> QED
  BY <1>1, <1>2, <1>3, HistoryChoose, HistoryCascade, HistoryUndo, HistorySend, HistoryRefresh
  DEF KeyU!UndoNext

-----------------------------------------------------------------------------
(* The browser client.                                                       *)

Calls == [kind : {"none", "load", "refresh", "retry", "tick"}, stage : {"none", "projects", "core"},
          project : Projects, lost : BOOLEAN]

\* Types; the handle is that of a timer that has yet to fire; timers make the calls of the poll
\* and no others; and while the page says that it is disconnected it is polled.
WebInv ==
  /\ current \in Projects /\ shown \in Projects \cup {Nothing}
  /\ connection \in {"connected", "disconnected"}
  /\ timers \subseteq Timers /\ reconnectTimer \in timers \cup {Nothing}
  /\ calls \in [Web!Callers -> Calls]
  /\ \A c \in Web!Callers : calls[c].kind = "none" => calls[c] = Web!Idle
  /\ \A t \in timers : calls[t] = Web!Idle
  /\ \A t \in Timers : calls[t].kind \in {"none", "tick"}
  /\ \A o \in Ops : calls[o].kind # "tick"
  /\ Web!DownIsPolled

\* Calls that are not under way, and calls that are.
LEMMA CallRecords ==
  /\ Web!Idle \in Calls /\ Web!Idle.kind = "none" /\ Web!Idle.stage = "none"
  /\ \A kind \in {"load", "refresh", "retry", "tick"}, stage \in {"projects", "core"}, p \in Projects :
       /\ Web!Waiting(kind, stage, p) \in Calls /\ Web!Waiting(kind, stage, p).kind = kind
       /\ Web!Waiting(kind, stage, p) # Web!Idle
  /\ Ops \subseteq Web!Callers /\ Timers \subseteq Web!Callers /\ Ops \cap Timers = {}
  /\ Nothing \notin Timers
  BY BoardAssumption, ScreensAssumption DEF Web!Idle, Web!Waiting, Calls, Web!Callers

\* A page opens connected.
LEMMA WebAtFirst == ScreensInit => WebInv
<1> SUFFICES ASSUME ScreensInit PROVE WebInv
  OBVIOUS
<1>1. /\ current = Home /\ shown = Nothing /\ connection = "connected"
      /\ timers = {} /\ reconnectTimer = Nothing
  BY DEF ScreensInit, WebClosed, Web!WebInit
<1>2. CASE calls = [c \in Web!Callers |-> Web!Idle]
  <2>1. calls \in [Web!Callers -> Calls] /\ \A c \in Web!Callers : calls[c] = Web!Idle
    BY <1>2, CallRecords
  <2>2. \A t \in Timers : calls[t] = Web!Idle
    BY <2>1, CallRecords
  <2>3. \A p \in Ops : calls[p].kind # "tick"
    BY <2>1, CallRecords
  <2> QED
    BY <1>1, <2>1, <2>2, <2>3, CallRecords, BoardAssumption DEF WebInv, Web!DownIsPolled
<1>3. ASSUME NEW o \in Ops,
             calls = [c \in Web!Callers |-> IF c = o THEN Web!Waiting("load", "projects", Home) ELSE Web!Idle]
      PROVE  WebInv
  <2> DEFINE load == Web!Waiting("load", "projects", Home)
  <2>1. load \in Calls /\ load.kind = "load" /\ Web!Idle \in Calls /\ Web!Idle.kind = "none"
    BY CallRecords, BoardAssumption
  <2>2. o \in Web!Callers /\ o \notin Timers /\ Timers \subseteq Web!Callers /\ Ops \subseteq Web!Callers
    <3>1. Ops \cap Timers = {} /\ Timers \subseteq Web!Callers /\ Ops \subseteq Web!Callers
      BY CallRecords
    <3> QED
      BY <1>3, <3>1
  <2>3. calls = [c \in Web!Callers |-> IF c = o THEN load ELSE Web!Idle]
    BY <1>3
  <2> HIDE DEF load
  <2>4. calls \in [Web!Callers -> Calls]
    BY <2>1, <2>3
  <2>5. \A c \in Web!Callers : calls[c] = IF c = o THEN load ELSE Web!Idle
    BY <2>3
  <2>6. \A t \in Timers : calls[t] = Web!Idle
    BY <2>2, <2>5
  <2>7. \A c \in Web!Callers : calls[c].kind = "none" => calls[c] = Web!Idle
    BY <2>1, <2>5
  <2>8. \A p \in Ops : calls[p].kind # "tick"
    BY <2>1, <2>2, <2>5
  <2> QED
    BY <1>1, <2>4, <2>6, <2>7, <2>8, CallRecords, BoardAssumption DEF WebInv, Web!DownIsPolled
<1> QED
  BY <1>2, <1>3 DEF ScreensInit, WebClosed, Web!WebInit, Web!Callers

\* A call by no timer begins or goes on.
LEMMA WebGoesOn ==
  ASSUME WebInv, NEW c \in Web!Callers, NEW new \in Calls, new.kind # "none",
         (c \in Ops /\ new.kind # "tick") \/ (calls[c] # Web!Idle /\ new.kind = calls[c].kind),
         calls' = [calls EXCEPT ![c] = new], current' \in Projects,
         UNCHANGED <<shown, connection, timers, reconnectTimer>>
  PROVE  WebInv'
<1>1. calls' \in [Web!Callers -> Calls] /\ calls'[c] = new
      /\ \A d \in Web!Callers \ {c} : calls'[d] = calls[d]
  BY DEF WebInv
<1>2. c \notin timers
  BY CallRecords DEF WebInv
<1>3. new # Web!Idle
  BY CallRecords
<1>4. \A t \in timers : calls'[t] = Web!Idle
  BY <1>1, <1>2, CallRecords DEF WebInv
<1>5. \A t \in Timers : calls'[t].kind \in {"none", "tick"}
  BY <1>1, CallRecords DEF WebInv
<1>6. \A t \in Timers : calls[t] # Web!Idle => calls'[t] # Web!Idle
  BY <1>1, <1>3, CallRecords
<1>7. Web!DownIsPolled'
  BY <1>6 DEF WebInv, Web!DownIsPolled, Web!Ticking
<1>8. \A d \in Web!Callers : calls'[d].kind = "none" => calls'[d] = Web!Idle
  BY <1>1 DEF WebInv
<1>9. \A o \in Ops : calls'[o].kind # "tick"
  BY <1>1, CallRecords DEF WebInv
<1> QED
  BY <1>1, <1>4, <1>5, <1>7, <1>8, <1>9 DEF WebInv

\* A call ends, and what it leaves is polled if it has to be.
LEMMA WebEnds ==
  ASSUME WebInv, NEW c \in Web!Callers, calls[c] # Web!Idle, Web!Ends(c),
         current' \in Projects, shown' \in Projects \cup {Nothing},
         connection' \in {"connected", "disconnected"}, timers' \subseteq Timers,
         reconnectTimer' \in timers' \cup {Nothing},
         timers \subseteq timers', \A t \in timers' \ timers : t = c \/ calls[t] = Web!Idle,
         \/ connection' = "connected"
         \/ timers' # {}
         \/ connection' = connection /\ c \notin Timers
  PROVE  WebInv'
<1>1. calls' \in [Web!Callers -> Calls] /\ calls'[c] = Web!Idle
      /\ \A d \in Web!Callers \ {c} : calls'[d] = calls[d]
  BY CallRecords DEF WebInv, Web!Ends
<1>2. \A t \in timers' : calls'[t] = Web!Idle
  BY <1>1, CallRecords DEF WebInv
<1>3. \A t \in Timers : calls'[t].kind \in {"none", "tick"}
  BY <1>1, CallRecords DEF WebInv
<1>4. \A d \in Web!Callers : calls'[d].kind = "none" => calls'[d] = Web!Idle
  BY <1>1 DEF WebInv
<1>5. Web!DownIsPolled'
  <2>1. CASE connection' = connection /\ c \notin Timers
    <3>1. \A t \in Timers : calls'[t] = calls[t]
      BY <1>1, <2>1, CallRecords
    <3> QED
      BY <2>1, <3>1 DEF WebInv, Web!DownIsPolled, Web!Ticking
  <2>2. CASE connection' = "connected" \/ timers' # {}
    BY <2>2 DEF Web!DownIsPolled
  <2> QED
    BY <2>1, <2>2
<1>6. \A o \in Ops : calls'[o].kind # "tick"
  BY <1>1, CallRecords DEF WebInv
<1> QED
  BY <1>1, <1>2, <1>3, <1>4, <1>5, <1>6 DEF WebInv

\* A call of the poll ends: the next timer is set, or it was a retry.
LEMMA WebPollsOn ==
  ASSUME WebInv, NEW c \in Web!Callers, calls[c] # Web!Idle, Web!Polling(c), Web!PollsOn(c),
         UNCHANGED <<current, shown>>
  PROVE  WebInv'
<1>0. /\ current \in Projects /\ shown \in Projects \cup {Nothing}
      /\ connection \in {"connected", "disconnected"} /\ timers \subseteq Timers
      /\ reconnectTimer \in timers \cup {Nothing}
  BY DEF WebInv
<1>1. CASE calls[c].kind = "tick"
  <2>1. timers' = timers \cup {c} /\ reconnectTimer' = c /\ Web!Ends(c) /\ UNCHANGED connection
    BY <1>1 DEF Web!PollsOn
  <2>2. c \in Timers
    BY <1>1 DEF WebInv, Web!Callers
  <2> QED
    BY <1>0, <2>1, <2>2, WebEnds
<1>2. CASE calls[c].kind # "tick"
  <2>1. Web!Ends(c) /\ UNCHANGED <<connection, timers, reconnectTimer>>
    BY <1>2 DEF Web!PollsOn
  <2>2. c \notin Timers
    BY <1>2, CallRecords DEF WebInv
  <2> QED
    BY <1>0, <2>1, <2>2, WebEnds
<1> QED
  BY <1>1, <1>2


\* A call is made by the user.
LEMMA WebCalls ==
  ASSUME WebInv, NEW o \in Ops, Web!Refresh(o) \/ Web!Retry(o) \/ \E p \in Projects : Web!Load(o, p)
  PROVE  WebInv'
<1>0. o \in Web!Callers /\ current \in Projects
  BY CallRecords DEF WebInv
<1>1. CASE Web!Refresh(o)
  <2>1. Web!Waiting("refresh", "core", current) \in Calls /\ Web!Waiting("refresh", "core", current).kind = "refresh"
    BY <1>0, CallRecords
  <2> QED
    BY <1>0, <1>1, <2>1, WebGoesOn DEF Web!Refresh
<1>2. CASE Web!Retry(o)
  <2>1. Web!Waiting("retry", "projects", current) \in Calls /\ Web!Waiting("retry", "projects", current).kind = "retry"
    BY <1>0, CallRecords
  <2> QED
    BY <1>0, <1>2, <2>1, WebGoesOn DEF Web!Retry
<1>3. ASSUME NEW p \in Projects, Web!Load(o, p) PROVE WebInv'
  <2>1. Web!Waiting("load", "core", p) \in Calls /\ Web!Waiting("load", "core", p).kind = "load"
    BY CallRecords
  <2> QED
    BY <1>0, <1>3, <2>1, WebGoesOn DEF Web!Load
<1> QED
  BY <1>1, <1>2, <1>3

\* The projects are here, and the call goes on.
LEMMA WebListed == ASSUME WebInv, NEW c \in Web!Callers, Web!Listed(c) PROVE WebInv'
<1> DEFINE new == [calls[c] EXCEPT !.stage = "core", !.project = current]
<1>1. calls[c] \in Calls /\ calls[c].stage = "projects" /\ current \in Projects
  BY DEF WebInv, Web!Listed
<1>2. calls[c] # Web!Idle /\ calls[c].kind # "none"
  BY <1>1, CallRecords DEF WebInv
<1>3. new \in Calls /\ new.kind = calls[c].kind
  BY <1>1 DEF Calls
<1>4. calls' = [calls EXCEPT ![c] = new]
  BY DEF Web!Listed, WebInv
<1> HIDE DEF new
<1> QED
  BY <1>1, <1>2, <1>3, <1>4, WebGoesOn DEF Web!Listed

\* The board is here, and the page is in sync.
LEMMA WebRead == ASSUME WebInv, NEW c \in Web!Callers, Web!Read(c) PROVE WebInv'
<1>1. calls[c] \in Calls /\ calls[c].stage = "core"
  BY DEF WebInv, Web!Read
<1>2. calls[c] # Web!Idle /\ calls[c].project \in Projects
  BY <1>1, CallRecords DEF Calls
<1> QED
  BY <1>2, WebEnds DEF Web!Read, WebInv

\* A call that is not the poll's is not a timer's either.
LEMMA NotOfTimers ==
  ASSUME WebInv, NEW c \in Web!Callers, calls[c] # Web!Idle, ~Web!Polling(c)
  PROVE  c \notin Timers
  BY DEF WebInv, Web!Polling

\* The daemon is gone: a poll begins, unless one is about to start.
LEMMA WebDrops == ASSUME WebInv, NEW c \in Web!Callers, Web!Drops(c) PROVE WebInv'
<1>0. /\ current' \in Projects /\ shown' \in Projects \cup {Nothing} /\ timers \subseteq Timers
      /\ reconnectTimer \in timers \cup {Nothing}
  BY DEF Web!Drops, WebInv
<1>1. CASE Web!Polling(c)
  BY <1>1, WebPollsOn DEF Web!Drops
<1>2. CASE ~Web!Polling(c)
  <2>1. calls[c] # Web!Idle /\ Web!Ends(c) /\ connection' = "disconnected" /\ Web!ScheduleReconnect
    BY <1>2 DEF Web!Drops, Web!ScheduleReconnect
  <2>2. CASE reconnectTimer = Nothing
    <3>1. PICK t \in Timers \ timers :
            calls[t] = Web!Idle /\ timers' = timers \cup {t} /\ reconnectTimer' = t
      BY <2>1, <2>2 DEF Web!ScheduleReconnect, Web!SetTimer
    <3> QED
      BY <1>0, <2>1, <3>1, WebEnds
  <2>3. CASE reconnectTimer # Nothing
    <3>1. UNCHANGED <<timers, reconnectTimer>> /\ timers # {}
      BY <1>0, <2>1, <2>3 DEF Web!ScheduleReconnect
    <3> QED
      BY <1>0, <2>1, <3>1, WebEnds
  <2> QED
    BY <2>2, <2>3
<1> QED
  BY <1>1, <1>2

\* An operation that fails starts the poll, and a poll that fails goes on.
LEMMA WebErrs == ASSUME WebInv, NEW c \in Web!Callers, Web!Errs(c) PROVE WebInv'
<1>1. CASE Web!Polling(c)
  BY <1>1, WebPollsOn DEF Web!Errs
<1>2. CASE ~Web!Polling(c)
  <2>1. c \notin Timers
    BY <1>2, NotOfTimers DEF Web!Errs
  <2> QED
    BY <1>2, <2>1, WebEnds DEF Web!Errs, WebInv
<1> QED
  BY <1>1, <1>2

\* A timer fires: its tick is the poll from now on.
LEMMA WebFires == ASSUME WebInv, NEW t \in timers, Web!Fire(t) PROVE WebInv'
<1> DEFINE new == Web!Waiting("tick", "projects", current)
<1>1. t \in Timers /\ t \in Web!Callers /\ t \notin Ops /\ current \in Projects
  BY CallRecords DEF WebInv
<1>2. new \in Calls /\ new.kind = "tick" /\ new # Web!Idle
  BY <1>1, CallRecords
<1>3. /\ timers' = timers \ {t} /\ reconnectTimer' = Nothing /\ calls' = [calls EXCEPT ![t] = new]
      /\ UNCHANGED <<current, shown, connection>>
  BY DEF Web!Fire
<1> HIDE DEF new
<1>4. calls' \in [Web!Callers -> Calls] /\ calls'[t] = new
      /\ \A d \in Web!Callers \ {t} : calls'[d] = calls[d]
  BY <1>1, <1>2, <1>3 DEF WebInv
<1>5. Web!DownIsPolled'
  BY <1>1, <1>2, <1>4 DEF Web!DownIsPolled, Web!Ticking
<1>6. \A u \in timers' : calls'[u] = Web!Idle
  BY <1>3, <1>4, CallRecords DEF WebInv
<1>7. \A u \in Timers : calls'[u].kind \in {"none", "tick"}
  BY <1>1, <1>2, <1>4, CallRecords DEF WebInv
<1>8. \A d \in Web!Callers : calls'[d].kind = "none" => calls'[d] = Web!Idle
  BY <1>2, <1>4 DEF WebInv
<1>9. \A o \in Ops : calls'[o].kind # "tick"
  BY <1>1, <1>4, CallRecords DEF WebInv
<1> QED
  BY <1>3, <1>4, <1>5, <1>6, <1>7, <1>8, <1>9 DEF WebInv

\* The daemon goes: what is under way stays under way, and is lost.
LEMMA WebDown == ASSUME WebInv, Web!Down PROVE WebInv'
<1>1. /\ calls' = [c \in Web!Callers |->
                     IF calls[c] = Web!Idle THEN Web!Idle ELSE [calls[c] EXCEPT !.lost = TRUE]]
      /\ UNCHANGED <<current, shown, connection, timers, reconnectTimer>>
  BY DEF Web!Down
<1>2. ASSUME NEW c \in Web!Callers
      PROVE  /\ calls'[c] \in Calls /\ calls'[c].kind = calls[c].kind
             /\ calls'[c] = Web!Idle <=> calls[c] = Web!Idle
  <2>1. calls[c] \in Calls /\ (calls[c].kind = "none" => calls[c] = Web!Idle)
    BY DEF WebInv
  <2>2. CASE calls[c] = Web!Idle
    BY <1>1, <2>1, <2>2
  <2>3. CASE calls[c] # Web!Idle
    <3>1. calls'[c] \in Calls /\ calls'[c].kind = calls[c].kind
      BY <1>1, <2>1, <2>3 DEF Calls
    <3> QED
      BY <2>1, <2>3, <3>1, CallRecords
  <2> QED
    BY <2>2, <2>3
<1>3. calls' \in [Web!Callers -> Calls]
  BY <1>1, <1>2
<1>4. /\ \A c \in Web!Callers : calls'[c].kind = "none" => calls'[c] = Web!Idle
      /\ \A t \in timers : calls'[t] = Web!Idle
      /\ \A t \in Timers : calls'[t].kind \in {"none", "tick"}
      /\ \A o \in Ops : calls'[o].kind # "tick"
  BY <1>2, CallRecords DEF WebInv
<1>5. Web!DownIsPolled'
  <2>1. connection' = connection /\ timers' = timers
    BY <1>1
  <2>2. \A t \in Timers : calls'[t] = Web!Idle <=> calls[t] = Web!Idle
    BY <1>2, CallRecords
  <2>3. Web!Ticking' = Web!Ticking
    BY <2>2 DEF Web!Ticking
  <2>4. Web!DownIsPolled
    BY DEF WebInv
  <2> QED
    BY <2>1, <2>3, <2>4 DEF Web!DownIsPolled
<1> QED
  BY <1>1, <1>3, <1>4, <1>5 DEF WebInv

\* All of them.
LEMMA WebStays == ASSUME WebInv, [Web!WebNext]_webVars PROVE WebInv'
<1>1. CASE UNCHANGED webVars
  BY <1>1 DEF webVars, WebInv, Web!DownIsPolled, Web!Ticking
<1>2. CASE Web!Up
  BY <1>2 DEF Web!Up, WebInv, Web!DownIsPolled, Web!Ticking
<1> QED
  BY <1>1, <1>2, WebCalls, WebListed, WebRead, WebDrops, WebErrs, WebFires, WebDown
  DEF Web!WebNext, Web!Settles

-----------------------------------------------------------------------------
(* Three screens that share nothing.                                         *)

\* What is bounded; the board has its three parts; and nothing is cached while someone asks.
BoundInv ==
  /\ \A p \in Projects : rev[p] <= MaxRev
  /\ board = Nothing \/ board \in [1 .. Reads -> Snapshots]
  /\ mu # Nothing => cached = Nothing

\* No write is made yet.
LEMMA BoundAtFirst == BoardInit => BoundInv
<1> SUFFICES ASSUME BoardInit PROVE BoundInv
  OBVIOUS
<1>1. \A p \in Projects : rev[p] = 0
  BY DEF BoardInit
<1>2. 0 <= MaxRev
  <2>1. MaxRev \in Nat
    BY BoardAssumption
  <2> QED
    BY <2>1
<1> QED
  BY <1>1, <1>2 DEF BoardInit, BoundInv

\* A write is one below the bound.
LEMMA CountsOn ==
  ASSUME TypeInv, BoundInv, NEW p \in Projects, rev[p] < MaxRev, rev' = [rev EXCEPT ![p] = @ + 1]
  PROVE  \A q \in Projects : rev'[q] <= MaxRev
<1>1. \A q \in Projects : rev[q] \in Nat /\ rev'[q] = IF q = p THEN rev[q] + 1 ELSE rev[q]
  BY DEF TypeInv
<1>2. MaxRev \in Nat
  BY BoardAssumption
<1> QED
  BY <1>1, <1>2 DEF BoundInv

\* Writes are counted within the bound, and a fetch only begins on an empty cache.
LEMMA BoundStays == ASSUME TypeInv, BoundInv, [BoardNext]_boardVars PROVE BoundInv'
<1>1. ASSUME NEW c \in Commands, Write(c) \/ ReplyLost(c) PROVE BoundInv'
  <2>1. running[c].target \in Projects
    BY DEF TypeInv, States
  <2>2. \A q \in Projects : rev'[q] <= MaxRev
    BY <1>1, <2>1, CountsOn DEF Write, ReplyLost
  <2> QED
    BY <1>1, <2>2 DEF BoundInv, Write, ReplyLost
<1>2. ASSUME NEW p \in Projects, Elsewhere(p) PROVE BoundInv'
  <2>1. \A q \in Projects : rev'[q] <= MaxRev
    BY <1>2, CountsOn DEF Elsewhere
  <2> QED
    BY <1>2, <2>1 DEF BoundInv, Elsewhere
<1>3. ASSUME NEW c \in Commands, Deliver(c) PROVE BoundInv'
  <2>1. running[c].got \in Seq(Snapshots) /\ Len(running[c].got) = Reads
    BY <1>3 DEF TypeInv, States, Deliver
  <2>2. running[c].got \in [1 .. Reads -> Snapshots]
    BY <2>1
  <2> QED
    BY <1>3, <2>2 DEF BoundInv, Deliver
<1>4. ASSUME NEW c \in Commands, Hit(c) \/ Fetch(c) \/ Fetched(c) \/ FetchFails(c) \/ Invalidate(c) \/ Refused(c)
      PROVE  BoundInv'
  BY <1>4 DEF BoundInv, Hit, Fetch, Fetched, FetchFails, Invalidate, Refused
<1>5. ASSUME NEW c \in Commands, Change(c) \/ \E p \in Projects : Open(c, p) PROVE BoundInv'
  BY <1>5 DEF BoundInv, Change, Open
<1>6. CASE GetSnapshot \/ UNCHANGED boardVars
  BY <1>6 DEF BoundInv, GetSnapshot, boardVars
<1> QED
  BY <1>1, <1>2, <1>3, <1>4, <1>5, <1>6 DEF BoardNext, Answering, Locking

\* All that holds of the three.
BoardInv == TypeInv /\ LockInv /\ CacheInv /\ WriteInv /\ ForwardInv /\ BoundInv
UndoInv == KeyInv /\ ClosesInv /\ SyncInv /\ HistoryInv
ScreensInv == BoardInv /\ UndoInv /\ WebInv

\* The board of the terminal client, with all parts of its invariant.
LEMMA BoardHolds ==
  /\ BoardInit => BoardInv
  /\ BoardInv /\ [BoardNext]_boardVars => BoardInv'
<1>1. BoardInit => BoardInv
  BY TypesAtFirst, LockAtFirst, CacheAtFirst, WriteAtFirst, ForwardAtFirst, BoundAtFirst DEF BoardInv
<1>2. ASSUME BoardInv, [BoardNext]_boardVars PROVE BoardInv'
  BY <1>2, TypesStay, LockStays, CacheStays, WriteStays, ForwardStays, BoundStays DEF BoardInv
<1> QED
  BY <1>1, <1>2

\* Its key u.
LEMMA UndoHolds ==
  /\ KeyU!UndoInit => UndoInv
  /\ UndoInv /\ [KeyU!UndoNext]_undoVars => UndoInv'
<1>1. KeyU!UndoInit => SyncInv /\ HistoryInv
  BY DEF KeyU!UndoInit, SyncInv, HistoryInv
<1>2. KeyU!UndoInit => UndoInv
  BY <1>1, KeyAtFirst DEF UndoInv
<1>3. ASSUME UndoInv, [KeyU!UndoNext]_undoVars PROVE UndoInv'
  BY <1>3, KeyStays, SyncStays, HistoryStays DEF UndoInv
<1> QED
  BY <1>2, <1>3

\* A step is one of the board, of the key u or of the page, and leaves the others alone.
LEMMA ScreensApart ==
  ASSUME [ScreensNext]_<<boardVars, undoVars, webVars, scene>>
  PROVE  [BoardNext]_boardVars /\ [KeyU!UndoNext]_undoVars /\ [Web!WebNext]_webVars
BY DEF ScreensNext

\* And the page of the browser client.
LEMMA ScreensHold == ScreensSpec => []ScreensInv
<1>1. ScreensInit => ScreensInv
  BY BoardHolds, UndoHolds, WebAtFirst DEF ScreensInit, ScreensInv
<1>2. ScreensInv /\ [ScreensNext]_<<boardVars, undoVars, webVars, scene>> => ScreensInv'
  <2> SUFFICES ASSUME ScreensInv, [ScreensNext]_<<boardVars, undoVars, webVars, scene>> PROVE ScreensInv'
    OBVIOUS
  <2>1. [BoardNext]_boardVars /\ [KeyU!UndoNext]_undoVars /\ [Web!WebNext]_webVars
    BY ScreensApart
  <2> QED
    BY <2>1, BoardHolds, UndoHolds, WebStays DEF ScreensInv
<1> QED
  BY <1>1, <1>2, PTL DEF ScreensSpec

\* What one command reads for the three parts of the board it reads in the order of the
\* project's history: the cache is never replaced by an older snapshot of the same project,
\* whoever else invalidates it, writes, and fetches again between the three reads.
THEOREM ReadsGoForward == ScreensSpec => []LoadsGoForward
<1>1. ScreensInv => LoadsGoForward
  BY DEF ScreensInv, BoardInv, ForwardInv
<1> QED
  BY <1>1, ScreensHold, PTL

\* u takes the latest change back: once it is through, every node has the status it had, if that
\* change was one of a single status, that nothing refused and that was over before anything
\* else began.
THEOREM UndoGivesBack == ScreensSpec => []UndoReverses
<1>1. ScreensInv => UndoReverses
  <2> SUFFICES ASSUME ScreensInv, lastStatus = None, KeyU!AllIdle, before # {} PROVE before = {status}
    BY DEF UndoReverses, KeyU!UndoReverses
  <2>1. PICK b \in [KeyU!Nodes -> Values], n \in Tasks, to \in KeyU!Settable :
          before = {b} /\ b[n] \in KeyU!Settable /\ Changed(b, n, to)
    BY DEF ScreensInv, UndoInv, HistoryInv
  <2>2. \A q : ~Sends(q)
    BY DEF Sends, KeyU!AllIdle
  <2>3. KeyU!Request(n, b[n]) # None
    BY <2>1, KeyIds DEF KeyU!Request
  <2> QED
    BY <2>1, <2>2, <2>3 DEF Changed
<1> QED
  BY <1>1, ScreensHold, PTL

\* A task becomes DONE by a cascade only when the steps that the user had it close are closed,
\* however many there are, whatever fails and whatever runs at the same time.
THEOREM StepsCloseFirst == ScreensSpec => ClosesStepsFirst
<1>1. ASSUME ScreensInv, [KeyU!UndoNext]_undoVars, NEW c \in Commands, NEW n \in Tasks,
             requested[c].requests # <<>>, Head(requested[c].requests) = KeyU!Request(n, "DONE"),
             NEW s \in requested[c].closes
      PROVE  status'[s] \in {"DONE", KeyU!Gone}
  BY <1>1, SubjectIsLast, StepsStayClosed DEF ScreensInv, UndoInv
<1>2. ScreensInv /\ [ScreensNext]_<<boardVars, undoVars, webVars, scene>> =>
        [\A c \in Commands, n \in Tasks : LET r == requested[c] IN
           /\ r.requests # <<>> /\ Head(r.requests) = KeyU!Request(n, "DONE")
           /\ requested'[c] # r /\ status'[n] = "DONE" /\ status[n] # "DONE"
           => \A s \in r.closes : status'[s] \in {"DONE", KeyU!Gone}]_undoVars
  BY <1>1, ScreensApart
<1> QED
  BY <1>2, ScreensHold, PTL DEF ScreensSpec, ClosesStepsFirst, KeyU!ClosesStepsFirst, undoVars, KeyU!undoVars

\* No step leaves the page disconnected without a poll that is under way or about to start,
\* whatever loads, refreshes, retries and timers there are and however they end.
THEOREM PageIsPolled == ScreensSpec => StaysPolled
<1>1. ScreensInv /\ ScreensInv' => [Web!DownIsPolled']_webVars
  BY DEF ScreensInv, WebInv
<1> QED
  BY <1>1, ScreensHold, PTL DEF StaysPolled

\* Types; who holds the lock of the store reads while nothing is cached; what u is going to do
\* can be done; and the handle of the poll is that of a timer that has yet to fire.
THEOREM ScreensTypes == ScreensSpec => []ScreensTypeOK
<1>1. ScreensInv => ScreensTypeOK
  <2> SUFFICES ASSUME ScreensInv PROVE ScreensTypeOK
    OBVIOUS
  <2>1. BoardTypeOK
    <3>1. \A p \in Projects : /\ rev[p] \in Nat /\ told[p] \in Nat
                              /\ told[p] <= rev[p] /\ rev[p] <= MaxRev
      BY DEF ScreensInv, BoardInv, TypeInv, CacheInv, BoundInv
    <3>2. MaxRev \in Nat
      BY BoardAssumption
    <3>3. \A p \in Projects : rev[p] \in 0 .. MaxRev /\ told[p] \in 0 .. MaxRev
      <4>1. ASSUME NEW i \in Nat, NEW j \in Nat, i <= j, j <= MaxRev PROVE i \in 0 .. MaxRev /\ j \in 0 .. MaxRev
        BY <3>2, <4>1
      <4> QED
        BY <3>1, <4>1
    <3>4. rev \in [Projects -> 0 .. MaxRev] /\ told \in [Projects -> 0 .. MaxRev]
      BY <3>3 DEF ScreensInv, BoardInv, TypeInv
    <3>5. \A c \in Commands : running[c].step \in Steps
      BY DEF ScreensInv, BoardInv, TypeInv, States
    <3> QED
      BY <3>4, <3>5 DEF BoardTypeOK, ScreensInv, BoardInv, TypeInv, BoundInv, LockInv
  <2>2. KeyU!UndoTypeOK
    <3>1. KeyU!Cardinality(KeyU!StepIds) = Cardinality(KeyU!StepIds)
      BY DEF KeyU!Cardinality, Cardinality
    <3>2. KeyInv
      BY DEF ScreensInv, UndoInv
    <3>3. \A c \in Commands : Len(requested[c].requests) <= Cardinality(KeyU!StepIds) + 1
      BY <3>2 DEF KeyInv, Planned
    <3> QED
      BY <3>1, <3>2, <3>3 DEF KeyInv, KeyU!UndoTypeOK, Values
  <2>3. Web!WebTypeOK
    BY DEF ScreensInv, WebInv, Web!WebTypeOK
  <2> QED
    BY <2>1, <2>2, <2>3 DEF ScreensTypeOK
<1> QED
  BY <1>1, ScreensHold, PTL
=============================================================================

----------------------------- MODULE PartsProofs -----------------------------
(***************************************************************************)
(* The parts that stand alone: the launcher's lock and its records, the    *)
(* walk over the map, enrolment, the population gate and the tables of the *)
(* duplicate set, for every number of processes, worlds, organisms and     *)
(* keys.                                                                   *)
(***************************************************************************)
EXTENDS DedupShard, MapWalk, Admission, Launcher, Enrollment, FiniteSetTheorems,
        SequenceTheorems, WellFoundedInduction, TLAPS

-----------------------------------------------------------------------------
(* The launcher. *)

Breaking == {"break start", "break stop"}
Coming == {"start", "stop"} \cup Breaking
Starting == {"refuse", "claim", "spawn", "record", "mod"}
Stopping == {"read", "ask", "asked", "wait", "gone"}
Inside == Starting \cup Stopping \cup {"release"}

LauncherTypes ==
    /\ doing \in [Proc -> {"idle", "dead"} \cup Coming \cup Inside]
    /\ lock \in Proc \cup {Nobody}
    /\ mine \in [Proc -> Nat] /\ games \in Nat /\ pidFile \in Nat /\ command \in Nat
    /\ running \subseteq 1..games /\ quitting \subseteq Nat \X Nat

(* One launcher comes to the lock at a time, so what is broken is what it   *)
(* looked at; whoever is inside holds the lock.                             *)
OneComes == \A k, l \in Proc : doing[k] \in Coming /\ doing[l] \in Coming => k = l
HolderInside == \A l \in Proc : doing[l] \in Inside => lock = l
BreaksTheDead == \A l \in Proc : doing[l] \in Breaking => lock \in Proc /\ doing[lock] = "dead"
LockInv == OneComes /\ HolderInside /\ BreaksTheDead

(* What the launcher inside knows of the game.                              *)
Knows(l) ==
    /\ doing[l] \in {"claim", "spawn"} => running \subseteq orphans
    /\ doing[l] \in {"spawn", "record"} => pidFile = 0 /\ command = 0
    /\ doing[l] = "record" => mine[l] = games /\ running \subseteq orphans \cup {games}
    /\ doing[l] \in {"ask", "asked", "wait", "gone"} => mine[l] = pidFile
    /\ doing[l] = "ask" => pidFile # 0
    /\ doing[l] = "gone" => pidFile \notin running
InsideKnows == \A l \in Proc : Knows(l)
(* The pid file and the command file name the youngest game there is.       *)
NamesTheYoungest == \A g \in running :
    (pidFile # 0 => g <= pidFile) /\ (command # 0 => g <= command)
RecordInv == InsideKnows /\ NamesTheYoungest /\ RunningIsRecorded /\ QuitIsForThisGame

LauncherInv == LauncherTypes /\ LockInv /\ RecordInv

LEMMA LauncherInitInv == LauncherInit => LauncherInv
BY DEF LauncherInit, LauncherInv, LauncherTypes, LockInv, OneComes, HolderInside, BreaksTheDead,
       RecordInv, InsideKnows, Knows, NamesTheYoungest, RunningIsRecorded, QuitIsForThisGame,
       Breaking, Coming, Starting, Stopping, Inside

(* The moves of a launcher through the lock. *)
Comes(l) == /\ doing[l] = "idle" /\ doing'[l] \in {"start", "stop"} /\ lock' = lock
            /\ \A k \in Proc : doing[k] \notin Coming
Enters(l) == doing[l] \in {"start", "stop"} /\ doing'[l] \in {"refuse", "read"} /\ lock = Nobody /\ lock' = l
Looks(l) == /\ doing[l] \in {"start", "stop"} /\ lock' = lock /\ lock # Nobody
            /\ \/ doing'[l] \in Breaking /\ doing[lock] = "dead"
               \/ doing'[l] = "idle"
Breaks(l) == doing[l] \in Breaking /\ doing'[l] \in {"start", "stop"} /\ lock' = Nobody
Leaves(l) == doing[l] = "release" /\ doing'[l] = "idle" /\ lock' = Nobody
Works(l) == doing[l] \in Inside /\ doing'[l] \in Inside /\ lock' = lock
Falls(l) == doing[l] \in Coming \cup Inside /\ doing'[l] = "dead" /\ lock' = lock

Launches(l) ==
    \/ Begin(l) \/ CreateLock(l) \/ LookAtLock(l) \/ Break(l) \/ release(l)
    \/ refuseStart(l) \/ Claim(l) \/ Spawn(l) \/ Record(l) \/ waitForMod(l)
    \/ stopProcess(l) \/ askModToQuit(l) \/ QuitAnswered(l) \/ Forced(l) \/ StopFailed(l)
    \/ Forget(l) \/ Dies(l)

LEMMA LauncherMoves ==
    ASSUME OneBreaks, LauncherTypes, NEW l \in Proc, Launches(l)
    PROVE  /\ \A k \in Proc : k # l => doing'[k] = doing[k]
           /\ doing' \in [Proc -> {"idle", "dead"} \cup Coming \cup Inside]
           /\ \/ Comes(l) \/ Enters(l) \/ Looks(l) \/ Breaks(l) \/ Leaves(l) \/ Works(l)
              \/ Falls(l)
<1>1. PICK step \in {"idle", "dead"} \cup Coming \cup Inside : doing' = [doing EXCEPT ![l] = step]
  BY
     DEF Launches, Begin, CreateLock, LookAtLock, Break, release, refuseStart, Claim, Spawn,
         Record, waitForMod, stopProcess, askModToQuit, QuitAnswered, Forced, StopFailed,
         Forget, Dies,
         Go, Coming, Breaking, Inside, Starting, Stopping
<1>2. doing'[l] = step /\ doing[l] \in {"idle", "dead"} \cup Coming \cup Inside
  BY <1>1 DEF LauncherTypes
<1>3. CASE Begin(l)
  BY <1>1, <1>2, <1>3, OneBreaks
     DEF Begin, Comes, LauncherTypes, Go, pidVars,
         Breaking, Coming, Starting, Stopping, Inside
<1>4. CASE CreateLock(l)
  BY <1>1, <1>2, <1>4, OneBreaks
     DEF CreateLock, Enters, LauncherTypes, Go, pidVars,
         Breaking, Coming, Starting, Stopping, Inside
<1>5. CASE LookAtLock(l)
  BY <1>1, <1>2, <1>5, OneBreaks
     DEF LookAtLock, Looks, LauncherTypes, Go, pidVars, Breakable,
         Breaking, Coming, Starting, Stopping, Inside
<1>6. CASE Break(l)
  BY <1>1, <1>2, <1>6, OneBreaks
     DEF Break, Breaks, LauncherTypes, Go, pidVars,
         Breaking, Coming, Starting, Stopping, Inside
<1>7. CASE release(l)
  BY <1>1, <1>2, <1>7, OneBreaks
     DEF release, Leaves, LauncherTypes, Go, pidVars,
         Breaking, Coming, Starting, Stopping, Inside
<1>8. CASE refuseStart(l)
  BY <1>1, <1>2, <1>8, OneBreaks
     DEF refuseStart, Works, LauncherTypes, Go, pidVars,
         Breaking, Coming, Starting, Stopping, Inside
<1>9. CASE Claim(l)
  BY <1>1, <1>2, <1>9, OneBreaks
     DEF Claim, Works, LauncherTypes, Go, pidVars,
         Breaking, Coming, Starting, Stopping, Inside
<1>10. CASE Spawn(l)
  BY <1>1, <1>2, <1>10, OneBreaks
     DEF Spawn, Works, LauncherTypes, Go, pidVars,
         Breaking, Coming, Starting, Stopping, Inside
<1>11. CASE Record(l)
  BY <1>1, <1>2, <1>11, OneBreaks
     DEF Record, Works, LauncherTypes, Go, pidVars,
         Breaking, Coming, Starting, Stopping, Inside
<1>12. CASE waitForMod(l)
  BY <1>1, <1>2, <1>12, OneBreaks
     DEF waitForMod, Works, LauncherTypes, Go, pidVars,
         Breaking, Coming, Starting, Stopping, Inside
<1>13. CASE stopProcess(l)
  BY <1>1, <1>2, <1>13, OneBreaks
     DEF stopProcess, Works, LauncherTypes, Go, pidVars,
         Breaking, Coming, Starting, Stopping, Inside
<1>14. CASE askModToQuit(l)
  BY <1>1, <1>2, <1>14, OneBreaks
     DEF askModToQuit, Works, LauncherTypes, Go, pidVars,
         Breaking, Coming, Starting, Stopping, Inside
<1>15. CASE QuitAnswered(l)
  BY <1>1, <1>2, <1>15, OneBreaks
     DEF QuitAnswered, Works, LauncherTypes, Go, pidVars,
         Breaking, Coming, Starting, Stopping, Inside
<1>16. CASE Forced(l)
  BY <1>1, <1>2, <1>16, OneBreaks
     DEF Forced, Works, LauncherTypes, Go, pidVars,
         Breaking, Coming, Starting, Stopping, Inside
<1>17. CASE StopFailed(l)
  BY <1>1, <1>2, <1>17, OneBreaks
     DEF StopFailed, Works, LauncherTypes, Go, pidVars,
         Breaking, Coming, Starting, Stopping, Inside
<1>18. CASE Forget(l)
  BY <1>1, <1>2, <1>18, OneBreaks
     DEF Forget, Works, LauncherTypes, Go, pidVars,
         Breaking, Coming, Starting, Stopping, Inside
<1>19. CASE Dies(l)
  BY <1>1, <1>2, <1>19, OneBreaks
     DEF Dies, Falls, LauncherTypes, Go, pidVars, Alive,
         Breaking, Coming, Starting, Stopping, Inside
<1>20. doing' \in [Proc -> {"idle", "dead"} \cup Coming \cup Inside] /\ \A k \in Proc : k # l => doing'[k] = doing[k]
  BY <1>1 DEF LauncherTypes
<1> QED
  BY <1>3, <1>4, <1>5, <1>6, <1>7, <1>8, <1>9, <1>10, <1>11, <1>12, <1>13, <1>14, <1>15,
     <1>16, <1>17, <1>18, <1>19, <1>20
     DEF Launches

(* One launcher is inside, and the lock stays its own. *)
LEMMA LockKept ==
    ASSUME OneBreaks, LauncherTypes, LockInv, NEW l \in Proc, Launches(l)
    PROVE  LockInv'
<1>1. /\ \A k \in Proc : k # l => doing'[k] = doing[k]
      /\ \/ Comes(l) \/ Enters(l) \/ Looks(l) \/ Breaks(l) \/ Leaves(l) \/ Works(l) \/ Falls(l)
  BY LauncherMoves
<1>2. OneComes /\ HolderInside /\ BreaksTheDead
  BY DEF LockInv
<1>3. OneComes'
  BY <1>1, <1>2 DEF OneComes, Comes, Enters, Looks, Breaks, Leaves, Works, Falls, Coming, Breaking,
                    Starting, Stopping, Inside
<1>4. HolderInside'
  <2>1. ASSUME NEW k \in Proc, doing'[k] \in Inside, k # l PROVE lock' = k
    <3>1. doing[k] \in Inside /\ lock = k /\ lock # Nobody
      BY <1>1, <1>2, <2>1, ProcAssumption DEF HolderInside
    <3>2. ~Breaks(l)
      BY <1>2, <3>1 DEF Breaks, BreaksTheDead, Starting, Stopping, Inside
    <3>3. ~Leaves(l)
      BY <1>2, <2>1, <3>1 DEF Leaves, HolderInside, Inside
    <3> QED
      BY <1>1, <3>1, <3>2, <3>3 DEF Comes, Enters, Looks, Works, Falls
  <2>2. ASSUME doing'[l] \in Inside PROVE lock' = l
    BY <1>1, <1>2, <2>2
       DEF HolderInside, Comes, Enters, Looks, Breaks, Leaves, Works, Falls, Coming, Breaking,
           Starting, Stopping, Inside
  <2> QED
    BY <2>1, <2>2 DEF HolderInside
<1>5. BreaksTheDead'
  <2>1. ASSUME NEW k \in Proc, doing'[k] \in Breaking, k # l PROVE lock' \in Proc /\ doing'[lock'] = "dead"
    <3>1. doing[k] \in Breaking /\ lock \in Proc /\ doing[lock] = "dead"
      BY <1>1, <1>2, <2>1 DEF BreaksTheDead
    <3>2. doing[l] \notin Coming
      BY <1>2, <2>1, <3>1 DEF OneComes, Coming
    <3>3. lock # l
      BY <1>1, <3>1 DEF Comes, Enters, Looks, Breaks, Leaves, Works, Falls, Coming, Breaking,
                        Starting, Stopping, Inside
    <3>4. lock' = lock
      BY <1>1, <1>2, <3>2, <3>3
         DEF HolderInside, Comes, Enters, Looks, Breaks, Leaves, Works, Falls, Coming, Inside
    <3> QED
      BY <1>1, <3>1, <3>3, <3>4
  <2>2. ASSUME doing'[l] \in Breaking PROVE lock' \in Proc /\ doing'[lock'] = "dead"
    <3>1. doing[lock] = "dead" /\ lock' = lock /\ lock # l /\ lock # Nobody
      BY <1>1, <2>2 DEF Comes, Enters, Looks, Breaks, Leaves, Works, Falls, Coming, Breaking,
                        Starting, Stopping, Inside
    <3> QED
      BY <1>1, <3>1 DEF LauncherTypes
  <2> QED
    BY <2>1, <2>2 DEF BreaksTheDead
<1> QED
  BY <1>3, <1>4, <1>5 DEF LockInv

(* A launcher's step keeps the types. *)
LEMMA LauncherTypesKept ==
    ASSUME OneBreaks, LauncherTypes, NEW l \in Proc, Launches(l)
    PROVE  LauncherTypes'
<1>1. doing' \in [Proc -> {"idle", "dead"} \cup Coming \cup Inside]
  BY LauncherMoves
<1>2. lock' \in Proc \cup {Nobody}
  BY
     DEF LauncherTypes, Launches, Begin, CreateLock, LookAtLock, Break, release,
         refuseStart, Claim, Spawn, Record, waitForMod, stopProcess, askModToQuit,
         QuitAnswered, Forced, StopFailed, Forget, Dies, pidVars
<1>3. games' \in Nat /\ running' \subseteq 1..games'
  <2>1. CASE Spawn(l)
    <3>1. games \in Nat /\ running \subseteq 1..games
      BY DEF LauncherTypes
    <3>2. \/ games' = games /\ running' = running
          \/ games' = games + 1 /\ running' = running \cup {games'}
      BY <2>1 DEF Spawn
    <3>3. \A g \in 1..games : g \in 1..games + 1
      BY <3>1
    <3>4. games + 1 \in 1..games + 1
      BY <3>1
    <3>5. CASE running' = running /\ games' = games
      BY <3>1, <3>5
    <3>6. CASE games' = games + 1 /\ running' = running \cup {games'}
      <4>1. games' \in Nat
        BY <3>1, <3>6
      <4>2. \A g \in running' : g \in 1..games'
        BY <3>1, <3>3, <3>4, <3>6
      <4> QED
        BY <4>1, <4>2
    <3> QED
      BY <3>2, <3>5, <3>6
  <2>2. CASE ~Spawn(l)
    BY <2>2
       DEF LauncherTypes, Launches, Begin, CreateLock, LookAtLock, Break, release,
           refuseStart, Claim, Record, waitForMod, stopProcess, askModToQuit, QuitAnswered,
           Forced, StopFailed, Forget, Dies, pidVars
  <2> QED
    BY <2>1, <2>2
<1>4. mine' \in [Proc -> Nat]
  <2>1. games + 1 \in Nat /\ pidFile \in Nat /\ 0 \in Nat
    BY DEF LauncherTypes
  <2> QED
    BY <2>1
       DEF LauncherTypes, Launches, Begin, CreateLock, LookAtLock, Break, release,
           refuseStart, Claim, Spawn, Record, waitForMod, stopProcess, askModToQuit,
           QuitAnswered, Forced, StopFailed, Forget, Dies, pidVars
<1>5. pidFile' \in Nat /\ command' \in Nat /\ quitting' \subseteq Nat \X Nat
  <2>1. mine[l] \in Nat /\ 0 \in Nat /\ pidFile \in Nat /\ command \in Nat
        /\ quitting \subseteq Nat \X Nat
    BY DEF LauncherTypes
  <2>2. pidFile' \in {pidFile, 0, mine[l]} /\ command' \in {command, 0, mine[l]}
        /\ quitting' = quitting
    BY
       DEF Launches, Begin, CreateLock, LookAtLock, Break, release, refuseStart, Claim,
           Spawn, Record, waitForMod, stopProcess, askModToQuit, QuitAnswered, Forced,
           StopFailed, Forget, Dies, pidVars
  <2> QED
    BY <2>1, <2>2
<1> QED
  BY <1>1, <1>2, <1>3, <1>4, <1>5 DEF LauncherTypes

(* What the launcher inside knows stays true, whoever steps. *)
LEMMA RecordsKept ==
    ASSUME OneBreaks, LauncherTypes, LockInv, RecordInv, NEW l \in Proc, Launches(l)
    PROVE  RecordInv'
<1>1. /\ \A k \in Proc : k # l => doing'[k] = doing[k]
      /\ \A k \in Proc : Knows(k)
      /\ NamesTheYoungest /\ RunningIsRecorded /\ QuitIsForThisGame
  BY LauncherMoves DEF RecordInv, InsideKnows
<1>2. LauncherTypes /\ LauncherTypes' /\ LockInv'
  BY LauncherTypesKept, LockKept
<1>3. ASSUME Begin(l) \/ CreateLock(l) \/ LookAtLock(l) \/ Break(l) \/ release(l)
      PROVE  RecordInv'
  <2>1. /\ UNCHANGED pidVars /\ \A k \in Proc : k # l => mine'[k] = mine[k]
        /\ doing[l] # "record"
        /\ doing'[l] \in {"idle", "refuse", "read"} \cup Coming
    BY <1>2, <1>3
       DEF Begin, CreateLock, LookAtLock, Break, release, Go, LauncherTypes, Coming,
           Breaking
  <2>2. ASSUME NEW k \in Proc PROVE Knows(k)'
    <3>1. CASE k = l
      BY <2>1, <3>1 DEF Knows, Coming, Breaking
    <3>2. CASE k # l
      BY <1>1, <2>1, <3>2 DEF Knows, pidVars
    <3> QED
      BY <3>1, <3>2
  <2>3. NamesTheYoungest' /\ QuitIsForThisGame'
    BY <1>1, <2>1 DEF NamesTheYoungest, QuitIsForThisGame, pidVars
  <2>4. RunningIsRecorded'
    BY <1>1, <2>1 DEF RunningIsRecorded, pidVars
  <2> QED
    BY <2>2, <2>3, <2>4 DEF RecordInv, InsideKnows
(* Of the launchers inside there is one. *)
<1>4. ASSUME doing[l] \in Inside, NEW k \in Proc, k # l
      PROVE  doing[k] \notin Inside /\ doing'[k] \notin Inside
  BY <1>1, <1>4 DEF LockInv, HolderInside
<1>5. ASSUME NEW k \in Proc, k # l, doing[l] \in Inside PROVE Knows(k)'
  BY <1>4, <1>5 DEF Knows, Inside, Starting, Stopping
<1>6. ASSUME doing[l] \in Inside, doing[l] # "record" PROVE \A g \in running \ orphans : pidFile = g
  BY <1>1, <1>4, <1>6 DEF RunningIsRecorded, Inside, Starting
<1>7. Knows(l) /\ running \subseteq 1..games /\ games \in Nat /\ pidFile \in Nat /\ command \in Nat
      /\ doing \in [Proc -> {"idle", "dead"} \cup Coming \cup Inside] /\ mine \in [Proc -> Nat]
  BY <1>1 DEF LauncherTypes
<1>8. 0 \notin running
  BY <1>7
<1>9. \A s : /\ doing' = [doing EXCEPT ![l] = s] => doing'[l] = s
             /\ mine' = [mine EXCEPT ![l] = s] => mine'[l] = s
  BY <1>7
<1>10. CASE refuseStart(l)
  <2>7. /\ doing[l] = "refuse"
        /\ UNCHANGED <<mine, pidVars>>
    BY <1>7, <1>9, <1>10 DEF refuseStart, Go, pidVars, Live
  <2>8. \/ doing'[l] = "claim" /\ pidFile \notin running
        \/ doing'[l] = "release"
    BY <1>7, <1>9, <1>10 DEF refuseStart, Go, pidVars, Live
  <2>1. /\ doing[l] = "refuse"
        /\ UNCHANGED <<mine, pidVars>>
        /\ \/ doing'[l] = "claim" /\ pidFile \notin running
           \/ doing'[l] = "release"
    BY <2>7, <2>8
  <2>2. doing[l] \in Inside
    BY <2>1 DEF Inside, Starting, Stopping
  <2>3. Knows(l)'
    BY <1>6, <1>7, <1>8, <2>1, <2>2 DEF Knows, pidVars
  <2>4. NamesTheYoungest'
    BY <1>1, <1>7, <2>1 DEF NamesTheYoungest, Knows, pidVars
  <2>5. RunningIsRecorded'
    BY <1>6, <1>7, <2>1, <2>2 DEF RunningIsRecorded, Knows, pidVars
  <2>6. QuitIsForThisGame'
    BY <1>1, <2>1 DEF QuitIsForThisGame, pidVars
  <2> QED
    BY <1>5, <2>2, <2>3, <2>4, <2>5, <2>6 DEF RecordInv, InsideKnows
<1>11. CASE Claim(l)
  <2>1. /\ doing[l] = "claim"
        /\ doing'[l] = "spawn"
        /\ pidFile' = 0
        /\ command' = 0
        /\ UNCHANGED <<mine, running, quitting, orphans, games>>
    BY <1>7, <1>9, <1>11 DEF Claim, Go, pidVars
  <2>2. doing[l] \in Inside
    BY <2>1 DEF Inside, Starting, Stopping
  <2>3. Knows(l)'
    BY <1>6, <1>7, <1>8, <2>1, <2>2 DEF Knows, pidVars
  <2>4. NamesTheYoungest'
    BY <1>1, <1>7, <2>1 DEF NamesTheYoungest, Knows, pidVars
  <2>5. RunningIsRecorded'
    BY <1>6, <1>7, <2>1, <2>2 DEF RunningIsRecorded, Knows, pidVars
  <2>6. QuitIsForThisGame'
    BY <1>1, <2>1 DEF QuitIsForThisGame, pidVars
  <2> QED
    BY <1>5, <2>2, <2>3, <2>4, <2>5, <2>6 DEF RecordInv, InsideKnows
<1>12. CASE Spawn(l)
  <2>7. /\ doing[l] = "spawn"
        /\ UNCHANGED <<pidFile, command, quitting, orphans>>
    BY <1>7, <1>9, <1>12 DEF Spawn, Go, pidVars
  <2>8. \/ doing'[l] = "record" /\ mine'[l] = games' /\ running' = running \cup {games'}
        \/ doing'[l] = "release" /\ UNCHANGED <<mine, running, games>>
    BY <1>7, <1>9, <1>12 DEF Spawn, Go, pidVars
  <2>1. /\ doing[l] = "spawn"
        /\ UNCHANGED <<pidFile, command, quitting, orphans>>
        /\ \/ doing'[l] = "record" /\ mine'[l] = games' /\ running' = running \cup {games'}
           \/ doing'[l] = "release" /\ UNCHANGED <<mine, running, games>>
    BY <2>7, <2>8
  <2>2. doing[l] \in Inside
    BY <2>1 DEF Inside, Starting, Stopping
  <2>3. Knows(l)'
    BY <1>6, <1>7, <1>8, <2>1, <2>2 DEF Knows, pidVars
  <2>4. NamesTheYoungest'
    <3>1. pidFile = 0 /\ command = 0
      BY <1>7, <2>1 DEF Knows
    <3> QED
      BY <2>1, <3>1 DEF NamesTheYoungest
  <2>5. RunningIsRecorded'
    BY <1>6, <1>7, <2>1, <2>2 DEF RunningIsRecorded, Knows, pidVars
  <2>6. QuitIsForThisGame'
    BY <1>1, <2>1 DEF QuitIsForThisGame, pidVars
  <2> QED
    BY <1>5, <2>2, <2>3, <2>4, <2>5, <2>6 DEF RecordInv, InsideKnows
<1>13. CASE Record(l)
  <2>7. /\ doing[l] = "record"
        /\ UNCHANGED <<mine, command, quitting, orphans, games>>
    BY <1>7, <1>9, <1>13 DEF Record, Go, pidVars
  <2>8. \/ doing'[l] = "mod" /\ pidFile' = mine[l] /\ running' = running
        \/ doing'[l] = "release" /\ pidFile' = pidFile /\ running' = running \ {mine[l]}
    BY <1>7, <1>9, <1>13 DEF Record, Go, pidVars
  <2>1. /\ doing[l] = "record"
        /\ UNCHANGED <<mine, command, quitting, orphans, games>>
        /\ \/ doing'[l] = "mod" /\ pidFile' = mine[l] /\ running' = running
           \/ doing'[l] = "release" /\ pidFile' = pidFile /\ running' = running \ {mine[l]}
    BY <2>7, <2>8
  <2>2. doing[l] \in Inside
    BY <2>1 DEF Inside, Starting, Stopping
  <2>3. Knows(l)'
    BY <1>6, <1>7, <1>8, <2>1, <2>2 DEF Knows, pidVars
  <2>4. NamesTheYoungest'
    <3>1. mine[l] = games /\ command = 0 /\ running \subseteq 1..games /\ games \in Nat /\ pidFile = 0
      BY <1>7, <2>1 DEF Knows
    <3>4. running' \subseteq running
      BY <2>1
    <3>2. \A g \in running' : g <= games
      BY <3>1, <3>4
    <3>3. pidFile' \in {games, 0} /\ command' = 0
      BY <2>1, <3>1
    <3> QED
      BY <3>2, <3>3 DEF NamesTheYoungest
  <2>5. RunningIsRecorded'
    BY <1>6, <1>7, <2>1, <2>2 DEF RunningIsRecorded, Knows, pidVars
  <2>6. QuitIsForThisGame'
    BY <1>1, <2>1 DEF QuitIsForThisGame, pidVars
  <2> QED
    BY <1>5, <2>2, <2>3, <2>4, <2>5, <2>6 DEF RecordInv, InsideKnows
<1>14. CASE waitForMod(l)
  <2>1. /\ doing[l] = "mod"
        /\ doing'[l] = "release"
        /\ UNCHANGED <<mine, pidVars>>
    BY <1>7, <1>9, <1>14 DEF waitForMod, Go, pidVars
  <2>2. doing[l] \in Inside
    BY <2>1 DEF Inside, Starting, Stopping
  <2>3. Knows(l)'
    BY <1>6, <1>7, <1>8, <2>1, <2>2 DEF Knows, pidVars
  <2>4. NamesTheYoungest'
    BY <1>1, <1>7, <2>1 DEF NamesTheYoungest, Knows, pidVars
  <2>5. RunningIsRecorded'
    BY <1>6, <1>7, <2>1, <2>2 DEF RunningIsRecorded, Knows, pidVars
  <2>6. QuitIsForThisGame'
    BY <1>1, <2>1 DEF QuitIsForThisGame, pidVars
  <2> QED
    BY <1>5, <2>2, <2>3, <2>4, <2>5, <2>6 DEF RecordInv, InsideKnows
<1>15. CASE stopProcess(l)
  <2>7. /\ doing[l] = "read"
        /\ mine'[l] = pidFile
        /\ UNCHANGED <<running, command, quitting, orphans, games>>
    BY <1>7, <1>9, <1>15 DEF stopProcess, Go, pidVars, Live
  <2>8. \/ doing'[l] = "ask" /\ pidFile \in running /\ pidFile' = pidFile
        \/ doing'[l] = "release" /\ pidFile \notin running /\ pidFile' = 0
    BY <1>7, <1>9, <1>15 DEF stopProcess, Go, pidVars, Live
  <2>1. /\ doing[l] = "read"
        /\ mine'[l] = pidFile
        /\ UNCHANGED <<running, command, quitting, orphans, games>>
        /\ \/ doing'[l] = "ask" /\ pidFile \in running /\ pidFile' = pidFile
           \/ doing'[l] = "release" /\ pidFile \notin running /\ pidFile' = 0
    BY <2>7, <2>8
  <2>2. doing[l] \in Inside
    BY <2>1 DEF Inside, Starting, Stopping
  <2>3. Knows(l)'
    BY <1>6, <1>7, <1>8, <2>1, <2>2 DEF Knows, pidVars
  <2>4. NamesTheYoungest'
    BY <1>1, <1>7, <2>1 DEF NamesTheYoungest, Knows, pidVars
  <2>5. RunningIsRecorded'
    BY <1>6, <1>7, <2>1, <2>2 DEF RunningIsRecorded, Knows, pidVars
  <2>6. QuitIsForThisGame'
    BY <1>1, <2>1 DEF QuitIsForThisGame, pidVars
  <2> QED
    BY <1>5, <2>2, <2>3, <2>4, <2>5, <2>6 DEF RecordInv, InsideKnows
<1>16. CASE askModToQuit(l)
  <2>1. /\ doing[l] = "ask"
        /\ doing'[l] = "asked"
        /\ command' = mine[l]
        /\ UNCHANGED <<mine, pidFile, running, quitting, orphans, games>>
    BY <1>7, <1>9, <1>16 DEF askModToQuit, Go, pidVars
  <2>2. doing[l] \in Inside
    BY <2>1 DEF Inside, Starting, Stopping
  <2>3. Knows(l)'
    BY <1>6, <1>7, <1>8, <2>1, <2>2 DEF Knows, pidVars
  <2>4. NamesTheYoungest'
    BY <1>1, <1>7, <2>1 DEF NamesTheYoungest, Knows, pidVars
  <2>5. RunningIsRecorded'
    BY <1>6, <1>7, <2>1, <2>2 DEF RunningIsRecorded, Knows, pidVars
  <2>6. QuitIsForThisGame'
    BY <1>1, <2>1 DEF QuitIsForThisGame, pidVars
  <2> QED
    BY <1>5, <2>2, <2>3, <2>4, <2>5, <2>6 DEF RecordInv, InsideKnows
<1>17. CASE QuitAnswered(l)
  <2>1. /\ doing[l] = "asked"
        /\ doing'[l] = "wait"
        /\ command' = 0
        /\ UNCHANGED <<mine, pidFile, running, quitting, orphans, games>>
    BY <1>7, <1>9, <1>17 DEF QuitAnswered, Go, pidVars
  <2>2. doing[l] \in Inside
    BY <2>1 DEF Inside, Starting, Stopping
  <2>3. Knows(l)'
    BY <1>6, <1>7, <1>8, <2>1, <2>2 DEF Knows, pidVars
  <2>4. NamesTheYoungest'
    BY <1>1, <1>7, <2>1 DEF NamesTheYoungest, Knows, pidVars
  <2>5. RunningIsRecorded'
    BY <1>6, <1>7, <2>1, <2>2 DEF RunningIsRecorded, Knows, pidVars
  <2>6. QuitIsForThisGame'
    BY <1>1, <2>1 DEF QuitIsForThisGame, pidVars
  <2> QED
    BY <1>5, <2>2, <2>3, <2>4, <2>5, <2>6 DEF RecordInv, InsideKnows
<1>18. CASE Forced(l)
  <2>1. /\ doing[l] = "wait"
        /\ doing'[l] = "gone"
        /\ running' = running \ {mine[l]}
        /\ UNCHANGED <<mine, pidFile, command, quitting, orphans, games>>
    BY <1>7, <1>9, <1>18 DEF Forced, Go, pidVars
  <2>2. doing[l] \in Inside
    BY <2>1 DEF Inside, Starting, Stopping
  <2>3. Knows(l)'
    BY <1>6, <1>7, <1>8, <2>1, <2>2 DEF Knows, pidVars
  <2>4. NamesTheYoungest'
    BY <1>1, <1>7, <2>1 DEF NamesTheYoungest, Knows, pidVars
  <2>5. RunningIsRecorded'
    BY <1>6, <1>7, <2>1, <2>2 DEF RunningIsRecorded, Knows, pidVars
  <2>6. QuitIsForThisGame'
    BY <1>1, <2>1 DEF QuitIsForThisGame, pidVars
  <2> QED
    BY <1>5, <2>2, <2>3, <2>4, <2>5, <2>6 DEF RecordInv, InsideKnows
<1>19. CASE StopFailed(l)
  <2>1. /\ doing[l] = "wait"
        /\ doing'[l] = "release"
        /\ UNCHANGED <<mine, pidVars>>
    BY <1>7, <1>9, <1>19 DEF StopFailed, Go, pidVars
  <2>2. doing[l] \in Inside
    BY <2>1 DEF Inside, Starting, Stopping
  <2>3. Knows(l)'
    BY <1>6, <1>7, <1>8, <2>1, <2>2 DEF Knows, pidVars
  <2>4. NamesTheYoungest'
    BY <1>1, <1>7, <2>1 DEF NamesTheYoungest, Knows, pidVars
  <2>5. RunningIsRecorded'
    BY <1>6, <1>7, <2>1, <2>2 DEF RunningIsRecorded, Knows, pidVars
  <2>6. QuitIsForThisGame'
    BY <1>1, <2>1 DEF QuitIsForThisGame, pidVars
  <2> QED
    BY <1>5, <2>2, <2>3, <2>4, <2>5, <2>6 DEF RecordInv, InsideKnows
<1>20. CASE Forget(l)
  <2>1. /\ doing[l] = "gone"
        /\ doing'[l] = "release"
        /\ pidFile' = 0
        /\ UNCHANGED <<mine, running, command, quitting, orphans, games>>
    BY <1>7, <1>9, <1>20 DEF Forget, Go, pidVars
  <2>2. doing[l] \in Inside
    BY <2>1 DEF Inside, Starting, Stopping
  <2>3. Knows(l)'
    BY <1>6, <1>7, <1>8, <2>1, <2>2 DEF Knows, pidVars
  <2>4. NamesTheYoungest'
    BY <1>1, <1>7, <2>1 DEF NamesTheYoungest, Knows, pidVars
  <2>5. RunningIsRecorded'
    BY <1>6, <1>7, <2>1, <2>2 DEF RunningIsRecorded, Knows, pidVars
  <2>6. QuitIsForThisGame'
    BY <1>1, <2>1 DEF QuitIsForThisGame, pidVars
  <2> QED
    BY <1>5, <2>2, <2>3, <2>4, <2>5, <2>6 DEF RecordInv, InsideKnows
<1>21. CASE Dies(l)
  <2>1. /\ doing[l] \in Coming \cup Inside /\ doing'[l] = "dead"
        /\ UNCHANGED <<mine, pidFile, running, command, quitting, games>>
        /\ orphans \subseteq orphans' /\ (doing[l] = "record" => mine[l] \in orphans')
    BY <1>7, <1>21 DEF Dies, Alive, Go
  <2>2. ASSUME NEW k \in Proc PROVE Knows(k)'
    <3>1. CASE k = l
      BY <2>1, <3>1 DEF Knows
    <3>2. CASE k # l
      BY <1>1, <2>1, <3>2 DEF Knows
    <3> QED
      BY <3>1, <3>2
  <2>3. NamesTheYoungest' /\ QuitIsForThisGame'
    BY <1>1, <2>1 DEF NamesTheYoungest, QuitIsForThisGame
  <2>4. RunningIsRecorded'
    <3> SUFFICES ASSUME NEW g \in running' \ orphans', pidFile' # g
                 PROVE  \E k \in Proc : doing'[k] = "record" /\ mine'[k] = g
      BY DEF RunningIsRecorded
    <3>1. PICK k \in Proc : doing[k] = "record" /\ mine[k] = g
      BY <1>1, <2>1 DEF RunningIsRecorded
    <3>2. k # l
      BY <2>1, <3>1
    <3> QED
      BY <1>1, <2>1, <3>1, <3>2
  <2> QED
    BY <2>2, <2>3, <2>4 DEF RecordInv, InsideKnows
<1> QED
  BY <1>3, <1>10, <1>11, <1>12, <1>13, <1>14, <1>15, <1>16, <1>17, <1>18, <1>19, <1>20, <1>21
     DEF Launches

(* The game's steps: it takes a quit, or ends. *)
LEMMA GameKeeps ==
    ASSUME LauncherInv, NEW g \in Game, TakeQuit(g) \/ Exit(g)
    PROVE  LauncherInv'
<1>1. LauncherTypes /\ LockInv /\ RecordInv
  BY DEF LauncherInv
<1>2. UNCHANGED <<doing, mine, lock, pidFile, orphans, games>>
  BY DEF TakeQuit, Exit
<1>3. /\ running' \subseteq running /\ command' \in {command, 0}
      /\ \A q \in quitting' : q \in quitting \/ q = <<g, command>>
      /\ quitting' # quitting => g \in running /\ command # 0
  BY DEF TakeQuit, Exit
<1>4. ASSUME quitting' # quitting PROVE g \in Nat /\ command \in Nat
  <2>1. g \in 1..games /\ games \in Nat
    BY <1>1, <1>3, <1>4 DEF LauncherTypes
  <2> QED
    BY <1>1, <2>1 DEF LauncherTypes
<1>5. LauncherTypes'
  BY <1>1, <1>2, <1>3, <1>4 DEF LauncherTypes
<1>6. LockInv'
  BY <1>1, <1>2 DEF LockInv, OneComes, HolderInside, BreaksTheDead
<1>7. InsideKnows' /\ RunningIsRecorded'
  BY <1>1, <1>2, <1>3 DEF RecordInv, InsideKnows, Knows, RunningIsRecorded
<1>8. NamesTheYoungest'
  BY <1>1, <1>2, <1>3 DEF RecordInv, NamesTheYoungest
<1>9. QuitIsForThisGame'
  BY <1>1, <1>3 DEF RecordInv, NamesTheYoungest, QuitIsForThisGame
<1> QED
  BY <1>5, <1>6, <1>7, <1>8, <1>9 DEF LauncherInv, RecordInv

(* While nobody comes to the lock between the look at it and its removal,   *)
(* a running game is always on record, and no game takes the quit of an     *)
(* earlier one, for every number of launchers, games and kills (startGame,  *)
(* stopProcess, askModToQuit).                                              *)
THEOREM RecordsStayTrue ==
    ASSUME OneBreaks PROVE LauncherSpec => []RecordsAreTrue
<1>1. LauncherInit => LauncherInv
  BY LauncherInitInv
<1>2. LauncherInv /\ [LauncherNext]_launcherVars => LauncherInv'
  <2>1. ASSUME LauncherInv, NEW l \in Proc, Launches(l) PROVE LauncherInv'
    BY <2>1, LauncherTypesKept, LockKept, RecordsKept DEF LauncherInv
  <2>2. ASSUME LauncherInv, UNCHANGED launcherVars PROVE LauncherInv'
    BY <2>2 DEF launcherVars, LauncherInv, LauncherTypes, LockInv, OneComes, HolderInside,
                BreaksTheDead, RecordInv, InsideKnows, Knows, NamesTheYoungest, RunningIsRecorded,
                QuitIsForThisGame
  <2> QED
    BY <2>1, <2>2, GameKeeps DEF LauncherNext, Launches
<1>3. LauncherInv => RecordsAreTrue
  BY DEF LauncherInv, RecordInv, RecordsAreTrue
<1> QED
  BY <1>1, <1>2, <1>3, PTL DEF LauncherSpec

-----------------------------------------------------------------------------
(* Arithmetic of the torus. *)

LEMMA LeastNat ==
    ASSUME NEW T \in SUBSET Nat, T # {}
    PROVE  \E x \in T : \A y \in T : x <= y
<1> DEFINE R == {ss \in Nat \X Nat : ss[1] < ss[2]}
<1>1. OpToRel(<, Nat) = R
  BY DEF OpToRel
<1>2. PICK x \in T : \A y \in T : ~(<<y, x>> \in R)
  BY ZenonT(30), <1>1, NatLessThanWellFounded, WFMin
<1>3. ASSUME NEW y \in T PROVE x <= y
  <2>1. <<y, x>> \in Nat \X Nat /\ <<y, x>>[1] = y /\ <<y, x>>[2] = x
    OBVIOUS
  <2>2. ~(y < x)
    BY <1>2, <2>1
  <2> QED
    BY <2>2
<1> QED
  BY <1>3

LEMMA EarliestIsLeast ==
    ASSUME NEW T \in SUBSET Nat, T # {}
    PROVE  Earliest(T) \in T /\ \A j \in T : Earliest(T) <= j
BY LeastNat DEF Earliest

(* Quotient and remainder. *)
LEMMA DivMod ==
    ASSUME NEW n \in Nat \ {0}, NEW x \in Int
    PROVE  x = n * (x \div n) + (x % n) /\ x % n \in 0..n - 1 /\ x \div n \in Int
OBVIOUS

LEMMA MultiplesApart ==
    ASSUME NEW n \in Nat \ {0}, NEW x \in Int, NEW y \in Int, x < y
    PROVE  n * x + n <= n * y
<1>1. PICK d \in Nat : y = x + 1 + d
  <2>1. y - x - 1 \in Nat /\ y = x + 1 + (y - x - 1)
    OBVIOUS
  <2> QED
    BY <2>1
<1>2. n * y = n * x + n + n * d
  BY <1>1
<1>3. n * d \in Nat /\ n * x \in Int /\ n * y \in Int
  BY <1>1
<1> QED
  BY <1>2, <1>3

(* They are unique. *)
LEMMA DivModUnique ==
    ASSUME NEW n \in Nat \ {0}, NEW k \in 0..n - 1, NEW j \in Int
    PROVE  (n * j + k) % n = k /\ (n * j + k) \div n = j
<1> DEFINE x == n * j + k
           q == x \div n
           r == x % n
<1>0. x \in Int /\ n * j \in Int
  OBVIOUS
<1>1. x = n * q + r /\ r \in 0..n - 1 /\ q \in Int
  BY <1>0, DivMod
<1>2. n * q \in Int
  BY <1>1
<1>3. ~(q < j)
  <2>1. ASSUME q < j PROVE n * q + n <= n * j
    BY <1>1, <2>1, MultiplesApart
  <2> QED
    BY <1>0, <1>1, <1>2, <2>1
<1>4. ~(j < q)
  <2>1. ASSUME j < q PROVE n * j + n <= n * q
    BY <1>1, <2>1, MultiplesApart
  <2> QED
    BY <1>0, <1>1, <1>2, <2>1
<1>5. q = j
  BY <1>1, <1>3, <1>4
<1>6. r = k
  BY <1>0, <1>1, <1>5
<1> QED
  BY <1>5, <1>6

(* A remainder may be taken early. *)
LEMMA ModPlus ==
    ASSUME NEW n \in Nat \ {0}, NEW x \in Int, NEW d \in Int
    PROVE  ((x % n) + d) % n = (x + d) % n
<1> DEFINE q == x \div n
           r == x % n
           y == r + d
           p == y \div n
           m == y % n
<1>1. x = n * q + r /\ r \in Int /\ q \in Int
  BY DivMod
<1>2. y = n * p + m /\ m \in 0..n - 1 /\ p \in Int /\ y \in Int
  <2>1. y \in Int
    BY <1>1
  <2> QED
    BY <2>1, DivMod
<1>3. x + d = n * (q + p) + m
  BY <1>1, <1>2
<1>4. (n * (q + p) + m) % n = m
  <2>1. q + p \in Int
    BY <1>1, <1>2
  <2> HIDE DEF q, m, p, y, r
  <2> QED
    BY <1>2, <2>1, DivModUnique
<1> QED
  BY <1>3, <1>4

(* Within the axis a remainder changes nothing; a turn of it neither. *)
LEMMA ModSmall ==
    ASSUME NEW n \in Nat \ {0}, NEW k \in 0..n - 1
    PROVE  k % n = k /\ (k + n) % n = k /\ (k - n) % n = k
<1>1. k = n * 0 + k /\ k + n = n * 1 + k /\ k - n = n * (-1) + k
  OBVIOUS
<1>2. (n * 0 + k) % n = k /\ (n * 1 + k) % n = k /\ (n * (-1) + k) % n = k
  <2>1. 0 \in Int /\ 1 \in Int /\ -1 \in Int
    OBVIOUS
  <2> QED
    BY <2>1, DivModUnique
<1> QED
  BY <1>1, <1>2

LEMMA WrapIsMod ==
    ASSUME NEW n \in Nat \ {0}, NEW i \in Int
    PROVE  wrap(i, n) = i % n /\ wrap(i, n) \in 0..n - 1
<1>1. i % n \in 0..n - 1
  BY DivMod
<1>2. ((i % n) + n) % n = i % n
  BY <1>1, ModSmall
<1> QED
  BY <1>1, <1>2 DEF wrap

-----------------------------------------------------------------------------
(* The walk over the map. *)

Plane(f) == /\ f.width \in Nat \ {0} /\ f.height \in Nat \ {0}
            /\ f.width <= MaxWidth /\ f.height <= MaxHeight

LEMMA FramesArePlanes ==
    ASSUME NEW f \in Frames
    PROVE  Plane(f) /\ f.kind \in [Positions(f) -> Kinds]
<1>1. PICK w \in 1..MaxWidth, h \in 1..MaxHeight : f \in FramesOf(w, h)
  BY DEF Frames
<1>2. f.width = w /\ f.height = h /\ f.kind \in [(0..w - 1) \X (0..h - 1) -> Kinds]
  BY <1>1 DEF FramesOf
<1> QED
  BY <1>1, <1>2, WalkAssumption DEF Plane, Positions

(* How far a step goes along its axis. *)
Along(e, k) == IF Backward(e) THEN -k ELSE k

LEMMA StepIs ==
    ASSUME NEW f, Plane(f), NEW from \in Positions(f), NEW e \in Edges, NEW k \in Int,
           NEW aside \in Int
    PROVE  /\ Step(f, from, e, k, aside) =
                IF Vertical(e)
                THEN <<(from[1] + aside) % f.width, (from[2] + Along(e, k)) % f.height>>
                ELSE <<(from[1] + Along(e, k)) % f.width, (from[2] + aside) % f.height>>
           /\ Step(f, from, e, k, aside) \in Positions(f)
<1>1. /\ from[1] \in Int /\ from[2] \in Int /\ Along(e, k) \in Int
      /\ f.width \in Nat \ {0} /\ f.height \in Nat \ {0}
  BY DEF Positions, Plane, Along
<1> DEFINE d == Along(e, k)
<1>2. Step(f, from, e, k, aside) =
        IF Vertical(e) THEN <<wrap(from[1] + aside, f.width), wrap(from[2] + d, f.height)>>
        ELSE <<wrap(from[1] + d, f.width), wrap(from[2] + aside, f.height)>>
  BY DEF Step, Along
<1>3. /\ from[1] + aside \in Int /\ from[2] + aside \in Int
      /\ from[1] + d \in Int /\ from[2] + d \in Int
  BY <1>1
<1> HIDE DEF d
<1>4. \A n \in Nat \ {0} : \A i \in Int : wrap(i, n) = i % n /\ wrap(i, n) \in 0..n - 1
  BY WrapIsMod
<1>5. \A x \in 0..f.width - 1, y \in 0..f.height - 1 : <<x, y>> \in Positions(f)
  BY DEF Positions
<1> QED
  BY <1>1, <1>2, <1>3, <1>4, <1>5 DEF d

LEMMA ModMinus ==
    ASSUME NEW n \in Nat \ {0}, NEW x \in Int, NEW d \in Int
    PROVE  (d - (x % n)) % n = (d - x) % n
<1> DEFINE q == x \div n
           r == x % n
           y == d - r
           p == y \div n
           m == y % n
<1>1. x = n * q + r /\ r \in Int /\ q \in Int
  BY DivMod
<1>2. y = n * p + m /\ m \in 0..n - 1 /\ p \in Int /\ y \in Int
  <2>1. y \in Int
    BY <1>1
  <2> QED
    BY <2>1, DivMod
<1>3. d - x = n * (p - q) + m
  BY <1>1, <1>2
<1>4. (n * (p - q) + m) % n = m
  <2>1. p - q \in Int
    BY <1>1, <1>2
  <2> HIDE DEF q, m, p, y, r
  <2> QED
    BY <1>2, <2>1, DivModUnique
<1> QED
  BY <1>3, <1>4

LEMMA NoPosIsNone ==
    ASSUME NEW f, NEW p \in Positions(f) PROVE p # NoPos
BY DEF Positions, NoPos

(* Row by row, the walk over the torus comes to every position. *)
LEMMA StepsReachAll ==
    ASSUME NEW f, Plane(f), NEW from \in Positions(f), NEW p \in Positions(f), NEW e \in Edges
    PROVE  LET n == Length(f, e)
               m == IF Vertical(e) THEN f.width ELSE f.height
           IN  \E i \in 0..n * m - 1 : Step(f, from, e, i % n, i \div n) = p
<1> DEFINE n == Length(f, e)
           m == IF Vertical(e) THEN f.width ELSE f.height
           c == IF Vertical(e) THEN from[2] ELSE from[1]
           b == IF Vertical(e) THEN from[1] ELSE from[2]
           to == IF Vertical(e) THEN p[2] ELSE p[1]
           aside == IF Vertical(e) THEN p[1] ELSE p[2]
           k == IF Backward(e) THEN (c - to) % n ELSE (to - c) % n
           j == (aside - b) % m
<1>1. /\ n \in Nat \ {0} /\ m \in Nat \ {0}
      /\ c \in 0..n - 1 /\ to \in 0..n - 1 /\ b \in 0..m - 1 /\ aside \in 0..m - 1
  BY DEF Positions, Plane, Length
<1>2. p = IF Vertical(e) THEN <<aside, to>> ELSE <<to, aside>>
  BY DEF Positions
<1>3. k \in 0..n - 1 /\ j \in 0..m - 1
  <2>1. c - to \in Int /\ to - c \in Int /\ aside - b \in Int
    BY <1>1
  <2> HIDE DEF n, m, c, b, to, aside
  <2> QED
    BY <1>1, <2>1, DivMod
<1>4. (c + Along(e, k)) % n = to
  <2>1. c \in Int /\ to \in Int /\ c - to \in Int /\ to - c \in Int
        /\ c - (c - to) = to /\ (to - c) + c = to
    BY <1>1
  <2>2. CASE Backward(e)
    <3>1. k = (c - to) % n /\ Along(e, k) = -k /\ k \in Int
      BY <1>3, <2>2 DEF Along
    <3> HIDE DEF k, n, c, to
    <3>2. c + Along(e, k) = c - ((c - to) % n)
      BY <2>1, <3>1
    <3>3. (c - ((c - to) % n)) % n = (c - (c - to)) % n
      BY <1>1, <2>1, ModMinus
    <3> QED
      BY <1>1, <2>1, <3>2, <3>3, ModSmall
  <2>3. CASE ~Backward(e)
    <3>1. k = (to - c) % n /\ Along(e, k) = k /\ k \in Int
      BY <1>3, <2>3 DEF Along
    <3> HIDE DEF k, n, c, to
    <3>2. c + Along(e, k) = ((to - c) % n) + c
      BY <2>1, <3>1
    <3>3. (((to - c) % n) + c) % n = ((to - c) + c) % n
      BY <1>1, <2>1, ModPlus
    <3> QED
      BY <1>1, <2>1, <3>2, <3>3, ModSmall
  <2> QED
    BY <2>2, <2>3
<1>5. (b + j) % m = aside
  <2> HIDE DEF m, b, aside
  <2>1. aside - b \in Int /\ b \in Int /\ (aside - b) + b = aside /\ j \in Int
        /\ b + j = ((aside - b) % m) + b
    BY <1>1, <1>3
  <2>2. (((aside - b) % m) + b) % m = ((aside - b) + b) % m
    BY <1>1, <2>1, ModPlus
  <2> QED
    BY <1>1, <2>1, <2>2, ModSmall
<1>6. Step(f, from, e, k, j) = p
  <2>1. k \in Int /\ j \in Int
    BY <1>3
  <2>2. Step(f, from, e, k, j) =
          IF Vertical(e) THEN <<(b + j) % m, (c + Along(e, k)) % n>>
          ELSE <<(c + Along(e, k)) % n, (b + j) % m>>
    <3> HIDE DEF k, j
    <3>1. Step(f, from, e, k, j) =
                IF Vertical(e)
                THEN <<(from[1] + j) % f.width, (from[2] + Along(e, k)) % f.height>>
                ELSE <<(from[1] + Along(e, k)) % f.width, (from[2] + j) % f.height>>
      BY <2>1, StepIs
    <3> QED
      BY <3>1 DEF Length
  <2> QED
    BY <1>2, <1>4, <1>5, <2>2
<1> HIDE DEF n, m, c, b, to, aside, k, j
<1>7. (n * j + k) % n = k /\ (n * j + k) \div n = j
  BY <1>1, <1>3, DivModUnique
<1>8. n * j + k \in 0..n * m - 1
  <2>1. n * j + n <= n * m
    <3>1. j \in Int /\ m \in Int /\ j < m
      BY <1>1, <1>3
    <3> QED
      BY <1>1, <3>1, MultiplesApart
  <2>2. n * j \in Nat /\ n * m \in Int
    BY <1>1, <1>3
  <2> QED
    BY <1>1, <1>3, <2>1, <2>2
<1> QED
  BY <1>6, <1>7, <1>8 DEF n, m

(* A walk over the torus that finds nothing has looked everywhere. *)
LEMMA NowhereIsNone ==
    ASSUME NEW f, Plane(f), NEW from \in Positions(f), NEW e \in Edges, NEW not,
           WalkAnywhere(f, from, e, not) = NoPos, NEW p \in Positions(f)
    PROVE  ~Candidate(f, from, p, not)
<1> DEFINE n == Length(f, e)
           m == IF Vertical(e) THEN f.width ELSE f.height
           Place(i) == Step(f, from, e, i % n, i \div n)
           hits == {i \in 0..n * m - 1 : Candidate(f, from, Place(i), not)}
<1>1. n \in Nat \ {0} /\ m \in Nat \ {0} /\ n * m \in Nat
  BY DEF Plane, Length
<1>2. WalkAnywhere(f, from, e, not) = IF hits = {} THEN NoPos ELSE Place(Earliest(hits))
  BY DEF WalkAnywhere
<1>3. ASSUME hits # {} PROVE FALSE
  <2> HIDE DEF n, m
  <2>1. hits \in SUBSET Nat
    BY <1>1
  <2>2. Earliest(hits) \in Nat
    <3> HIDE DEF hits
    <3> QED
      BY <1>3, <2>1, EarliestIsLeast
  <2>3. Earliest(hits) % n \in Int /\ Earliest(hits) \div n \in Int
    <3> HIDE DEF hits
    <3> QED
      BY <1>1, <2>2, DivMod
  <2> HIDE DEF hits
  <2>4. Place(Earliest(hits)) \in Positions(f)
    BY <2>3, StepIs
  <2> QED
    BY <1>2, <1>3, <2>4, NoPosIsNone
<1>4. PICK i \in 0..n * m - 1 : Place(i) = p
  BY StepsReachAll
<1> QED
  BY <1>3, <1>4

WalkInv ==
    /\ frame \in Frames /\ me \in Positions(frame) /\ edge \in Edges
    /\ Deliverable(frame, me)
    /\ ExhaustedMeansAll

LEMMA GivenUpIsExhausted ==
    ASSUME WalkInv, NEW at, NEW not, NextOf(frame, me, edge, at, not) = NoPos
    PROVE  \A p \in Positions(frame) \ {me} : Deliverable(frame, p) => p \in not \cup {at}
<1>1. Plane(frame) /\ me \in Positions(frame) /\ edge \in Edges
  BY FramesArePlanes DEF WalkInv
<1>2. WalkAnywhere(frame, me, edge, not \cup {at}) = NoPos
  BY DEF NextOf
<1>3. \A p \in Positions(frame) : ~Candidate(frame, me, p, not \cup {at})
  BY <1>1, <1>2, NowhereIsNone
<1> QED
  BY <1>3 DEF Candidate

LEMMA WalkInitInv == WalkInit => WalkInv
BY DEF WalkInit, WalkInv, ExhaustedMeansAll, Deliverable

LEMMA FrameChanges ==
    ASSUME NEW f \in Frames, NEW p \in Positions(f), NEW k \in Kinds
    PROVE  /\ [f EXCEPT !.kind[p] = k] \in Frames
           /\ Positions([f EXCEPT !.kind[p] = k]) = Positions(f)
           /\ [f EXCEPT !.kind[p] = k].kind = [f.kind EXCEPT ![p] = k]
<1>1. PICK w \in 1..MaxWidth, h \in 1..MaxHeight : f \in FramesOf(w, h)
  BY DEF Frames
<1> DEFINE g == [f EXCEPT !.kind[p] = k]
<1>2. g = [f EXCEPT !.kind = [f.kind EXCEPT ![p] = k]]
  OBVIOUS
<1>3. f.kind \in [(0..w - 1) \X (0..h - 1) -> Kinds] /\ f.width = w /\ f.height = h
  BY <1>1 DEF FramesOf
<1>4. [f.kind EXCEPT ![p] = k] \in [(0..w - 1) \X (0..h - 1) -> Kinds]
  BY <1>3
<1>5. /\ g \in FramesOf(w, h)
      /\ g.width = f.width /\ g.height = f.height /\ g.kind = [f.kind EXCEPT ![p] = k]
  BY <1>1, <1>2, <1>4 DEF FramesOf
<1>6. g \in Frames
  <2>1. <<w, h>> \in (1..MaxWidth) \X (1..MaxHeight) /\ <<w, h>>[1] = w /\ <<w, h>>[2] = h
    OBVIOUS
  <2> QED
    BY <1>5, <2>1 DEF Frames
<1> QED
  BY <1>5, <1>6 DEF Positions

LEMMA WalkStep ==
    ASSUME WalkInv, [WalkNext]_walkVars PROVE WalkInv'
<1>1. ASSUME NEW why, Refused(why) PROVE WalkInv'
  <2>1. CASE NextOf(frame, me, edge, dest, tried') # NoPos
    BY <1>1, <2>1 DEF Refused, WalkInv, ExhaustedMeansAll, Deliverable, Positions
  <2>2. CASE NextOf(frame, me, edge, dest, tried') = NoPos
    <3>1. \A p \in Positions(frame) \ {me} : Deliverable(frame, p) => p \in tried' \cup {dest}
      BY <2>2, GivenUpIsExhausted
    <3> QED
      BY <1>1, <2>2, <3>1 DEF Refused, WalkInv, ExhaustedMeansAll, Deliverable, Positions
  <2> QED
    BY <2>1, <2>2
<1>2. ASSUME LookAgain PROVE WalkInv'
  <2>1. CASE NextOf(frame, me, edge, dest, tried) # NoPos
    BY <1>2, <2>1 DEF LookAgain, WalkInv, ExhaustedMeansAll, Deliverable, Positions
  <2>2. CASE NextOf(frame, me, edge, dest, tried) = NoPos
    <3>1. \A p \in Positions(frame) \ {me} : Deliverable(frame, p) => p \in tried \cup {dest}
      BY <2>2, GivenUpIsExhausted
    <3> QED
      BY <1>2, <2>2, <3>1 DEF LookAgain, WalkInv, ExhaustedMeansAll, Deliverable, Positions
  <2> QED
    BY <2>1, <2>2
<1>3. ASSUME onPeerStatus PROVE WalkInv'
  <2>1. PICK p \in Positions(frame) \ {me}, k \in {"hole", "here"} :
          frame' = [frame EXCEPT !.kind[p] = k]
    BY <1>3 DEF onPeerStatus
  <2>2. /\ frame' \in Frames /\ Positions(frame') = Positions(frame)
        /\ frame'.kind = [frame.kind EXCEPT ![p] = k]
    BY <2>1, FrameChanges, WalkAssumption DEF WalkInv
  <2>3. frame.kind \in [Positions(frame) -> Kinds]
    BY FramesArePlanes DEF WalkInv
  <2>4. chain' # "exhausted" /\ me' = me /\ edge' = edge
    BY <1>3 DEF onPeerStatus
  <2>5. frame'.kind[me] = frame.kind[me]
    BY <2>1, <2>2, <2>3 DEF WalkInv
  <2> QED
    BY <2>2, <2>4, <2>5 DEF WalkInv, ExhaustedMeansAll, Deliverable
<1>4. ASSUME UNCHANGED walkVars PROVE WalkInv'
  BY <1>4 DEF walkVars, WalkInv, ExhaustedMeansAll, Deliverable, Positions
<1> QED
  BY <1>1, <1>2, <1>3, <1>4 DEF WalkNext

(* On a map of any size, a chain that gives up has been refused by every    *)
(* deliverable world of the frame (WalkAnywhere, rerouteLocked).            *)
THEOREM ExhaustionIsFull == WalkSpec => []ExhaustedMeansAll
<1>1. WalkInit => WalkInv
  BY WalkInitInv
<1>2. WalkInv /\ [WalkNext]_walkVars => WalkInv'
  BY WalkStep
<1>3. WalkInv => ExhaustedMeansAll
  BY DEF WalkInv
<1> QED
  BY <1>1, <1>2, <1>3, PTL DEF WalkSpec

(* The steps of the exit axis on which a world can be delivered to. *)
Hits(f, from, e) == {k \in 1..Length(f, e) - 1 : Deliverable(f, Step(f, from, e, k, 0))}

LEMMA WalkIsEarliest ==
    ASSUME NEW f, Plane(f), NEW from \in Positions(f), NEW e \in Edges
    PROVE  /\ Walk(f, from, e) = IF Hits(f, from, e) = {} THEN NoPos
                                 ELSE Step(f, from, e, Earliest(Hits(f, from, e)), 0)
           /\ \A k \in Hits(f, from, e) : k \in Nat /\ Step(f, from, e, k, 0) \in Positions(f)
           /\ Hits(f, from, e) # {} => Earliest(Hits(f, from, e)) \in Hits(f, from, e)
           /\ Hits(f, from, e) # {} <=> Walk(f, from, e) # NoPos
<1>1. Walk(f, from, e) = IF Hits(f, from, e) = {} THEN NoPos
                         ELSE Step(f, from, e, Earliest(Hits(f, from, e)), 0)
  BY DEF Walk, Hits
<1>2. Length(f, e) \in Nat
  BY DEF Plane, Length
<1>3. \A k \in Hits(f, from, e) : k \in Nat
  BY <1>2 DEF Hits
<1>4. \A k \in Hits(f, from, e) : Step(f, from, e, k, 0) \in Positions(f)
  BY <1>3, StepIs
<1>5. Hits(f, from, e) # {} => Earliest(Hits(f, from, e)) \in Hits(f, from, e)
  BY <1>3, EarliestIsLeast
<1> QED
  BY <1>1, <1>3, <1>4, <1>5, NoPosIsNone

(* A position is told from every other by its number. *)
LEMMA NumbersDiffer ==
    ASSUME NEW f, Plane(f), NEW p \in Positions(f), NEW q \in Positions(f), Number(p) = Number(q)
    PROVE  p = q
<1>1. /\ MaxWidth \in Nat \ {0}
      /\ p[1] \in 0..MaxWidth - 1 /\ q[1] \in 0..MaxWidth - 1 /\ p[2] \in Int /\ q[2] \in Int
      /\ p = <<p[1], p[2]>> /\ q = <<q[1], q[2]>>
  BY WalkAssumption DEF Plane, Positions
<1>2. MaxWidth * p[2] + p[1] = MaxWidth * q[2] + q[1]
  <2>1. Number(p) = 1 + (MaxWidth * p[2] + p[1]) /\ Number(q) = 1 + (MaxWidth * q[2] + q[1])
    BY <1>1 DEF Number
  <2> DEFINE a == MaxWidth * p[2]
             b == MaxWidth * q[2]
  <2>2. a \in Int /\ b \in Int
    BY <1>1
  <2>3. 1 + (a + p[1]) = 1 + (b + q[1])
    BY <2>1
  <2> HIDE DEF a, b
  <2>4. a + p[1] = b + q[1]
    BY <1>1, <2>2, <2>3
  <2> QED
    BY <2>4 DEF a, b
<1>3. p[1] = q[1] /\ p[2] = q[2]
  BY <1>1, <1>2, DivModUnique
<1> QED
  BY <1>1, <1>3

(* The relay's reservation of a position. *)
Reserved(p) == [slot |-> Number(p), col |-> p[1], row |-> p[2], peer |-> "peer"]

LEMMA ReservedAt ==
    ASSUME NEW f, Plane(f), NEW p \in Positions(f)
    PROVE  G!At(AsGrid(f), p[1], p[2]) = IF f.kind[p] = "hole" THEN {} ELSE {Reserved(p)}
<1>1. AsGrid(f).slots = {Reserved(q) : q \in {x \in Positions(f) : f.kind[x] # "hole"}}
  BY DEF AsGrid, Reserved
<1>2. \A q \in Positions(f) : q[1] = p[1] /\ q[2] = p[2] => q = p
  BY DEF Positions
<1>3. \A q \in Positions(f) : Reserved(q).col = q[1] /\ Reserved(q).row = q[2]
  BY DEF Reserved
<1> QED
  BY <1>1, <1>2, <1>3 DEF G!At

(* The relay's walk over its reservations stops where the sender's does. *)
LEMMA RelayWalksTheSame ==
    ASSUME NEW f \in Frames, NEW from \in Positions(f), NEW e \in Edges
    PROVE  LET to == Walk(f, from, e)
           IN  G!Effective(AsGrid(f), [col |-> from[1], row |-> from[2]], e,
                           {Number(p) : p \in {q \in Positions(f) : Deliverable(f, q)}})
               = IF to = NoPos THEN 0 ELSE Number(to)
<1> DEFINE g == AsGrid(f)
           res == [col |-> from[1], row |-> from[2]]
           ok == {Number(p) : p \in {q \in Positions(f) : Deliverable(f, q)}}
<1>1. Plane(f) /\ f.kind \in [Positions(f) -> Kinds]
  BY FramesArePlanes
<1>2. /\ g.width = f.width /\ g.height = f.height /\ res.col = from[1] /\ res.row = from[2]
      /\ f.width \in Nat \ {0} /\ f.height \in Nat \ {0}
      /\ from[1] \in 0..f.width - 1 /\ from[2] \in 0..f.height - 1
  BY <1>1 DEF AsGrid, Plane, Positions
<1>3. ASSUME NEW k \in 1..Length(f, e) - 1
      PROVE  G!Stop(g, res, e, k) = Step(f, from, e, k, 0)
  <2>1. \A n \in Nat \ {0} : \A i \in Int : G!wrapIndex(i, n) = i % n
    BY WrapIsMod DEF wrap, G!wrapIndex
  <2>2. k \in Int /\ 0 \in Int
    BY <1>1 DEF Length, Plane
  <2>3. /\ from[1] + 0 = from[1] /\ from[2] + 0 = from[2]
        /\ from[1] % f.width = from[1] /\ from[2] % f.height = from[2]
    BY <1>2, ModSmall
  <2>4. Step(f, from, e, k, 0) =
          IF Vertical(e) THEN <<from[1], (from[2] + Along(e, k)) % f.height>>
          ELSE <<(from[1] + Along(e, k)) % f.width, from[2]>>
    BY <1>1, <2>2, <2>3, StepIs
  <2>5. from[1] + Along(e, k) \in Int /\ from[2] + Along(e, k) \in Int
    BY <1>2, <2>2 DEF Along
  <2> HIDE DEF g, res
  <2>6. G!Stop(g, res, e, k) =
          IF Vertical(e) THEN <<from[1], G!wrapIndex(from[2] + Along(e, k), f.height)>>
          ELSE <<G!wrapIndex(from[1] + Along(e, k), f.width), from[2]>>
    BY <1>2 DEF G!Stop, Vertical, Along, Backward
  <2>7. CASE Vertical(e)
    <3>1. G!wrapIndex(from[2] + Along(e, k), f.height) = (from[2] + Along(e, k)) % f.height
      BY <1>2, <2>1, <2>5
    <3> QED
      BY <2>4, <2>6, <2>7, <3>1
  <2>8. CASE ~Vertical(e)
    <3>1. G!wrapIndex(from[1] + Along(e, k), f.width) = (from[1] + Along(e, k)) % f.width
      BY <1>2, <2>1, <2>5
    <3> QED
      BY <2>4, <2>6, <2>8, <3>1
  <2> QED
    BY <2>7, <2>8
<1>4. ASSUME NEW p \in Positions(f)
      PROVE  (\E r \in G!At(g, p[1], p[2]) : r.slot \in ok) <=> Deliverable(f, p)
  <2>1. G!At(g, p[1], p[2]) = IF f.kind[p] = "hole" THEN {} ELSE {Reserved(p)}
    BY <1>1, ReservedAt
  <2>2. Reserved(p).slot = Number(p)
    BY DEF Reserved
  <2>3. Number(p) \in ok <=> Deliverable(f, p)
    BY <1>1, NumbersDiffer
  <2> QED
    BY <2>1, <2>2, <2>3 DEF Deliverable
<1>5. G!AxisLength(g, e) = Length(f, e)
  BY <1>2 DEF G!AxisLength, Length, Vertical
<1>6. G!Found(g, res, e, ok) = Hits(f, from, e)
  <2> HIDE DEF g, res, ok
  <2>1. \A k \in 1..Length(f, e) - 1 : k \in Int
    BY <1>1 DEF Length, Plane
  <2>2. \A k \in 1..Length(f, e) - 1 : Step(f, from, e, k, 0) \in Positions(f)
    BY <1>1, <2>1, StepIs
  <2>3. ASSUME NEW k \in 1..Length(f, e) - 1
        PROVE  (\E r \in G!At(g, G!Stop(g, res, e, k)[1], G!Stop(g, res, e, k)[2]) : r.slot \in ok)
               <=> Deliverable(f, Step(f, from, e, k, 0))
    BY <1>3, <1>4, <2>2
  <2> QED
    BY <1>5, <2>3 DEF G!Found, Hits
<1>7. CASE Hits(f, from, e) = {}
  BY <1>1, <1>6, <1>7, WalkIsEarliest DEF G!Effective
<1>8. CASE Hits(f, from, e) # {}
  <2> DEFINE k == Earliest(Hits(f, from, e))
             to == Step(f, from, e, k, 0)
  <2>1. k \in Hits(f, from, e) /\ to \in Positions(f) /\ Walk(f, from, e) = to /\ to # NoPos
    BY <1>1, <1>8, WalkIsEarliest
  <2>2. k \in 1..Length(f, e) - 1 /\ Deliverable(f, to)
    BY <2>1 DEF Hits
  <2>3. G!FirstStep(g, res, e, ok) = k
    BY <1>6 DEF G!FirstStep, Earliest
  <2>4. G!Stop(g, res, e, k) = to
    BY <1>3, <2>2
  <2>5. G!At(g, to[1], to[2]) = {Reserved(to)}
    BY <1>1, <2>1, <2>2, ReservedAt DEF Deliverable
  <2>6. (CHOOSE r \in {Reserved(to)} : TRUE).slot = Number(to)
    <3>1. (CHOOSE r \in {Reserved(to)} : TRUE) = Reserved(to)
      OBVIOUS
    <3> QED
      BY <3>1 DEF Reserved
  <2> HIDE DEF g, res, ok, k, to
  <2>7. G!Effective(g, res, e, ok) = (CHOOSE r \in G!At(g, to[1], to[2]) : TRUE).slot
    BY <1>6, <1>8, <2>3, <2>4 DEF G!Effective
  <2> QED
    BY <2>1, <2>5, <2>6, <2>7 DEF g, res, ok
<1> QED
  BY <1>7, <1>8

LEMMA BackIs ==
    ASSUME NEW e \in Edges
    PROVE  /\ Back(e) \in Edges /\ Vertical(Back(e)) = Vertical(e)
           /\ Backward(Back(e)) = ~Backward(e)
<1>1. \E b \in Edges : b # e /\ Vertical(b) = Vertical(e)
  BY DEF Edges, G!Edge, Vertical
<1>2. Back(e) \in Edges /\ Back(e) # e /\ Vertical(Back(e)) = Vertical(e)
  BY <1>1 DEF Back
<1> QED
  BY <1>2 DEF Edges, G!Edge, Vertical, Backward

(* From a stop on the axis, the way back leads over the stops before it. *)
LEMMA StepBack ==
    ASSUME NEW f, Plane(f), NEW from \in Positions(f), NEW e \in Edges,
           NEW k \in Nat, NEW j \in Nat
    PROVE  Step(f, Step(f, from, e, k, 0), Back(e), j, 0) = Step(f, from, e, k - j, 0)
<1> DEFINE to == Step(f, from, e, k, 0)
<1>1. /\ f.width \in Nat \ {0} /\ f.height \in Nat \ {0}
      /\ from[1] \in 0..f.width - 1 /\ from[2] \in 0..f.height - 1
      /\ from[1] + 0 = from[1] /\ from[2] + 0 = from[2]
  BY DEF Plane, Positions
<1>2. /\ Along(e, k) \in Int /\ Along(Back(e), j) \in Int
      /\ Along(e, k) + Along(Back(e), j) = Along(e, k - j)
      /\ k \in Int /\ j \in Int /\ k - j \in Int /\ 0 \in Int
  <2>1. k \in Int /\ j \in Int /\ k - j \in Int /\ 0 \in Int
    OBVIOUS
  <2>2. CASE Backward(e)
    <3>1. ~Backward(Back(e))
      BY <2>2, BackIs
    <3>2. Along(e, k) = -k /\ Along(Back(e), j) = j /\ Along(e, k - j) = -(k - j)
      BY <2>2, <3>1 DEF Along
    <3> QED
      BY <2>1, <3>2
  <2>3. CASE ~Backward(e)
    <3>1. Backward(Back(e))
      BY <2>3, BackIs
    <3>2. Along(e, k) = k /\ Along(Back(e), j) = -j /\ Along(e, k - j) = k - j
      BY <2>3, <3>1 DEF Along
    <3> QED
      BY <2>1, <3>2
  <2> QED
    BY <2>2, <2>3
<1>3. from[1] % f.width = from[1] /\ from[2] % f.height = from[2]
  BY <1>1, ModSmall
<1>4. /\ to \in Positions(f)
      /\ to = IF Vertical(e) THEN <<from[1], (from[2] + Along(e, k)) % f.height>>
              ELSE <<(from[1] + Along(e, k)) % f.width, from[2]>>
  BY <1>1, <1>2, <1>3, StepIs
<1>5. to[1] \in Int /\ to[2] \in Int /\ to[1] + 0 = to[1] /\ to[2] + 0 = to[2]
  BY <1>4 DEF Positions, Plane
<1>6. Step(f, to, Back(e), j, 0) =
        IF Vertical(e) THEN <<to[1] % f.width, (to[2] + Along(Back(e), j)) % f.height>>
        ELSE <<(to[1] + Along(Back(e), j)) % f.width, to[2] % f.height>>
  <2>1. Back(e) \in Edges /\ Vertical(Back(e)) = Vertical(e)
    BY BackIs
  <2>2. to \in Positions(f)
    BY <1>4
  <2> HIDE DEF to
  <2>3. Step(f, to, Back(e), j, 0) =
          IF Vertical(Back(e)) THEN <<(to[1] + 0) % f.width, (to[2] + Along(Back(e), j)) % f.height>>
          ELSE <<(to[1] + Along(Back(e), j)) % f.width, (to[2] + 0) % f.height>>
    BY <1>2, <2>1, <2>2, StepIs
  <2>4. Vertical(Back(e)) <=> Vertical(e)
    BY <2>1
  <2> QED
    BY <1>5, <2>3, <2>4
<1>7. Step(f, from, e, k - j, 0) =
        IF Vertical(e) THEN <<from[1], (from[2] + Along(e, k - j)) % f.height>>
        ELSE <<(from[1] + Along(e, k - j)) % f.width, from[2]>>
  BY <1>1, <1>2, <1>3, StepIs
<1>8. \A n \in Nat \ {0} : \A c \in Int :
        (((c + Along(e, k)) % n) + Along(Back(e), j)) % n = (c + Along(e, k - j)) % n
  <2> TAKE n \in Nat \ {0}
  <2> TAKE c \in Int
  <2>1. c + Along(e, k) \in Int
    BY <1>2
  <2>2. (((c + Along(e, k)) % n) + Along(Back(e), j)) % n
          = ((c + Along(e, k)) + Along(Back(e), j)) % n
    BY <1>2, <2>1, ModPlus
  <2>3. (c + Along(e, k)) + Along(Back(e), j) = c + Along(e, k - j)
    BY <1>2
  <2> QED
    BY <2>2, <2>3
<1>9. from[1] \in Int /\ from[2] \in Int
  BY <1>1
<1>10. CASE Vertical(e)
  <2>1. to[1] = from[1] /\ to[2] = (from[2] + Along(e, k)) % f.height
    BY <1>4, <1>10
  <2>2. (((from[2] + Along(e, k)) % f.height) + Along(Back(e), j)) % f.height
          = (from[2] + Along(e, k - j)) % f.height
    BY <1>1, <1>8, <1>9
  <2>3. Step(f, to, Back(e), j, 0) = <<from[1], (from[2] + Along(e, k - j)) % f.height>>
    <3> HIDE DEF to
    <3> QED
      BY <1>3, <1>6, <1>10, <2>1, <2>2
  <2> QED
    BY <1>7, <1>10, <2>3
<1>11. CASE ~Vertical(e)
  <2>1. to[2] = from[2] /\ to[1] = (from[1] + Along(e, k)) % f.width
    BY <1>4, <1>11
  <2>2. (((from[1] + Along(e, k)) % f.width) + Along(Back(e), j)) % f.width
          = (from[1] + Along(e, k - j)) % f.width
    BY <1>1, <1>8, <1>9
  <2>3. Step(f, to, Back(e), j, 0) = <<(from[1] + Along(e, k - j)) % f.width, from[2]>>
    <3> HIDE DEF to
    <3> QED
      BY <1>3, <1>6, <1>11, <2>1, <2>2
  <2> QED
    BY <1>7, <1>11, <2>3
<1> QED
  BY <1>10, <1>11

LEMMA StepNone ==
    ASSUME NEW f, Plane(f), NEW from \in Positions(f), NEW e \in Edges
    PROVE  Step(f, from, e, 0, 0) = from
<1>1. /\ f.width \in Nat \ {0} /\ f.height \in Nat \ {0}
      /\ from[1] \in 0..f.width - 1 /\ from[2] \in 0..f.height - 1 /\ from = <<from[1], from[2]>>
      /\ from[1] + 0 = from[1] /\ from[2] + 0 = from[2] /\ 0 \in Int
  BY DEF Plane, Positions
<1>2. Along(e, 0) = 0
  <2>1. \A x \in Int : x + x = x => -x = x
    OBVIOUS
  <2>2. 0 \in Int /\ 0 + 0 = 0
    OBVIOUS
  <2> QED
    BY <2>1, <2>2 DEF Along
<1>3. from[1] % f.width = from[1] /\ from[2] % f.height = from[2]
  BY <1>1, ModSmall
<1>4. Step(f, from, e, 0, 0) =
        IF Vertical(e) THEN <<(from[1] + 0) % f.width, (from[2] + Along(e, 0)) % f.height>>
        ELSE <<(from[1] + Along(e, 0)) % f.width, (from[2] + 0) % f.height>>
  BY <1>1, StepIs
<1> QED
  BY <1>1, <1>2, <1>3, <1>4

(* Less than a whole turn of the axis leads away. *)
LEMMA StepAway ==
    ASSUME NEW f, Plane(f), NEW from \in Positions(f), NEW e \in Edges,
           NEW k \in 1..Length(f, e) - 1
    PROVE  Step(f, from, e, k, 0) # from
<1> DEFINE n == Length(f, e)
           c == IF Vertical(e) THEN from[2] ELSE from[1]
           d == Along(e, k)
<1>1. n \in Nat \ {0} /\ c \in 0..n - 1 /\ k \in 1..n - 1 /\ d \in {k, -k} /\ 0 \in Int /\ k \in Int
  BY DEF Plane, Positions, Length, Along
<1>2. Step(f, from, e, k, 0)[IF Vertical(e) THEN 2 ELSE 1] = (c + d) % n
  <2>1. Step(f, from, e, k, 0) =
          IF Vertical(e) THEN <<(from[1] + 0) % f.width, (from[2] + d) % f.height>>
          ELSE <<(from[1] + d) % f.width, (from[2] + 0) % f.height>>
    BY <1>1, StepIs
  <2> QED
    BY <2>1 DEF Length
<1>3. from[IF Vertical(e) THEN 2 ELSE 1] = c
  OBVIOUS
<1>4. (c + d) % n # c
  <2> HIDE DEF n, c, d
  <2>1. \/ c + d \in 0..n - 1 /\ (c + d) % n = c + d
        \/ c + d - n \in 0..n - 1 /\ (c + d) % n = c + d - n
        \/ c + d + n \in 0..n - 1 /\ (c + d) % n = c + d + n
    <3>1. \A x \in 0..n - 1 : x % n = x /\ (x + n) % n = x /\ (x - n) % n = x
      BY <1>1, ModSmall
    <3>2. c + d \in 0..n - 1 \/ c + d - n \in 0..n - 1 \/ c + d + n \in 0..n - 1
      BY <1>1
    <3>3. c + d \in Int /\ (c + d - n) + n = c + d /\ (c + d + n) - n = c + d
      BY <1>1
    <3> QED
      BY <3>1, <3>2, <3>3
  <2> QED
    BY <1>1, <2>1
<1> QED
  BY <1>2, <1>3, <1>4

(* Lanes run both ways. *)
LEMMA WalkReturns ==
    ASSUME NEW f \in Frames, NEW from \in Positions(f), NEW e \in Edges,
           Deliverable(f, from), Walk(f, from, e) # NoPos
    PROVE  /\ Walk(f, Walk(f, from, e), Back(e)) = from
           /\ Walk(f, from, e) # from
<1> DEFINE hits == Hits(f, from, e)
           k == Earliest(hits)
           to == Walk(f, from, e)
           back == Hits(f, to, Back(e))
<1>1. Plane(f)
  BY FramesArePlanes
<1>2. /\ hits # {} /\ k \in hits /\ to = Step(f, from, e, k, 0) /\ to \in Positions(f)
      /\ \A j \in hits : j \in Nat
  BY <1>1, WalkIsEarliest
<1>3. \A j \in hits : k <= j
  <2>1. hits \in SUBSET Nat
    BY <1>2
  <2> HIDE DEF hits
  <2> QED
    BY <1>2, <2>1, EarliestIsLeast
<1>4. Length(f, e) \in Nat /\ k \in 1..Length(f, e) - 1 /\ k \in Nat
  BY <1>1, <1>2 DEF Hits, Plane, Length
<1>5. Back(e) \in Edges /\ Length(f, Back(e)) = Length(f, e)
  <2>1. Back(e) \in Edges /\ Vertical(Back(e)) = Vertical(e)
    BY BackIs
  <2> QED
    BY <2>1 DEF Length
<1>6. \A j \in Nat : Step(f, to, Back(e), j, 0) = Step(f, from, e, k - j, 0)
  BY <1>1, <1>2, <1>4, StepBack
<1>7. k \in back
  <2>1. Step(f, to, Back(e), k, 0) = from
    <3>1. k - k = 0
      BY <1>4
    <3> HIDE DEF k, to
    <3> QED
      BY <1>1, <1>4, <1>6, <3>1, StepNone
  <2> HIDE DEF k, to
  <2> QED
    BY <1>4, <1>5, <2>1 DEF Hits
<1>8. ASSUME NEW j \in back PROVE k <= j
  <2>1. j \in 1..Length(f, e) - 1 /\ Deliverable(f, Step(f, to, Back(e), j, 0)) /\ j \in Nat
    BY <1>4, <1>5 DEF Hits
  <2>2. Deliverable(f, Step(f, from, e, k - j, 0))
    BY <1>6, <2>1
  <2> HIDE DEF k
  <2>3. ASSUME j < k PROVE FALSE
    <3>1. k - j \in 1..Length(f, e) - 1 /\ k - j < k
      BY <1>4, <2>1, <2>3
    <3>2. k - j \in hits
      BY <2>2, <3>1 DEF Hits
    <3> QED
      BY <1>3, <1>4, <2>1, <3>1, <3>2
  <2> QED
    BY <1>4, <2>1, <2>3
<1>9. Earliest(back) = k
  <2>1. back \in SUBSET Nat
    <3> HIDE DEF to
    <3> QED
      BY <1>4, <1>5 DEF Hits
  <2>2. Earliest(back) \in back /\ \A j \in back : Earliest(back) <= j
    <3> HIDE DEF back
    <3> QED
      BY <1>7, <2>1, EarliestIsLeast
  <2> HIDE DEF back, k
  <2>3. Earliest(back) <= k /\ k <= Earliest(back) /\ Earliest(back) \in Nat
    BY <1>7, <1>8, <2>1, <2>2
  <2> QED
    BY <1>4, <2>3
<1>10. Walk(f, to, Back(e)) = Step(f, to, Back(e), k, 0)
  <2> HIDE DEF k
  <2>1. Walk(f, to, Back(e)) = IF back = {} THEN NoPos ELSE Step(f, to, Back(e), Earliest(back), 0)
    <3> HIDE DEF to
    <3> QED
      BY <1>1, <1>2, <1>5, WalkIsEarliest
  <2> QED
    BY <1>7, <1>9, <2>1
<1>11. Step(f, to, Back(e), k, 0) = from
  <2>1. k - k = 0
    BY <1>4
  <2> HIDE DEF k, to
  <2> QED
    BY <1>1, <1>4, <1>6, <2>1, StepNone
<1>12. to # from
  <2> HIDE DEF k, to
  <2> QED
    BY <1>1, <1>2, <1>4, StepAway
<1> QED
  BY <1>10, <1>11, <1>12

(* On a map of any size and any number of holes: the walk the sender makes  *)
(* over PEER_STATUS ends where the relay's over its reservations does, and  *)
(* the way back along the reverse edge ends at the sender (Walk,            *)
(* Grid.Effective).                                                         *)
THEOREM TheWalksAreOne == WalkSpec => []OneWalk
<1>1. WalkInit => WalkInv
  BY WalkInitInv
<1>2. WalkInv /\ [WalkNext]_walkVars => WalkInv'
  BY WalkStep
<1>3. WalkInv => OneWalk
  <2> SUFFICES ASSUME WalkInv PROVE OneWalk
    OBVIOUS
  <2>1. frame \in Frames /\ me \in Positions(frame) /\ edge \in Edges /\ Deliverable(frame, me)
    BY DEF WalkInv
  <2> QED
    BY <2>1, RelayWalksTheSame, WalkReturns DEF OneWalk
<1> QED
  BY <1>1, <1>2, <1>3, PTL DEF WalkSpec


-----------------------------------------------------------------------------
(***************************************************************************)
(* Enrollment: one world, one identity on the map, while one creation at a  *)
(* time is under way in a data root (Together = 1); with two it is false,   *)
(* for nothing locks the pending record.  An identity that is in a pending  *)
(* record or in a secret file of its root is in one of the two for ever,    *)
(* and every identity the relay knows, or is asked to know, has got there.  *)
(***************************************************************************)
BeforeSecret == {"record", "make", "protect", "post", "wait", "open"}
WithRecord == {"post", "wait", "open", "secret", "profile", "finish"}
Acknowledged == {"open", "secret", "profile", "finish"}

(* What is on the disk of a root at each step of a creation in it. *)
DiskAt(c) ==
    LET r == RootOf(c) IN
    /\ creation[c] \in BeforeSecret => secretFile[r] \in {Absent, Empty}
    /\ creation[c] = "secret" => secretFile[r] = Empty
    /\ creation[c] \in {"profile", "finish"} => secretFile[r] = carried[c]
    /\ creation[c] \notin {"off", "finish"} => profile[r] = Absent
    /\ creation[c] = "make" => pendingFile[r] = Absent
    /\ creation[c] = "protect" => pendingFile[r] = Empty
    /\ creation[c] \in WithRecord => pendingFile[r] = carried[c]

CarriedAt(c) ==
    /\ creation[c] \in WithRecord \cup {"protect"} =>
         carried[c] \in Identity /\ carried[c][1] = RootOf(c)
    /\ creation[c] \in Acknowledged => carried[c] \in peers
    /\ creation[c] = "wait" /\ answers[c] = "ok" => carried[c] \in peers

AsksFor(q) ==
    q.from # Absent =>
        /\ creation[q.from] = "wait" /\ answers[q.from] = "none"
        /\ q.identity = carried[q.from]

HeldAtHome(i) == i \in {pendingFile[i[1]], secretFile[i[1]]}
Spoken == {q.identity : q \in requests} \cup peers \cup peersFile

OwnRecord == \A r \in Root : pendingFile[r] \in Identity => pendingFile[r][1] = r
OnTheMap == \A r \in Root :
    /\ secretFile[r] \in Identity => secretFile[r] \in peers
    /\ profile[r] # Absent => secretFile[r] = profile[r]

EnrollmentInv ==
    /\ EnrollmentTypeOK
    /\ \A c \in Creator : DiskAt(c) /\ CarriedAt(c)
    /\ \A q \in requests : AsksFor(q)
    /\ OwnRecord /\ OnTheMap /\ peers \subseteq peersFile
    /\ \A i \in Spoken : HeldAtHome(i)

LEMMA OneCreator ==
    ASSUME Together = 1, NEW c \in Creator
    PROVE  /\ RootOf(c) \in Root /\ c = <<RootOf(c), 1>>
           /\ \A d \in Creator : RootOf(d) = RootOf(c) => d = c
  BY DEF Creator, RootOf

LEMMA NoIdentity ==
    /\ Absent \notin Identity /\ Empty \notin Identity /\ Absent \notin Creator
    /\ Absent # Empty /\ \A i \in Identity : i[1] \in Root
<1>1. Len(Absent) = 0 /\ Len(Empty) = 1
  BY DEF Absent, Empty
<1>2. \A i \in Identity : Len(i) = 2 /\ i[1] \in Root
  BY DEF Identity
<1>3. \A c \in Creator : Len(c) = 2
  BY DEF Creator
<1>. QED
  BY <1>1, <1>2, <1>3

LEMMA CreateWorldKeeps ==
    ASSUME Together = 1, EnrollmentInv, NEW c \in Creator, CreateWorld(c)
    PROVE  EnrollmentInv'
<1>. USE OneCreator, NoIdentity, EnrollmentAssumption
<1>. USE DEF CreateWorld, Goes, Mishap, files, relay
<1>. DEFINE r == RootOf(c)
<1>0. EnrollmentTypeOK /\ DiskAt(c) /\ CarriedAt(c) /\ r \in Root
  BY DEF EnrollmentInv
<1>1. EnrollmentTypeOK'
  BY <1>0 DEF EnrollmentTypeOK, DiskAt, CarriedAt, EnrollmentAssumption
<1>2. ASSUME NEW d \in Creator PROVE DiskAt(d)' /\ CarriedAt(d)'
  <2>1. DiskAt(d) /\ CarriedAt(d) /\ (d # c => RootOf(d) # r) /\ RootOf(d) \in Root
    BY DEF EnrollmentInv
  <2>2. CASE d = c
    BY <1>0, <2>1, <2>2
       DEF DiskAt, CarriedAt, EnrollmentTypeOK, BeforeSecret, WithRecord, Acknowledged
  <2>3. CASE d # c
    BY <1>0, <2>1, <2>3 DEF DiskAt, CarriedAt, EnrollmentTypeOK
  <2>. QED
    BY <2>2, <2>3
<1>3. ASSUME NEW q \in requests' PROVE AsksFor(q)'
  BY <1>0 DEF EnrollmentInv, AsksFor, EnrollmentTypeOK
<1>4. OwnRecord' /\ OnTheMap' /\ (peers \subseteq peersFile)'
  BY <1>0 DEF EnrollmentInv, OwnRecord, OnTheMap, EnrollmentTypeOK, DiskAt, CarriedAt,
       BeforeSecret, WithRecord, Acknowledged
<1>5. ASSUME NEW i \in Spoken' PROVE HeldAtHome(i)'
  BY <1>0 DEF EnrollmentInv, Spoken, HeldAtHome, EnrollmentTypeOK, DiskAt, CarriedAt,
       BeforeSecret, WithRecord, Acknowledged
<1>. QED
  BY <1>1, <1>2, <1>3, <1>4, <1>5 DEF EnrollmentInv

LEMMA loadOrCreatePendingKeeps ==
    ASSUME Together = 1, EnrollmentInv, NEW c \in Creator, loadOrCreatePending(c)
    PROVE  EnrollmentInv'
<1>. USE OneCreator, NoIdentity, EnrollmentAssumption
<1>. USE DEF loadOrCreatePending, Goes, Mishap, files, relay
<1>. DEFINE r == RootOf(c)
<1>0. EnrollmentTypeOK /\ DiskAt(c) /\ CarriedAt(c) /\ r \in Root
  BY DEF EnrollmentInv
<1>1. EnrollmentTypeOK'
  BY <1>0 DEF EnrollmentTypeOK, DiskAt, CarriedAt, EnrollmentAssumption
<1>2. ASSUME NEW d \in Creator PROVE DiskAt(d)' /\ CarriedAt(d)'
  <2>1. DiskAt(d) /\ CarriedAt(d) /\ (d # c => RootOf(d) # r) /\ RootOf(d) \in Root
    BY DEF EnrollmentInv
  <2>2. CASE d = c
    <3>1. pendingFile[r] \in Identity => pendingFile[r][1] = r
      BY <1>0 DEF EnrollmentInv, OwnRecord
    <3>2. pendingFile[r] \in Identity \cup {Absent, Empty} /\ creation[c] = "record"
      BY <1>0 DEF EnrollmentTypeOK
    <3>3. CASE pendingFile[r] = Empty
      BY <1>0, <2>2, <3>2, <3>3
         DEF DiskAt, CarriedAt, EnrollmentTypeOK, BeforeSecret, WithRecord, Acknowledged
    <3>4. CASE pendingFile[r] = Absent
      BY <1>0, <2>2, <3>2, <3>4
         DEF DiskAt, CarriedAt, EnrollmentTypeOK, BeforeSecret, WithRecord, Acknowledged
    <3>5. CASE pendingFile[r] \in Identity
      <4>1. Goes(c, "post") /\ carried' = [carried EXCEPT ![c] = pendingFile[r]]
        BY <3>5
      <4>. QED
        BY <1>0, <2>2, <3>1, <3>2, <3>5, <4>1
           DEF DiskAt, CarriedAt, EnrollmentTypeOK, BeforeSecret, WithRecord, Acknowledged
    <3>. QED
      BY <3>2, <3>3, <3>4, <3>5
  <2>3. CASE d # c
    BY <1>0, <2>1, <2>3 DEF DiskAt, CarriedAt, EnrollmentTypeOK
  <2>. QED
    BY <2>2, <2>3
<1>3. ASSUME NEW q \in requests' PROVE AsksFor(q)'
  BY <1>0 DEF EnrollmentInv, AsksFor, EnrollmentTypeOK
<1>4. OwnRecord' /\ OnTheMap' /\ (peers \subseteq peersFile)'
  BY <1>0 DEF EnrollmentInv, OwnRecord, OnTheMap, EnrollmentTypeOK, DiskAt, CarriedAt,
       BeforeSecret, WithRecord, Acknowledged
<1>5. ASSUME NEW i \in Spoken' PROVE HeldAtHome(i)'
  BY <1>0 DEF EnrollmentInv, Spoken, HeldAtHome, EnrollmentTypeOK, DiskAt, CarriedAt,
       BeforeSecret, WithRecord, Acknowledged
<1>. QED
  BY <1>1, <1>2, <1>3, <1>4, <1>5 DEF EnrollmentInv

LEMMA MakePendingKeeps ==
    ASSUME Together = 1, EnrollmentInv, NEW c \in Creator, MakePending(c)
    PROVE  EnrollmentInv'
<1>. USE OneCreator, NoIdentity, EnrollmentAssumption
<1>. USE DEF MakePending, Goes, Mishap, files, relay
<1>. DEFINE r == RootOf(c)
<1>0. EnrollmentTypeOK /\ DiskAt(c) /\ CarriedAt(c) /\ r \in Root
  BY DEF EnrollmentInv
<1>0a. /\ <<r, made[r] + 1>> \in Identity /\ made[r] + 1 \in 0..MaxIdentities
      /\ <<r, made[r] + 1>>[1] = r
  <2>1. made[r] \in Nat /\ MaxIdentities \in Nat /\ made[r] < MaxIdentities
    BY <1>0 DEF EnrollmentTypeOK
  <2>. QED
    BY <1>0, <2>1 DEF Identity
<1>1. EnrollmentTypeOK'
  BY <1>0, <1>0a DEF EnrollmentTypeOK
<1>2. ASSUME NEW d \in Creator PROVE DiskAt(d)' /\ CarriedAt(d)'
  <2>1. DiskAt(d) /\ CarriedAt(d) /\ (d # c => RootOf(d) # r) /\ RootOf(d) \in Root
    BY DEF EnrollmentInv
  <2>2. CASE d = c
    BY <1>0, <1>0a, <2>1, <2>2
       DEF DiskAt, CarriedAt, EnrollmentTypeOK, BeforeSecret, WithRecord, Acknowledged
  <2>3. CASE d # c
    BY <1>0, <2>1, <2>3 DEF DiskAt, CarriedAt, EnrollmentTypeOK
  <2>. QED
    BY <2>2, <2>3
<1>3. ASSUME NEW q \in requests' PROVE AsksFor(q)'
  BY <1>0 DEF EnrollmentInv, AsksFor, EnrollmentTypeOK
<1>4. OwnRecord' /\ OnTheMap' /\ (peers \subseteq peersFile)'
  BY <1>0 DEF EnrollmentInv, OwnRecord, OnTheMap, EnrollmentTypeOK, DiskAt, CarriedAt,
       BeforeSecret, WithRecord, Acknowledged
<1>5. ASSUME NEW i \in Spoken' PROVE HeldAtHome(i)'
  BY <1>0 DEF EnrollmentInv, Spoken, HeldAtHome, EnrollmentTypeOK, DiskAt, CarriedAt,
       BeforeSecret, WithRecord, Acknowledged
<1>. QED
  BY <1>1, <1>2, <1>3, <1>4, <1>5 DEF EnrollmentInv

LEMMA ProtectPendingKeeps ==
    ASSUME Together = 1, EnrollmentInv, NEW c \in Creator, ProtectPending(c)
    PROVE  EnrollmentInv'
<1>. USE OneCreator, NoIdentity, EnrollmentAssumption
<1>. USE DEF ProtectPending, Goes, Mishap, files, relay
<1>. DEFINE r == RootOf(c)
<1>0. EnrollmentTypeOK /\ DiskAt(c) /\ CarriedAt(c) /\ r \in Root
  BY DEF EnrollmentInv
<1>1. EnrollmentTypeOK'
  BY <1>0 DEF EnrollmentTypeOK, DiskAt, CarriedAt, EnrollmentAssumption
<1>2. ASSUME NEW d \in Creator PROVE DiskAt(d)' /\ CarriedAt(d)'
  <2>1. DiskAt(d) /\ CarriedAt(d) /\ (d # c => RootOf(d) # r) /\ RootOf(d) \in Root
    BY DEF EnrollmentInv
  <2>2. CASE d = c
    BY <1>0, <2>1, <2>2
       DEF DiskAt, CarriedAt, EnrollmentTypeOK, BeforeSecret, WithRecord, Acknowledged
  <2>3. CASE d # c
    BY <1>0, <2>1, <2>3 DEF DiskAt, CarriedAt, EnrollmentTypeOK
  <2>. QED
    BY <2>2, <2>3
<1>3. ASSUME NEW q \in requests' PROVE AsksFor(q)'
  BY <1>0 DEF EnrollmentInv, AsksFor, EnrollmentTypeOK
<1>4. OwnRecord' /\ OnTheMap' /\ (peers \subseteq peersFile)'
  BY <1>0 DEF EnrollmentInv, OwnRecord, OnTheMap, EnrollmentTypeOK, DiskAt, CarriedAt,
       BeforeSecret, WithRecord, Acknowledged
<1>5. ASSUME NEW i \in Spoken' PROVE HeldAtHome(i)'
  BY <1>0 DEF EnrollmentInv, Spoken, HeldAtHome, EnrollmentTypeOK, DiskAt, CarriedAt,
       BeforeSecret, WithRecord, Acknowledged
<1>. QED
  BY <1>1, <1>2, <1>3, <1>4, <1>5 DEF EnrollmentInv

LEMMA postEnrollmentKeeps ==
    ASSUME Together = 1, EnrollmentInv, NEW c \in Creator, postEnrollment(c)
    PROVE  EnrollmentInv'
<1>. USE OneCreator, NoIdentity, EnrollmentAssumption
<1>. USE DEF postEnrollment, Goes, Mishap, files, relay
<1>. DEFINE r == RootOf(c)
<1>0. EnrollmentTypeOK /\ DiskAt(c) /\ CarriedAt(c) /\ r \in Root
  BY DEF EnrollmentInv
<1>1. EnrollmentTypeOK'
  BY <1>0 DEF EnrollmentTypeOK, CarriedAt, WithRecord
<1>2. ASSUME NEW d \in Creator PROVE DiskAt(d)' /\ CarriedAt(d)'
  <2>1. DiskAt(d) /\ CarriedAt(d) /\ (d # c => RootOf(d) # r) /\ RootOf(d) \in Root
    BY DEF EnrollmentInv
  <2>2. CASE d = c
    BY <1>0, <2>1, <2>2
       DEF DiskAt, CarriedAt, EnrollmentTypeOK, BeforeSecret, WithRecord, Acknowledged
  <2>3. CASE d # c
    BY <1>0, <2>1, <2>3 DEF DiskAt, CarriedAt, EnrollmentTypeOK
  <2>. QED
    BY <2>2, <2>3
<1>3. ASSUME NEW q \in requests' PROVE AsksFor(q)'
  BY <1>0 DEF EnrollmentInv, AsksFor, EnrollmentTypeOK
<1>4. OwnRecord' /\ OnTheMap' /\ (peers \subseteq peersFile)'
  BY <1>0 DEF EnrollmentInv, OwnRecord, OnTheMap, EnrollmentTypeOK, DiskAt, CarriedAt,
       BeforeSecret, WithRecord, Acknowledged
<1>5. ASSUME NEW i \in Spoken' PROVE HeldAtHome(i)'
  BY <1>0 DEF EnrollmentInv, Spoken, HeldAtHome, EnrollmentTypeOK, DiskAt, CarriedAt,
       BeforeSecret, WithRecord, Acknowledged
<1>. QED
  BY <1>1, <1>2, <1>3, <1>4, <1>5 DEF EnrollmentInv

LEMMA AnsweredKeeps ==
    ASSUME Together = 1, EnrollmentInv, NEW c \in Creator, Answered(c)
    PROVE  EnrollmentInv'
<1>. USE OneCreator, NoIdentity, EnrollmentAssumption
<1>. USE DEF Answered, Goes, Mishap, files, relay
<1>. DEFINE r == RootOf(c)
<1>0. EnrollmentTypeOK /\ DiskAt(c) /\ CarriedAt(c) /\ r \in Root
  BY DEF EnrollmentInv
<1>1. EnrollmentTypeOK'
  BY <1>0 DEF EnrollmentTypeOK, DiskAt, CarriedAt, EnrollmentAssumption
<1>2. ASSUME NEW d \in Creator PROVE DiskAt(d)' /\ CarriedAt(d)'
  <2>1. DiskAt(d) /\ CarriedAt(d) /\ (d # c => RootOf(d) # r) /\ RootOf(d) \in Root
    BY DEF EnrollmentInv
  <2>2. CASE d = c
    BY <1>0, <2>1, <2>2
       DEF DiskAt, CarriedAt, EnrollmentTypeOK, BeforeSecret, WithRecord, Acknowledged
  <2>3. CASE d # c
    BY <1>0, <2>1, <2>3 DEF DiskAt, CarriedAt, EnrollmentTypeOK
  <2>. QED
    BY <2>2, <2>3
<1>3. ASSUME NEW q \in requests' PROVE AsksFor(q)'
  BY <1>0 DEF EnrollmentInv, AsksFor, EnrollmentTypeOK
<1>4. OwnRecord' /\ OnTheMap' /\ (peers \subseteq peersFile)'
  BY <1>0 DEF EnrollmentInv, OwnRecord, OnTheMap, EnrollmentTypeOK, DiskAt, CarriedAt,
       BeforeSecret, WithRecord, Acknowledged
<1>5. ASSUME NEW i \in Spoken' PROVE HeldAtHome(i)'
  BY <1>0 DEF EnrollmentInv, Spoken, HeldAtHome, EnrollmentTypeOK, DiskAt, CarriedAt,
       BeforeSecret, WithRecord, Acknowledged
<1>. QED
  BY <1>1, <1>2, <1>3, <1>4, <1>5 DEF EnrollmentInv

LEMMA NoAnswerKeeps ==
    ASSUME Together = 1, EnrollmentInv, NEW c \in Creator, NoAnswer(c)
    PROVE  EnrollmentInv'
<1>. USE OneCreator, NoIdentity, EnrollmentAssumption
<1>. USE DEF NoAnswer, Goes, Mishap, files, relay, Deaf
<1>. DEFINE r == RootOf(c)
<1>0. EnrollmentTypeOK /\ DiskAt(c) /\ CarriedAt(c) /\ r \in Root
  BY DEF EnrollmentInv
<1>1. EnrollmentTypeOK'
  BY <1>0 DEF EnrollmentTypeOK, DiskAt, CarriedAt, EnrollmentAssumption
<1>2. ASSUME NEW d \in Creator PROVE DiskAt(d)' /\ CarriedAt(d)'
  <2>1. DiskAt(d) /\ CarriedAt(d) /\ (d # c => RootOf(d) # r) /\ RootOf(d) \in Root
    BY DEF EnrollmentInv
  <2>2. CASE d = c
    BY <1>0, <2>1, <2>2
       DEF DiskAt, CarriedAt, EnrollmentTypeOK, BeforeSecret, WithRecord, Acknowledged
  <2>3. CASE d # c
    BY <1>0, <2>1, <2>3 DEF DiskAt, CarriedAt, EnrollmentTypeOK
  <2>. QED
    BY <2>2, <2>3
<1>3. ASSUME NEW q \in requests' PROVE AsksFor(q)'
  BY <1>0 DEF EnrollmentInv, AsksFor, EnrollmentTypeOK
<1>4. OwnRecord' /\ OnTheMap' /\ (peers \subseteq peersFile)'
  BY <1>0 DEF EnrollmentInv, OwnRecord, OnTheMap, EnrollmentTypeOK, DiskAt, CarriedAt,
       BeforeSecret, WithRecord, Acknowledged
<1>5. ASSUME NEW i \in Spoken' PROVE HeldAtHome(i)'
  BY <1>0 DEF EnrollmentInv, Spoken, HeldAtHome, EnrollmentTypeOK, DiskAt, CarriedAt,
       BeforeSecret, WithRecord, Acknowledged
<1>. QED
  BY <1>1, <1>2, <1>3, <1>4, <1>5 DEF EnrollmentInv

LEMMA OpenSecretKeeps ==
    ASSUME Together = 1, EnrollmentInv, NEW c \in Creator, OpenSecret(c)
    PROVE  EnrollmentInv'
<1>. USE OneCreator, NoIdentity, EnrollmentAssumption
<1>. USE DEF OpenSecret, Goes, Mishap, files, relay
<1>. DEFINE r == RootOf(c)
<1>0. EnrollmentTypeOK /\ DiskAt(c) /\ CarriedAt(c) /\ r \in Root
  BY DEF EnrollmentInv
<1>1. EnrollmentTypeOK'
  BY <1>0 DEF EnrollmentTypeOK, DiskAt, CarriedAt, EnrollmentAssumption
<1>2. ASSUME NEW d \in Creator PROVE DiskAt(d)' /\ CarriedAt(d)'
  <2>1. DiskAt(d) /\ CarriedAt(d) /\ (d # c => RootOf(d) # r) /\ RootOf(d) \in Root
    BY DEF EnrollmentInv
  <2>2. CASE d = c
    BY <1>0, <2>1, <2>2
       DEF DiskAt, CarriedAt, EnrollmentTypeOK, BeforeSecret, WithRecord, Acknowledged
  <2>3. CASE d # c
    BY <1>0, <2>1, <2>3 DEF DiskAt, CarriedAt, EnrollmentTypeOK
  <2>. QED
    BY <2>2, <2>3
<1>3. ASSUME NEW q \in requests' PROVE AsksFor(q)'
  BY <1>0 DEF EnrollmentInv, AsksFor, EnrollmentTypeOK
<1>4. OwnRecord' /\ OnTheMap' /\ (peers \subseteq peersFile)'
  BY <1>0 DEF EnrollmentInv, OwnRecord, OnTheMap, EnrollmentTypeOK, DiskAt, CarriedAt,
       BeforeSecret, WithRecord, Acknowledged
<1>5. ASSUME NEW i \in Spoken' PROVE HeldAtHome(i)'
  BY <1>0 DEF EnrollmentInv, Spoken, HeldAtHome, EnrollmentTypeOK, DiskAt, CarriedAt,
       BeforeSecret, WithRecord, Acknowledged
<1>. QED
  BY <1>1, <1>2, <1>3, <1>4, <1>5 DEF EnrollmentInv

LEMMA WriteSecretKeeps ==
    ASSUME Together = 1, EnrollmentInv, NEW c \in Creator, WriteSecret(c)
    PROVE  EnrollmentInv'
<1>. USE OneCreator, NoIdentity, EnrollmentAssumption
<1>. USE DEF WriteSecret, Goes, Mishap, files, relay
<1>. DEFINE r == RootOf(c)
<1>0. EnrollmentTypeOK /\ DiskAt(c) /\ CarriedAt(c) /\ r \in Root
  BY DEF EnrollmentInv
<1>1. EnrollmentTypeOK'
  BY <1>0 DEF EnrollmentTypeOK, DiskAt, CarriedAt, EnrollmentAssumption
<1>2. ASSUME NEW d \in Creator PROVE DiskAt(d)' /\ CarriedAt(d)'
  <2>1. DiskAt(d) /\ CarriedAt(d) /\ (d # c => RootOf(d) # r) /\ RootOf(d) \in Root
    BY DEF EnrollmentInv
  <2>2. CASE d = c
    BY <1>0, <2>1, <2>2
       DEF DiskAt, CarriedAt, EnrollmentTypeOK, BeforeSecret, WithRecord, Acknowledged
  <2>3. CASE d # c
    BY <1>0, <2>1, <2>3 DEF DiskAt, CarriedAt, EnrollmentTypeOK
  <2>. QED
    BY <2>2, <2>3
<1>3. ASSUME NEW q \in requests' PROVE AsksFor(q)'
  BY <1>0 DEF EnrollmentInv, AsksFor, EnrollmentTypeOK
<1>4. OwnRecord' /\ OnTheMap' /\ (peers \subseteq peersFile)'
  BY <1>0 DEF EnrollmentInv, OwnRecord, OnTheMap, EnrollmentTypeOK, DiskAt, CarriedAt,
       BeforeSecret, WithRecord, Acknowledged
<1>5. ASSUME NEW i \in Spoken' PROVE HeldAtHome(i)'
  BY <1>0 DEF EnrollmentInv, Spoken, HeldAtHome, EnrollmentTypeOK, DiskAt, CarriedAt,
       BeforeSecret, WithRecord, Acknowledged
<1>. QED
  BY <1>1, <1>2, <1>3, <1>4, <1>5 DEF EnrollmentInv

LEMMA SaveProfileKeeps ==
    ASSUME Together = 1, EnrollmentInv, NEW c \in Creator, SaveProfile(c)
    PROVE  EnrollmentInv'
<1>. USE OneCreator, NoIdentity, EnrollmentAssumption
<1>. USE DEF SaveProfile, Goes, Mishap, files, relay
<1>. DEFINE r == RootOf(c)
<1>0. EnrollmentTypeOK /\ DiskAt(c) /\ CarriedAt(c) /\ r \in Root
  BY DEF EnrollmentInv
<1>1. EnrollmentTypeOK'
  BY <1>0 DEF EnrollmentTypeOK, DiskAt, CarriedAt, EnrollmentAssumption
<1>2. ASSUME NEW d \in Creator PROVE DiskAt(d)' /\ CarriedAt(d)'
  <2>1. DiskAt(d) /\ CarriedAt(d) /\ (d # c => RootOf(d) # r) /\ RootOf(d) \in Root
    BY DEF EnrollmentInv
  <2>2. CASE d = c
    BY <1>0, <2>1, <2>2
       DEF DiskAt, CarriedAt, EnrollmentTypeOK, BeforeSecret, WithRecord, Acknowledged
  <2>3. CASE d # c
    BY <1>0, <2>1, <2>3 DEF DiskAt, CarriedAt, EnrollmentTypeOK
  <2>. QED
    BY <2>2, <2>3
<1>3. ASSUME NEW q \in requests' PROVE AsksFor(q)'
  BY <1>0 DEF EnrollmentInv, AsksFor, EnrollmentTypeOK
<1>4. OwnRecord' /\ OnTheMap' /\ (peers \subseteq peersFile)'
  BY <1>0 DEF EnrollmentInv, OwnRecord, OnTheMap, EnrollmentTypeOK, DiskAt, CarriedAt,
       BeforeSecret, WithRecord, Acknowledged
<1>5. ASSUME NEW i \in Spoken' PROVE HeldAtHome(i)'
  BY <1>0 DEF EnrollmentInv, Spoken, HeldAtHome, EnrollmentTypeOK, DiskAt, CarriedAt,
       BeforeSecret, WithRecord, Acknowledged
<1>. QED
  BY <1>1, <1>2, <1>3, <1>4, <1>5 DEF EnrollmentInv

LEMMA finishEnrollmentKeeps ==
    ASSUME Together = 1, EnrollmentInv, NEW c \in Creator, finishEnrollment(c)
    PROVE  EnrollmentInv'
<1>. USE OneCreator, NoIdentity, EnrollmentAssumption
<1>. USE DEF finishEnrollment, Goes, Mishap, files, relay
<1>. DEFINE r == RootOf(c)
<1>0. EnrollmentTypeOK /\ DiskAt(c) /\ CarriedAt(c) /\ r \in Root
  BY DEF EnrollmentInv
<1>1. EnrollmentTypeOK'
  BY <1>0 DEF EnrollmentTypeOK, DiskAt, CarriedAt, EnrollmentAssumption
<1>2. ASSUME NEW d \in Creator PROVE DiskAt(d)' /\ CarriedAt(d)'
  <2>1. DiskAt(d) /\ CarriedAt(d) /\ (d # c => RootOf(d) # r) /\ RootOf(d) \in Root
    BY DEF EnrollmentInv
  <2>2. CASE d = c
    BY <1>0, <2>1, <2>2
       DEF DiskAt, CarriedAt, EnrollmentTypeOK, BeforeSecret, WithRecord, Acknowledged
  <2>3. CASE d # c
    BY <1>0, <2>1, <2>3 DEF DiskAt, CarriedAt, EnrollmentTypeOK
  <2>. QED
    BY <2>2, <2>3
<1>3. ASSUME NEW q \in requests' PROVE AsksFor(q)'
  BY <1>0 DEF EnrollmentInv, AsksFor, EnrollmentTypeOK
<1>4. OwnRecord' /\ OnTheMap' /\ (peers \subseteq peersFile)'
  BY <1>0 DEF EnrollmentInv, OwnRecord, OnTheMap, EnrollmentTypeOK, DiskAt, CarriedAt,
       BeforeSecret, WithRecord, Acknowledged
<1>5. ASSUME NEW i \in Spoken' PROVE HeldAtHome(i)'
  BY <1>0 DEF EnrollmentInv, Spoken, HeldAtHome, EnrollmentTypeOK, DiskAt, CarriedAt,
       BeforeSecret, WithRecord, Acknowledged
<1>. QED
  BY <1>1, <1>2, <1>3, <1>4, <1>5 DEF EnrollmentInv

LEMMA KillCreationKeeps ==
    ASSUME Together = 1, EnrollmentInv, NEW c \in Creator, KillCreation(c)
    PROVE  EnrollmentInv'
<1>. USE OneCreator, NoIdentity, EnrollmentAssumption
<1>. USE DEF KillCreation, Goes, Mishap, files, relay, Deaf
<1>. DEFINE r == RootOf(c)
<1>0. EnrollmentTypeOK /\ DiskAt(c) /\ CarriedAt(c) /\ r \in Root
  BY DEF EnrollmentInv
<1>1. EnrollmentTypeOK'
  BY SMTT(30), <1>0 DEF EnrollmentTypeOK, DiskAt, CarriedAt, EnrollmentAssumption
<1>2. ASSUME NEW d \in Creator PROVE DiskAt(d)' /\ CarriedAt(d)'
  <2>1. DiskAt(d) /\ CarriedAt(d) /\ (d # c => RootOf(d) # r) /\ RootOf(d) \in Root
    BY DEF EnrollmentInv
  <2>2. CASE d = c
    BY <1>0, <2>1, <2>2
       DEF DiskAt, CarriedAt, EnrollmentTypeOK, BeforeSecret, WithRecord, Acknowledged
  <2>3. CASE d # c
    BY <1>0, <2>1, <2>3 DEF DiskAt, CarriedAt, EnrollmentTypeOK
  <2>. QED
    BY <2>2, <2>3
<1>3. ASSUME NEW q \in requests' PROVE AsksFor(q)'
  BY <1>0 DEF EnrollmentInv, AsksFor, EnrollmentTypeOK
<1>4. OwnRecord' /\ OnTheMap' /\ (peers \subseteq peersFile)'
  BY <1>0 DEF EnrollmentInv, OwnRecord, OnTheMap, EnrollmentTypeOK, DiskAt, CarriedAt,
       BeforeSecret, WithRecord, Acknowledged
<1>5. ASSUME NEW i \in Spoken' PROVE HeldAtHome(i)'
  BY <1>0 DEF EnrollmentInv, Spoken, HeldAtHome, EnrollmentTypeOK, DiskAt, CarriedAt,
       BeforeSecret, WithRecord, Acknowledged
<1>. QED
  BY <1>1, <1>2, <1>3, <1>4, <1>5 DEF EnrollmentInv

(* What a participant does between creations. *)
LEMMA AdoptKeeps ==
    ASSUME EnrollmentInv, NEW r \in Root, Adopt(r)
    PROVE  EnrollmentInv'
<1>. USE NoIdentity
<1>. USE DEF Adopt, relay
<1>0. EnrollmentTypeOK /\ OnTheMap
  BY DEF EnrollmentInv
<1>1. EnrollmentTypeOK'
  BY <1>0 DEF EnrollmentTypeOK
<1>2. ASSUME NEW d \in Creator PROVE DiskAt(d)' /\ CarriedAt(d)'
  <2>1. DiskAt(d) /\ CarriedAt(d) /\ RootOf(d) \in Root
    BY DEF EnrollmentInv, Creator, RootOf
  <2>2. CASE RootOf(d) = r
    BY <2>1, <2>2 DEF DiskAt, CarriedAt, BeforeSecret, WithRecord, Acknowledged
  <2>3. CASE RootOf(d) # r
    BY <1>0, <2>1, <2>3 DEF DiskAt, CarriedAt, EnrollmentTypeOK
  <2>. QED
    BY <2>2, <2>3
<1>3. ASSUME NEW q \in requests' PROVE AsksFor(q)'
  BY DEF EnrollmentInv, AsksFor
<1>4. OwnRecord' /\ OnTheMap' /\ (peers \subseteq peersFile)'
  BY <1>0 DEF EnrollmentInv, OwnRecord, OnTheMap, EnrollmentTypeOK
<1>5. ASSUME NEW i \in Spoken' PROVE HeldAtHome(i)'
  BY <1>0 DEF EnrollmentInv, Spoken, HeldAtHome, EnrollmentTypeOK
<1>. QED
  BY <1>1, <1>2, <1>3, <1>4, <1>5 DEF EnrollmentInv

LEMMA RemoveUnreadableKeeps ==
    ASSUME EnrollmentInv, NEW r \in Root, RemoveUnreadable(r)
    PROVE  EnrollmentInv'
<1>. USE NoIdentity
<1>. USE DEF RemoveUnreadable, relay
<1>0. EnrollmentTypeOK /\ OnTheMap
  BY DEF EnrollmentInv
<1>1. EnrollmentTypeOK'
  BY <1>0 DEF EnrollmentTypeOK
<1>2. ASSUME NEW d \in Creator PROVE DiskAt(d)' /\ CarriedAt(d)'
  <2>1. DiskAt(d) /\ CarriedAt(d) /\ RootOf(d) \in Root
    BY DEF EnrollmentInv, Creator, RootOf
  <2>2. CASE RootOf(d) = r
    BY <2>1, <2>2 DEF DiskAt, CarriedAt, BeforeSecret, WithRecord, Acknowledged
  <2>3. CASE RootOf(d) # r
    BY <1>0, <2>1, <2>3 DEF DiskAt, CarriedAt, EnrollmentTypeOK
  <2>. QED
    BY <2>2, <2>3
<1>3. ASSUME NEW q \in requests' PROVE AsksFor(q)'
  BY DEF EnrollmentInv, AsksFor
<1>4. OwnRecord' /\ OnTheMap' /\ (peers \subseteq peersFile)'
  BY <1>0 DEF EnrollmentInv, OwnRecord, OnTheMap, EnrollmentTypeOK
<1>5. ASSUME NEW i \in Spoken' PROVE HeldAtHome(i)'
  BY <1>0 DEF EnrollmentInv, Spoken, HeldAtHome, EnrollmentTypeOK
<1>. QED
  BY <1>1, <1>2, <1>3, <1>4, <1>5 DEF EnrollmentInv

(* The relay, in all three of its answers. *)
LEMMA RelayAnswers ==
    ASSUME EnrollmentInv, NEW q \in requests, enrollPublicLocked(q)
    PROVE  /\ requests' = requests \ {q}
           /\ UNCHANGED <<creation, carried, made, files>>
           /\ \/ AnswerTo(q, "ok") /\ q.identity \in peers'
              \/ AnswerTo(q, "no")
           /\ \/ UNCHANGED <<relay, mishaps>>
              \/ Enrolled(q) /\ ~Full
              \/ NotSaved(q)
           /\ peers \subseteq peers' /\ peers' \subseteq peersFile'
           /\ peers' \cup peersFile' \subseteq Spoken
<1>1. /\ UNCHANGED <<creation, carried, made, files>>
      /\ \/ KnownIdentity(q) /\ AnswerTo(q, "ok") /\ UNCHANGED <<relay, mishaps>>
         \/ AnswerTo(q, "no") /\ UNCHANGED <<relay, mishaps>>
         \/ Enrolled(q) /\ ~Full
         \/ NotSaved(q)
  BY DEF enrollPublicLocked
<1>2. peers \subseteq peersFile
  BY DEF EnrollmentInv
<1>3. CASE Enrolled(q) \/ NotSaved(q)
  BY <1>1, <1>2, <1>3 DEF Enrolled, NotSaved, AnswerTo, Spoken, relay
<1>4. CASE ~(Enrolled(q) \/ NotSaved(q))
  BY <1>1, <1>2, <1>4 DEF AnswerTo, Spoken, relay, KnownIdentity
<1>. QED
  BY <1>3, <1>4

LEMMA RelayKeeps ==
    ASSUME EnrollmentInv, NEW q \in requests, enrollPublicLocked(q)
    PROVE  EnrollmentInv'
<1>. USE RelayAnswers, NoIdentity
<1>. USE DEF files
<1>0. EnrollmentTypeOK /\ AsksFor(q) /\ OnTheMap /\ OwnRecord
  BY DEF EnrollmentInv
<1>1. EnrollmentTypeOK'
  <2>1. recent \in Nat /\ MaxPerAddress \in Nat /\ mishaps \in Nat /\ MaxMishaps \in Nat
    BY <1>0, EnrollmentAssumption DEF EnrollmentTypeOK
  <2>2. recent' \in 0..MaxPerAddress /\ mishaps' \in 0..MaxMishaps
    <3>1. Enrolled(q) /\ ~Full => recent + 1 <= MaxPerAddress
      BY <2>1 DEF Full
    <3>. QED
      BY <1>0, <2>1, <3>1 DEF EnrollmentTypeOK, Enrolled, NotSaved, Mishap, relay
  <2>3. answers' \in [Creator -> {"none", "ok", "no"}]
    BY <1>0 DEF EnrollmentTypeOK, AnswerTo
  <2>4. peers' \subseteq Identity /\ peersFile' \subseteq Identity
    BY <1>0 DEF EnrollmentTypeOK, Enrolled, NotSaved, relay
  <2>. QED
    BY <1>0, <2>2, <2>3, <2>4 DEF EnrollmentTypeOK
<1>2. ASSUME NEW d \in Creator PROVE DiskAt(d)' /\ CarriedAt(d)'
  <2>1. DiskAt(d) /\ CarriedAt(d)
    BY DEF EnrollmentInv
  <2>2. answers'[d] = "ok" => answers[d] = "ok" \/ (q.from = d /\ q.identity \in peers')
    BY <1>0 DEF AnswerTo, EnrollmentTypeOK
  <2>3. q.from = d => q.identity = carried[d]
    BY <1>0 DEF AsksFor
  <2>. QED
    BY <2>1, <2>2, <2>3 DEF DiskAt, CarriedAt
<1>3. ASSUME NEW p \in requests' PROVE AsksFor(p)'
  <2>1. AsksFor(p) /\ p \in requests /\ p # q
    BY DEF EnrollmentInv
  <2>2. p.from # Absent => p.from # q.from
    BY <1>0, <2>1 DEF AsksFor, EnrollmentTypeOK
  <2>3. p.from # Absent => answers'[p.from] = answers[p.from]
    BY <1>0, <2>1, <2>2 DEF AnswerTo, EnrollmentTypeOK
  <2>. QED
    BY <2>1, <2>3 DEF AsksFor
<1>4. OwnRecord' /\ OnTheMap' /\ (peers \subseteq peersFile)'
  BY <1>0 DEF OwnRecord, OnTheMap
<1>5. ASSUME NEW i \in Spoken' PROVE HeldAtHome(i)'
  BY DEF EnrollmentInv, Spoken, HeldAtHome
<1>. QED
  BY <1>1, <1>2, <1>3, <1>4, <1>5 DEF EnrollmentInv

LEMMA RelayRestartKeeps ==
    ASSUME EnrollmentInv, RelayStartsAgain
    PROVE  EnrollmentInv'
<1>. USE NoIdentity
<1>. USE DEF RelayStartsAgain, files, Mishap
<1>0. EnrollmentTypeOK /\ OnTheMap /\ OwnRecord /\ peers \subseteq peers'
  BY DEF EnrollmentInv
<1>1. EnrollmentTypeOK'
  <2>1. creation' \in [Creator -> {"off", "record", "make", "protect", "post", "wait", "open",
                                   "secret", "profile", "finish"}]
    BY <1>0 DEF EnrollmentTypeOK
  <2>. QED
    BY <1>0, <2>1, EnrollmentAssumption DEF EnrollmentTypeOK
<1>2. ASSUME NEW d \in Creator PROVE DiskAt(d)' /\ CarriedAt(d)'
  <2>1. DiskAt(d) /\ CarriedAt(d)
    BY DEF EnrollmentInv
  <2>2. creation'[d] = creation[d] \/ creation'[d] = "off"
    OBVIOUS
  <2>3. CASE creation'[d] = creation[d]
    BY <1>0, <2>1, <2>3 DEF DiskAt, CarriedAt
  <2>4. CASE creation'[d] = "off"
    BY <2>1, <2>4 DEF DiskAt, CarriedAt, BeforeSecret, WithRecord, Acknowledged
  <2>. QED
    BY <2>2, <2>3, <2>4
<1>4. OwnRecord' /\ OnTheMap' /\ (peers \subseteq peersFile)'
  BY <1>0 DEF OwnRecord, OnTheMap
<1>5. ASSUME NEW i \in Spoken' PROVE HeldAtHome(i)'
  BY DEF EnrollmentInv, Spoken, HeldAtHome
<1>. QED
  BY <1>1, <1>2, <1>4, <1>5 DEF EnrollmentInv

LEMMA WindowPassesKeeps ==
    ASSUME EnrollmentInv, WindowPasses
    PROVE  EnrollmentInv'
<1>1. EnrollmentTypeOK'
  <2>1. recent \in Nat /\ MaxPerAddress \in Nat /\ recent <= MaxPerAddress /\ recent > 0
    BY EnrollmentAssumption DEF EnrollmentInv, EnrollmentTypeOK, WindowPasses
  <2>2. recent - 1 \in 0..MaxPerAddress
    BY <2>1
  <2>. QED
    BY <2>2 DEF EnrollmentInv, EnrollmentTypeOK, WindowPasses, files
<1>. QED
  BY <1>1 DEF EnrollmentInv, WindowPasses, files, DiskAt, CarriedAt, AsksFor, OwnRecord, OnTheMap,
       Spoken, HeldAtHome

LEMMA StutterKeepsEnrollment ==
    ASSUME EnrollmentInv, UNCHANGED enrollmentVars
    PROVE  EnrollmentInv'
  BY DEF EnrollmentInv, EnrollmentTypeOK, enrollmentVars, files, relay, DiskAt, CarriedAt,
       AsksFor, OwnRecord, OnTheMap, Spoken, HeldAtHome

LEMMA EnrollmentBegins ==
    ASSUME EnrollmentInit
    PROVE  EnrollmentInv
  BY NoIdentity, EnrollmentAssumption
     DEF EnrollmentInit, EnrollmentInv, EnrollmentTypeOK, DiskAt, CarriedAt, AsksFor, OwnRecord,
         OnTheMap, Spoken, HeldAtHome, BeforeSecret, WithRecord, Acknowledged, Creator, RootOf

LEMMA EnrollmentInvImplies ==
    ASSUME EnrollmentInv
    PROVE  OneIdentityEach
<1>1. WorldAuthenticates
  BY NoIdentity DEF EnrollmentInv, EnrollmentTypeOK, OnTheMap, WorldAuthenticates
<1>2. NothingStranded
  BY DEF EnrollmentInv, Spoken, HeldAtHome, NothingStranded
<1>. QED
  BY <1>1, <1>2 DEF OneIdentityEach

(* One world, one identity on the map: whatever is killed, lost, refused or *)
(* not saved on the way, a world with a profile authenticates, now and      *)
(* after any restart, and the relay knows no identity whose root has lost   *)
(* it (createProfile, enrollPublicMap, enrollPublicLocked), as long as no two *)
(* creations are under way in one data root at a time.                      *)
THEOREM OneIdentityStays ==
    ASSUME Together = 1
    PROVE  EnrollmentSpec => []OneIdentityEach
<1>1. EnrollmentInit => EnrollmentInv
  BY EnrollmentBegins
<1>2. EnrollmentInv /\ [EnrollmentNext]_enrollmentVars => EnrollmentInv'
  <2>. SUFFICES ASSUME EnrollmentInv, [EnrollmentNext]_enrollmentVars
               PROVE  EnrollmentInv'
    OBVIOUS
  <2>1. CASE UNCHANGED enrollmentVars
    BY <2>1, StutterKeepsEnrollment
  <2>2. ASSUME NEW c \in Creator,
               \/ CreateWorld(c) \/ loadOrCreatePending(c) \/ MakePending(c)
               \/ ProtectPending(c) \/ postEnrollment(c) \/ Answered(c)
        PROVE  EnrollmentInv'
    BY <2>2, CreateWorldKeeps, loadOrCreatePendingKeeps, MakePendingKeeps,
       ProtectPendingKeeps, postEnrollmentKeeps, AnsweredKeeps
  <2>3. ASSUME NEW c \in Creator,
               \/ NoAnswer(c) \/ OpenSecret(c) \/ WriteSecret(c)
               \/ SaveProfile(c) \/ finishEnrollment(c) \/ KillCreation(c)
        PROVE  EnrollmentInv'
    BY <2>3, NoAnswerKeeps, OpenSecretKeeps, WriteSecretKeeps, SaveProfileKeeps,
       finishEnrollmentKeeps, KillCreationKeeps
  <2>4. ASSUME NEW r \in Root, Adopt(r) \/ RemoveUnreadable(r) PROVE EnrollmentInv'
    BY <2>4, AdoptKeeps, RemoveUnreadableKeeps
  <2>5. ASSUME NEW q \in requests, enrollPublicLocked(q) PROVE EnrollmentInv'
    BY <2>5, RelayKeeps
  <2>6. CASE WindowPasses \/ RelayStartsAgain
    BY <2>6, WindowPassesKeeps, RelayRestartKeeps
  <2>. QED
    BY <2>1, <2>2, <2>3, <2>4, <2>5, <2>6 DEF EnrollmentNext
<1>3. EnrollmentInv => OneIdentityEach
  BY EnrollmentInvImplies
<1>. QED
  BY <1>1, <1>2, <1>3, PTL DEF EnrollmentSpec

-----------------------------------------------------------------------------
(***************************************************************************)
(* Admission: the population gate holds.  What a gate that knows the world  *)
(* may not know of it is what was born or let in unasked, and the arrivals  *)
(* whose first acknowledgement is on the way; those it counts as spawned.   *)
(* A heartbeat on the way speaks of all arrivals but those acknowledged     *)
(* behind it.                                                               *)
(***************************************************************************)
ModFrame == [ack : {"spawned", "duplicate"}] \cup [ack : {"none"}, pop : Nat, budget : Nat]
Sample == [age : Int, budget : Nat]

AdmissionTypes ==
    /\ mode \in {"fixed", "adaptive"} /\ closed \in BOOLEAN
    /\ alive \in Nat /\ waiting \in Nat /\ spawned \in Nat /\ admitted \in Nat /\ extra \in Nat
    /\ pop \in Nat \cup {Unknown} /\ chan \in Seq(ModFrame)
    /\ samples \in Seq(Sample) /\ stateFile \in [samples : Seq(Sample), ready : BOOLEAN]
    /\ learned \in [ready : BOOLEAN, limit : 0..MaxLimit]

(* Frames of some kinds behind the first k. *)
Behind(c, k, T) == {j \in k + 1..Len(c) : c[j].ack \in T}
Count(c, k, T) == Cardinality(Behind(c, k, T))
Acks == {"spawned", "duplicate"}
Arrivals(c, k) == Count(c, k, {"spawned"})

AcksAreOwed == Count(chan, 0, Acks) <= spawned
PopulationIsFair == pop # Unknown => alive <= pop + admitted + Arrivals(chan, 0) + extra
BeatsAreFair == \A k \in DOMAIN chan :
    chan[k].ack = "none" => alive <= chan[k].pop + Arrivals(chan, k) + extra

AdmissionInv == AdmissionTypes /\ AcksAreOwed /\ PopulationIsFair /\ BeatsAreFair /\ GateHolds


LEMMA BehindFinite ==
    ASSUME NEW c \in Seq(ModFrame), NEW k \in Nat, NEW T
    PROVE  IsFiniteSet(Behind(c, k, T)) /\ Count(c, k, T) \in Nat
<1>1. IsFiniteSet(k + 1..Len(c)) /\ Behind(c, k, T) \subseteq k + 1..Len(c)
  BY FS_Interval DEF Behind
<1>. QED
  BY <1>1, FS_Subset, FS_CardinalityType DEF Count

(* A frame that is sent is behind all others. *)
LEMMA CountAppend ==
    ASSUME NEW c \in Seq(ModFrame), NEW x \in ModFrame, NEW k \in 0..Len(c), NEW T
    PROVE  Count(Append(c, x), k, T) = IF x.ack \in T THEN Count(c, k, T) + 1 ELSE Count(c, k, T)
<1>. DEFINE n == Len(c) + 1
            d == Append(c, x)
<1>1. /\ d \in Seq(ModFrame) /\ Len(d) = n /\ n \in Nat /\ n \in k + 1..n
      /\ d[n] = x /\ \A j \in 1..Len(c) : d[j] = c[j]
  OBVIOUS
<1>2. Behind(d, k, T) = IF x.ack \in T THEN Behind(c, k, T) \cup {n} ELSE Behind(c, k, T)
  BY <1>1 DEF Behind
<1>3. n \notin Behind(c, k, T) /\ k \in Nat
  BY DEF Behind
<1>. HIDE DEF n
<1>. QED
  BY <1>2, <1>3, BehindFinite, FS_AddElement DEF Count

(* One that arrives shifts the others by one. *)
LEMMA CountTail ==
    ASSUME NEW c \in Seq(ModFrame), c # <<>>, NEW k \in 0..Len(c) - 1, NEW T
    PROVE  Count(Tail(c), k, T) = Count(c, k + 1, T)
<1>. DEFINE d == Tail(c)
            S == Behind(d, k, T)
            U == Behind(c, k + 1, T)
            f == [j \in S |-> j + 1]
<1>1. Len(d) = Len(c) - 1 /\ \A j \in 1..Len(d) : d[j] = c[j + 1]
  OBVIOUS
<1>2. \A j \in Int : j \in S <=> j + 1 \in U
  BY <1>1 DEF Behind
<1>3. S \subseteq Int /\ U \subseteq Int
  BY DEF Behind
<1>4. f \in Bijection(S, U)
  <2>. HIDE DEF S, U
  <2>1. f \in [S -> U] /\ \A i, j \in S : f[i] = f[j] => i = j
    BY <1>2, <1>3
  <2>2. \A u \in U : \E j \in S : f[j] = u
    <3>1. ASSUME NEW u \in U PROVE u - 1 \in S /\ f[u - 1] = u
      BY <1>2, <1>3
    <3>. QED
      BY <3>1
  <2>. HIDE DEF f
  <2>. QED
    BY <2>1, <2>2 DEF Bijection, Injection, Surjection, IsInjective
<1>5. IsFiniteSet(S)
  <2>1. d \in Seq(ModFrame) /\ k \in Nat
    OBVIOUS
  <2>. HIDE DEF d
  <2>. QED
    BY <2>1, BehindFinite
<1>. QED
  BY <1>4, <1>5, FS_Bijection DEF Count, ExistsBijection

LEMMA CountHead ==
    ASSUME NEW c \in Seq(ModFrame), c # <<>>, NEW T
    PROVE  Count(c, 0, T) = IF Head(c).ack \in T THEN Count(c, 1, T) + 1 ELSE Count(c, 1, T)
<1>1. Behind(c, 0, T) = IF Head(c).ack \in T THEN Behind(c, 1, T) \cup {1} ELSE Behind(c, 1, T)
  BY DEF Behind
<1>2. 1 \notin Behind(c, 1, T)
  BY DEF Behind
<1>. QED
  BY <1>1, <1>2, BehindFinite, FS_AddElement DEF Count

LEMMA NothingBehind ==
    ASSUME NEW c \in Seq(ModFrame), NEW T
    PROVE  Count(c, Len(c), T) = 0
  BY FS_EmptySet DEF Count, Behind

LEMMA ArrivalsAreAcks ==
    ASSUME NEW c \in Seq(ModFrame)
    PROVE  /\ Arrivals(c, 0) <= Count(c, 0, Acks)
           /\ Count(c, 0, Acks) = Cardinality({k \in DOMAIN c : c[k].ack # "none"})
<1>1. Behind(c, 0, {"spawned"}) \subseteq Behind(c, 0, Acks)
  BY DEF Behind, Acks
<1>2. Behind(c, 0, Acks) = {k \in DOMAIN c : c[k].ack # "none"}
  <2>1. \A k \in DOMAIN c : c[k].ack \in Acks <=> c[k].ack # "none"
    BY DEF Acks, ModFrame
  <2>. QED
    BY <2>1 DEF Behind
<1>. QED
  BY <1>1, <1>2, BehindFinite, FS_Subset DEF Count, Arrivals

-----------------------------------------------------------------------------
LEMMA SampleParts ==
    ASSUME NEW s \in Seq(Sample), NEW i \in 1..Len(s)
    PROVE  s[i] \in Sample /\ s[i].age \in Int /\ s[i].budget \in Nat
<1>1. s[i] \in Sample
  OBVIOUS
<1>. QED
  BY <1>1 DEF Sample

LEMMA TrimKeepsSamples ==
    ASSUME NEW s \in Seq(Sample)
    PROVE  trim(s) \in Seq(Sample)
<1>. DEFINE fresh == {i \in DOMAIN s : s[i].age <= Window}
            first == CHOOSE i \in fresh : \A j \in fresh : i <= j
<1>1. CASE fresh = {}
  BY <1>1 DEF trim
<1>2. CASE fresh # {}
  <2>1. fresh \in SUBSET Nat
    OBVIOUS
  <2>2. first \in fresh
    <3>. HIDE DEF fresh
    <3>. QED
      BY <1>2, <2>1, LeastNat
  <2>3. first \in 1..Len(s)
    BY <2>2
  <2>4. SubSeq(s, first, Len(s)) \in Seq(Sample)
    <3>. HIDE DEF first
    <3>. QED
      BY <2>3
  <2>. QED
    BY <1>2, <2>4 DEF trim
<1>. QED
  BY <1>1, <1>2

(* A bound on the budgets. *)
LEMMA BudgetsBounded ==
    ASSUME NEW s \in Seq(Sample)
    PROVE  \E b \in Nat : \A i \in DOMAIN s : s[i].budget <= b
<1>. DEFINE Bounded(n) == \E b \in Nat : \A i \in 1..n : s[i].budget <= b
            T == {n \in 0..Len(s) : ~Bounded(n)}
<1>1. SUFFICES ASSUME T # {} PROVE FALSE
  <2>0. Len(s) \notin T
    BY <1>1
  <2>1. Bounded(Len(s))
    BY <2>0
  <2>2. DOMAIN s = 1..Len(s)
    OBVIOUS
  <2>. QED
    BY <2>1, <2>2
<1>2. PICK n \in T : \A m \in T : n <= m
  <2>1. T \in SUBSET Nat
    OBVIOUS
  <2>. HIDE DEF T
  <2>. QED
    BY <1>1, <2>1, LeastNat
<1>3. n # 0
  <2>1. Bounded(0)
    <3>1. \A i \in 1..0 : s[i].budget <= 0
      OBVIOUS
    <3>. QED
      BY <3>1
  <2>. QED
    BY <2>1
<1>4. n - 1 \in 0..Len(s) /\ n \in 1..Len(s) /\ n - 1 \notin T
  <2>1. n \in 0..Len(s)
    OBVIOUS
  <2>2. n - 1 \in 0..Len(s) /\ n \in 1..Len(s) /\ ~(n <= n - 1)
    BY <2>1, <1>3
  <2>. HIDE DEF T
  <2>. QED
    BY <1>2, <2>2
<1>5. PICK b \in Nat : \A i \in 1..n - 1 : s[i].budget <= b
  BY <1>4
<1>6. s[n].budget \in Nat
  BY <1>4, SampleParts
<1>7. \A i \in 1..n : s[i].budget <= b + s[n].budget
  <2>1. ASSUME NEW i \in 1..n PROVE s[i].budget <= b + s[n].budget
    <3>0. n \in Nat /\ i \in 1..Len(s)
      BY <1>4
    <3>1. s[i].budget \in Nat
      BY <3>0, SampleParts
    <3>. HIDE DEF T
    <3>2. CASE i = n
      BY <1>5, <1>6, <3>2
    <3>3. CASE i \in 1..n - 1
      BY <1>5, <1>6, <3>1, <3>3
    <3>. QED
      BY <1>4, <3>2, <3>3
  <2>. QED
    BY <2>1
<1>8. b + s[n].budget \in Nat
  <2>. HIDE DEF T
  <2>. QED
    BY <1>5, <1>6
<1>. QED
  BY <1>4, <1>7, <1>8

(* The k-th of the sorted budgets is one of them. *)
LEMMA RankedIsBudget ==
    ASSUME NEW s \in Seq(Sample), NEW k \in 1..Len(s)
    PROVE  Ranked(s, k) \in Nat
<1>. DEFINE upTo(v) == {i \in DOMAIN s : s[i].budget <= v}
            under(v) == {i \in DOMAIN s : s[i].budget < v}
            T == {v \in Nat : Cardinality(upTo(v)) >= k}
<1>0. DOMAIN s = 1..Len(s) /\ \A i \in DOMAIN s : s[i].budget \in Nat
  BY SampleParts
<1>1. IsFiniteSet(DOMAIN s) /\ Cardinality(DOMAIN s) = Len(s)
  BY <1>0, FS_Interval
<1>2. \A v : /\ IsFiniteSet(upTo(v)) /\ IsFiniteSet(under(v))
             /\ Cardinality(upTo(v)) \in Nat /\ Cardinality(under(v)) \in Nat
  BY <1>1, FS_Subset, FS_CardinalityType
<1>3. T # {}
  <2>1. PICK b \in Nat : \A i \in DOMAIN s : s[i].budget <= b
    BY BudgetsBounded
  <2>2. upTo(b) = DOMAIN s
    BY <2>1
  <2>3. b \in T
    BY <1>1, <2>2
  <2>. QED
    BY <2>3
<1>4. PICK v \in T : \A w \in T : v <= w
  <2>1. T \in SUBSET Nat
    OBVIOUS
  <2>. HIDE DEF T
  <2>. QED
    BY <1>3, <2>1, LeastNat
<1>5. Cardinality(under(v)) < k
  <2>1. CASE v = 0
    <3>1. under(v) = {}
      BY <1>0, <2>1
    <3>. HIDE DEF under
    <3>. QED
      BY <3>1, FS_EmptySet
  <2>2. CASE v # 0
    <3>1. under(v) = upTo(v - 1)
      BY <1>0, <1>4, <2>2
    <3>2. v - 1 \in Nat /\ v - 1 \notin T
      BY <1>4, <2>2
    <3>3. ~(Cardinality(upTo(v - 1)) >= k)
      BY <3>2
    <3>4. Cardinality(under(v)) \in Nat
      BY <1>2
    <3>. HIDE DEF upTo, under
    <3>. QED
      BY <3>1, <3>3, <3>4
  <2>. QED
    BY <2>1, <2>2
<1>6. v \in {s[i].budget : i \in DOMAIN s}
  <2>1. SUFFICES ASSUME v \notin {s[i].budget : i \in DOMAIN s} PROVE FALSE
    OBVIOUS
  <2>2. under(v) = upTo(v)
    BY <1>0, <1>4, <2>1
  <2>3. Cardinality(upTo(v)) >= k /\ Cardinality(upTo(v)) \in Nat
    BY <1>2, <1>4
  <2>. HIDE DEF upTo, under
  <2>. QED
    BY <1>5, <2>2, <2>3
<1>7. Cardinality(upTo(v)) >= k
  BY <1>4
<1>8. Ranked(s, k) \in {s[i].budget : i \in DOMAIN s}
  BY <1>5, <1>6, <1>7 DEF Ranked
<1>. QED
  BY <1>0, <1>8

LEMMA EstimateBounded ==
    ASSUME NEW s \in Seq(Sample), Len(s) >= 1
    PROVE  Estimate(s) \in 0..MaxLimit
<1>. DEFINE n == Len(s)
            half == n \div 2
<1>1. n \in Nat /\ n >= 1 /\ half \in Nat
      /\ (n % 2 = 1 => half + 1 \in 1..n) /\ (n % 2 # 1 => half \in 1..n /\ half + 1 \in 1..n)
  <2>1. n \in Nat /\ n >= 1
    OBVIOUS
  <2>. HIDE DEF n
  <2>. QED
    BY <2>1
<1>2. Median(s) \in Int
  <2>1. CASE n % 2 = 1
    <3>1. Ranked(s, half + 1) \in Nat
      BY <1>1, <2>1, RankedIsBudget
    <3>. QED
      BY <2>1, <3>1 DEF Median
  <2>2. CASE n % 2 # 1
    <3>1. Ranked(s, half) \in Nat /\ Ranked(s, half + 1) \in Nat
      BY <1>1, <2>2, RankedIsBudget
    <3>2. (Ranked(s, half) + Ranked(s, half + 1)) \div 2 \in Int
      BY <3>1
    <3>. QED
      BY <2>2, <3>2 DEF Median
  <2>. QED
    BY <2>1, <2>2
<1>. QED
  BY <1>2, AdmissionAssumption DEF Estimate, Smallest, Largest

LEMMA RecalculateBounded ==
    ASSUME NEW s \in Seq(Sample), NEW l \in [ready : BOOLEAN, limit : 0..MaxLimit]
    PROVE  recalculate(s, l) \in [ready : BOOLEAN, limit : 0..MaxLimit]
<1>0. MinSamples \in Nat \ {0} /\ Len(s) \in Nat /\ MaxLimit \in Nat
  BY AdmissionAssumption
<1>1. CASE Len(s) < MinSamples
  BY <1>1 DEF recalculate
<1>2. CASE ~(Len(s) < MinSamples)
  <2>. DEFINE e == Estimate(s)
              down == Largest(e, l.limit - Largest(1, (l.limit + 9) \div 10))
              up == Smallest(e, l.limit + Largest(1, (l.limit + 19) \div 20))
              new == CASE ~l.ready -> e [] e < l.limit -> down [] OTHER -> up
  <2>1. e \in 0..MaxLimit
    BY <1>0, <1>2, EstimateBounded
  <2>2. recalculate(s, l) = [ready |-> TRUE, limit |-> new]
    BY <1>2 DEF recalculate
  <2>3. /\ l.limit \in 0..MaxLimit
        /\ Largest(1, (l.limit + 9) \div 10) \in Nat \ {0}
        /\ Largest(1, (l.limit + 19) \div 20) \in Nat \ {0}
    <3>1. l.limit \in 0..MaxLimit /\ (l.limit + 9) \div 10 \in Int /\ (l.limit + 19) \div 20 \in Int
      BY <1>0
    <3>. QED
      BY <3>1 DEF Largest
  <2>. HIDE DEF e
  <2>4. up \in 0..MaxLimit
    BY <1>0, <2>1, <2>3 DEF Smallest
  <2>5. down \in 0..MaxLimit
    <3>1. \A x \in Nat \ {0} : l.limit - x \in Int /\ l.limit - x <= MaxLimit
      BY <1>0, <2>3
    <3>2. \A y \in Int : y <= MaxLimit => Largest(e, y) \in 0..MaxLimit
      BY <1>0, <2>1 DEF Largest
    <3>. QED
      BY <2>3, <3>1, <3>2
  <2>. HIDE DEF up, down
  <2>6. new \in 0..MaxLimit
    BY <2>1, <2>4, <2>5
  <2>. HIDE DEF new
  <2>. QED
    BY <2>2, <2>6
<1>. QED
  BY <1>1, <1>2

LEMMA TrimmedBounded ==
    ASSUME NEW s, NEW l \in [ready : BOOLEAN, limit : 0..MaxLimit]
    PROVE  trimmed(l, s) \in [ready : BOOLEAN, limit : 0..MaxLimit]
  BY DEF trimmed

(* A gate that admits knowingly leaves room for one more. *)
LEMMA GateLeavesRoom ==
    ASSUME AdmissionTypes, pop # Unknown, limit(learned) # 0, ~Refreshed(Committed, TRUE, learned)
    PROVE  Committed + 1 <= Highest
<1>1. Committed \in Nat /\ limit(learned) \in Nat /\ limit(learned) <= Highest
  BY AdmissionAssumption DEF AdmissionTypes, Committed, limit, Highest
<1>2. closed \in BOOLEAN /\ Hysteresis \in Nat \ {0}
  BY AdmissionAssumption DEF AdmissionTypes
<1>3. limit(learned) > 0
  BY <1>1
<1>4. IF closed THEN Committed <= Largest(0, limit(learned) - Hysteresis)
      ELSE Committed < limit(learned)
  <2>1. Largest(0, limit(learned) - Hysteresis) \in Int
    BY <1>1, <1>2 DEF Largest
  <2>2. ~(IF closed THEN Committed > Largest(0, limit(learned) - Hysteresis)
          ELSE Committed >= limit(learned))
    BY <1>3 DEF Refreshed
  <2>. QED
    BY <1>1, <1>2, <2>1, <2>2
<1>5. Committed < limit(learned)
  BY <1>1, <1>2, <1>3, <1>4 DEF Largest
<1>6. Highest \in Nat
  BY AdmissionAssumption DEF Highest
<1>. QED
  BY <1>1, <1>5, <1>6

(* The step lemmas: what a step does to the books. *)
LEMMA ChanParts ==
    ASSUME AdmissionTypes, NEW k \in DOMAIN chan
    PROVE  chan[k] \in ModFrame /\ k \in 0..Len(chan) /\ k \in Nat
  BY DEF AdmissionTypes

LEMMA BooksAreNumbers ==
    ASSUME AdmissionTypes
    PROVE  /\ Highest \in Nat
           /\ \A k \in 0..Len(chan) : Arrivals(chan, k) \in Nat
           /\ Count(chan, 0, Acks) \in Nat
  BY BehindFinite, AdmissionAssumption DEF AdmissionTypes, Highest, Arrivals

(* More unasked organisms make no book less true. *)
LEMMA BooksKept ==
    ASSUME AdmissionInv, extra' \in Nat, extra' >= extra,
           UNCHANGED <<mode, alive, spawned, chan, pop, admitted>>
    PROVE  AcksAreOwed' /\ PopulationIsFair' /\ BeatsAreFair'
<1>0. /\ AdmissionTypes /\ extra \in Nat /\ alive \in Nat /\ spawned \in Nat /\ admitted \in Nat
      /\ \A k \in 0..Len(chan) : Arrivals(chan, k) \in Nat
      /\ chan \in Seq(ModFrame)
  BY BooksAreNumbers DEF AdmissionInv, AdmissionTypes
<1>1. AcksAreOwed'
  BY DEF AdmissionInv, AcksAreOwed
<1>2. PopulationIsFair'
  <2>1. SUFFICES ASSUME pop # Unknown
                 PROVE  alive <= pop + admitted + Arrivals(chan, 0) + extra'
    BY DEF PopulationIsFair, Arrivals
  <2>2. alive <= pop + admitted + Arrivals(chan, 0) + extra /\ pop \in Nat
    BY <2>1 DEF AdmissionInv, PopulationIsFair, AdmissionTypes
  <2>3. Arrivals(chan, 0) \in Nat
    BY <1>0
  <2>. QED
    BY <1>0, <2>2, <2>3
<1>3. BeatsAreFair'
  <2>. SUFFICES ASSUME NEW k \in DOMAIN chan, chan[k].ack = "none"
               PROVE  alive <= chan[k].pop + Arrivals(chan, k) + extra'
    BY DEF BeatsAreFair, Arrivals
  <2>1. chan[k] \in ModFrame /\ k \in 0..Len(chan)
    BY <1>0, ChanParts
  <2>2. chan[k].pop \in Nat
    BY <2>1 DEF ModFrame
  <2>3. alive <= chan[k].pop + Arrivals(chan, k) + extra
    BY DEF AdmissionInv, BeatsAreFair
  <2>4. Arrivals(chan, k) \in Nat
    BY <1>0, <2>1
  <2>. QED
    BY <1>0, <2>2, <2>3, <2>4
<1>. QED
  BY <1>1, <1>2, <1>3

(* What holds of the world holds of it again, unless it grew by more than *)
(* was let in unasked.                                                    *)
LEMMA Exchanged ==
    ASSUME NEW p \in Int, NEW q \in Int, NEW h \in Int, NEW e \in Int, NEW f \in Int,
           p + e <= q + f, q <= h + e
    PROVE  p <= h + f
  OBVIOUS

LEMMA WorldKept ==
    ASSUME AdmissionInv, UNCHANGED mode, AdmissionTypes',
           alive' + waiting' + extra <= alive + waiting + extra'
    PROVE  GateHolds'
<1>1. Highest' = Highest /\ Highest \in Nat /\ alive + waiting <= Highest + extra
  BY BooksAreNumbers DEF Highest, AdmissionInv, GateHolds
<1>2. /\ alive \in Nat /\ waiting \in Nat /\ extra \in Nat
      /\ alive' \in Nat /\ waiting' \in Nat /\ extra' \in Nat
  BY DEF AdmissionInv, AdmissionTypes
<1>. DEFINE p == alive' + waiting'
            q == alive + waiting
<1>3. p \in Int /\ q \in Int /\ p + extra <= q + extra' /\ q <= Highest + extra
  <2>1. p \in Int /\ q \in Int
    BY <1>2
  <2>2. p + extra <= q + extra'
    OBVIOUS
  <2>3. q <= Highest + extra
    BY <1>1
  <2>. QED
    BY <2>1, <2>2, <2>3
<1>. HIDE DEF p, q
<1>4. Highest \in Int /\ extra \in Int /\ extra' \in Int
  BY <1>1, <1>2
<1>5. p <= Highest + extra'
  BY <1>3, <1>4, Exchanged
<1>. QED
  BY <1>1, <1>5 DEF GateHolds, p

LEMMA MigrationArrives ==
    ASSUME AdmissionInv, onMigrationPayload
    PROVE  AdmissionInv'
<1>0. /\ AdmissionTypes /\ UNCHANGED <<mode, alive, spawned, chan, pop, admitted>>
      /\ extra \in Nat /\ waiting \in Nat /\ alive \in Nat
  BY DEF onMigrationPayload, AdmissionInv, AdmissionTypes
<1>1. \/ UNCHANGED <<waiting, extra>>
      \/ waiting' = waiting + 1 /\ extra' = extra + 1
      \/ /\ waiting' = waiting + 1 /\ extra' = extra /\ pop # Unknown
         /\ limit(learned) # 0 /\ ~Refreshed(Committed, TRUE, learned)
  BY DEF onMigrationPayload
<1>1a. waiting' \in {waiting, waiting + 1} /\ extra' \in {extra, extra + 1}
  BY DEF onMigrationPayload
<1>2. AdmissionTypes'
  <2>1. closed' \in BOOLEAN
    BY <1>0 DEF onMigrationPayload, Refreshed, AdmissionTypes
  <2>2. waiting' \in Nat /\ extra' \in Nat
    BY <1>0, <1>1a
  <2>3. /\ samples' \in Seq(Sample) /\ stateFile' \in [samples : Seq(Sample), ready : BOOLEAN]
        /\ learned' \in [ready : BOOLEAN, limit : 0..MaxLimit]
    BY <1>0, TrimKeepsSamples, TrimmedBounded DEF onMigrationPayload, AdmissionTypes, Save
  <2>. QED
    BY <1>0, <2>1, <2>2, <2>3 DEF AdmissionTypes
<1>3. GateHolds'
  <2>1. CASE alive' + waiting' + extra <= alive + waiting + extra'
    BY <1>0, <1>2, <2>1, WorldKept
  <2>2. CASE /\ waiting' = waiting + 1 /\ extra' = extra /\ pop # Unknown
             /\ limit(learned) # 0 /\ ~Refreshed(Committed, TRUE, learned)
    <3>1. Committed + 1 <= Highest /\ Highest \in Nat /\ Highest' = Highest
      BY <1>0, <2>2, GateLeavesRoom, BooksAreNumbers DEF Highest
    <3>2. /\ chan \in Seq(ModFrame) /\ 0 \in 0..Len(chan) /\ spawned \in Nat
          /\ pop \in Nat /\ admitted \in Nat
      BY <1>0, <2>2 DEF AdmissionTypes
    <3>3. Arrivals(chan, 0) \in Nat /\ Count(chan, 0, Acks) \in Nat
          /\ Arrivals(chan, 0) <= Count(chan, 0, Acks)
      BY <1>0, <3>2, ArrivalsAreAcks, BooksAreNumbers
    <3>4. alive <= pop + admitted + Arrivals(chan, 0) + extra /\ Count(chan, 0, Acks) <= spawned
      BY <2>2 DEF AdmissionInv, PopulationIsFair, AcksAreOwed
    <3>5. alive + waiting + 1 <= Highest + extra
      BY <1>0, <3>1, <3>2, <3>3, <3>4 DEF Committed
    <3>6. alive' + waiting' <= Highest' + extra'
      BY <1>0, <2>2, <3>1, <3>5
    <3>. QED
      BY <3>6 DEF GateHolds
  <2>3. CASE UNCHANGED <<waiting, extra>> \/ (waiting' = waiting + 1 /\ extra' = extra + 1)
    BY <1>0, <2>1, <2>3
  <2>. QED
    BY <1>1, <2>2, <2>3
<1>4. AcksAreOwed' /\ PopulationIsFair' /\ BeatsAreFair'
  <2>1. extra' \in Nat /\ extra' >= extra
    BY <1>0, <1>1a
  <2>. QED
    BY <1>0, <2>1, BooksKept
<1>. QED
  BY <1>2, <1>3, <1>4 DEF AdmissionInv

LEMMA BounceKeeps ==
    ASSUME AdmissionInv, bounce \/ born
    PROVE  AdmissionInv'
<1>0. /\ AdmissionTypes /\ extra' = extra + 1 /\ extra \in Nat /\ alive \in Nat /\ waiting \in Nat
      /\ UNCHANGED <<mode, spawned, chan, pop, admitted, closed, samples, learned, stateFile>>
      /\ \/ waiting' = waiting + 1 /\ alive' = alive
         \/ waiting' = waiting /\ alive' = alive + 1
  BY DEF bounce, born, AdmissionInv, AdmissionTypes
<1>1. AdmissionTypes'
  BY <1>0 DEF AdmissionTypes
<1>2. GateHolds'
  <2>1. alive' + waiting' + extra <= alive + waiting + extra'
    BY <1>0
  <2>. QED
    BY <1>0, <1>1, <2>1, WorldKept
<1>3. AcksAreOwed' /\ PopulationIsFair' /\ BeatsAreFair'
  <2>1. alive' \in Nat /\ alive' <= alive + 1 /\ UNCHANGED <<spawned, chan, pop, admitted>>
    BY <1>0
  <2>2. /\ spawned \in Nat /\ admitted \in Nat /\ chan \in Seq(ModFrame) /\ 0 \in 0..Len(chan)
        /\ \A k \in 0..Len(chan) : Arrivals(chan, k) \in Nat
    BY <1>0, BooksAreNumbers DEF AdmissionTypes
  <2>3. AcksAreOwed'
    BY <2>1 DEF AdmissionInv, AcksAreOwed
  <2>4. PopulationIsFair'
    <3>1. SUFFICES ASSUME pop # Unknown
                   PROVE  alive' <= pop + admitted + Arrivals(chan, 0) + extra'
      BY <2>1 DEF PopulationIsFair, Arrivals
    <3>2. alive <= pop + admitted + Arrivals(chan, 0) + extra /\ pop \in Nat
      BY <1>0, <3>1 DEF AdmissionInv, PopulationIsFair, AdmissionTypes
    <3>3. Arrivals(chan, 0) \in Nat
      BY <2>2
    <3>. QED
      BY <1>0, <2>1, <2>2, <3>2, <3>3
  <2>5. BeatsAreFair'
    <3>. SUFFICES ASSUME NEW k \in DOMAIN chan, chan[k].ack = "none"
                 PROVE  alive' <= chan[k].pop + Arrivals(chan, k) + extra'
      BY <2>1 DEF BeatsAreFair, Arrivals
    <3>1. chan[k] \in ModFrame /\ k \in 0..Len(chan)
      BY <1>0, ChanParts
    <3>2. chan[k].pop \in Nat
      BY <3>1 DEF ModFrame
    <3>3. alive <= chan[k].pop + Arrivals(chan, k) + extra
      BY DEF AdmissionInv, BeatsAreFair
    <3>4. Arrivals(chan, k) \in Nat
      BY <2>2, <3>1
    <3>. QED
      BY <1>0, <2>1, <3>2, <3>3, <3>4
  <2>. QED
    BY <2>3, <2>4, <2>5
<1>. QED
  BY <1>1, <1>2, <1>3 DEF AdmissionInv

LEMMA DieKeeps ==
    ASSUME AdmissionInv, die
    PROVE  AdmissionInv'
<1>0. /\ AdmissionTypes /\ alive' = alive - 1 /\ alive' \in Nat /\ alive \in Nat
      /\ UNCHANGED <<mode, waiting, spawned, chan, pop, admitted, closed, samples, learned,
                     stateFile, extra>>
  BY DEF die, AdmissionInv, AdmissionTypes
<1>1. AdmissionTypes'
  BY <1>0 DEF AdmissionTypes
<1>2. GateHolds'
  <2>1. waiting \in Nat /\ extra \in Nat
    BY <1>0 DEF AdmissionTypes
  <2>2. alive' + waiting' + extra <= alive + waiting + extra'
    BY <1>0, <2>1
  <2>. QED
    BY <1>0, <1>1, <2>2, WorldKept
<1>3. /\ extra \in Nat /\ spawned \in Nat /\ admitted \in Nat /\ chan \in Seq(ModFrame)
      /\ \A k \in 0..Len(chan) : Arrivals(chan, k) \in Nat
  BY <1>0, BooksAreNumbers DEF AdmissionTypes
<1>4. PopulationIsFair'
  <2>1. SUFFICES ASSUME pop # Unknown
                 PROVE  alive' <= pop + admitted + Arrivals(chan, 0) + extra
    BY <1>0 DEF PopulationIsFair, Arrivals
  <2>2. alive <= pop + admitted + Arrivals(chan, 0) + extra /\ pop \in Nat
    BY <1>0, <2>1 DEF AdmissionInv, PopulationIsFair, AdmissionTypes
  <2>3. Arrivals(chan, 0) \in Nat
    BY <1>3
  <2>. QED
    BY <1>0, <1>3, <2>2, <2>3
<1>5. BeatsAreFair'
  <2>. SUFFICES ASSUME NEW k \in DOMAIN chan, chan[k].ack = "none"
               PROVE  alive' <= chan[k].pop + Arrivals(chan, k) + extra
    BY <1>0 DEF BeatsAreFair, Arrivals
  <2>1. chan[k] \in ModFrame /\ k \in 0..Len(chan)
    BY <1>0, ChanParts
  <2>2. chan[k].pop \in Nat
    BY <2>1 DEF ModFrame
  <2>3. alive <= chan[k].pop + Arrivals(chan, k) + extra
    BY DEF AdmissionInv, BeatsAreFair
  <2>4. Arrivals(chan, k) \in Nat
    BY <1>3, <2>1
  <2>. QED
    BY <1>0, <1>3, <2>2, <2>3, <2>4
<1>. QED
  BY <1>0, <1>1, <1>2, <1>4, <1>5 DEF AdmissionInv, AcksAreOwed

(* A frame is sent behind the others. *)
LEMMA SentBehind ==
    ASSUME AdmissionTypes, NEW x \in ModFrame, chan' = Append(chan, x)
    PROVE  /\ chan' \in Seq(ModFrame) /\ Len(chan') = Len(chan) + 1 /\ Len(chan) \in Nat
           /\ \A k \in DOMAIN chan : chan'[k] = chan[k] /\ k \in 0..Len(chan)
           /\ chan'[Len(chan) + 1] = x
           /\ \A k \in 0..Len(chan) :
                Arrivals(chan', k) = IF x.ack = "spawned" THEN Arrivals(chan, k) + 1
                                     ELSE Arrivals(chan, k)
           /\ Count(chan', 0, Acks) = IF x.ack \in Acks THEN Count(chan, 0, Acks) + 1
                                      ELSE Count(chan, 0, Acks)
           /\ Arrivals(chan', Len(chan) + 1) = 0
<1>1. chan \in Seq(ModFrame) /\ 0 \in 0..Len(chan)
  BY DEF AdmissionTypes
<1>2. chan' \in Seq(ModFrame) /\ Len(chan') = Len(chan) + 1 /\ Len(chan) \in Nat
      /\ (\A k \in DOMAIN chan : chan'[k] = chan[k] /\ k \in 0..Len(chan))
      /\ chan'[Len(chan) + 1] = x
  BY <1>1
<1>3. \A k \in 0..Len(chan) :
        Arrivals(chan', k) = IF x.ack = "spawned" THEN Arrivals(chan, k) + 1 ELSE Arrivals(chan, k)
  BY <1>1, CountAppend DEF Arrivals
<1>4. Count(chan', 0, Acks) = IF x.ack \in Acks THEN Count(chan, 0, Acks) + 1
                              ELSE Count(chan, 0, Acks)
  BY <1>1, CountAppend
<1>5. Arrivals(chan', Len(chan')) = 0
  BY <1>2, NothingBehind DEF Arrivals
<1>. QED
  BY <1>2, <1>3, <1>4, <1>5

LEMMA SpawnKeeps ==
    ASSUME AdmissionInv, spawn
    PROVE  AdmissionInv'
<1>. DEFINE x == [ack |-> "spawned"]
<1>0. /\ AdmissionTypes /\ waiting > 0 /\ waiting' = waiting - 1 /\ alive' = alive + 1
      /\ spawned' = spawned + 1 /\ chan' = Append(chan, x) /\ x \in ModFrame
      /\ UNCHANGED <<mode, pop, admitted, closed, samples, learned, stateFile, extra>>
  BY DEF spawn, AdmissionInv, ModFrame
<1>1. /\ alive \in Nat /\ waiting \in Nat /\ spawned \in Nat /\ extra \in Nat /\ admitted \in Nat
      /\ \A k \in 0..Len(chan) : Arrivals(chan, k) \in Nat
      /\ Count(chan, 0, Acks) \in Nat /\ 0 \in 0..Len(chan)
  BY <1>0, BooksAreNumbers DEF AdmissionTypes
<1>2. /\ chan' \in Seq(ModFrame) /\ Len(chan') = Len(chan) + 1 /\ Len(chan) \in Nat
      /\ \A k \in DOMAIN chan : chan'[k] = chan[k] /\ k \in 0..Len(chan)
      /\ chan'[Len(chan) + 1] = x
      /\ \A k \in 0..Len(chan) : Arrivals(chan', k) = Arrivals(chan, k) + 1
      /\ Count(chan', 0, Acks) = Count(chan, 0, Acks) + 1
  <2>. HIDE DEF x
  <2>1. x.ack = "spawned" /\ x.ack \in Acks
    BY DEF x, Acks
  <2>. QED
    BY <1>0, <2>1, SentBehind
<1>3. AdmissionTypes'
  BY <1>0, <1>1, <1>2 DEF AdmissionTypes
<1>4. GateHolds'
  <2>1. alive' + waiting' + extra <= alive + waiting + extra'
    BY <1>0, <1>1
  <2>. QED
    BY <1>0, <1>3, <2>1, WorldKept
<1>5. AcksAreOwed'
  <2>1. Count(chan, 0, Acks) <= spawned
    BY DEF AdmissionInv, AcksAreOwed
  <2>. QED
    BY <1>0, <1>1, <1>2, <2>1 DEF AcksAreOwed
<1>6. PopulationIsFair'
  <2>1. SUFFICES ASSUME pop # Unknown
                 PROVE  alive' <= pop + admitted + Arrivals(chan', 0) + extra
    BY <1>0 DEF PopulationIsFair, Arrivals
  <2>2. alive <= pop + admitted + Arrivals(chan, 0) + extra /\ pop \in Nat
    BY <1>0, <2>1 DEF AdmissionInv, PopulationIsFair, AdmissionTypes
  <2>3. Arrivals(chan, 0) \in Nat /\ Arrivals(chan', 0) = Arrivals(chan, 0) + 1
    BY <1>1, <1>2
  <2>. QED
    BY <1>0, <1>1, <2>2, <2>3
<1>7. BeatsAreFair'
  <2>. SUFFICES ASSUME NEW k \in DOMAIN chan', chan'[k].ack = "none"
               PROVE  alive' <= chan'[k].pop + Arrivals(chan', k) + extra
    BY <1>0 DEF BeatsAreFair, Arrivals
  <2>1. k # Len(chan) + 1
    BY <1>2
  <2>2. k \in DOMAIN chan /\ chan'[k] = chan[k] /\ k \in 0..Len(chan)
    BY <1>0, <1>2, <2>1 DEF AdmissionTypes
  <2>3. alive <= chan[k].pop + Arrivals(chan, k) + extra
    BY <2>2 DEF AdmissionInv, BeatsAreFair
  <2>4. chan[k].pop \in Nat
    BY <1>0, <2>2, ChanParts DEF ModFrame
  <2>5. Arrivals(chan, k) \in Nat /\ Arrivals(chan', k) = Arrivals(chan, k) + 1
    BY <1>1, <1>2, <2>2
  <2>. QED
    BY SMTT(30), <1>0, <1>1, <2>2, <2>3, <2>4, <2>5
<1>. QED
  BY <1>3, <1>4, <1>5, <1>6, <1>7 DEF AdmissionInv

LEMMA ReplayKeeps ==
    ASSUME AdmissionInv, replay
    PROVE  AdmissionInv'
<1>. DEFINE x == [ack |-> "duplicate"]
<1>0. /\ AdmissionTypes /\ AcksUnderWay < spawned /\ chan' = Append(chan, x) /\ x \in ModFrame
      /\ UNCHANGED <<mode, alive, waiting, spawned, pop, admitted, closed, samples, learned,
                     stateFile, extra>>
  BY DEF replay, AdmissionInv, ModFrame
<1>1. /\ spawned \in Nat /\ Count(chan, 0, Acks) \in Nat /\ chan \in Seq(ModFrame)
      /\ 0 \in 0..Len(chan)
  BY <1>0, BooksAreNumbers DEF AdmissionTypes
<1>2. /\ chan' \in Seq(ModFrame) /\ Len(chan') = Len(chan) + 1 /\ Len(chan) \in Nat
      /\ \A k \in DOMAIN chan : chan'[k] = chan[k] /\ k \in 0..Len(chan)
      /\ chan'[Len(chan) + 1] = x
      /\ \A k \in 0..Len(chan) : Arrivals(chan', k) = Arrivals(chan, k)
      /\ Count(chan', 0, Acks) = Count(chan, 0, Acks) + 1
  <2>. HIDE DEF x
  <2>1. x.ack # "spawned" /\ x.ack \in Acks
    BY DEF x, Acks
  <2>. QED
    BY <1>0, <2>1, SentBehind
<1>3. AdmissionTypes'
  BY <1>0, <1>1, <1>2 DEF AdmissionTypes
<1>4. GateHolds'
  BY <1>0 DEF AdmissionInv, GateHolds, Highest
<1>5. AcksAreOwed'
  <2>1. AcksUnderWay = Count(chan, 0, Acks)
    BY <1>1, ArrivalsAreAcks DEF AcksUnderWay
  <2>. QED
    BY <1>0, <1>1, <1>2, <2>1 DEF AcksAreOwed
<1>6. PopulationIsFair'
  BY <1>0, <1>1, <1>2 DEF AdmissionInv, PopulationIsFair
<1>7. BeatsAreFair'
  <2>. SUFFICES ASSUME NEW k \in DOMAIN chan', chan'[k].ack = "none"
               PROVE  alive <= chan'[k].pop + Arrivals(chan', k) + extra
    BY <1>0 DEF BeatsAreFair, Arrivals
  <2>1. k # Len(chan) + 1
    BY <1>2
  <2>2. k \in DOMAIN chan /\ chan'[k] = chan[k] /\ k \in 0..Len(chan)
    BY <1>0, <1>2, <2>1 DEF AdmissionTypes
  <2>. QED
    BY <1>2, <2>2 DEF AdmissionInv, BeatsAreFair
<1>. QED
  BY <1>3, <1>4, <1>5, <1>6, <1>7 DEF AdmissionInv

LEMMA BeatKeeps ==
    ASSUME AdmissionInv, beat
    PROVE  AdmissionInv'
<1>0. /\ AdmissionTypes /\ alive \in Nat /\ extra \in Nat
      /\ UNCHANGED <<mode, alive, waiting, spawned, pop, admitted, closed, samples, learned,
                     stateFile, extra>>
  BY DEF beat, AdmissionInv, AdmissionTypes
<1>1. PICK b \in Nat : chan' = Append(chan, [ack |-> "none", pop |-> alive, budget |-> b])
  BY AdmissionAssumption DEF beat
<1>. DEFINE x == [ack |-> "none", pop |-> alive, budget |-> b]
<1>2. x \in ModFrame /\ x.pop = alive /\ x.ack \notin Acks /\ x.ack # "spawned" /\ chan' = Append(chan, x)
  BY <1>0, <1>1 DEF ModFrame, Acks
<1>. HIDE DEF x
<1>3. /\ chan' \in Seq(ModFrame) /\ Len(chan') = Len(chan) + 1 /\ Len(chan) \in Nat
      /\ \A k \in DOMAIN chan : chan'[k] = chan[k] /\ k \in 0..Len(chan)
      /\ chan'[Len(chan) + 1] = x
      /\ \A k \in 0..Len(chan) : Arrivals(chan', k) = Arrivals(chan, k)
      /\ Count(chan', 0, Acks) = Count(chan, 0, Acks)
      /\ Arrivals(chan', Len(chan) + 1) = 0
  BY <1>0, <1>2, SentBehind
<1>4. AdmissionTypes'
  BY <1>0, <1>3 DEF AdmissionTypes
<1>5. GateHolds' /\ AcksAreOwed'
  BY <1>0, <1>3 DEF AdmissionInv, GateHolds, Highest, AcksAreOwed
<1>6. PopulationIsFair'
  <2>1. 0 \in 0..Len(chan)
    BY <1>3
  <2>. QED
    BY <1>0, <1>3, <2>1 DEF AdmissionInv, PopulationIsFair
<1>7. BeatsAreFair'
  <2>. SUFFICES ASSUME NEW k \in DOMAIN chan', chan'[k].ack = "none"
               PROVE  alive <= chan'[k].pop + Arrivals(chan', k) + extra
    BY <1>0 DEF BeatsAreFair, Arrivals
  <2>1. CASE k = Len(chan) + 1
    <3>1. chan'[k].pop = alive /\ Arrivals(chan', k) = 0
      BY <1>2, <1>3, <2>1
    <3>. QED
      BY <1>0, <3>1
  <2>2. CASE k # Len(chan) + 1
    <3>1. k \in DOMAIN chan /\ chan'[k] = chan[k] /\ k \in 0..Len(chan)
      BY <1>0, <1>3, <2>2 DEF AdmissionTypes
    <3>. QED
      BY <1>3, <3>1 DEF AdmissionInv, BeatsAreFair
  <2>. QED
    BY <2>1, <2>2
<1>. QED
  BY <1>4, <1>5, <1>6, <1>7 DEF AdmissionInv

(* The first frame arrives. *)
LEMMA FirstArrives ==
    ASSUME AdmissionTypes, chan # <<>>, chan' = Tail(chan)
    PROVE  /\ chan' \in Seq(ModFrame) /\ Len(chan') = Len(chan) - 1 /\ Len(chan') \in Nat
           /\ Head(chan) = chan[1] /\ Head(chan) \in ModFrame /\ 1 \in DOMAIN chan
           /\ \A k \in DOMAIN chan' : chan'[k] = chan[k + 1] /\ k + 1 \in DOMAIN chan
           /\ \A k \in 0..Len(chan') : Arrivals(chan', k) = Arrivals(chan, k + 1)
           /\ \A k \in 0..Len(chan') : Arrivals(chan', k) \in Nat
           /\ Count(chan', 0, Acks) \in Nat
           /\ Arrivals(chan, 0) = IF Head(chan).ack = "spawned" THEN Arrivals(chan', 0) + 1
                                  ELSE Arrivals(chan', 0)
           /\ Count(chan, 0, Acks) = IF Head(chan).ack \in Acks THEN Count(chan', 0, Acks) + 1
                                     ELSE Count(chan', 0, Acks)
<1>1. chan \in Seq(ModFrame)
  BY DEF AdmissionTypes
<1>2. /\ chan' \in Seq(ModFrame) /\ Len(chan') = Len(chan) - 1 /\ Len(chan') \in Nat
      /\ Head(chan) = chan[1] /\ Head(chan) \in ModFrame /\ 1 \in DOMAIN chan
      /\ \A k \in DOMAIN chan' : chan'[k] = chan[k + 1] /\ k + 1 \in DOMAIN chan
  BY <1>1
<1>3. \A k \in 0..Len(chan') : \A T : Count(chan', k, T) = Count(chan, k + 1, T)
  BY <1>1, <1>2, CountTail
<1>4. \A T : Count(chan, 0, T) = IF Head(chan).ack \in T THEN Count(chan, 1, T) + 1
                                 ELSE Count(chan, 1, T)
  BY <1>1, CountHead
<1>5. \A T : Count(chan', 0, T) = Count(chan, 1, T)
  <2>1. 0 \in 0..Len(chan') /\ 0 + 1 = 1
    BY <1>2
  <2>. QED
    BY <1>3, <2>1
<1>6. \A k \in Nat : \A T : Count(chan', k, T) \in Nat
  BY <1>2, BehindFinite
<1>. QED
  BY <1>2, <1>3, <1>4, <1>5, <1>6 DEF Arrivals

(* An arrival whose first acknowledgement comes leaves the spawned for the *)
(* admitted; a second acknowledgement finds it counted in the population.  *)
LEMMA AckKeeps ==
    ASSUME AdmissionInv, onMigrateInAckCounted
    PROVE  AdmissionInv'
<1>0. /\ AdmissionTypes /\ chan # <<>> /\ chan' = Tail(chan) /\ Head(chan).ack # "none"
      /\ spawned' = spawned - 1
      /\ admitted' = IF Head(chan).ack = "duplicate" THEN admitted ELSE admitted + 1
      /\ UNCHANGED <<mode, alive, waiting, pop, samples, learned, stateFile, extra>>
  BY DEF onMigrateInAckCounted, AdmissionInv
<1>1. /\ chan' \in Seq(ModFrame) /\ Len(chan') \in Nat /\ Head(chan) \in ModFrame
      /\ \A k \in DOMAIN chan' : chan'[k] = chan[k + 1] /\ k + 1 \in DOMAIN chan
      /\ \A k \in 0..Len(chan') : Arrivals(chan', k) = Arrivals(chan, k + 1)
      /\ \A k \in 0..Len(chan') : Arrivals(chan', k) \in Nat
      /\ Count(chan', 0, Acks) \in Nat
      /\ Arrivals(chan, 0) = IF Head(chan).ack = "spawned" THEN Arrivals(chan', 0) + 1
                             ELSE Arrivals(chan', 0)
      /\ Count(chan, 0, Acks) = IF Head(chan).ack \in Acks THEN Count(chan', 0, Acks) + 1
                                ELSE Count(chan', 0, Acks)
  BY <1>0, FirstArrives
<1>2. Head(chan).ack \in Acks
  BY <1>0, <1>1 DEF ModFrame, Acks
<1>3. /\ spawned \in Nat /\ admitted \in Nat /\ alive \in Nat /\ extra \in Nat
      /\ pop \in Nat \cup {Unknown} /\ Count(chan, 0, Acks) <= spawned
  BY <1>0 DEF AdmissionTypes, AdmissionInv, AcksAreOwed
<1>4. Count(chan', 0, Acks) + 1 <= spawned /\ spawned' \in Nat /\ Count(chan', 0, Acks) <= spawned'
  BY <1>0, <1>1, <1>2, <1>3
<1>5. admitted' \in Nat
  BY <1>0, <1>3
<1>6. AdmissionTypes'
  <2>1. closed' \in BOOLEAN
    BY DEF onMigrateInAckCounted, Refreshed
  <2>. QED
    BY <1>0, <1>1, <1>4, <1>5, <2>1 DEF AdmissionTypes
<1>7. AcksAreOwed'
  BY <1>4 DEF AcksAreOwed
<1>8. PopulationIsFair'
  <2>1. SUFFICES ASSUME pop # Unknown
                 PROVE  alive <= pop + admitted' + Arrivals(chan', 0) + extra
    BY <1>0 DEF PopulationIsFair, Arrivals, Count, Behind
  <2>2. alive <= pop + admitted + Arrivals(chan, 0) + extra /\ pop \in Nat
    BY <2>1, <1>3 DEF AdmissionInv, PopulationIsFair
  <2>3. 0 \in 0..Len(chan')
    BY <1>1
  <2>4. Arrivals(chan', 0) \in Nat
    BY <2>3, <1>1
  <2>5. admitted' + Arrivals(chan', 0) = admitted + Arrivals(chan, 0)
    <3>1. CASE Head(chan).ack = "spawned"
      BY <3>1, <1>0, <1>1, <1>3, <2>4
    <3>2. CASE Head(chan).ack = "duplicate"
      BY <3>2, <1>0, <1>1, <1>3, <2>4
    <3>. QED
      BY <3>1, <3>2, <1>2 DEF Acks
  <2>6. Arrivals(chan, 0) \in Nat
    BY <2>4, <1>1
  <2>. QED
    BY <2>2, <2>4, <2>5, <2>6, <1>3, <1>5
<1>9. BeatsAreFair'
  <2>1. SUFFICES ASSUME NEW k \in DOMAIN chan', chan'[k].ack = "none"
                 PROVE  alive <= chan'[k].pop + Arrivals(chan', k) + extra
    BY <1>0 DEF BeatsAreFair, Arrivals, Count, Behind
  <2>2. chan'[k] = chan[k + 1] /\ k + 1 \in DOMAIN chan /\ k \in 0..Len(chan')
    BY <1>1
  <2>. QED
    BY <2>1, <2>2, <1>1 DEF AdmissionInv, BeatsAreFair
<1>10. GateHolds'
  <2>1. waiting \in Nat /\ alive' + waiting' + extra <= alive + waiting + extra'
    BY <1>0, <1>3 DEF AdmissionTypes
  <2>. QED
    BY <2>1, <1>0, <1>6, WorldKept
<1>. QED
  BY <1>6, <1>7, <1>8, <1>9, <1>10 DEF AdmissionInv

(* What a heartbeat leaves of the samples and of what was learned. *)
LEMMA HeartbeatTypes ==
    ASSUME AdmissionTypes, onHeartbeat
    PROVE  /\ samples' \in Seq(Sample) /\ closed' \in BOOLEAN
           /\ learned' \in [ready : BOOLEAN, limit : 0..MaxLimit]
           /\ stateFile' \in [samples : Seq(Sample), ready : BOOLEAN]
<1>. DEFINE kept == trim(samples)
            counts == Head(chan).budget > 0 /\ (kept = <<>> \/ Last(kept).age > 0)
            new == [age |-> 0, budget |-> Head(chan).budget]
            now == IF counts THEN Append(kept, new) ELSE kept
            Limits == [ready : BOOLEAN, limit : 0..MaxLimit]
<1>1. /\ samples' = now /\ closed' = Refreshed(pop' + waiting + spawned, TRUE, learned')
      /\ learned' = IF counts THEN recalculate(now, trimmed(trimmed(learned, kept), now))
                    ELSE trimmed(learned, kept)
      /\ IF counts THEN stateFile' = [samples |-> trim(now), ready |-> learned'.ready]
         ELSE stateFile' = stateFile
  BY DEF onHeartbeat, Save
<1>2. kept \in Seq(Sample) /\ learned \in Limits
  BY TrimKeepsSamples DEF AdmissionTypes
<1>3. new \in Sample
  <2>1. Head(chan) \in ModFrame /\ Head(chan).ack = "none"
    BY FirstArrives DEF onHeartbeat
  <2>. QED
    BY <2>1 DEF ModFrame, Sample
<1>. HIDE DEF kept, new
<1>4. now \in Seq(Sample)
  BY <1>2, <1>3
<1>. HIDE DEF now, counts
<1>5. trimmed(learned, kept) \in Limits
  BY <1>2, TrimmedBounded
<1>6. trimmed(trimmed(learned, kept), now) \in Limits
  BY <1>5, TrimmedBounded
<1>7. recalculate(now, trimmed(trimmed(learned, kept), now)) \in Limits
  BY <1>4, <1>6, RecalculateBounded
<1>8. learned' \in Limits
  BY <1>1, <1>5, <1>7
<1>9. stateFile' \in [samples : Seq(Sample), ready : BOOLEAN]
  <2>1. trim(now) \in Seq(Sample)
    BY <1>4, TrimKeepsSamples
  <2>2. stateFile \in [samples : Seq(Sample), ready : BOOLEAN] /\ learned'.ready \in BOOLEAN
    BY <1>8 DEF AdmissionTypes
  <2>. QED
    BY <2>1, <2>2, <1>1
<1>10. closed' \in BOOLEAN
  BY <1>1 DEF Refreshed
<1>. QED
  BY <1>1, <1>4, <1>8, <1>9, <1>10

(* A heartbeat's population was fair when it was sent, and is with the *)
(* arrivals behind it.                                                 *)
LEMMA HeartbeatKeeps ==
    ASSUME AdmissionInv, onHeartbeat
    PROVE  AdmissionInv'
<1>0. /\ AdmissionTypes /\ chan # <<>> /\ chan' = Tail(chan) /\ Head(chan).ack = "none"
      /\ pop' = Head(chan).pop /\ admitted' = 0
      /\ UNCHANGED <<mode, alive, waiting, spawned, extra>>
  BY DEF onHeartbeat, AdmissionInv
<1>1. /\ chan' \in Seq(ModFrame) /\ Len(chan') \in Nat
      /\ Head(chan) = chan[1] /\ Head(chan) \in ModFrame /\ 1 \in DOMAIN chan
      /\ \A k \in DOMAIN chan' : chan'[k] = chan[k + 1] /\ k + 1 \in DOMAIN chan
      /\ \A k \in 0..Len(chan') : Arrivals(chan', k) = Arrivals(chan, k + 1)
      /\ \A k \in 0..Len(chan') : Arrivals(chan', k) \in Nat
      /\ Count(chan', 0, Acks) \in Nat
      /\ Count(chan, 0, Acks) = IF Head(chan).ack \in Acks THEN Count(chan', 0, Acks) + 1
                                ELSE Count(chan', 0, Acks)
  BY <1>0, FirstArrives
<1>2. Head(chan).ack \notin Acks /\ pop' \in Nat
  BY <1>0, <1>1 DEF ModFrame, Acks
<1>3. alive \in Nat /\ waiting \in Nat /\ extra \in Nat
  BY <1>0 DEF AdmissionTypes
<1>4. AdmissionTypes'
  <2>1. /\ samples' \in Seq(Sample) /\ closed' \in BOOLEAN
        /\ learned' \in [ready : BOOLEAN, limit : 0..MaxLimit]
        /\ stateFile' \in [samples : Seq(Sample), ready : BOOLEAN]
    BY <1>0, HeartbeatTypes
  <2>. QED
    BY <1>0, <1>1, <1>2, <2>1 DEF AdmissionTypes
<1>5. AcksAreOwed'
  BY <1>0, <1>1, <1>2 DEF AdmissionInv, AcksAreOwed
<1>6. PopulationIsFair'
  <2>1. alive <= chan[1].pop + Arrivals(chan, 1) + extra
    BY <1>0, <1>1 DEF AdmissionInv, BeatsAreFair
  <2>2. 0 \in 0..Len(chan') /\ 0 + 1 = 1
    BY <1>1
  <2>3. Arrivals(chan', 0) = Arrivals(chan, 1) /\ Arrivals(chan', 0) \in Nat
    BY <2>2, <1>1
  <2>4. alive <= pop' + admitted' + Arrivals(chan', 0) + extra
    BY <2>1, <2>3, <1>0, <1>1, <1>2, <1>3
  <2>. QED
    BY <2>4, <1>0 DEF PopulationIsFair, Arrivals, Count, Behind
<1>7. BeatsAreFair'
  <2>1. SUFFICES ASSUME NEW k \in DOMAIN chan', chan'[k].ack = "none"
                 PROVE  alive <= chan'[k].pop + Arrivals(chan', k) + extra
    BY <1>0 DEF BeatsAreFair, Arrivals, Count, Behind
  <2>2. chan'[k] = chan[k + 1] /\ k + 1 \in DOMAIN chan /\ k \in 0..Len(chan')
    BY <1>1
  <2>. QED
    BY <2>1, <2>2, <1>1 DEF AdmissionInv, BeatsAreFair
<1>8. GateHolds'
  <2>1. alive' + waiting' + extra <= alive + waiting + extra'
    BY <1>0, <1>3
  <2>. QED
    BY <2>1, <1>0, <1>4, WorldKept
<1>. QED
  BY <1>4, <1>5, <1>6, <1>7, <1>8 DEF AdmissionInv

(* Samples grow older; nothing is known of the world any the less. *)
LEMMA IntervalKeeps ==
    ASSUME AdmissionInv, Interval
    PROVE  AdmissionInv'
<1>0. /\ AdmissionTypes /\ samples \in Seq(Sample)
      /\ samples' = [k \in DOMAIN samples |-> [samples[k] EXCEPT !.age = @ + 1]]
      /\ UNCHANGED <<mode, alive, waiting, spawned, chan, pop, admitted, closed, learned,
                     stateFile, extra>>
  BY DEF Interval, AdmissionInv, AdmissionTypes
<1>1. samples' \in Seq(Sample)
  <2>1. \A k \in 1..Len(samples) : [samples[k] EXCEPT !.age = @ + 1] \in Sample
    <3>1. TAKE k \in 1..Len(samples)
    <3>2. samples[k] \in Sample /\ samples[k].age \in Int
      BY <1>0, SampleParts
    <3>3. samples[k].age + 1 \in Int
      BY <3>2
    <3>. QED
      BY <3>2, <3>3 DEF Sample
  <2>2. DOMAIN samples = 1..Len(samples) /\ Len(samples) \in Nat
    BY <1>0
  <2>. QED
    BY <2>1, <2>2, <1>0
<1>2. AdmissionTypes'
  BY <1>0, <1>1 DEF AdmissionTypes
<1>3. AcksAreOwed' /\ PopulationIsFair' /\ BeatsAreFair'
  BY <1>0, BooksKept DEF AdmissionTypes
<1>4. GateHolds'
  BY <1>0 DEF AdmissionInv, GateHolds, Highest
<1>. QED
  BY <1>2, <1>3, <1>4 DEF AdmissionInv

(* A connection that ends, and a sidecar that does: nothing is under way *)
(* and nothing is known.                                                 *)
LEMMA EndKeeps ==
    ASSUME AdmissionInv, disconnect \/ restartGate
    PROVE  AdmissionInv'
<1>0. /\ AdmissionTypes /\ chan' = <<>> /\ pop' = Unknown
      /\ UNCHANGED <<mode, alive, waiting, spawned, stateFile, extra>>
      /\ alive \in Nat /\ waiting \in Nat /\ extra \in Nat /\ spawned \in Nat
  BY DEF disconnect, restartGate, AdmissionInv, AdmissionTypes
<1>1. chan' \in Seq(ModFrame) /\ Len(chan') = 0 /\ DOMAIN chan' = {}
  BY <1>0
<1>2. /\ samples' \in Seq(Sample) /\ closed' \in BOOLEAN /\ admitted' \in Nat
      /\ learned' \in [ready : BOOLEAN, limit : 0..MaxLimit]
  <2>1. CASE disconnect
    BY <2>1, <1>0 DEF disconnect, AdmissionTypes
  <2>2. CASE restartGate
    <3>. DEFINE s == stateFile.samples
    <3>1. s \in Seq(Sample)
      BY <1>0 DEF AdmissionTypes
    <3>2. restore(s) \in Seq(Sample)
      <4>1. CASE s = <<>>
        BY <4>1, <3>1 DEF restore
      <4>2. CASE s # <<>>
        <5>. DEFINE spaced == [k \in DOMAIN s |-> [s[k] EXCEPT !.age = @ - Last(s).age]]
        <5>1. Len(s) \in Nat /\ Len(s) \in 1..Len(s) /\ DOMAIN s = 1..Len(s) /\ Last(s) = s[Len(s)]
          BY <4>2, <3>1 DEF Last
        <5>2. Last(s).age \in Int
          BY <5>1, <3>1, SampleParts
        <5>3. \A k \in 1..Len(s) : [s[k] EXCEPT !.age = @ - Last(s).age] \in Sample
          <6>1. TAKE k \in 1..Len(s)
          <6>2. s[k] \in Sample /\ s[k].age \in Int
            BY <3>1, SampleParts
          <6>3. s[k].age - Last(s).age \in Int
            BY <6>2, <5>2
          <6>. QED
            BY <6>2, <6>3 DEF Sample
        <5>4. spaced \in Seq(Sample)
          BY <5>1, <5>3
        <5>. QED
          BY <5>4, <4>2, TrimKeepsSamples DEF restore
      <4>. QED
        BY <4>1, <4>2
    <3>3. Unlearned \in [ready : BOOLEAN, limit : 0..MaxLimit]
      BY AdmissionAssumption DEF Unlearned
    <3>4. /\ samples' = restore(s) /\ learned' = recalculate(samples', Unlearned)
          /\ admitted' = 0 /\ closed' = FALSE
      BY <2>2 DEF restartGate
    <3>5. samples' \in Seq(Sample)
      BY <3>2, <3>4
    <3>. QED
      BY <3>3, <3>4, <3>5, RecalculateBounded
  <2>. QED
    BY <2>1, <2>2
<1>3. AdmissionTypes'
  BY <1>0, <1>1, <1>2 DEF AdmissionTypes
<1>4. AcksAreOwed'
  BY <1>0, <1>1, FS_EmptySet DEF AcksAreOwed, Count, Behind
<1>5. PopulationIsFair' /\ BeatsAreFair'
  BY <1>0, <1>1 DEF PopulationIsFair, BeatsAreFair
<1>6. GateHolds'
  <2>1. alive' + waiting' + extra <= alive + waiting + extra'
    BY <1>0
  <2>. QED
    BY <2>1, <1>0, <1>3, WorldKept
<1>. QED
  BY <1>3, <1>4, <1>5, <1>6 DEF AdmissionInv

LEMMA AdmissionStarts ==
    ASSUME AdmissionInit
    PROVE  AdmissionInv
<1>1. chan = <<>> /\ Len(chan) = 0 /\ DOMAIN chan = {} /\ Highest \in Nat
  BY AdmissionAssumption DEF AdmissionInit, Highest
<1>2. AdmissionTypes
  <2>1. alive \in Nat
    BY <1>1 DEF AdmissionInit
  <2>2. stateFile \in [samples : Seq(Sample), ready : BOOLEAN] /\ samples \in Seq(Sample)
    BY DEF AdmissionInit
  <2>3. learned \in [ready : BOOLEAN, limit : 0..MaxLimit] /\ chan \in Seq(ModFrame)
    BY <1>1, AdmissionAssumption DEF AdmissionInit, Unlearned
  <2>. QED
    BY <2>1, <2>2, <2>3 DEF AdmissionInit, AdmissionTypes
<1>3. AcksAreOwed
  BY <1>1, FS_EmptySet DEF AcksAreOwed, Count, Behind, AdmissionInit
<1>4. PopulationIsFair /\ BeatsAreFair
  BY <1>1 DEF PopulationIsFair, BeatsAreFair, AdmissionInit
<1>5. GateHolds
  BY <1>1 DEF GateHolds, AdmissionInit
<1>. QED
  BY <1>2, <1>3, <1>4, <1>5 DEF AdmissionInv

LEMMA AdmissionStutters ==
    ASSUME AdmissionInv, UNCHANGED admissionVars
    PROVE  AdmissionInv'
<1>0. UNCHANGED <<mode, alive, waiting, spawned, chan, pop, admitted, closed, samples, learned,
                  stateFile, extra>> /\ AdmissionTypes
  BY DEF admissionVars, AdmissionInv
<1>1. AdmissionTypes' /\ extra' \in Nat /\ extra' >= extra
  BY <1>0 DEF AdmissionTypes
<1>2. AcksAreOwed' /\ PopulationIsFair' /\ BeatsAreFair'
  BY <1>0, <1>1, BooksKept
<1>3. GateHolds'
  BY <1>0 DEF AdmissionInv, GateHolds, Highest
<1>. QED
  BY <1>1, <1>2, <1>3 DEF AdmissionInv

(* Whatever acknowledgements, heartbeats and connections are lost, what the *)
(* gate takes custody of never pushes the world past the limit in force     *)
(* (committedPopulationLocked, refresh): births, bounces and arrivals let   *)
(* in unseen are all that can.                                              *)
THEOREM GateStaysHeld == AdmissionSpec => []GateHolds
<1>1. AdmissionInit => AdmissionInv
  BY AdmissionStarts
<1>2. AdmissionInv /\ [AdmissionNext]_admissionVars => AdmissionInv'
  BY MigrationArrives, BounceKeeps, SpawnKeeps, ReplayKeeps, BeatKeeps, AckKeeps, HeartbeatKeeps,
     IntervalKeeps, DieKeeps, EndKeeps, AdmissionStutters DEF AdmissionNext
<1>3. AdmissionInv => GateHolds
  BY DEF AdmissionInv
<1>. QED
  BY <1>1, <1>2, <1>3, PTL DEF AdmissionSpec


-----------------------------------------------------------------------------
(***************************************************************************)
(* A table of the duplicate set.  Every key is in the slot where its own   *)
(* walk ends, so a key is in one slot and a walk for another ends at an    *)
(* empty one; the table is never full, so there is one.                    *)
(***************************************************************************)
PrintsIn(t) == {t[p] : p \in DOMAIN t} \ {Zero}
Walked(t) == \A p \in DOMAIN t : t[p] # Zero => ProbeEnd(t, t[p]) = p
Table(t) == \E n \in Nat \ {0} : t \in [1..n -> Nat \X Nat]
HasRoom(t) == \E i \in DOMAIN t : t[i] = Zero

ShardInv ==
    /\ Table(slots) /\ heldPrints \in Nat /\ heldPrints * 4 <= Len(slots) * 3
    /\ Walked(slots) /\ PrintsIn(slots) = added \ {Zero} /\ (zeroHeld <=> Zero \in added)
    /\ IsFiniteSet(added) /\ heldPrints = Cardinality(added \ {Zero})
    /\ Cardinality(FilledAt(slots)) = heldPrints

LEMMA TableIs ==
    ASSUME NEW t, Table(t)
    PROVE  /\ Len(t) \in Nat \ {0} /\ DOMAIN t = 1..Len(t) /\ t \in [1..Len(t) -> Nat \X Nat]
           /\ t \in Seq(Nat \X Nat)
<1>1. PICK n \in Nat \ {0} : t \in [1..n -> Nat \X Nat]
  BY DEF Table
<1>2. t \in Seq(Nat \X Nat)
  BY <1>1
<1>3. DOMAIN t = 1..n /\ DOMAIN t = 1..Len(t) /\ Len(t) \in Nat
  BY <1>1, <1>2
<1>4. n = Len(t)
  BY <1>3
<1>. QED
  BY <1>1, <1>2, <1>3, <1>4

(* A probe is a slot, and a walk comes to every slot. *)
LEMMA ProbesReachAll ==
    ASSUME NEW t, Table(t), NEW fp \in Nat \X Nat
    PROVE  /\ \A i \in 0..Len(t) - 1 : ProbeAt(t, fp, i) \in 1..Len(t)
           /\ \A p \in 1..Len(t) : \E i \in 0..Len(t) - 1 : ProbeAt(t, fp, i) = p
<1>. DEFINE n == Len(t)
            a == fp[1]
<1>1. n \in Nat \ {0} /\ a \in Nat
  BY TableIs
<1>. HIDE DEF n, a
<1>2. ASSUME NEW i \in 0..n - 1 PROVE ((a + i) % n) + 1 \in 1..n
  <2>1. a + i \in Int
    BY <1>1
  <2>2. (a + i) % n \in 0..n - 1
    BY <1>1, <2>1, DivMod
  <2>. QED
    BY <1>1, <2>2
<1>3. ASSUME NEW p \in 1..n PROVE \E i \in 0..n - 1 : ((a + i) % n) + 1 = p
  <2>. DEFINE e == p - 1
              i == (e - a) % n
  <2>1. e \in 0..n - 1 /\ e - a \in Int /\ (e - a) + a = e
    BY <1>1
  <2>2. i \in 0..n - 1
    BY <1>1, <2>1, DivMod
  <2>3. (((e - a) % n) + a) % n = ((e - a) + a) % n
    <3>1. \A x, d \in Int : ((x % n) + d) % n = (x + d) % n
      BY <1>1, ModPlus
    <3>2. a \in Int
      BY <1>1
    <3>. HIDE DEF e
    <3>. QED
      BY <2>1, <3>1, <3>2
  <2>4. e % n = e
    BY <1>1, <2>1, ModSmall
  <2>. HIDE DEF i, e
  <2>5. a + i = i + a
    BY <1>1, <2>2
  <2>6. (a + i) % n = e
    BY <2>1, <2>3, <2>4, <2>5 DEF i
  <2>7. e + 1 = p
    BY <1>1 DEF e
  <2>. QED
    BY <2>2, <2>6, <2>7
<1>. QED
  BY <1>2, <1>3 DEF ProbeAt, n, a

(* Where a walk ends: at the first slot that holds the key or nothing. *)
FirstStop(t, fp, i) == i \in Stops(t, fp) /\ \A j \in Stops(t, fp) : i <= j

LEMMA WalkEnds ==
    ASSUME NEW t, Table(t), NEW fp, NEW i, FirstStop(t, fp, i)
    PROVE  ProbeEnd(t, fp) = ProbeAt(t, fp, i)
<1>1. Stops(t, fp) \subseteq Nat
  BY TableIs DEF Stops
<1>2. ASSUME NEW j \in Stops(t, fp), \A k \in Stops(t, fp) : j <= k PROVE j = i
  BY <1>1, <1>2 DEF FirstStop
<1>3. (CHOOSE j \in Stops(t, fp) : \A k \in Stops(t, fp) : j <= k) = i
  BY <1>2 DEF FirstStop
<1>. QED
  BY <1>3 DEF ProbeEnd

LEMMA WalkStops ==
    ASSUME NEW t, Table(t), HasRoom(t), NEW fp \in Nat \X Nat
    PROVE  \E i : FirstStop(t, fp, i) /\ i \in 0..Len(t) - 1
<1>1. Stops(t, fp) \in SUBSET Nat
  BY TableIs DEF Stops
<1>2. PICK p \in 1..Len(t) : t[p] = Zero
  BY TableIs DEF HasRoom
<1>3. PICK i \in 0..Len(t) - 1 : ProbeAt(t, fp, i) = p
  BY ProbesReachAll
<1>4. i \in Stops(t, fp)
  BY <1>2, <1>3 DEF Stops
<1>5. PICK m \in Stops(t, fp) : \A j \in Stops(t, fp) : m <= j
  BY <1>1, <1>4, LeastNat
<1>. QED
  BY <1>5 DEF FirstStop, Stops

(* A key is found when it is there. *)
LEMMA FoundIfThere ==
    ASSUME NEW t, Table(t), HasRoom(t), Walked(t), NEW fp \in Nat \X Nat, fp # Zero
    PROVE  hasPrint(t, fp) <=> fp \in PrintsIn(t)
<1>1. PICK i : FirstStop(t, fp, i) /\ i \in 0..Len(t) - 1
  BY WalkStops
<1>2. ProbeEnd(t, fp) = ProbeAt(t, fp, i) /\ ProbeAt(t, fp, i) \in DOMAIN t
  BY <1>1, WalkEnds, ProbesReachAll, TableIs
<1>3. hasPrint(t, fp) => fp \in PrintsIn(t)
  BY <1>2 DEF hasPrint, PrintsIn
<1>4. fp \in PrintsIn(t) => hasPrint(t, fp)
  BY DEF hasPrint, PrintsIn, Walked
<1>. QED
  BY <1>3, <1>4

(* A key that is not there goes to an empty slot, and moves no other's walk. *)
LEMMA PutKeeps ==
    ASSUME NEW t, Table(t), HasRoom(t), Walked(t), NEW fp \in Nat \X Nat, fp # Zero,
           fp \notin PrintsIn(t)
    PROVE  /\ Table(Put(t, fp)) /\ Len(Put(t, fp)) = Len(t) /\ Walked(Put(t, fp))
           /\ PrintsIn(Put(t, fp)) = PrintsIn(t) \cup {fp}
           /\ IsFiniteSet(FilledAt(t)) /\ Cardinality(FilledAt(Put(t, fp))) = Cardinality(FilledAt(t)) + 1
<1>. DEFINE n == Len(t)
            e == ProbeEnd(t, fp)
            u == Put(t, fp)
<1>1. n \in Nat \ {0} /\ DOMAIN t = 1..n /\ t \in [1..n -> Nat \X Nat]
  BY TableIs
<1>2. PICK i : FirstStop(t, fp, i) /\ i \in 0..n - 1
  BY WalkStops
<1>3. e = ProbeAt(t, fp, i) /\ e \in 1..n
  BY <1>2, WalkEnds, ProbesReachAll
<1>4. t[e] = Zero
  <2>1. t[e] \in {fp, Zero}
    BY <1>2, <1>3 DEF FirstStop, Stops
  <2>. QED
    BY <1>1, <1>3, <2>1 DEF PrintsIn
<1>. HIDE DEF n, e
<1>5. u = [t EXCEPT ![e] = fp]
  BY DEF Put, e
<1>. HIDE DEF u
<1>6. /\ u \in [1..n -> Nat \X Nat] /\ DOMAIN u = 1..n
      /\ \A p \in 1..n : u[p] = IF p = e THEN fp ELSE t[p]
  BY <1>1, <1>3, <1>5
<1>7. Table(u) /\ Len(u) = n
  <2>1. Table(u)
    BY <1>1, <1>6 DEF Table
  <2>2. DOMAIN u = 1..Len(u) /\ Len(u) \in Nat
    BY <2>1, TableIs
  <2>. QED
    BY <1>1, <1>6, <2>1, <2>2
<1>8. \A q, j : ProbeAt(u, q, j) = ProbeAt(t, q, j)
  BY <1>7 DEF ProbeAt, n
<1>9. \A q \in Nat \X Nat : \A j \in 0..n - 1 : ProbeAt(t, q, j) \in 1..n
  BY ProbesReachAll DEF n
<1>10. \A q \in Nat \X Nat : Stops(u, q) = {j \in 0..n - 1 : u[ProbeAt(t, q, j)] \in {q, Zero}}
  BY <1>7, <1>8 DEF Stops
<1>11. \A q : Stops(t, q) = {j \in 0..n - 1 : t[ProbeAt(t, q, j)] \in {q, Zero}}
  BY DEF Stops, n
<1>12. ProbeEnd(u, fp) = e
  <2>1. Stops(u, fp) = Stops(t, fp)
    <3>1. ASSUME NEW j \in 0..n - 1
          PROVE  u[ProbeAt(t, fp, j)] \in {fp, Zero} <=> t[ProbeAt(t, fp, j)] \in {fp, Zero}
      <4>1. ProbeAt(t, fp, j) \in 1..n
        BY <1>9
      <4>. QED
        BY <1>4, <1>6, <4>1
    <3>. QED
      BY <1>10, <1>11, <3>1
  <2>2. FirstStop(u, fp, i)
    BY <1>2, <2>1 DEF FirstStop
  <2>. QED
    BY <1>3, <1>7, <1>8, <2>2, WalkEnds
<1>13. ASSUME NEW p \in 1..n, p # e, t[p] # Zero PROVE ProbeEnd(u, t[p]) = p
  <2>. DEFINE q == t[p]
  <2>1. q \in Nat \X Nat /\ q # fp /\ q # Zero
    BY <1>1, <1>13 DEF PrintsIn
  <2>2. PICK k : FirstStop(t, q, k) /\ k \in 0..n - 1
    BY <2>1, WalkStops DEF n
  <2>3. ProbeAt(t, q, k) = p
    <3>1. ProbeEnd(t, q) = ProbeAt(t, q, k)
      BY <2>2, WalkEnds
    <3>2. ProbeEnd(t, q) = p
      BY <1>1, <1>13 DEF Walked
    <3>. QED
      BY <3>1, <3>2
  <2>. HIDE DEF q
  <2>4. k \in Stops(u, q)
    BY <1>6, <1>10, <1>13, <2>1, <2>2, <2>3 DEF q
  <2>5. Stops(u, q) \subseteq Stops(t, q)
    <3>1. ASSUME NEW j \in 0..n - 1, u[ProbeAt(t, q, j)] \in {q, Zero}
          PROVE  t[ProbeAt(t, q, j)] \in {q, Zero}
      <4>1. ProbeAt(t, q, j) \in 1..n
        BY <1>9, <2>1
      <4>. QED
        BY <1>6, <2>1, <3>1, <4>1
    <3>. QED
      BY <1>10, <1>11, <2>1, <3>1
  <2>6. FirstStop(u, q, k)
    BY <2>2, <2>4, <2>5 DEF FirstStop
  <2>7. ProbeEnd(u, q) = ProbeAt(t, q, k)
    BY <1>7, <1>8, <2>6, WalkEnds
  <2>. QED
    BY <2>3, <2>7 DEF q
<1>14. Walked(u)
  BY <1>6, <1>12, <1>13 DEF Walked
<1>15. PrintsIn(u) = PrintsIn(t) \cup {fp}
  <2>1. \A x \in PrintsIn(u) : x \in PrintsIn(t) \cup {fp}
    BY <1>1, <1>6 DEF PrintsIn
  <2>2. ASSUME NEW x \in PrintsIn(t) PROVE x \in PrintsIn(u)
    <3>1. PICK p \in 1..n : t[p] = x /\ x # Zero
      BY <1>1 DEF PrintsIn
    <3>2. p # e /\ u[p] = x
      BY <1>4, <1>6, <3>1
    <3>. QED
      BY <1>6, <3>1, <3>2 DEF PrintsIn
  <2>3. fp \in PrintsIn(u)
    BY <1>3, <1>6 DEF PrintsIn
  <2>. QED
    BY <2>1, <2>2, <2>3
<1>16. /\ IsFiniteSet(FilledAt(t)) /\ Cardinality(FilledAt(u)) = Cardinality(FilledAt(t)) + 1
  <2>1. IsFiniteSet(1..n)
    BY <1>1, FS_Interval
  <2>2. IsFiniteSet(FilledAt(t))
    <3>1. FilledAt(t) \in SUBSET (1..n)
      BY <1>1 DEF FilledAt
    <3>. QED
      BY <2>1, <3>1, FS_Subset
  <2>3. FilledAt(u) = FilledAt(t) \cup {e} /\ e \notin FilledAt(t)
    BY <1>1, <1>3, <1>4, <1>6 DEF FilledAt
  <2>. QED
    BY <2>2, <2>3, FS_AddElement
<1>. QED
  BY <1>7, <1>14, <1>15, <1>16 DEF u, n

(* The doubled table, key by key. *)
Doubling(t, g) ==
    g = [k \in 0..Len(t) |->
           IF k = 0 THEN Blank(2 * Len(t))
           ELSE IF t[k] = Zero THEN g[k - 1] ELSE Put(g[k - 1], t[k])]

LEMMA GrowDoubles ==
    ASSUME NEW t, Len(t) \in Nat
    PROVE  \E g : Doubling(t, g) /\ grow(t) = g[Len(t)]
<1>. DEFINE n == Len(t)
            Carried(x, k) == IF t[k] = Zero THEN x ELSE Put(x, t[k])
            UpTo(m, g) == /\ g = [k \in 0..m |-> g[k]] /\ g[0] = Blank(2 * n)
                          /\ \A k \in 1..m : g[k] = Carried(g[k - 1], k)
            B == {m \in 0..n : ~\E g : UpTo(m, g)}
<1>1. B = {}
  <2>. SUFFICES ASSUME B # {} PROVE FALSE
    OBVIOUS
  <2>1. B \in SUBSET Nat
    OBVIOUS
  <2>2. PICK m \in B : \A j \in B : m <= j
    BY <2>1, LeastNat
  <2>. HIDE DEF Carried
  <2>3. m # 0
    <3>1. UpTo(0, [k \in 0..0 |-> Blank(2 * n)])
      OBVIOUS
    <3>. QED
      BY <3>1
  <2>4. m \in Nat /\ m <= n /\ m - 1 \in 0..n /\ m - 1 \notin B
    BY <2>2, <2>3
  <2>5. PICK g : UpTo(m - 1, g)
    BY <2>4
  <2>. DEFINE f == [k \in 0..m |-> IF k = m THEN Carried(g[m - 1], m) ELSE g[k]]
  <2>6. f = [k \in 0..m |-> f[k]] /\ f[0] = Blank(2 * n)
    BY <2>3, <2>4, <2>5
  <2>7. ASSUME NEW k \in 1..m PROVE f[k] = Carried(f[k - 1], k)
    <3>1. k - 1 \in 0..m /\ k - 1 # m /\ f[k - 1] = g[k - 1]
      BY <2>4
    <3>2. CASE k = m
      BY <2>4, <3>1, <3>2
    <3>3. CASE k # m
      <4>1. k \in 1..m - 1
        BY <2>4, <3>3
      <4>2. g[k] = Carried(g[k - 1], k)
        BY <2>5, <4>1
      <4>3. f[k] = g[k]
        BY <2>4, <3>3
      <4>. QED
        BY <3>1, <4>2, <4>3
    <3>. QED
      BY <3>2, <3>3
  <2>. HIDE DEF f
  <2>8. UpTo(m, f)
    BY <2>6, <2>7
  <2>. QED
    BY <2>2, <2>8
<1>2. PICK g : UpTo(n, g)
  BY <1>1
<1>3. Doubling(t, g)
  <2>1. g = [k \in 0..n |-> g[k]]
    BY <1>2
  <2>2. \A k \in 0..n : k # 0 => k \in 1..n
    OBVIOUS
  <2>3. \A k \in 0..n : g[k] = IF k = 0 THEN Blank(2 * n) ELSE Carried(g[k - 1], k)
    BY <1>2, <2>2
  <2>. QED
    BY <2>1, <2>3 DEF Doubling
<1>. DEFINE M == CHOOSE h : Doubling(t, h)
<1>4. Doubling(t, M)
  BY <1>3
<1>5. grow(t) = M[n]
  BY DEF grow, Doubling
<1>. HIDE DEF M
<1>. QED
  BY <1>4, <1>5

(* An empty table. *)
LEMMA BlankIs ==
    ASSUME NEW n \in Nat \ {0}
    PROVE  /\ Table(Blank(n)) /\ Len(Blank(n)) = n /\ Walked(Blank(n)) /\ PrintsIn(Blank(n)) = {}
           /\ FilledAt(Blank(n)) = {}
<1>1. Blank(n) \in [1..n -> Nat \X Nat] /\ \A p \in DOMAIN Blank(n) : Blank(n)[p] = Zero
  BY DEF Blank, Zero
<1>2. Table(Blank(n))
  BY <1>1 DEF Table
<1>3. DOMAIN Blank(n) = 1..Len(Blank(n)) /\ Len(Blank(n)) \in Nat
  BY <1>2, TableIs
<1>4. Len(Blank(n)) = n
  BY <1>1, <1>3
<1>. QED
  BY <1>1, <1>2, <1>4 DEF Walked, PrintsIn, FilledAt

LEMMA UpToCounts ==
    ASSUME NEW n \in Nat
    PROVE  IsFiniteSet(1..n) /\ Cardinality(1..n) = n
<1>1. 1 \in Int /\ n \in Int
  OBVIOUS
<1>2. IsFiniteSet(1..n) /\ Cardinality(1..n) = IF 1 > n THEN 0 ELSE n - 1 + 1
  BY <1>1, FS_Interval
<1>3. (IF 1 > n THEN 0 ELSE n - 1 + 1) = n
  OBVIOUS
<1>. QED
  BY <1>2, <1>3

(* Fewer keys than slots leave a slot. *)
LEMMA FewLeaveRoom ==
    ASSUME NEW t, Table(t), Cardinality(FilledAt(t)) < Len(t)
    PROVE  HasRoom(t)
<1>1. DOMAIN t = 1..Len(t) /\ Len(t) \in Nat
  BY TableIs
<1>. SUFFICES ASSUME ~HasRoom(t) PROVE FALSE
  OBVIOUS
<1>2. FilledAt(t) = 1..Len(t)
  BY <1>1 DEF FilledAt, HasRoom
<1>3. Cardinality(1..Len(t)) = Len(t)
  BY <1>1, UpToCounts
<1>. QED
  BY <1>1, <1>2, <1>3

(* The doubled table has the keys of the other, and as many slots again. *)
LEMMA GrowKeeps ==
    ASSUME NEW t, Table(t), Walked(t)
    PROVE  /\ Table(grow(t)) /\ Len(grow(t)) = 2 * Len(t) /\ Walked(grow(t))
           /\ PrintsIn(grow(t)) = PrintsIn(t)
           /\ Cardinality(FilledAt(grow(t))) = Cardinality(FilledAt(t))
<1>. DEFINE n == Len(t)
            Filled(k) == {j \in 1..k : t[j] # Zero}
            Keys(k) == {t[j] : j \in Filled(k)}
<1>1. n \in Nat \ {0} /\ DOMAIN t = 1..n /\ t \in [1..n -> Nat \X Nat]
  BY TableIs
<1>2. PICK g : Doubling(t, g) /\ grow(t) = g[n]
  BY <1>1, GrowDoubles
<1>. HIDE DEF n
<1>3. /\ g[0] = Blank(2 * n)
      /\ \A k \in 1..n : g[k] = IF t[k] = Zero THEN g[k - 1] ELSE Put(g[k - 1], t[k])
  <2>1. \A k \in 0..n : g[k] = IF k = 0 THEN Blank(2 * n)
                               ELSE IF t[k] = Zero THEN g[k - 1] ELSE Put(g[k - 1], t[k])
    BY <1>2 DEF Doubling, n
  <2>2. 0 \in 0..n /\ \A k \in 1..n : k \in 0..n /\ k # 0
    BY <1>1
  <2>. QED
    BY <2>1, <2>2
<1>4. \A k \in 0..n : IsFiniteSet(Filled(k)) /\ Cardinality(Filled(k)) \in Nat /\ Cardinality(Filled(k)) <= k
  <2>1. ASSUME NEW k \in 0..n
        PROVE  IsFiniteSet(Filled(k)) /\ Cardinality(Filled(k)) \in Nat /\ Cardinality(Filled(k)) <= k
    <3>1. IsFiniteSet(1..k) /\ Cardinality(1..k) = k
      BY <1>1, UpToCounts
    <3>2. Filled(k) \in SUBSET (1..k)
      OBVIOUS
    <3>. HIDE DEF Filled
    <3>. QED
      BY <3>1, <3>2, FS_Subset, FS_CardinalityType
  <2>. QED
    BY <2>1
<1>. DEFINE Good(k) == /\ Table(g[k]) /\ Len(g[k]) = 2 * n /\ Walked(g[k])
                       /\ PrintsIn(g[k]) = Keys(k)
                       /\ Cardinality(FilledAt(g[k])) = Cardinality(Filled(k))
            B == {k \in 0..n : ~Good(k)}
<1>5. B = {}
  <2>. SUFFICES ASSUME B # {} PROVE FALSE
    OBVIOUS
  <2>1. B \in SUBSET Nat
    OBVIOUS
  <2>2. PICK k \in B : \A j \in B : k <= j
    BY <2>1, LeastNat
  <2>3. k \in 0..n /\ ~Good(k)
    OBVIOUS
  <2>4. k # 0
    <3>1. Filled(0) = {} /\ Keys(0) = {} /\ Cardinality(Filled(0)) = 0
      BY FS_EmptySet
    <3>2. 2 * n \in Nat \ {0}
      BY <1>1
    <3>. HIDE DEF Filled, Keys
    <3>3. Good(0)
      BY <1>3, <3>1, <3>2, BlankIs, FS_EmptySet
    <3>. QED
      BY <2>3, <3>3
  <2>. HIDE DEF Good
  <2>5. k \in 1..n /\ k - 1 \in 0..n /\ k - 1 \notin B /\ k - 1 < n
    <3>1. k \in 1..n /\ k - 1 \in 0..n /\ k - 1 < n /\ ~(k <= k - 1)
      BY <1>1, <2>3, <2>4
    <3>. HIDE DEF B
    <3>. QED
      BY <2>2, <3>1
  <2>6. Good(k - 1)
    BY <2>5
  <2>. HIDE DEF B
  <2>7. CASE t[k] = Zero
    <3>1. Filled(k) = Filled(k - 1) /\ Keys(k) = Keys(k - 1)
      <4>1. \A j \in 1..k : j \in 1..k - 1 \/ j = k
        BY <2>5
      <4>2. \A j \in 1..k - 1 : j \in 1..k
        BY <2>5
      <4>3. Filled(k) = Filled(k - 1)
        BY <2>7, <4>1, <4>2
      <4>. QED
        BY <4>3
    <3>2. g[k] = g[k - 1]
      BY <1>3, <2>5, <2>7
    <3>. HIDE DEF Filled, Keys
    <3>. QED
      BY <2>3, <2>6, <3>1, <3>2 DEF Good
  <2>8. CASE t[k] # Zero
    <3>1. /\ Filled(k) = Filled(k - 1) \cup {k} /\ k \notin Filled(k - 1)
          /\ Keys(k) = Keys(k - 1) \cup {t[k]}
      <4>1. \A j \in 1..k : j \in 1..k - 1 \/ j = k
        BY <2>5
      <4>2. (\A j \in 1..k - 1 : j \in 1..k) /\ k \in 1..k /\ k \notin 1..k - 1
        BY <2>5
      <4>3. Filled(k) = Filled(k - 1) \cup {k} /\ k \notin Filled(k - 1)
        BY <2>8, <4>1, <4>2
      <4>. HIDE DEF Filled
      <4>. QED
        BY <4>3
    <3>2. t[k] \notin Keys(k - 1)
      <4>1. ASSUME NEW j \in 1..n, j < k, t[j] = t[k] PROVE FALSE
        <5>1. ProbeEnd(t, t[j]) = j /\ ProbeEnd(t, t[k]) = k
          BY <1>1, <2>5, <2>8, <4>1 DEF Walked
        <5>2. j = k
          BY <4>1, <5>1
        <5>. QED
          BY <2>5, <4>1, <5>2
      <4>2. \A j \in 1..k - 1 : j \in 1..n /\ j < k
        BY <1>1, <2>5
      <4>. QED
        BY <4>1, <4>2
    <3>3. g[k] = Put(g[k - 1], t[k]) /\ t[k] \in Nat \X Nat
      BY <1>1, <1>3, <2>5, <2>8
    <3>4. /\ IsFiniteSet(Filled(k - 1)) /\ Cardinality(Filled(k - 1)) \in Nat
          /\ Cardinality(Filled(k - 1)) <= k - 1
      BY <1>4, <2>5
    <3>. HIDE DEF Filled, Keys
    <3>5. /\ Table(g[k - 1]) /\ Len(g[k - 1]) = 2 * n /\ Walked(g[k - 1])
          /\ PrintsIn(g[k - 1]) = Keys(k - 1)
          /\ Cardinality(FilledAt(g[k - 1])) = Cardinality(Filled(k - 1))
      BY <2>6 DEF Good
    <3>6. HasRoom(g[k - 1])
      <4>1. Cardinality(FilledAt(g[k - 1])) < Len(g[k - 1])
        BY <1>1, <2>5, <3>4, <3>5
      <4>. QED
        BY <3>5, <4>1, FewLeaveRoom
    <3>7. /\ Table(g[k]) /\ Len(g[k]) = Len(g[k - 1]) /\ Walked(g[k])
          /\ PrintsIn(g[k]) = PrintsIn(g[k - 1]) \cup {t[k]}
          /\ Cardinality(FilledAt(g[k])) = Cardinality(FilledAt(g[k - 1])) + 1
      BY <2>8, <3>2, <3>3, <3>5, <3>6, PutKeeps
    <3>8. Cardinality(Filled(k)) = Cardinality(Filled(k - 1)) + 1
      BY <3>1, <3>4, FS_AddElement
    <3>9. Good(k)
      BY <3>1, <3>5, <3>7, <3>8 DEF Good
    <3>. QED
      BY <2>3, <3>9
  <2>. QED
    BY <2>7, <2>8
<1>. HIDE DEF Good
<1>6. Good(n)
  BY <1>1, <1>5
<1>7. Filled(n) = FilledAt(t) /\ Keys(n) = PrintsIn(t)
  BY <1>1 DEF FilledAt, PrintsIn
<1>. HIDE DEF Filled, Keys
<1>. QED
  BY <1>2, <1>6, <1>7 DEF n, Good

LEMMA ShardStart ==
    ShardInit => ShardInv
<1>. SUFFICES ASSUME ShardInit PROVE ShardInv
  OBVIOUS
<1>1. /\ Table(slots) /\ Len(slots) = MinSlots /\ Walked(slots) /\ PrintsIn(slots) = {}
      /\ FilledAt(slots) = {}
  BY ShardAssumption, BlankIs DEF ShardInit
<1>2. heldPrints = 0 /\ added = {} /\ zeroHeld = FALSE /\ MinSlots \in Nat \ {0}
  BY ShardAssumption DEF ShardInit
<1>3. IsFiniteSet({}) /\ Cardinality({}) = 0 /\ {} \ {Zero} = {}
  BY FS_EmptySet
<1>4. heldPrints \in Nat /\ heldPrints * 4 <= Len(slots) * 3
  BY <1>1, <1>2
<1>5. (zeroHeld <=> Zero \in added)
  BY <1>2
<1>. QED
  BY <1>1, <1>2, <1>3, <1>4, <1>5 DEF ShardInv

LEMMA ShardSteps ==
    ASSUME ShardInv, [ShardNext]_shardVars
    PROVE  ShardInv'
<1>0. /\ Table(slots) /\ heldPrints \in Nat /\ heldPrints * 4 <= Len(slots) * 3
      /\ Walked(slots) /\ PrintsIn(slots) = added \ {Zero} /\ (zeroHeld <=> Zero \in added)
      /\ IsFiniteSet(added) /\ heldPrints = Cardinality(added \ {Zero})
      /\ Cardinality(FilledAt(slots)) = heldPrints
      /\ Len(slots) \in Nat \ {0}
  BY TableIs DEF ShardInv
<1>1. heldPrints < Len(slots)
  BY <1>0
<1>2. HasRoom(slots)
  BY <1>0, <1>1, FewLeaveRoom
<1>3. ASSUME NEW fp \in Prints, Add(fp) PROVE ShardInv'
  <2>1. fp \in Nat \X Nat /\ added' = added \cup {fp} /\ IsFiniteSet(added')
    BY <1>0, <1>3, ShardAssumption, FS_AddElement DEF Add
  <2>2. CASE fp = Zero
    <3>1. zeroHeld' = TRUE /\ slots' = slots /\ heldPrints' = heldPrints
      BY <1>3, <2>2 DEF Add
    <3>2. added' \ {Zero} = added \ {Zero} /\ Zero \in added'
      BY <2>1, <2>2
    <3>. QED
      BY <1>0, <2>1, <3>1, <3>2 DEF ShardInv
  <2>3. CASE fp # Zero
    <3>1. addPrint(fp) /\ zeroHeld' = zeroHeld
      BY <1>3, <2>3 DEF Add
    <3>2. Zero \in added' <=> Zero \in added
      BY <2>1, <2>3
    <3>3. hasPrint(slots, fp) <=> fp \in PrintsIn(slots)
      BY <1>0, <1>2, <2>1, <2>3, FoundIfThere
    <3>4. CASE hasPrint(slots, fp)
      <4>1. slots' = slots /\ heldPrints' = heldPrints
        BY <3>1, <3>4 DEF addPrint
      <4>2. added' = added
        BY <1>0, <2>1, <3>3, <3>4
      <4>. QED
        BY <1>0, <3>1, <4>1, <4>2 DEF ShardInv
    <3>5. CASE ~hasPrint(slots, fp)
      <4>. DEFINE t == Put(slots, fp)
      <4>1. /\ Table(t) /\ Len(t) = Len(slots) /\ Walked(t)
            /\ PrintsIn(t) = PrintsIn(slots) \cup {fp}
            /\ Cardinality(FilledAt(t)) = heldPrints + 1
        BY <1>0, <1>2, <2>1, <2>3, <3>3, <3>5, PutKeeps
      <4>2. heldPrints' = heldPrints + 1 /\ slots' = IF TooFull(t, heldPrints') THEN grow(t) ELSE t
        BY <3>1, <3>5 DEF addPrint
      <4>. HIDE DEF t
      <4>3. /\ Table(grow(t)) /\ Len(grow(t)) = 2 * Len(t) /\ Walked(grow(t))
            /\ PrintsIn(grow(t)) = PrintsIn(t)
            /\ Cardinality(FilledAt(grow(t))) = Cardinality(FilledAt(t))
        BY <4>1, GrowKeeps
      <4>4. /\ Table(slots') /\ Walked(slots') /\ PrintsIn(slots') = PrintsIn(slots) \cup {fp}
            /\ Cardinality(FilledAt(slots')) = heldPrints'
        BY <4>1, <4>2, <4>3
      <4>5. heldPrints' \in Nat /\ heldPrints' * 4 <= Len(slots') * 3
        <5>1. CASE TooFull(t, heldPrints')
          BY <1>0, <1>1, <4>1, <4>2, <4>3, <5>1
        <5>2. CASE ~TooFull(t, heldPrints')
          BY <1>0, <4>1, <4>2, <5>2 DEF TooFull
        <5>. QED
          BY <5>1, <5>2
      <4>6. /\ added' \ {Zero} = (added \ {Zero}) \cup {fp} /\ fp \notin added \ {Zero}
            /\ IsFiniteSet(added \ {Zero})
        BY <1>0, <2>1, <2>3, <3>3, <3>5, FS_RemoveElement
      <4>7. Cardinality(added' \ {Zero}) = heldPrints'
        BY <1>0, <4>2, <4>6, FS_AddElement
      <4>8. PrintsIn(slots') = added' \ {Zero} /\ (zeroHeld' <=> Zero \in added')
        BY <1>0, <3>1, <3>2, <4>4, <4>6
      <4>. QED
        BY <2>1, <4>4, <4>5, <4>7, <4>8 DEF ShardInv
    <3>. QED
      BY <3>4, <3>5
  <2>. QED
    BY <2>2, <2>3
<1>4. CASE UNCHANGED shardVars
  BY <1>0, <1>4 DEF ShardInv, shardVars
<1>. QED
  BY <1>3, <1>4 DEF ShardNext

(* A table of the duplicate set answers for a key exactly when it was added, *)
(* for every set of keys, whatever collides and however often it doubles: no *)
(* walk misses a key or runs for ever (dedupShard.add, has, grow).           *)
THEOREM ShardStaysASet ==
    ShardSpec => []ShardIsSet
<1>1. ShardInv => ShardIsSet
  <2>. SUFFICES ASSUME ShardInv PROVE ShardIsSet
    OBVIOUS
  <2>1. /\ Table(slots) /\ heldPrints \in Nat /\ heldPrints * 4 <= Len(slots) * 3
        /\ Walked(slots) /\ PrintsIn(slots) = added \ {Zero} /\ (zeroHeld <=> Zero \in added)
        /\ heldPrints = Cardinality(added \ {Zero}) /\ Cardinality(FilledAt(slots)) = heldPrints
        /\ Len(slots) \in Nat \ {0}
    BY TableIs DEF ShardInv
  <2>2. heldPrints < Len(slots)
    BY <2>1
  <2>3. HasRoom(slots)
    BY <2>1, <2>2, FewLeaveRoom
  <2>4. ASSUME NEW fp \in Prints
        PROVE  (IF fp = Zero THEN zeroHeld ELSE hasPrint(slots, fp)) <=> fp \in added
    <3>1. CASE fp = Zero
      BY <2>1, <3>1
    <3>2. CASE fp # Zero
      <4>1. hasPrint(slots, fp) <=> fp \in PrintsIn(slots)
        BY <2>1, <2>3, <3>2, ShardAssumption, FoundIfThere
      <4>. QED
        BY <2>1, <3>2, <4>1
    <3>. QED
      BY <3>1, <3>2
  <2>. QED
    BY <2>1, <2>3, <2>4 DEF ShardIsSet, HasRoom
<1>2. ShardInv /\ [ShardNext]_shardVars => ShardInv'
  BY ShardSteps
<1>. QED
  BY <1>1, <1>2, ShardStart, PTL DEF ShardSpec
=============================================================================

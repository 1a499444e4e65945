------------------------------ MODULE Launcher ------------------------------
(***************************************************************************)
(* Starting and stopping one world's game: launchers that take a lock file,*)
(* a pid file that says what runs, and a command file through which the    *)
(* game's own mod is asked to save and quit.  A launcher can be killed     *)
(* between any two of its steps.                                           *)
(*                                                                         *)
(* Sources: src/go/internal/launcher/lock.go, run.go, stop.go, process.go, *)
(* modquit.go.  The mod's side of the command file is external.            *)
(***************************************************************************)
EXTENDS Integers, FiniteSets

CONSTANTS
    Proc,       \* launcher processes
    OneBreaks,  \* TRUE: nobody comes to the lock between the look at it and its removal,
                \* and who holds it is done within lockStaleAfter
    MaxGames, MaxKills  \* bounds: games spawned, launchers killed

Nobody == 0
ASSUME ProcAssumption == Nobody \notin Proc
Game == 1..MaxGames

VARIABLES
    doing,       \* the step a launcher is at
    mine,     \* the game a launcher has spawned, or read from the pid file
    lock,     \* launcher.lock: its holder, or Nobody
    pidFile,  \* game.pid: 0 is not a usable pid
    running,  \* the games alive
    command,  \* the command file: the game its quit was meant for, or 0
    quitting, \* pairs: a game that took a quit, and the game it was meant for
    orphans,  \* games whose launcher was killed before it recorded them
    games, kills

launcherVars == <<doing, mine, lock, pidFile, running, command, quitting, orphans, games, kills>>
pidVars == <<pidFile, running, command, quitting, orphans, games, kills>>

Alive(l) == doing[l] \notin {"idle", "dead"}
Go(l, step) == doing' = [doing EXCEPT ![l] = step]

-----------------------------------------------------------------------------
(* acquireLock and release. *)

(* O_EXCL: the file appears with its holder in it, or is there already. *)
CreateLock(l) ==
    /\ doing[l] \in {"start", "stop"} /\ lock = Nobody
    /\ lock' = l /\ Go(l, IF doing[l] = "start" THEN "refuse" ELSE "read")
    /\ UNCHANGED <<mine, pidVars>>

(* Where a launcher can be for longer than lockStaleAfter with the lock held: *)
(* waitForSlot before the game, waitForMod after it, waitForExit.             *)
Waits == {"claim", "mod", "wait"}

(* Its holder is gone, or it is older than lockStaleAfter. *)
Breakable == doing[lock] = "dead" \/ (~OneBreaks /\ doing[lock] \in Waits)
LookAtLock(l) ==
    /\ doing[l] \in {"start", "stop"} /\ lock # Nobody
    /\ \/ Breakable /\ Go(l, IF doing[l] = "start" THEN "break start" ELSE "break stop")
       \/ doing[lock] # "dead" /\ Go(l, "idle")
    /\ UNCHANGED <<mine, lock, pidVars>>

(* The path is removed, whoever's lock is there by now. *)
Break(l) ==
    /\ doing[l] \in {"break start", "break stop"}
    /\ lock' = Nobody /\ Go(l, IF doing[l] = "break start" THEN "start" ELSE "stop")
    /\ UNCHANGED <<mine, pidVars>>

(* The path again. *)
release(l) ==
    /\ doing[l] = "release" /\ lock' = Nobody /\ Go(l, "idle") /\ mine' = [mine EXCEPT ![l] = 0]
    /\ UNCHANGED pidVars

Begin(l) ==
    /\ doing[l] = "idle"
    /\ OneBreaks => \A k \in Proc : doing[k] \notin {"start", "stop", "break start", "break stop"}
    /\ \E what \in {"start", "stop"} : Go(l, what)
    /\ UNCHANGED <<mine, lock, pidVars>>

-----------------------------------------------------------------------------
(* runStart: the refusals, then startGame. *)

Live(g) == g \in running

refuseStart(l) ==
    /\ doing[l] = "refuse" /\ Go(l, IF Live(pidFile) THEN "release" ELSE "claim")
    /\ UNCHANGED <<mine, lock, pidVars>>

(* The pid file is proved writable, and a command left behind removed. *)
Claim(l) ==
    /\ doing[l] = "claim" /\ pidFile' = 0 /\ command' = 0 /\ Go(l, "spawn")
    /\ UNCHANGED <<mine, lock, running, quitting, orphans, games, kills>>

Spawn(l) ==
    /\ doing[l] = "spawn" /\ games < MaxGames
    /\ \/ /\ games' = games + 1 /\ running' = running \cup {games'}
          /\ mine' = [mine EXCEPT ![l] = games'] /\ Go(l, "record")
       \/ Go(l, "release") /\ UNCHANGED <<mine, running, games>>
    /\ UNCHANGED <<lock, pidFile, command, quitting, orphans, kills>>

(* A game that cannot be recorded is taken down again: a force does it. *)
Record(l) ==
    /\ doing[l] = "record"
    /\ \/ pidFile' = mine[l] /\ Go(l, "mod") /\ UNCHANGED running
       \/ running' = running \ {mine[l]} /\ Go(l, "release") /\ UNCHANGED pidFile
    /\ UNCHANGED <<mine, lock, command, quitting, orphans, games, kills>>

(* Up to 120 s, with the lock held. *)
waitForMod(l) == doing[l] = "mod" /\ Go(l, "release") /\ UNCHANGED <<mine, lock, pidVars>>

-----------------------------------------------------------------------------
(* runStop, for the game. *)

stopProcess(l) ==
    /\ doing[l] = "read" /\ mine' = [mine EXCEPT ![l] = pidFile]
    /\ IF Live(pidFile) THEN Go(l, "ask") /\ UNCHANGED pidFile
       ELSE pidFile' = 0 /\ Go(l, "release")
    /\ UNCHANGED <<lock, running, command, quitting, orphans, games, kills>>

askModToQuit(l) ==
    /\ doing[l] = "ask" /\ command' = mine[l] /\ Go(l, "asked")
    /\ UNCHANGED <<mine, lock, pidFile, running, quitting, orphans, games, kills>>

(* Not taken in a second: the request is taken back.  Taken: its answer, a *)
(* refusal or nothing comes.                                               *)
QuitAnswered(l) ==
    /\ doing[l] = "asked" /\ Go(l, "wait")
    /\ command' = 0
    /\ UNCHANGED <<mine, lock, pidFile, running, quitting, orphans, games, kills>>

(* Mutant: the record goes before the process does. *)
ForcedUnseen(l) ==
    /\ doing[l] = "wait" /\ Go(l, "gone")
    /\ UNCHANGED <<mine, lock, pidVars>>

(* It closes because it was asked, or is forced. *)
Forced(l) ==
    /\ doing[l] = "wait" /\ Go(l, "gone") /\ running' = running \ {mine[l]}
    /\ UNCHANGED <<mine, lock, pidFile, command, quitting, orphans, games, kills>>
StopFailed(l) ==
    /\ doing[l] = "wait" /\ Go(l, "release")
    /\ UNCHANGED <<mine, lock, pidVars>>

(* The record is removed once the process is gone, whatever it holds. *)
Forget(l) ==
    /\ doing[l] = "gone" /\ pidFile' = 0 /\ Go(l, "release")
    /\ UNCHANGED <<mine, lock, running, command, quitting, orphans, games, kills>>

-----------------------------------------------------------------------------
(* The game: its mod takes a command every 200 ms, and the game ends. *)
TakeQuit(g) ==
    /\ g \in running /\ command # 0
    /\ command' = 0 /\ quitting' = quitting \cup {<<g, command>>}
    /\ UNCHANGED <<doing, mine, lock, pidFile, running, orphans, games, kills>>
Exit(g) ==
    /\ g \in running /\ running' = running \ {g}
    /\ UNCHANGED <<doing, mine, lock, pidFile, command, quitting, orphans, games, kills>>

Dies(l) ==
    /\ Alive(l) /\ kills < MaxKills /\ kills' = kills + 1 /\ Go(l, "dead")
    /\ orphans' = orphans \cup {mine[k] : k \in {j \in {l} : doing[j] = "record"}}
    /\ UNCHANGED <<mine, lock, pidFile, running, command, quitting, games>>

-----------------------------------------------------------------------------
LauncherInit ==
    /\ doing = [l \in Proc |-> "idle"] /\ mine = [l \in Proc |-> 0] /\ lock = Nobody /\ pidFile = 0
    /\ running = {} /\ command = 0 /\ quitting = {} /\ orphans = {} /\ games = 0 /\ kills = 0

LauncherNext ==
    \/ \E l \in Proc : \/ Begin(l) \/ CreateLock(l) \/ LookAtLock(l) \/ Break(l) \/ release(l)
                       \/ refuseStart(l) \/ Claim(l) \/ Spawn(l) \/ Record(l) \/ waitForMod(l)
                       \/ stopProcess(l) \/ askModToQuit(l) \/ QuitAnswered(l)
                       \/ Forced(l) \/ StopFailed(l) \/ Forget(l) \/ Dies(l)
    \/ \E g \in Game : TakeQuit(g) \/ Exit(g)

LauncherSpec == LauncherInit /\ [][LauncherNext]_launcherVars

-----------------------------------------------------------------------------
(* A running game can always be found again: the pid file names it, or the  *)
(* launcher that spawned it is about to write it ("a process that is        *)
(* running and unrecorded can never be found again", run.go:231).           *)
RunningIsRecorded == \A g \in running \ orphans :
    pidFile = g \/ \E l \in Proc : doing[l] = "record" /\ mine[l] = g

(* No game obeys a quit that was meant for an earlier one (startGame,       *)
(* askModToQuit), even when the stop that asked was killed half way.        *)
QuitIsForThisGame == \A q \in quitting : q[1] <= q[2]

(* What the files say of a game is true, whichever launcher reads them.     *)
RecordsAreTrue == RunningIsRecorded /\ QuitIsForThisGame

=============================================================================

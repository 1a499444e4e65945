------------------------------ MODULE WorldSave ------------------------------
(***************************************************************************)
(* The mod's own world saves: games of one machine that share a directory, *)
(* each with one world.  A save is written beside the live one, verified,  *)
(* and takes its name by two renames; a lock file keeps two games from     *)
(* saving at once, and a save that was put off often enough is made all the*)
(* same.  A game loads the live save when it starts, and seeds a new world *)
(* when there is none.  It can be killed between any two of its steps.     *)
(*                                                                         *)
(* Sources: src/bibites-mod/src/WorldSaver.cs, WorldLoader.cs and          *)
(* WorldSeeder.cs.  Of a save only its age is kept, against the last save  *)
(* the running game has reported (LastSave).                               *)
(***************************************************************************)
EXTENDS Integers, SequencesExt

CONSTANTS
    World,        \* the games that run beside one another, a world each
    Followed,     \* those whose files are followed; of the others only the lock is
    SaveKeep,     \* Keep: how many rotated saves stay
    MaxDeferrals, \* MaxDeferrals
    Hosts,        \* the machines it may run on: what is true of one, as a set
    MaxLost       \* bound: kills and renames that fail

NoWorld == "nobody"

ASSUME SaveKeepAssumption == SaveKeep \in Nat /\ MaxDeferrals \in Nat /\ MaxLost \in Nat
(* "shared": an open file can be read and deleted by another process, as in   *)
(* the native Linux build; without it FileShare.None keeps others out.        *)
(* "short": a save can come due before a new world is grown and written.      *)
ASSUME HostsAssumption == \A h \in Hosts : h \subseteq {"shared", "short"}
ASSUME FollowedAssumption == Followed \subseteq World /\ NoWorld \notin World

Saves == {"older", "kept", "newer"}   \* complete: before, at and after the receipt
Files == Saves \cup {"none", "torn"}

VARIABLES
    host,      \* the machine, one of Hosts
    stage,     \* the step a game's main thread is at
    seed,      \* WorldSeeder's coroutine: the new world grows, is being written, or is done
    quits,     \* the games whose save on quit has begun
    deferrals, \* deferrals
    live, partial, rotations, \* <world>.zip, <world>.partial.zip, the stamped saves by age
    reported,  \* the games that have a LastSave
    named,     \* history: the worlds a complete save was put under the name of
    saveLock,  \* the lock file: who made it, or NoWorld
    second,    \* the games at the second attempt to take it
    streams,   \* lockStream: the games that hold the lock file open
    lost

saveFiles == <<live, partial, rotations, reported, named>>
gate == <<saveLock, second, streams>>
worldSaveVars == <<host, stage, seed, quits, deferrals, saveFiles, gate, lost>>

WorldSaveTypeOK ==
    /\ host \in Hosts
    /\ stage \in [World -> {"off", "stuck", "play", "create", "look", "break", "write",
                            "verify", "rotate", "place", "prune", "dispose", "unlink"}]
    /\ seed \in [World -> {"growing", "writing", "done"}]
    /\ quits \subseteq World /\ deferrals \in [World -> 0..MaxDeferrals]
    /\ live \in [World -> Files] /\ partial \in [World -> {"none", "torn", "newer"}]
    /\ rotations \in [World -> Seq(Files \ {"none"})]
    /\ reported \subseteq World /\ named \subseteq World
    /\ saveLock \in World \cup {NoWorld} /\ second \subseteq World /\ streams \subseteq World
    /\ lost \in 0..MaxLost

Stage(w, step) == stage' = [stage EXCEPT ![w] = step]
Seed(w, at) == seed' = [seed EXCEPT ![w] = at]
Resume(w) == IF w \in quits THEN "off" ELSE "play"
AfterSave(w) == IF w \in streams THEN "dispose" ELSE Resume(w)

-----------------------------------------------------------------------------
(* Starting: WorldLoader and WorldSeeder. *)

Aged(file) == IF file \in Saves THEN "older" ELSE file

(* A file there is loaded, one that is not an archive in vain; with none a   *)
(* new world is seeded.  Once a world runs a partial left behind is removed. *)
(* The timer and LastSave are the process's own: what is on disk is all older. *)
LoadOrSeed(w) ==
    /\ stage[w] = "off"
    /\ Stage(w, IF w \in Followed /\ live[w] = "torn" THEN "stuck" ELSE "play")
    /\ Seed(w, IF w \in Followed /\ live[w] = "none" THEN "growing" ELSE "done")
    /\ partial' = [partial EXCEPT ![w] = IF live[w] = "torn" THEN @ ELSE "none"]
    /\ quits' = quits \ {w} /\ reported' = reported \ {w}
    /\ deferrals' = [deferrals EXCEPT ![w] = 0]
    /\ live' = [live EXCEPT ![w] = Aged(@)]
    /\ rotations' = [rotations EXCEPT ![w] = [i \in DOMAIN @ |-> Aged(@[i])]]
    /\ UNCHANGED <<host, named, gate, lost>>

(* The seed is written under the world's own name, frame by frame, and what *)
(* is there by then is written over.                                        *)
SeedSave(w) ==
    /\ stage[w] = "play" /\ seed[w] = "growing" /\ Seed(w, "writing")
    /\ live' = [live EXCEPT ![w] = "torn"]
    /\ UNCHANGED <<host, stage, quits, deferrals, partial, rotations, reported, named, gate, lost>>

(* A seed that cannot be saved leaves its simulation running all the same. *)
Seeded(w) ==
    /\ stage[w] = "play" /\ seed[w] = "writing" /\ Seed(w, "done")
    /\ \/ live' = [live EXCEPT ![w] = "newer"] /\ named' = named \cup {w}
       \/ UNCHANGED <<live, named>>
    /\ UNCHANGED <<host, stage, quits, deferrals, partial, rotations, reported, gate, lost>>

-----------------------------------------------------------------------------
(* Pump: a save that is due, unless something stands in its way. *)

(* Mutant: a save is put off as long as something stands in its way. *)
BlockedForever(w) ==
    IF w \in quits THEN Stage(w, "write") /\ UNCHANGED deferrals
    ELSE /\ Stage(w, "play")
         /\ deferrals' = [deferrals EXCEPT ![w] = IF @ < MaxDeferrals THEN @ + 1 ELSE @]

(* A save on quit waits for nothing; a periodic one a few times. *)
Blocked(w) ==
    IF w \in quits THEN Stage(w, "write") /\ UNCHANGED deferrals
    ELSE IF deferrals[w] < MaxDeferrals
    THEN Stage(w, "play") /\ deferrals' = [deferrals EXCEPT ![w] = @ + 1]
    ELSE Stage(w, "write") /\ deferrals' = [deferrals EXCEPT ![w] = 0]

(* A MIGRATE_IN may be waiting whenever the save comes due.  The timer runs  *)
(* as soon as the simulation does, while a new world is still grown; it is   *)
(* due within that time on some machines only.                               *)
Pump(w) ==
    /\ stage[w] = "play" /\ (seed[w] = "done" \/ "short" \in host)
    /\ Blocked(w) \/ (Stage(w, "create") /\ UNCHANGED deferrals)
    /\ second' = second \ {w}
    /\ UNCHANGED <<host, seed, quits, saveFiles, saveLock, streams, lost>>

(* No frame follows it: a seeding under way goes no further. *)
OnApplicationQuit(w) ==
    /\ stage[w] = "play" /\ w \notin quits
    /\ quits' = quits \cup {w} /\ second' = second \ {w} /\ Stage(w, "create") /\ Seed(w, "done")
    /\ UNCHANGED <<host, deferrals, saveFiles, saveLock, streams, lost>>

-----------------------------------------------------------------------------
(* TryAcquireLock and ReleaseLock.  A file another process has open can be  *)
(* neither read nor deleted (FileShare.None), where the machine sees to it. *)

KeptOut == saveLock \in streams /\ "shared" \notin host

CreateLock(w) ==
    /\ stage[w] = "create"
    /\ IF saveLock = NoWorld
       THEN /\ saveLock' = w /\ streams' = streams \cup {w} /\ Stage(w, "write")
            /\ deferrals' = [deferrals EXCEPT ![w] = 0] /\ second' = second \ {w}
       ELSE Stage(w, "look") /\ UNCHANGED <<deferrals, gate>>
    /\ UNCHANGED <<host, seed, quits, saveFiles, lost>>

(* It is gone again, cannot be read, is recent, or is old enough to break: a *)
(* dead game's, or a live one's whose save takes long or was suspended.      *)
LookAtSaveLock(w) ==
    /\ stage[w] = "look"
    /\ \/ Blocked(w)
       \/ saveLock # NoWorld /\ ~KeptOut /\ Stage(w, "break") /\ UNCHANGED deferrals
    /\ UNCHANGED <<host, seed, quits, saveFiles, gate, lost>>

Retry(w) ==
    /\ second' = second \cup {w}
    /\ IF w \in second THEN Blocked(w) ELSE Stage(w, "create") /\ UNCHANGED deferrals

(* By now it may be another's.  There are two attempts. *)
BreakSaveLock(w) ==
    /\ stage[w] = "break"
    /\ IF KeptOut THEN Blocked(w) /\ UNCHANGED <<saveLock, second>>
       ELSE saveLock' = NoWorld /\ Retry(w)
    /\ UNCHANGED <<host, seed, quits, saveFiles, streams, lost>>

DisposeLock(w) ==
    /\ stage[w] = "dispose" /\ streams' = streams \ {w} /\ Stage(w, "unlink")
    /\ UNCHANGED <<host, seed, quits, deferrals, saveFiles, saveLock, second, lost>>

(* The path, whoever's file is there by now, if it can be deleted. *)
UnlinkLock(w) ==
    /\ stage[w] = "unlink" /\ Stage(w, Resume(w))
    /\ saveLock' = IF KeptOut THEN saveLock ELSE NoWorld
    /\ UNCHANGED <<host, seed, quits, deferrals, saveFiles, second, streams, lost>>

-----------------------------------------------------------------------------
(* Save: the main thread, from the write to the receipt. *)

SaveUnfollowed(w) ==
    /\ w \notin Followed /\ stage[w] = "write" /\ Stage(w, AfterSave(w))
    /\ UNCHANGED <<host, seed, quits, deferrals, saveFiles, gate, lost>>

(* The game's own CreateSave, which may throw or leave half a file. *)
WritePartial(w) ==
    /\ w \in Followed /\ stage[w] = "write" /\ Stage(w, "verify")
    /\ \E file \in {"newer", "torn"} : partial' = [partial EXCEPT ![w] = file]
    /\ UNCHANGED <<host, seed, quits, deferrals, live, rotations, reported, named, gate, lost>>

GiveUp(w) == partial' = [partial EXCEPT ![w] = "none"] /\ Stage(w, AfterSave(w))

(* Mutant: the archive is taken as it is. *)
VerifyNothing(w) ==
    /\ stage[w] = "verify" /\ Stage(w, "rotate")
    /\ UNCHANGED <<host, seed, quits, deferrals, saveFiles, gate, lost>>

Verify(w) ==
    /\ stage[w] = "verify"
    /\ IF partial[w] = "newer" THEN Stage(w, "rotate") /\ UNCHANGED partial ELSE GiveUp(w)
    /\ UNCHANGED <<host, seed, quits, deferrals, live, rotations, reported, named, gate, lost>>

(* The first rename.  Two saves in one second share a stamp, and the later *)
(* takes the place of the earlier.                                         *)
Rotated(w) ==
    {Append(rotations[w], live[w])}
    \cup IF rotations[w] = <<>> THEN {} ELSE {Append(Front(rotations[w]), live[w])}

RotateLive(w) ==
    /\ stage[w] = "rotate"
    /\ IF live[w] = "none" THEN Stage(w, "place") /\ UNCHANGED <<live, rotations>>
       ELSE /\ \E saves \in Rotated(w) : rotations' = [rotations EXCEPT ![w] = saves]
            /\ live' = [live EXCEPT ![w] = "none"] /\ Stage(w, "place")
    /\ UNCHANGED <<host, seed, quits, deferrals, partial, reported, named, gate, lost>>

(* The second. *)
PlacePartial(w) ==
    /\ stage[w] = "place" /\ Stage(w, "prune")
    /\ live' = [live EXCEPT ![w] = partial[w]] /\ partial' = [partial EXCEPT ![w] = "none"]
    /\ named' = named \cup {w}
    /\ UNCHANGED <<host, seed, quits, deferrals, rotations, reported, gate, lost>>

(* Either rename throws: the partial goes, and the save reports a failure. *)
RenameFails(w) ==
    /\ stage[w] \in {"rotate", "place"}
    /\ lost < MaxLost /\ lost' = lost + 1 /\ GiveUp(w)
    /\ UNCHANGED <<host, seed, quits, deferrals, live, rotations, reported, named, gate>>

Newest(saves, n) == IF Len(saves) <= n THEN saves ELSE SubSeq(saves, Len(saves) - n + 1, Len(saves))

(* The older rotations go, and the receipt is of what the live name holds. *)
PruneAndReport(w) ==
    /\ stage[w] = "prune" /\ Stage(w, AfterSave(w)) /\ reported' = reported \cup {w}
    /\ LET stay == Newest(rotations[w], SaveKeep)
       IN rotations' = [rotations EXCEPT ![w] = [i \in DOMAIN stay |-> Aged(stay[i])]]
    /\ live' = [live EXCEPT ![w] = IF @ = "newer" THEN "kept" ELSE @]
    /\ UNCHANGED <<host, seed, quits, deferrals, partial, named, gate, lost>>

KillGame(w) ==
    /\ stage[w] # "off" /\ lost < MaxLost /\ lost' = lost + 1
    /\ Stage(w, "off") /\ streams' = streams \ {w}
    /\ quits' = quits \ {w} /\ second' = second \ {w}
    /\ deferrals' = [deferrals EXCEPT ![w] = 0]
    /\ Seed(w, "done") /\ UNCHANGED <<host, saveFiles, saveLock>>

CloseMenu(w) ==
    /\ stage[w] = "stuck" /\ Stage(w, "off")
    /\ UNCHANGED <<host, seed, quits, deferrals, saveFiles, gate, lost>>

-----------------------------------------------------------------------------
MainThread(w) ==
    \/ SeedSave(w) \/ Seeded(w) \/ Pump(w)
    \/ CreateLock(w) \/ LookAtSaveLock(w) \/ BreakSaveLock(w) \/ DisposeLock(w) \/ UnlinkLock(w)
    \/ SaveUnfollowed(w) \/ WritePartial(w) \/ Verify(w)
    \/ RotateLive(w) \/ PlacePartial(w) \/ PruneAndReport(w)

WorldSaveInit ==
    /\ host \in Hosts
    /\ stage = [w \in World |-> "off"] /\ seed = [w \in World |-> "done"] /\ quits = {}
    /\ deferrals = [w \in World |-> 0]
    /\ live = [w \in World |-> "none"] /\ partial = [w \in World |-> "none"]
    /\ rotations = [w \in World |-> <<>>]
    /\ reported = {} /\ named = {}
    /\ saveLock = NoWorld /\ second = {} /\ streams = {} /\ lost = 0

WorldSaveNext ==
    \E w \in World :
        \/ LoadOrSeed(w) \/ MainThread(w) \/ OnApplicationQuit(w)
        \/ RenameFails(w) \/ KillGame(w) \/ CloseMenu(w)

(* The game runs its main thread. *)
WorldSaveSpec ==
    /\ WorldSaveInit /\ [][WorldSaveNext]_worldSaveVars
    /\ \A w \in World : WF_worldSaveVars(MainThread(w))

-----------------------------------------------------------------------------
(* The save a game last reported, or a newer one, is on disk in one piece,  *)
(* whatever fails or dies in a later save.                                  *)
ReceiptOnDisk ==
    \A w \in reported :
        \E file \in {"kept", "newer"} : live[w] = file \/ file \in ToSet(rotations[w])

(* Two games never hold the save lock at once, however it is broken: two    *)
(* worlds are saved at one moment only by a save that did without the lock. *)
OneHoldsTheLock == \A v, w \in streams : v = w

(* A reported save can be relied on, unless the seed of a new world was    *)
(* still to be written over it; and no other game stalls beside it, where a *)
(* held lock keeps others out (Rotate, TryAcquireLock).                     *)
SavesAreSound ==
    /\ "short" \notin host => ReceiptOnDisk
    /\ "shared" \notin host => OneHoldsTheLock

(* A save that was put off is made, however long the queue stays full or    *)
(* the lock stays taken, as long as the game runs.                          *)
DeferredIsSaved == \A w \in World : deferrals[w] > 0 ~> deferrals[w] = 0 \/ stage[w] = "off"

(* A world that was saved is never started afresh: the rotated copy covers  *)
(* the window between the two renames.                                      *)
SavedIsLoaded == \A w \in World : seed[w] = "growing" => w \notin named

=============================================================================

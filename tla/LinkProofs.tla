----------------------------- MODULE LinkProofs -----------------------------
(***************************************************************************)
(* The parts beside one world: its saves, its socket, its link to the      *)
(* sidecar and the sidecar's writer, for every number of games, frames and *)
(* faults; that one copy is kept is proved through one fault.              *)
(***************************************************************************)
EXTENDS SendPace, WorldLink, Writer, WorldSave, Transport, SequenceTheorems, FiniteSetTheorems, TLAPS

-----------------------------------------------------------------------------
(* World saves. *)

(* Who has the lock file open is who made it, where that keeps others out. *)
LockHeld == "shared" \notin host => streams \subseteq {saveLock}

Good == {"kept", "newer"}
(* The reported save is the live one, or the youngest rotation while there *)
(* is none.                                                                *)
Kept(w) == \/ live[w] \in Good
           \/ /\ live[w] = "none" /\ rotations[w] # <<>>
              /\ rotations[w][Len(rotations[w])] \in Good
FileInv(w) ==
    /\ stage[w] \in {"rotate", "place"} => partial[w] = "newer"
    /\ stage[w] = "prune" => live[w] = "newer"
    /\ seed[w] # "done" => stage[w] = "play" /\ w \notin reported
    /\ w \in reported => Kept(w)
(* No save comes due before the seed is written. *)
LateTimer == "short" \notin host
FilesSound == LateTimer => \A w \in World : FileInv(w)

SaveInv == WorldSaveTypeOK /\ LockHeld /\ FilesSound

LEMMA SaveInvInit == WorldSaveInit => SaveInv
<1> SUFFICES ASSUME WorldSaveInit PROVE SaveInv
  OBVIOUS
<1>1. WorldSaveTypeOK
  BY SaveKeepAssumption DEF WorldSaveInit, WorldSaveTypeOK, Files, Saves
<1>2. LockHeld /\ FilesSound
  BY DEF WorldSaveInit, LockHeld, FilesSound, FileInv
<1> QED
  BY <1>1, <1>2 DEF SaveInv

(* However it is broken, taken or let go, the lock file is its holder's. *)
LEMMA LockHeldStep ==
    ASSUME LockHeld, streams \subseteq World, [WorldSaveNext]_worldSaveVars
    PROVE  LockHeld' /\ host' = host
<1>1. ASSUME NEW w \in World, CreateLock(w) \/ BreakSaveLock(w) \/ DisposeLock(w) \/ UnlinkLock(w)
      PROVE  LockHeld' /\ host' = host
  BY <1>1, FollowedAssumption
     DEF LockHeld, CreateLock, BreakSaveLock, DisposeLock, UnlinkLock, Retry, KeptOut, gate
<1>2. ASSUME host' = host, saveLock' = saveLock, streams' \subseteq streams
      PROVE  LockHeld' /\ host' = host
  BY <1>2 DEF LockHeld
<1>3. ASSUME NEW w \in World, MainThread(w) PROVE LockHeld' /\ host' = host
  BY <1>1, <1>2, <1>3
     DEF MainThread, gate, saveFiles, SeedSave, Seeded, Pump, LookAtSaveLock, SaveUnfollowed,
         WritePartial, Verify, RotateLive, PlacePartial, PruneAndReport
<1> QED
  BY <1>2, <1>3
     DEF WorldSaveNext, worldSaveVars, gate, saveFiles, LoadOrSeed, OnApplicationQuit, RenameFails,
         KillGame, CloseMenu

Step == {"off", "stuck", "play", "create", "look", "break", "write", "verify", "rotate",
         "place", "prune", "dispose", "unlink"}
(* The steps at which nothing is known of the files. *)
Plain == Step \ {"rotate", "place", "prune"}

LEMMA AgedType == \A f \in Files : Aged(f) \in Files /\ (f # "none" => Aged(f) # "none")
BY DEF Aged, Files, Saves

(* A step that writes no file and goes to one of those. *)
LEMMA PlainStep ==
    ASSUME SaveInv, NEW w \in World, NEW step \in Plain, Stage(w, step),
           UNCHANGED <<host, live, partial, rotations, reported>>,
           \A v \in World \ {w} : seed'[v] = seed[v], LateTimer => seed'[w] = "done"
    PROVE  FilesSound' /\ stage' \in [World -> Step]
<1>1. stage \in [World -> Step]
  BY DEF SaveInv, WorldSaveTypeOK, Step
<1>2. stage' \in [World -> Step]
  BY <1>1 DEF Stage, Plain
<1>3. ASSUME LateTimer, NEW v \in World PROVE FileInv(v)'
  <2>1. FileInv(v)
    BY <1>3 DEF SaveInv, FilesSound
  <2>2. CASE v = w
    <3>1. stage'[v] \in Plain /\ seed'[v] = "done"
      BY <1>1, <1>3, <2>2 DEF Stage
    <3> QED
      BY <2>1, <3>1 DEF FileInv, Kept, Plain
  <2>3. CASE v # w
    <3>1. stage'[v] = stage[v] /\ seed'[v] = seed[v]
      BY <1>1, <2>3 DEF Stage
    <3> QED
      BY <2>1, <3>1 DEF FileInv, Kept
  <2> QED
    BY <2>2, <2>3
<1> QED
  BY <1>2, <1>3 DEF FilesSound, LateTimer

(* A step writes the files of its own game. *)
LEMMA OwnFiles ==
    ASSUME SaveInv, NEW w \in World,
           stage' \in [World -> Step], LateTimer => FileInv(w)', host' = host,
           \A v \in World \ {w} : /\ stage'[v] = stage[v] /\ seed'[v] = seed[v] /\ live'[v] = live[v]
                                  /\ partial'[v] = partial[v] /\ rotations'[v] = rotations[v]
                                  /\ v \in reported' <=> v \in reported
    PROVE  FilesSound'
BY DEF SaveInv, FilesSound, FileInv, Kept, LateTimer

FileTypes ==
    /\ live \in [World -> Files] /\ partial \in [World -> {"none", "torn", "newer"}]
    /\ rotations \in [World -> Seq(Files \ {"none"})]
    /\ reported \subseteq World /\ named \subseteq World
    /\ seed \in [World -> {"growing", "writing", "done"}]
GateTypes ==
    /\ quits \subseteq World /\ deferrals \in [World -> 0..MaxDeferrals]
    /\ saveLock \in World \cup {NoWorld} /\ second \subseteq World /\ streams \subseteq World
    /\ lost \in 0..MaxLost

LEMMA BlockedTypes ==
    ASSUME NEW w \in World, Blocked(w), deferrals \in [World -> 0..MaxDeferrals]
    PROVE  /\ \E step \in Plain : Stage(w, step)
           /\ deferrals' \in [World -> 0..MaxDeferrals]
<1>1. CASE w \in quits
  BY <1>1 DEF Blocked, Plain, Step
<1>2. CASE w \notin quits /\ deferrals[w] < MaxDeferrals
  <2>1. deferrals[w] + 1 \in 0..MaxDeferrals
    BY <1>2, SaveKeepAssumption
  <2>2. Stage(w, "play") /\ deferrals' = [deferrals EXCEPT ![w] = deferrals[w] + 1]
    BY <1>2 DEF Blocked
  <2> QED
    BY <2>1, <2>2 DEF Plain, Step
<1>3. CASE w \notin quits /\ ~(deferrals[w] < MaxDeferrals)
  <2>1. 0 \in 0..MaxDeferrals
    BY SaveKeepAssumption
  <2>2. Stage(w, "write") /\ deferrals' = [deferrals EXCEPT ![w] = 0]
    BY <1>3 DEF Blocked
  <2> QED
    BY <2>1, <2>2 DEF Plain, Step
<1> QED
  BY <1>1, <1>2, <1>3

LEMMA GateTypesStep ==
    ASSUME GateTypes, [WorldSaveNext]_worldSaveVars PROVE GateTypes'
<1>0. deferrals \in [World -> 0..MaxDeferrals] /\ 0 \in 0..MaxDeferrals /\ MaxLost \in Nat
  BY SaveKeepAssumption DEF GateTypes
<1>1. ASSUME UNCHANGED <<quits, deferrals, gate, lost>> PROVE GateTypes'
  BY <1>1 DEF GateTypes, gate
<1>2. ASSUME NEW w \in World, LoadOrSeed(w) \/ KillGame(w) \/ OnApplicationQuit(w) \/ RenameFails(w)
      PROVE  GateTypes'
  <2>1. deferrals' \in [World -> 0..MaxDeferrals]
    BY <1>0, <1>2 DEF LoadOrSeed, KillGame, OnApplicationQuit, RenameFails
  <2>2. lost' \in 0..MaxLost
    BY <1>0, <1>2 DEF LoadOrSeed, KillGame, OnApplicationQuit, RenameFails, GateTypes
  <2> QED
    BY <1>2, <2>1, <2>2 DEF LoadOrSeed, KillGame, OnApplicationQuit, RenameFails, GateTypes, gate
<1>3. ASSUME NEW w \in World,
             Pump(w) \/ CreateLock(w) \/ LookAtSaveLock(w) \/ BreakSaveLock(w)
      PROVE  GateTypes'
  <2>1. deferrals' \in [World -> 0..MaxDeferrals]
    BY <1>0, <1>3, BlockedTypes DEF Pump, CreateLock, LookAtSaveLock, BreakSaveLock, Retry
  <2> QED
    BY <1>3, <2>1 DEF Pump, CreateLock, LookAtSaveLock, BreakSaveLock, Retry, GateTypes, gate
<1>4. ASSUME NEW w \in World, DisposeLock(w) \/ UnlinkLock(w) PROVE GateTypes'
  BY <1>4 DEF DisposeLock, UnlinkLock, GateTypes
<1>5. ASSUME NEW w \in World, MainThread(w) PROVE GateTypes'
  BY <1>1, <1>3, <1>4, <1>5
     DEF MainThread, SeedSave, Seeded, SaveUnfollowed, WritePartial, Verify, GiveUp, RotateLive,
         PlacePartial, PruneAndReport
<1> QED
  BY <1>1, <1>2, <1>5 DEF WorldSaveNext, worldSaveVars, CloseMenu

LEMMA AfterSaveIsPlain == \A w : AfterSave(w) \in Plain /\ Resume(w) \in Plain
BY DEF AfterSave, Resume, Plain, Step

(* The steps that write no file. *)
LEMMA LockSteps ==
    ASSUME SaveInv, NEW w \in World,
           \/ Pump(w) \/ CreateLock(w) \/ LookAtSaveLock(w) \/ BreakSaveLock(w) \/ DisposeLock(w)
           \/ UnlinkLock(w) \/ SaveUnfollowed(w) \/ OnApplicationQuit(w) \/ KillGame(w) \/ CloseMenu(w)
    PROVE  FilesSound' /\ stage' \in [World -> Step] /\ FileTypes'
<1>0. host' = host /\ UNCHANGED saveFiles /\ (seed' = seed \/ Seed(w, "done"))
  BY DEF Pump, CreateLock, LookAtSaveLock, BreakSaveLock, DisposeLock, UnlinkLock, SaveUnfollowed,
         OnApplicationQuit, KillGame, CloseMenu
<1>1. UNCHANGED saveFiles
  BY <1>0
<1>6. seed \in [World -> {"growing", "writing", "done"}]
  BY DEF SaveInv, WorldSaveTypeOK
<1>7. seed' \in [World -> {"growing", "writing", "done"}]
      /\ \A v \in World \ {w} : seed'[v] = seed[v]
  BY <1>0, <1>6 DEF Seed
<1>8. ASSUME LateTimer PROVE seed'[w] = "done"
  <2>1. stage[w] # "play" => seed[w] = "done"
    BY <1>8 DEF SaveInv, FilesSound, FileInv
  <2>2. Seed(w, "done") => seed'[w] = "done"
    BY <1>6 DEF Seed
  <2>3. CASE OnApplicationQuit(w) \/ KillGame(w)
    BY <2>2, <2>3 DEF OnApplicationQuit, KillGame
  <2>4. CASE Pump(w)
    BY <1>8, <2>4 DEF Pump, LateTimer
  <2>5. CASE ~(OnApplicationQuit(w) \/ KillGame(w) \/ Pump(w))
    BY <2>1, <2>5
       DEF CreateLock, LookAtSaveLock, BreakSaveLock, DisposeLock, UnlinkLock, SaveUnfollowed, CloseMenu
  <2> QED
    BY <2>3, <2>4, <2>5
<1>2. deferrals \in [World -> 0..MaxDeferrals]
  BY DEF SaveInv, WorldSaveTypeOK
<1>3. Blocked(w) => \E step \in Plain : Stage(w, step)
  BY <1>2, BlockedTypes
<1>4. \E step \in Plain : Stage(w, step)
  <2>1. {"write", "look", "create", "break", "unlink", "off"} \subseteq Plain
    BY DEF Plain, Step
  <2> QED
    BY <1>3, <2>1, AfterSaveIsPlain
       DEF Pump, CreateLock, LookAtSaveLock, BreakSaveLock, Retry, DisposeLock, UnlinkLock,
           SaveUnfollowed, OnApplicationQuit, KillGame, CloseMenu
<1>5. FileTypes'
  BY <1>1, <1>7 DEF SaveInv, WorldSaveTypeOK, FileTypes, saveFiles
<1> QED
  BY <1>0, <1>1, <1>4, <1>5, <1>7, <1>8, PlainStep DEF saveFiles

(* The rotations that a rename can leave: the save that was live is the *)
(* youngest of them.                                                    *)
LEMMA RotatedProperties ==
    ASSUME NEW w, rotations[w] \in Seq(Files \ {"none"}), live[w] \in Files \ {"none"},
           NEW saves \in Rotated(w)
    PROVE  /\ saves \in Seq(Files \ {"none"}) /\ saves # <<>>
           /\ saves[Len(saves)] = live[w]
<1> DEFINE S == Files \ {"none"}
<1>1. ASSUME NEW s \in Seq(S)
      PROVE  /\ Append(s, live[w]) \in Seq(S) /\ Append(s, live[w]) # <<>>
             /\ Append(s, live[w])[Len(Append(s, live[w]))] = live[w]
  OBVIOUS
<1>2. rotations[w] # <<>> => Front(rotations[w]) \in Seq(S)
  BY DEF Front
<1> HIDE DEF S
<1>3. rotations[w] \in Seq(S)
  BY DEF S
<1>4. \E s \in Seq(S) : saves = Append(s, live[w])
  BY <1>2, <1>3 DEF Rotated
<1>5. PICK s \in Seq(S) : saves = Append(s, live[w])
  BY <1>4
<1> QED
  BY <1>1, <1>5 DEF S

LEMMA NewestType ==
    ASSUME NEW S, NEW saves \in Seq(S), NEW n \in Nat
    PROVE  Newest(saves, n) \in Seq(S)
<1>1. CASE ~(Len(saves) <= n)
  <2>1. Len(saves) \in Nat /\ Len(saves) - n + 1 \in 1..Len(saves) + 1
    BY <1>1
  <2>2. \A i \in Len(saves) - n + 1..Len(saves) : saves[i] \in S
    BY <2>1
  <2>3. SubSeq(saves, Len(saves) - n + 1, Len(saves)) \in Seq(S)
    BY <2>1, <2>2, SubSeqProperties
  <2> QED
    BY <1>1, <2>3 DEF Newest
<1> QED
  BY <1>1 DEF Newest

LEMMA AgedSeqType ==
    ASSUME NEW saves \in Seq(Files \ {"none"})
    PROVE  [i \in DOMAIN saves |-> Aged(saves[i])] \in Seq(Files \ {"none"})
<1>1. DOMAIN saves = 1..Len(saves) /\ Len(saves) \in Nat
      /\ \A i \in 1..Len(saves) : saves[i] \in Files \ {"none"}
  OBVIOUS
<1>2. \A i \in 1..Len(saves) : Aged(saves[i]) \in Files \ {"none"}
  BY <1>1, AgedType
<1> QED
  BY <1>1, <1>2

(* A start: what is on disk is older than anything this game reports. *)
LEMMA StartStep ==
    ASSUME SaveInv, NEW w \in World, LoadOrSeed(w)
    PROVE  FilesSound' /\ stage' \in [World -> Step] /\ FileTypes'
<1>1. FileTypes /\ stage \in [World -> Step]
  BY DEF SaveInv, WorldSaveTypeOK, FileTypes, Step
<1>2. /\ \E step \in {"play", "stuck"} : Stage(w, step)
      /\ \E grown \in {"growing", "done"} : Seed(w, grown) /\ (grown = "growing" => Stage(w, "play"))
      /\ host' = host
  BY DEF LoadOrSeed
<1>11. seed' \in [World -> {"growing", "writing", "done"}] /\ \A v \in World \ {w} : seed'[v] = seed[v]
  BY <1>1, <1>2 DEF Seed, FileTypes
<1>12. seed'[w] # "done" => stage'[w] = "play"
  BY <1>1, <1>2 DEF Seed, Stage, FileTypes
<1>3. w \notin reported' /\ reported' = reported \ {w}
  BY DEF LoadOrSeed
<1>4. /\ live' = [live EXCEPT ![w] = Aged(live[w])]
      /\ partial' = [partial EXCEPT ![w] = IF live[w] = "torn" THEN partial[w] ELSE "none"]
      /\ rotations' = [rotations EXCEPT ![w] = [i \in DOMAIN rotations[w] |-> Aged(rotations[w][i])]]
      /\ named' = named
  BY DEF LoadOrSeed
<1>5. Aged(live[w]) \in Files
  BY <1>1, AgedType DEF FileTypes
<1>6. [i \in DOMAIN rotations[w] |-> Aged(rotations[w][i])] \in Seq(Files \ {"none"})
  BY <1>1, AgedSeqType DEF FileTypes
<1>7. FileTypes'
  BY <1>1, <1>3, <1>4, <1>5, <1>6, <1>11 DEF FileTypes
<1>8. stage' \in [World -> Step] /\ stage'[w] \in {"play", "stuck"}
  BY <1>1, <1>2 DEF Stage, Step
<1>9. FileInv(w)'
  BY <1>3, <1>8, <1>12 DEF FileInv
<1>10. \A v \in World \ {w} : /\ stage'[v] = stage[v] /\ seed'[v] = seed[v] /\ live'[v] = live[v]
                              /\ partial'[v] = partial[v] /\ rotations'[v] = rotations[v]
                              /\ v \in reported' <=> v \in reported
  BY <1>1, <1>2, <1>3, <1>4, <1>11 DEF Stage, FileTypes
<1> QED
  BY <1>2, <1>7, <1>8, <1>9, <1>10, OwnFiles

(* Seeding: nothing is reported yet. *)
LEMMA SeedSteps ==
    ASSUME SaveInv, NEW w \in World, SeedSave(w) \/ Seeded(w)
    PROVE  FilesSound' /\ stage' \in [World -> Step] /\ FileTypes'
<1>1. FileTypes /\ stage \in [World -> Step]
  BY DEF SaveInv, WorldSaveTypeOK, FileTypes, Step
<1>2. /\ stage[w] = "play" /\ seed[w] # "done" /\ reported' = reported
      /\ \E grown \in {"writing", "done"} : Seed(w, grown)
      /\ \E f \in Files : live' = [live EXCEPT ![w] = f]
      /\ UNCHANGED <<host, stage, partial, rotations>>
      /\ named' \in {named, named \cup {w}}
  <2>1. "torn" \in Files /\ "newer" \in Files /\ live = [live EXCEPT ![w] = live[w]] /\ live[w] \in Files
    BY <1>1 DEF FileTypes, Files, Saves
  <2> QED
    BY <1>1, <2>1 DEF SeedSave, Seeded
<1>3. FileTypes'
  BY <1>1, <1>2 DEF FileTypes, Seed
<1>4. LateTimer => w \notin reported
  BY <1>2 DEF SaveInv, FilesSound, FileInv
<1>5. LateTimer => FileInv(w)'
  BY <1>2, <1>4 DEF FileInv
<1>6. \A v \in World \ {w} : /\ stage'[v] = stage[v] /\ seed'[v] = seed[v] /\ live'[v] = live[v]
                             /\ partial'[v] = partial[v] /\ rotations'[v] = rotations[v]
                             /\ v \in reported' <=> v \in reported
  BY <1>1, <1>2 DEF Seed, FileTypes
<1> QED
  BY <1>1, <1>2, <1>3, <1>5, <1>6, OwnFiles

(* A save, from the write to the receipt, and a rename that fails. *)
LEMMA SaveSteps ==
    ASSUME SaveInv, NEW w \in World,
           \/ WritePartial(w) \/ Verify(w) \/ RotateLive(w) \/ PlacePartial(w)
           \/ PruneAndReport(w) \/ RenameFails(w)
    PROVE  FilesSound' /\ stage' \in [World -> Step] /\ FileTypes'
<1>1. FileTypes /\ stage \in [World -> Step] /\ (LateTimer => FileInv(w))
  BY DEF SaveInv, WorldSaveTypeOK, FileTypes, Step, FilesSound
<1>0. host' = host /\ seed' = seed
  BY DEF WritePartial, Verify, RotateLive, PlacePartial, PruneAndReport, RenameFails
<1>11. LateTimer => seed[w] = "done"
  <2>1. stage[w] \in {"write", "verify", "rotate", "place", "prune"}
    BY DEF WritePartial, Verify, RotateLive, PlacePartial, PruneAndReport, RenameFails
  <2> QED
    BY <1>1, <2>1 DEF FileInv
<1> DEFINE
      Others == \A v \in World \ {w} :
                  /\ stage'[v] = stage[v] /\ seed'[v] = seed[v] /\ live'[v] = live[v]
                  /\ partial'[v] = partial[v] /\ rotations'[v] = rotations[v]
                  /\ v \in reported' <=> v \in reported
      Done == FileTypes' /\ stage' \in [World -> Step] /\ (LateTimer => FileInv(w)') /\ Others
<1>2. ASSUME Done PROVE FilesSound' /\ stage' \in [World -> Step] /\ FileTypes'
  BY <1>0, <1>2, OwnFiles
<1>3. ASSUME NEW step, Stage(w, step) PROVE /\ step \in Step => stage' \in [World -> Step]
                                            /\ stage'[w] = step
                                            /\ \A v \in World \ {w} : stage'[v] = stage[v]
  BY <1>1, <1>3 DEF Stage
<1>4. ASSUME WritePartial(w) PROVE Done
  <2>1. PICK file \in {"newer", "torn"} : partial' = [partial EXCEPT ![w] = file]
    BY <1>4 DEF WritePartial
  <2>2. Stage(w, "verify") /\ UNCHANGED <<live, rotations, reported, named>>
    BY <1>4 DEF WritePartial
  <2>3. stage' \in [World -> Step] /\ stage'[w] = "verify" /\ Others
    BY <1>0, <1>1, <1>3, <2>1, <2>2 DEF FileTypes, Step
  <2>4. LateTimer => FileInv(w)'
    BY <1>0, <1>1, <1>11, <2>2, <2>3 DEF FileInv, Kept
  <2> QED
    BY <1>0, <1>1, <2>1, <2>2, <2>3, <2>4 DEF FileTypes
<1>5. ASSUME GiveUp(w), UNCHANGED <<live, rotations, reported, named>> PROVE Done
  BY <1>0, <1>1, <1>3, <1>5, <1>11, AfterSaveIsPlain DEF GiveUp, FileTypes, FileInv, Kept, Step, Plain
<1>6. ASSUME Verify(w), partial[w] = "newer" PROVE Done
  <2>1. Stage(w, "rotate") /\ UNCHANGED <<live, partial, rotations, reported, named>>
    BY <1>6 DEF Verify
  <2>2. stage' \in [World -> Step] /\ stage'[w] = "rotate" /\ Others
    BY <1>0, <1>3, <2>1 DEF Step
  <2>3. LateTimer => FileInv(w)'
    BY <1>0, <1>1, <1>11, <1>6, <2>1, <2>2 DEF FileInv, Kept
  <2> QED
    BY <1>0, <1>1, <2>1, <2>2, <2>3 DEF FileTypes
<1>7. ASSUME RotateLive(w), live[w] = "none" PROVE Done
  <2>1. /\ Stage(w, "place") /\ UNCHANGED <<live, partial, rotations, reported, named>>
        /\ stage[w] = "rotate"
    BY <1>7 DEF RotateLive
  <2>2. stage' \in [World -> Step] /\ stage'[w] = "place" /\ Others
    BY <1>0, <1>3, <2>1 DEF Step
  <2>3. LateTimer => FileInv(w)'
    BY <1>0, <1>1, <1>11, <2>1, <2>2 DEF FileInv, Kept
  <2> QED
    BY <1>0, <1>1, <2>1, <2>2, <2>3 DEF FileTypes
<1>8. ASSUME RotateLive(w), live[w] # "none" PROVE Done
  <2>1. PICK saves \in Rotated(w) : rotations' = [rotations EXCEPT ![w] = saves]
    BY <1>8 DEF RotateLive
  <2>2. /\ saves \in Seq(Files \ {"none"}) /\ saves # <<>>
        /\ saves[Len(saves)] = live[w]
    BY <1>1, <1>8, RotatedProperties DEF FileTypes
  <2>3. /\ live' = [live EXCEPT ![w] = "none"] /\ Stage(w, "place")
        /\ UNCHANGED <<partial, reported, named>> /\ stage[w] = "rotate"
    BY <1>8 DEF RotateLive
  <2>4. FileTypes'
    BY <1>0, <1>1, <2>1, <2>2, <2>3 DEF FileTypes, Files, Saves
  <2>5. live'[w] = "none" /\ rotations'[w] = saves
    BY <1>1, <2>1, <2>3 DEF FileTypes
  <2>6. stage' \in [World -> Step] /\ stage'[w] = "place" /\ Others
    BY <1>0, <1>1, <1>3, <2>1, <2>3 DEF FileTypes, Step
  <2>7. LateTimer => FileInv(w)'
    BY <1>0, <1>1, <1>11, <1>8, <2>2, <2>3, <2>5, <2>6 DEF FileInv, Kept
  <2> QED
    BY <2>4, <2>6, <2>7
<1>9. ASSUME PlacePartial(w) PROVE Done
  <2>1. LateTimer => partial[w] = "newer"
    BY <1>1, <1>9 DEF PlacePartial, FileInv
  <2>2. /\ Stage(w, "prune") /\ live' = [live EXCEPT ![w] = partial[w]]
        /\ partial' = [partial EXCEPT ![w] = "none"] /\ named' = named \cup {w}
        /\ UNCHANGED <<rotations, reported>>
    BY <1>9 DEF PlacePartial
  <2>3. stage' \in [World -> Step] /\ stage'[w] = "prune" /\ Others
    BY <1>0, <1>1, <1>3, <2>2 DEF FileTypes, Step
  <2>4. LateTimer => live'[w] = "newer"
    BY <1>1, <2>1, <2>2 DEF FileTypes
  <2>5. LateTimer => FileInv(w)'
    BY <1>0, <1>11, <2>3, <2>4 DEF FileInv, Kept, Good
  <2>6. partial[w] \in Files
    BY <1>1 DEF FileTypes, Files, Saves
  <2> QED
    BY <1>0, <1>1, <2>2, <2>3, <2>5, <2>6 DEF FileTypes
<1>10. ASSUME PruneAndReport(w) PROVE Done
  <2>1. LateTimer => live[w] = "newer"
    BY <1>1, <1>10 DEF PruneAndReport, FileInv
  <2> DEFINE now == IF live[w] = "newer" THEN "kept" ELSE live[w]
  <2> DEFINE stay == Newest(rotations[w], SaveKeep)
             aged == [i \in DOMAIN stay |-> Aged(stay[i])]
  <2>2. aged \in Seq(Files \ {"none"})
    BY <1>1, NewestType, AgedSeqType, SaveKeepAssumption DEF FileTypes
  <2>3. /\ rotations' = [rotations EXCEPT ![w] = aged] /\ live' = [live EXCEPT ![w] = now]
        /\ reported' = reported \cup {w} /\ Stage(w, AfterSave(w)) /\ UNCHANGED <<partial, named>>
    BY <1>10 DEF PruneAndReport
  <2>7. now \in Files /\ (LateTimer => now = "kept")
    BY <1>1, <2>1 DEF FileTypes, Files, Saves
  <2> HIDE DEF aged, now
  <2>4. FileTypes'
    BY <1>0, <1>1, <2>2, <2>3, <2>7 DEF FileTypes
  <2>5. live'[w] = now /\ stage'[w] \in Plain /\ stage' \in [World -> Step]
    BY <1>1, <1>3, <2>3, AfterSaveIsPlain DEF FileTypes, Plain
  <2>6. LateTimer => FileInv(w)'
    BY <1>0, <1>11, <2>5, <2>7 DEF FileInv, Kept, Good, Plain
  <2> QED
    BY <1>0, <1>1, <1>3, <2>3, <2>4, <2>5, <2>6 DEF FileTypes
<1> QED
  BY <1>2, <1>4, <1>5, <1>6, <1>7, <1>8, <1>9, <1>10 DEF Verify, RenameFails

LEMMA SaveInvStep == SaveInv /\ [WorldSaveNext]_worldSaveVars => SaveInv'
<1> SUFFICES ASSUME SaveInv, [WorldSaveNext]_worldSaveVars PROVE SaveInv'
  OBVIOUS
<1>1. LockHeld' /\ host' = host
  BY LockHeldStep DEF SaveInv, WorldSaveTypeOK
<1>2. GateTypes'
  BY GateTypesStep DEF SaveInv, WorldSaveTypeOK, GateTypes
<1>3. FilesSound' /\ stage' \in [World -> Step] /\ FileTypes'
  <2>1. CASE UNCHANGED worldSaveVars
    BY <2>1
       DEF SaveInv, WorldSaveTypeOK, FilesSound, LateTimer, FileInv, Kept, FileTypes, Step,
           worldSaveVars, saveFiles
  <2>2. ASSUME NEW w \in World, MainThread(w)
        PROVE  FilesSound' /\ stage' \in [World -> Step] /\ FileTypes'
    BY <2>2, LockSteps, SeedSteps, SaveSteps DEF MainThread
  <2> QED
    BY <2>1, <2>2, LockSteps, StartStep, SaveSteps DEF WorldSaveNext
<1>4. WorldSaveTypeOK'
  BY <1>1, <1>2, <1>3 DEF SaveInv, WorldSaveTypeOK, FileTypes, GateTypes, Step
<1> QED
  BY <1>1, <1>3, <1>4 DEF SaveInv

(* The save a game last reported is on disk in one piece, on a machine on     *)
(* which no save comes due before a new world is seeded; and no two games     *)
(* hold the save lock, on one on which an open file keeps others out, as on   *)
(* Windows: whatever fails, dies or is broken on the way (Rotate,             *)
(* TryAcquireLock).                                                           *)
THEOREM SavesStaySound == WorldSaveSpec => []SavesAreSound
<1>1. SaveInv => SavesAreSound
  <2> SUFFICES ASSUME SaveInv PROVE SavesAreSound
    OBVIOUS
  <2>1. "shared" \notin host => OneHoldsTheLock
    BY DEF SaveInv, LockHeld, OneHoldsTheLock
  <2>2. ASSUME LateTimer, NEW w \in reported
        PROVE  \E file \in {"kept", "newer"} : live[w] = file \/ file \in ToSet(rotations[w])
    <3>1. w \in World /\ Kept(w) /\ rotations[w] \in Seq(Files \ {"none"})
      BY <2>2 DEF SaveInv, WorldSaveTypeOK, FilesSound, FileInv
    <3>2. rotations[w] # <<>> => rotations[w][Len(rotations[w])] \in ToSet(rotations[w])
      <4>1. rotations[w] # <<>> => Len(rotations[w]) \in DOMAIN rotations[w]
        BY <3>1
      <4> QED
        BY <4>1 DEF ToSet
    <3> QED
      BY <3>1, <3>2 DEF Kept, Good
  <2> QED
    BY <2>1, <2>2 DEF SavesAreSound, ReceiptOnDisk, LateTimer
<1> QED
  BY SaveInvInit, SaveInvStep, <1>1, PTL DEF WorldSaveSpec

(* Every step and file of a save stays what the code can make of it. *)
THEOREM SaveTypes == WorldSaveSpec => []WorldSaveTypeOK
<1>1. SaveInv => WorldSaveTypeOK
  BY DEF SaveInv
<1> QED
  BY SaveInvInit, SaveInvStep, <1>1, PTL DEF WorldSaveSpec

-----------------------------------------------------------------------------
(* The mod's socket. *)

TransportScalars ==
    /\ armed \in BOOLEAN /\ handshake \in {"no", "newest", "earlier"} /\ mutations \in Nat
    /\ beat \in {"no", "due", "late"} /\ sending \in BOOLEAN
    /\ phase \in {"idle", "top", "dial", "drain", "signal", "up", "count", "announce", "pump", "end", "gone", "event"}
    /\ started \in BOOLEAN /\ cancelled \in BOOLEAN /\ chained \in BOOLEAN
    /\ halted \in BOOLEAN /\ connected \in BOOLEAN
    /\ session \in {"none", "up", "lost", "refused", "fatal"}

(* No send loop outlives its connection, and the queue keeps its bound. *)
TransportQueues ==
    /\ inbound \in Seq(Event)
    /\ outbound \in Seq(OutFrame) /\ Len(outbound) <= MaxQueuedFrames /\ permits \in Nat
    /\ waiters \in Seq({"newest"})
    /\ first \in OutFrame \cup {NoFrame}

(* What was queued before the socket opened goes before anything is sent. *)
AllFresh == \A i \in DOMAIN outbound : outbound[i].fresh
FreshOnceOpen == phase # "drain" => AllFresh

(* The flag is up only between the socket's opening and its end; and the *)
(* newest connection is learned of only once its loops run.              *)
FlagIsTrue == connected => phase \in {"count", "announce", "pump", "end"}
NewestUnknown ==
    phase = "announce" =>
        /\ handshake # "newest" /\ beat # "due"
        /\ \A i \in DOMAIN inbound : inbound[i].type = "connected" => ~inbound[i].newest

(* While the sidecar waits for a first frame of a connection that is     *)
(* counted, a heartbeat of it is not next, and none is decided on before *)
(* the answer to that connection is queued.                              *)
AwaitsFirst == session = "up" /\ first = NoFrame
NextIsNoHeartbeat ==
    phase \in {"announce", "pump"} /\ AwaitsFirst =>
        /\ outbound = <<>> \/ Head(outbound).kind # "heartbeat"
        /\ phase = "pump" /\ (handshake = "newest" \/ beat = "due") => outbound # <<>>

TransportInv ==
    /\ TransportScalars /\ TransportQueues
    /\ FreshOnceOpen /\ FlagIsTrue /\ NewestUnknown /\ NextIsNoHeartbeat /\ FirstIsItsOwn

LEMMA TransportInvInit == TransportInit => TransportInv
<1> SUFFICES ASSUME TransportInit PROVE TransportInv
  OBVIOUS
<1>1. TransportScalars
  BY DEF TransportInit, TransportScalars
<1>2. TransportQueues
  BY QueueAssumption DEF TransportInit, TransportQueues
<1>3. FreshOnceOpen /\ FlagIsTrue /\ NewestUnknown /\ NextIsNoHeartbeat /\ FirstIsItsOwn
  BY DEF TransportInit, FreshOnceOpen, AllFresh, FlagIsTrue, NewestUnknown, NextIsNoHeartbeat,
         FirstIsItsOwn, NoFrame
<1> QED
  BY <1>1, <1>2, <1>3 DEF TransportInv

(* Sending fills the queue from behind, with frames of this socket. *)
LEMMA SendFramesProperties ==
    ASSUME TransportQueues, NEW n \in Nat, NEW kind \in {"config", "answer"} \cup Heartbeats,
           SendFrames(n, kind)
    PROVE  /\ outbound' \in Seq(OutFrame) /\ Len(outbound') <= MaxQueuedFrames /\ permits' \in Nat
           /\ AllFresh => AllFresh'
           /\ outbound # <<>> => outbound' # <<>> /\ Head(outbound') = Head(outbound)
           /\ outbound = <<>> => outbound' = <<>> \/ Head(outbound').kind = kind
           /\ n > 0 => outbound' # <<>>
<1> DEFINE sent == IF n < Room THEN n ELSE Room
           more == [i \in 1..sent |-> Fresh(kind)]
<1>1. outbound \in Seq(OutFrame) /\ Len(outbound) <= MaxQueuedFrames /\ permits \in Nat
      /\ Len(outbound) \in Nat /\ MaxQueuedFrames \in Nat \ {0}
  BY QueueAssumption DEF TransportQueues
<1>2. sent \in Nat /\ sent <= MaxQueuedFrames - Len(outbound)
      /\ (n > 0 /\ Len(outbound) = 0 => sent > 0)
  BY <1>1 DEF Room
<1>3. outbound' = outbound \o more /\ permits' = permits + sent
  BY DEF SendFrames
<1> HIDE DEF sent
<1>4. Fresh(kind) \in OutFrame /\ Fresh(kind).fresh /\ Fresh(kind).kind = kind
  BY DEF Fresh, OutFrame, Heartbeats
<1>5. more \in Seq(OutFrame) /\ Len(more) = sent /\ \A i \in 1..sent : more[i] = Fresh(kind)
  BY <1>2, <1>4
<1> HIDE DEF more
<1>6. /\ outbound' \in Seq(OutFrame) /\ Len(outbound') = Len(outbound) + sent
      /\ \A i \in 1..Len(outbound) + sent : outbound'[i] =
            IF i <= Len(outbound) THEN outbound[i] ELSE more[i - Len(outbound)]
  BY <1>1, <1>3, <1>5, ConcatProperties
<1>7. Len(outbound') <= MaxQueuedFrames /\ permits' \in Nat
  BY <1>1, <1>2, <1>3, <1>6
<1>8. AllFresh => AllFresh'
  <2> SUFFICES ASSUME AllFresh, NEW i \in DOMAIN outbound' PROVE outbound'[i].fresh
    BY DEF AllFresh
  <2>1. i \in 1..Len(outbound) + sent
    BY <1>6
  <2>2. CASE i <= Len(outbound)
    BY <1>1, <1>6, <2>1, <2>2 DEF AllFresh
  <2>3. CASE ~(i <= Len(outbound))
    <3>1. i - Len(outbound) \in 1..sent
      BY <1>1, <1>2, <2>1, <2>3
    <3> QED
      BY <1>4, <1>5, <1>6, <2>1, <2>3, <3>1
  <2> QED
    BY <2>2, <2>3
<1>9. outbound # <<>> => outbound' # <<>> /\ Head(outbound') = Head(outbound)
  <2> SUFFICES ASSUME outbound # <<>> PROVE outbound' # <<>> /\ Head(outbound') = Head(outbound)
    OBVIOUS
  <2>1. Len(outbound) >= 1
    BY <1>1
  <2>2. Len(outbound') >= 1 /\ outbound'[1] = outbound[1]
    BY <1>1, <1>2, <1>6, <2>1
  <2> QED
    BY <1>1, <1>6, <2>1, <2>2
<1>10. outbound = <<>> => outbound' = <<>> \/ Head(outbound').kind = kind
  <2> SUFFICES ASSUME outbound = <<>>, outbound' # <<>> PROVE Head(outbound').kind = kind
    OBVIOUS
  <2>1. Len(outbound) = 0 /\ Len(outbound') = sent /\ 1 \in 1..sent
    BY <1>2, <1>6
  <2>2. outbound'[1] = more[1]
    BY <1>6, <2>1
  <2> QED
    BY <1>4, <1>5, <1>6, <2>1, <2>2
<1>11. n > 0 => outbound' # <<>>
  BY <1>1, <1>2, <1>6
<1> QED
  BY <1>6, <1>7, <1>8, <1>9, <1>10, <1>11


LEMMA TransportScalarsStep ==
    ASSUME TransportScalars, TransportQueues, [TransportNext]_transportVars PROVE TransportScalars'
<1>1. ASSUME Arm \/ Disarm \/ ApplyAndAnswer \/ PumpHeartbeat \/ SendHeartbeat
      PROVE  TransportScalars'
  <2>1. armed' \in BOOLEAN /\ mutations' \in Nat /\ handshake' \in {"no", "newest", "earlier"}
        /\ beat' \in {"no", "due", "late"} /\ sending' = sending /\ session' = session
    <3>1. CASE Arm
      BY <3>1 DEF Arm, TransportScalars, signalVars, socketVars
    <3>2. CASE Disarm
      BY <3>2 DEF Disarm, TransportScalars, socketVars
    <3>3. CASE ApplyAndAnswer
      BY <3>3 DEF ApplyAndAnswer, TransportScalars, socketVars
    <3>4. CASE PumpHeartbeat
      BY <3>4 DEF PumpHeartbeat, BeatDue, TransportScalars, signalVars, socketVars
    <3>5. CASE SendHeartbeat
      BY <3>5 DEF SendHeartbeat, TransportScalars, socketVars
    <3> QED
      BY <1>1, <3>1, <3>2, <3>3, <3>4, <3>5
  <2>2. /\ phase' \in {phase, "top"} /\ started' \in BOOLEAN /\ cancelled' \in BOOLEAN
        /\ chained' \in BOOLEAN /\ halted' \in BOOLEAN /\ connected' \in BOOLEAN
    BY <1>1 DEF Arm, Disarm, ApplyAndAnswer, PumpHeartbeat, BeatDue, SendHeartbeat,
                TransportScalars, StartDialling, StopDialling, Begun, Stopped, runVars
  <2> QED
    BY <2>1, <2>2 DEF TransportScalars
<1>2. ASSUME TakeEvent PROVE TransportScalars'
  <2>1. armed' = armed /\ mutations' \in Nat /\ handshake' \in {"no", "newest", "earlier"}
        /\ beat' = beat /\ sending' = sending /\ session' = session
    <3>1. CASE TakeConnected
      BY <3>1 DEF TakeConnected, TransportScalars, socketVars
    <3>2. CASE TakeDisconnected
      BY <3>2 DEF TakeDisconnected, TransportScalars, signalVars, socketVars
    <3>3. CASE TakeFrame
      <4>0. mutations \in Nat
        BY DEF TransportScalars
      <4>3. mutations' = mutations + 1
        BY <3>3 DEF TakeFrame
      <4>1. mutations' \in Nat
        BY <4>0, <4>3
      <4>2. UNCHANGED <<armed, handshake, beat, sending, session>>
        BY <3>3 DEF TakeFrame, signalVars, socketVars
      <4> QED
        BY <4>1, <4>2 DEF TransportScalars
    <3>4. CASE TakeBadFrame
      BY <3>4 DEF TakeBadFrame, TransportScalars, gameVars, signalVars, socketVars
    <3> QED
      BY <1>2, <3>1, <3>2, <3>3, <3>4 DEF TakeEvent
  <2>2. halted' \in BOOLEAN
    <3>1. ASSUME TakeDisconnected PROVE halted' \in BOOLEAN
      <4>1. Head(inbound) \in Event /\ Head(inbound).type = "disconnected"
        BY <3>1 DEF TakeDisconnected, TransportQueues
      <4>2. Head(inbound).fatal \in BOOLEAN
        BY <4>1 DEF Event
      <4> QED
        BY <3>1, <4>2 DEF TakeDisconnected, TransportScalars
    <3> QED
      BY <1>2, <3>1 DEF TakeEvent, TakeConnected, TakeFrame, TakeBadFrame, StartDialling, Begun,
                        StopAndStart, TransportScalars
  <2>3. /\ phase' \in {phase, "top"} /\ started' \in BOOLEAN /\ cancelled' \in BOOLEAN
        /\ chained' \in BOOLEAN /\ connected' \in BOOLEAN
    BY <1>2 DEF TakeEvent, TakeConnected, TakeDisconnected, TakeFrame, TakeBadFrame,
                TransportScalars, StartDialling, StopDialling, StopAndStart, Begun, Stopped, runVars
  <2> QED
    BY <2>1, <2>2, <2>3 DEF TransportScalars
<1>3. ASSUME DialTask PROVE TransportScalars'
  <2>1. CASE LoopTop
    BY <2>1 DEF LoopTop, TransportScalars, gameVars, signalVars, socketVars
  <2>2. CASE Dial
    BY <2>2 DEF Dial, TransportScalars, gameVars, signalVars, socketVars
  <2>3. CASE DrainQueue \/ DrainSignal
    BY <2>3 DEF DrainQueue, DrainSignal, TransportScalars, gameVars, signalVars, socketVars
  <2>4. CASE Up
    BY <2>4 DEF Up, TransportScalars, gameVars, signalVars, socketVars
  <2>8. CASE Count
    <3>1. handshake' \in {"no", "newest", "earlier"} /\ beat' \in {"no", "due", "late"}
      BY <2>8 DEF Count, TransportScalars
    <3>2. phase' = "announce"
          /\ UNCHANGED <<armed, mutations, sending, started, cancelled, chained, halted, connected,
                         session>>
      BY <2>8 DEF Count, signalVars, socketVars
    <3> QED
      BY <3>1, <3>2 DEF TransportScalars
  <2>5. CASE Announce \/ PumpEnds
    BY <2>5 DEF Announce, PumpEnds, TransportScalars, gameVars, socketVars
  <2>6. CASE Unflag
    BY <2>6 DEF Unflag, TransportScalars, gameVars, signalVars, socketVars
  <2>7. CASE CloseSocket
    BY <2>7 DEF CloseSocket, TransportScalars, gameVars, signalVars
  <2> QED
    BY <1>3, <2>1, <2>2, <2>3, <2>4, <2>5, <2>6, <2>7, <2>8 DEF DialTask
<1>4. ASSUME SendLoop \/ SidecarDelivers \/ SidecarCloses PROVE TransportScalars'
  <2>1. CASE Wake
    <3>1. sending' = TRUE \/ sending' = sending
      BY <2>1 DEF Wake
    <3>2. UNCHANGED <<gameVars, inbound, runVars, halted, connected, socketVars>>
      BY <2>1 DEF Wake
    <3>3. sending' \in BOOLEAN
      BY <3>1 DEF TransportScalars
    <3>4. /\ armed' = armed /\ handshake' = handshake /\ mutations' = mutations /\ phase' = phase
          /\ started' = started /\ cancelled' = cancelled /\ chained' = chained
          /\ halted' = halted /\ connected' = connected /\ session' = session /\ beat' = beat
      BY <3>2 DEF gameVars, runVars, socketVars
    <3> QED
      BY <3>3, <3>4 DEF TransportScalars
  <2>2. CASE SendOne
    BY <2>2 DEF SendOne, TransportScalars, gameVars, runVars, signalVars, socketVars
  <2>3. CASE SendLoopParks
    BY <2>3 DEF SendLoopParks, TransportScalars, gameVars, runVars, signalVars, socketVars
  <2>4. CASE SidecarDelivers
    <3>1. UNCHANGED <<gameVars, signalVars, runVars, halted, connected, socketVars>>
      BY <2>4 DEF SidecarDelivers
    <3> QED
      BY <3>1 DEF TransportScalars, gameVars, runVars, signalVars, socketVars
  <2>5. CASE SidecarCloses
    <3>1. session' \in {"lost", "fatal"} /\ UNCHANGED <<gameVars, signalVars, runVars, halted, connected>>
      BY <2>5 DEF SidecarCloses
    <3> QED
      BY <3>1 DEF TransportScalars, gameVars, runVars, signalVars
  <2> QED
    BY <1>4, <2>1, <2>2, <2>3, <2>4, <2>5 DEF SendLoop
<1>5. CASE UNCHANGED transportVars
  BY <1>5 DEF transportVars, TransportScalars, gameVars, runVars, signalVars, socketVars
<1> QED
  BY <1>1, <1>2, <1>3, <1>4, <1>5 DEF TransportNext

LEMMA FrameDropped ==
    ASSUME outbound \in Seq(OutFrame), Len(outbound) <= MaxQueuedFrames,
           outbound' = IF outbound = <<>> THEN <<>> ELSE Tail(outbound)
    PROVE  /\ outbound' \in Seq(OutFrame) /\ Len(outbound') <= MaxQueuedFrames
           /\ AllFresh => AllFresh'
<1>1. CASE outbound = <<>>
  BY <1>1 DEF AllFresh
<1>2. CASE outbound # <<>>
  <2>1. /\ outbound' \in Seq(OutFrame) /\ Len(outbound') = Len(outbound) - 1
        /\ \A i \in 1..Len(outbound') : outbound'[i] = outbound[i + 1]
    BY <1>2, HeadTailProperties
  <2>2. Len(outbound) \in Nat /\ MaxQueuedFrames \in Nat /\ DOMAIN outbound' = 1..Len(outbound')
        /\ DOMAIN outbound = 1..Len(outbound)
    BY <2>1, QueueAssumption
  <2>3. \A i \in DOMAIN outbound' : i + 1 \in DOMAIN outbound
    BY <2>1, <2>2
  <2> QED
    BY <2>1, <2>2, <2>3 DEF AllFresh
<1> QED
  BY <1>1, <1>2

LEMMA OneQueued ==
    ASSUME TransportQueues, NEW kind \in {"config", "answer"} \cup Heartbeats, SendFrames(1, kind)
    PROVE  outbound' # <<>>
BY SendFramesProperties

(* The rows of the queues an action leaves alone. *)
LEMMA InboundTail ==
    ASSUME TransportQueues, inbound # <<>>, inbound' = Tail(inbound)
    PROVE  /\ inbound' \in Seq(Event) /\ Head(inbound) \in Event
           /\ NewestUnknown => \A i \in DOMAIN inbound' :
                 phase = "announce" /\ inbound'[i].type = "connected" => ~inbound'[i].newest
           /\ NewestUnknown /\ phase = "announce" /\ Head(inbound).type = "connected" => ~Head(inbound).newest
<1>1. inbound \in Seq(Event)
  BY DEF TransportQueues
<1>2. /\ inbound' \in Seq(Event) /\ Len(inbound') = Len(inbound) - 1 /\ Head(inbound) \in Event
      /\ \A i \in 1..Len(inbound') : inbound'[i] = inbound[i + 1]
  BY <1>1, HeadTailProperties
<1>3. Len(inbound) \in Nat /\ Len(inbound) >= 1 /\ DOMAIN inbound = 1..Len(inbound)
      /\ DOMAIN inbound' = 1..Len(inbound') /\ Head(inbound) = inbound[1]
  BY <1>1, <1>2
<1>4. \A i \in DOMAIN inbound' : i + 1 \in DOMAIN inbound
  BY <1>2, <1>3
<1>5. 1 \in DOMAIN inbound
  BY <1>3
<1> QED
  BY <1>2, <1>3, <1>4, <1>5 DEF NewestUnknown

LEMMA InboundEarlier ==
    ASSUME TransportQueues, inbound' = [i \in DOMAIN inbound |-> Earlier(inbound[i])]
    PROVE  /\ inbound' \in Seq(Event)
           /\ \A i \in DOMAIN inbound' : inbound'[i].type = "connected" => ~inbound'[i].newest
<1>1. inbound \in Seq(Event) /\ DOMAIN inbound = 1..Len(inbound) /\ Len(inbound) \in Nat
      /\ \A i \in 1..Len(inbound) : inbound[i] \in Event
  BY DEF TransportQueues
<1>2. \A e \in Event : Earlier(e) \in Event /\ (Earlier(e).type = "connected" => ~Earlier(e).newest)
  BY DEF Event, Earlier
<1>3. inbound' \in Seq(Event) /\ DOMAIN inbound' = 1..Len(inbound)
      /\ \A i \in 1..Len(inbound) : inbound'[i] = Earlier(inbound[i])
  BY <1>1, <1>2
<1> QED
  BY <1>1, <1>2, <1>3

LEMMA OutboundMissed ==
    ASSUME TransportQueues, outbound' = [i \in DOMAIN outbound |-> Missed(outbound[i])]
    PROVE  /\ outbound' \in Seq(OutFrame) /\ Len(outbound') <= MaxQueuedFrames
           /\ AllFresh => AllFresh'
           /\ outbound' = <<>> \/ Head(outbound').kind # "heartbeat"
<1>1. outbound \in Seq(OutFrame) /\ DOMAIN outbound = 1..Len(outbound) /\ Len(outbound) \in Nat
      /\ Len(outbound) <= MaxQueuedFrames /\ \A i \in 1..Len(outbound) : outbound[i] \in OutFrame
  BY DEF TransportQueues
<1>2. \A f \in OutFrame :
        Missed(f) \in OutFrame /\ Missed(f).fresh = f.fresh /\ Missed(f).kind # "heartbeat"
  BY DEF OutFrame, Heartbeats, Missed
<1>3. outbound' \in Seq(OutFrame) /\ DOMAIN outbound' = 1..Len(outbound)
      /\ Len(outbound') = Len(outbound)
      /\ \A i \in 1..Len(outbound) : outbound'[i] = Missed(outbound[i])
  BY <1>1, <1>2
<1>4. AllFresh => AllFresh'
  BY <1>1, <1>2, <1>3 DEF AllFresh
<1>5. ASSUME outbound' # <<>> PROVE Head(outbound').kind # "heartbeat"
  <2>1. 1 \in 1..Len(outbound) /\ Head(outbound') = outbound'[1]
    BY <1>1, <1>3, <1>5
  <2> QED
    BY <1>1, <1>2, <1>3, <2>1
<1> QED
  BY <1>1, <1>3, <1>4, <1>5

(* The game thread's steps. *)
LEMMA GameSteps ==
    ASSUME TransportInv, TransportScalars',
           Arm \/ Disarm \/ TakeEvent \/ ApplyAndAnswer \/ PumpHeartbeat \/ SendHeartbeat
    PROVE  TransportInv'
<1>0. /\ TransportScalars /\ TransportQueues /\ FreshOnceOpen /\ FlagIsTrue
      /\ NewestUnknown /\ NextIsNoHeartbeat /\ FirstIsItsOwn
  BY DEF TransportInv
<1>1. UNCHANGED <<first, session, waiters>>
  BY DEF Arm, Disarm, TakeEvent, TakeConnected, TakeDisconnected, TakeFrame, TakeBadFrame,
         ApplyAndAnswer, PumpHeartbeat, BeatDue, SendHeartbeat, signalVars, socketVars
(* What is queued. *)
<1>2. \/ UNCHANGED <<outbound, permits>>
      \/ \E n \in Nat, kind \in {"config", "answer", "late heartbeat"} : SendFrames(n, kind)
      \/ beat = "due" /\ SendFrames(1, "heartbeat")
  <2>1. mutations \in Nat /\ 1 \in Nat
    BY <1>0 DEF TransportScalars
  <2> QED
    BY <2>1 DEF Arm, Disarm, TakeEvent, TakeConnected, TakeDisconnected, TakeFrame, TakeBadFrame,
                ApplyAndAnswer, PumpHeartbeat, BeatDue, SendHeartbeat, signalVars
<1>3. /\ outbound' \in Seq(OutFrame) /\ Len(outbound') <= MaxQueuedFrames /\ permits' \in Nat
      /\ AllFresh => AllFresh'
      /\ outbound # <<>> => outbound' # <<>> /\ Head(outbound') = Head(outbound)
  BY <1>0, <1>2, SendFramesProperties DEF TransportQueues, AllFresh, Heartbeats
<1>4. ASSUME outbound = <<>>, outbound' # <<>>
      PROVE  Head(outbound').kind # "heartbeat" \/ beat = "due"
  <2>1. ASSUME NEW n \in Nat, NEW kind \in {"config", "answer", "late heartbeat"},
               SendFrames(n, kind)
        PROVE  Head(outbound').kind = kind
    BY <1>0, <1>4, <2>1, SendFramesProperties DEF Heartbeats
  <2>2. CASE UNCHANGED <<outbound, permits>>
    BY <1>4, <2>2
  <2>3. CASE \E n \in Nat, kind \in {"config", "answer", "late heartbeat"} : SendFrames(n, kind)
    <3>1. PICK n \in Nat, kind \in {"config", "answer", "late heartbeat"} : SendFrames(n, kind)
      BY <2>3
    <3>2. Head(outbound').kind = kind
      BY <2>1, <3>1
    <3> QED
      BY <3>2
  <2>4. CASE beat = "due"
    BY <2>4
  <2> QED
    BY <1>2, <2>2, <2>3, <2>4
(* What is known of connections. *)
<1>5. phase' = phase \/ phase' = "top"
  BY DEF Arm, Disarm, TakeEvent, TakeConnected, TakeDisconnected, TakeFrame, TakeBadFrame,
         ApplyAndAnswer, PumpHeartbeat, BeatDue, SendHeartbeat, StartDialling, StopDialling,
         StopAndStart, Begun, Stopped, runVars
<1>6. phase' # phase => phase = "idle"
  BY DEF Arm, Disarm, TakeEvent, TakeConnected, TakeDisconnected, TakeFrame, TakeBadFrame,
         ApplyAndAnswer, PumpHeartbeat, BeatDue, SendHeartbeat, StartDialling, StopDialling,
         StopAndStart, Begun, Stopped, runVars
<1>7. connected' => connected
  BY DEF Arm, Disarm, TakeEvent, TakeConnected, TakeDisconnected, TakeFrame, TakeBadFrame,
         ApplyAndAnswer, PumpHeartbeat, BeatDue, SendHeartbeat, StartDialling, StopDialling,
         StopAndStart, Stopped
<1>8. /\ inbound' \in Seq(Event)
      /\ phase = "announce" => \A i \in DOMAIN inbound' : inbound'[i].type = "connected" => ~inbound'[i].newest
  <2>1. CASE inbound' = inbound
    BY <1>0, <2>1 DEF TransportQueues, NewestUnknown
  <2>2. CASE inbound # <<>> /\ inbound' = Tail(inbound)
    BY <1>0, <2>2, InboundTail
  <2> QED
    BY <2>1, <2>2
       DEF Arm, Disarm, TakeEvent, TakeConnected, TakeDisconnected, TakeFrame, TakeBadFrame,
                      ApplyAndAnswer, PumpHeartbeat, BeatDue, SendHeartbeat, gameVars
<1>9. ASSUME handshake' = "newest", handshake # "newest"
      PROVE  outbound' # <<>> /\ phase # "announce"
  <2>1. TakeConnected /\ armed /\ Head(inbound).newest
    BY <1>9 DEF Arm, Disarm, TakeEvent, TakeConnected, TakeDisconnected, TakeFrame, TakeBadFrame,
                ApplyAndAnswer, PumpHeartbeat, BeatDue, SendHeartbeat, gameVars
  <2>2. outbound' # <<>>
    BY <1>0, <2>1, OneQueued DEF TakeConnected
  <2>3. phase # "announce"
    BY <1>0, <2>1, InboundTail DEF TakeConnected
  <2> QED
    BY <2>2, <2>3
<1>13. beat' = "due" => beat = "due" \/ handshake = "newest"
  BY DEF Arm, Disarm, TakeEvent, TakeConnected, TakeDisconnected, TakeFrame, TakeBadFrame,
         ApplyAndAnswer, PumpHeartbeat, BeatDue, SendHeartbeat, gameVars
<1>10. TransportQueues'
  BY <1>0, <1>1, <1>3, <1>8 DEF TransportQueues
<1>11. FreshOnceOpen' /\ FlagIsTrue' /\ NewestUnknown' /\ FirstIsItsOwn'
  BY <1>0, <1>1, <1>3, <1>5, <1>6, <1>7, <1>8, <1>9, <1>13
     DEF FreshOnceOpen, FlagIsTrue, NewestUnknown, FirstIsItsOwn
<1>12. NextIsNoHeartbeat'
  <2> SUFFICES ASSUME phase' \in {"announce", "pump"}, AwaitsFirst'
               PROVE  /\ outbound' = <<>> \/ Head(outbound').kind # "heartbeat"
                      /\ phase' = "pump" /\ (handshake' = "newest" \/ beat' = "due") =>
                           outbound' # <<>>
    BY DEF NextIsNoHeartbeat
  <2>1. phase' = phase /\ AwaitsFirst
    BY <1>1, <1>5 DEF AwaitsFirst
  <2>2. /\ outbound = <<>> \/ Head(outbound).kind # "heartbeat"
        /\ phase = "pump" /\ (handshake = "newest" \/ beat = "due") => outbound # <<>>
    BY <1>0, <2>1 DEF NextIsNoHeartbeat
  <2>3. ~(outbound = <<>> /\ beat = "due")
    BY <1>0, <2>1, <2>2 DEF NewestUnknown
  <2> QED
    BY <1>3, <1>4, <1>9, <1>13, <2>1, <2>2, <2>3
<1> QED
  BY <1>0, <1>10, <1>11, <1>12 DEF TransportInv

(* The dial task's steps. *)
LEMMA DialSteps ==
    ASSUME TransportInv, TransportScalars', DialTask
    PROVE  TransportInv'
<1>0. /\ TransportScalars /\ TransportQueues /\ FreshOnceOpen /\ FlagIsTrue
      /\ NewestUnknown /\ NextIsNoHeartbeat /\ FirstIsItsOwn
  BY DEF TransportInv
<1>1. CASE LoopTop \/ Unflag
  <2>1. UNCHANGED <<inbound, outbound, permits, waiters, first, session, handshake>>
        /\ phase' \notin {"drain", "announce", "pump"}
        /\ phase \notin {"drain"} /\ ~connected'
    BY <1>0, <1>1 DEF LoopTop, Unflag, FlagIsTrue, gameVars, signalVars, socketVars
  <2> QED
    BY <1>0, <2>1
       DEF TransportInv, TransportQueues, FreshOnceOpen, AllFresh, FlagIsTrue, NewestUnknown,
           NextIsNoHeartbeat, FirstIsItsOwn
<1>2. CASE Dial
  <2>1. UNCHANGED <<inbound, permits, waiters, connected>> /\ ~connected /\ phase' \in {"top", "drain"}
    BY <1>0, <1>2 DEF Dial, FlagIsTrue, signalVars
  <2>2. \/ UNCHANGED <<outbound, first>> /\ phase' = "top"
        \/ outbound' = Stale(outbound) /\ first' = NoFrame /\ phase' = "drain"
    BY <1>2 DEF Dial, socketVars
  <2>3. outbound' \in Seq(OutFrame) /\ Len(outbound') <= MaxQueuedFrames
    <3>1. outbound \in Seq(OutFrame) /\ Len(outbound) <= MaxQueuedFrames
      BY <1>0 DEF TransportQueues
    <3>2. \A f \in OutFrame : [f EXCEPT !.fresh = FALSE] \in OutFrame
      BY DEF OutFrame
    <3>3. Stale(outbound) \in Seq(OutFrame) /\ Len(Stale(outbound)) = Len(outbound)
      <4>1. DOMAIN outbound = 1..Len(outbound) /\ Len(outbound) \in Nat
            /\ \A i \in 1..Len(outbound) : [outbound[i] EXCEPT !.fresh = FALSE] \in OutFrame
        BY <3>1, <3>2
      <4>2. Stale(outbound) = [i \in 1..Len(outbound) |-> [outbound[i] EXCEPT !.fresh = FALSE]]
        BY <4>1 DEF Stale
      <4> QED
        BY <4>1, <4>2
    <3> QED
      BY <2>2, <3>1, <3>3
  <2>4. TransportQueues' /\ FirstIsItsOwn'
    BY <1>0, <2>1, <2>2, <2>3 DEF TransportQueues, FirstIsItsOwn, NoFrame
  <2>5. FreshOnceOpen'
    BY <1>0, <1>2, <2>2 DEF Dial, FreshOnceOpen, AllFresh
  <2> QED
    BY <2>1, <2>4, <2>5 DEF TransportInv, FlagIsTrue, NewestUnknown, NextIsNoHeartbeat
<1>3. CASE DrainQueue
  <2>1. /\ outbound' = <<>> /\ phase' = "signal" /\ phase = "drain" /\ ~connected
        /\ UNCHANGED <<inbound, permits, waiters, first, session, handshake, connected>>
    BY <1>0, <1>3 DEF DrainQueue, FlagIsTrue, gameVars, signalVars, socketVars
  <2>2. TransportQueues'
    BY <1>0, <2>1, QueueAssumption DEF TransportQueues
  <2> QED
    BY <1>0, <2>1, <2>2
       DEF TransportInv, FreshOnceOpen, AllFresh, FlagIsTrue, NewestUnknown, NextIsNoHeartbeat, FirstIsItsOwn
<1>4. CASE DrainSignal
  <2>1. /\ phase = "signal" /\ phase' = "up" /\ permits' = 0 /\ ~connected
        /\ UNCHANGED <<inbound, outbound, waiters, first, session, handshake, connected>>
    BY <1>0, <1>4 DEF DrainSignal, FlagIsTrue, gameVars, socketVars
  <2> QED
    BY <1>0, <2>1
       DEF TransportInv, TransportQueues, FreshOnceOpen, AllFresh, FlagIsTrue, NewestUnknown,
           NextIsNoHeartbeat, FirstIsItsOwn, AwaitsFirst
<1>5. CASE Up
  <2>1. /\ phase = "up" /\ phase' = "count"
        /\ UNCHANGED <<inbound, outbound, permits, waiters, first, session>>
    BY <1>5 DEF Up, signalVars, socketVars
  <2> QED
    BY <1>0, <2>1
       DEF TransportInv, TransportQueues, FreshOnceOpen, AllFresh, FlagIsTrue, NewestUnknown,
           NextIsNoHeartbeat, FirstIsItsOwn
<1>9. CASE Count
  <2>1. /\ phase = "count" /\ phase' = "announce" /\ handshake' # "newest" /\ beat' # "due"
        /\ UNCHANGED <<permits, waiters, first, session>>
    BY <1>9 DEF Count, Free, signalVars, socketVars
  <2>2. /\ inbound' \in Seq(Event)
        /\ \A i \in DOMAIN inbound' : inbound'[i].type = "connected" => ~inbound'[i].newest
    BY <1>0, <1>9, InboundEarlier DEF Count
  <2>3. /\ outbound' \in Seq(OutFrame) /\ Len(outbound') <= MaxQueuedFrames
        /\ AllFresh => AllFresh'
        /\ outbound' = <<>> \/ Head(outbound').kind # "heartbeat"
    BY <1>0, <1>9, OutboundMissed DEF Count
  <2>4. TransportQueues'
    BY <1>0, <2>1, <2>2, <2>3 DEF TransportQueues
  <2>5. FreshOnceOpen' /\ FlagIsTrue' /\ NewestUnknown' /\ FirstIsItsOwn'
    BY <1>0, <2>1, <2>2, <2>3 DEF FreshOnceOpen, FlagIsTrue, NewestUnknown, FirstIsItsOwn
  <2>6. NextIsNoHeartbeat'
    BY <2>1, <2>3 DEF NextIsNoHeartbeat
  <2> QED
    BY <2>4, <2>5, <2>6 DEF TransportInv
<1>6. CASE Announce
  <2>1. /\ phase = "announce" /\ phase' = "pump" /\ handshake # "newest" /\ beat # "due"
        /\ UNCHANGED <<outbound, permits, first, session, handshake, beat, connected>>
    BY <1>0, <1>6 DEF Announce, NewestUnknown, gameVars, socketVars
  <2>2. inbound' \in Seq(Event)
    <3>1. [type |-> "connected", newest |-> TRUE] \in Event
      BY DEF Event
    <3> QED
      BY <1>0, <1>6, <3>1 DEF Announce, TransportQueues
  <2>3. waiters' \in Seq({"newest"})
    BY <1>0, <1>6 DEF Announce, TransportQueues
  <2>4. TransportQueues'
    BY <1>0, <2>1, <2>2, <2>3 DEF TransportQueues
  <2> QED
    BY <1>0, <2>1, <2>4
       DEF TransportInv, FreshOnceOpen, AllFresh, FlagIsTrue, NewestUnknown, NextIsNoHeartbeat,
           FirstIsItsOwn, AwaitsFirst
<1>7. CASE PumpEnds
  <2>1. /\ phase = "pump" /\ phase' = "end" /\ waiters' = <<>>
        /\ UNCHANGED <<inbound, outbound, permits, first, session, handshake>>
    BY <1>7 DEF PumpEnds, gameVars, socketVars
  <2>2. TransportQueues'
    BY <1>0, <2>1 DEF TransportQueues
  <2> QED
    BY <1>0, <2>1, <2>2
       DEF TransportInv, FreshOnceOpen, AllFresh, FlagIsTrue, NewestUnknown, NextIsNoHeartbeat, FirstIsItsOwn
<1>8. CASE CloseSocket
  <2>1. /\ phase \in {"event", "gone"} /\ phase' = "top" /\ ~connected
        /\ UNCHANGED <<outbound, permits, waiters, first, connected>>
    BY <1>0, <1>8 DEF CloseSocket, FlagIsTrue, signalVars
  <2>2. inbound' \in Seq(Event)
    <3>1. [type |-> "disconnected", fatal |-> session = "fatal"] \in Event
      BY DEF Event
    <3> QED
      BY <1>0, <1>8, <3>1 DEF CloseSocket, TransportQueues
  <2>3. TransportQueues'
    BY <1>0, <2>1, <2>2 DEF TransportQueues
  <2> QED
    BY <1>0, <2>1, <2>3
       DEF TransportInv, FreshOnceOpen, AllFresh, FlagIsTrue, NewestUnknown, NextIsNoHeartbeat, FirstIsItsOwn
<1> QED
  BY <1>1, <1>2, <1>3, <1>4, <1>5, <1>6, <1>7, <1>8, <1>9 DEF DialTask

(* The send loop's, and the sidecar's. *)
LEMMA SocketSteps ==
    ASSUME TransportInv, TransportScalars', SendLoop \/ SidecarDelivers \/ SidecarCloses
    PROVE  TransportInv'
<1>0. /\ TransportScalars /\ TransportQueues /\ FreshOnceOpen /\ FlagIsTrue
      /\ NewestUnknown /\ NextIsNoHeartbeat /\ FirstIsItsOwn
  BY DEF TransportInv
<1>1. CASE Wake
  <2>1. /\ waiters \in Seq({"newest"}) /\ waiters # <<>>
        /\ permits \in Nat /\ permits > 0
    BY <1>0, <1>1 DEF Wake, TransportQueues
  <2>2. Head(waiters) = "newest" /\ Tail(waiters) \in Seq({"newest"}) /\ permits - 1 \in Nat
    BY <2>1, HeadTailProperties
  <2>3. /\ UNCHANGED <<inbound, outbound, phase, handshake, beat, connected, first, session>>
        /\ waiters' = Tail(waiters) /\ permits' = permits - 1
    BY <1>1, <2>2 DEF Wake, gameVars, runVars, socketVars
  <2> QED
    BY <1>0, <2>2, <2>3
       DEF TransportInv, TransportQueues, FreshOnceOpen, AllFresh, FlagIsTrue, NewestUnknown,
           NextIsNoHeartbeat, FirstIsItsOwn, AwaitsFirst
<1>2. CASE SendOne
  <2>1. /\ phase = "pump" /\ outbound # <<>> /\ outbound' = Tail(outbound)
        /\ UNCHANGED <<inbound, permits, waiters, phase, handshake, beat, connected>>
    BY <1>2 DEF SendOne, gameVars, signalVars, runVars
  <2>2. outbound \in Seq(OutFrame)
    BY <1>0 DEF TransportQueues
  <2>3. /\ outbound' \in Seq(OutFrame) /\ Len(outbound') <= MaxQueuedFrames
        /\ AllFresh => AllFresh'
    BY <1>0, <2>1, FrameDropped DEF TransportQueues
  <2>4. Head(outbound) \in OutFrame /\ Head(outbound).fresh
    <3>1. 1 \in DOMAIN outbound /\ Head(outbound) = outbound[1]
      BY <2>1, <2>2
    <3> QED
      BY <1>0, <2>1, <2>2, <3>1 DEF FreshOnceOpen, AllFresh
  <2>5. CASE AwaitsFirst
    <3>1. first' = Head(outbound)
      BY <1>2, <2>5 DEF SendOne, AwaitsFirst
    <3>2. Head(outbound).kind # "heartbeat"
      BY <1>0, <2>1, <2>5 DEF NextIsNoHeartbeat
    <3>3. first' # NoFrame
      <4>1. Head(outbound).kind # "none" /\ NoFrame.kind = "none"
        BY <2>4 DEF OutFrame, Heartbeats, NoFrame
      <4> QED
        BY <3>1, <4>1
    <3>4. TransportQueues' /\ FirstIsItsOwn'
      BY <1>0, <2>1, <2>3, <2>4, <3>1, <3>2 DEF TransportQueues, FirstIsItsOwn
    <3>5. FreshOnceOpen' /\ FlagIsTrue' /\ NewestUnknown'
      BY <1>0, <2>1, <2>3 DEF FreshOnceOpen, FlagIsTrue, NewestUnknown
    <3>6. NextIsNoHeartbeat'
      BY <3>3 DEF NextIsNoHeartbeat, AwaitsFirst
    <3> QED
      BY <3>4, <3>5, <3>6 DEF TransportInv
  <2>6. CASE ~AwaitsFirst
    <3>1. UNCHANGED <<first, session>>
      BY <1>2, <2>6 DEF SendOne, AwaitsFirst, socketVars
    <3> QED
      BY <1>0, <2>1, <2>3, <2>6, <3>1
         DEF TransportInv, TransportQueues, FreshOnceOpen, FlagIsTrue, NewestUnknown,
             NextIsNoHeartbeat, FirstIsItsOwn, AwaitsFirst
  <2> QED
    BY <2>5, <2>6
<1>3. CASE SendLoopParks
  <2>1. /\ UNCHANGED <<inbound, outbound, permits, phase, handshake, beat, connected, first, session>>
        /\ waiters' = Append(waiters, "newest")
    BY <1>3 DEF SendLoopParks, gameVars, runVars, socketVars
  <2>2. waiters' \in Seq({"newest"})
    BY <1>0, <2>1 DEF TransportQueues
  <2> QED
    BY <1>0, <2>1, <2>2
       DEF TransportInv, TransportQueues, FreshOnceOpen, AllFresh, FlagIsTrue, NewestUnknown,
           NextIsNoHeartbeat, FirstIsItsOwn, AwaitsFirst
<1>4. CASE SidecarDelivers
  <2>1. /\ phase = "pump"
        /\ UNCHANGED <<outbound, permits, waiters, phase, handshake, beat, connected, first, session>>
        /\ \E e \in {[type |-> "migrate in"], [type |-> "bad"]} : inbound' = Append(inbound, e)
    BY <1>4 DEF SidecarDelivers, gameVars, signalVars, runVars, socketVars
  <2>2. inbound' \in Seq(Event)
    <3>1. [type |-> "migrate in"] \in Event /\ [type |-> "bad"] \in Event
      BY DEF Event
    <3>2. PICK e \in Event : inbound' = Append(inbound, e)
      BY <2>1, <3>1
    <3>3. inbound \in Seq(Event)
      BY <1>0 DEF TransportQueues
    <3> QED
      BY <3>2, <3>3
  <2> QED
    BY <1>0, <2>1, <2>2
       DEF TransportInv, TransportQueues, FreshOnceOpen, AllFresh, FlagIsTrue, NewestUnknown,
           NextIsNoHeartbeat, FirstIsItsOwn, AwaitsFirst
<1>5. CASE SidecarCloses
  <2>1. /\ session' # "up"
        /\ UNCHANGED <<inbound, outbound, permits, waiters, phase, handshake, beat, connected, first>>
    BY <1>5 DEF SidecarCloses, gameVars, signalVars, runVars
  <2> QED
    BY <1>0, <2>1
       DEF TransportInv, TransportQueues, FreshOnceOpen, AllFresh, FlagIsTrue, NewestUnknown,
           NextIsNoHeartbeat, FirstIsItsOwn, AwaitsFirst
<1> QED
  BY <1>1, <1>2, <1>3, <1>4, <1>5 DEF SendLoop

(* The first frame a sidecar reads on a connection was queued for that      *)
(* connection, and is no heartbeat decided on since the connection was      *)
(* counted: nothing left from an earlier socket, no send loop of one, and   *)
(* no flag or event that came late puts it there (RunAsync, DrainOutbound,  *)
(* PumpHeartbeat).  A heartbeat decided on before may be it.                *)
THEOREM FirstFrameIsItsOwn == TransportSpec => []FirstIsItsOwn
<1>1. TransportInv /\ [TransportNext]_transportVars => TransportInv'
  <2> SUFFICES ASSUME TransportInv, [TransportNext]_transportVars PROVE TransportInv'
    OBVIOUS
  <2>1. TransportScalars'
    BY TransportScalarsStep DEF TransportInv
  <2>2. CASE UNCHANGED transportVars
    BY <2>1, <2>2
       DEF transportVars, gameVars, runVars, socketVars, signalVars, TransportInv, TransportQueues,
           FreshOnceOpen, AllFresh, FlagIsTrue, NewestUnknown, NextIsNoHeartbeat, FirstIsItsOwn, AwaitsFirst
  <2> QED
    BY <2>1, <2>2, GameSteps, DialSteps, SocketSteps DEF TransportNext
<1>2. TransportInv => FirstIsItsOwn
  BY DEF TransportInv
<1> QED
  BY TransportInvInit, <1>1, <1>2, PTL DEF TransportSpec

-----------------------------------------------------------------------------
(* The sidecar's writer. *)

(* The writer is between choosing the paced queue and having a frame of it. *)
Pacing == {"pace", "take", "sleep", "boundary", "takeFirst", "held"}

WriterTypes ==
    /\ out \in Nat /\ paced \in Nat /\ inFlight \in {0, 1}
    /\ stopping \in BOOLEAN /\ drainPaced \in BOOLEAN /\ due \in BOOLEAN
    /\ burst \in Nat /\ passed \in Nat

(* Once a close drops the paced queue, it stays dropped; what waits in it   *)
(* until then cannot go, and the writer does not turn to it again.          *)
PacedWaits ==
    /\ at \in Pacing => paced > 0 \/ Dropping
    /\ at = "try" => \/ call = "none"
                     \/ call = "second" /\ (paced > 0 \/ Dropping)

(* No more ordinary frames have passed a paced one than the loop counted,   *)
(* and those the loop counts stop at the burst.                             *)
Counted ==
    /\ passed <= ControlBurst
    /\ at = "top" /\ ~Dropping => passed <= burst /\ burst <= ControlBurst /\ (paced = 0 => burst = 0)
    /\ at = "look" => passed <= burst /\ burst <= ControlBurst
    /\ at \in {"try", "write", "wait"} =>
         passed <= burst /\ (burst < ControlBurst \/ (Dropping /\ paced = 0))
    /\ ~Dropping =>
         /\ at = "look" /\ paced = 0 => burst = 0
         /\ at = "wait" \/ (at = "try" /\ call = "none") => burst = 0

(* Between two slots nothing passes: what passed was counted and forgotten  *)
(* when the slot before was taken.                                          *)
ForgottenBetween ==
    /\ ~due /\ ~Dropping /\ at \notin {"take", "writePaced"} => passed = 0
    /\ at \in {"sleep", "boundary", "takeFirst", "held"} => passed = 0

(* How a connection ends. *)
EndsEmpty ==
    /\ drainPaced => stopping
    /\ inFlight = 1 => at \in {"writePaced", "both"}
    /\ at = "drain" => Dropping
    /\ at \in {"finish", "done"} /\ socket = "open" =>
         stopping /\ out = 0 /\ (drainPaced => paced = 0)

WriterInv == WriterTypes /\ PacedWaits /\ Counted /\ ForgottenBetween /\ EndsEmpty

LEMMA WriterInitInv == WriterInit => WriterInv
<1> SUFFICES ASSUME WriterInit PROVE WriterInv
  OBVIOUS
<1>1. 0 <= ControlBurst
  BY BurstAssumption
<1>2. WriterTypes
  BY DEF WriterInit, WriterTypes
<1>3. PacedWaits
  BY DEF WriterInit, PacedWaits, Pacing
<1>4. Counted
  BY <1>1 DEF WriterInit, Counted
<1>5. ForgottenBetween
  BY DEF WriterInit, ForgottenBetween
<1>6. EndsEmpty
  BY DEF WriterInit, EndsEmpty
<1> QED
  BY <1>2, <1>3, <1>4, <1>5, <1>6 DEF WriterInv
(* The callers, and the schedule. *)
LEMMA CallersKeepWriterInv ==
    ASSUME WriterInv,
           \/ Send \/ TrySendPaced \/ Close \/ ClosePaced \/ Deadline
           \/ CloseNow \/ PeerStopsReading \/ SlotComes \/ TakenElsewhere
    PROVE  WriterInv'
<1>0. WriterTypes /\ PacedWaits /\ Counted /\ ForgottenBetween /\ EndsEmpty
  BY DEF WriterInv
<1>1. CASE Send
  <2>1. WriterTypes'
    <3>1. out' \in Nat /\ paced' \in Nat /\ inFlight' \in {0, 1}
          /\ burst' \in Nat /\ passed' \in Nat
      BY <1>0, <1>1
         DEF WriterTypes, PacedWaits, Pacing,
             Send, Dropping, Goes, ForceClose, Dies, GivesUp, Passes, queues, closing, shared,
             writer, pacer
    <3>2. stopping' \in BOOLEAN /\ drainPaced' \in BOOLEAN /\ due' \in BOOLEAN
      BY <1>0, <1>1
         DEF WriterTypes,
             Send, Dropping, Goes, ForceClose, Dies, GivesUp, Passes, queues, closing, shared,
             writer, pacer
    <3> QED
      BY <3>1, <3>2 DEF WriterTypes
  <2>2. PacedWaits'
    BY <1>0, <1>1, BurstAssumption
       DEF WriterTypes, PacedWaits, EndsEmpty, Pacing,
           Send, Dropping, Goes, ForceClose, Dies, GivesUp, Passes, queues, closing, shared,
           writer, pacer
  <2>3. Counted'
    BY <1>0, <1>1, BurstAssumption
       DEF WriterTypes, PacedWaits, Counted, ForgottenBetween, EndsEmpty, Pacing,
           Send, Dropping, Goes, ForceClose, Dies, GivesUp, Passes, queues, closing, shared,
           writer, pacer
  <2>4. ForgottenBetween'
    BY <1>0, <1>1, BurstAssumption
       DEF WriterTypes, PacedWaits, ForgottenBetween, Counted, EndsEmpty, Pacing,
           Send, Dropping, Goes, ForceClose, Dies, GivesUp, Passes, queues, closing, shared,
           writer, pacer
  <2>5. EndsEmpty'
    BY <1>0, <1>1, BurstAssumption
       DEF WriterTypes, EndsEmpty, PacedWaits, Pacing,
           Send, Dropping, Goes, ForceClose, Dies, GivesUp, Passes, queues, closing, shared,
           writer, pacer
  <2> QED
    BY <2>1, <2>2, <2>3, <2>4, <2>5 DEF WriterInv
<1>2. CASE TrySendPaced
  BY <1>2, BurstAssumption
     DEF TrySendPaced, WriterInv, WriterTypes, PacedWaits, Counted, ForgottenBetween, EndsEmpty, Pacing,
         Dropping, Goes, ForceClose, Dies, GivesUp, Passes, queues, closing, shared, writer, pacer
<1>3. CASE Close
  BY <1>3, BurstAssumption
     DEF Close, WriterInv, WriterTypes, PacedWaits, Counted, ForgottenBetween, EndsEmpty, Pacing,
         Dropping, Goes, ForceClose, Dies, GivesUp, Passes, queues, closing, shared, writer, pacer
<1>4. CASE ClosePaced
  BY <1>4, BurstAssumption
     DEF ClosePaced, WriterInv, WriterTypes, PacedWaits, Counted, ForgottenBetween, EndsEmpty, Pacing,
         Dropping, Goes, ForceClose, Dies, GivesUp, Passes, queues, closing, shared, writer, pacer
<1>5. CASE Deadline
  BY <1>5, BurstAssumption
     DEF Deadline, WriterInv, WriterTypes, PacedWaits, Counted, ForgottenBetween, EndsEmpty, Pacing,
         Dropping, Goes, ForceClose, Dies, GivesUp, Passes, queues, closing, shared, writer, pacer
<1>6. CASE CloseNow
  BY <1>6, BurstAssumption
     DEF CloseNow, WriterInv, WriterTypes, PacedWaits, Counted, ForgottenBetween, EndsEmpty, Pacing,
         Dropping, Goes, ForceClose, Dies, GivesUp, Passes, queues, closing, shared, writer, pacer
<1>7. CASE PeerStopsReading
  BY <1>7, BurstAssumption
     DEF PeerStopsReading, WriterInv, WriterTypes, PacedWaits, Counted, ForgottenBetween, EndsEmpty, Pacing,
         Dropping, Goes, ForceClose, Dies, GivesUp, Passes, queues, closing, shared, writer, pacer
<1>8. CASE SlotComes
  BY <1>8, BurstAssumption
     DEF SlotComes, WriterInv, WriterTypes, PacedWaits, Counted, ForgottenBetween, EndsEmpty, Pacing,
         Dropping, Goes, ForceClose, Dies, GivesUp, Passes, queues, closing, shared, writer, pacer
<1>9. CASE TakenElsewhere
  <2>1. WriterTypes'
    <3>1. out' \in Nat /\ paced' \in Nat /\ inFlight' \in {0, 1}
          /\ burst' \in Nat /\ passed' \in Nat
      BY <1>0, <1>9
         DEF WriterTypes, PacedWaits, Pacing,
             TakenElsewhere, Dropping, Goes, ForceClose, Dies, GivesUp, Passes, queues, closing, shared,
             writer, pacer
    <3>2. stopping' \in BOOLEAN /\ drainPaced' \in BOOLEAN /\ due' \in BOOLEAN
      BY <1>0, <1>9
         DEF WriterTypes,
             TakenElsewhere, Dropping, Goes, ForceClose, Dies, GivesUp, Passes, queues, closing, shared,
             writer, pacer
    <3> QED
      BY <3>1, <3>2 DEF WriterTypes
  <2>2. PacedWaits'
    BY <1>0, <1>9, BurstAssumption
       DEF WriterTypes, PacedWaits, EndsEmpty, Pacing,
           TakenElsewhere, Dropping, Goes, ForceClose, Dies, GivesUp, Passes, queues, closing, shared,
           writer, pacer
  <2>3. Counted'
    BY <1>0, <1>9, BurstAssumption
       DEF WriterTypes, PacedWaits, Counted, ForgottenBetween, EndsEmpty, Pacing,
           TakenElsewhere, Dropping, Goes, ForceClose, Dies, GivesUp, Passes, queues, closing, shared,
           writer, pacer
  <2>4. ForgottenBetween'
    BY <1>0, <1>9, BurstAssumption
       DEF WriterTypes, PacedWaits, ForgottenBetween, Counted, EndsEmpty, Pacing,
           TakenElsewhere, Dropping, Goes, ForceClose, Dies, GivesUp, Passes, queues, closing, shared,
           writer, pacer
  <2>5. EndsEmpty'
    BY <1>0, <1>9, BurstAssumption
       DEF WriterTypes, EndsEmpty, PacedWaits, Pacing,
           TakenElsewhere, Dropping, Goes, ForceClose, Dies, GivesUp, Passes, queues, closing, shared,
           writer, pacer
  <2> QED
    BY <2>1, <2>2, <2>3, <2>4, <2>5 DEF WriterInv
<1> QED
  BY <1>1, <1>2, <1>3, <1>4, <1>5, <1>6, <1>7, <1>8, <1>9

(* The writer's own steps. *)
LEMMA LoopKeepsWriterInv ==
    ASSUME WriterInv, writeLoop PROVE WriterInv'
<1>0. WriterTypes /\ PacedWaits /\ Counted /\ ForgottenBetween /\ EndsEmpty
  BY DEF WriterInv
<1>1. CASE Top
  BY <1>1, BurstAssumption
     DEF Top, WriterInv, WriterTypes, PacedWaits, Counted, ForgottenBetween, EndsEmpty, Pacing,
         Dropping, Goes, ForceClose, Dies, GivesUp, Passes, queues, closing, shared, writer, pacer
<1>2. CASE Look
  BY <1>2, BurstAssumption
     DEF Look, WriterInv, WriterTypes, PacedWaits, Counted, ForgottenBetween, EndsEmpty, Pacing,
         Dropping, Goes, ForceClose, Dies, GivesUp, Passes, queues, closing, shared, writer, pacer
<1>3. CASE Try
  BY <1>3, BurstAssumption
     DEF Try, WriterInv, WriterTypes, PacedWaits, Counted, ForgottenBetween, EndsEmpty, Pacing,
         Dropping, Goes, ForceClose, Dies, GivesUp, Passes, queues, closing, shared, writer, pacer
<1>4. CASE WriteOrdinary
  <2>1. WriterTypes'
    <3>1. out' \in Nat /\ paced' \in Nat /\ inFlight' \in {0, 1}
          /\ burst' \in Nat /\ passed' \in Nat
      BY <1>0, <1>4
         DEF WriterTypes, PacedWaits, Pacing,
             WriteOrdinary, Dropping, Goes, ForceClose, Dies, GivesUp, Passes, queues, closing, shared,
             writer, pacer
    <3>2. stopping' \in BOOLEAN /\ drainPaced' \in BOOLEAN /\ due' \in BOOLEAN
      BY <1>0, <1>4
         DEF WriterTypes,
             WriteOrdinary, Dropping, Goes, ForceClose, Dies, GivesUp, Passes, queues, closing, shared,
             writer, pacer
    <3> QED
      BY <3>1, <3>2 DEF WriterTypes
  <2>2. PacedWaits'
    BY <1>0, <1>4, BurstAssumption
       DEF WriterTypes, PacedWaits, EndsEmpty, Pacing,
           WriteOrdinary, Dropping, Goes, ForceClose, Dies, GivesUp, Passes, queues, closing, shared,
           writer, pacer
  <2>3. Counted'
    BY <1>0, <1>4, BurstAssumption
       DEF WriterTypes, PacedWaits, Counted, ForgottenBetween, EndsEmpty, Pacing,
           WriteOrdinary, Dropping, Goes, ForceClose, Dies, GivesUp, Passes, queues, closing, shared,
           writer, pacer
  <2>4. ForgottenBetween'
    BY <1>0, <1>4, BurstAssumption
       DEF WriterTypes, PacedWaits, ForgottenBetween, Counted, EndsEmpty, Pacing,
           WriteOrdinary, Dropping, Goes, ForceClose, Dies, GivesUp, Passes, queues, closing, shared,
           writer, pacer
  <2>5. EndsEmpty'
    BY <1>0, <1>4, BurstAssumption
       DEF WriterTypes, EndsEmpty, PacedWaits, Pacing,
           WriteOrdinary, Dropping, Goes, ForceClose, Dies, GivesUp, Passes, queues, closing, shared,
           writer, pacer
  <2> QED
    BY <2>1, <2>2, <2>3, <2>4, <2>5 DEF WriterInv
<1>5. CASE Pace
  <2>1. WriterTypes'
    <3>1. out' \in Nat /\ paced' \in Nat /\ inFlight' \in {0, 1}
          /\ burst' \in Nat /\ passed' \in Nat
      BY <1>0, <1>5
         DEF WriterTypes, PacedWaits, Pacing,
             Pace, Dropping, Goes, ForceClose, Dies, GivesUp, Passes, queues, closing, shared,
             writer, pacer
    <3>2. stopping' \in BOOLEAN /\ drainPaced' \in BOOLEAN /\ due' \in BOOLEAN
      BY <1>0, <1>5
         DEF WriterTypes,
             Pace, Dropping, Goes, ForceClose, Dies, GivesUp, Passes, queues, closing, shared,
             writer, pacer
    <3> QED
      BY <3>1, <3>2 DEF WriterTypes
  <2>2. PacedWaits'
    BY <1>0, <1>5, BurstAssumption
       DEF WriterTypes, PacedWaits, EndsEmpty, Pacing,
           Pace, Dropping, Goes, ForceClose, Dies, GivesUp, Passes, queues, closing, shared,
           writer, pacer
  <2>3. Counted'
    BY <1>0, <1>5, BurstAssumption
       DEF WriterTypes, PacedWaits, Counted, ForgottenBetween, EndsEmpty, Pacing,
           Pace, Dropping, Goes, ForceClose, Dies, GivesUp, Passes, queues, closing, shared,
           writer, pacer
  <2>4. ForgottenBetween'
    BY <1>0, <1>5, BurstAssumption
       DEF WriterTypes, PacedWaits, ForgottenBetween, Counted, EndsEmpty, Pacing,
           Pace, Dropping, Goes, ForceClose, Dies, GivesUp, Passes, queues, closing, shared,
           writer, pacer
  <2>5. EndsEmpty'
    BY <1>0, <1>5, BurstAssumption
       DEF WriterTypes, EndsEmpty, PacedWaits, Pacing,
           Pace, Dropping, Goes, ForceClose, Dies, GivesUp, Passes, queues, closing, shared,
           writer, pacer
  <2> QED
    BY <2>1, <2>2, <2>3, <2>4, <2>5 DEF WriterInv
<1>6. CASE Take
  BY <1>6, BurstAssumption
     DEF Take, WriterInv, WriterTypes, PacedWaits, Counted, ForgottenBetween, EndsEmpty, Pacing,
         Dropping, Goes, ForceClose, Dies, GivesUp, Passes, queues, closing, shared, writer, pacer
<1>7. CASE WritePaced
  <2>1. WriterTypes'
    <3>1. out' \in Nat /\ paced' \in Nat /\ inFlight' \in {0, 1}
          /\ burst' \in Nat /\ passed' \in Nat
      BY <1>0, <1>7
         DEF WriterTypes, PacedWaits, Pacing,
             WritePaced, Dropping, Goes, ForceClose, Dies, GivesUp, Passes, queues, closing, shared,
             writer, pacer
    <3>2. stopping' \in BOOLEAN /\ drainPaced' \in BOOLEAN /\ due' \in BOOLEAN
      BY <1>0, <1>7
         DEF WriterTypes,
             WritePaced, Dropping, Goes, ForceClose, Dies, GivesUp, Passes, queues, closing, shared,
             writer, pacer
    <3> QED
      BY <3>1, <3>2 DEF WriterTypes
  <2>2. PacedWaits'
    BY <1>0, <1>7, BurstAssumption
       DEF WriterTypes, PacedWaits, EndsEmpty, Pacing,
           WritePaced, Dropping, Goes, ForceClose, Dies, GivesUp, Passes, queues, closing, shared,
           writer, pacer
  <2>3. Counted'
    BY <1>0, <1>7, BurstAssumption
       DEF WriterTypes, PacedWaits, Counted, ForgottenBetween, EndsEmpty, Pacing,
           WritePaced, Dropping, Goes, ForceClose, Dies, GivesUp, Passes, queues, closing, shared,
           writer, pacer
  <2>4. ForgottenBetween'
    BY <1>0, <1>7, BurstAssumption
       DEF WriterTypes, PacedWaits, ForgottenBetween, Counted, EndsEmpty, Pacing,
           WritePaced, Dropping, Goes, ForceClose, Dies, GivesUp, Passes, queues, closing, shared,
           writer, pacer
  <2>5. EndsEmpty'
    BY <1>0, <1>7, BurstAssumption
       DEF WriterTypes, EndsEmpty, PacedWaits, Pacing,
           WritePaced, Dropping, Goes, ForceClose, Dies, GivesUp, Passes, queues, closing, shared,
           writer, pacer
  <2> QED
    BY <2>1, <2>2, <2>3, <2>4, <2>5 DEF WriterInv
<1>8. CASE SleepOrdinary
  BY <1>8, BurstAssumption
     DEF SleepOrdinary, WriterInv, WriterTypes, PacedWaits, Counted, ForgottenBetween, EndsEmpty, Pacing,
         Dropping, Goes, ForceClose, Dies, GivesUp, Passes, queues, closing, shared, writer, pacer
<1>9. CASE SleepEnds
  BY <1>9, BurstAssumption
     DEF SleepEnds, WriterInv, WriterTypes, PacedWaits, Counted, ForgottenBetween, EndsEmpty, Pacing,
         Dropping, Goes, ForceClose, Dies, GivesUp, Passes, queues, closing, shared, writer, pacer
<1>10. CASE Boundary
  BY <1>10, BurstAssumption
     DEF Boundary, WriterInv, WriterTypes, PacedWaits, Counted, ForgottenBetween, EndsEmpty, Pacing,
         Dropping, Goes, ForceClose, Dies, GivesUp, Passes, queues, closing, shared, writer, pacer
<1>11. CASE TakeFirst
  BY <1>11, BurstAssumption
     DEF TakeFirst, WriterInv, WriterTypes, PacedWaits, Counted, ForgottenBetween, EndsEmpty, Pacing,
         Dropping, Goes, ForceClose, Dies, GivesUp, Passes, queues, closing, shared, writer, pacer
<1>12. CASE WriteHeld
  <2>1. WriterTypes'
    <3>1. out' \in Nat /\ paced' \in Nat /\ inFlight' \in {0, 1}
          /\ burst' \in Nat /\ passed' \in Nat
      BY <1>0, <1>12
         DEF WriterTypes, PacedWaits, Pacing,
             WriteHeld, Dropping, Goes, ForceClose, Dies, GivesUp, Passes, queues, closing, shared,
             writer, pacer
    <3>2. stopping' \in BOOLEAN /\ drainPaced' \in BOOLEAN /\ due' \in BOOLEAN
      BY <1>0, <1>12
         DEF WriterTypes,
             WriteHeld, Dropping, Goes, ForceClose, Dies, GivesUp, Passes, queues, closing, shared,
             writer, pacer
    <3> QED
      BY <3>1, <3>2 DEF WriterTypes
  <2>2. PacedWaits'
    BY <1>0, <1>12, BurstAssumption
       DEF WriterTypes, PacedWaits, EndsEmpty, Pacing,
           WriteHeld, Dropping, Goes, ForceClose, Dies, GivesUp, Passes, queues, closing, shared,
           writer, pacer
  <2>3. Counted'
    BY <1>0, <1>12, BurstAssumption
       DEF WriterTypes, PacedWaits, Counted, ForgottenBetween, EndsEmpty, Pacing,
           WriteHeld, Dropping, Goes, ForceClose, Dies, GivesUp, Passes, queues, closing, shared,
           writer, pacer
  <2>4. ForgottenBetween'
    BY <1>0, <1>12, BurstAssumption
       DEF WriterTypes, PacedWaits, ForgottenBetween, Counted, EndsEmpty, Pacing,
           WriteHeld, Dropping, Goes, ForceClose, Dies, GivesUp, Passes, queues, closing, shared,
           writer, pacer
  <2>5. EndsEmpty'
    BY <1>0, <1>12, BurstAssumption
       DEF WriterTypes, EndsEmpty, PacedWaits, Pacing,
           WriteHeld, Dropping, Goes, ForceClose, Dies, GivesUp, Passes, queues, closing, shared,
           writer, pacer
  <2> QED
    BY <2>1, <2>2, <2>3, <2>4, <2>5 DEF WriterInv
<1>13. CASE WriteBoth
  <2>1. WriterTypes'
    <3>1. out' \in Nat /\ paced' \in Nat /\ inFlight' \in {0, 1}
          /\ burst' \in Nat /\ passed' \in Nat
      BY <1>0, <1>13
         DEF WriterTypes, PacedWaits, Pacing,
             WriteBoth, Dropping, Goes, ForceClose, Dies, GivesUp, Passes, queues, closing, shared,
             writer, pacer
    <3>2. stopping' \in BOOLEAN /\ drainPaced' \in BOOLEAN /\ due' \in BOOLEAN
      BY <1>0, <1>13
         DEF WriterTypes,
             WriteBoth, Dropping, Goes, ForceClose, Dies, GivesUp, Passes, queues, closing, shared,
             writer, pacer
    <3> QED
      BY <3>1, <3>2 DEF WriterTypes
  <2>2. PacedWaits'
    BY <1>0, <1>13, BurstAssumption
       DEF WriterTypes, PacedWaits, EndsEmpty, Pacing,
           WriteBoth, Dropping, Goes, ForceClose, Dies, GivesUp, Passes, queues, closing, shared,
           writer, pacer
  <2>3. Counted'
    BY <1>0, <1>13, BurstAssumption
       DEF WriterTypes, PacedWaits, Counted, ForgottenBetween, EndsEmpty, Pacing,
           WriteBoth, Dropping, Goes, ForceClose, Dies, GivesUp, Passes, queues, closing, shared,
           writer, pacer
  <2>4. ForgottenBetween'
    BY <1>0, <1>13, BurstAssumption
       DEF WriterTypes, PacedWaits, ForgottenBetween, Counted, EndsEmpty, Pacing,
           WriteBoth, Dropping, Goes, ForceClose, Dies, GivesUp, Passes, queues, closing, shared,
           writer, pacer
  <2>5. EndsEmpty'
    BY <1>0, <1>13, BurstAssumption
       DEF WriterTypes, EndsEmpty, PacedWaits, Pacing,
           WriteBoth, Dropping, Goes, ForceClose, Dies, GivesUp, Passes, queues, closing, shared,
           writer, pacer
  <2> QED
    BY <2>1, <2>2, <2>3, <2>4, <2>5 DEF WriterInv
<1>14. CASE Wait
  BY <1>14, BurstAssumption
     DEF Wait, WriterInv, WriterTypes, PacedWaits, Counted, ForgottenBetween, EndsEmpty, Pacing,
         Dropping, Goes, ForceClose, Dies, GivesUp, Passes, queues, closing, shared, writer, pacer
<1>15. CASE WaitForced
  BY <1>15, BurstAssumption
     DEF WaitForced, WriterInv, WriterTypes, PacedWaits, Counted, ForgottenBetween, EndsEmpty, Pacing,
         Dropping, Goes, ForceClose, Dies, GivesUp, Passes, queues, closing, shared, writer, pacer
<1>16. CASE DrainQueues
  BY <1>16, BurstAssumption
     DEF DrainQueues, WriterInv, WriterTypes, PacedWaits, Counted, ForgottenBetween, EndsEmpty, Pacing,
         Dropping, Goes, ForceClose, Dies, GivesUp, Passes, queues, closing, shared, writer, pacer
<1>17. CASE Finish
  BY <1>17, BurstAssumption
     DEF Finish, WriterInv, WriterTypes, PacedWaits, Counted, ForgottenBetween, EndsEmpty, Pacing,
         Dropping, Goes, ForceClose, Dies, GivesUp, Passes, queues, closing, shared, writer, pacer
<1> QED
  BY <1>1, <1>2, <1>3, <1>4, <1>5, <1>6, <1>7, <1>8, <1>9, <1>10, <1>11, <1>12, <1>13,
     <1>14, <1>15, <1>16, <1>17
     DEF writeLoop

(* For every size of the queues and every burst: no more ordinary frames    *)
(* pass a paced one that is due than the burst allows, and a clean close    *)
(* keeps all that was accepted (writeLoop, Close, ClosePaced).              *)
THEOREM WriterKeepsItsFaith == WriterSpec => []WriterKeepsFaith
<1>1. WriterInit => WriterInv
  BY WriterInitInv
<1>2. WriterInv /\ [WriterNext]_writerVars => WriterInv'
  <2>1. ASSUME WriterInv, UNCHANGED writerVars PROVE WriterInv'
    BY <2>1
       DEF WriterInv, WriterTypes, PacedWaits, Counted, ForgottenBetween, EndsEmpty, Pacing,
           Dropping, writerVars, shared, queues, closing, writer, pacer
  <2> QED
    BY <2>1, CallersKeepWriterInv, LoopKeepsWriterInv DEF WriterNext
<1>3. WriterInv => WriterKeepsFaith
  BY DEF WriterInv, WriterTypes, Counted, EndsEmpty, WriterKeepsFaith, BurstBounded, CleanCloseKeeps
<1> QED
  BY <1>1, <1>2, <1>3, PTL DEF WriterSpec


-----------------------------------------------------------------------------
(* The pace of one connection. *)

(* Half of a ceiling's rate, for a quarter of a second. *)
Share(ceiling) == ceiling \div 8
Delay == IF MaxDelay = 0 THEN 1 ELSE MaxDelay

(* What a frame larger than the deferred share borrows.  That, the bucket, and *)
(* what it gains while a window lasts and the wire is late, is to be less than *)
(* the ceiling.                                                                *)
Owed(ceiling, cost) == IF cost <= Share(ceiling) THEN 0 ELSE cost - Share(ceiling)
Leaves(ceiling, cost) == (4 + Delay) * Share(ceiling) + Owed(ceiling, cost) + 1 <= ceiling
WindowFits == Leaves(FrameCeiling, 1) /\ \A w \in LargeSizes : Leaves(ByteCeiling, w)

LEMMA Shares ==
    ASSUME NEW c \in Nat, c > 0, c % 8 = 0
    PROVE  LET r == Share(c) IN
           /\ r \in Nat \ {0} /\ c = 8 * r
           /\ Capacity(c) = 2 * r /\ Reserve(c) = r /\ Rate(c) \div Second = r
<1> DEFINE r == Share(c)
<1>1. r \in Nat \ {0} /\ c = 8 * r
  BY DEF Share
<1>2. c \div 4 = 2 * r /\ c \div 2 = 4 * r
  BY <1>1
<1>3. (2 * r) \div 2 = r /\ (4 * r) \div 4 = r
  BY <1>1
<1>. QED
  BY <1>1, <1>2, <1>3 DEF Capacity, Reserve, Rate, Second

(* What a frame on the wire charges to a bucket and to a meter. *)
Sent == [weight : Nat \ {0}, late : Nat]
Frames == [f \in Sent |-> 1]
Bytes == [f \in Sent |-> f.weight]

(* What is on the wire from the k-th frame on. *)
Behind(cost, q, s) ==
    /\ s[Len(q) + 1] = 0
    /\ \A k \in 1..Len(q) : s[k] = cost[q[k]] + s[k + 1]

(* The frames behind one that is late were paid with what the bucket held and *)
(* gained since, and so was what the relay's window has counted.              *)
PaidFor(cost, r, q, tokens, age, counted, s) ==
    /\ \A k \in 1..Len(q) : s[k] + tokens <= r * (2 + q[k].late)
    /\ age < Second => counted + s[1] + tokens <= r * (2 + age + Delay)
Paid(cost, r, q, tokens, age, counted) ==
    \E s \in [1..Len(q) + 1 -> Nat] :
        Behind(cost, q, s) /\ PaidFor(cost, r, q, tokens, age, counted, s)

(* A frame is sent, and paid for. *)
LEMMA PaidSend ==
    ASSUME MaxDelay \in Nat, NEW cost \in [Sent -> Nat], NEW r \in Nat \ {0}, NEW q \in Seq(Sent),
           NEW tokens \in Int, NEW age \in 0..Second, NEW counted \in Nat, NEW f \in Sent,
           Paid(cost, r, q, tokens, age, counted), tokens <= 2 * r, f.late = 0
    PROVE  Paid(cost, r, Append(q, f), tokens - cost[f], age, counted)
<1>1. PICK s \in [1..Len(q) + 1 -> Nat] :
        Behind(cost, q, s) /\ PaidFor(cost, r, q, tokens, age, counted, s)
  BY DEF Paid
<1> DEFINE p == Append(q, f)
           w == cost[f]
           t == [k \in 1..Len(p) + 1 |-> IF k <= Len(q) + 1 THEN s[k] + w ELSE 0]
<1>2. Len(p) = Len(q) + 1 /\ Len(q) \in Nat /\ w \in Nat /\ Delay \in Nat
  BY DEF Delay
<1>3. \A k \in 1..Len(q) : p[k] = q[k] /\ q[k] \in Sent
  OBVIOUS
<1>4. p[Len(q) + 1] = f
  OBVIOUS
<1> HIDE DEF p
<1>5. t \in [1..Len(p) + 1 -> Nat]
  BY <1>2
<1>6. t[Len(p) + 1] = 0
  BY <1>2
<1>7. \A k \in 1..Len(q) + 1 : t[k] = s[k] + w
  BY <1>2
<1>8. s[Len(q) + 1] = 0
  BY <1>1 DEF Behind
<1> HIDE DEF t, w
<1>9. Behind(cost, p, t)
  <2>1. SUFFICES ASSUME NEW k \in 1..Len(p) PROVE t[k] = cost[p[k]] + t[k + 1]
    BY <1>6 DEF Behind
  <2>2. CASE k = Len(q) + 1
    BY SMTT(30), <2>2, <1>2, <1>4, <1>6, <1>7, <1>8 DEF w
  <2>3. CASE k \in 1..Len(q)
    <3>1. s[k] = cost[q[k]] + s[k + 1] /\ s[k + 1] \in Nat /\ cost[q[k]] \in Nat
      BY SMTT(30), <2>3, <1>1, <1>2, <1>3 DEF Behind
    <3>2. k \in 1..Len(q) + 1 /\ k + 1 \in 1..Len(q) + 1
      BY <2>3, <1>2
    <3>3. t[k] = s[k] + w /\ t[k + 1] = s[k + 1] + w
      BY <3>2, <1>7
    <3>4. p[k] = q[k]
      BY <2>3, <1>3
    <3>. QED  BY SMTT(30), <3>1, <3>3, <3>4, <1>2
  <2>. QED  BY <1>2, <2>2, <2>3
<1>10. PaidFor(cost, r, p, tokens - w, age, counted, t)
  <2>1. ASSUME NEW k \in 1..Len(p) PROVE t[k] + (tokens - w) <= r * (2 + p[k].late)
    <3>1. CASE k = Len(q) + 1
      <4>1. t[k] = w /\ p[k] = f
        BY SMTT(30), <3>1, <1>2, <1>4, <1>7, <1>8
      <4>2. r * (2 + p[k].late) = 2 * r
        BY <4>1
      <4>. QED  BY <4>1, <4>2, <1>2
    <3>2. CASE k \in 1..Len(q)
      <4>1. s[k] + tokens <= r * (2 + q[k].late)
        BY <3>2, <1>1 DEF PaidFor
      <4>2. k \in 1..Len(q) + 1
        BY <3>2, <1>2
      <4>3. s[k] \in Nat /\ t[k] = s[k] + w
        BY <4>2, <1>7
      <4>4. p[k] = q[k] /\ q[k] \in Sent
        BY <3>2, <1>3
      <4>5. q[k].late \in Nat
        BY <4>4 DEF Sent
      <4>6. r * (2 + q[k].late) \in Int
        BY SMTT(30), <4>5
      <4>. QED  BY SMTT(30), <4>1, <4>3, <4>4, <4>6, <1>2
    <3>. QED  BY SMTT(30), <1>2, <3>1, <3>2
  <2>2. ASSUME age < Second PROVE counted + t[1] + (tokens - w) <= r * (2 + age + Delay)
    <3>1. counted + s[1] + tokens <= r * (2 + age + Delay)
      BY <2>2, <1>1 DEF PaidFor
    <3>2. t[1] = s[1] + w /\ s[1] \in Nat /\ r * (2 + age + Delay) \in Int
      BY <1>2, <1>7 DEF Second
    <3>. QED  BY <3>1, <3>2, <1>2
  <2>. QED  BY <2>1, <2>2 DEF PaidFor
<1>. QED
  BY <1>5, <1>9, <1>10 DEF Paid, p, w

(* A frame reaches the meter: in the window under way, or the first of the next. *)
LEMMA PaidObserve ==
    ASSUME MaxDelay \in Nat, NEW cost \in [Sent -> Nat], NEW r \in Nat \ {0}, NEW q \in Seq(Sent),
           NEW tokens \in Int, NEW age \in 0..Second, NEW counted \in Nat,
           Paid(cost, r, q, tokens, age, counted), q # <<>>,
           \A k \in 1..Len(q) : q[k].late <= MaxDelay
    PROVE  IF age >= Second THEN Paid(cost, r, Tail(q), tokens, 0, cost[Head(q)])
           ELSE Paid(cost, r, Tail(q), tokens, age, counted + cost[Head(q)])
<1>1. PICK s \in [1..Len(q) + 1 -> Nat] :
        Behind(cost, q, s) /\ PaidFor(cost, r, q, tokens, age, counted, s)
  BY DEF Paid
<1> DEFINE p == Tail(q)
           t == [k \in 1..Len(p) + 1 |-> s[k + 1]]
<1>2. Len(q) \in Nat \ {0} /\ Len(p) = Len(q) - 1 /\ Delay \in Nat /\ MaxDelay <= Delay
  BY DEF Delay
<1>3. \A k \in 1..Len(q) : q[k] \in Sent /\ q[k].late \in Nat
  <2>1. \A k \in 1..Len(q) : q[k] \in Sent
    OBVIOUS
  <2>. QED  BY <2>1 DEF Sent
<1>4. \A k \in 1..Len(p) : p[k] = q[k + 1]
  OBVIOUS
<1>5. Head(q) = q[1]
  OBVIOUS
<1> HIDE DEF p
<1>6. t \in [1..Len(p) + 1 -> Nat]
  BY <1>2
<1>7. \A k \in 1..Len(p) + 1 : t[k] = s[k + 1] /\ t[k] \in Nat
  <2>1. SUFFICES ASSUME NEW k \in 1..Len(p) + 1 PROVE t[k] = s[k + 1] /\ t[k] \in Nat
    OBVIOUS
  <2>2. k + 1 \in 1..Len(q) + 1
    BY <1>2
  <2>. QED  BY <2>2
<1> HIDE DEF t
<1>8. Behind(cost, p, t)
  <2>1. t[Len(p) + 1] = 0
    BY <1>1, <1>2, <1>7 DEF Behind
  <2>2. ASSUME NEW k \in 1..Len(p) PROVE t[k] = cost[p[k]] + t[k + 1]
    <3>1. k \in 1..Len(p) + 1 /\ k + 1 \in 1..Len(p) + 1 /\ k + 1 \in 1..Len(q)
      BY <1>2
    <3>2. s[k + 1] = cost[q[k + 1]] + s[(k + 1) + 1]
      BY <3>1, <1>1 DEF Behind
    <3>3. t[k] = s[k + 1] /\ t[k + 1] = s[(k + 1) + 1] /\ p[k] = q[k + 1]
      BY <3>1, <1>4, <1>7
    <3>. QED  BY <3>2, <3>3
  <2>. QED  BY <2>1, <2>2 DEF Behind
<1>9. \A k \in 1..Len(p) : t[k] + tokens <= r * (2 + p[k].late)
  <2>1. SUFFICES ASSUME NEW k \in 1..Len(p) PROVE t[k] + tokens <= r * (2 + p[k].late)
    OBVIOUS
  <2>2. k \in 1..Len(p) + 1 /\ k + 1 \in 1..Len(q)
    BY SMTT(30), <1>2
  <2>. QED  BY <2>2, <1>1, <1>4, <1>7 DEF PaidFor
<1>10. s[1] = cost[q[1]] + t[1] /\ t[1] \in Nat /\ cost[q[1]] \in Nat
  <2>1. 1 \in 1..Len(q) /\ 1 \in 1..Len(p) + 1
    BY <1>2
  <2>2. s[1] = cost[q[1]] + s[1 + 1]
    BY <2>1, <1>1 DEF Behind
  <2>3. cost[q[1]] \in Nat
    BY <2>1, <1>3
  <2>. QED  BY <2>1, <2>2, <2>3, <1>7
<1>11. CASE age >= Second
  <2>1. s[1] + tokens <= r * (2 + q[1].late)
    BY <1>1, <1>2 DEF PaidFor
  <2>2. q[1].late \in Nat /\ q[1].late <= Delay
    <3>1. 1 \in 1..Len(q)
      BY <1>2
    <3>2. q[1].late \in Nat
      BY <3>1, <1>3
    <3>3. q[1].late <= MaxDelay
      BY <3>1
    <3>. QED  BY <3>2, <3>3, <1>2
  <2>3. r * (2 + q[1].late) <= r * (2 + 0 + Delay)
    BY SMTT(30), <2>2, <1>2
  <2>4. r * (2 + q[1].late) \in Int /\ r * (2 + 0 + Delay) \in Int
    BY SMTT(30), <2>2, <1>2
  <2>5. cost[q[1]] + t[1] + tokens <= r * (2 + 0 + Delay)
    BY <2>1, <2>3, <2>4, <1>10
  <2>6. PaidFor(cost, r, p, tokens, 0, cost[q[1]], t)
    BY <2>5, <1>9 DEF PaidFor
  <2>. QED  BY <2>6, <1>5, <1>6, <1>8, <1>11 DEF Paid, p
<1>12. CASE ~(age >= Second)
  <2>1. counted + s[1] + tokens <= r * (2 + age + Delay)
    BY <1>1, <1>12 DEF PaidFor, Second
  <2>2. r * (2 + age + Delay) \in Int
    <3>1. age \in Nat
      BY DEF Second
    <3>2. 2 + age + Delay \in Int
      BY <3>1, <1>2
    <3>. QED  BY <3>2
  <2>3. (counted + cost[q[1]]) + t[1] + tokens <= r * (2 + age + Delay)
    BY <2>1, <2>2, <1>10
  <2>4. PaidFor(cost, r, p, tokens, age, counted + cost[q[1]], t)
    BY <2>3, <1>9 DEF PaidFor
  <2>. QED  BY <2>4, <1>5, <1>6, <1>8, <1>12 DEF Paid, p
<1>. QED
  BY <1>11, <1>12

(* A quarter of a second: each frame is that much later, each bucket gains a *)
(* quarter of its rate, or less when it is full.                             *)
LEMMA PaidQuarter ==
    ASSUME MaxDelay \in Nat, NEW cost \in [Sent -> Nat], NEW r \in Nat \ {0},
           NEW q \in Seq(Sent), NEW p \in Seq(Sent),
           NEW tokens \in Int, NEW more \in Int, NEW age \in 0..Second, NEW counted \in Nat,
           Paid(cost, r, q, tokens, age, counted), more <= tokens + r, Len(p) = Len(q),
           \A k \in 1..Len(q) : p[k].late = q[k].late + 1 /\ cost[p[k]] = cost[q[k]]
    PROVE  Paid(cost, r, p, more, Least(Second, age + 1), counted)
<1>1. PICK s \in [1..Len(q) + 1 -> Nat] :
        Behind(cost, q, s) /\ PaidFor(cost, r, q, tokens, age, counted, s)
  BY DEF Paid
<1>2. Len(q) \in Nat /\ Delay \in Nat
  BY DEF Delay
<1>3. \A n \in Nat : r * (2 + (n + 1)) = r * (2 + n) + r /\ r * (2 + n) \in Int
  OBVIOUS
<1>4. Behind(cost, p, s)
  BY <1>1 DEF Behind
<1>5. ASSUME NEW k \in 1..Len(p) PROVE s[k] + more <= r * (2 + p[k].late)
  <2>1. q[k] \in Sent
    OBVIOUS
  <2>2. q[k].late \in Nat
    BY <2>1 DEF Sent
  <2>3. s[k] + tokens <= r * (2 + q[k].late)
    BY <1>1 DEF PaidFor
  <2>4. r * (2 + p[k].late) = r * (2 + q[k].late) + r /\ r * (2 + q[k].late) \in Int
    BY <2>2, <1>3
  <2>5. s[k] \in Nat
    BY <1>2
  <2> DEFINE x == r * (2 + q[k].late)
             y == s[k]
  <2>6. x \in Int /\ y \in Nat /\ y + tokens <= x
    BY <2>3, <2>4, <2>5
  <2> HIDE DEF x, y
  <2>7. y + more <= x + r
    BY <2>6
  <2>. QED  BY <2>4, <2>7 DEF x, y
<1>6. ASSUME Least(Second, age + 1) < Second
      PROVE  counted + s[1] + more <= r * (2 + Least(Second, age + 1) + Delay)
  <2>1. age < Second /\ Least(Second, age + 1) = age + 1
    BY <1>6 DEF Least, Second
  <2>2. counted + s[1] + tokens <= r * (2 + age + Delay)
    BY <2>1, <1>1 DEF PaidFor
  <2>3. age + Delay \in Nat /\ 2 + (age + 1) + Delay = 2 + ((age + Delay) + 1)
        /\ 2 + age + Delay = 2 + (age + Delay)
    <3>1. age \in Nat
      BY DEF Second
    <3>. QED  BY SMTT(30), <3>1, <1>2
  <2>4. r * (2 + (age + 1) + Delay) = r * (2 + age + Delay) + r /\ r * (2 + age + Delay) \in Int
    BY <2>3, <1>3
  <2>5. s[1] \in Nat
    BY SMTT(30), <1>2
  <2>. QED  BY SMTT(30), <2>1, <2>2, <2>4, <2>5
<1>. QED
  BY <1>1, <1>4, <1>5, <1>6 DEF PaidFor, Paid

(* With nothing under way, a full bucket has paid for the handshake's window. *)
LEMMA PaidOnceFull ==
    ASSUME MaxDelay \in Nat, NEW cost \in [Sent -> Nat], NEW r \in Nat \ {0}, NEW age \in 0..Second
    PROVE  Paid(cost, r, <<>>, 2 * r, age, 1)
<1> DEFINE s == [k \in 1..1 |-> 0]
<1>1. Len(<<>>) + 1 = 1 /\ s \in [1..1 -> Nat] /\ s[1] = 0
  OBVIOUS
<1>2. Behind(cost, <<>>, s)
  BY <1>1 DEF Behind
<1>3. 1 <= Delay /\ Delay \in Nat
  BY DEF Delay
<1>4. r * (2 + age + Delay) = 2 * r + r * (age + Delay) /\ r * (age + Delay) \in Int
  BY <1>3 DEF Second
<1>5. 1 <= r * (age + Delay)
  BY <1>3 DEF Second
<1>6. PaidFor(cost, r, <<>>, 2 * r, age, 1, s)
  BY <1>1, <1>4, <1>5 DEF PaidFor
<1>. QED
  BY <1>1, <1>2, <1>6 DEF Paid

(* A meter never counts more than its ceiling. *)
LEMMA PaidIsBelow ==
    ASSUME MaxDelay \in Nat, NEW cost \in [Sent -> Nat], NEW c \in Nat, c > 0, c % 8 = 0,
           NEW w \in Nat \ {0}, NEW q \in Seq(Sent), NEW tokens \in Int, NEW age \in 0..Second,
           NEW counted \in Nat, Paid(cost, Share(c), q, tokens, age, counted), age < Second,
           tokens >= Share(c) - Owed(c, w) - 1, Leaves(c, w)
    PROVE  counted <= c
<1> DEFINE r == Share(c)
           o == Owed(c, w)
<1>1. r \in Nat \ {0} /\ c = 8 * r
  BY Shares
<1> HIDE DEF r
<1>2. o \in Nat
  BY <1>1 DEF Owed, r
<1>3. PICK s \in [1..Len(q) + 1 -> Nat] : PaidFor(cost, r, q, tokens, age, counted, s)
  BY DEF Paid, r
<1>4. counted + s[1] + tokens <= r * (2 + age + Delay) /\ s[1] \in Nat
  BY <1>3 DEF PaidFor
<1>5. Delay \in Nat
  BY DEF Delay
<1>6. age \in Nat /\ age <= 3
  BY DEF Second
<1>7. 2 + age + Delay \in Nat /\ 5 + Delay \in Nat /\ 2 + age + Delay <= 5 + Delay
  BY <1>5, <1>6
<1>8. r * (2 + age + Delay) <= r * (5 + Delay) /\ r * (2 + age + Delay) \in Int
  BY SMTT(30), <1>1, <1>7
<1>9. r * (5 + Delay) = (4 + Delay) * r + r /\ (4 + Delay) * r \in Int
  BY <1>1, <1>5
<1>10. (4 + Delay) * r + o + 1 <= c
  BY DEF Leaves, r
<1>11. tokens >= r - o - 1
  BY DEF r
<1> DEFINE x == r * (2 + age + Delay)
           y == (4 + Delay) * r
<1>12. x \in Int /\ y \in Int /\ x <= y + r /\ counted + s[1] + tokens <= x /\ y + o + 1 <= c
  BY <1>4, <1>8, <1>9, <1>10
<1> HIDE DEF o, x, y
<1>. QED
  BY <1>1, <1>2, <1>4, <1>11, <1>12

(* The invariant.  A control frame takes one token that the next quarter      *)
(* gives back; apart from that a bucket holds its reserve, less what a large  *)
(* frame borrowed.                                                            *)
Bucket(ceiling, cost, tokens) ==
    /\ tokens <= Capacity(ceiling)
    /\ tokens >= Share(ceiling) - Owed(ceiling, cost) - 1
    /\ control.since >= 1 => tokens >= Share(ceiling) - Owed(ceiling, cost)

PaceTypes ==
    /\ size \in LargeSizes
    /\ pace \in [acked : BOOLEAN, frames : Int, bytes : Int]
    /\ control \in [sent : Nat, since : 0..Second]
    /\ wire \in Seq(Sent)
    /\ meter \in [age : 0..Second, frames : Nat, bytes : Nat]
OnTime == \A k \in 1..Len(wire) : wire[k].late <= MaxDelay
Greeting == \/ Len(wire) = 1 /\ wire[1].weight = 1 /\ meter.age = Second
            \/ wire = <<>> /\ meter.frames = 1 /\ meter.bytes = 1
FramesPaced ==
    /\ Bucket(FrameCeiling, 1, pace.frames)
    /\ Paid(Frames, Share(FrameCeiling), wire, pace.frames, meter.age, meter.frames)
BytesPaced ==
    /\ Bucket(ByteCeiling, size, pace.bytes)
    /\ Paid(Bytes, Share(ByteCeiling), wire, pace.bytes, meter.age, meter.bytes)
PaceInv ==
    /\ PaceTypes /\ OnTime /\ ~shed
    /\ ~pace.acked => Greeting
    /\ pace.acked => FramesPaced /\ BytesPaced

LEMMA CostTypes ==
    /\ Frames \in [Sent -> Nat] /\ Bytes \in [Sent -> Nat]
    /\ \A f \in Sent : Frames[f] = 1 /\ Bytes[f] = f.weight
  BY DEF Frames, Bytes, Sent

LEMMA PaceStarts == SendPaceInit => PaceInv
<1>. SUFFICES ASSUME SendPaceInit PROVE PaceInv
  OBVIOUS
<1> DEFINE f == [weight |-> 1, late |-> 0]
<1>1. f \in Sent /\ f.late = 0 /\ f.weight = 1
  BY DEF Sent
<1>2. wire = <<f>>
  BY DEF SendPaceInit
<1> HIDE DEF f
<1>3. wire \in Seq(Sent) /\ Len(wire) = 1 /\ wire[1] = f
  BY <1>1, <1>2
<1>4. PaceTypes /\ ~pace.acked /\ ~shed /\ meter.age = Second
  BY <1>3 DEF SendPaceInit, PaceTypes, Second
<1>5. OnTime
  BY <1>1, <1>3, PaceAssumption DEF OnTime
<1>. QED
  BY <1>1, <1>3, <1>4, <1>5 DEF PaceInv, Greeting

(* What a bucket has left when it let a deferred frame go. *)
LEMMA BucketSpends ==
    ASSUME NEW c \in Nat, c > 0, c % 8 = 0, NEW cost \in Nat \ {0}, NEW w \in Nat \ {0}, NEW tokens \in Int,
           Bucket(c, cost, tokens), allowDeferred(c, tokens, w), w = 1 \/ w = cost
    PROVE  tokens - w <= Capacity(c) /\ tokens - w >= Share(c) - Owed(c, cost)
<1> DEFINE r == Share(c)
<1>1. r \in Nat \ {0} /\ Capacity(c) = 2 * r /\ Reserve(c) = r
  BY Shares
<1> HIDE DEF r
<1>2. tokens - r >= Least(w, r) /\ tokens <= 2 * r
  BY <1>1 DEF allowDeferred, Bucket
<1>3. Owed(c, cost) = IF cost <= r THEN 0 ELSE cost - r
  BY DEF Owed, r
<1>4. tokens - w >= r - Owed(c, cost)
  BY <1>1, <1>2, <1>3 DEF Least
<1>. QED
  BY <1>1, <1>2, <1>4 DEF r

LEMMA BucketRefills ==
    ASSUME NEW c \in Nat, c > 0, c % 8 = 0, NEW cost \in Nat \ {0}, NEW tokens \in Int,
           Bucket(c, cost, tokens)
    PROVE  LET more == refill(c, tokens) IN
           /\ more \in Int /\ more <= Capacity(c) /\ more <= tokens + Share(c)
           /\ more >= Share(c) - Owed(c, cost)
<1> DEFINE r == Share(c)
<1>1. r \in Nat \ {0} /\ Capacity(c) = 2 * r /\ Rate(c) \div Second = r
  BY Shares
<1>2. Owed(c, cost) \in Nat
  BY <1>1 DEF Owed
<1> HIDE DEF r
<1>3. tokens >= r - Owed(c, cost) - 1
  BY DEF Bucket, r
<1>4. refill(c, tokens) = Least(2 * r, tokens + r)
  BY <1>1 DEF refill
<1>. QED
  BY <1>1, <1>2, <1>3, <1>4 DEF Least, r

LEMMA CeilingTypes ==
    /\ FrameCeiling \in Nat /\ FrameCeiling > 0 /\ FrameCeiling % 8 = 0
    /\ ByteCeiling \in Nat /\ ByteCeiling > 0 /\ ByteCeiling % 8 = 0
    /\ Share(FrameCeiling) \in Nat \ {0} /\ Share(ByteCeiling) \in Nat \ {0}
<1>1. /\ FrameCeiling \in Nat /\ FrameCeiling > 0 /\ FrameCeiling % 8 = 0
      /\ ByteCeiling \in Nat /\ ByteCeiling > 0 /\ ByteCeiling % 8 = 0
  BY PaceAssumption
<1>. QED
  BY <1>1, Shares

LEMMA ConfigureKeeps ==
    ASSUME PaceInv, configure PROVE PaceInv'
<1>1. /\ ~pace.acked /\ wire = <<>> /\ ~shed
      /\ pace' = [acked |-> TRUE, frames |-> Capacity(FrameCeiling), bytes |-> Capacity(ByteCeiling)]
      /\ UNCHANGED <<size, control, wire, meter, shed>>
  BY DEF configure
<1>2. meter.frames = 1 /\ meter.bytes = 1 /\ meter.age \in 0..Second
  BY <1>1 DEF PaceInv, Greeting, PaceTypes
<1>3. ASSUME NEW c \in Nat, c > 0, c % 8 = 0, NEW cost \in Nat \ {0}
      PROVE  Bucket(c, cost, Capacity(c))' /\ Capacity(c) = 2 * Share(c) /\ Capacity(c) \in Int
  <2>1. Share(c) \in Nat \ {0} /\ Capacity(c) = 2 * Share(c)
    BY <1>3, Shares
  <2>2. Owed(c, cost) \in Nat
    BY <2>1 DEF Owed
  <2>. QED  BY <2>1, <2>2 DEF Bucket
<1>4. size \in Nat \ {0}
  BY PaceAssumption DEF PaceInv, PaceTypes
<1>5. /\ Bucket(FrameCeiling, 1, Capacity(FrameCeiling))'
      /\ Capacity(FrameCeiling) = 2 * Share(FrameCeiling) /\ Capacity(FrameCeiling) \in Int
  BY <1>3, CeilingTypes
<1>6. /\ Bucket(ByteCeiling, size, Capacity(ByteCeiling))'
      /\ Capacity(ByteCeiling) = 2 * Share(ByteCeiling) /\ Capacity(ByteCeiling) \in Int
  BY <1>1, <1>3, <1>4, CeilingTypes DEF Bucket
<1>7. pace'.acked /\ pace'.frames = Capacity(FrameCeiling) /\ pace'.bytes = Capacity(ByteCeiling)
  BY <1>1
<1>8. FramesPaced'
  <2>1. Paid(Frames, Share(FrameCeiling), <<>>, 2 * Share(FrameCeiling), meter.age, 1)
    BY <1>2, PaidOnceFull, CostTypes, CeilingTypes, PaceAssumption
  <2>. QED  BY <2>1, <1>1, <1>2, <1>5, <1>7 DEF FramesPaced
<1>9. BytesPaced'
  <2>1. Paid(Bytes, Share(ByteCeiling), <<>>, 2 * Share(ByteCeiling), meter.age, 1)
    BY <1>2, PaidOnceFull, CostTypes, CeilingTypes, PaceAssumption
  <2>. QED  BY <2>1, <1>1, <1>2, <1>6, <1>7 DEF BytesPaced
<1>10. PaceTypes'
  BY <1>1, <1>5, <1>6 DEF PaceInv, PaceTypes
<1>. QED
  BY <1>1, <1>7, <1>8, <1>9, <1>10 DEF PaceInv, OnTime

(* A frame goes out and is paid for. *)
LEMMA SendKeeps ==
    ASSUME PaceInv, pace.acked, ~shed, NEW w \in Nat \ {0}, OnWire(w), take(w),
           UNCHANGED <<size, meter, shed>>, control' \in [sent : Nat, since : 0..Second],
           Bucket(FrameCeiling, 1, pace.frames)', Bucket(ByteCeiling, size, pace.bytes)'
    PROVE  PaceInv'
<1> DEFINE f == [weight |-> w, late |-> 0]
<1>1. f \in Sent /\ f.late = 0 /\ f.weight = w
  BY DEF Sent
<1>2. wire' = Append(wire, f)
  BY DEF OnWire
<1> HIDE DEF f
<1>3. PaceTypes /\ OnTime /\ FramesPaced /\ BytesPaced
  BY DEF PaceInv
<1>4. pace \in [acked : BOOLEAN, frames : Int, bytes : Int] /\ wire \in Seq(Sent)
      /\ meter.age \in 0..Second /\ meter.frames \in Nat /\ meter.bytes \in Nat
  BY <1>3 DEF PaceTypes
<1>5. pace' \in [acked : BOOLEAN, frames : Int, bytes : Int] /\ pace'.acked
      /\ pace'.frames = pace.frames - 1 /\ pace'.bytes = pace.bytes - w
  <2>1. pace' = [acked |-> pace.acked, frames |-> pace.frames - 1, bytes |-> pace.bytes - w]
    BY <1>4 DEF take
  <2>. QED  BY <2>1, <1>4
<1>6. wire' \in Seq(Sent)
  BY <1>1, <1>2, <1>4
<1>7. PaceTypes'
  BY <1>3, <1>5, <1>6 DEF PaceTypes
<1>8. OnTime'
  <2>1. Len(wire') = Len(wire) + 1 /\ wire'[Len(wire) + 1] = f /\ \A k \in 1..Len(wire) : wire'[k] = wire[k]
    BY <1>1, <1>2, <1>4
  <2>2. Len(wire) \in Nat
    BY <1>4
  <2>. QED  BY SMTT(30), <2>1, <2>2, <1>1, <1>3, PaceAssumption DEF OnTime
<1>9. FramesPaced'
  <2>1. pace.frames \in Int /\ pace.frames <= 2 * Share(FrameCeiling)
    BY <1>3, <1>4, Shares, CeilingTypes DEF FramesPaced, Bucket
  <2>2. Paid(Frames, Share(FrameCeiling), wire, pace.frames, meter.age, meter.frames)
    BY <1>3 DEF FramesPaced
  <2>3. Paid(Frames, Share(FrameCeiling), Append(wire, f), pace.frames - Frames[f], meter.age, meter.frames)
    BY <1>1, <1>4, <2>1, <2>2, PaidSend, CostTypes, CeilingTypes, PaceAssumption
  <2>4. Frames[f] = 1
    BY <1>1, CostTypes
  <2>. QED  BY <2>3, <2>4, <1>2, <1>5 DEF FramesPaced
<1>10. BytesPaced'
  <2>1. pace.bytes \in Int /\ pace.bytes <= 2 * Share(ByteCeiling)
    BY <1>3, <1>4, Shares, CeilingTypes DEF BytesPaced, Bucket
  <2>2. Paid(Bytes, Share(ByteCeiling), wire, pace.bytes, meter.age, meter.bytes)
    BY <1>3 DEF BytesPaced
  <2>3. Paid(Bytes, Share(ByteCeiling), Append(wire, f), pace.bytes - Bytes[f], meter.age, meter.bytes)
    BY <1>1, <1>4, <2>1, <2>2, PaidSend, CostTypes, CeilingTypes, PaceAssumption
  <2>4. Bytes[f] = w
    BY <1>1, CostTypes
  <2>. QED  BY <2>3, <2>4, <1>2, <1>5 DEF BytesPaced
<1>. QED
  BY <1>5, <1>7, <1>8, <1>9, <1>10 DEF PaceInv

LEMMA DeferredKeeps ==
    ASSUME PaceInv, NEW kind \in {"small", "large"}, NEW w \in Nat \ {0}, w = 1 \/ w = size,
           admitDeferred(kind, w)
    PROVE  PaceInv'
<1>1. /\ pace.acked /\ ~shed /\ OnWire(w) /\ take(w) /\ UNCHANGED <<size, control, meter, shed>>
      /\ allowDeferred(FrameCeiling, pace.frames, 1) /\ allowDeferred(ByteCeiling, pace.bytes, w)
  BY DEF admitDeferred
<1>2. PaceTypes /\ Bucket(FrameCeiling, 1, pace.frames) /\ Bucket(ByteCeiling, size, pace.bytes)
  BY <1>1 DEF PaceInv, FramesPaced, BytesPaced
<1>3. pace \in [acked : BOOLEAN, frames : Int, bytes : Int] /\ size \in Nat \ {0}
  BY <1>2, PaceAssumption DEF PaceTypes
<1>4. pace'.frames = pace.frames - 1 /\ pace'.bytes = pace.bytes - w
  <2>1. pace' = [acked |-> pace.acked, frames |-> pace.frames - 1, bytes |-> pace.bytes - w]
    BY <1>1, <1>3 DEF take
  <2>. QED  BY <2>1
<1>5. Bucket(FrameCeiling, 1, pace.frames)'
  <2>1. pace.frames - 1 <= Capacity(FrameCeiling) /\ pace.frames - 1 >= Share(FrameCeiling) - Owed(FrameCeiling, 1)
    BY <1>1, <1>2, <1>3, BucketSpends, CeilingTypes
  <2>2. Owed(FrameCeiling, 1) \in Nat
    BY CeilingTypes DEF Owed
  <2>. QED  BY <2>1, <2>2, <1>3, <1>4, CeilingTypes DEF Bucket
<1>6. Bucket(ByteCeiling, size, pace.bytes)'
  <2>1. pace.bytes - w <= Capacity(ByteCeiling) /\ pace.bytes - w >= Share(ByteCeiling) - Owed(ByteCeiling, size)
    BY <1>1, <1>2, <1>3, BucketSpends, CeilingTypes
  <2>2. Owed(ByteCeiling, size) \in Nat
    BY <1>3, CeilingTypes DEF Owed
  <2>3. size' = size
    BY <1>1
  <2>. QED  BY <2>1, <2>2, <2>3, <1>3, <1>4, CeilingTypes DEF Bucket
<1>7. control' \in [sent : Nat, since : 0..Second]
  BY <1>1, <1>2 DEF PaceTypes
<1>. QED
  BY <1>1, <1>5, <1>6, <1>7, SendKeeps

LEMMA ControlKeeps ==
    ASSUME PaceInv, admitControl PROVE PaceInv'
<1>1. /\ pace.acked /\ ~shed /\ OnWire(1) /\ take(1) /\ UNCHANGED <<size, meter, shed>>
      /\ control.since >= Second /\ control' = [sent |-> control.sent + 1, since |-> 0]
  BY DEF admitControl
<1>2. PaceTypes /\ Bucket(FrameCeiling, 1, pace.frames) /\ Bucket(ByteCeiling, size, pace.bytes)
  BY <1>1 DEF PaceInv, FramesPaced, BytesPaced
<1>3. pace \in [acked : BOOLEAN, frames : Int, bytes : Int] /\ size \in Nat \ {0}
      /\ control.sent \in Nat /\ control.since \in 0..Second
  BY <1>2, PaceAssumption DEF PaceTypes
<1>4. pace'.frames = pace.frames - 1 /\ pace'.bytes = pace.bytes - 1 /\ control'.since = 0
  <2>1. pace' = [acked |-> pace.acked, frames |-> pace.frames - 1, bytes |-> pace.bytes - 1]
    BY <1>1, <1>3 DEF take
  <2>. QED  BY <2>1, <1>1
<1>5. ASSUME NEW c \in Nat, c > 0, c % 8 = 0, NEW cost \in Nat \ {0}, NEW tokens \in Int,
             Bucket(c, cost, tokens)
      PROVE  /\ tokens - 1 <= Capacity(c)
             /\ tokens - 1 >= Share(c) - Owed(c, cost) - 1
  <2>1. Share(c) \in Nat \ {0} /\ Capacity(c) = 2 * Share(c)
    BY <1>5, Shares
  <2>2. Owed(c, cost) \in Nat
    BY <2>1 DEF Owed
  <2>. QED  BY <1>1, <1>3, <1>5, <2>1, <2>2 DEF Bucket, Second
<1>6. Bucket(FrameCeiling, 1, pace.frames)'
  BY <1>2, <1>3, <1>4, <1>5, CeilingTypes DEF Bucket
<1>7. Bucket(ByteCeiling, size, pace.bytes)'
  BY <1>1, <1>2, <1>3, <1>4, <1>5, CeilingTypes DEF Bucket
<1>8. control' \in [sent : Nat, since : 0..Second]
  BY <1>1, <1>3 DEF Second
<1>. QED
  BY <1>1, <1>6, <1>7, <1>8, SendKeeps

LEMMA ObserveKeeps ==
    ASSUME PaceInv, WindowFits, observe PROVE PaceInv'
<1> DEFINE fresh == meter.age >= Second
           head == Head(wire)
           age == IF fresh THEN 0 ELSE meter.age
           frames == (IF fresh THEN 0 ELSE meter.frames) + 1
           bytes == (IF fresh THEN 0 ELSE meter.bytes) + head.weight
<1>1. /\ wire # <<>> /\ wire' = Tail(wire) /\ UNCHANGED <<size, left, pace, control>>
      /\ meter' = [age |-> age, frames |-> frames, bytes |-> bytes]
      /\ shed' <=> (frames > FrameCeiling \/ bytes > ByteCeiling)
  BY DEF observe
<1>2. PaceTypes /\ OnTime
  BY DEF PaceInv
<1>3. wire \in Seq(Sent) /\ meter.age \in 0..Second /\ meter.frames \in Nat /\ meter.bytes \in Nat
      /\ pace.frames \in Int /\ pace.bytes \in Int /\ size \in LargeSizes /\ size \in Nat \ {0}
  BY <1>2, PaceAssumption DEF PaceTypes
<1>4. head \in Sent /\ head = wire[1]
  BY <1>1, <1>3
<1> HIDE DEF head
<1>5. head.weight \in Nat \ {0}
  BY <1>4 DEF Sent
<1>6. age \in 0..Second /\ age < Second /\ frames \in Nat /\ bytes \in Nat
  BY SMTT(30), <1>3, <1>5 DEF Second
<1> HIDE DEF frames, bytes, age
<1>7. meter'.age = age /\ meter'.frames = frames /\ meter'.bytes = bytes
  BY <1>1
<1>8. PaceTypes'
  <2>1. meter' \in [age : 0..Second, frames : Nat, bytes : Nat]
    BY <1>1, <1>6
  <2>2. wire' \in Seq(Sent)
    BY <1>1, <1>3
  <2>. QED  BY <2>1, <2>2, <1>1, <1>2 DEF PaceTypes
<1>9. OnTime'
  <2>1. Len(wire') = Len(wire) - 1 /\ Len(wire) \in Nat /\ \A k \in 1..Len(wire') : wire'[k] = wire[k + 1]
    BY <1>1, <1>3
  <2>. QED  BY <2>1, <1>2 DEF OnTime
<1>10. CASE ~pace.acked
  <2>1. Len(wire) = 1 /\ wire[1].weight = 1 /\ meter.age = Second
    BY <1>1, <1>10 DEF PaceInv, Greeting
  <2>2. wire' = <<>>
    <3>1. Tail(wire) \in Seq(Sent) /\ Len(Tail(wire)) = 0
      BY <2>1, <1>1, <1>3
    <3>. QED  BY <3>1, <1>1
  <2>3. frames = 1 /\ bytes = 1
    BY <2>1, <1>4 DEF frames, bytes, Second
  <2>4. ~shed'
    BY <2>3, <1>1, CeilingTypes
  <2>. QED  BY <2>2, <2>3, <2>4, <1>1, <1>7, <1>8, <1>9, <1>10 DEF PaceInv, Greeting
<1>11. CASE pace.acked
  <2>1. FramesPaced /\ BytesPaced
    BY <1>11 DEF PaceInv
  <2>2. \A k \in 1..Len(wire) : wire[k].late <= MaxDelay
    BY <1>2 DEF OnTime
  <2>3. Paid(Frames, Share(FrameCeiling), wire', pace.frames, age, frames)
    <3>1. Paid(Frames, Share(FrameCeiling), wire, pace.frames, meter.age, meter.frames)
      BY <2>1 DEF FramesPaced
    <3>2. Frames[head] = 1
      BY <1>4, CostTypes
    <3>3. IF meter.age >= Second
          THEN Paid(Frames, Share(FrameCeiling), Tail(wire), pace.frames, 0, Frames[Head(wire)])
          ELSE Paid(Frames, Share(FrameCeiling), Tail(wire), pace.frames, meter.age, meter.frames + Frames[Head(wire)])
      BY <3>1, <2>2, <1>1, <1>3, PaidObserve, CostTypes, CeilingTypes, PaceAssumption
    <3>. QED  BY <3>2, <3>3, <1>1 DEF age, frames, head
  <2>4. Paid(Bytes, Share(ByteCeiling), wire', pace.bytes, age, bytes)
    <3>1. Paid(Bytes, Share(ByteCeiling), wire, pace.bytes, meter.age, meter.bytes)
      BY <2>1 DEF BytesPaced
    <3>2. Bytes[head] = head.weight
      BY <1>4, CostTypes
    <3>3. IF meter.age >= Second
          THEN Paid(Bytes, Share(ByteCeiling), Tail(wire), pace.bytes, 0, Bytes[Head(wire)])
          ELSE Paid(Bytes, Share(ByteCeiling), Tail(wire), pace.bytes, meter.age, meter.bytes + Bytes[Head(wire)])
      BY <3>1, <2>2, <1>1, <1>3, PaidObserve, CostTypes, CeilingTypes, PaceAssumption
    <3>4. 0 + head.weight = head.weight
      BY <1>5
    <3>. QED  BY <3>2, <3>3, <3>4, <1>1 DEF age, bytes, head
  <2>5. wire' \in Seq(Sent)
    BY <1>1, <1>3
  <2>6. frames <= FrameCeiling
    <3>1. pace.frames >= Share(FrameCeiling) - Owed(FrameCeiling, 1) - 1
      BY <2>1 DEF FramesPaced, Bucket
    <3>2. Leaves(FrameCeiling, 1)
      BY DEF WindowFits
    <3>3. 1 \in Nat \ {0}
      OBVIOUS
    <3>. QED  BY <3>1, <3>2, <3>3, <2>3, <2>5, <1>3, <1>6, PaidIsBelow, CostTypes, CeilingTypes, PaceAssumption
  <2>7. bytes <= ByteCeiling
    <3>1. pace.bytes >= Share(ByteCeiling) - Owed(ByteCeiling, size) - 1
      BY <2>1 DEF BytesPaced, Bucket
    <3>2. Leaves(ByteCeiling, size)
      BY <1>3 DEF WindowFits
    <3>. QED  BY <3>1, <3>2, <2>4, <2>5, <1>3, <1>6, PaidIsBelow, CostTypes, CeilingTypes, PaceAssumption
  <2>8. ~shed'
    BY <2>6, <2>7, <1>1, <1>6, CeilingTypes
  <2>9. FramesPaced' /\ BytesPaced'
    BY <2>1, <2>3, <2>4, <1>1, <1>7 DEF FramesPaced, BytesPaced, Bucket
  <2>. QED  BY <2>8, <2>9, <1>1, <1>8, <1>9, <1>11 DEF PaceInv
<1>. QED
  BY <1>10, <1>11

LEMMA QuarterKeeps ==
    ASSUME PaceInv, Quarter PROVE PaceInv'
<1>1. /\ ~shed /\ \A k \in DOMAIN wire : wire[k].late < MaxDelay
      /\ wire' = [k \in DOMAIN wire |-> [wire[k] EXCEPT !.late = @ + 1]]
      /\ meter' = [meter EXCEPT !.age = Least(Second, @ + 1)]
      /\ control' = [control EXCEPT !.since = Least(Second, @ + 1)]
      /\ pace' = IF ~pace.acked THEN pace
                 ELSE [pace EXCEPT !.frames = refill(FrameCeiling, @), !.bytes = refill(ByteCeiling, @)]
      /\ UNCHANGED <<size, left, shed>>
  BY DEF Quarter
<1>2. PaceTypes /\ OnTime
  BY DEF PaceInv
<1>3. /\ wire \in Seq(Sent) /\ meter \in [age : 0..Second, frames : Nat, bytes : Nat]
      /\ pace \in [acked : BOOLEAN, frames : Int, bytes : Int]
      /\ control \in [sent : Nat, since : 0..Second] /\ size \in Nat \ {0}
  BY <1>2, PaceAssumption DEF PaceTypes
<1>4. Len(wire) \in Nat /\ DOMAIN wire = 1..Len(wire) /\ \A k \in 1..Len(wire) : wire[k] \in Sent
  BY <1>3
<1>5. \A f \in Sent : /\ [f EXCEPT !.late = @ + 1] \in Sent
                      /\ [f EXCEPT !.late = @ + 1].late = f.late + 1
                      /\ [f EXCEPT !.late = @ + 1].weight = f.weight
  BY DEF Sent
<1>6. wire' \in Seq(Sent) /\ Len(wire') = Len(wire)
  <2>1. wire' = [k \in 1..Len(wire) |-> [wire[k] EXCEPT !.late = @ + 1]]
    BY <1>1, <1>4
  <2>2. \A k \in 1..Len(wire) : [wire[k] EXCEPT !.late = @ + 1] \in Sent
    BY <1>4, <1>5
  <2>. QED  BY <2>1, <2>2, <1>4
<1>7. \A k \in 1..Len(wire) : /\ wire'[k] \in Sent /\ wire'[k].late = wire[k].late + 1
                              /\ wire'[k].weight = wire[k].weight
  <2>1. SUFFICES ASSUME NEW k \in 1..Len(wire)
        PROVE  wire'[k] \in Sent /\ wire'[k].late = wire[k].late + 1 /\ wire'[k].weight = wire[k].weight
    OBVIOUS
  <2>2. wire'[k] = [wire[k] EXCEPT !.late = @ + 1]
    BY <1>1, <1>4
  <2>. QED  BY <2>2, <1>4, <1>5
<1>8. Least(Second, meter.age + 1) \in 0..Second /\ Least(Second, control.since + 1) \in 0..Second
  BY <1>3 DEF Least, Second
<1>9. /\ meter' \in [age : 0..Second, frames : Nat, bytes : Nat]
      /\ meter'.age = Least(Second, meter.age + 1)
      /\ meter'.frames = meter.frames /\ meter'.bytes = meter.bytes
  BY <1>1, <1>3, <1>8
<1>10. control' \in [sent : Nat, since : 0..Second]
  BY <1>1, <1>3, <1>8
<1>11. OnTime'
  <2>1. SUFFICES ASSUME NEW k \in 1..Len(wire) PROVE wire'[k].late <= MaxDelay
    BY <1>6 DEF OnTime
  <2>2. wire[k].late < MaxDelay /\ wire[k].late \in Nat
    BY <1>1, <1>4 DEF Sent
  <2>. QED  BY <2>2, <1>7, PaceAssumption
<1>12. CASE ~pace.acked
  <2>1. pace' = pace
    BY <1>1, <1>12
  <2>2. PaceTypes'
    BY <2>1, <1>1, <1>2, <1>6, <1>9, <1>10 DEF PaceTypes
  <2>3. Greeting
    BY <1>12 DEF PaceInv
  <2>4. CASE Len(wire) = 1 /\ wire[1].weight = 1 /\ meter.age = Second
    <3>1. Least(Second, meter.age + 1) = Second
      BY <2>4 DEF Least, Second
    <3>2. wire'[1].weight = 1
      BY <2>4, <1>7
    <3>. QED  BY <2>1, <2>2, <2>4, <3>1, <3>2, <1>1, <1>6, <1>9, <1>11, <1>12 DEF PaceInv, Greeting
  <2>5. CASE wire = <<>> /\ meter.frames = 1 /\ meter.bytes = 1
    <3>1. wire' = <<>>
      BY <2>5, <1>6
    <3>. QED  BY <2>1, <2>2, <2>5, <3>1, <1>1, <1>9, <1>11, <1>12 DEF PaceInv, Greeting
  <2>. QED  BY <2>3, <2>4, <2>5 DEF Greeting
<1>13. CASE pace.acked
  <2> DEFINE f == refill(FrameCeiling, pace.frames)
             b == refill(ByteCeiling, pace.bytes)
  <2>1. FramesPaced /\ BytesPaced
    BY <1>13 DEF PaceInv
  <2>2. f \in Int /\ f <= Capacity(FrameCeiling) /\ f <= pace.frames + Share(FrameCeiling)
        /\ f >= Share(FrameCeiling) - Owed(FrameCeiling, 1)
    <3>1. Bucket(FrameCeiling, 1, pace.frames) /\ 1 \in Nat \ {0} /\ pace.frames \in Int
      BY <2>1, <1>3 DEF FramesPaced
    <3>. QED  BY <3>1, BucketRefills, CeilingTypes
  <2>3. b \in Int /\ b <= Capacity(ByteCeiling) /\ b <= pace.bytes + Share(ByteCeiling)
        /\ b >= Share(ByteCeiling) - Owed(ByteCeiling, size)
    <3>1. Bucket(ByteCeiling, size, pace.bytes) /\ pace.bytes \in Int
      BY <2>1, <1>3 DEF BytesPaced
    <3>. QED  BY <3>1, <1>3, BucketRefills, CeilingTypes
  <2>4. pace' = [acked |-> pace.acked, frames |-> f, bytes |-> b]
    BY <1>1, <1>3, <1>13
  <2> HIDE DEF f, b
  <2>5. PaceTypes'
    <3>1. pace' \in [acked : BOOLEAN, frames : Int, bytes : Int]
      BY <2>2, <2>3, <2>4, <1>3
    <3>. QED  BY <3>1, <1>1, <1>2, <1>6, <1>9, <1>10 DEF PaceTypes
  <2>6. meter.age \in 0..Second /\ meter.frames \in Nat /\ meter.bytes \in Nat
        /\ pace.frames \in Int /\ pace.bytes \in Int
    BY <1>3
  <2>7. FramesPaced'
    <3>1. Owed(FrameCeiling, 1) \in Nat
      BY CeilingTypes DEF Owed
    <3>2. Bucket(FrameCeiling, 1, pace.frames)'
      BY <2>2, <2>4, <3>1, CeilingTypes DEF Bucket
    <3>3. Paid(Frames, Share(FrameCeiling), wire, pace.frames, meter.age, meter.frames)
      BY <2>1 DEF FramesPaced
    <3>4. \A k \in 1..Len(wire) :
            wire'[k].late = wire[k].late + 1 /\ Frames[wire'[k]] = Frames[wire[k]]
      BY <1>4, <1>7, CostTypes
    <3>5. Paid(Frames, Share(FrameCeiling), wire', f, Least(Second, meter.age + 1), meter.frames)
      BY <2>2, <3>3, <3>4, <1>3, <1>6, <2>6, PaidQuarter, CostTypes, CeilingTypes, PaceAssumption
    <3>. QED  BY <2>4, <3>2, <3>5, <1>9 DEF FramesPaced
  <2>8. BytesPaced'
    <3>1. Owed(ByteCeiling, size) \in Nat /\ size' = size
      BY SMTT(30), <1>1, <1>3, CeilingTypes DEF Owed
    <3>2. Bucket(ByteCeiling, size, pace.bytes)'
      BY <2>3, <2>4, <3>1, CeilingTypes DEF Bucket
    <3>3. Paid(Bytes, Share(ByteCeiling), wire, pace.bytes, meter.age, meter.bytes)
      BY <2>1 DEF BytesPaced
    <3>4. \A k \in 1..Len(wire) :
            wire'[k].late = wire[k].late + 1 /\ Bytes[wire'[k]] = Bytes[wire[k]]
      BY <1>4, <1>7, CostTypes
    <3>5. Paid(Bytes, Share(ByteCeiling), wire', b, Least(Second, meter.age + 1), meter.bytes)
      BY <2>3, <3>3, <3>4, <1>3, <1>6, <2>6, PaidQuarter, CostTypes, CeilingTypes, PaceAssumption
    <3>. QED  BY <2>4, <3>2, <3>5, <1>9 DEF BytesPaced
  <2>. QED  BY <2>4, <2>5, <2>7, <2>8, <1>1, <1>11, <1>13 DEF PaceInv
<1>. QED
  BY <1>12, <1>13

(* A peer that paces by the published table is never closed for capacity,     *)
(* however many frames it has and wherever the relay's window begins, while   *)
(* its frames fit the limits and the wire is late by no more than that leaves *)
(* room for (sendpace.go, capacity.go).                                       *)
THEOREM PacedIsNeverShed ==
    ASSUME WindowFits
    PROVE  SendPaceSpec => []NeverShed
<1>1. PaceInv => NeverShed
  BY DEF PaceInv, NeverShed
<1>2. PaceInv /\ [SendPaceNext]_paceVars => PaceInv'
  <2>. SUFFICES ASSUME PaceInv, [SendPaceNext]_paceVars PROVE PaceInv'
    OBVIOUS
  <2>2. size \in Nat \ {0}
    BY PaceAssumption DEF PaceInv, PaceTypes
  <2>3. CASE admitDeferred("small", 1)
    BY <2>3, DeferredKeeps
  <2>4. CASE admitDeferred("large", size)
    BY <2>2, <2>4, DeferredKeeps
  <2>5. CASE UNCHANGED paceVars
    BY <2>5 DEF paceVars, PaceInv, PaceTypes, OnTime, Greeting, FramesPaced, BytesPaced, Bucket
  <2>. QED
    BY <2>3, <2>4, <2>5, ConfigureKeeps, ControlKeeps, ObserveKeeps, QuarterKeeps DEF SendPaceNext
<1>. QED
  BY <1>1, <1>2, PaceStarts, PTL DEF SendPaceSpec

-----------------------------------------------------------------------------
(* One world and its sidecar: what is under way names what it may name. *)

Downward == [type : {"out_ack", "out_nack", "in"}, m : Id]
Upward == [type : {"config"}, world : Nat] \cup [type : {"out", "in_ack", "in_nack"}, m : Id]

LinkTypes ==
    /\ body \in [Org -> {"live", "inert", "none"}]
    /\ offered \in [Org -> 0..MaxTrips] /\ minted \in [Org -> 0..MaxTrips]
    /\ saved \subseteq Org /\ world \in Nat
    /\ jr \in [Id -> Entry]
    /\ link \in {"down", "up", "shaken"}
    /\ toMod \in Seq(Downward) /\ toSide \in Seq(Upward)
    /\ cur \in Job /\ old \in Job

(* An acknowledgement, sent or about to be, is of a journaled migration, and *)
(* an entry is never taken back.                                             *)
AcksKnown == \A k \in 1..Len(toMod) : toMod[k].type = "out_ack" => Known(toMod[k].m)
Honest(job) == job # Idle /\ job[2] = "created" => Known(job[1])
LinkInv == LinkTypes /\ AcksKnown /\ Honest(cur) /\ Honest(old)

(* A set in some order. *)
LEMMA InSomeOrder ==
    ASSUME NEW S, IsFiniteSet(S)
    PROVE  /\ SetToSeq(S) \in Seq(S)
           /\ \A k \in 1..Len(SetToSeq(S)) : SetToSeq(S)[k] \in S
<1> DEFINE n == Cardinality(S)
           f == SetToSeq(S)
<1>1. n \in Nat /\ ExistsBijection(1..n, S)
  BY FS_CardinalityType
<1>2. \E g \in [1..n -> S] : IsInjective(g)
  BY <1>1 DEF ExistsBijection, Bijection, Injection
<1>3. f \in [1..n -> S]
  BY <1>2 DEF SetToSeq
<1> HIDE DEF f, n
<1>4. f \in Seq(S)
  BY <1>1, <1>3
<1>5. \A k \in 1..Len(f) : f[k] \in S
  BY <1>4
<1>. QED
  BY <1>4, <1>5 DEF f

LEMMA IdsFinite ==
    ASSUME IsFiniteSet(Org)
    PROVE  IsFiniteSet(Id) /\ Trip \subseteq Nat
<1>1. IsFiniteSet(Trip)
  BY BoundsAssumption, FS_Interval DEF Trip
<1>. QED
  BY <1>1, FS_Product, BoundsAssumption DEF Id, Trip

(* Frames about some organisms or migrations, in some order. *)
LEMMA FramesAbout ==
    ASSUME NEW S, IsFiniteSet(S), NEW g, NEW T, g \in [S -> T],
           \A x \in T : \E y \in S : g[y] = x
    PROVE  IsFiniteSet(T)
<1>1. g \in Surjection(S, T)
  BY DEF Surjection
<1>. QED
  BY <1>1, FS_Surjection

LEMMA ReassertedIn ==
    ASSUME IsFiniteSet(Org), LinkTypes
    PROVE  LET fs == SetToSeq({Msg("out_ack", m) : m \in Departed}) IN
           /\ fs \in Seq(Downward)
           /\ \A k \in 1..Len(fs) : fs[k].type = "out_ack" => Known(fs[k].m)
<1> DEFINE S == {Msg("out_ack", m) : m \in Departed}
           g == [m \in Departed |-> Msg("out_ack", m)]
<1>1. IsFiniteSet(Departed) /\ Departed \subseteq Id
  BY IdsFinite, FS_Subset DEF Departed
<1>2. g \in [Departed -> S] /\ \A x \in S : \E y \in Departed : g[y] = x
  OBVIOUS
<1>3. \A x \in S : x \in Downward /\ Known(x.m)
  <2>1. SUFFICES ASSUME NEW m \in Departed
        PROVE  Msg("out_ack", m) \in Downward /\ Known(Msg("out_ack", m).m)
    OBVIOUS
  <2>2. m \in Id /\ jr[m].dir = "out"
    BY <1>1 DEF Departed
  <2>. QED  BY <2>2 DEF Msg, Downward, Known, NoEntry, As
<1> HIDE DEF S, g
<1>4. IsFiniteSet(S)
  BY <1>1, <1>2, FramesAbout
<1>5. SetToSeq(S) \in Seq(S) /\ \A k \in 1..Len(SetToSeq(S)) : SetToSeq(S)[k] \in S
  BY <1>4, InSomeOrder
<1>6. S \subseteq Downward
  BY <1>3
<1>7. SetToSeq(S) \in Seq(Downward)
  BY <1>5, <1>6
<1>. QED
  BY <1>3, <1>5, <1>7 DEF S

LEMMA OfferedAgain ==
    ASSUME IsFiniteSet(Org), LinkTypes
    PROVE  SetToSeq({Msg("out", <<o, offered[o]>>) : o \in {x \in Org : offered[x] # 0}}) \in Seq(Upward)
<1> DEFINE D == {x \in Org : offered[x] # 0}
           S == {Msg("out", <<o, offered[o]>>) : o \in D}
           g == [o \in D |-> Msg("out", <<o, offered[o]>>)]
<1>1. IsFiniteSet(D) /\ D \subseteq Org
  BY FS_Subset
<1>2. g \in [D -> S] /\ \A x \in S : \E y \in D : g[y] = x
  OBVIOUS
<1>3. \A o \in D : Msg("out", <<o, offered[o]>>) \in Upward
  <2>1. SUFFICES ASSUME NEW o \in D PROVE Msg("out", <<o, offered[o]>>) \in Upward
    OBVIOUS
  <2>2. offered[o] \in Trip
    BY BoundsAssumption DEF LinkTypes, Trip
  <2>3. <<o, offered[o]>> \in Id
    BY <2>2 DEF Id
  <2>. QED  BY <2>3 DEF Msg, Upward
<1>4. S \subseteq Upward
  BY <1>3
<1> HIDE DEF D, S, g
<1>5. IsFiniteSet(S)
  BY <1>1, <1>2, FramesAbout
<1>6. SetToSeq(S) \in Seq(S)
  BY <1>5, InSomeOrder
<1>. QED
  BY <1>4, <1>6 DEF S, D

(* What a step adds to the frames for the mod, and what it keeps of them. *)
LEMMA MoreForTheMod ==
    ASSUME LinkTypes, AcksKnown, NEW fs \in Seq(Downward), ToMod(fs),
           \A m \in Id : Known(m) => Known(m)',
           \A k \in 1..Len(fs) : fs[k].type = "out_ack" => jr'[fs[k].m] # NoEntry
    PROVE  toMod' \in Seq(Downward) /\ AcksKnown'
<1>1. toMod \in Seq(Downward)
  BY DEF LinkTypes
<1>2. \A k \in 1..Len(toMod) : toMod[k] \in Downward
  BY <1>1
<1>3. \A k \in 1..Len(toMod) : toMod[k].m \in Id
  BY <1>2 DEF Downward
<1>4. CASE link = "down"
  BY <1>1, <1>3, <1>4 DEF ToMod, AcksKnown, Known
<1>5. CASE link # "down"
  <2>1. toMod' = toMod \o fs
    BY <1>5 DEF ToMod
  <2>2. toMod' \in Seq(Downward) /\ Len(toMod') = Len(toMod) + Len(fs)
    BY <1>1, <2>1
  <2>3. ASSUME NEW k \in 1..Len(toMod'), toMod'[k].type = "out_ack" PROVE jr'[toMod'[k].m] # NoEntry
    <3>1. Len(toMod) \in Nat /\ Len(fs) \in Nat
      BY <1>1
    <3>2. CASE k \in 1..Len(toMod)
      <4>1. toMod'[k] = toMod[k]
        BY <3>2, <1>1, <2>1
      <4>. QED  BY <4>1, <3>2, <2>3, <1>3 DEF AcksKnown, Known
    <3>3. CASE k \notin 1..Len(toMod)
      <4>1. k - Len(toMod) \in 1..Len(fs)
        BY <3>1, <3>3, <2>2
      <4>2. toMod'[k] = fs[k - Len(toMod)]
        BY <4>1, <3>1, <1>1, <2>1
      <4>. QED  BY <4>1, <4>2, <2>3 DEF Known
    <3>. QED  BY <3>2, <3>3
  <2>. QED  BY <2>2, <2>3 DEF AcksKnown, Known
<1>. QED
  BY <1>4, <1>5

LEMMA MoreForTheSide ==
    ASSUME LinkTypes, NEW f \in Upward, ToSide(<<f>>)
    PROVE  toSide' \in Seq(Upward)
<1>1. toSide \in Seq(Upward) /\ <<f>> \in Seq(Upward)
  BY DEF LinkTypes
<1>. QED
  BY <1>1 DEF ToSide

(* Nothing the mod does undoes what the journal knows. *)
LEMMA Unmoved ==
    ASSUME AcksKnown, Honest(cur), Honest(old), UNCHANGED <<jr, toMod, cur, old>>
    PROVE  AcksKnown' /\ Honest(cur)' /\ Honest(old)'
  BY DEF AcksKnown, Honest, Known

LEMMA FewerForTheMod ==
    ASSUME LinkTypes, AcksKnown, UNCHANGED jr, toMod # <<>>, toMod' = Tail(toMod)
    PROVE  toMod' \in Seq(Downward) /\ AcksKnown' /\ Head(toMod) \in Downward
           /\ (Head(toMod).type = "out_ack" => Known(Head(toMod).m))
<1>1. toMod \in Seq(Downward) /\ Len(toMod) \in Nat \ {0}
  BY DEF LinkTypes
<1>2. toMod' \in Seq(Downward) /\ Len(toMod') = Len(toMod) - 1
      /\ \A k \in 1..Len(toMod') : toMod'[k] = toMod[k + 1]
  BY <1>1
<1>3. Head(toMod) = toMod[1] /\ Head(toMod) \in Downward
  BY <1>1
<1>4. AcksKnown'
  BY <1>1, <1>2 DEF AcksKnown, Known
<1>. QED
  BY <1>1, <1>2, <1>3, <1>4 DEF AcksKnown

LEMMA KeptForTheMod ==
    ASSUME LinkTypes, AcksKnown, UNCHANGED jr, NEW k \in 0..Len(toMod), toMod' = SubSeq(toMod, 1, k)
    PROVE  toMod' \in Seq(Downward) /\ AcksKnown'
<1>1. toMod \in Seq(Downward) /\ Len(toMod) \in Nat
  BY DEF LinkTypes
<1>2. toMod' \in Seq(Downward) /\ Len(toMod') = k /\ \A i \in 1..k : toMod'[i] = toMod[i]
  BY <1>1
<1>. QED
  BY <1>1, <1>2 DEF AcksKnown, Known

LEMMA LinkStarts == Init => LinkInv
<1>. SUFFICES ASSUME Init PROVE LinkInv
  OBVIOUS
<1>1. toMod \in Seq(Downward) /\ toSide \in Seq(Upward) /\ Len(toMod) = 0
  BY DEF Init
<1>2. LinkTypes
  BY <1>1, BoundsAssumption DEF Init, LinkTypes, Entry, Job
<1>. QED
  BY <1>1, <1>2 DEF Init, LinkInv, AcksKnown, Honest

(* The mod's steps that answer nothing. *)
LEMMA OfferKeeps ==
    ASSUME LinkInv, NEW o \in Org, TryBegin(o) PROVE LinkInv'
<1> DEFINE n == minted[o] + 1
<1>1. /\ n \in Trip /\ body' = [body EXCEPT ![o] = "inert"]
      /\ offered' = [offered EXCEPT ![o] = n] /\ minted' = [minted EXCEPT ![o] = n]
      /\ ToSide(<<Msg("out", <<o, n>>)>>)
      /\ UNCHANGED <<saved, world, jr, link, toMod, cur, old>>
  BY DEF TryBegin, sideVars
<1> HIDE DEF n
<1>2. Msg("out", <<o, n>>) \in Upward
  BY <1>1 DEF Msg, Upward, Id
<1>3. toSide' \in Seq(Upward)
  BY <1>1, <1>2, MoreForTheSide DEF LinkInv
<1>4. n \in 0..MaxTrips
  BY <1>1, BoundsAssumption DEF Trip
<1>5. LinkTypes'
  BY <1>1, <1>3, <1>4 DEF LinkInv, LinkTypes
<1>. QED
  BY <1>1, <1>5, Unmoved DEF LinkInv

LEMMA RestKeeps ==
    ASSUME LinkInv, \/ \E o \in Org : Rest(o)
                    \/ SaveWorld
                    \/ UNCHANGED vars
    PROVE  LinkInv'
<1>1. /\ UNCHANGED <<body, offered, minted, world, jr, link, toMod, toSide, cur, old>>
      /\ saved' \subseteq Org
  BY DEF Rest, SaveWorld, vars, modVars, sideVars, wireVars, LinkInv, LinkTypes
<1>2. LinkTypes'
  BY <1>1 DEF LinkInv, LinkTypes
<1>. QED
  BY <1>1, <1>2, Unmoved DEF LinkInv

LEMMA ConnectKeeps ==
    ASSUME IsFiniteSet(Org), LinkInv, OnConnected PROVE LinkInv'
<1> DEFINE again == SetToSeq({Msg("out", <<o, offered[o]>>) : o \in {x \in Org : offered[x] # 0}})
<1>1. /\ link' = "up" /\ toSide' = <<Config>> \o again
      /\ UNCHANGED <<body, offered, saved, world, minted, jr, toMod, cur, old>>
  BY DEF OnConnected, modVars, sideVars
<1>2. again \in Seq(Upward)
  BY OfferedAgain DEF LinkInv
<1> HIDE DEF again
<1>3. Config \in Upward
  BY DEF Config, Upward, LinkInv, LinkTypes
<1>4. toSide' \in Seq(Upward)
  <2>1. <<Config>> \in Seq(Upward)
    BY <1>3
  <2>. QED  BY <2>1, <1>1, <1>2
<1>5. LinkTypes'
  BY <1>1, <1>4 DEF LinkInv, LinkTypes
<1>. QED
  BY <1>1, <1>5, Unmoved DEF LinkInv

(* What the mod does with a frame: the only place where an organism goes. *)
LEMMA ApplyKeeps ==
    ASSUME LinkInv, ApplyMutations
    PROVE  /\ LinkInv'
           /\ \A o \in Org : (body[o] # "none" /\ body'[o] = "none")
                 => \E n \in Trip : Known(<<o, n>>)
<1> DEFINE f == Head(toMod)
<1>1. /\ toMod # <<>> /\ toMod' = Tail(toMod)
      /\ UNCHANGED <<saved, world, minted, jr, link, cur, old>>
      /\ \/ f.type = "out_ack" /\ HandleAck(f.m)
         \/ f.type = "out_nack" /\ HandleNack(f.m)
         \/ f.type = "in" /\ Handle(f.m)
  <2>1. LinkTypes /\ AcksKnown
    BY DEF LinkInv
  <2>2. toMod # <<>> /\ toMod' = Tail(toMod) /\ UNCHANGED <<saved, world, minted, jr, link, cur, old>>
    BY DEF ApplyMutations, sideVars
  <2>3. f \in Downward
    BY <2>1, <2>2, FewerForTheMod
  <2>4. f.type \in {"out_ack", "out_nack", "in"}
    BY <2>3 DEF Downward
  <2>5. CASE f.type = "out_ack"
    BY <2>2, <2>5 DEF ApplyMutations
  <2>6. CASE f.type = "out_nack"
    BY <2>2, <2>6 DEF ApplyMutations
  <2>7. CASE f.type = "in"
    BY <2>2, <2>7 DEF ApplyMutations
  <2>. QED  BY <2>4, <2>5, <2>6, <2>7
<1>2. /\ toMod' \in Seq(Downward) /\ AcksKnown' /\ f \in Downward
      /\ f.type = "out_ack" => Known(f.m)
  BY <1>1, FewerForTheMod DEF LinkInv
<1> HIDE DEF f
<1>3. f.m \in Id /\ f.m = <<f.m[1], f.m[2]>> /\ f.m[1] \in Org /\ f.m[2] \in Trip
  BY <1>2 DEF Downward, Id
<1>4. body \in [Org -> {"live", "inert", "none"}] /\ offered \in [Org -> 0..MaxTrips]
      /\ toSide \in Seq(Upward) /\ 0 \in 0..MaxTrips
  BY BoundsAssumption DEF LinkInv, LinkTypes
<1>5. /\ body' \in [Org -> {"live", "inert", "none"}] /\ offered' \in [Org -> 0..MaxTrips]
      /\ toSide' \in Seq(Upward)
      /\ \A o \in Org : (body[o] # "none" /\ body'[o] = "none") => f.type = "out_ack" /\ o = f.m[1]
  <2>1. CASE f.type = "out_ack" /\ HandleAck(f.m)
    BY <2>1, <1>3, <1>4 DEF HandleAck
  <2>2. CASE f.type = "out_nack" /\ HandleNack(f.m)
    BY <2>2, <1>3, <1>4 DEF HandleNack
  <2>3. CASE f.type = "in" /\ Handle(f.m)
    <3>1. UNCHANGED offered /\ (body' = body \/ body' = [body EXCEPT ![f.m[1]] = "live"])
      BY <2>3 DEF Handle
    <3>2. ToSide(<<Msg("in_ack", f.m)>>) \/ ToSide(<<Msg("in_nack", f.m)>>) \/ UNCHANGED toSide
      BY <2>3 DEF Handle
    <3>3. Msg("in_ack", f.m) \in Upward /\ Msg("in_nack", f.m) \in Upward
      BY <1>3 DEF Msg, Upward
    <3>4. toSide' \in Seq(Upward)
      BY <3>2, <3>3, <1>4, MoreForTheSide DEF LinkInv
    <3>. QED  BY <3>1, <3>4, <1>3, <1>4
  <2>. QED  BY <1>1, <2>1, <2>2, <2>3
<1>6. LinkTypes'
  BY <1>1, <1>2, <1>5 DEF LinkInv, LinkTypes
<1>7. Honest(cur)' /\ Honest(old)'
  BY <1>1 DEF LinkInv, Honest, Known
<1>. QED
  BY <1>2, <1>3, <1>5, <1>6, <1>7 DEF LinkInv

(* The journal keeps what it knows. *)
Remembers == jr' \in [Id -> Entry] /\ \A m \in Id : Known(m) => jr'[m] # NoEntry

LEMMA EntryTypes ==
    /\ \A d \in {"out", "in"}, s \in {"open", "in_flight", "done", "held"} :
         As(d, s) \in Entry /\ As(d, s) # NoEntry
    /\ NoEntry \in Entry
    /\ \A e \in Entry : e # NoEntry =>
         \A s \in {"open", "in_flight", "done", "held"} :
           [e EXCEPT !.status = s] \in Entry /\ [e EXCEPT !.status = s] # NoEntry
  BY DEF As, NoEntry, Entry

LEMMA Recorded ==
    ASSUME LinkTypes, NEW m \in Id, NEW e \in Entry, e # NoEntry, jr' = [jr EXCEPT ![m] = e]
    PROVE  Remembers /\ jr'[m] # NoEntry
  BY DEF LinkTypes, Remembers, Known

LEMMA Restated ==
    ASSUME LinkTypes, NEW m \in Id, Known(m), NEW s \in {"open", "in_flight", "done", "held"},
           jr' = [jr EXCEPT ![m].status = s]
    PROVE  Remembers
<1>1. jr \in [Id -> Entry] /\ jr[m] \in Entry /\ jr[m] # NoEntry
  BY DEF LinkTypes, Known
<1>2. [jr[m] EXCEPT !.status = s] \in Entry /\ [jr[m] EXCEPT !.status = s] # NoEntry
  BY <1>1, EntryTypes
<1>3. jr' = [jr EXCEPT ![m] = [jr[m] EXCEPT !.status = s]]
  OBVIOUS
<1>. QED
  BY <1>2, <1>3, Recorded

(* A step of the sidecar that forgets nothing and sends nothing. *)
LEMMA Silent ==
    ASSUME LinkInv, Remembers, UNCHANGED <<body, offered, minted, saved, world>>,
           link' \in {"down", "up", "shaken"}, toSide' \in Seq(Upward),
           toMod' \in Seq(Downward), AcksKnown', cur' \in Job, old' \in Job,
           Honest(cur)', Honest(old)'
    PROVE  LinkInv'
  BY DEF LinkInv, LinkTypes, Remembers

LEMMA StillKnown ==
    ASSUME LinkInv, Remembers
    PROVE  /\ UNCHANGED toMod => AcksKnown'
           /\ UNCHANGED cur => Honest(cur)'
           /\ UNCHANGED old => Honest(old)'
<1>1. \A k \in 1..Len(toMod) : toMod[k].m \in Id
  <2>1. \A k \in 1..Len(toMod) : toMod[k] \in Downward
    BY DEF LinkInv, LinkTypes
  <2>. QED  BY <2>1 DEF Downward
<1>2. \A job \in {cur, old} : job # Idle => job[1] \in Id
  BY DEF LinkInv, LinkTypes, Job, Idle
<1>. QED
  BY <1>1, <1>2 DEF LinkInv, AcksKnown, Honest, Remembers, Known

LEMMA TickKeeps ==
    ASSUME LinkInv, \/ \E o \in Org : Arrive(o)
                    \/ \E m \in Id : Forward(m) \/ Bounce(m)
    PROVE  LinkInv'
<1>1. /\ Remembers /\ UNCHANGED <<body, offered, saved, world, link, toMod, toSide, cur, old>>
      /\ minted' \in [Org -> 0..MaxTrips]
  <2>1. CASE \E o \in Org : Arrive(o)
    <3>1. PICK o \in Org : Arrive(o)
      BY <2>1
    <3> DEFINE n == minted[o] + 1
    <3>2. n \in Trip /\ jr' = [jr EXCEPT ![<<o, n>>] = As("in", "open")] /\ minted' = [minted EXCEPT ![o] = n]
          /\ UNCHANGED <<body, offered, saved, world, link, toMod, toSide, cur, old>>
      BY <3>1 DEF Arrive, modVars, wireVars
    <3> HIDE DEF n
    <3>3. <<o, n>> \in Id /\ n \in 0..MaxTrips
      BY <3>2, BoundsAssumption DEF Id, Trip
    <3>4. Remembers
      BY <3>2, <3>3, EntryTypes, Recorded DEF LinkInv
    <3>. QED  BY <3>2, <3>3, <3>4 DEF LinkInv, LinkTypes
  <2>2. CASE \E m \in Id : Forward(m)
    <3>1. PICK m \in Id : Forward(m)
      BY <2>2
    <3>2. Known(m)
      BY <3>1, EntryTypes DEF Forward, Known
    <3>3. Remembers
      BY <3>1, <3>2, Restated DEF Forward, LinkInv
    <3>. QED  BY <3>1, <3>3 DEF Forward, modVars, wireVars, LinkInv, LinkTypes
  <2>3. CASE \E m \in Id : Bounce(m)
    <3>1. PICK m \in Id : Bounce(m)
      BY <2>3
    <3>2. Remembers
      BY <3>1, EntryTypes, Recorded DEF Bounce, LinkInv
    <3>. QED  BY <3>1, <3>2 DEF Bounce, modVars, wireVars, LinkInv, LinkTypes
  <2>. QED  BY <2>1, <2>2, <2>3
<1>2. AcksKnown' /\ Honest(cur)' /\ Honest(old)'
  BY <1>1, StillKnown
<1>. QED
  BY <1>1, <1>2 DEF LinkInv, LinkTypes, Remembers

LEMMA DeliverKeeps ==
    ASSUME LinkInv, NEW m \in Id, Deliver(m) PROVE LinkInv'
<1>1. /\ jr[m] \in {As("in", "open"), As("in", "in_flight")}
      /\ jr' = [jr EXCEPT ![m].status = "in_flight"] /\ ToMod(<<Msg("in", m)>>)
      /\ UNCHANGED <<body, offered, saved, world, minted, link, toSide, cur, old>>
  BY DEF Deliver, modVars
<1>2. Known(m)
  BY <1>1, EntryTypes DEF Known
<1>3. Remembers
  BY <1>1, <1>2, Restated DEF LinkInv
<1> DEFINE fs == <<Msg("in", m)>>
<1>4. fs \in Seq(Downward) /\ Len(fs) = 1 /\ fs[1].type = "in"
  BY DEF Msg, Downward
<1>5. toMod' \in Seq(Downward) /\ AcksKnown'
  <2>1. \A k \in 1..Len(fs) : fs[k].type # "out_ack"
    BY <1>4
  <2>2. \A i \in Id : Known(i) => Known(i)'
    BY <1>3 DEF Remembers, Known
  <2> HIDE DEF fs
  <2>. QED  BY <2>1, <2>2, <1>1, <1>4, MoreForTheMod DEF LinkInv, fs
<1>6. Honest(cur)' /\ Honest(old)'
  BY <1>1, <1>3, StillKnown
<1>. QED
  BY <1>1, <1>3, <1>5, <1>6, Silent DEF LinkInv, LinkTypes

(* The read loop, one frame. *)
LEMMA HandleKeeps ==
    ASSUME IsFiniteSet(Org), LinkInv, handleModFrame PROVE LinkInv'
<1> DEFINE f == Head(toSide)
<1>1. /\ toSide # <<>> /\ cur = Idle /\ toSide' = Tail(toSide)
      /\ UNCHANGED <<body, offered, saved, world, minted, old>>
  BY DEF handleModFrame, modVars
<1>2. toSide \in Seq(Upward) /\ toMod \in Seq(Downward)
  BY DEF LinkInv, LinkTypes
<1>3. f \in Upward /\ toSide' \in Seq(Upward)
  BY <1>1, <1>2
<1>4. \/ f.type = "config" /\ onConfigUpdate(f)
      \/ f.type = "in_ack" /\ f.m \in Id /\ onMigrateInAck(f.m)
      \/ f.type = "in_nack" /\ f.m \in Id /\ onMigrateInNack(f.m)
      \/ /\ f.type = "out" /\ f.m \in Id /\ cur' = <<f.m, "read">>
         /\ UNCHANGED <<jr, known, link, toMod>>
  <2>1. f.type \in {"config", "in_ack", "in_nack", "out"} /\ (f.type # "config" => f.m \in Id)
    BY <1>3 DEF Upward
  <2>2. CASE f.type = "config"
    BY <2>1, <2>2 DEF handleModFrame
  <2>3. CASE f.type = "in_ack"
    BY <2>1, <2>3 DEF handleModFrame
  <2>4. CASE f.type = "in_nack"
    BY <2>1, <2>4 DEF handleModFrame
  <2>5. CASE f.type = "out"
    BY <2>1, <2>5 DEF handleModFrame
  <2>. QED  BY <2>1, <2>2, <2>3, <2>4, <2>5
<1> HIDE DEF f
<1>5. UNCHANGED jr => Remembers
  BY DEF LinkInv, LinkTypes, Remembers, Known
<1>6. CASE f.type = "config" /\ onConfigUpdate(f)
  <2> DEFINE fs == IF f.world \in known THEN <<>>
                   ELSE SetToSeq({Msg("out_ack", m) : m \in Departed})
  <2>1. link' = "shaken" /\ ToMod(fs) /\ UNCHANGED <<jr, cur>>
    BY <1>6 DEF onConfigUpdate
  <2>2. fs \in Seq(Downward) /\ \A k \in 1..Len(fs) : fs[k].type = "out_ack" => Known(fs[k].m)
    <3>1. <<>> \in Seq(Downward) /\ Len(<<>>) = 0
      OBVIOUS
    <3>. QED  BY <3>1, ReassertedIn DEF LinkInv
  <2> HIDE DEF fs
  <2>3. \A k \in 1..Len(fs) : fs[k].type = "out_ack" => jr'[fs[k].m] # NoEntry
    BY <2>1, <2>2 DEF Known
  <2>4. \A m \in Id : Known(m) => Known(m)'
    BY <2>1 DEF Known
  <2>5. toMod' \in Seq(Downward) /\ AcksKnown'
    BY <2>1, <2>2, <2>3, <2>4, MoreForTheMod DEF LinkInv
  <2>6. Remembers /\ Honest(cur)' /\ Honest(old)'
    BY <2>1, <1>1, <1>5, StillKnown
  <2>. QED  BY <2>1, <2>5, <2>6, <1>1, <1>3, Silent DEF LinkInv, LinkTypes
<1>7. CASE f.m \in Id /\ (onMigrateInAck(f.m) \/ onMigrateInNack(f.m))
  <2>1. UNCHANGED <<link, toMod, cur>>
    BY <1>7 DEF onMigrateInAck, onMigrateInNack
  <2>2. \/ UNCHANGED jr
        \/ Known(f.m) /\ \E s \in {"done", "held"} : jr' = [jr EXCEPT ![f.m].status = s]
    BY <1>7 DEF onMigrateInAck, onMigrateInNack
  <2>3. Remembers
    BY <2>2, <1>5, <1>7, Restated DEF LinkInv
  <2>4. AcksKnown' /\ Honest(cur)' /\ Honest(old)'
    BY <2>1, <2>3, <1>1, StillKnown
  <2>. QED  BY <2>1, <2>3, <2>4, <1>1, <1>2, <1>3, Silent DEF LinkInv, LinkTypes
<1>8. CASE f.m \in Id /\ cur' = <<f.m, "read">> /\ UNCHANGED <<jr, known, link, toMod>>
  <2>1. cur' \in Job /\ Honest(cur)'
    BY <1>8 DEF Job, Honest
  <2>2. Remembers
    BY <1>5, <1>8
  <2>3. AcksKnown' /\ Honest(old)'
    BY <2>2, <1>1, <1>8, StillKnown
  <2>. QED  BY <2>1, <2>2, <2>3, <1>1, <1>2, <1>3, <1>8, Silent DEF LinkInv, LinkTypes
<1>. QED
  BY <1>4, <1>6, <1>7, <1>8

(* A handler of MIGRATE_OUT, in this connection or the one before: it writes *)
(* the entry and then acknowledges it.                                       *)
LEMMA OutKeeps ==
    ASSUME LinkInv, NEW job \in Job, Honest(job), NEW own \in BOOLEAN, NEW next,
           onMigrateOut(job, own, next)
    PROVE  /\ Remembers /\ toMod' \in Seq(Downward) /\ AcksKnown'
           /\ next \in Job /\ (next # Idle /\ next[2] = "created" => jr'[next[1]] # NoEntry)
<1> DEFINE m == job[1]
<1>1. job # Idle /\ m \in Id /\ job[2] \in {"read", "checked", "created"}
  BY DEF onMigrateOut, Job, Idle
<1> HIDE DEF m
<1>2. Idle \in Job /\ \A i \in Id, s \in {"read", "checked", "created"} :
        <<i, s>> \in Job /\ <<i, s>> # Idle /\ <<i, s>>[1] = i /\ <<i, s>>[2] = s
  BY DEF Job, Idle
<1>3. UNCHANGED jr => Remembers
  BY DEF LinkInv, LinkTypes, Remembers, Known
<1>4. ASSUME NEW fs \in Seq(Downward), ToMod(fs), Remembers,
             \A k \in 1..Len(fs) : fs[k].type = "out_ack" => jr'[fs[k].m] # NoEntry
      PROVE  toMod' \in Seq(Downward) /\ AcksKnown'
  <2>1. \A i \in Id : Known(i) => Known(i)'
    BY <1>4 DEF Remembers, Known
  <2>. QED  BY <1>4, <2>1, MoreForTheMod DEF LinkInv
<1>5. ASSUME NEW t \in {"out_ack", "out_nack"}
      PROVE  /\ <<Msg(t, m)>> \in Seq(Downward) /\ Len(<<Msg(t, m)>>) = 1
             /\ <<Msg(t, m)>>[1].type = t /\ <<Msg(t, m)>>[1].m = m
  BY <1>1, <1>5 DEF Msg, Downward
<1>6. ASSUME Remembers, ToMod(<<Msg("out_ack", m)>>), jr'[m] # NoEntry
      PROVE  toMod' \in Seq(Downward) /\ AcksKnown'
  <2> DEFINE fs == <<Msg("out_ack", m)>>
  <2>1. fs \in Seq(Downward) /\ Len(fs) = 1 /\ fs[1].m = m
    BY <1>5
  <2>2. ToMod(fs)
    BY <1>6
  <2> HIDE DEF fs
  <2>3. \A k \in 1..Len(fs) : jr'[fs[k].m] # NoEntry
    BY <2>1, <1>6
  <2>. QED  BY <2>1, <2>2, <2>3, <1>4, <1>6
<1>7. ASSUME Remembers, Nacked(m, own)
      PROVE  toMod' \in Seq(Downward) /\ AcksKnown'
  <2>1. CASE own
    <3> DEFINE fs == <<Msg("out_nack", m)>>
    <3>1. fs \in Seq(Downward) /\ Len(fs) = 1 /\ fs[1].type = "out_nack"
      BY <1>5
    <3>2. ToMod(fs)
      BY <1>7, <2>1 DEF Nacked
    <3> HIDE DEF fs
    <3>3. \A k \in 1..Len(fs) : fs[k].type # "out_ack"
      BY <3>1
    <3>. QED  BY <3>1, <3>2, <3>3, <1>4, <1>7
  <2>2. CASE ~own
    <3> DEFINE fs == <<>>
    <3>1. fs \in Seq(Downward) /\ Len(fs) = 0
      OBVIOUS
    <3>2. ToMod(fs)
      BY <1>7, <2>2 DEF Nacked
    <3> HIDE DEF fs
    <3>3. \A k \in 1..Len(fs) : fs[k].type # "out_ack"
      BY <3>1
    <3>. QED  BY <3>1, <3>2, <3>3, <1>4, <1>7
  <2>. QED  BY <2>1, <2>2
<1>8. ASSUME Remembers, UNCHANGED toMod
      PROVE  toMod' \in Seq(Downward) /\ AcksKnown'
  BY <1>8, StillKnown DEF LinkInv, LinkTypes
<1>9. CASE Check(m, own, next)
  <2>1. UNCHANGED jr /\ Remembers
    BY <1>9, <1>3 DEF Check
  <2>2. CASE Known(m) /\ ToMod(<<Msg("out_ack", m)>>) /\ next = Idle
    BY <2>1, <2>2, <1>2, <1>6 DEF Known
  <2>3. CASE Nacked(m, own) /\ next = Idle
    BY <2>1, <2>3, <1>2, <1>7
  <2>4. CASE UNCHANGED toMod /\ next = <<m, "checked">>
    BY <2>1, <2>4, <1>1, <1>2, <1>8
  <2>. QED  BY <1>9, <2>2, <2>3, <2>4 DEF Check
<1>10. CASE CreateEntry(m, own, next)
  <2>1. CASE /\ jr' = [jr EXCEPT ![m] = As("out", "open")] /\ UNCHANGED toMod
             /\ next = <<m, "created">>
    <3>1. Remembers /\ jr'[m] # NoEntry
      BY <2>1, <1>1, EntryTypes, Recorded DEF LinkInv
    <3>. QED  BY <3>1, <2>1, <1>1, <1>2, <1>8
  <2>2. CASE UNCHANGED jr /\ Nacked(m, own) /\ next = Idle
    BY <2>2, <1>2, <1>3, <1>7
  <2>. QED  BY <1>10, <2>1, <2>2 DEF CreateEntry
<1>11. CASE job[2] = "created" /\ next = Idle /\ ToMod(<<Msg("out_ack", m)>>) /\ UNCHANGED jr
  <2>1. jr'[m] # NoEntry
    BY <1>1, <1>11 DEF Honest, Known, m
  <2>. QED  BY <2>1, <1>2, <1>3, <1>6, <1>11
<1>. QED
  BY <1>9, <1>10, <1>11 DEF onMigrateOut, m

LEMMA HandlerKeeps ==
    ASSUME LinkInv, Handler PROVE LinkInv'
<1>1. UNCHANGED <<body, offered, saved, world, minted, link, toSide>>
  BY DEF Handler, modVars
<1>2. cur \in Job /\ old \in Job /\ Honest(cur) /\ Honest(old)
      /\ link \in {"down", "up", "shaken"} /\ toSide \in Seq(Upward)
  BY DEF LinkInv, LinkTypes
<1>3. CASE onMigrateOut(cur, TRUE, cur') /\ UNCHANGED old
  <2>1. Remembers /\ toMod' \in Seq(Downward) /\ AcksKnown' /\ cur' \in Job
        /\ (cur' # Idle /\ cur'[2] = "created" => jr'[cur'[1]] # NoEntry)
    BY <1>2, <1>3, OutKeeps
  <2>2. Honest(cur)'
    BY <2>1 DEF Honest, Known
  <2>3. Honest(old)'
    BY <2>1, <1>3, StillKnown
  <2>. QED  BY <2>1, <2>2, <2>3, <1>1, <1>2, <1>3, Silent
<1>4. CASE onMigrateOut(old, FALSE, old') /\ UNCHANGED cur
  <2>1. Remembers /\ toMod' \in Seq(Downward) /\ AcksKnown' /\ old' \in Job
        /\ (old' # Idle /\ old'[2] = "created" => jr'[old'[1]] # NoEntry)
    BY <1>2, <1>4, OutKeeps
  <2>2. Honest(old)'
    BY <2>1 DEF Honest, Known
  <2>3. Honest(cur)'
    BY <2>1, <1>4, StillKnown
  <2>. QED  BY <2>1, <2>2, <2>3, <1>1, <1>2, <1>4, Silent
<1>. QED
  BY <1>3, <1>4 DEF Handler

(* What goes wrong loses frames and handlers, and no entry. *)
LEMMA FaultKeeps ==
    ASSUME LinkInv, Drop \/ LoadWorld \/ CrashSidecar PROVE LinkInv'
<1>1. UNCHANGED <<jr, minted, saved>>
  BY DEF Drop, LoadWorld, CrashSidecar, modVars, sideVars
<1>2. /\ body' \in [Org -> {"live", "inert", "none"}] /\ offered' \in [Org -> 0..MaxTrips]
      /\ world' \in Nat
  BY BoundsAssumption DEF Drop, LoadWorld, CrashSidecar, modVars, LinkInv, LinkTypes
<1>3. link' = "down" /\ toSide' = <<>>
  BY DEF Drop, LoadWorld, CrashSidecar, Broken
<1>4. \E k \in 0..Len(toMod) : toMod' = SubSeq(toMod, 1, k)
  <2>1. toMod \in Seq(Downward) /\ Len(toMod) \in Nat
    BY DEF LinkInv, LinkTypes
  <2>2. SubSeq(toMod, 1, 0) = <<>> /\ 0 \in 0..Len(toMod)
    BY <2>1
  <2>. QED  BY <2>2 DEF Drop, LoadWorld, CrashSidecar, Broken
<1>5. toMod' \in Seq(Downward) /\ AcksKnown'
  BY <1>1, <1>4, KeptForTheMod DEF LinkInv
<1>6. cur' = Idle /\ (old' = cur \/ old' = Idle)
  BY DEF Drop, LoadWorld, CrashSidecar, Broken
<1>7. cur' \in Job /\ old' \in Job /\ Honest(cur)' /\ Honest(old)'
  BY <1>1, <1>6 DEF LinkInv, LinkTypes, Job, Idle, Honest, Known
<1>8. toSide' \in Seq(Upward)
  BY <1>3
<1>. QED
  BY <1>1, <1>2, <1>3, <1>5, <1>7, <1>8 DEF LinkInv, LinkTypes

(* No step but the handling of an acknowledgement takes an organism out of a *)
(* world that is not loaded again.                                           *)
LEMMA OthersDestroyNone ==
    ASSUME LinkInv, [Next]_vars, ~ApplyMutations, NEW o \in Org, body[o] # "none",
           body'[o] = "none", world' = world
    PROVE  FALSE
<1>1. body \in [Org -> {"live", "inert", "none"}] /\ world \in Nat
  BY DEF LinkInv, LinkTypes
<1>2. CASE \E x \in Org : TryBegin(x)
  BY <1>1, <1>2 DEF TryBegin
<1>3. CASE LoadWorld
  BY <1>1, <1>3 DEF LoadWorld
<1>4. CASE UNCHANGED body
  BY <1>4
<1>. QED
  BY <1>2, <1>3, <1>4
     DEF Next, vars, modVars, Rest, Arrive, Forward, Bounce, Deliver, SaveWorld, OnConnected,
         handleModFrame, Handler, Drop, CrashSidecar

LEMMA LinkStep ==
    ASSUME IsFiniteSet(Org), LinkInv, [Next]_vars PROVE LinkInv'
<1>1. CASE \E o \in Org : TryBegin(o) \/ Rest(o) \/ Arrive(o)
  BY <1>1, OfferKeeps, RestKeeps, TickKeeps
<1>2. CASE \E m \in Id : Forward(m) \/ Bounce(m) \/ Deliver(m)
  BY <1>2, TickKeeps, DeliverKeeps
<1>3. CASE ApplyMutations \/ SaveWorld \/ OnConnected
  BY <1>3, ApplyKeeps, RestKeeps, ConnectKeeps
<1>4. CASE handleModFrame \/ Handler
  BY <1>4, HandleKeeps, HandlerKeeps
<1>5. CASE Drop \/ LoadWorld \/ CrashSidecar
  BY <1>5, FaultKeeps
<1>. QED
  BY <1>1, <1>2, <1>3, <1>4, <1>5, RestKeeps DEF Next

(* The mod destroys an organism only on durable custody, whatever connections *)
(* drop, handlers overlap, worlds are loaded and sidecars restart: what an    *)
(* acknowledgement names was journaled before it was sent, and stays          *)
(* (onMigrateOut, reassertCustodyLocked; MigrationExporter.HandleAck).        *)
THEOREM CustodyBeforeDestruction ==
    ASSUME IsFiniteSet(Org)
    PROVE  Spec => DestroyedOnCustody
<1> DEFINE Due == \A o \in Org : (body[o] # "none" /\ body'[o] = "none" /\ world' = world)
                     => \E n \in Trip : Known(<<o, n>>)
<1>1. LinkInv /\ [Next]_vars => LinkInv'
  BY LinkStep
<1>2. LinkInv /\ [Next]_vars => [Due]_vars
  <2>. SUFFICES ASSUME LinkInv, [Next]_vars, NEW o \in Org, body[o] # "none", body'[o] = "none",
                       world' = world
       PROVE  \E n \in Trip : Known(<<o, n>>)
    OBVIOUS
  <2>1. CASE ApplyMutations
    BY <2>1, ApplyKeeps
  <2>2. CASE ~ApplyMutations
    BY <2>2, OthersDestroyNone
  <2>. QED  BY <2>1, <2>2
<1>. QED
  BY <1>1, <1>2, LinkStarts, PTL DEF Spec, DestroyedOnCustody

-----------------------------------------------------------------------------
(* One copy, through one fault: what is under way, by migration.            *)

Carried(s, t) == {m \in Id : \E k \in DOMAIN s : s[k] = Msg(t, m)}
Acks    == Carried(toMod, "out_ack")
Nacks   == Carried(toMod, "out_nack")
Ins     == Carried(toMod, "in")
Outs    == Carried(toSide, "out")
Replies == Carried(toSide, "in_ack") \cup Carried(toSide, "in_nack")

At(step) == {m \in Id : cur = <<m, step>> \/ old = <<m, step>>}
Busy     == At("read") \cup At("checked") \cup At("created")

Of(o)    == {m \in Id : m[1] = o}
Offers   == {m \in Id : offered[m[1]] = m[2]}
Pending  == Outs \cup Busy           \* an offer the sidecar may still take
Promised == Acks \cup At("created")  \* a departure the mod will hear of

(* What stands for an organism that is not in this world. *)
Token(m) == jr[m] = As("out", "open") \/ (jr[m].dir = "in" /\ m \notin ledger)
Away(o)  == o \in abroad \/ \E m \in Of(o) : Token(m)
Gone(o)  == o \in abroad \/ \E m \in Of(o) : jr[m] = As("out", "open")

(* A handler of a lost connection may still be at work beside a new one. *)
Late == faults = 1 /\ link # "down"

(* What a migration's number, its entry and the two ends may be. *)
Mentioned == Acks \cup Nacks \cup Ins \cup Outs \cup Replies \cup Busy \cup Offers
Bounded   == \A m \in Id : m \in Mentioned \/ Known(m) => m[2] <= minted[m[1]]
Inbound   == \A m \in Ins \cup Replies : jr[m].dir = "in"
FirstTrip == \A o \in Org : o \in abroad /\ minted[o] <= 1 =>
                 minted[o] = 1 /\ jr[<<o, 1>>] = As("out", "in_flight")
Frozen    == \A o \in Org : body[o] = "inert" <=> offered[o] # 0

Greeted == /\ \A k \in DOMAIN toSide : toSide[k].type = "config" =>
                   k = 1 /\ link = "up" /\ toSide[k].world = world
           /\ known \subseteq 1..world
           /\ link = "shaken" => world \in known
           /\ link = "down" => cur = Idle /\ toSide = <<>>
Faulted == /\ faults \in {0, 1} /\ (world = 1 \/ (world = 2 /\ faults = 1))
           /\ faults = 0 => old = Idle
           /\ faults = 0 /\ link # "shaken" =>
                  \A o \in Org : offered[o] = 0 /\ o \notin abroad /\ \A m \in Of(o) : ~Known(m)
           /\ world = 2 /\ link # "shaken" => \A o \in Org : offered[o] = 0
           /\ world = 2 /\ link = "down" => 2 \notin known

(* Until a handler may be late, an organism's one offer is the only thing   *)
(* under way about its departure.                                           *)
Alone(o) == IF world = 1 THEN faults = 0 \/ link = "down"
                         ELSE minted[o] <= 1 /\ offered[o] # 0
OneFrame(o) == \A k, l \in DOMAIN toSide :
    /\ toSide[k].type = "out" /\ toSide[k].m[1] = o
    /\ toSide[l].type = "out" /\ toSide[l].m[1] = o
    => k = l
OnePlaceOnly(o) == /\ Outs \cap Of(o) # {} => Busy \cap Of(o) = {}
                   /\ cur = Idle \/ old = Idle \/ cur[1][1] # o \/ old[1][1] # o
Undisturbed(o) ==
    /\ \A m \in Of(o) \cap Pending : m \in Offers /\ m \notin Acks /\ m \notin Nacks
    /\ OneFrame(o) /\ OnePlaceOnly(o)
    /\ \A m \in Of(o) : (m \in Nacks /\ m \in Offers) \/ m \in At("checked") => ~Known(m)
Lone == \A o \in Org : Alone(o) => Undisturbed(o)

(* The first world session. *)
LiveAway    == \A o \in Org : body[o] = "live" /\ Away(o) =>
                   o \in resting /\ Late /\ Promised \cap Of(o) # {}
LivePending == \A m \in Pending : ~Known(m) /\ body[m[1]] = "live" => m[1] \in resting /\ Late
NackAway    == \A m \in Nacks \cap Offers : Away(m[1]) => m \in Promised /\ Late
Rechecked   == \A m \in At("checked") \cap Offers : Known(m) => m \in Promised /\ Late
Unresolved  == \A m \in Pending \cup Offers : ~Known(m) => m[2] = minted[m[1]] /\ ~Away(m[1])
LastOffered == \A m \in Offers : m[2] = minted[m[1]] \/ Known(<<m[1], minted[m[1]]>>)
OneToken    == /\ \A m, n \in Id : Token(m) /\ Token(n) /\ m[1] = n[1] => m = n
               /\ \A m \in Id : m[1] \in abroad => ~Token(m)
Traced      == \A o \in Org :
    /\ minted[o] = 0 => body[o] = "live"
    /\ minted[o] = 1 =>
        /\ body[o] = "none" => Known(<<o, 1>>)
        /\ jr[<<o, 1>>].dir = "out" => jr[<<o, 1>>] = As("out", "open") \/ o \in abroad
InFirstWorld == /\ LiveAway /\ LivePending /\ NackAway /\ Rechecked
                /\ Unresolved /\ LastOffered /\ OneToken /\ Traced

(* The world loaded after it. *)
AfterLoad == \A o \in Org : minted[o] <= 1 /\ body[o] = "live" /\ Gone(o) =>
                 2 \notin known \/ Promised \cap Of(o) # {}

Grounds == Bounded /\ Inbound /\ FirstTrip /\ Frozen /\ Greeted /\ Faulted
Conserved == /\ Grounds /\ Lone
             /\ world = 1 => InFirstWorld
             /\ world = 2 => AfterLoad
OneCopyInv == LinkInv /\ Conserved

LEMMA IdParts ==
    /\ Trip \subseteq Nat /\ \A n \in Trip : n >= 1
    /\ \A m \in Id : m[1] \in Org /\ m[2] \in Trip /\ m = <<m[1], m[2]>>
    /\ \A o \in Org, n \in Trip : <<o, n>> \in Id /\ <<o, n>>[1] = o /\ <<o, n>>[2] = n
    /\ \A m, n \in Id : m[1] = n[1] /\ m[2] = n[2] => m = n
  BY BoundsAssumption DEF Id, Trip

LEMMA Kinds ==
    /\ As("out", "open") # NoEntry /\ As("out", "in_flight") # NoEntry /\ As("in", "open") # NoEntry
    /\ As("out", "open") # As("out", "in_flight")
    /\ As("out", "open").dir = "out" /\ As("out", "in_flight").dir = "out"
    /\ As("in", "open").dir = "in" /\ As("in", "in_flight").dir = "in" /\ NoEntry.dir = "none"
  BY DEF As, NoEntry

LEMMA MsgParts ==
    ASSUME NEW t, NEW m, NEW u, NEW n
    PROVE  /\ Msg(t, m).type = t /\ Msg(t, m).m = m
           /\ Msg(t, m) = Msg(u, n) <=> t = u /\ m = n
  BY DEF Msg

(* Frames sent, read and lost. *)
LEMMA CarriedOf ==
    ASSUME NEW t, NEW m
    PROVE  \A x \in Id : x \in Carried(<<Msg(t, m)>>, t) <=> x = m
<1>1. DOMAIN <<Msg(t, m)>> = {1} /\ <<Msg(t, m)>>[1] = Msg(t, m)
  OBVIOUS
<1>. QED
  BY <1>1, MsgParts DEF Carried

LEMMA CarriedNoOther ==
    ASSUME NEW t, NEW m, NEW u, u # t
    PROVE  Carried(<<Msg(t, m)>>, u) = {}
<1>1. DOMAIN <<Msg(t, m)>> = {1} /\ <<Msg(t, m)>>[1] = Msg(t, m)
  OBVIOUS
<1>. QED
  BY <1>1, MsgParts DEF Carried

LEMMA CarriedBoth ==
    ASSUME NEW S, NEW s \in Seq(S), NEW r \in Seq(S), NEW t
    PROVE  Carried(s \o r, t) = Carried(s, t) \cup Carried(r, t)
<1>1. /\ Len(s) \in Nat /\ Len(r) \in Nat /\ Len(s \o r) = Len(s) + Len(r)
      /\ DOMAIN s = 1..Len(s) /\ DOMAIN r = 1..Len(r) /\ DOMAIN (s \o r) = 1..Len(s \o r)
  OBVIOUS
<1>2. \A k \in 1..Len(s) : (s \o r)[k] = s[k] /\ k \in DOMAIN (s \o r)
  BY <1>1
<1>3. \A k \in 1..Len(r) : (s \o r)[Len(s) + k] = r[k] /\ Len(s) + k \in DOMAIN (s \o r)
  BY <1>1
<1>4. ASSUME NEW k \in DOMAIN (s \o r), k \notin DOMAIN s
      PROVE  k - Len(s) \in DOMAIN r /\ (s \o r)[k] = r[k - Len(s)]
  BY <1>1, <1>4
<1> DEFINE j == s \o r
<1> HIDE DEF j
<1>5. ASSUME NEW m, NEW k \in DOMAIN j, j[k] = Msg(t, m)
      PROVE  (\E i \in DOMAIN s : s[i] = Msg(t, m)) \/ \E i \in DOMAIN r : r[i] = Msg(t, m)
  BY <1>1, <1>2, <1>4, <1>5 DEF j
<1>6. ASSUME NEW m, (\E i \in DOMAIN s : s[i] = Msg(t, m)) \/ \E i \in DOMAIN r : r[i] = Msg(t, m)
      PROVE  \E k \in DOMAIN j : j[k] = Msg(t, m)
  BY <1>1, <1>2, <1>3, <1>6 DEF j
<1>. QED
  BY <1>5, <1>6 DEF Carried, j

LEMMA CarriedRead ==
    ASSUME NEW S, NEW s \in Seq(S), s # <<>>, NEW t
    PROVE  /\ Carried(Tail(s), t) \subseteq Carried(s, t)
           /\ \A m \in Carried(s, t) : m \in Carried(Tail(s), t) \/ Head(s) = Msg(t, m)
           /\ \A m \in Id : Head(s) = Msg(t, m) => m \in Carried(s, t)
<1>1. /\ Len(s) \in Nat \ {0} /\ DOMAIN s = 1..Len(s) /\ Head(s) = s[1]
      /\ DOMAIN Tail(s) = 1..(Len(s) - 1)
      /\ \A k \in DOMAIN Tail(s) : Tail(s)[k] = s[k + 1]
  OBVIOUS
<1>2. \A k \in DOMAIN Tail(s) : k + 1 \in DOMAIN s
  BY <1>1
<1>3. \A k \in DOMAIN s : k = 1 \/ (k - 1 \in DOMAIN Tail(s) /\ Tail(s)[k - 1] = s[k])
  BY <1>1
<1>4. 1 \in DOMAIN s
  BY <1>1
<1> DEFINE r == Tail(s)
<1> HIDE DEF r
<1>. QED
  BY <1>1, <1>2, <1>3, <1>4 DEF Carried, r

LEMMA CarriedPart ==
    ASSUME NEW S, NEW s \in Seq(S), NEW k \in 0..Len(s), NEW t
    PROVE  Carried(SubSeq(s, 1, k), t) \subseteq Carried(s, t)
<1>1. /\ DOMAIN SubSeq(s, 1, k) = 1..k /\ \A i \in 1..k : SubSeq(s, 1, k)[i] = s[i] /\ i \in DOMAIN s
  OBVIOUS
<1>. QED
  BY <1>1 DEF Carried

(* A set in some order has all of it, and nothing twice. *)
LEMMA AllInOrder ==
    ASSUME NEW S, IsFiniteSet(S)
    PROVE  /\ \A x \in S : \E k \in DOMAIN SetToSeq(S) : SetToSeq(S)[k] = x
           /\ \A k, l \in DOMAIN SetToSeq(S) : SetToSeq(S)[k] = SetToSeq(S)[l] => k = l
<1> DEFINE n == Cardinality(S)
           f == SetToSeq(S)
<1>1. n \in Nat /\ ExistsBijection(1..n, S)
  BY FS_CardinalityType
<1>2. \E g \in [1..n -> S] : IsInjective(g)
  BY <1>1 DEF ExistsBijection, Bijection, Injection
<1>3. f \in [1..n -> S] /\ IsInjective(f)
  BY <1>2 DEF SetToSeq
<1> HIDE DEF f, n
<1>4. f \in Injection(1..n, S)
  BY <1>3 DEF Injection
<1>5. IsFiniteSet(1..n) /\ Cardinality(1..n) = n
  BY <1>1, FS_Interval
<1>6. f \in Surjection(1..n, S)
  BY <1>4, <1>5, FS_Injection DEF n
<1>7. \A x \in S : \E k \in DOMAIN f : f[k] = x
  BY <1>3, <1>6 DEF Surjection
<1>. QED
  BY <1>3, <1>7 DEF f, IsInjective

LEMMA CarriedInOrder ==
    ASSUME NEW S, IsFiniteSet(S), NEW t
    PROVE  Carried(SetToSeq(S), t) = {m \in Id : Msg(t, m) \in S}
<1>1. \A k \in DOMAIN SetToSeq(S) : SetToSeq(S)[k] \in S
  BY InSomeOrder
<1>. QED
  BY <1>1, AllInOrder DEF Carried

LEMMA UnderWay ==
    /\ Acks = Carried(toMod, "out_ack") /\ Acks' = Carried(toMod', "out_ack")
    /\ Nacks = Carried(toMod, "out_nack") /\ Nacks' = Carried(toMod', "out_nack")
    /\ Ins = Carried(toMod, "in") /\ Ins' = Carried(toMod', "in")
    /\ Outs = Carried(toSide, "out") /\ Outs' = Carried(toSide', "out")
    /\ Replies = Carried(toSide, "in_ack") \cup Carried(toSide, "in_nack")
    /\ Replies' = Carried(toSide', "in_ack") \cup Carried(toSide', "in_nack")
  BY DEF Acks, Nacks, Ins, Outs, Replies, Carried

(* What a step does to what is under way, by what it does to the frames. *)
LEMMA NothingForTheMod ==
    ASSUME UNCHANGED toMod
    PROVE  Acks' = Acks /\ Nacks' = Nacks /\ Ins' = Ins
  BY DEF Acks, Nacks, Ins, Carried

LEMMA NothingForTheSide ==
    ASSUME UNCHANGED toSide
    PROVE  Outs' = Outs /\ Replies' = Replies /\ \A o \in Org : OneFrame(o)' = OneFrame(o)
  BY DEF Outs, Replies, Carried, OneFrame

LEMMA SameJobs ==
    ASSUME UNCHANGED <<cur, old>>
    PROVE  \A s : At(s)' = At(s)
  BY DEF At

LEMMA SentToMod ==
    ASSUME LinkTypes, NEW m \in Id, NEW t \in {"out_ack", "out_nack", "in"}, ToMod(<<Msg(t, m)>>)
    PROVE  \A x \in Id :
             /\ x \in Acks' <=> x \in Acks \/ (t = "out_ack" /\ x = m /\ link # "down")
             /\ x \in Nacks' <=> x \in Nacks \/ (t = "out_nack" /\ x = m /\ link # "down")
             /\ x \in Ins' <=> x \in Ins \/ (t = "in" /\ x = m /\ link # "down")
<1> DEFINE fs == <<Msg(t, m)>>
<1>1. toMod \in Seq(Downward) /\ fs \in Seq(Downward)
  BY DEF LinkTypes, Msg, Downward
<1>2. toMod' = IF link = "down" THEN toMod ELSE toMod \o fs
  BY DEF ToMod
<1>3. \A u : u # t => Carried(fs, u) = {}
  BY CarriedNoOther
<1>4. \A x \in Id : x \in Carried(fs, t) <=> x = m
  BY CarriedOf
<1> HIDE DEF fs
<1>5. \A u : Carried(toMod \o fs, u) = Carried(toMod, u) \cup Carried(fs, u)
  BY <1>1, CarriedBoth
<1>6. \A u : \A x \in Id : x \in Carried(toMod', u) <=> x \in Carried(toMod, u) \/ (u = t /\ x = m /\ link # "down")
  BY <1>2, <1>3, <1>4, <1>5
<1>. QED
  BY <1>6, UnderWay

LEMMA SentToSide ==
    ASSUME LinkTypes, NEW m \in Id, NEW t \in {"out", "in_ack", "in_nack"}, ToSide(<<Msg(t, m)>>)
    PROVE  /\ \A x \in Id :
                /\ x \in Outs' <=> x \in Outs \/ (t = "out" /\ x = m /\ link # "down")
                /\ x \in Replies' <=> x \in Replies \/ (t # "out" /\ x = m /\ link # "down")
           /\ \A o \in Org : OneFrame(o) /\ (t = "out" /\ o = m[1] => Outs \cap Of(o) = {}) => OneFrame(o)'
           /\ \A k \in DOMAIN toSide' : toSide'[k].type = "config" => k \in DOMAIN toSide /\ toSide'[k] = toSide[k]
<1> DEFINE f == Msg(t, m)
           fs == <<f>>
<1>1. toSide \in Seq(Upward) /\ fs \in Seq(Upward) /\ f.type = t /\ f.m = m
  BY DEF LinkTypes, Msg, Upward
<1>2. toSide' = IF link = "down" THEN toSide ELSE toSide \o fs
  BY DEF ToSide
<1>3. \A u : u # t => Carried(fs, u) = {}
  BY CarriedNoOther
<1>4. \A x \in Id : x \in Carried(fs, t) <=> x = m
  BY CarriedOf
<1>5. Len(fs) = 1 /\ fs[1] = f
  OBVIOUS
<1> HIDE DEF fs, f
<1>6. \A u : Carried(toSide \o fs, u) = Carried(toSide, u) \cup Carried(fs, u)
  BY <1>1, CarriedBoth
<1>7. \A u : \A x \in Id : x \in Carried(toSide', u) <=> x \in Carried(toSide, u) \/ (u = t /\ x = m /\ link # "down")
  BY <1>2, <1>3, <1>4, <1>6
<1>8. \A x \in Id :
         /\ x \in Outs' <=> x \in Outs \/ (t = "out" /\ x = m /\ link # "down")
         /\ x \in Replies' <=> x \in Replies \/ (t # "out" /\ x = m /\ link # "down")
  BY <1>7, UnderWay
<1>9. \A k \in DOMAIN toSide' : (k \in DOMAIN toSide /\ toSide'[k] = toSide[k])
                                \/ (k = Len(toSide) + 1 /\ toSide'[k] = f)
  <2>1. CASE link = "down"
    BY <1>2, <2>1
  <2>2. CASE link # "down"
    <3>1. toSide' = toSide \o fs /\ Len(toSide) \in Nat /\ DOMAIN toSide = 1..Len(toSide)
      BY <1>1, <1>2, <2>2
    <3>2. DOMAIN toSide' = 1..(Len(toSide) + 1)
      <4>1. toSide' \in Seq(Upward) /\ Len(toSide') = Len(toSide) + Len(fs)
        BY <1>1, <3>1
      <4>. QED  BY <4>1, <1>5
    <3>3. \A k \in 1..Len(toSide) : toSide'[k] = toSide[k]
      BY <1>1, <3>1
    <3>4. toSide'[Len(toSide) + 1] = f
      <4>1. toSide'[Len(toSide) + 1] = fs[(Len(toSide) + 1) - Len(toSide)]
        <5>1. Len(toSide) + 1 \in Len(toSide) + 1..Len(toSide) + Len(fs)
          BY <1>5, <3>1
        <5>. QED  BY <1>1, <3>1, <5>1
      <4>2. (Len(toSide) + 1) - Len(toSide) = 1
        BY <3>1
      <4>. QED  BY <4>1, <4>2, <1>5
    <3>. QED  BY <3>1, <3>2, <3>3, <3>4
  <2>. QED  BY <2>1, <2>2
<1>10. ASSUME NEW k \in DOMAIN toSide, NEW o \in Org, toSide[k].type = "out", toSide[k].m[1] = o
       PROVE  Outs \cap Of(o) # {}
  <2>1. toSide[k] \in Upward
    BY <1>1
  <2>2. toSide[k].m \in Id /\ toSide[k] = Msg("out", toSide[k].m)
    BY <2>1, <1>10 DEF Upward, Msg
  <2>. QED  BY <2>2, <1>10 DEF Outs, Carried, Of
<1>11. ASSUME NEW o \in Org, OneFrame(o), t = "out" /\ o = m[1] => Outs \cap Of(o) = {}
       PROVE  OneFrame(o)'
  BY <1>9, <1>10, <1>11, <1>1 DEF OneFrame
<1>12. \A k \in DOMAIN toSide' : toSide'[k].type = "config" => k \in DOMAIN toSide /\ toSide'[k] = toSide[k]
  BY <1>1, <1>9
<1>. QED
  BY <1>8, <1>11, <1>12

LEMMA ReadByMod ==
    ASSUME LinkTypes, toMod # <<>>, toMod' = Tail(toMod)
    PROVE  LET f == Head(toMod) IN
           /\ f \in Downward /\ f = Msg(f.type, f.m) /\ f.m \in Id
           /\ f.type = "out_ack" => f.m \in Acks
           /\ f.type = "out_nack" => f.m \in Nacks
           /\ f.type = "in" => f.m \in Ins
           /\ \A x \in Id :
                /\ x \in Acks' => x \in Acks
                /\ x \in Acks => x \in Acks' \/ (f.type = "out_ack" /\ x = f.m)
                /\ x \in Nacks' => x \in Nacks
                /\ x \in Ins' => x \in Ins
<1> DEFINE f == Head(toMod)
<1>1. toMod \in Seq(Downward) /\ f \in Downward
  BY DEF LinkTypes
<1> HIDE DEF f
<1>2. f = Msg(f.type, f.m) /\ f.m \in Id
  BY <1>1 DEF Downward, Msg
<1>3. \A u : \A x \in Id : /\ x \in Carried(toMod', u) => x \in Carried(toMod, u)
                           /\ x \in Carried(toMod, u) => x \in Carried(toMod', u) \/ f = Msg(u, x)
                           /\ f = Msg(u, x) => x \in Carried(toMod, u)
  BY <1>1, CarriedRead DEF f
<1>4. \A u : \A x \in Id : f = Msg(u, x) <=> f.type = u /\ x = f.m
  BY <1>2, MsgParts
<1>. QED
  BY <1>1, <1>2, <1>3, <1>4, UnderWay DEF f

LEMMA ReadBySide ==
    ASSUME LinkTypes, toSide # <<>>, toSide' = Tail(toSide)
    PROVE  LET f == Head(toSide) IN
           /\ f \in Upward
           /\ f.type # "config" => f = Msg(f.type, f.m) /\ f.m \in Id
           /\ 1 \in DOMAIN toSide /\ f = toSide[1]
           /\ f.type = "out" => f.m \in Outs
           /\ f.type \in {"in_ack", "in_nack"} => f.m \in Replies
           /\ \A x \in Id : (x \in Outs' => x \in Outs) /\ (x \in Replies' => x \in Replies)
           /\ \A o \in Org : OneFrame(o) =>
                OneFrame(o)' /\ (f.type = "out" /\ f.m[1] = o => Outs' \cap Of(o) = {})
           /\ \A k \in DOMAIN toSide' : k + 1 \in DOMAIN toSide /\ k + 1 # 1 /\ toSide'[k] = toSide[k + 1]
<1> DEFINE f == Head(toSide)
<1>1. toSide \in Seq(Upward) /\ f \in Upward /\ 1 \in DOMAIN toSide /\ f = toSide[1]
  BY DEF LinkTypes
<1>2. \A k \in DOMAIN toSide' : k + 1 \in DOMAIN toSide /\ k + 1 # 1 /\ toSide'[k] = toSide[k + 1]
  BY <1>1
<1>3. \A u : \A x \in Id : /\ x \in Carried(toSide', u) => x \in Carried(toSide, u)
                           /\ f = Msg(u, x) => x \in Carried(toSide, u)
  BY <1>1, CarriedRead
<1> HIDE DEF f
<1>4. f.type # "config" => f = Msg(f.type, f.m) /\ f.m \in Id
  BY <1>1 DEF Upward, Msg
<1>5. f.type = "out" => f.m \in Outs
  BY <1>3, <1>4, UnderWay
<1>6. f.type \in {"in_ack", "in_nack"} => f.m \in Replies
  BY <1>3, <1>4, UnderWay
<1>7. \A x \in Id : (x \in Outs' => x \in Outs) /\ (x \in Replies' => x \in Replies)
  BY <1>3, UnderWay
<1>8. \A k \in DOMAIN toSide' : k \in Nat
  BY <1>1
<1>9. ASSUME NEW o \in Org, OneFrame(o)
      PROVE  OneFrame(o)' /\ (f.type = "out" /\ f.m[1] = o => Outs' \cap Of(o) = {})
  <2>1. OneFrame(o)'
    <3>1. \A k, l \in DOMAIN toSide' : k + 1 = l + 1 => k = l
      BY <1>8
    <3>. QED  BY <1>2, <1>9, <3>1 DEF OneFrame
  <2>2. ASSUME f.type = "out", f.m[1] = o, NEW x \in Outs' \cap Of(o) PROVE FALSE
    <3>1. x \in Id /\ x[1] = o /\ \E k \in DOMAIN toSide' : toSide'[k] = Msg("out", x)
      BY <2>2 DEF Outs, Carried, Of
    <3>2. PICK k \in DOMAIN toSide' : toSide'[k] = Msg("out", x)
      BY <3>1
    <3>3. k + 1 \in DOMAIN toSide /\ k + 1 # 1 /\ toSide[k + 1].type = "out" /\ toSide[k + 1].m[1] = o
      BY <1>2, <3>1, <3>2, MsgParts
    <3>. QED  BY <1>1, <1>9, <2>2, <3>3 DEF OneFrame
  <2>. QED  BY <2>1, <2>2
<1>. QED
  BY <1>1, <1>2, <1>4, <1>5, <1>6, <1>7, <1>9 DEF f

-----------------------------------------------------------------------------
(* What a part of the invariant needs of a step to be kept. *)

LEMMA BoundedKept ==
    ASSUME Bounded, \A o \in Org : minted[o] <= minted'[o] /\ minted[o] \in Nat /\ minted'[o] \in Nat,
           \A m \in Id : m \in Mentioned' \/ Known(m)' =>
               m \in Mentioned \/ Known(m) \/ m[2] = minted'[m[1]]
    PROVE  Bounded'
<1>. SUFFICES ASSUME NEW m \in Id, m \in Mentioned' \/ Known(m)'
     PROVE  m[2] <= minted'[m[1]]
  BY DEF Bounded
<1>1. m[1] \in Org /\ m[2] \in Nat
  BY IdParts
<1>2. CASE m \in Mentioned \/ Known(m)
  <2>1. m[2] <= minted[m[1]]
    BY <1>2 DEF Bounded
  <2>. QED  BY <1>1, <2>1
<1>3. CASE m[2] = minted'[m[1]]
  BY <1>1, <1>3
<1>. QED
  BY <1>2, <1>3

LEMMA UndisturbedKept ==
    ASSUME NEW o \in Org, Undisturbed(o), UNCHANGED offered,
           \A m \in Of(o) :
             /\ m \in Pending' => m \in Pending /\ (m \in Acks' => m \in Acks) /\ (m \in Nacks' => m \in Nacks)
             /\ m \in Nacks' /\ m \in Offers => m \in Nacks \/ ~Known(m)
             /\ m \in At("checked")' => m \in At("checked") \/ ~Known(m)
             /\ Known(m)' => Known(m),
           OneFrame(o)', OnePlaceOnly(o)'
    PROVE  Undisturbed(o)'
<1>1. \A m \in Id : m \in Offers' <=> m \in Offers
  BY DEF Offers
<1>2. \A m : m \in Of(o)' <=> m \in Of(o)
  BY DEF Of
<1>3. Of(o) \subseteq Id
  BY DEF Of
<1>4. \A m \in Of(o)' \cap Pending' : m \in Offers' /\ m \notin Acks' /\ m \notin Nacks'
  BY <1>1, <1>2, <1>3 DEF Undisturbed
<1>5. \A m \in Of(o)' : (m \in Nacks' /\ m \in Offers') \/ m \in At("checked")' => ~Known(m)'
  BY <1>1, <1>2, <1>3 DEF Undisturbed
<1>. QED
  BY <1>4, <1>5 DEF Undisturbed

LEMMA AfterLoadKept ==
    ASSUME AfterLoad, UNCHANGED minted,
           \A o \in Org : body'[o] = "live" /\ Gone(o)' => body[o] = "live" /\ Gone(o),
           2 \in known' => 2 \in known /\ Promised \subseteq Promised'
    PROVE  AfterLoad'
<1>1. \A o : Of(o)' = Of(o)
  BY DEF Of
<1>. QED
  BY <1>1 DEF AfterLoad

(* Most steps of the first session move frames, and what stands for an      *)
(* organism only goes.                                                      *)
LEMMA FirstWorldKept ==
    ASSUME LinkTypes, Bounded, InFirstWorld, Frozen, UNCHANGED <<body, offered, minted, resting>>,
           \A m \in Id :
             /\ Known(m)' <=> Known(m)
             /\ m \in Pending' => m \in Pending \/ m \in Offers
             /\ m \in Nacks' /\ m \in Offers => m \in Nacks \/ ~Away(m[1]) \/ (m \in Promised /\ Late)
             /\ m \in At("checked")' => m \in At("checked") \/ ~Known(m),
           \A o \in Org : Away(o)' => Away(o),
           Late => Late' /\ Promised \subseteq Promised',
           OneToken', Traced'
    PROVE  InFirstWorld'
<1>1. \A m \in Id : m \in Offers' <=> m \in Offers
  BY DEF Offers
<1>2. \A o : Of(o)' = Of(o) /\ Of(o) \subseteq Id
  BY DEF Of
<1>3. \A m \in Id : m[1] \in Org
  BY IdParts
<1>4. \A m \in Offers : m \in Id /\ body[m[1]] # "live"
  <2>1. \A m \in Offers : m \in Id /\ offered[m[1]] = m[2] /\ m[1] \in Org /\ m[2] # 0
    BY IdParts DEF Offers
  <2>. QED  BY <2>1 DEF Frozen
<1>5. Pending' \subseteq Id /\ Nacks' \subseteq Id /\ Offers' \subseteq Id /\ At("checked")' \subseteq Id /\ Promised \subseteq Id
  BY DEF Pending, Busy, Promised, Acks, Outs, Nacks, Offers, At, Carried
<1>6. LiveAway'
  BY <1>2 DEF InFirstWorld, LiveAway
<1>7. LivePending'
  BY <1>4, <1>5 DEF InFirstWorld, LivePending
<1>8. NackAway'
  BY <1>1, <1>3, <1>5 DEF InFirstWorld, NackAway
<1>9. Rechecked'
  BY <1>1, <1>3, <1>5 DEF InFirstWorld, Rechecked
<1>10. Unresolved'
  BY <1>1, <1>3, <1>5 DEF InFirstWorld, Unresolved
<1>11. LastOffered'
  <2>1. ASSUME NEW m \in Offers, Known(<<m[1], minted[m[1]]>>), m[2] # minted[m[1]]
        PROVE  Known(<<m[1], minted[m[1]]>>)'
    <3>1. m \in Id /\ m[1] \in Org /\ m[2] \in Nat /\ m[2] >= 1
      BY IdParts DEF Offers
    <3>2. m[2] <= minted[m[1]] /\ minted[m[1]] \in 0..MaxTrips
      BY <3>1 DEF Bounded, Mentioned, LinkTypes
    <3>3. <<m[1], minted[m[1]]>> \in Id
      <4>1. minted[m[1]] \in Trip
        BY <3>1, <3>2, BoundsAssumption DEF Trip
      <4>. QED  BY <3>1, <4>1, IdParts
    <3> DEFINE i == <<m[1], minted[m[1]]>>
    <3>4. i' = i /\ i \in Id /\ Known(i)
      BY <2>1, <3>3
    <3> HIDE DEF i
    <3>5. Known(i)' <=> jr'[i'] # NoEntry
      BY DEF Known
    <3>6. Known(i)'
      BY <3>4, <3>5 DEF Known
    <3>. QED  BY <3>6 DEF i
  <2>. QED  BY <1>1, <1>3, <1>5, <2>1 DEF InFirstWorld, LastOffered
<1>. QED
  BY <1>6, <1>7, <1>8, <1>9, <1>10, <1>11 DEF InFirstWorld

(* An entry stays, or was and is one to deliver here. *)
SameEntries == \A m \in Id :
    \/ jr'[m] = jr[m]
    \/ jr'[m].dir = "in" /\ (jr[m].dir = "in" \/ jr[m] = As("out", "open"))

LEMMA SameTokens ==
    ASSUME LinkTypes, SameEntries, ledger \subseteq ledger', UNCHANGED abroad
    PROVE  /\ \A m \in Id : (Known(m)' <=> Known(m)) /\ (Token(m)' => Token(m))
           /\ \A m \in Id : jr[m].dir = "in" => jr'[m].dir = "in"
           /\ \A o \in Org : (Away(o)' => Away(o)) /\ (Gone(o)' => Gone(o))
           /\ OneToken => OneToken'
           /\ UNCHANGED <<minted, body>> /\ Traced => Traced'
<1>1. ASSUME NEW m \in Id
      PROVE  (Known(m)' <=> Known(m)) /\ (Token(m)' => Token(m))
             /\ (jr[m].dir = "in" => jr'[m].dir = "in")
             /\ (jr'[m].dir = "out" => jr'[m] = jr[m])
  <2>1. CASE jr'[m] = jr[m]
    BY <2>1 DEF Known, Token
  <2>2. CASE jr'[m].dir = "in" /\ jr[m].dir = "in"
    BY <2>2, Kinds DEF Known, Token
  <2>3. CASE jr'[m].dir = "in" /\ jr[m] = As("out", "open")
    BY <2>3, Kinds DEF Known, Token
  <2>. QED  BY <2>1, <2>2, <2>3 DEF SameEntries
<1>2. \A o : Of(o)' = Of(o) /\ Of(o) \subseteq Id
  BY DEF Of
<1>3. \A o \in Org : Away(o)' => Away(o)
  BY <1>1, <1>2 DEF Away
<1>4. \A o \in Org : Gone(o)' => Gone(o)
  <2>1. \A m \in Id : jr'[m] = As("out", "open") => jr[m] = As("out", "open")
    BY <1>1, Kinds
  <2>. QED  BY <1>2, <2>1 DEF Gone
<1>5. OneToken => OneToken'
  BY <1>1 DEF OneToken
<1>6. ASSUME UNCHANGED <<minted, body>>, Traced PROVE Traced'
  <2>. SUFFICES ASSUME NEW o \in Org, minted[o] = 1
       PROVE  /\ body[o] = "none" => Known(<<o, 1>>)'
              /\ jr'[<<o, 1>>].dir = "out" => jr'[<<o, 1>>] = As("out", "open") \/ o \in abroad
    BY <1>6 DEF Traced
  <2>1. <<o, 1>> \in Id
    BY DEF LinkTypes, Id, Trip
  <2>. QED  BY <1>1, <1>6, <2>1 DEF Traced
<1>. QED
  BY <1>1, <1>3, <1>4, <1>5, <1>6

LEMMA GroundsKept ==
    ASSUME LinkTypes, Grounds, SameEntries, UNCHANGED <<body, offered, minted, abroad>>,
           \A m \in Id :
             /\ m \in Mentioned' => m \in Mentioned \/ Known(m)
             /\ m \in Ins' \/ m \in Replies' => m \in Ins \/ m \in Replies \/ jr[m].dir = "in",
           Greeted', Faulted'
    PROVE  Grounds'
<1>1. \A o \in Org : minted[o] \in Nat /\ minted[o] <= minted'[o] /\ minted'[o] \in Nat
  BY BoundsAssumption DEF LinkTypes
<1>2. \A m \in Id : (Known(m)' <=> Known(m)) /\ (jr[m].dir = "in" => jr'[m].dir = "in")
  BY Kinds DEF SameEntries, Known
<1>3. Bounded'
  BY <1>1, <1>2, BoundedKept DEF Grounds
<1>4. Ins' \subseteq Id /\ Replies' \subseteq Id
  BY DEF Ins, Replies, Carried
<1>5. Inbound'
  BY <1>2, <1>4 DEF Grounds, Inbound
<1>6. FirstTrip'
  <2>. SUFFICES ASSUME NEW o \in Org, o \in abroad, minted[o] <= 1
       PROVE  minted[o] = 1 /\ jr'[<<o, 1>>] = As("out", "in_flight")
    BY DEF FirstTrip
  <2>1. minted[o] = 1 /\ jr[<<o, 1>>] = As("out", "in_flight")
    BY DEF Grounds, FirstTrip
  <2>2. <<o, 1>> \in Id
    BY <2>1 DEF LinkTypes, Id, Trip
  <2>. QED  BY <2>1, <2>2, Kinds DEF SameEntries
<1>7. Frozen'
  BY DEF Grounds, Frozen
<1>. QED
  BY <1>3, <1>5, <1>6, <1>7 DEF Grounds

LEMMA AloneKept ==
    ASSUME Lone, UNCHANGED offered, \A m \in Id : Known(m)' => Known(m),
           \A o \in Org : Alone(o)' =>
             /\ Alone(o)
             /\ \A m \in Of(o) :
                  /\ m \in Pending' => m \in Pending /\ (m \in Acks' => m \in Acks) /\ (m \in Nacks' => m \in Nacks)
                  /\ m \in Nacks' /\ m \in Offers => m \in Nacks \/ ~Known(m)
                  /\ m \in At("checked")' => m \in At("checked") \/ ~Known(m)
             /\ OneFrame(o) => OneFrame(o)'
             /\ OnePlaceOnly(o) => OnePlaceOnly(o)'
    PROVE  Lone'
<1>. SUFFICES ASSUME NEW o \in Org, Alone(o)' PROVE Undisturbed(o)'
  BY DEF Lone
<1>1. Undisturbed(o) /\ OneFrame(o) /\ OnePlaceOnly(o)
  BY DEF Lone, Undisturbed
<1>2. \A m \in Of(o) : Known(m)' => Known(m)
  BY DEF Of
<1>. QED
  BY <1>1, <1>2, UndisturbedKept

(* Frames are sent, read and lost, and handlers come and go, while what the *)
(* two ends have on record of a departure stays.                            *)
LEMMA Traffic ==
    ASSUME OneCopyInv, SameEntries, ledger \subseteq ledger',
           UNCHANGED <<body, offered, minted, abroad, world, resting>>, Greeted', Faulted',
           \A m \in Id :
             /\ m \in Mentioned' => m \in Mentioned \/ Known(m)
             /\ m \in Ins' \/ m \in Replies' => m \in Ins \/ m \in Replies \/ jr[m].dir = "in"
             /\ m \in Pending' => m \in Pending \/ m \in Offers
             /\ m \in At("checked")' => m \in At("checked") \/ ~Known(m),
           \A o \in Org : Alone(o)' =>
             /\ Alone(o)
             /\ \A m \in Of(o) :
                  /\ m \in Pending' => m \in Pending /\ (m \in Acks' => m \in Acks) /\ (m \in Nacks' => m \in Nacks)
                  /\ m \in Nacks' /\ m \in Offers => m \in Nacks \/ ~Known(m)
             /\ OneFrame(o) => OneFrame(o)'
             /\ OnePlaceOnly(o) => OnePlaceOnly(o)',
           world = 1 => /\ Late => Late' /\ Promised \subseteq Promised'
                        /\ \A m \in Nacks' \cap Offers : m \in Nacks \/ ~Away(m[1]) \/ (m \in Promised /\ Late),
           world = 2 /\ 2 \in known' => (2 \in known /\ Promised \subseteq Promised') \/ AfterLoad'
    PROVE  Conserved'
<1>1. LinkTypes /\ Grounds /\ Lone /\ Bounded /\ Frozen
  BY DEF OneCopyInv, Conserved, LinkInv, Grounds
<1>2. /\ \A m \in Id : Known(m)' <=> Known(m)
      /\ \A o \in Org : (Away(o)' => Away(o)) /\ (Gone(o)' => Gone(o))
  BY <1>1, SameTokens
<1>3. Grounds'
  BY <1>1, GroundsKept
<1>4. Lone'
  <2>1. \A m \in Id : Known(m)' => Known(m)
    BY <1>2
  <2>2. \A o : Of(o) \subseteq Id
    BY DEF Of
  <2>. QED  BY <1>1, <2>1, <2>2, AloneKept
<1>5. world' = 1 => InFirstWorld'
  <2>. SUFFICES ASSUME world = 1 PROVE InFirstWorld'
    OBVIOUS
  <2>1. InFirstWorld
    BY DEF OneCopyInv, Conserved
  <2>2. OneToken' /\ Traced'
    BY <1>1, <2>1, SameTokens DEF InFirstWorld
  <2>. QED  BY <1>1, <1>2, <2>1, <2>2, FirstWorldKept
<1>6. world' = 2 => AfterLoad'
  <2>. SUFFICES ASSUME world = 2, 2 \in known' => 2 \in known /\ Promised \subseteq Promised' PROVE AfterLoad'
    BY DEF AfterLoad
  <2>1. AfterLoad
    BY DEF OneCopyInv, Conserved
  <2>. QED  BY <1>2, <2>1, AfterLoadKept
<1>. QED
  BY <1>3, <1>4, <1>5, <1>6 DEF Conserved

-----------------------------------------------------------------------------
(* One of the two handlers, at one step about a migration, takes another. *)
Turns(m, s, to) == \/ cur = <<m, s>> /\ cur' = to /\ old' = old
                   \/ old = <<m, s>> /\ old' = to /\ cur' = cur

(* A handler answers, and is done. *)
LEMMA JobDone ==
    ASSUME NEW m \in Id, NEW s \in {"read", "checked", "created"}, UNCHANGED toSide, Turns(m, s, Idle)
    PROVE  /\ m \in At(s) /\ m \in Pending
           /\ \A t : \A x \in Id : (x \in At(t)' => x \in At(t)) /\ (x \in At(t) => x \in At(t)' \/ (t = s /\ x = m))
           /\ \A x \in Id : x \in Busy' => x \in Busy
           /\ \A o \in Org : OnePlaceOnly(o) =>
                OnePlaceOnly(o)' /\ (o = m[1] => \A x \in Of(o) : x \notin Pending')
<1>1. /\ m \in At(s) /\ m \in Busy
      /\ \A t : \A x \in Id : (x \in At(t)' => x \in At(t)) /\ (x \in At(t) => x \in At(t)' \/ (t = s /\ x = m))
  BY DEF At, Busy, Idle, Turns
<1>2. \A x \in Id : x \in Busy' => x \in Busy
  BY <1>1 DEF Busy
<1>3. Outs' = Outs
  BY NothingForTheSide
<1>4. ASSUME NEW o \in Org, OnePlaceOnly(o) PROVE OnePlaceOnly(o)'
  <2>1. \A x : x \in Of(o)' <=> x \in Of(o)
    BY DEF Of
  <2>2. Outs' \cap Of(o)' # {} => Busy' \cap Of(o)' = {}
    <3>1. Of(o) \subseteq Id
      BY DEF Of
    <3>. QED  BY <1>2, <1>3, <1>4, <2>1, <3>1 DEF OnePlaceOnly
  <2>3. cur' = Idle \/ old' = Idle
    BY DEF Turns
  <2>. QED  BY <2>2, <2>3 DEF OnePlaceOnly
<1>5. ASSUME NEW o \in Org, OnePlaceOnly(o), o = m[1], NEW x \in Of(o), x \in Pending' PROVE FALSE
  <2>1. m \in Of(o) /\ x \in Id /\ x[1] = o
    BY <1>5 DEF Of
  <2>2. x \notin Outs'
    BY <1>1, <1>3, <1>5, <2>1 DEF OnePlaceOnly
  <2>3. x \in Busy'
    BY <1>5, <2>2 DEF Pending
  <2>4. \E t : cur' = <<x, t>> \/ old' = <<x, t>>
    BY <2>3 DEF Busy, At
  <2>5. PICK t : cur' = <<x, t>> \/ old' = <<x, t>>
    BY <2>4
  <2>6. <<x, t>>[1] = x /\ <<m, s>>[1] = m /\ <<x, t>> # Idle /\ <<m, s>> # Idle
    BY DEF Idle
  <2>7. cur[1][1] = o /\ old[1][1] = o /\ cur # Idle /\ old # Idle
    BY <1>5, <2>1, <2>5, <2>6 DEF Turns
  <2>. QED  BY <1>5, <2>7 DEF OnePlaceOnly
<1>. QED
  BY <1>1, <1>2, <1>4, <1>5 DEF Pending

(* A handler goes on. *)
LEMMA JobMoved ==
    ASSUME NEW m \in Id, NEW s \in {"read", "checked", "created"}, UNCHANGED toSide,
           NEW next \in {"read", "checked", "created"}, next # s, Turns(m, s, <<m, next>>)
    PROVE  /\ m \in At(s) /\ m \in At(next)' /\ m \in Pending
           /\ \A t : \A x \in Id : /\ x \in At(t)' => x \in At(t) \/ (t = next /\ x = m)
                                   /\ x \in At(t) => x \in At(t)' \/ (t = s /\ x = m)
           /\ \A x \in Id : x \in Busy' <=> x \in Busy
           /\ \A o \in Org : OnePlaceOnly(o) =>
                OnePlaceOnly(o)' /\ (o = m[1] => \A t : \A x \in Of(o) : x \in At(t)' => x = m /\ t = next)
<1>1. /\ m \in At(s) /\ m \in At(next)' /\ m \in Busy
      /\ \A t : \A x \in Id : /\ x \in At(t)' => x \in At(t) \/ (t = next /\ x = m)
                              /\ x \in At(t) => x \in At(t)' \/ (t = s /\ x = m)
  BY DEF At, Busy, Idle, Turns
<1>2. \A x \in Id : x \in Busy' <=> x \in Busy
  <2>1. \A x \in Id : x \in Busy' => x \in Busy \/ x = m
    BY <1>1 DEF Busy
  <2>2. \A x \in Id : x \in Busy => x \in Busy' \/ x = m
    BY <1>1 DEF Busy
  <2>3. m \in Busy'
    BY <1>1 DEF Busy
  <2>. QED  BY <1>1, <2>1, <2>2, <2>3
<1>3. Outs' = Outs
  BY NothingForTheSide
<1>4. \A t : <<m, t>>[1] = m /\ <<m, t>> # Idle
  BY DEF Idle
<1>5. ASSUME NEW o \in Org, OnePlaceOnly(o) PROVE OnePlaceOnly(o)'
  <2>1. \A x : x \in Of(o)' <=> x \in Of(o)
    BY DEF Of
  <2>2. Outs' \cap Of(o)' # {} => Busy' \cap Of(o)' = {}
    <3>1. Of(o) \subseteq Id
      BY DEF Of
    <3>. QED  BY <1>2, <1>3, <1>5, <2>1, <3>1 DEF OnePlaceOnly
  <2>3. cur' = Idle \/ old' = Idle \/ cur'[1][1] # o \/ old'[1][1] # o
    BY <1>4, <1>5 DEF OnePlaceOnly, Turns
  <2>. QED  BY <2>2, <2>3 DEF OnePlaceOnly
<1>6. ASSUME NEW o \in Org, OnePlaceOnly(o), o = m[1], NEW t, NEW x \in Of(o), x \in At(t)'
      PROVE  x = m /\ t = next
  <2>1. x \in Id /\ x[1] = o
    BY <1>6 DEF Of
  <2>2. cur' = <<x, t>> \/ old' = <<x, t>>
    BY <1>6 DEF At
  <2>3. <<x, t>>[1] = x /\ <<x, t>> # Idle /\ (\A y, n : <<x, t>> = <<y, n>> => x = y /\ t = n)
    BY DEF Idle
  <2>. QED  BY <1>4, <1>6, <2>1, <2>2, <2>3 DEF OnePlaceOnly, Turns
<1>. QED
  BY <1>1, <1>2, <1>5, <1>6 DEF Pending

LEMMA HandlerGrounds ==
    ASSUME Greeted, Faulted, NEW m, NEW s, NEW to, Turns(m, s, to),
           UNCHANGED <<offered, world, known, link, toSide, abroad, faults>>,
           jr' = jr \/ ~(faults = 0 /\ link # "shaken")
    PROVE  Greeted' /\ Faulted'
<1>1. <<m, s>> # Idle
  BY DEF Idle
<1>2. Greeted'
  BY <1>1 DEF Greeted, Turns
<1>3. Faulted'
  <2>1. jr' = jr => \A x : Known(x)' = Known(x)
    BY DEF Known
  <2>2. \A o : Of(o)' = Of(o)
    BY DEF Of
  <2>. QED  BY <1>1, <2>1, <2>2 DEF Faulted, Turns
<1>. QED
  BY <1>2, <1>3

LEMMA AnswerKeeps ==
    ASSUME OneCopyInv, NEW m \in Id, NEW s \in {"read", "checked", "created"}, Turns(m, s, Idle),
           UNCHANGED <<body, offered, ledger, resting, world, minted, jr, known, link, toSide, abroad, faults>>,
           \A x \in Id :
             /\ x \in Acks' => x \in Acks \/ x = m
             /\ x \in Acks => x \in Acks'
             /\ x \in Nacks' => x \in Nacks \/ (x = m /\ s # "created" /\ (s = "read" => ~Known(m)))
             /\ x \in Ins' => x \in Ins,
           s = "created" /\ link # "down" => m \in Acks'
    PROVE  Conserved'
<1>1. Lone /\ Greeted /\ Faulted
  BY DEF OneCopyInv, Conserved, Grounds
<1>2. Greeted' /\ Faulted'
  BY <1>1, HandlerGrounds
<1>3. /\ m \in At(s) /\ m \in Pending
      /\ \A t : \A x \in Id : (x \in At(t)' => x \in At(t)) /\ (x \in At(t) => x \in At(t)' \/ (t = s /\ x = m))
      /\ \A x \in Id : x \in Busy' => x \in Busy
      /\ \A o \in Org : OnePlaceOnly(o) =>
           OnePlaceOnly(o)' /\ (o = m[1] => \A x \in Of(o) : x \notin Pending')
  BY JobDone
<1>4. Outs' = Outs /\ Replies' = Replies /\ \A o \in Org : OneFrame(o)' = OneFrame(o)
  BY NothingForTheSide
<1>5. \A x \in Id : x \in Offers' <=> x \in Offers
  BY DEF Offers
<1>6. m \in Busy
  BY <1>3 DEF Busy
<1>7. \A x \in Id :
        /\ x \in Mentioned' => x \in Mentioned \/ Known(x)
        /\ x \in Ins' \/ x \in Replies' => x \in Ins \/ x \in Replies \/ jr[x].dir = "in"
        /\ x \in Pending' => x \in Pending \/ x \in Offers
        /\ x \in At("checked")' => x \in At("checked") \/ ~Known(x)
  BY <1>3, <1>4, <1>5, <1>6 DEF Mentioned, Pending
<1>8. ASSUME NEW o \in Org, Alone(o)'
      PROVE  /\ Alone(o)
             /\ \A x \in Of(o) :
                  /\ x \in Pending' => x \in Pending /\ (x \in Acks' => x \in Acks) /\ (x \in Nacks' => x \in Nacks)
                  /\ x \in Nacks' /\ x \in Offers => x \in Nacks \/ ~Known(x)
             /\ OneFrame(o) => OneFrame(o)'
             /\ OnePlaceOnly(o) => OnePlaceOnly(o)'
  <2>1. Alone(o)
    BY <1>8 DEF Alone
  <2>2. Undisturbed(o) /\ OnePlaceOnly(o)
    BY <1>1, <2>1 DEF Lone, Undisturbed
  <2>3. ASSUME NEW x \in Of(o), x \in Pending'
        PROVE  x \in Pending /\ x # m
    <3>1. x \in Id /\ x[1] = o
      BY <2>3 DEF Of
    <3>2. x \in Pending
      BY <1>3, <1>4, <2>3, <3>1 DEF Pending
    <3>. QED  BY <1>3, <2>2, <2>3, <3>1, <3>2
  <2>4. ASSUME m \in Of(o), m \in Nacks', m \notin Nacks PROVE ~Known(m)
    <3>1. s = "read" \/ s = "checked"
      BY <2>4
    <3>2. CASE s = "read"
      BY <2>4, <3>2
    <3>3. CASE s = "checked"
      BY <1>3, <2>2, <2>4, <3>3 DEF Undisturbed
    <3>. QED  BY <3>1, <3>2, <3>3
  <2>5. Of(o) \subseteq Id
    BY DEF Of
  <2>. QED  BY <1>3, <1>4, <2>1, <2>3, <2>4, <2>5
<1>9. link # "down" => Promised \subseteq Promised'
  <2>1. Promised \subseteq Id
    BY DEF Promised, At, Acks, Carried
  <2>. QED  BY <1>3, <2>1 DEF Promised
<1>10. world = 1 => /\ Late => Late' /\ Promised \subseteq Promised'
                    /\ \A x \in Nacks' \cap Offers : x \in Nacks \/ ~Away(x[1]) \/ (x \in Promised /\ Late)
  <2>. SUFFICES ASSUME world = 1 PROVE /\ Late => Late' /\ Promised \subseteq Promised'
                    /\ \A x \in Nacks' \cap Offers : x \in Nacks \/ ~Away(x[1]) \/ (x \in Promised /\ Late)
    OBVIOUS
  <2>1. InFirstWorld
    BY DEF OneCopyInv, Conserved
  <2>2. ~Known(m) => ~Away(m[1])
    BY <1>3, <2>1 DEF InFirstWorld, Unresolved
  <2>3. m \in Offers /\ Known(m) /\ s = "checked" => m \in Promised /\ Late
    BY <1>3, <2>1 DEF InFirstWorld, Rechecked
  <2>4. \A x \in Nacks' : x \in Id
    BY DEF Nacks, Carried
  <2>. QED  BY <1>9, <2>2, <2>3, <2>4 DEF Late
<1>11. world = 2 /\ 2 \in known' => 2 \in known /\ Promised \subseteq Promised'
  <2>1. world = 2 /\ 2 \in known => link # "down"
    BY <1>1 DEF Faulted
  <2>. QED  BY <1>9, <2>1
<1>. QED
  BY <1>2, <1>7, <1>8, <1>10, <1>11, Traffic DEF SameEntries

LEMMA RecheckKeeps ==
    ASSUME OneCopyInv, NEW m \in Id, Turns(m, "read", <<m, "checked">>), ~Known(m),
           UNCHANGED <<body, offered, ledger, resting, world, minted, jr, known, link, toMod, toSide, abroad, faults>>
    PROVE  Conserved'
<1>1. Greeted /\ Faulted
  BY DEF OneCopyInv, Conserved, Grounds
<1>2. Greeted' /\ Faulted'
  BY <1>1, HandlerGrounds
<1>3. /\ m \in At("read") /\ m \in Pending
      /\ \A t : \A x \in Id : /\ x \in At(t)' => x \in At(t) \/ (t = "checked" /\ x = m)
                              /\ x \in At(t) => x \in At(t)' \/ (t = "read" /\ x = m)
      /\ \A x \in Id : x \in Busy' <=> x \in Busy
      /\ \A o \in Org : OnePlaceOnly(o) => OnePlaceOnly(o)'
  BY JobMoved
<1>4. Outs' = Outs /\ Replies' = Replies /\ \A o \in Org : OneFrame(o)' = OneFrame(o)
  BY NothingForTheSide
<1>5. Acks' = Acks /\ Nacks' = Nacks /\ Ins' = Ins
  BY NothingForTheMod
<1>6. \A x \in Id : x \in Offers' <=> x \in Offers
  BY DEF Offers
<1>7. \A x \in Id :
        /\ x \in Mentioned' => x \in Mentioned \/ Known(x)
        /\ x \in Ins' \/ x \in Replies' => x \in Ins \/ x \in Replies \/ jr[x].dir = "in"
        /\ x \in Pending' => x \in Pending
        /\ x \in At("checked")' => x \in At("checked") \/ ~Known(x)
  BY <1>3, <1>4, <1>5, <1>6 DEF Mentioned, Pending
<1>8. \A o \in Org : Alone(o)' = Alone(o) /\ Of(o) \subseteq Id
  BY DEF Alone, Of
<1>9. Late' = Late /\ Promised \subseteq Promised'
  <2>1. Promised \subseteq Id
    BY DEF Promised, At, Acks, Carried
  <2>. QED  BY <1>3, <1>5, <2>1 DEF Promised, Late
<1>. QED
  BY <1>2, <1>3, <1>4, <1>5, <1>7, <1>8, <1>9, Traffic DEF SameEntries

(* The journal write: what is offered stands, from here on, in the journal. *)
LEMMA CreateGrounds ==
    ASSUME OneCopyInv, NEW m \in Id, Turns(m, "checked", <<m, "created">>), ~Known(m),
           jr' = [jr EXCEPT ![m] = As("out", "open")],
           UNCHANGED <<body, offered, ledger, resting, world, minted, known, link, toMod, toSide, abroad, faults>>
    PROVE  /\ Grounds' /\ Lone'
           /\ Acks' = Acks /\ Nacks' = Nacks
           /\ m \in Pending /\ m \in Promised' /\ Promised \subseteq Promised'
           /\ \A x \in Id : /\ x \in Pending' => x \in Pending
                            /\ x \in Offers' <=> x \in Offers
                            /\ x \in At("checked")' => x \in At("checked")
           /\ Alone(m[1]) => m \notin Nacks /\ m \notin At("checked")'
<1> DEFINE o == m[1]
<1>1. LinkTypes /\ Bounded /\ Inbound /\ FirstTrip /\ Frozen /\ Greeted /\ Faulted /\ Lone
  BY DEF OneCopyInv, LinkInv, Conserved, Grounds
<1>2. /\ m \in At("checked") /\ m \in At("created")' /\ m \in Pending
      /\ \A t : \A x \in Id : /\ x \in At(t)' => x \in At(t) \/ (t = "created" /\ x = m)
                              /\ x \in At(t) => x \in At(t)' \/ (t = "checked" /\ x = m)
      /\ \A x \in Id : x \in Busy' <=> x \in Busy
      /\ \A y \in Org : OnePlaceOnly(y) =>
           OnePlaceOnly(y)' /\ (y = m[1] => \A t : \A x \in Of(y) : x \in At(t)' => x = m /\ t = "created")
  BY JobMoved
<1>3. Outs' = Outs /\ Replies' = Replies /\ \A y \in Org : OneFrame(y)' = OneFrame(y)
  BY NothingForTheSide
<1>4. Acks' = Acks /\ Nacks' = Nacks /\ Ins' = Ins
  BY NothingForTheMod
<1>5. \A x \in Id : x \in Offers' <=> x \in Offers
  BY DEF Offers
<1>6. o \in Org /\ m \in Of(o) /\ m[2] # 0
  BY IdParts DEF Of
<1>7. /\ jr'[m] = As("out", "open") /\ jr[m] = NoEntry
      /\ \A x \in Id : x # m => jr'[x] = jr[x]
  BY <1>1 DEF LinkTypes, Known
<1>8. \A x \in Id : x # m => (Known(x)' <=> Known(x))
  BY <1>7 DEF Known
<1>9. \A x \in Id : /\ x \in Pending' => x \in Pending
                    /\ x \in Mentioned' => x \in Mentioned
  BY <1>2, <1>3, <1>4, <1>5 DEF Pending, Mentioned
<1>10. m \in Mentioned
  BY <1>2 DEF Pending, Mentioned
<1>11. Promised \subseteq Promised' /\ m \in Promised'
  <2>1. Promised \subseteq Id
    BY DEF Promised, At, Acks, Carried
  <2>. QED  BY <1>2, <1>4, <2>1 DEF Promised
<1>12. \A y : Of(y) \subseteq Id /\ Of(y)' = Of(y)
  BY DEF Of
<1>13. \A y \in Org : Alone(y)' = Alone(y)
  BY DEF Alone
<1>14. \A y \in Org : Alone(y) => Undisturbed(y) /\ OneFrame(y) /\ OnePlaceOnly(y)
  BY <1>1 DEF Lone, Undisturbed
<1>15. Alone(o) => m \in Offers /\ m \notin Nacks /\ m \notin At("checked")'
  BY <1>2, <1>6, <1>14 DEF Undisturbed
<1>16. Lone'
  <2>1. SUFFICES ASSUME NEW y \in Org, Alone(y) PROVE Undisturbed(y)'
    BY <1>13 DEF Lone
  <2>2. OneFrame(y)' /\ OnePlaceOnly(y)'
    BY <1>2, <1>3, <1>14, <2>1
  <2>3. \A x \in Of(y)' \cap Pending' : x \in Offers' /\ x \notin Acks' /\ x \notin Nacks'
    BY <1>4, <1>5, <1>9, <1>12, <1>14, <2>1 DEF Undisturbed
  <2>4. ASSUME NEW x \in Of(y), (x \in Nacks' /\ x \in Offers') \/ x \in At("checked")'
        PROVE  ~Known(x)'
    <3>1. x \in Id /\ x[1] = y
      BY <2>4 DEF Of
    <3>2. x # m
      BY <1>4, <1>15, <2>1, <2>4, <3>1
    <3>3. (x \in Nacks /\ x \in Offers) \/ x \in At("checked")
      BY <1>2, <1>4, <1>5, <2>4, <3>1, <3>2
    <3>4. ~Known(x)
      BY <1>14, <2>1, <2>4, <3>3 DEF Undisturbed
    <3>. QED  BY <1>8, <3>1, <3>2, <3>4
  <2>. QED  BY <2>2, <2>3, <2>4, <1>12 DEF Undisturbed
<1>17. Greeted' /\ Faulted'
  <2>1. ~(faults = 0 /\ link # "shaken")
    <3>. SUFFICES ASSUME faults = 0, link # "shaken" PROVE FALSE
      OBVIOUS
    <3>1. world = 1 /\ offered[o] = 0
      BY <1>1, <1>6 DEF Faulted
    <3>2. Alone(o)
      BY <3>1 DEF Alone
    <3>. QED  BY <1>6, <1>15, <3>1, <3>2 DEF Offers
  <2>. QED  BY <1>1, <2>1, HandlerGrounds
<1>18. Bounded'
  <2>1. \A y \in Org : minted[y] <= minted'[y] /\ minted[y] \in Nat /\ minted'[y] \in Nat
    BY <1>1, BoundsAssumption DEF LinkTypes
  <2>. QED  BY <1>1, <1>8, <1>9, <1>10, <2>1, BoundedKept
<1>19. Inbound'
  <2>1. \A x \in Ins \cup Replies : x \in Id /\ jr[x].dir = "in"
    BY <1>1 DEF Inbound, Ins, Replies, Carried
  <2>2. \A x \in Ins \cup Replies : x # m
    BY <1>7, <2>1, Kinds
  <2>. QED  BY <1>3, <1>4, <1>7, <2>1, <2>2 DEF Inbound
<1>20. FirstTrip' /\ Frozen'
  <2>1. ASSUME NEW y \in Org, y \in abroad, minted[y] <= 1
        PROVE  minted[y] = 1 /\ jr'[<<y, 1>>] = As("out", "in_flight")
    <3>1. minted[y] = 1 /\ jr[<<y, 1>>] = As("out", "in_flight")
      BY <1>1, <2>1 DEF FirstTrip
    <3>2. <<y, 1>> \in Id
      BY <1>1, <3>1 DEF LinkTypes, Id, Trip
    <3>. QED  BY <1>7, <3>1, <3>2, Kinds
  <2>. QED  BY <1>1, <2>1 DEF FirstTrip, Frozen
<1>. QED
  BY <1>2, <1>4, <1>5, <1>9, <1>11, <1>15, <1>16, <1>17, <1>18, <1>19, <1>20 DEF Grounds

LEMMA CreateFirstWorld ==
    ASSUME OneCopyInv, world = 1, NEW m \in Id, Turns(m, "checked", <<m, "created">>), ~Known(m),
           jr' = [jr EXCEPT ![m] = As("out", "open")],
           UNCHANGED <<body, offered, ledger, resting, world, minted, known, link, toMod, toSide, abroad, faults>>
    PROVE  InFirstWorld'
<1> DEFINE o == m[1]
<1>1. InFirstWorld /\ LinkTypes /\ Bounded /\ Faulted
  BY DEF OneCopyInv, Conserved, LinkInv, Grounds
<1>2. /\ Nacks' = Nacks /\ m \in Pending /\ m \in Promised' /\ Promised \subseteq Promised'
      /\ \A x \in Id : /\ x \in Pending' => x \in Pending
                       /\ x \in Offers' <=> x \in Offers
                       /\ x \in At("checked")' => x \in At("checked")
      /\ Alone(o) => m \notin Nacks /\ m \notin At("checked")'
  BY CreateGrounds
<1>3. o \in Org /\ m \in Of(o) /\ m[2] \in Nat /\ \A x \in Id : x[1] = o /\ x[2] = m[2] => x = m
  BY IdParts DEF Of
<1>4. /\ jr'[m] = As("out", "open") /\ jr[m] = NoEntry /\ Known(m)'
      /\ \A x \in Id : x # m => jr'[x] = jr[x] /\ (Known(x)' <=> Known(x)) /\ (Token(x)' <=> Token(x))
  <2>1. jr'[m] = As("out", "open") /\ jr[m] = NoEntry /\ \A x \in Id : x # m => jr'[x] = jr[x]
    BY <1>1 DEF LinkTypes, Known
  <2>. QED  BY <2>1, Kinds DEF Known, Token
<1>5. m[2] = minted[o] /\ ~Away(o)
  BY <1>1, <1>2 DEF InFirstWorld, Unresolved
<1>6. Late' = Late /\ (~Late => Alone(o))
  BY <1>1 DEF Late, Alone, Faulted
<1>7. \A y : Of(y)' = Of(y) /\ Of(y) \subseteq Id /\ \A x \in Of(y) : x[1] = y
  BY DEF Of
<1>8. \A y \in Org : y # o => (Away(y)' <=> Away(y))
  BY <1>3, <1>4, <1>7 DEF Away
<1>9. Promised' \cap Of(o) # {}
  BY <1>2, <1>3
<1>10. Pending' \subseteq Id /\ Nacks \subseteq Id /\ Offers' \subseteq Id /\ At("checked")' \subseteq Id /\ Promised \subseteq Id
  BY DEF Pending, Busy, Promised, Acks, Outs, Nacks, Offers, At, Carried
<1>11. LiveAway'
  <2>. SUFFICES ASSUME NEW y \in Org, body[y] = "live", Away(y)'
       PROVE  y \in resting /\ Late /\ Promised' \cap Of(y) # {}
    BY <1>6, <1>7 DEF LiveAway
  <2>1. CASE y = o
    BY <1>1, <1>2, <1>9, <2>1 DEF InFirstWorld, LivePending
  <2>2. CASE y # o
    BY <1>1, <1>2, <1>8, <2>2 DEF InFirstWorld, LiveAway
  <2>. QED  BY <2>1, <2>2
<1>12. LivePending'
  BY <1>1, <1>2, <1>4, <1>6, <1>10 DEF InFirstWorld, LivePending
<1>13. \A x \in Offers : x[1] = o => x = m
  <2>1. ASSUME NEW x \in Offers, x[1] = o, x # m PROVE FALSE
    <3>1. x \in Id /\ x[2] # m[2]
      BY <1>3, <2>1 DEF Offers
    <3>2. Known(<<o, minted[o]>>)
      BY <1>1, <1>5, <2>1, <3>1 DEF InFirstWorld, LastOffered
    <3>3. m = <<o, minted[o]>>
      BY <1>5, IdParts
    <3>. QED  BY <1>4, <3>2, <3>3 DEF Known
  <2>. QED  BY <2>1
<1>14. \A x \in Id : x \in Offers' => x[1] \in Org
  BY IdParts
<1>15. NackAway'
  <2>. SUFFICES ASSUME NEW x \in Nacks, x \in Offers, Away(x[1])'
       PROVE  x \in Promised' /\ Late
    BY <1>2, <1>6, <1>10 DEF NackAway
  <2>1. CASE x[1] = o
    BY <1>2, <1>6, <1>13, <2>1
  <2>2. CASE x[1] # o
    BY <1>1, <1>2, <1>8, <1>10, <1>14, <2>2 DEF InFirstWorld, NackAway
  <2>. QED  BY <2>1, <2>2
<1>16. Rechecked'
  <2>. SUFFICES ASSUME NEW x \in At("checked")', x \in Offers, Known(x)'
       PROVE  x \in Promised' /\ Late
    BY <1>2, <1>6, <1>10 DEF Rechecked
  <2>1. CASE x = m
    BY <1>2, <1>6, <2>1
  <2>2. CASE x # m
    BY <1>1, <1>2, <1>4, <1>10, <2>2 DEF InFirstWorld, Rechecked
  <2>. QED  BY <2>1, <2>2
<1>17. Unresolved'
  <2>. SUFFICES ASSUME NEW x \in Id, x \in Pending' \/ x \in Offers', ~Known(x)'
       PROVE  x[2] = minted[x[1]] /\ ~Away(x[1])'
    BY <1>10 DEF Unresolved
  <2>1. x # m /\ ~Known(x) /\ x[2] = minted[x[1]] /\ ~Away(x[1])
    BY <1>1, <1>2, <1>4 DEF InFirstWorld, Unresolved
  <2>2. x[1] # o
    BY <1>3, <1>5, <2>1
  <2>. QED  BY <1>8, <2>1, <2>2, IdParts
<1>18. LastOffered'
  <2>. SUFFICES ASSUME NEW x \in Offers PROVE (x[2] = minted[x[1]] \/ Known(<<x[1], minted[x[1]]>>))'
    BY <1>2, <1>10 DEF LastOffered
  <2>1. CASE x[2] = minted[x[1]]
    BY <2>1
  <2>2. CASE x[2] # minted[x[1]]
    <3>1. x \in Id /\ x[1] # o
      BY <1>5, <1>13, <2>2 DEF Offers
    <3>2. <<x[1], minted[x[1]]>> \in Id /\ <<x[1], minted[x[1]]>>[1] = x[1]
      <4>1. x[1] \in Org /\ x[2] \in Nat /\ x[2] >= 1 /\ x[2] <= minted[x[1]] /\ minted[x[1]] \in 0..MaxTrips
        BY <1>1, <3>1, IdParts DEF Bounded, Mentioned, LinkTypes
      <4>2. minted[x[1]] \in Trip
        BY <4>1, BoundsAssumption DEF Trip
      <4>. QED  BY <4>1, <4>2, IdParts
    <3>3. Known(<<x[1], minted[x[1]]>>)
      BY <1>1, <2>2 DEF InFirstWorld, LastOffered
    <3>4. jr'[<<x[1], minted[x[1]]>>] = jr[<<x[1], minted[x[1]]>>]
      BY <1>4, <3>1, <3>2
    <3>. QED  BY <3>3, <3>4 DEF Known
  <2>. QED  BY <2>1, <2>2
<1>19. OneToken'
  <2>1. \A x \in Id : x[1] = o => ~Token(x)
    BY <1>5 DEF Away, Of
  <2>2. o \notin abroad
    BY <1>5 DEF Away
  <2>3. \A x, y \in Id : Token(x)' /\ Token(y)' /\ x[1] = y[1] => x = y
    BY <1>1, <1>4, <2>1 DEF InFirstWorld, OneToken
  <2>4. \A x \in Id : x[1] \in abroad => ~Token(x)'
    BY <1>1, <1>4, <2>2 DEF InFirstWorld, OneToken
  <2>. QED  BY <2>3, <2>4 DEF OneToken
<1>20. Traced'
  <2>. SUFFICES ASSUME NEW y \in Org, minted[y] = 1
       PROVE  /\ body[y] = "none" => Known(<<y, 1>>)'
              /\ jr'[<<y, 1>>].dir = "out" => jr'[<<y, 1>>] = As("out", "open") \/ y \in abroad
    BY <1>1 DEF InFirstWorld, Traced
  <2>1. <<y, 1>> \in Id
    BY <1>1 DEF LinkTypes, Id, Trip
  <2>2. CASE <<y, 1>> = m
    BY <1>4, <2>2 DEF Known
  <2>3. CASE <<y, 1>> # m
    <3>1. jr'[<<y, 1>>] = jr[<<y, 1>>]
      BY <1>4, <2>1, <2>3
    <3>. QED  BY <1>1, <3>1 DEF InFirstWorld, Traced, Known
  <2>. QED  BY <2>2, <2>3
<1>. QED
  BY <1>11, <1>12, <1>15, <1>16, <1>17, <1>18, <1>19, <1>20 DEF InFirstWorld

LEMMA CreateKeeps ==
    ASSUME OneCopyInv, NEW m \in Id, Turns(m, "checked", <<m, "created">>), ~Known(m),
           jr' = [jr EXCEPT ![m] = As("out", "open")],
           UNCHANGED <<body, offered, ledger, resting, world, minted, known, link, toMod, toSide, abroad, faults>>
    PROVE  Conserved'
<1>1. Grounds' /\ Lone' /\ m \in Promised' /\ Promised \subseteq Promised'
  BY CreateGrounds
<1>2. world = 1 => InFirstWorld'
  BY CreateFirstWorld
<1>3. ASSUME world = 2 PROVE AfterLoad'
  <2>1. AfterLoad /\ LinkTypes
    BY <1>3 DEF OneCopyInv, Conserved, LinkInv
  <2>. SUFFICES ASSUME NEW y \in Org, minted[y] <= 1, body[y] = "live", Gone(y)'
       PROVE  2 \notin known \/ Promised' \cap Of(y) # {}
    <3>1. \A y : Of(y)' = Of(y)
      BY DEF Of
    <3>. QED  BY <3>1 DEF AfterLoad
  <2>2. CASE y = m[1]
    BY <1>1, <2>2 DEF Of
  <2>3. CASE y # m[1]
    <3>1. \A x \in Of(y) : x \in Id /\ x # m /\ jr'[x] = jr[x]
      BY <2>1, <2>3 DEF Of, LinkTypes
    <3>2. Of(y)' = Of(y)
      BY DEF Of
    <3>3. Gone(y)
      BY <3>1, <3>2 DEF Gone
    <3>. QED  BY <1>1, <2>1, <3>3 DEF AfterLoad
  <2>. QED  BY <2>2, <2>3
<1>. QED
  BY <1>1, <1>2, <1>3 DEF Conserved

LEMMA OutTakes ==
    ASSUME OneCopyInv, NEW job \in Job, NEW own \in BOOLEAN, NEW next, onMigrateOut(job, own, next),
           \A m, s : job = <<m, s>> => Turns(m, s, next),
           UNCHANGED <<body, offered, ledger, resting, world, minted, known, link, toSide, abroad, faults>>
    PROVE  Conserved'
<1>1. job # Idle
  BY DEF onMigrateOut
<1>2. PICK m \in Id, s \in {"read", "checked", "created"} : job = <<m, s>>
  BY <1>1 DEF Job
<1>3. job[1] = m /\ job[2] = s /\ Turns(m, s, next)
  BY <1>2
<1>4. LinkTypes
  BY DEF OneCopyInv, LinkInv
<1>5. ASSUME ToMod(<<Msg("out_ack", m)>>), UNCHANGED jr, next = Idle
      PROVE  Conserved'
  <2>1. \A x \in Id :
          /\ x \in Acks' <=> x \in Acks \/ (x = m /\ link # "down")
          /\ x \in Nacks' <=> x \in Nacks
          /\ x \in Ins' <=> x \in Ins
    BY <1>4, <1>5, SentToMod
  <2>. QED  BY <1>3, <1>5, <2>1, AnswerKeeps
<1>6. ASSUME Nacked(m, own), UNCHANGED jr, next = Idle, s # "created", s = "read" => ~Known(m)
      PROVE  Conserved'
  <2>1. \A x \in Id :
          /\ x \in Acks' <=> x \in Acks
          /\ x \in Nacks' => x \in Nacks \/ x = m
          /\ x \in Ins' <=> x \in Ins
    <3>1. CASE own
      BY <1>4, <1>6, <3>1, SentToMod DEF Nacked
    <3>2. CASE ~own
      <4> DEFINE fs == <<>>
      <4>1. ToMod(fs) /\ toMod \in Seq(Downward) /\ fs \in Seq(Downward)
        BY <1>4, <1>6, <3>2 DEF Nacked, LinkTypes
      <4>2. \A t : Carried(fs, t) = {}
        BY DEF Carried
      <4> HIDE DEF fs
      <4>3. \A t : Carried(toMod \o fs, t) = Carried(toMod, t) \cup Carried(fs, t)
        BY <4>1, CarriedBoth
      <4>4. \A t : Carried(toMod', t) = Carried(toMod, t)
        BY <4>1, <4>2, <4>3 DEF ToMod
      <4>. QED  BY <4>4, UnderWay
    <3>. QED  BY <3>1, <3>2
  <2>. QED  BY <1>3, <1>6, <2>1, AnswerKeeps
<1>7. CASE s = "read" /\ Check(m, own, next)
  <2>1. UNCHANGED jr
    BY <1>7 DEF Check
  <2>2. CASE ~Known(m) /\ UNCHANGED toMod /\ next = <<m, "checked">>
    BY <1>3, <1>7, <2>1, <2>2, RecheckKeeps
  <2>. QED  BY <1>5, <1>6, <1>7, <2>1, <2>2 DEF Check
<1>8. CASE s = "checked" /\ CreateEntry(m, own, next)
  <2>1. CASE /\ ~Known(m) /\ jr' = [jr EXCEPT ![m] = As("out", "open")]
             /\ UNCHANGED toMod /\ next = <<m, "created">>
    BY <1>3, <1>8, <2>1, CreateKeeps
  <2>. QED  BY <1>6, <1>8, <2>1 DEF CreateEntry
<1>9. CASE next = Idle /\ ToMod(<<Msg("out_ack", m)>>) /\ UNCHANGED jr
  BY <1>5, <1>9
<1>. QED
  BY <1>3, <1>7, <1>8, <1>9 DEF onMigrateOut

LEMMA HandlerConserves ==
    ASSUME OneCopyInv, Handler PROVE Conserved'
<1>1. cur \in Job /\ old \in Job
      /\ UNCHANGED <<body, offered, ledger, resting, world, minted, known, link, toSide, abroad, faults>>
  BY DEF Handler, modVars, OneCopyInv, LinkInv, LinkTypes
<1>2. CASE onMigrateOut(cur, TRUE, cur') /\ UNCHANGED old
  <2>1. \A m, s : cur = <<m, s>> => Turns(m, s, cur')
    BY <1>2 DEF Turns
  <2>. QED  BY <1>1, <1>2, <2>1, OutTakes
<1>3. CASE onMigrateOut(old, FALSE, old') /\ UNCHANGED cur
  <2>1. \A m, s : old = <<m, s>> => Turns(m, s, old')
    BY <1>3 DEF Turns
  <2>. QED  BY <1>1, <1>3, <2>1, OutTakes
<1>. QED
  BY <1>2, <1>3 DEF Handler

(* Nothing but the save file, or nothing at all. *)
LEMMA SaveConserves ==
    ASSUME OneCopyInv, SaveWorld \/ UNCHANGED vars PROVE Conserved'
<1>1. UNCHANGED <<body, offered, ledger, resting, world, minted, jr, known, link, toMod, toSide, cur, old,
                  abroad, faults>>
  BY DEF SaveWorld, vars, modVars, sideVars, wireVars
<1>2. Acks' = Acks /\ Nacks' = Nacks /\ Ins' = Ins
  BY <1>1, NothingForTheMod
<1>3. Outs' = Outs /\ Replies' = Replies /\ \A o \in Org : OneFrame(o)' = OneFrame(o)
  BY <1>1, NothingForTheSide
<1>4. \A s : At(s)' = At(s)
  BY <1>1, SameJobs
<1>5. Busy' = Busy /\ Pending' = Pending /\ Promised' = Promised /\ Late' = Late
  BY <1>1, <1>2, <1>3, <1>4 DEF Busy, Pending, Promised, Late
<1>6. Offers' = Offers /\ Mentioned' = Mentioned
  BY <1>1, <1>2, <1>3, <1>5 DEF Offers, Mentioned
<1>7. \A o \in Org : OnePlaceOnly(o)' = OnePlaceOnly(o) /\ Alone(o)' = Alone(o) /\ Of(o)' = Of(o) /\ Of(o) \subseteq Id
  BY <1>1, <1>3, <1>5 DEF OnePlaceOnly, Alone, Of
<1>8. Greeted' /\ Faulted'
  BY <1>1, <1>7 DEF OneCopyInv, Conserved, Grounds, Greeted, Faulted, Known
<1>. QED
  BY <1>1, <1>2, <1>3, <1>4, <1>5, <1>6, <1>7, <1>8, Traffic DEF SameEntries

(* The world's offers again, behind the handshake. *)
LEMMA OffersAgain ==
    ASSUME IsFiniteSet(Org), LinkTypes, OnConnected
    PROVE  /\ \A x \in Id : x \in Outs' <=> x \in Offers
           /\ Replies' = {}
           /\ \A o \in Org : OneFrame(o)'
           /\ \A k \in DOMAIN toSide' : toSide'[k].type = "config" => k = 1 /\ toSide'[k] = Config
<1> DEFINE D == {x \in Org : offered[x] # 0}
           S == {Msg("out", <<o, offered[o]>>) : o \in D}
           again == SetToSeq(S)
           g == [o \in D |-> Msg("out", <<o, offered[o]>>)]
           hi == <<Config>>
<1>1. IsFiniteSet(D) /\ D \subseteq Org
  BY FS_Subset
<1>2. g \in [D -> S] /\ \A x \in S : \E y \in D : g[y] = x
  OBVIOUS
<1>3. toSide' = hi \o again
  BY DEF OnConnected
<1>4. again \in Seq(Upward) /\ hi \in Seq(Upward)
  BY OfferedAgain DEF Config, Upward, LinkTypes
<1>5. \A o \in D : <<o, offered[o]>> \in Id /\ <<o, offered[o]>>[1] = o
  BY BoundsAssumption DEF LinkTypes, Id, Trip
<1>6. \A t : \A x \in Id : Msg(t, x) \in S <=> t = "out" /\ x \in Offers
  <2>1. ASSUME NEW x \in Id, NEW t, Msg(t, x) \in S PROVE t = "out" /\ x \in Offers
    <3>1. PICK o \in D : Msg(t, x) = Msg("out", <<o, offered[o]>>)
      BY <2>1
    <3>2. t = "out" /\ x = <<o, offered[o]>>
      BY <3>1, MsgParts
    <3>. QED  BY <3>2 DEF Offers
  <2>2. ASSUME NEW x \in Offers PROVE Msg("out", x) \in S
    <3>1. x \in Id /\ offered[x[1]] = x[2] /\ x[1] \in Org /\ x[2] # 0 /\ x = <<x[1], x[2]>>
      BY <2>2, IdParts DEF Offers
    <3>. QED  BY <3>1
  <2>. QED  BY <2>1, <2>2
<1>7. \A y \in S : \E o \in D : y = Msg("out", <<o, offered[o]>>) /\ y.type = "out" /\ y.m[1] = o
  BY MsgParts, <1>5
<1> HIDE DEF D, S, g
<1>8. IsFiniteSet(S)
  BY <1>1, <1>2, FramesAbout
<1>9. /\ \A t : Carried(again, t) = {x \in Id : Msg(t, x) \in S}
      /\ \A k \in DOMAIN again : again[k] \in S
      /\ \A k, l \in DOMAIN again : again[k] = again[l] => k = l
  BY <1>8, CarriedInOrder, AllInOrder, InSomeOrder
<1>10. DOMAIN hi = {1} /\ hi[1] = Config /\ Len(hi) = 1
  OBVIOUS
<1>11. \A t : Carried(hi, t) = {}
  <2>1. \A t, x : Config # Msg(t, x)
    BY DEF Config, Msg
  <2>. QED  BY <1>10, <2>1 DEF Carried
<1> HIDE DEF again, hi
<1>12. \A t : Carried(toSide', t) = Carried(again, t)
  <2>1. \A t : Carried(hi \o again, t) = Carried(hi, t) \cup Carried(again, t)
    BY <1>4, CarriedBoth
  <2>. QED  BY <1>3, <1>11, <2>1
<1>13. (\A x \in Id : x \in Outs' <=> x \in Offers) /\ Replies' = {}
  <2>1. \A x \in Id : x \in Carried(toSide', "out") <=> x \in Offers
    BY <1>6, <1>9, <1>12
  <2>2. Carried(toSide', "in_ack") = {} /\ Carried(toSide', "in_nack") = {}
    BY <1>6, <1>9, <1>12
  <2>. QED  BY <2>1, <2>2, UnderWay
<1>14. \A k \in DOMAIN toSide' : \/ k = 1 /\ toSide'[k] = Config
                                 \/ k - 1 \in DOMAIN again /\ toSide'[k] = again[k - 1] /\ k \in Nat
  <2>1. Len(toSide') = Len(again) + 1 /\ Len(again) \in Nat /\ DOMAIN toSide' = 1..Len(toSide') /\ DOMAIN again = 1..Len(again)
    <3>1. toSide' \in Seq(Upward) /\ Len(toSide') = Len(hi) + Len(again)
      BY <1>3, <1>4
    <3>. QED  BY <1>4, <1>10, <3>1
  <2>2. toSide'[1] = Config
    <3>1. Len(hi) \in Nat /\ Len(again) \in Nat /\ DOMAIN hi = 1..Len(hi) /\ 1 \in 1..Len(hi)
      BY <1>4, <1>10
    <3>2. \A k \in 1..Len(hi) : (hi \o again)[k] = hi[k]
      BY <1>4, <3>1
    <3>. QED  BY <1>3, <1>10, <3>1, <3>2
  <2>3. ASSUME NEW k \in 2..Len(toSide') PROVE toSide'[k] = again[k - 1]
    <3>1. k \in Len(hi) + 1..Len(hi) + Len(again) /\ k - Len(hi) = k - 1
      BY <1>10, <2>1, <2>3
    <3>. QED  BY <1>3, <1>4, <3>1
  <2>. QED  BY <2>1, <2>2, <2>3
<1>15. Config.type = "config"
  BY DEF Config
<1>16. \A k \in DOMAIN toSide' : toSide'[k].type = "config" => k = 1 /\ toSide'[k] = Config
  BY <1>7, <1>9, <1>14
<1>17. ASSUME NEW o \in Org PROVE OneFrame(o)'
  <2>1. ASSUME NEW k \in DOMAIN toSide', toSide'[k].type = "out", toSide'[k].m[1] = o
        PROVE  /\ k - 1 \in DOMAIN again /\ k \in Nat
               /\ again[k - 1] = Msg("out", <<o, offered[o]>>)
    <3>1. k - 1 \in DOMAIN again /\ toSide'[k] = again[k - 1] /\ k \in Nat
      BY <1>14, <1>15, <2>1
    <3>2. PICK y \in D : again[k - 1] = Msg("out", <<y, offered[y]>>) /\ again[k - 1].m[1] = y
      BY <1>7, <1>9, <3>1
    <3>. QED  BY <2>1, <3>1, <3>2
  <2>2. ASSUME NEW k \in DOMAIN toSide', toSide'[k].type = "out", toSide'[k].m[1] = o,
               NEW l \in DOMAIN toSide', toSide'[l].type = "out", toSide'[l].m[1] = o
        PROVE  k = l
    <3>1. k - 1 = l - 1 /\ k \in Nat /\ l \in Nat
      BY <1>9, <2>1, <2>2
    <3>. QED  BY <3>1
  <2>. QED  BY <2>2 DEF OneFrame
<1>. QED
  BY <1>13, <1>16, <1>17

LEMMA ConnectConserves ==
    ASSUME IsFiniteSet(Org), OneCopyInv, OnConnected PROVE Conserved'
<1>1. /\ link = "down" /\ link' = "up"
      /\ UNCHANGED <<body, offered, ledger, resting, world, minted, jr, known, toMod, cur, old, abroad, faults>>
  BY DEF OnConnected, modVars, sideVars
<1>2. LinkTypes /\ Lone /\ Greeted /\ Faulted /\ Grounds
  BY DEF OneCopyInv, LinkInv, Conserved, Grounds
<1>3. /\ \A x \in Id : x \in Outs' <=> x \in Offers
      /\ Replies' = {}
      /\ \A o \in Org : OneFrame(o)'
      /\ \A k \in DOMAIN toSide' : toSide'[k].type = "config" => k = 1 /\ toSide'[k] = Config
  BY <1>2, OffersAgain
<1>4. Acks' = Acks /\ Nacks' = Nacks /\ Ins' = Ins
  BY <1>1, NothingForTheMod
<1>5. \A s : At(s)' = At(s)
  BY <1>1, SameJobs
<1>6. Busy' = Busy /\ Promised' = Promised
  BY <1>4, <1>5 DEF Busy, Promised
<1>7. Offers' = Offers
  BY <1>1 DEF Offers
<1>8. \A x \in Id : x \in Pending' => x \in Pending \/ x \in Offers
  BY <1>3, <1>6 DEF Pending
<1>9. \A x \in Id : x \in Mentioned' => x \in Mentioned
  BY <1>3, <1>4, <1>6, <1>7 DEF Mentioned
<1>10. Greeted'
  <2>1. Config.world = world
    BY DEF Config
  <2>. QED  BY <1>1, <1>2, <1>3, <2>1 DEF Greeted
<1>11. Faulted'
  <2>1. \A x : Known(x)' = Known(x)
    BY <1>1 DEF Known
  <2>2. \A o : Of(o)' = Of(o)
    BY DEF Of
  <2>. QED  BY <1>1, <1>2, <2>1, <2>2 DEF Faulted
<1>12. ASSUME NEW o \in Org, Alone(o)'
       PROVE  /\ Alone(o)
              /\ \A x \in Of(o) : x \notin Pending'
              /\ OnePlaceOnly(o) => OnePlaceOnly(o)'
  <2>1. offered[o] = 0 /\ Alone(o)
    BY <1>1, <1>2, <1>12 DEF Alone, Faulted
  <2>2. \A x \in Of(o) : x \in Id /\ x \notin Offers
    BY <2>1, IdParts DEF Of, Offers
  <2>3. Undisturbed(o)
    BY <1>2, <2>1 DEF Lone
  <2>4. \A x \in Of(o) : x \notin Busy /\ x \notin Outs'
    BY <1>3, <2>2, <2>3 DEF Undisturbed, Pending
  <2>5. OnePlaceOnly(o) => OnePlaceOnly(o)'
    <3>1. Of(o)' = Of(o)
      BY DEF Of
    <3>. QED  BY <1>1, <1>6, <2>4, <3>1 DEF OnePlaceOnly
  <2>. QED  BY <1>6, <2>1, <2>4, <2>5 DEF Pending
<1>13. Late => Late'
  BY <1>1 DEF Late
<1>14. world = 2 => 2 \notin known
  BY <1>1, <1>2 DEF Faulted
<1>. QED
  BY <1>1, <1>3, <1>4, <1>5, <1>6, <1>8, <1>9, <1>10, <1>11, <1>12, <1>13, <1>14, Traffic DEF SameEntries

LEMMA ReadGrounds ==
    ASSUME LinkTypes, Greeted, Faulted, toSide # <<>>, toSide' = Tail(toSide),
           UNCHANGED <<offered, world, link, known, abroad, old, faults>>,
           \A m \in Id : Known(m)' <=> Known(m)
    PROVE  Greeted' /\ Faulted' /\ link # "down"
<1>1. link # "down"
  BY DEF Greeted
<1>2. \A k \in DOMAIN toSide' : toSide'[k].type # "config"
  BY ReadBySide DEF Greeted
<1>3. \A o : Of(o)' = Of(o) /\ Of(o) \subseteq Id
  BY DEF Of
<1>. QED
  BY <1>1, <1>2, <1>3 DEF Greeted, Faulted

(* The read loop takes an offer. *)
LEMMA TakeConserves ==
    ASSUME OneCopyInv, toSide # <<>>, toSide' = Tail(toSide), Head(toSide).type = "out",
           cur = Idle, cur' = <<Head(toSide).m, "read">>,
           UNCHANGED <<body, offered, ledger, resting, world, minted, jr, known, link, toMod, old, abroad, faults>>
    PROVE  Conserved'
<1> DEFINE m == Head(toSide).m
<1>1. LinkTypes /\ Lone /\ Greeted /\ Faulted
  BY DEF OneCopyInv, LinkInv, Conserved, Grounds
<1>2. /\ m \in Id /\ m \in Outs
      /\ \A x \in Id : (x \in Outs' => x \in Outs) /\ (x \in Replies' => x \in Replies)
      /\ \A o \in Org : OneFrame(o) => OneFrame(o)' /\ (m[1] = o => Outs' \cap Of(o) = {})
  BY <1>1, ReadBySide
<1>3. \A x \in Id : Known(x)' <=> Known(x)
  BY DEF Known
<1>4. Greeted' /\ Faulted'
  BY <1>1, <1>3, ReadGrounds
<1> HIDE DEF m
<1>5. cur' = <<m, "read">>
  BY DEF m
<1>6. Acks' = Acks /\ Nacks' = Nacks /\ Ins' = Ins
  BY NothingForTheMod
<1>7. \A t : \A x \in Id : x \in At(t)' <=> x \in At(t) \/ (t = "read" /\ x = m)
  BY <1>5 DEF At, Idle
<1>8. \A x \in Id : (x \in Busy' => x \in Busy \/ x = m) /\ (x \in Busy => x \in Busy')
  BY <1>7 DEF Busy
<1>9. Offers' = Offers
  BY DEF Offers
<1>10. \A x \in Id :
         /\ x \in Mentioned' => x \in Mentioned
         /\ x \in Pending' => x \in Pending
         /\ x \in At("checked")' => x \in At("checked")
  BY <1>2, <1>6, <1>7, <1>8, <1>9 DEF Mentioned, Pending
<1>11. Late' = Late /\ Promised \subseteq Promised'
  <2>1. Promised \subseteq Id
    BY DEF Promised, At, Acks, Carried
  <2>. QED  BY <1>6, <1>7, <2>1 DEF Promised, Late
<1>12. ASSUME NEW o \in Org, Alone(o)'
       PROVE  /\ Alone(o) /\ Of(o) \subseteq Id /\ OneFrame(o)' /\ OnePlaceOnly(o)'
  <2>1. Alone(o)
    BY <1>12 DEF Alone
  <2>2. OneFrame(o) /\ OnePlaceOnly(o)
    BY <1>1, <2>1 DEF Lone, Undisturbed
  <2>3. Of(o)' = Of(o) /\ Of(o) \subseteq Id /\ (m[1] = o => m \in Of(o))
    BY <1>2 DEF Of
  <2>4. Outs' \cap Of(o) # {} => Busy' \cap Of(o) = {}
    <3>1. CASE m[1] = o
      BY <1>2, <2>2, <3>1
    <3>2. CASE m[1] # o
      <4>1. m \notin Of(o)
        BY <3>2 DEF Of
      <4>. QED  BY <1>2, <1>8, <2>2, <2>3, <4>1 DEF OnePlaceOnly
    <3>. QED  BY <3>1, <3>2
  <2>5. ASSUME m[1] = o, old # Idle, old[1][1] = o PROVE FALSE
    <3>1. Busy \cap Of(o) = {}
      BY <1>2, <2>2, <2>3, <2>5 DEF OnePlaceOnly
    <3>2. \E y \in Id, t \in {"read", "checked", "created"} : old = <<y, t>>
      BY <1>1, <2>5 DEF LinkTypes, Job
    <3>3. PICK y \in Id, t \in {"read", "checked", "created"} : old = <<y, t>>
      BY <3>2
    <3>4. y \in Busy /\ y[1] = o
      BY <2>5, <3>3 DEF Busy, At
    <3>. QED  BY <3>1, <3>4 DEF Of
  <2>6. cur'[1][1] = m[1]
    BY <1>5
  <2>7. OnePlaceOnly(o)'
    BY <2>3, <2>4, <2>5, <2>6 DEF OnePlaceOnly
  <2>. QED  BY <1>2, <2>1, <2>2, <2>3, <2>7
<1>. QED
  BY <1>2, <1>4, <1>6, <1>10, <1>11, <1>12, Traffic DEF SameEntries

(* An answer to a delivery settles its entry. *)
LEMMA SettleConserves ==
    ASSUME OneCopyInv, toSide # <<>>, toSide' = Tail(toSide), Head(toSide).type \in {"in_ack", "in_nack"},
           onMigrateInAck(Head(toSide).m) \/ onMigrateInNack(Head(toSide).m),
           UNCHANGED <<body, offered, ledger, resting, world, minted, old, abroad, faults>>
    PROVE  Conserved'
<1> DEFINE m == Head(toSide).m
<1>1. LinkTypes /\ Inbound /\ Greeted /\ Faulted
  BY DEF OneCopyInv, LinkInv, Conserved, Grounds
<1>2. /\ m \in Id /\ m \in Replies
      /\ \A x \in Id : (x \in Outs' => x \in Outs) /\ (x \in Replies' => x \in Replies)
      /\ \A o \in Org : OneFrame(o) => OneFrame(o)'
  BY <1>1, ReadBySide
<1>3. UNCHANGED <<known, link, toMod, cur>>
      /\ (jr' = jr \/ \E s : jr' = [jr EXCEPT ![m].status = s])
  BY DEF onMigrateInAck, onMigrateInNack
<1> HIDE DEF m
<1>4. SameEntries
  <2>1. jr[m].dir = "in" /\ jr \in [Id -> Entry] /\ jr[m] \in Entry
    BY <1>1, <1>2 DEF Inbound, LinkTypes
  <2>2. ASSUME NEW s, jr' = [jr EXCEPT ![m].status = s] PROVE SameEntries
    <3>1. jr'[m] = [jr[m] EXCEPT !.status = s] /\ \A x \in Id : x # m => jr'[x] = jr[x]
      BY <1>2, <2>1, <2>2
    <3>2. jr'[m].dir = "in"
      BY <2>1, <3>1 DEF Entry, As, NoEntry
    <3>. QED  BY <2>1, <3>1, <3>2 DEF SameEntries
  <2>. QED  BY <1>3, <2>2 DEF SameEntries
<1>5. \A x \in Id : Known(x)' <=> Known(x)
  BY <1>1, <1>4, SameTokens
<1>6. Greeted' /\ Faulted'
  <2>1. Faulted' /\ Greeted'
    BY <1>1, <1>3, <1>5, ReadGrounds
  <2>. QED  BY <2>1
<1>7. Acks' = Acks /\ Nacks' = Nacks /\ Ins' = Ins
  BY <1>3, NothingForTheMod
<1>8. (\A s : At(s)' = At(s)) /\ Busy' = Busy
  BY <1>3, SameJobs DEF Busy
<1>9. Offers' = Offers /\ Late' = Late /\ Promised' = Promised
  BY <1>3, <1>7, <1>8 DEF Offers, Late, Promised
<1>10. \A x \in Id : (x \in Mentioned' => x \in Mentioned) /\ (x \in Pending' => x \in Pending)
  BY <1>2, <1>7, <1>8, <1>9 DEF Mentioned, Pending
<1>11. \A o \in Org : (Alone(o)' => Alone(o)) /\ Of(o)' = Of(o) /\ Of(o) \subseteq Id
  BY <1>3 DEF Alone, Of
<1>12. \A o \in Org : OnePlaceOnly(o) => OnePlaceOnly(o)'
  BY <1>2, <1>3, <1>8, <1>11 DEF OnePlaceOnly
<1>. QED
  BY <1>2, <1>3, <1>4, <1>6, <1>7, <1>8, <1>9, <1>10, <1>11, <1>12, Traffic

(* A world session never seen before is told of the departed. *)
LEMMA Reasserted ==
    ASSUME IsFiniteSet(Org), LinkTypes, link # "down", NEW w,
           ToMod(IF w \in known THEN <<>> ELSE SetToSeq({Msg("out_ack", m) : m \in Departed}))
    PROVE  \A x \in Id :
             /\ x \in Acks' <=> x \in Acks \/ (w \notin known /\ x \in Departed)
             /\ x \in Nacks' <=> x \in Nacks
             /\ x \in Ins' <=> x \in Ins
<1> DEFINE S == {Msg("out_ack", m) : m \in Departed}
           g == [m \in Departed |-> Msg("out_ack", m)]
           fs == IF w \in known THEN <<>> ELSE SetToSeq(S)
<1>1. IsFiniteSet(Departed) /\ Departed \subseteq Id
  BY IdsFinite, FS_Subset DEF Departed
<1>2. g \in [Departed -> S] /\ \A x \in S : \E y \in Departed : g[y] = x
  OBVIOUS
<1>3. toMod' = toMod \o fs
  BY DEF ToMod
<1>4. toMod \in Seq(Downward) /\ fs \in Seq(Downward)
  BY ReassertedIn DEF LinkTypes
<1>5. \A t : \A x \in Id : Msg(t, x) \in S <=> t = "out_ack" /\ x \in Departed
  BY MsgParts
<1> HIDE DEF S, g
<1>6. IsFiniteSet(S)
  BY <1>1, <1>2, FramesAbout
<1>7. \A t : Carried(SetToSeq(S), t) = {x \in Id : Msg(t, x) \in S}
  BY <1>6, CarriedInOrder
<1>8. \A t : Carried(<<>>, t) = {}
  BY DEF Carried
<1>9. \A t : \A x \in Id : x \in Carried(fs, t) <=> w \notin known /\ t = "out_ack" /\ x \in Departed
  BY <1>5, <1>7, <1>8
<1> HIDE DEF fs
<1>10. \A t : Carried(toMod \o fs, t) = Carried(toMod, t) \cup Carried(fs, t)
  BY <1>4, CarriedBoth
<1>11. \A t : \A x \in Id : x \in Carried(toMod', t) <=>
         x \in Carried(toMod, t) \/ (w \notin known /\ t = "out_ack" /\ x \in Departed)
  BY <1>3, <1>9, <1>10
<1>. QED
  BY <1>11, UnderWay

LEMMA GreetConserves ==
    ASSUME IsFiniteSet(Org), OneCopyInv, toSide # <<>>, toSide' = Tail(toSide),
           Head(toSide).type = "config", onConfigUpdate(Head(toSide)),
           UNCHANGED <<body, offered, ledger, resting, world, minted, old, abroad, faults>>
    PROVE  Conserved'
<1> DEFINE f == Head(toSide)
<1>1. LinkTypes /\ Grounds /\ Greeted /\ Faulted /\ FirstTrip /\ Lone
  BY DEF OneCopyInv, LinkInv, Conserved, Grounds
<1>2. /\ 1 \in DOMAIN toSide /\ f = toSide[1]
      /\ \A x \in Id : (x \in Outs' => x \in Outs) /\ (x \in Replies' => x \in Replies)
      /\ \A o \in Org : OneFrame(o) => OneFrame(o)'
      /\ \A k \in DOMAIN toSide' : k + 1 \in DOMAIN toSide /\ k + 1 # 1 /\ toSide'[k] = toSide[k + 1]
  BY <1>1, ReadBySide
<1>3. link = "up" /\ f.world = world
  BY <1>1, <1>2 DEF Greeted
<1>4. /\ link' = "shaken" /\ known' = known \cup {world} /\ UNCHANGED <<jr, cur>>
      /\ ToMod(IF world \in known THEN <<>> ELSE SetToSeq({Msg("out_ack", m) : m \in Departed}))
  BY <1>3 DEF onConfigUpdate
<1> HIDE DEF f
<1>5. \A x \in Id :
        /\ x \in Acks' <=> x \in Acks \/ (world \notin known /\ x \in Departed)
        /\ x \in Nacks' <=> x \in Nacks
        /\ x \in Ins' <=> x \in Ins
  BY <1>1, <1>3, <1>4, Reasserted
<1>6. \A x \in Departed : x \in Id /\ Known(x)
  BY Kinds DEF Departed, Known
<1>7. Greeted'
  <2>1. \A k \in DOMAIN toSide' : toSide'[k].type # "config"
    BY <1>1, <1>2 DEF Greeted
  <2>2. world \in 1..world
    BY <1>1 DEF Faulted
  <2>. QED  BY <1>1, <1>4, <2>1, <2>2 DEF Greeted
<1>8. Faulted'
  BY <1>1, <1>4 DEF Faulted
<1>9. (\A s : At(s)' = At(s)) /\ Busy' = Busy
  BY <1>4, SameJobs DEF Busy
<1>10. Offers' = Offers
  BY DEF Offers
<1>11. \A x \in Id : (x \in Mentioned' => x \in Mentioned \/ Known(x)) /\ (x \in Pending' => x \in Pending)
  BY <1>2, <1>5, <1>6, <1>9, <1>10 DEF Mentioned, Pending
<1>12. (Late => Late') /\ Promised \subseteq Promised'
  <2>1. Promised \subseteq Id
    BY DEF Promised, At, Acks, Carried
  <2>. QED  BY <1>4, <1>5, <1>9, <2>1 DEF Late, Promised
<1>13. ASSUME NEW o \in Org, Alone(o)'
       PROVE  /\ Alone(o) /\ \A x \in Of(o) : x \in Id /\ x \notin Departed
              /\ OnePlaceOnly(o) => OnePlaceOnly(o)'
  <2>1. Of(o)' = Of(o) /\ Of(o) \subseteq Id
    BY DEF Of
  <2>2. faults = 0 /\ world = 1
    <3>1. world # 2
      BY <1>1, <1>3, <1>13 DEF Alone, Faulted
    <3>. QED  BY <1>1, <1>4, <1>13, <3>1 DEF Alone, Faulted
  <2>3. Alone(o) /\ \A x \in Of(o) : ~Known(x)
    BY <1>1, <1>3, <2>2 DEF Alone, Faulted
  <2>4. OnePlaceOnly(o) => OnePlaceOnly(o)'
    BY <1>2, <1>4, <1>9, <2>1 DEF OnePlaceOnly
  <2>. QED  BY <1>6, <2>1, <2>3, <2>4
<1>14. world = 2 /\ 2 \notin known => AfterLoad'
  <2>. SUFFICES ASSUME world = 2, 2 \notin known, NEW o \in Org, minted[o] <= 1, Gone(o)
       PROVE  Promised' \cap Of(o) # {}
    <3>1. \A y : Of(y)' = Of(y)
      BY DEF Of
    <3>2. \A y \in Org : Gone(y)' => Gone(y)
      BY <1>4, <3>1 DEF Gone
    <3>. QED  BY <3>1, <3>2 DEF AfterLoad
  <2>1. Departed \cap Of(o) # {}
    <3>1. CASE o \in abroad
      <4>1. minted[o] = 1 /\ jr[<<o, 1>>] = As("out", "in_flight")
        BY <1>1, <3>1 DEF FirstTrip
      <4>2. <<o, 1>> \in Id /\ <<o, 1>>[1] = o
        BY <1>1, <4>1 DEF LinkTypes, Id, Trip
      <4>. QED  BY <4>1, <4>2, Kinds DEF Departed, Of
    <3>2. CASE \E m \in Of(o) : jr[m] = As("out", "open")
      BY <3>2, Kinds DEF Departed, Of
    <3>. QED  BY <3>1, <3>2 DEF Gone
  <2>. QED  BY <1>5, <1>6, <2>1 DEF Promised
<1>15. world = 2 /\ 2 \in known' => (2 \in known /\ Promised \subseteq Promised') \/ AfterLoad'
  BY <1>12, <1>14
<1>16. world = 1 => /\ Late => Late' /\ Promised \subseteq Promised'
                    /\ \A m \in Nacks' \cap Offers : m \in Nacks \/ ~Away(m[1]) \/ (m \in Promised /\ Late)
  <2>1. Offers \subseteq Id
    BY DEF Offers
  <2>. QED  BY <1>5, <1>12, <2>1
<1>17. \A m \in Id :
         /\ m \in Ins' \/ m \in Replies' => m \in Ins \/ m \in Replies \/ jr[m].dir = "in"
         /\ m \in Pending' => m \in Pending \/ m \in Offers
         /\ m \in At("checked")' => m \in At("checked") \/ ~Known(m)
  BY <1>2, <1>5, <1>9, <1>11
<1>18. \A o \in Org : Alone(o)' =>
         /\ Alone(o)
         /\ \A m \in Of(o) :
              /\ m \in Pending' => m \in Pending /\ (m \in Acks' => m \in Acks) /\ (m \in Nacks' => m \in Nacks)
              /\ m \in Nacks' /\ m \in Offers => m \in Nacks \/ ~Known(m)
         /\ OneFrame(o) => OneFrame(o)'
         /\ OnePlaceOnly(o) => OnePlaceOnly(o)'
  BY <1>2, <1>5, <1>11, <1>13
<1>19. SameEntries /\ ledger \subseteq ledger'
  BY <1>4 DEF SameEntries
<1>. QED
  BY <1>7, <1>8, <1>11, <1>15, <1>16, <1>17, <1>18, <1>19, Traffic

LEMMA ReadConserves ==
    ASSUME IsFiniteSet(Org), OneCopyInv, handleModFrame PROVE Conserved'
<1> DEFINE f == Head(toSide)
<1>1. /\ toSide # <<>> /\ cur = Idle /\ toSide' = Tail(toSide)
      /\ UNCHANGED <<body, offered, ledger, resting, world, minted, old, abroad, faults>>
  BY DEF handleModFrame, modVars
<1>2. f \in Upward
  BY <1>1, ReadBySide DEF OneCopyInv, LinkInv
<1>3. f.type \in {"config", "in_ack", "in_nack", "out"}
  BY <1>2 DEF Upward
<1>4. CASE f.type = "config"
  BY <1>1, <1>4, GreetConserves DEF handleModFrame
<1>5. CASE f.type = "in_ack"
  BY <1>1, <1>5, SettleConserves DEF handleModFrame
<1>6. CASE f.type = "in_nack"
  BY <1>1, <1>6, SettleConserves DEF handleModFrame
<1>7. CASE f.type = "out"
  BY <1>1, <1>7, TakeConserves DEF handleModFrame
<1>. QED
  BY <1>3, <1>4, <1>5, <1>6, <1>7

(* A delivery goes out, or comes home to be one. *)
LEMMA DeliverConserves ==
    ASSUME OneCopyInv, NEW m \in Id, Deliver(m) \/ Bounce(m) PROVE Conserved'
<1>1. LinkTypes /\ Greeted /\ Faulted /\ Bounded
  BY DEF OneCopyInv, LinkInv, Conserved, Grounds
<1>2. /\ UNCHANGED <<body, offered, ledger, resting, world, minted, known, link, toSide, cur, old, abroad, faults>>
      /\ (jr[m].dir = "in" /\ link # "down" /\ jr' = [jr EXCEPT ![m].status = "in_flight"] /\ ToMod(<<Msg("in", m)>>))
         \/ (jr[m] = As("out", "open") /\ UNCHANGED toMod /\ jr' = [jr EXCEPT ![m] = As("in", "open")])
  BY Kinds DEF Deliver, Bounce, modVars, wireVars
<1>3. SameEntries
  <2>1. jr \in [Id -> Entry] /\ jr[m] \in Entry
    BY <1>1 DEF LinkTypes
  <2>2. \A x \in Id : x # m => jr'[x] = jr[x]
    BY <1>2, <2>1
  <2>3. CASE jr[m].dir = "in" /\ jr' = [jr EXCEPT ![m].status = "in_flight"]
    <3>1. jr'[m] = [jr[m] EXCEPT !.status = "in_flight"]
      BY <2>1, <2>3
    <3>2. jr'[m].dir = "in"
      BY <2>1, <2>3, <3>1 DEF Entry, As, NoEntry
    <3>. QED  BY <2>2, <2>3, <3>2 DEF SameEntries
  <2>4. CASE jr[m] = As("out", "open") /\ jr' = [jr EXCEPT ![m] = As("in", "open")]
    BY <2>1, <2>2, <2>4, Kinds DEF SameEntries
  <2>. QED  BY <1>2, <2>3, <2>4
<1>4. \A x \in Id :
        /\ x \in Acks' <=> x \in Acks
        /\ x \in Nacks' <=> x \in Nacks
        /\ x \in Ins' => x \in Ins \/ (x = m /\ jr[m].dir = "in")
  <2>1. CASE UNCHANGED toMod
    BY <2>1, NothingForTheMod
  <2>2. CASE ToMod(<<Msg("in", m)>>) /\ jr[m].dir = "in"
    BY <1>1, <2>2, SentToMod
  <2>. QED  BY <1>2, <2>1, <2>2
<1>5. jr[m].dir = "in" => Known(m)
  BY Kinds DEF Known
<1>6. \A x \in Id : Known(x)' <=> Known(x)
  BY <1>1, <1>2, <1>3, SameTokens
<1>7. Outs' = Outs /\ Replies' = Replies /\ \A o \in Org : OneFrame(o)' = OneFrame(o)
  BY <1>2, NothingForTheSide
<1>8. (\A s : At(s)' = At(s)) /\ Busy' = Busy /\ Offers' = Offers
  BY <1>2, SameJobs DEF Busy, Offers
<1>9. \A o \in Org : Alone(o)' = Alone(o) /\ Of(o)' = Of(o) /\ Of(o) \subseteq Id
                     /\ OnePlaceOnly(o)' = OnePlaceOnly(o)
  BY <1>2, <1>7, <1>8 DEF Alone, Of, OnePlaceOnly
<1>10. Greeted' /\ Faulted'
  BY <1>1, <1>2, <1>6, <1>9 DEF Greeted, Faulted
<1>11. Late' = Late /\ Promised \subseteq Promised'
  <2>1. Promised \subseteq Id
    BY DEF Promised, At, Acks, Carried
  <2>. QED  BY <1>2, <1>4, <1>8, <2>1 DEF Late, Promised
<1>12. \A x \in Id : (x \in Mentioned' => x \in Mentioned \/ Known(x)) /\ (x \in Pending' => x \in Pending)
  BY <1>4, <1>5, <1>7, <1>8 DEF Mentioned, Pending
<1>13. Offers \subseteq Id
  BY DEF Offers
<1>. QED
  BY <1>2, <1>3, <1>4, <1>7, <1>8, <1>9, <1>10, <1>11, <1>12, <1>13, Traffic

(* The custody tick hands an organism over: what stood for it in the journal *)
(* stands for it abroad.                                                     *)
LEMMA ForwardConserves ==
    ASSUME OneCopyInv, NEW m \in Id, Forward(m) PROVE Conserved'
<1> DEFINE o == m[1]
<1>1. LinkTypes /\ Grounds /\ Lone /\ Bounded /\ Inbound /\ FirstTrip /\ Frozen /\ Greeted /\ Faulted
  BY DEF OneCopyInv, LinkInv, Conserved, Grounds
<1>2. /\ jr[m] = As("out", "open") /\ jr' = [jr EXCEPT ![m].status = "in_flight"] /\ abroad' = abroad \cup {o}
      /\ UNCHANGED <<body, offered, ledger, resting, world, minted, known, link, toMod, toSide, cur, old, faults>>
  BY DEF Forward, modVars, wireVars
<1>3. o \in Org /\ m \in Of(o)
  BY IdParts DEF Of
<1>4. /\ jr'[m] = As("out", "in_flight") /\ Known(m) /\ Known(m)' /\ ~Token(m)' /\ Token(m)
      /\ \A x \in Id : x # m => jr'[x] = jr[x] /\ (Token(x)' <=> Token(x))
  <2>1. jr \in [Id -> Entry]
    BY <1>1 DEF LinkTypes
  <2>2. jr'[m] = [As("out", "open") EXCEPT !.status = "in_flight"] /\ \A x \in Id : x # m => jr'[x] = jr[x]
    BY <1>2, <2>1
  <2>3. jr'[m] = As("out", "in_flight")
    BY <2>2 DEF As
  <2>. QED  BY <1>2, <2>2, <2>3, Kinds DEF Token, Known
<1>5. \A x \in Id : Known(x)' <=> Known(x)
  BY <1>4 DEF Known
<1>6. Acks' = Acks /\ Nacks' = Nacks /\ Ins' = Ins
  BY <1>2, NothingForTheMod
<1>7. Outs' = Outs /\ Replies' = Replies /\ \A y \in Org : OneFrame(y)' = OneFrame(y)
  BY <1>2, NothingForTheSide
<1>8. (\A s : At(s)' = At(s)) /\ Busy' = Busy /\ Offers' = Offers
  BY <1>2, SameJobs DEF Busy, Offers
<1>9. \A y \in Org : Alone(y)' = Alone(y) /\ Of(y)' = Of(y) /\ Of(y) \subseteq Id
                     /\ OnePlaceOnly(y)' = OnePlaceOnly(y)
  BY <1>2, <1>7, <1>8 DEF Alone, Of, OnePlaceOnly
<1>10. Late' = Late /\ Promised' = Promised /\ Mentioned' = Mentioned /\ Pending' = Pending
  BY <1>2, <1>6, <1>7, <1>8 DEF Late, Promised, Mentioned, Pending
<1>11. \A y \in Org : (Away(y)' => Away(y)) /\ (Gone(y)' => Gone(y))
  <2>1. Away(o) /\ Gone(o)
    BY <1>2, <1>3, <1>4 DEF Away, Gone
  <2>2. ASSUME NEW y \in Org, y # o PROVE (Away(y)' => Away(y)) /\ (Gone(y)' => Gone(y))
    <3>1. \A x \in Of(y) : x \in Id /\ x # m
      BY <2>2 DEF Of
    <3>. QED  BY <1>2, <1>4, <1>9, <2>2, <3>1 DEF Away, Gone
  <2>. QED  BY <2>1, <2>2
<1>12. Bounded' /\ Frozen'
  BY <1>1, <1>2, <1>5, <1>10 DEF Bounded, Frozen
<1>13. Inbound'
  <2>1. \A x \in Ins \cup Replies : x \in Id /\ x # m
    BY <1>1, <1>2, Kinds DEF Inbound, Ins, Replies, Carried
  <2>. QED  BY <1>1, <1>4, <1>6, <1>7, <2>1 DEF Inbound
<1>14. FirstTrip'
  <2>. SUFFICES ASSUME NEW y \in Org, y \in abroad', minted[y] <= 1
       PROVE  minted[y] = 1 /\ jr'[<<y, 1>>] = As("out", "in_flight")
    BY <1>2 DEF FirstTrip
  <2>1. CASE y = o
    <3>1. m[2] \in Nat /\ m[2] >= 1 /\ m[2] <= minted[o] /\ m = <<m[1], m[2]>> /\ minted[o] \in 0..MaxTrips
      BY <1>1, <1>3, <1>4, IdParts DEF Bounded, LinkTypes
    <3>2. minted[o] = 1 /\ m[2] = 1
      BY <2>1, <3>1, BoundsAssumption
    <3>. QED  BY <1>4, <2>1, <3>1, <3>2
  <2>2. CASE y # o
    <3>1. minted[y] = 1 /\ jr[<<y, 1>>] = As("out", "in_flight")
      BY <1>1, <1>2, <2>2 DEF FirstTrip
    <3>2. <<y, 1>> \in Id /\ <<y, 1>> # m
      BY <1>1, <2>2, <3>1 DEF LinkTypes, Id, Trip
    <3>. QED  BY <1>4, <3>1, <3>2
  <2>. QED  BY <2>1, <2>2
<1>15. ~(faults = 0 /\ link # "shaken")
  BY <1>1, <1>3, <1>4 DEF Faulted
<1>16. Greeted' /\ Faulted'
  BY <1>1, <1>2, <1>9, <1>15 DEF Greeted, Faulted
<1>17. Lone'
  BY <1>1, <1>2, <1>5, <1>6, <1>7, <1>8, <1>9, <1>10, AloneKept
<1>18. world = 1 => InFirstWorld'
  <2>. SUFFICES ASSUME world = 1 PROVE InFirstWorld'
    OBVIOUS
  <2>1. InFirstWorld
    BY DEF OneCopyInv, Conserved
  <2>2. OneToken'
    <3>1. OneToken
      BY <2>1 DEF InFirstWorld
    <3>2. \A x, y \in Id : Token(x)' /\ Token(y)' /\ x[1] = y[1] => x = y
      BY <1>4, <3>1 DEF OneToken
    <3>3. \A x \in Id : x[1] \in abroad' => ~Token(x)'
      BY <1>2, <1>4, <3>1 DEF OneToken
    <3>. QED  BY <3>2, <3>3 DEF OneToken
  <2>3. Traced'
    <3>. SUFFICES ASSUME NEW y \in Org, minted[y] = 1
         PROVE  /\ body[y] = "none" => Known(<<y, 1>>)'
                /\ jr'[<<y, 1>>].dir = "out" => jr'[<<y, 1>>] = As("out", "open") \/ y \in abroad'
      BY <1>2, <2>1 DEF InFirstWorld, Traced
    <3>1. <<y, 1>> \in Id /\ <<y, 1>>[1] = y
      BY <1>1 DEF LinkTypes, Id, Trip
    <3>2. CASE <<y, 1>> = m
      BY <1>2, <1>4, <3>1, <3>2
    <3>3. CASE <<y, 1>> # m
      BY <1>2, <1>4, <1>5, <2>1, <3>1, <3>3 DEF InFirstWorld, Traced
    <3>. QED  BY <3>2, <3>3
  <2>. QED  BY <1>1, <1>2, <1>5, <1>6, <1>8, <1>10, <1>11, <2>1, <2>2, <2>3, FirstWorldKept
<1>19. world = 2 => AfterLoad'
  BY <1>2, <1>10, <1>11, AfterLoadKept DEF OneCopyInv, Conserved
<1>. QED
  BY <1>2, <1>12, <1>13, <1>14, <1>16, <1>17, <1>18, <1>19 DEF Conserved, Grounds

(* An organism comes home under a new migrationId. *)
LEMMA ArriveConserves ==
    ASSUME OneCopyInv, NEW o \in Org, Arrive(o) PROVE Conserved'
<1>1. LinkTypes /\ Grounds /\ Lone /\ Bounded /\ Inbound /\ FirstTrip /\ Frozen /\ Greeted /\ Faulted
  BY DEF OneCopyInv, LinkInv, Conserved, Grounds
<1> DEFINE next == minted[o] + 1
<1>0. PICK n \in Trip, m \in Id : n = next /\ m = <<o, n>>
  BY IdParts DEF Arrive
<1>2. /\ o \in abroad /\ n \in Trip /\ minted' = [minted EXCEPT ![o] = n]
      /\ jr' = [jr EXCEPT ![m] = As("in", "open")] /\ abroad' = abroad \ {o}
      /\ UNCHANGED <<body, offered, ledger, resting, world, known, link, toMod, toSide, cur, old, faults>>
  BY <1>0 DEF Arrive, modVars, wireVars
<1>3. m \in Id /\ m[1] = o /\ m[2] = n /\ m \in Of(o)
  BY <1>0, IdParts DEF Of
<1>4. minted[o] \in Nat /\ minted'[o] = n /\ n = minted[o] + 1 /\ \A y \in Org : y # o => minted'[y] = minted[y]
  BY <1>0, <1>1, <1>2, BoundsAssumption DEF LinkTypes
<1>5. ~Known(m) /\ m \notin Mentioned
  BY <1>1, <1>3, <1>4 DEF Bounded
<1> HIDE DEF next
<1>6. /\ jr'[m] = As("in", "open") /\ Known(m)'
      /\ \A x \in Id : x # m => jr'[x] = jr[x] /\ (Known(x)' <=> Known(x)) /\ (Token(x)' <=> Token(x))
  <2>1. jr'[m] = As("in", "open") /\ \A x \in Id : x # m => jr'[x] = jr[x]
    BY <1>1, <1>2, <1>3 DEF LinkTypes
  <2>. QED  BY <1>2, <2>1, Kinds DEF Known, Token
<1>7. Acks' = Acks /\ Nacks' = Nacks /\ Ins' = Ins
  BY <1>2, NothingForTheMod
<1>8. Outs' = Outs /\ Replies' = Replies /\ \A y \in Org : OneFrame(y)' = OneFrame(y)
  BY <1>2, NothingForTheSide
<1>9. (\A s : At(s)' = At(s)) /\ Busy' = Busy /\ Offers' = Offers
  BY <1>2, SameJobs DEF Busy, Offers
<1>10. Late' = Late /\ Promised' = Promised /\ Mentioned' = Mentioned /\ Pending' = Pending
  BY <1>2, <1>7, <1>8, <1>9 DEF Late, Promised, Mentioned, Pending
<1>11. \A y : Of(y)' = Of(y) /\ Of(y) \subseteq Id /\ \A x \in Of(y) : x[1] = y
  BY DEF Of
<1>12. \A y \in Org : y # o => (Away(y)' <=> Away(y)) /\ (Gone(y)' <=> Gone(y))
  <2>1. ASSUME NEW y \in Org, y # o PROVE (Away(y)' <=> Away(y)) /\ (Gone(y)' <=> Gone(y))
    <3>1. \A x \in Of(y) : x \in Id /\ x # m
      BY <1>3, <1>11, <2>1
    <3>. QED  BY <1>2, <1>6, <1>11, <2>1, <3>1 DEF Away, Gone
  <2>. QED  BY <2>1
<1>13. Away(o)
  BY <1>2 DEF Away
<1>14. Bounded'
  <2>1. \A y \in Org : minted[y] <= minted'[y] /\ minted[y] \in Nat /\ minted'[y] \in Nat
    BY <1>1, <1>4, BoundsAssumption DEF LinkTypes
  <2>. QED  BY <1>1, <1>3, <1>4, <1>6, <1>10, <2>1, BoundedKept
<1>15. Inbound'
  <2>1. \A x \in Ins \cup Replies : x \in Id
    BY DEF Ins, Replies, Carried
  <2>. QED  BY <1>1, <1>6, <1>7, <1>8, <2>1, Kinds DEF Inbound
<1>16. FirstTrip'
  <2>. SUFFICES ASSUME NEW y \in Org, y \in abroad, y # o, minted[y] <= 1
       PROVE  minted[y] = 1 /\ jr'[<<y, 1>>] = As("out", "in_flight")
    BY <1>2, <1>4 DEF FirstTrip
  <2>1. minted[y] = 1 /\ jr[<<y, 1>>] = As("out", "in_flight")
    BY <1>1 DEF FirstTrip
  <2>2. <<y, 1>> \in Id /\ <<y, 1>> # m
    BY <1>1, <1>3, <2>1 DEF LinkTypes, Id, Trip
  <2>. QED  BY <1>6, <2>1, <2>2
<1>17. Frozen'
  BY <1>1, <1>2 DEF Frozen
<1>18. Greeted' /\ Faulted'
  <2>1. ~(faults = 0 /\ link # "shaken")
    BY <1>1, <1>2 DEF Faulted
  <2>. QED  BY <1>1, <1>2, <1>11, <2>1 DEF Greeted, Faulted
<1>19. Lone'
  <2>. SUFFICES ASSUME NEW y \in Org, Alone(y)' PROVE Undisturbed(y)'
    BY DEF Lone
  <2>1. Alone(y)
    BY <1>2, <1>4 DEF Alone
  <2>2. Undisturbed(y) /\ OneFrame(y) /\ OnePlaceOnly(y)
    BY <1>1, <2>1 DEF Lone, Undisturbed
  <2>3. \A x \in Of(y) : x \in Pending \/ x \in Nacks \/ x \in Offers \/ x \in At("checked") => (Known(x)' <=> Known(x))
    <3>1. \A x \in Id : x \in Pending \/ x \in Nacks \/ x \in Offers \/ x \in At("checked") => x \in Mentioned
      BY DEF Mentioned, Pending, Busy
    <3>. QED  BY <1>5, <1>6, <1>11, <3>1
  <2>4. OnePlaceOnly(y)'
    BY <1>2, <1>8, <1>9, <1>11, <2>2 DEF OnePlaceOnly
  <2>5. \A x \in Of(y)' \cap Pending' : x \in Offers' /\ x \notin Acks' /\ x \notin Nacks'
    BY <1>7, <1>9, <1>10, <1>11, <2>2 DEF Undisturbed
  <2>6. \A x \in Of(y)' : (x \in Nacks' /\ x \in Offers') \/ x \in At("checked")' => ~Known(x)'
    BY <1>7, <1>9, <1>11, <2>2, <2>3 DEF Undisturbed
  <2>. QED  BY <1>8, <2>2, <2>4, <2>5, <2>6 DEF Undisturbed
<1>20. minted[o] # 0
  <2>. SUFFICES ASSUME minted[o] = 0 PROVE FALSE
    OBVIOUS
  <2>1. minted[o] <= 1 /\ o \in abroad
    BY <1>2
  <2>2. minted[o] = 1
    BY <1>1, <2>1 DEF FirstTrip
  <2>. QED  BY <2>2
<1>21. ASSUME world = 1 PROVE InFirstWorld'
  <2>1. /\ LiveAway /\ LivePending /\ NackAway /\ Rechecked
        /\ Unresolved /\ LastOffered /\ OneToken /\ Traced
    BY <1>21 DEF OneCopyInv, Conserved, InFirstWorld
  <2>2. \A y \in Org : Away(y)' => Away(y)
    BY <1>12, <1>13
  <2>3. Pending \subseteq Id /\ Nacks \subseteq Id /\ Offers \subseteq Id /\ At("checked") \subseteq Id
    BY DEF Pending, Busy, Outs, Nacks, Offers, At, Carried
  <2>4. LiveAway'
    BY <1>2, <1>10, <1>11, <2>1, <2>2 DEF LiveAway
  <2>5. \A x \in Id : Known(x) => Known(x)'
    BY <1>5, <1>6
  <2>6. LivePending'
    BY <1>2, <1>10, <2>1, <2>3, <2>5 DEF LivePending
  <2>7. NackAway'
    BY <1>7, <1>9, <1>10, <2>1, <2>2, <2>3, IdParts DEF NackAway
  <2>8. Rechecked'
    <3>1. \A x \in At("checked") : x \in Mentioned
      BY <2>3 DEF Mentioned, Busy
    <3>. QED  BY <1>5, <1>6, <1>9, <1>10, <2>1, <2>3, <3>1 DEF Rechecked
  <2>9. Unresolved'
    <3>. SUFFICES ASSUME NEW x \in Id, x \in Pending \/ x \in Offers, ~Known(x)'
         PROVE  x[2] = minted'[x[1]] /\ ~Away(x[1])'
      BY <1>9, <1>10, <2>3 DEF Unresolved
    <3>1. x[2] = minted[x[1]] /\ ~Away(x[1])
      BY <2>1, <2>5 DEF Unresolved
    <3>2. x[1] # o
      BY <1>13, <3>1
    <3>. QED  BY <1>4, <1>12, <3>1, <3>2, IdParts
  <2>10. LastOffered'
    <3>. SUFFICES ASSUME NEW x \in Offers
         PROVE  x[2] = minted'[x[1]] \/ jr'[<<x[1], minted'[x[1]]>>] # NoEntry
      BY <1>9 DEF LastOffered, Known
    <3>1. x \in Id /\ x[1] \in Org /\ x[2] \in Nat /\ x[2] >= 1 /\ x[2] <= minted[x[1]] /\ minted[x[1]] \in 0..MaxTrips
      BY <1>1, IdParts DEF Bounded, Mentioned, Offers, LinkTypes
    <3>2. CASE x[1] = o
      <4>1. <<x[1], minted'[x[1]]>> = m
        BY <1>0, <1>4, <3>2
      <4>. QED  BY <1>6, <4>1 DEF Known
    <3>3. CASE x[1] # o
      <4>1. minted[x[1]] \in Trip
        BY <3>1, BoundsAssumption DEF Trip
      <4>2. <<x[1], minted[x[1]]>> \in Id /\ <<x[1], minted[x[1]]>>[1] # o
        BY <3>1, <3>3, <4>1, IdParts
      <4>3. jr'[<<x[1], minted[x[1]]>>] = jr[<<x[1], minted[x[1]]>>]
        BY <1>3, <1>6, <4>2
      <4>. QED  BY <1>4, <2>1, <3>1, <3>3, <4>3 DEF LastOffered, Known
    <3>. QED  BY <3>2, <3>3
  <2>11. OneToken'
    <3>1. \A x \in Id : x[1] = o => ~Token(x)
      BY <1>2, <2>1 DEF OneToken
    <3>2. \A x, y \in Id : Token(x)' /\ Token(y)' /\ x[1] = y[1] => x = y
      BY <1>3, <1>6, <2>1, <3>1 DEF OneToken
    <3>3. \A x \in Id : x[1] \in abroad' => ~Token(x)'
      BY <1>2, <1>3, <1>6, <2>1 DEF OneToken
    <3>. QED  BY <3>2, <3>3 DEF OneToken
  <2>12. Traced'
    <3>. SUFFICES ASSUME NEW y \in Org
         PROVE  /\ minted'[y] = 0 => body[y] = "live"
                /\ minted'[y] = 1 =>
                     /\ body[y] = "none" => Known(<<y, 1>>)'
                     /\ jr'[<<y, 1>>].dir = "out" => jr'[<<y, 1>>] = As("out", "open") \/ y \in abroad'
      BY <1>2 DEF Traced
    <3>1. CASE y = o
      <4>1. minted'[y] # 0 /\ minted'[y] # 1
        BY <1>4, <1>20, <3>1
      <4>. QED  BY <4>1
    <3>2. CASE y # o /\ minted[y] = 1
      <4>1. <<y, 1>> \in Id /\ <<y, 1>>[1] = y
        BY <1>1, <3>2 DEF LinkTypes, Id, Trip
      <4>2. jr'[<<y, 1>>] = jr[<<y, 1>>]
        BY <1>3, <1>6, <3>2, <4>1
      <4>. QED  BY <1>2, <1>4, <2>1, <3>2, <4>2 DEF Traced, Known
    <3>3. CASE y # o /\ minted[y] # 1
      BY <1>4, <2>1, <3>3 DEF Traced
    <3>. QED  BY <3>1, <3>2, <3>3
  <2>. QED  BY <2>4, <2>6, <2>7, <2>8, <2>9, <2>10, <2>11, <2>12 DEF InFirstWorld
<1>22. ASSUME world = 2 PROVE AfterLoad'
  <2>1. AfterLoad
    BY <1>22 DEF OneCopyInv, Conserved
  <2>. SUFFICES ASSUME NEW y \in Org, minted'[y] <= 1, body[y] = "live", Gone(y)'
       PROVE  2 \notin known \/ Promised \cap Of(y) # {}
    BY <1>2, <1>10, <1>11 DEF AfterLoad
  <2>2. y # o
    BY <1>4, <1>20
  <2>. QED  BY <1>4, <1>12, <2>1, <2>2 DEF AfterLoad
<1>. QED
  BY <1>2, <1>14, <1>15, <1>16, <1>17, <1>18, <1>19, <1>21, <1>22 DEF Conserved, Grounds

(* Both windows outlast what is under way when they start. *)
LEMMA QuietHasNothing ==
    ASSUME LinkTypes, NEW o \in Org, Quiet(o)
    PROVE  \A m \in Of(o) : m \notin Pending /\ m \notin Promised
<1>. SUFFICES ASSUME NEW m \in Of(o), m \in Pending \/ m \in Promised PROVE FALSE
  OBVIOUS
<1>1. m \in Id /\ m[1] = o
  BY DEF Of
<1>2. ASSUME NEW t, About(o, Msg(t, m)) => FALSE, t # "config" PROVE FALSE
  BY <1>1, <1>2, MsgParts DEF About
<1>3. m \notin Acks
  <2>. SUFFICES ASSUME NEW k \in DOMAIN toMod, toMod[k] = Msg("out_ack", m) PROVE FALSE
    BY DEF Acks, Carried
  <2>. QED  BY <1>2 DEF Quiet
<1>4. m \notin Outs
  <2>. SUFFICES ASSUME NEW k \in DOMAIN toSide, toSide[k] = Msg("out", m) PROVE FALSE
    BY DEF Outs, Carried
  <2>. QED  BY <1>2 DEF Quiet
<1>5. \A t : <<m, t>> # Idle /\ <<m, t>>[1][1] = o
  BY <1>1 DEF Idle
<1>6. \A t : cur # <<m, t>> /\ old # <<m, t>>
  BY <1>5 DEF Quiet
<1>. QED
  BY <1>3, <1>4, <1>6 DEF Pending, Promised, Busy, At

LEMMA RestConserves ==
    ASSUME OneCopyInv, NEW o \in Org, Rest(o) PROVE Conserved'
<1>1. LinkTypes /\ Grounds /\ Lone /\ Greeted /\ Faulted /\ Frozen /\ Bounded
  BY DEF OneCopyInv, LinkInv, Conserved, Grounds
<1>2. /\ Quiet(o) /\ resting' = resting \ {o}
      /\ UNCHANGED <<body, offered, ledger, world, minted, jr, known, link, toMod, toSide, cur, old, abroad, faults>>
  BY DEF Rest, sideVars, wireVars
<1>3. \A m \in Of(o) : m \notin Pending /\ m \notin Promised
  BY <1>1, <1>2, QuietHasNothing
<1>4. Acks' = Acks /\ Nacks' = Nacks /\ Ins' = Ins
  BY <1>2, NothingForTheMod
<1>5. Outs' = Outs /\ Replies' = Replies /\ \A y \in Org : OneFrame(y)' = OneFrame(y)
  BY <1>2, NothingForTheSide
<1>6. (\A s : At(s)' = At(s)) /\ Busy' = Busy /\ Offers' = Offers
  BY <1>2, SameJobs DEF Busy, Offers
<1>7. Late' = Late /\ Promised' = Promised /\ Mentioned' = Mentioned /\ Pending' = Pending
  BY <1>2, <1>4, <1>5, <1>6 DEF Late, Promised, Mentioned, Pending
<1>8. \A y : Of(y)' = Of(y) /\ Of(y) \subseteq Id
  BY DEF Of
<1>9. /\ \A m \in Id : Known(m)' = Known(m) /\ Token(m)' = Token(m)
      /\ \A y \in Org : Away(y)' = Away(y) /\ Gone(y)' = Gone(y)
      /\ \A y \in Org : Alone(y)' = Alone(y) /\ OnePlaceOnly(y)' = OnePlaceOnly(y)
  BY <1>2, <1>5, <1>6, <1>8 DEF Known, Token, Away, Gone, Alone, OnePlaceOnly
<1>10. SameEntries /\ ledger \subseteq ledger'
  BY <1>2 DEF SameEntries
<1>11. Greeted' /\ Faulted'
  BY <1>1, <1>2, <1>8, <1>9 DEF Greeted, Faulted
<1>12. Grounds'
  BY <1>1, <1>2, <1>4, <1>5, <1>7, <1>10, <1>11, GroundsKept
<1>13. Lone'
  BY <1>1, <1>2, <1>4, <1>5, <1>6, <1>7, <1>8, <1>9, AloneKept
<1>14. ASSUME world = 1 PROVE InFirstWorld'
  <2>1. /\ LiveAway /\ LivePending /\ NackAway /\ Rechecked
        /\ Unresolved /\ LastOffered /\ OneToken /\ Traced
    BY <1>14 DEF OneCopyInv, Conserved, InFirstWorld
  <2>2. Pending \subseteq Id /\ Nacks \subseteq Id /\ Offers \subseteq Id /\ At("checked") \subseteq Id
    BY DEF Pending, Busy, Outs, Nacks, Offers, At, Carried
  <2>3. LiveAway'
    <3>1. Promised \cap Of(o) = {}
      BY <1>3
    <3>2. \A y \in Org : body[y] = "live" /\ Away(y) => y # o /\ y \in resting' /\ Late /\ Promised \cap Of(y) # {}
      BY <1>2, <2>1, <3>1 DEF LiveAway
    <3>. QED  BY <1>2, <1>7, <1>8, <1>9, <3>2 DEF LiveAway
  <2>4. LivePending'
    <3>1. \A m \in Pending : m \in Id /\ m[1] # o
      BY <1>3, <2>2 DEF Of
    <3>. QED  BY <1>2, <1>7, <1>9, <2>1, <3>1 DEF LivePending
  <2>5. NackAway' /\ Rechecked'
    BY <1>4, <1>6, <1>7, <1>9, <2>1, <2>2, IdParts DEF NackAway, Rechecked
  <2>6. Unresolved' /\ LastOffered'
    BY <1>2, <1>6, <1>7, <1>9, <2>1, <2>2, IdParts DEF Unresolved, LastOffered, Known
  <2>7. OneToken' /\ Traced'
    BY <1>1, <1>2, <1>10, <2>1, SameTokens
  <2>. QED  BY <2>3, <2>4, <2>5, <2>6, <2>7 DEF InFirstWorld
<1>15. world = 2 => AfterLoad'
  BY <1>2, <1>7, <1>9, AfterLoadKept DEF OneCopyInv, Conserved
<1>. QED
  BY <1>2, <1>12, <1>13, <1>14, <1>15 DEF Conserved

(* One fault: what had been read goes on, and the rest of it is gone. *)
LEMMA OnlyFault ==
    ASSUME MaxFaults <= 1, OneCopyInv, NEW kind, Fault(kind)
    PROVE  /\ faults = 0 /\ faults' = 1 /\ world = 1 /\ old = Idle
           /\ toMod \in Seq(Downward) /\ known \subseteq 1..1
<1>1. Faulted /\ Greeted /\ LinkTypes
  BY DEF OneCopyInv, Conserved, Grounds, LinkInv
<1>2. faults = 0
  BY <1>1, BoundsAssumption DEF Fault, Faulted
<1>. QED
  BY <1>1, <1>2 DEF Fault, Faulted, Greeted, LinkTypes

LEMMA CutConserves ==
    ASSUME MaxFaults <= 1, OneCopyInv, Drop \/ CrashSidecar PROVE Conserved'
<1>1. /\ faults = 0 /\ faults' = 1 /\ world = 1 /\ old = Idle
      /\ toMod \in Seq(Downward) /\ known \subseteq 1..1
  BY OnlyFault DEF Drop, CrashSidecar
<1>2. /\ link' = "down" /\ toSide' = <<>> /\ cur' = Idle /\ (old' = cur \/ old' = Idle)
      /\ known' \subseteq known
      /\ UNCHANGED <<body, offered, ledger, resting, world, minted, jr, abroad>>
  BY DEF Drop, CrashSidecar, Broken, modVars, sideVars
<1>3. \E k \in 0..Len(toMod) : toMod' = SubSeq(toMod, 1, k)
  BY DEF Drop, CrashSidecar, Broken
<1>4. \A t : Carried(toMod', t) \subseteq Carried(toMod, t)
  BY <1>1, <1>3, CarriedPart
<1>5. Acks' \subseteq Acks /\ Nacks' \subseteq Nacks /\ Ins' \subseteq Ins
  BY <1>4, UnderWay
<1>6. Outs' = {} /\ Replies' = {}
  <2>1. \A t : Carried(<<>>, t) = {}
    BY DEF Carried
  <2>. QED  BY <1>2, <2>1, UnderWay
<1>7. \A t : \A x \in Id : x \in At(t)' => x \in At(t)
  BY <1>2 DEF At, Idle
<1>8. \A x \in Id : x \in Busy' => x \in Busy
  BY <1>7 DEF Busy
<1>9. Offers' = Offers
  BY <1>2 DEF Offers
<1>10. \A x \in Id : (x \in Mentioned' => x \in Mentioned) /\ (x \in Pending' => x \in Pending)
  BY <1>5, <1>6, <1>8, <1>9 DEF Mentioned, Pending
<1>11. Greeted' /\ Faulted'
  <2>1. \A k \in DOMAIN toSide' : FALSE
    BY <1>2
  <2>2. known' \subseteq 1..world'
    BY <1>1, <1>2
  <2>. QED  BY <1>1, <1>2, <2>1, <2>2 DEF Greeted, Faulted
<1>12. ASSUME NEW o \in Org
       PROVE  Alone(o) /\ Of(o) \subseteq Id /\ OneFrame(o)' /\ OnePlaceOnly(o)'
  <2>1. OneFrame(o)' /\ OnePlaceOnly(o)'
    BY <1>2, <1>6 DEF OneFrame, OnePlaceOnly
  <2>. QED  BY <1>1, <2>1 DEF Alone, Of
<1>13. ~Late
  BY <1>1 DEF Late
<1>. QED
  BY <1>1, <1>2, <1>5, <1>6, <1>7, <1>10, <1>11, <1>12, <1>13, Traffic DEF SameEntries

(* A world is loaded: its copies are what the save held, and it knows of *)
(* nothing else.                                                         *)
LEMMA LoadConserves ==
    ASSUME MaxFaults <= 1, OneCopyInv, LoadWorld PROVE Conserved'
<1>1. /\ faults = 0 /\ faults' = 1 /\ world = 1 /\ old = Idle /\ known \subseteq 1..1
  BY OnlyFault DEF LoadWorld
<1>2. /\ link' = "down" /\ toSide' = <<>> /\ toMod' = <<>> /\ cur' = Idle /\ old' = cur
      /\ world' = 2 /\ offered' = [o \in Org |-> 0]
      /\ body' = [o \in Org |-> IF o \in saved THEN "live" ELSE "none"]
      /\ UNCHANGED <<minted, jr, known, abroad>>
  BY <1>1 DEF LoadWorld, Broken, sideVars
<1>3. Bounded /\ FirstTrip /\ LinkTypes
  BY DEF OneCopyInv, Conserved, Grounds, LinkInv
<1>4. Acks' = {} /\ Nacks' = {} /\ Ins' = {} /\ Outs' = {} /\ Replies' = {}
  <2>1. \A t : Carried(<<>>, t) = {}
    BY DEF Carried
  <2>. QED  BY <1>2, <2>1, UnderWay
<1>5. Offers' = {}
  <2>1. \A x \in Id : offered'[x[1]] = 0 /\ x[2] # 0
    BY <1>2, IdParts
  <2>. QED  BY <2>1 DEF Offers
<1>6. \A x \in Id : x \in Busy' => x \in Busy
  BY <1>2 DEF Busy, At, Idle
<1>7. Bounded'
  <2>1. \A x \in Id : x \in Mentioned' \/ Known(x)' => x \in Mentioned \/ Known(x)
    BY <1>2, <1>4, <1>5, <1>6 DEF Mentioned, Known
  <2>. QED  BY <1>2, <1>3, <2>1 DEF Bounded
<1>8. Inbound' /\ FirstTrip'
  BY <1>2, <1>3, <1>4 DEF Inbound, FirstTrip
<1>9. Frozen'
  <2>1. \A o \in Org : offered'[o] = 0 /\ body'[o] # "inert"
    BY <1>2
  <2>. QED  BY <2>1 DEF Frozen
<1>10. 2 \notin known
  BY <1>1
<1>11. Greeted'
  <2>1. \A k \in DOMAIN toSide' : FALSE
    BY <1>2
  <2>2. known' \subseteq 1..world'
    BY <1>1, <1>2
  <2>. QED  BY <1>2, <2>1, <2>2 DEF Greeted
<1>12. \A o \in Org : offered'[o] = 0
  BY <1>2
<1>13. Faulted'
  BY <1>1, <1>2, <1>10, <1>12 DEF Faulted
<1>14. Lone'
  BY <1>2, <1>12 DEF Lone, Alone
<1>15. AfterLoad'
  BY <1>2, <1>10 DEF AfterLoad
<1>. QED
  BY <1>2, <1>7, <1>8, <1>9, <1>11, <1>13, <1>14, <1>15 DEF Conserved, Grounds

(* Nothing has been said yet. *)
LEMMA ConservedAtFirst == Init => Conserved
<1>. SUFFICES ASSUME Init PROVE Conserved
  OBVIOUS
<1>1. /\ toMod = <<>> /\ toSide = <<>> /\ cur = Idle /\ old = Idle /\ abroad = {} /\ faults = 0
      /\ world = 1 /\ known = {} /\ link = "down"
  BY DEF Init
<1>2. \A m \in Id : jr[m] = NoEntry /\ ~Known(m) /\ ~Token(m)
  BY Kinds DEF Init, Known, Token
<1>3. \A o \in Org : body[o] = "live" /\ offered[o] = 0 /\ minted[o] = 0
  BY DEF Init
<1>4. Acks = {} /\ Nacks = {} /\ Ins = {} /\ Outs = {} /\ Replies = {}
  <2>1. \A t : Carried(<<>>, t) = {}
    BY DEF Carried
  <2>. QED  BY <1>1, <2>1, UnderWay
<1>5. Offers = {}
  BY <1>3, IdParts DEF Offers
<1>6. (\A t : At(t) = {}) /\ Busy = {}
  BY <1>1 DEF At, Busy, Idle
<1>7. Mentioned = {} /\ Pending = {}
  BY <1>4, <1>5, <1>6 DEF Mentioned, Pending
<1>8. \A o : Of(o) \subseteq Id
  BY DEF Of
<1>9. \A o \in Org : ~Away(o)
  BY <1>1, <1>2, <1>8 DEF Away
<1>10. \A k \in DOMAIN toSide : FALSE
  BY <1>1
<1>11. Grounds
  <2>1. Bounded /\ Inbound /\ FirstTrip /\ Frozen
    BY <1>1, <1>2, <1>3, <1>4, <1>7 DEF Bounded, Inbound, FirstTrip, Frozen
  <2>2. Greeted
    BY <1>1, <1>10 DEF Greeted
  <2>3. Faulted
    BY <1>1, <1>2, <1>3, <1>8 DEF Faulted
  <2>. QED  BY <2>1, <2>2, <2>3 DEF Grounds
<1>12. Lone
  <2>1. \A o \in Org : OneFrame(o) /\ OnePlaceOnly(o)
    BY <1>1, <1>4, <1>10 DEF OneFrame, OnePlaceOnly
  <2>. QED  BY <1>2, <1>4, <1>6, <1>7, <2>1 DEF Lone, Undisturbed
<1>13. InFirstWorld
  <2>1. LiveAway /\ LivePending /\ NackAway /\ Rechecked /\ Unresolved /\ LastOffered
    BY <1>4, <1>5, <1>6, <1>7, <1>9 DEF LiveAway, LivePending, NackAway, Rechecked, Unresolved, LastOffered
  <2>2. OneToken /\ Traced
    BY <1>1, <1>2, <1>3 DEF OneToken, Traced
  <2>. QED  BY <2>1, <2>2 DEF InFirstWorld
<1>. QED
  BY <1>1, <1>11, <1>12, <1>13 DEF Conserved

(* No frame about an organism's departure, and no handler at work on one. *)
LEMMA NothingAbout ==
    ASSUME LinkTypes, NEW o \in Org, \A m \in Of(o) : m \notin Pending
    PROVE  /\ OneFrame(o) /\ Outs \cap Of(o) = {} /\ Busy \cap Of(o) = {}
           /\ (cur # Idle => cur[1][1] # o) /\ (old # Idle => old[1][1] # o)
<1>1. Outs \cap Of(o) = {} /\ Busy \cap Of(o) = {}
  BY DEF Pending
<1>2. ASSUME NEW k \in DOMAIN toSide, toSide[k].type = "out", toSide[k].m[1] = o PROVE FALSE
  <2>1. toSide[k] \in Upward
    BY DEF LinkTypes
  <2>2. toSide[k].m \in Id /\ toSide[k] = Msg("out", toSide[k].m)
    BY <1>2, <2>1 DEF Upward, Msg
  <2>. QED  BY <1>1, <1>2, <2>2 DEF Outs, Carried, Of
<1>3. ASSUME NEW job \in {cur, old}, job # Idle, job[1][1] = o PROVE FALSE
  <2>1. PICK y \in Id, t \in {"read", "checked", "created"} : job = <<y, t>>
    BY <1>3 DEF LinkTypes, Job
  <2>2. y \in Busy /\ y[1] = o
    BY <1>3, <2>1 DEF Busy, At
  <2>. QED  BY <1>1, <2>2 DEF Of
<1>. QED
  BY <1>1, <1>2, <1>3 DEF OneFrame

(* A new offer: the organism has none, and nothing is under way about one *)
(* but what a late handler still holds.                                   *)
LEMMA OfferIsNew ==
    ASSUME OneCopyInv, NEW o \in Org, TryBegin(o)
    PROVE  \E m \in Id :
             /\ m[1] = o /\ m[2] = minted[o] + 1 /\ minted'[o] = m[2] /\ minted[o] \in Nat
             /\ link = "shaken" /\ body[o] = "live" /\ o \notin resting /\ offered[o] = 0
             /\ ~Known(m) /\ m \notin Mentioned
             /\ body' = [body EXCEPT ![o] = "inert"] /\ offered' = [offered EXCEPT ![o] = m[2]]
             /\ body'[o] = "inert" /\ offered'[o] = m[2]
             /\ \A y \in Org : y # o =>
                  minted'[y] = minted[y] /\ body'[y] = body[y] /\ offered'[y] = offered[y]
             /\ UNCHANGED <<ledger, resting, world, jr, known, link, toMod, cur, old, abroad, faults>>
             /\ Acks' = Acks /\ Nacks' = Nacks /\ Ins' = Ins /\ Busy' = Busy /\ \A t : At(t)' = At(t)
             /\ \A x \in Id : /\ x \in Offers' <=> x = m \/ (x \in Offers /\ x[1] # o)
                              /\ x[1] = o => x \notin Offers
                              /\ x \in Pending' <=> x = m \/ x \in Pending
                              /\ x \in Outs' <=> x = m \/ x \in Outs
                              /\ x \in Mentioned' => x = m \/ x \in Mentioned
                              /\ x \in Replies' <=> x \in Replies
             /\ \A y \in Org : OneFrame(y) /\ (y = o => Outs \cap Of(o) = {}) => OneFrame(y)'
             /\ \A k \in DOMAIN toSide' : toSide'[k].type = "config" =>
                  k \in DOMAIN toSide /\ toSide'[k] = toSide[k]
<1>1. LinkTypes /\ Bounded /\ Frozen
  BY DEF OneCopyInv, LinkInv, Conserved, Grounds
<1> DEFINE next == minted[o] + 1
<1>0. PICK n \in Trip, m \in Id : n = next /\ m = <<o, n>>
  BY IdParts DEF TryBegin
<1>2. /\ link = "shaken" /\ body[o] = "live" /\ o \notin resting
      /\ body' = [body EXCEPT ![o] = "inert"] /\ offered' = [offered EXCEPT ![o] = n]
      /\ minted' = [minted EXCEPT ![o] = n] /\ ToSide(<<Msg("out", m)>>)
      /\ UNCHANGED <<ledger, resting, world, jr, known, link, toMod, cur, old, abroad, faults>>
  BY <1>0 DEF TryBegin, sideVars
<1>3. m[1] = o /\ m[2] = n /\ n # 0
  BY <1>0, IdParts
<1>4. /\ minted[o] \in Nat /\ minted'[o] = n /\ n = minted[o] + 1
      /\ body'[o] = "inert" /\ offered'[o] = n
      /\ \A y \in Org : y # o => minted'[y] = minted[y] /\ body'[y] = body[y] /\ offered'[y] = offered[y]
  BY <1>0, <1>1, <1>2, BoundsAssumption DEF LinkTypes
<1>5. ~Known(m) /\ m \notin Mentioned
  BY <1>1, <1>3, <1>4 DEF Bounded
<1> HIDE DEF next
<1>6. offered[o] = 0
  BY <1>1, <1>2 DEF Frozen
<1>7. Acks' = Acks /\ Nacks' = Nacks /\ Ins' = Ins
  BY <1>2, NothingForTheMod
<1>8. /\ \A x \in Id : (x \in Outs' <=> x = m \/ x \in Outs) /\ (x \in Replies' <=> x \in Replies)
      /\ \A y \in Org : OneFrame(y) /\ (y = o => Outs \cap Of(o) = {}) => OneFrame(y)'
      /\ \A k \in DOMAIN toSide' : toSide'[k].type = "config" => k \in DOMAIN toSide /\ toSide'[k] = toSide[k]
  BY <1>1, <1>2, <1>3, SentToSide
<1>9. (\A t : At(t)' = At(t)) /\ Busy' = Busy
  BY <1>2, SameJobs DEF Busy
<1>10. \A x \in Id : (x \in Offers' <=> x = m \/ (x \in Offers /\ x[1] # o)) /\ (x[1] = o => x \notin Offers)
  <2>1. \A x \in Id : x[1] = o => (x \in Offers' <=> x = m) /\ x \notin Offers
    BY <1>3, <1>4, <1>6, IdParts DEF Offers
  <2>2. \A x \in Id : x[1] # o => (x \in Offers' <=> x \in Offers)
    BY <1>4, IdParts DEF Offers
  <2>. QED  BY <1>3, <2>1, <2>2
<1>11. \A x \in Id : /\ x \in Pending' <=> x = m \/ x \in Pending
                     /\ x \in Mentioned' => x = m \/ x \in Mentioned
  BY <1>7, <1>8, <1>9, <1>10 DEF Pending, Mentioned
<1>. QED
  BY <1>2, <1>3, <1>4, <1>5, <1>6, <1>7, <1>8, <1>9, <1>10, <1>11

LEMMA OfferConserves ==
    ASSUME OneCopyInv, NEW o \in Org, TryBegin(o) PROVE Conserved'
<1>1. LinkTypes /\ Grounds /\ Lone /\ Bounded /\ Inbound /\ FirstTrip /\ Frozen /\ Greeted /\ Faulted
  BY DEF OneCopyInv, LinkInv, Conserved, Grounds
<1>2. PICK m \in Id :
             /\ m[1] = o /\ m[2] = minted[o] + 1 /\ minted'[o] = m[2] /\ minted[o] \in Nat
             /\ link = "shaken" /\ body[o] = "live" /\ o \notin resting /\ offered[o] = 0
             /\ ~Known(m) /\ m \notin Mentioned
             /\ body'[o] = "inert" /\ offered'[o] = m[2]
             /\ \A y \in Org : y # o =>
                  minted'[y] = minted[y] /\ body'[y] = body[y] /\ offered'[y] = offered[y]
             /\ UNCHANGED <<ledger, resting, world, jr, known, link, toMod, cur, old, abroad, faults>>
             /\ Acks' = Acks /\ Nacks' = Nacks /\ Ins' = Ins /\ Busy' = Busy /\ \A t : At(t)' = At(t)
             /\ \A x \in Id : /\ x \in Offers' <=> x = m \/ (x \in Offers /\ x[1] # o)
                              /\ x[1] = o => x \notin Offers
                              /\ x \in Pending' <=> x = m \/ x \in Pending
                              /\ x \in Outs' <=> x = m \/ x \in Outs
                              /\ x \in Mentioned' => x = m \/ x \in Mentioned
                              /\ x \in Replies' <=> x \in Replies
             /\ \A y \in Org : OneFrame(y) /\ (y = o => Outs \cap Of(o) = {}) => OneFrame(y)'
             /\ \A k \in DOMAIN toSide' : toSide'[k].type = "config" =>
                  k \in DOMAIN toSide /\ toSide'[k] = toSide[k]
  BY OfferIsNew
<1>3. m[2] # 0 /\ m \in Of(o) /\ m[1] \in Org
  BY <1>2, IdParts DEF Of
<1>4. \A y : Of(y)' = Of(y) /\ Of(y) \subseteq Id /\ \A x \in Of(y) : x[1] = y
  BY DEF Of
<1>5. \A x \in Id : Known(x)' = Known(x) /\ Token(x)' = Token(x)
  BY <1>2 DEF Known, Token
<1>6. \A y \in Org : Away(y)' = Away(y) /\ Gone(y)' = Gone(y)
  BY <1>2, <1>4, <1>5 DEF Away, Gone
<1>7. Late' = Late /\ Promised' = Promised
  BY <1>2 DEF Late, Promised
<1>8. m \notin Nacks /\ m \notin Acks /\ m \notin At("checked")
  BY <1>2 DEF Mentioned, Busy
<1>9. Bounded'
  <2>1. \A y \in Org : minted[y] <= minted'[y] /\ minted[y] \in Nat /\ minted'[y] \in Nat
    <3>1. \A y \in Org : minted[y] \in Nat
      BY <1>1, BoundsAssumption DEF LinkTypes
    <3>2. minted'[o] = minted[o] + 1 /\ \A y \in Org : y # o => minted'[y] = minted[y]
      BY <1>2
    <3>. QED  BY <3>1, <3>2
  <2>. QED  BY <1>1, <1>2, <1>5, <2>1, BoundedKept
<1>10. Inbound'
  <2>1. \A x \in Ins' \cup Replies' : x \in Id
    BY DEF Ins, Replies, Carried
  <2>. QED  BY <1>1, <1>2, <2>1 DEF Inbound
<1>11. FirstTrip'
  <2>. SUFFICES ASSUME NEW y \in Org, y \in abroad, minted'[y] <= 1
       PROVE  minted'[y] = 1 /\ jr[<<y, 1>>] = As("out", "in_flight")
    BY <1>2 DEF FirstTrip
  <2>1. CASE y = o
    <3>1. minted[o] = 0
      BY <1>2, <2>1
    <3>. QED  BY <1>1, <2>1, <3>1 DEF FirstTrip
  <2>2. CASE y # o
    BY <1>1, <1>2, <2>2 DEF FirstTrip
  <2>. QED  BY <2>1, <2>2
<1>12. Frozen'
  <2>1. \A y \in Org : body'[y] = "inert" <=> offered'[y] # 0
    BY <1>1, <1>2, <1>3 DEF Frozen
  <2>. QED  BY <2>1 DEF Frozen
<1>13. Greeted' /\ Faulted'
  BY <1>1, <1>2 DEF Greeted, Faulted
<1>14. Lone'
  <2>. SUFFICES ASSUME NEW y \in Org, Alone(y)' PROVE Undisturbed(y)'
    BY DEF Lone
  <2>1. CASE y = o
    <3>1. /\ \A x \in Of(o) : x \notin Pending
          /\ \A x \in Of(o) : x \notin At("checked")
      <4>1. CASE world = 1
        <5>1. Alone(o)
          BY <1>2, <2>1, <4>1 DEF Alone
        <5>2. \A x \in Of(o) : x \notin Pending
          BY <1>1, <1>2, <1>4, <5>1 DEF Lone, Undisturbed
        <5>. QED  BY <5>2 DEF Pending, Busy
      <4>2. CASE world # 1
        <5>1. minted[o] = 0
          BY <1>2, <2>1, <4>2 DEF Alone
        <5>2. \A x \in Of(o) : x \in Id /\ x[1] = o /\ x[2] \in Nat /\ x[2] >= 1
          BY <1>4, IdParts
        <5>3. \A x \in Of(o) : x \notin Mentioned
          BY <1>1, <5>1, <5>2 DEF Bounded
        <5>. QED  BY <5>3 DEF Mentioned, Pending, Busy
      <4>. QED  BY <4>1, <4>2
    <3>2. /\ OneFrame(o) /\ Outs \cap Of(o) = {} /\ Busy \cap Of(o) = {}
          /\ (cur # Idle => cur[1][1] # o)
      BY <1>1, <3>1, NothingAbout
    <3>3. OneFrame(o)' /\ OnePlaceOnly(o)'
      BY <1>2, <1>4, <3>2 DEF OnePlaceOnly
    <3>4. \A x \in Of(o)' \cap Pending' : x \in Offers' /\ x \notin Acks' /\ x \notin Nacks'
      BY <1>2, <1>4, <1>8, <3>1
    <3>5. \A x \in Of(o)' : (x \in Nacks' /\ x \in Offers') \/ x \in At("checked")' => ~Known(x)'
      BY <1>2, <1>4, <1>8, <3>1
    <3>. QED  BY <2>1, <3>3, <3>4, <3>5 DEF Undisturbed
  <2>2. CASE y # o
    <3>1. Alone(y)
      BY <1>2, <2>2 DEF Alone
    <3>2. Undisturbed(y) /\ OneFrame(y) /\ OnePlaceOnly(y)
      BY <1>1, <3>1 DEF Lone, Undisturbed
    <3>3. \A x \in Of(y) : x \in Id /\ x # m /\ (x \in Offers' <=> x \in Offers) /\ (x \in Pending' <=> x \in Pending)
                           /\ (x \in Outs' <=> x \in Outs)
      BY <1>2, <1>4, <2>2
    <3>4. OneFrame(y)' /\ OnePlaceOnly(y)'
      <4>1. Outs' \cap Of(y)' # {} => Busy' \cap Of(y)' = {}
        BY <1>2, <1>4, <3>2, <3>3 DEF OnePlaceOnly
      <4>. QED  BY <1>2, <2>2, <3>2, <4>1 DEF OnePlaceOnly
    <3>5. \A x \in Of(y)' \cap Pending' : x \in Offers' /\ x \notin Acks' /\ x \notin Nacks'
      BY <1>2, <1>4, <3>2, <3>3 DEF Undisturbed
    <3>6. \A x \in Of(y)' : (x \in Nacks' /\ x \in Offers') \/ x \in At("checked")' => ~Known(x)'
      BY <1>2, <1>4, <1>5, <3>2, <3>3 DEF Undisturbed
    <3>. QED  BY <3>4, <3>5, <3>6 DEF Undisturbed
  <2>. QED  BY <2>1, <2>2
<1>15. ASSUME world = 1 PROVE InFirstWorld'
  <2>1. /\ LiveAway /\ LivePending /\ NackAway /\ Rechecked
        /\ Unresolved /\ LastOffered /\ OneToken /\ Traced
    BY <1>15 DEF OneCopyInv, Conserved, InFirstWorld
  <2>2. ~Away(o)
    BY <1>2, <2>1 DEF LiveAway
  <2>3. Pending' \subseteq Id /\ Nacks \subseteq Id /\ Offers' \subseteq Id /\ At("checked") \subseteq Id
    BY DEF Pending, Busy, Outs, Nacks, Offers, At, Carried
  <2>4. \A x \in Id : x[1] \in Org /\ (x \in Offers' /\ x # m => x \in Offers /\ x[1] # o)
    BY <1>2, IdParts
  <2>5. LiveAway'
    <3>1. \A y \in Org : body'[y] = "live" /\ Away(y)' => y \in resting' /\ Late' /\ Promised' \cap Of(y)' # {}
      BY <1>2, <1>4, <1>6, <1>7, <2>1 DEF LiveAway
    <3>. QED  BY <3>1 DEF LiveAway
  <2>6. LivePending'
    <3>1. \A x \in Pending' : ~Known(x)' /\ body'[x[1]] = "live" => x[1] \in resting' /\ Late'
      BY <1>2, <1>5, <1>7, <2>1, <2>3, <2>4 DEF LivePending
    <3>. QED  BY <3>1 DEF LivePending
  <2>7. NackAway'
    BY <1>2, <1>6, <1>7, <1>8, <2>1, <2>3, <2>4 DEF NackAway
  <2>8. Rechecked'
    BY <1>2, <1>5, <1>7, <1>8, <2>1, <2>3, <2>4 DEF Rechecked
  <2>9. Unresolved'
    <3>. SUFFICES ASSUME NEW x \in Id, x \in Pending' \/ x \in Offers', ~Known(x)
         PROVE  x[2] = minted'[x[1]] /\ ~Away(x[1])
      <4>1. \A x \in Pending' \cup Offers' : x \in Id /\ (~Known(x)' <=> ~Known(x)) /\ (~Away(x[1])' <=> ~Away(x[1]))
        BY <1>5, <1>6, <2>3, <2>4
      <4>. QED  BY <4>1 DEF Unresolved
    <3>1. CASE x = m
      BY <1>2, <2>2, <3>1
    <3>2. CASE x # m
      <4>1. x \in Pending \/ x \in Offers
        BY <1>2, <2>4, <3>2
      <4>2. x[1] # o
        BY <1>2, <2>1, <2>4, <3>2, <4>1 DEF LivePending
      <4>. QED  BY <1>2, <2>1, <2>4, <4>1, <4>2 DEF Unresolved
    <3>. QED  BY <3>1, <3>2
  <2>10. LastOffered'
    <3>. SUFFICES ASSUME NEW x \in Id, x \in Offers'
         PROVE  x[2] = minted'[x[1]] \/ jr[<<x[1], minted'[x[1]]>>] # NoEntry
      BY <1>2, <2>3 DEF LastOffered, Known
    <3>1. CASE x = m
      BY <1>2, <3>1
    <3>2. CASE x # m
      BY <1>2, <2>1, <2>4, <3>2 DEF LastOffered, Known
    <3>. QED  BY <3>1, <3>2
  <2>11. OneToken'
    BY <1>2, <1>5, <2>1 DEF OneToken
  <2>12. Traced'
    <3>. SUFFICES ASSUME NEW y \in Org
         PROVE  /\ minted'[y] = 0 => body'[y] = "live"
                /\ minted'[y] = 1 =>
                     /\ body'[y] = "none" => jr[<<y, 1>>] # NoEntry
                     /\ jr[<<y, 1>>].dir = "out" => jr[<<y, 1>>] = As("out", "open") \/ y \in abroad
      BY <1>2 DEF Traced, Known
    <3>1. CASE y = o
      <4>1. minted'[o] # 0 /\ body'[o] # "none"
        BY <1>2, <1>3
      <4>2. ASSUME minted'[o] = 1 PROVE jr[<<o, 1>>].dir # "out"
        <5>1. m = <<o, 1>>
          BY <1>2, <4>2, IdParts
        <5>. QED  BY <1>2, <5>1, Kinds DEF Known
      <4>. QED  BY <3>1, <4>1, <4>2
    <3>2. CASE y # o
      BY <1>2, <2>1, <3>2 DEF Traced, Known
    <3>. QED  BY <3>1, <3>2
  <2>. QED  BY <2>5, <2>6, <2>7, <2>8, <2>9, <2>10, <2>11, <2>12 DEF InFirstWorld
<1>16. ASSUME world = 2 PROVE AfterLoad'
  <2>1. AfterLoad
    BY <1>16 DEF OneCopyInv, Conserved
  <2>2. \A y \in Org : minted'[y] <= 1 /\ body'[y] = "live" /\ Gone(y)' =>
            2 \notin known' \/ Promised' \cap Of(y)' # {}
    BY <1>2, <1>4, <1>6, <1>7, <2>1 DEF AfterLoad
  <2>. QED  BY <2>2 DEF AfterLoad
<1>. QED
  BY <1>2, <1>9, <1>10, <1>11, <1>12, <1>13, <1>14, <1>15, <1>16 DEF Conserved, Grounds

(* The first trip is the only one that anything can name. *)
LEMMA OnlyTrip ==
    ASSUME LinkTypes, Bounded, NEW o \in Org, minted[o] <= 1, NEW m \in Of(o), m \in Mentioned \/ Known(m)
    PROVE  minted[o] = 1 /\ m = <<o, 1>>
<1>1. m \in Id /\ m[1] = o
  BY DEF Of
<1>2. m[2] \in Nat /\ m[2] >= 1 /\ m = <<m[1], m[2]>>
  BY <1>1, IdParts
<1>3. m[2] <= minted[o] /\ minted[o] \in 0..MaxTrips
  BY <1>1 DEF Bounded, LinkTypes
<1>4. m[2] = 1 /\ minted[o] = 1
  BY <1>2, <1>3, BoundsAssumption
<1>. QED
  BY <1>1, <1>2, <1>4

(* An answer to an offer is read: at most that offer is resolved. *)
LEMMA AnswerRead ==
    ASSUME OneCopyInv, toMod # <<>>, toMod' = Tail(toMod), NEW m \in Id,
           UNCHANGED <<ledger, world, minted, jr, known, link, toSide, cur, old, abroad, faults>>,
           offered' = IF offered[m[1]] = m[2] THEN [offered EXCEPT ![m[1]] = 0] ELSE offered,
           Frozen'
    PROVE  /\ Grounds'
           /\ Outs' = Outs /\ Busy' = Busy /\ Pending' = Pending /\ Late' = Late /\ \A t : At(t)' = At(t)
           /\ \A x \in Id : /\ x \in Offers' <=> x \in Offers /\ x # m
                            /\ m \in Offers /\ x[1] = m[1] /\ x # m => x \notin Offers
                            /\ Known(x)' = Known(x) /\ Token(x)' = Token(x)
           /\ \A y \in Org : /\ Alone(y)' => Alone(y) /\ OneFrame(y)' = OneFrame(y)
                             /\ OnePlaceOnly(y)' = OnePlaceOnly(y)
                             /\ Away(y)' = Away(y) /\ Gone(y)' = Gone(y)
           /\ \A y : Of(y)' = Of(y) /\ Of(y) \subseteq Id /\ \A x \in Of(y) : x[1] = y
           /\ OneToken => OneToken'
<1>1. LinkTypes /\ Grounds /\ Bounded /\ Inbound /\ FirstTrip /\ Greeted /\ Faulted
  BY DEF OneCopyInv, LinkInv, Conserved, Grounds
<1>2. Outs' = Outs /\ Replies' = Replies /\ \A y \in Org : OneFrame(y)' = OneFrame(y)
  BY NothingForTheSide
<1>3. (\A t : At(t)' = At(t)) /\ Busy' = Busy
  BY SameJobs DEF Busy
<1>4. \A x \in Id : (x \in Acks' => x \in Acks) /\ (x \in Nacks' => x \in Nacks) /\ (x \in Ins' => x \in Ins)
  BY <1>1, ReadByMod
<1>5. \A y \in Org : offered'[y] = IF y = m[1] /\ offered[m[1]] = m[2] THEN 0 ELSE offered[y]
  BY <1>1 DEF LinkTypes
<1>6. \A x \in Id : /\ x \in Offers' <=> x \in Offers /\ x # m
                    /\ m \in Offers /\ x[1] = m[1] /\ x # m => x \notin Offers
  <2>1. \A x \in Id : x[1] \in Org /\ x[2] # 0 /\ (x[1] = m[1] /\ x[2] = m[2] => x = m)
    BY IdParts
  <2>2. \A x \in Id : m \in Offers /\ x[1] = m[1] /\ x # m => x \notin Offers
    BY <2>1 DEF Offers
  <2>3. \A x \in Id : x \in Offers' <=> x \in Offers /\ x # m
    BY <1>5, <2>1 DEF Offers
  <2>. QED  BY <2>2, <2>3
<1>7. \A x \in Id : Known(x)' = Known(x) /\ Token(x)' = Token(x)
  BY DEF Known, Token
<1>8. \A y : Of(y)' = Of(y) /\ Of(y) \subseteq Id /\ \A x \in Of(y) : x[1] = y
  BY DEF Of
<1>9. \A y \in Org : /\ Alone(y)' => Alone(y)
                     /\ OnePlaceOnly(y)' = OnePlaceOnly(y)
                     /\ Away(y)' = Away(y) /\ Gone(y)' = Gone(y)
  BY <1>2, <1>3, <1>5, <1>7, <1>8 DEF Alone, OnePlaceOnly, Away, Gone
<1>10. Pending' = Pending /\ Late' = Late
  BY <1>2, <1>3 DEF Pending, Late
<1>11. Bounded'
  <2>1. \A x \in Id : x \in Mentioned' => x \in Mentioned
    BY <1>2, <1>3, <1>4, <1>6 DEF Mentioned
  <2>. QED  BY <1>1, <1>7, <2>1 DEF Bounded
<1>12. Inbound' /\ FirstTrip'
  <2>1. \A x \in Ins' : x \in Id
    BY DEF Ins, Carried
  <2>. QED  BY <1>1, <1>2, <1>4, <2>1 DEF Inbound, FirstTrip
<1>13. Greeted'
  BY <1>1 DEF Greeted
<1>14. Faulted'
  <2>1. \A y \in Org : offered[y] = 0 => offered'[y] = 0
    BY <1>5
  <2>. QED  BY <1>1, <1>7, <1>8, <2>1 DEF Faulted
<1>15. OneToken => OneToken'
  BY <1>7 DEF OneToken
<1>. QED
  BY <1>2, <1>3, <1>6, <1>7, <1>8, <1>9, <1>10, <1>11, <1>12, <1>13, <1>14, <1>15 DEF Grounds

(* Custody moved: the organism goes, and with it the word of its departure. *)
LEMMA AckConserves ==
    ASSUME OneCopyInv, toMod # <<>>, toMod' = Tail(toMod), NEW m \in Id, Head(toMod) = Msg("out_ack", m),
           HandleAck(m), UNCHANGED <<world, minted, jr, known, link, cur, old, abroad, faults>>
    PROVE  Conserved'
<1> DEFINE o == m[1]
<1>1. LinkTypes /\ Grounds /\ Lone /\ Bounded /\ Frozen
  BY DEF OneCopyInv, LinkInv, Conserved, Grounds
<1>2. /\ UNCHANGED <<ledger, toSide>>
      /\ offered' = IF offered[o] = m[2] THEN [offered EXCEPT ![o] = 0] ELSE offered
      /\ body' = IF offered[o] = m[2] \/ body[o] = "live" THEN [body EXCEPT ![o] = "none"] ELSE body
      /\ resting' = IF offered[o] = m[2] \/ body[o] = "live" THEN resting \ {o} ELSE resting
  BY DEF HandleAck
<1>3. o \in Org /\ m \in Of(o) /\ m[2] \in Nat /\ m[2] >= 1
  BY IdParts DEF Of
<1>4. /\ m \in Acks
      /\ \A x \in Id : /\ x \in Acks' => x \in Acks
                       /\ x \in Acks => x \in Acks' \/ x = m
                       /\ x \in Nacks' => x \in Nacks
  BY <1>1, ReadByMod, MsgParts
<1>5. Known(m)
  <2>1. PICK k \in DOMAIN toMod : toMod[k] = Msg("out_ack", m)
    BY <1>4 DEF Acks, Carried
  <2>2. DOMAIN toMod = 1..Len(toMod)
    BY <1>1 DEF LinkTypes
  <2>. QED  BY <2>1, <2>2, MsgParts DEF OneCopyInv, LinkInv, AcksKnown
<1>6. minted[o] # 0
  <2>1. m[2] <= minted[o]
    BY <1>1, <1>5 DEF Bounded
  <2>. QED  BY <1>3, <2>1
<1>7. /\ body'[o] # "live" /\ \A y \in Org : y # o => body'[y] = body[y] /\ (y \in resting' <=> y \in resting)
      /\ \A y \in Org : minted[y] = 0 => y # o
      /\ Frozen'
  <2>1. \A y \in Org : y # o => body'[y] = body[y] /\ offered'[y] = offered[y] /\ (y \in resting' <=> y \in resting)
    BY <1>1, <1>2 DEF LinkTypes
  <2>2. body'[o] # "live" /\ (body'[o] = "inert" <=> offered'[o] # 0)
    BY <1>1, <1>2, <1>3 DEF LinkTypes, Frozen
  <2>3. \A y \in Org : body'[y] = "inert" <=> offered'[y] # 0
    BY <1>1, <2>1, <2>2 DEF Frozen
  <2>. QED  BY <1>6, <2>1, <2>2, <2>3 DEF Frozen
<1>8. /\ Grounds'
      /\ Outs' = Outs /\ Busy' = Busy /\ Pending' = Pending /\ Late' = Late /\ \A t : At(t)' = At(t)
      /\ \A x \in Id : /\ x \in Offers' <=> x \in Offers /\ x # m
                       /\ m \in Offers /\ x[1] = m[1] /\ x # m => x \notin Offers
                       /\ Known(x)' = Known(x) /\ Token(x)' = Token(x)
      /\ \A y \in Org : /\ Alone(y)' => Alone(y) /\ OneFrame(y)' = OneFrame(y)
                        /\ OnePlaceOnly(y)' = OnePlaceOnly(y)
                        /\ Away(y)' = Away(y) /\ Gone(y)' = Gone(y)
      /\ \A y : Of(y)' = Of(y) /\ Of(y) \subseteq Id /\ \A x \in Of(y) : x[1] = y
      /\ OneToken => OneToken'
  BY <1>2, <1>7, AnswerRead
<1>9. \A x \in Id : x \in Promised => x \in Promised' \/ x = m
  BY <1>4, <1>8 DEF Promised
<1>10. Promised \subseteq Id /\ Pending \subseteq Id /\ Nacks' \subseteq Id /\ Offers' \subseteq Id /\ At("checked") \subseteq Id
  BY DEF Promised, Pending, Busy, Acks, Outs, Nacks, Offers, At, Carried
<1>11. \A y \in Org : y # o /\ Promised \cap Of(y) # {} => Promised' \cap Of(y)' # {}
  BY <1>3, <1>8, <1>9
<1>12. Lone'
  <2>. SUFFICES ASSUME NEW y \in Org, Alone(y)' PROVE Undisturbed(y)'
    BY DEF Lone
  <2>1. Undisturbed(y)
    BY <1>1, <1>8 DEF Lone
  <2>2. \A x \in Of(y)' \cap Pending' : x \in Offers' /\ x \notin Acks' /\ x \notin Nacks'
    BY <1>4, <1>8, <2>1 DEF Undisturbed
  <2>3. \A x \in Of(y)' : (x \in Nacks' /\ x \in Offers') \/ x \in At("checked")' => ~Known(x)'
    BY <1>4, <1>8, <2>1 DEF Undisturbed
  <2>. QED  BY <1>8, <2>1, <2>2, <2>3 DEF Undisturbed
<1>13. ASSUME world = 1 PROVE InFirstWorld'
  <2>1. /\ LiveAway /\ LivePending /\ NackAway /\ Rechecked
        /\ Unresolved /\ LastOffered /\ OneToken /\ Traced
    BY <1>13 DEF OneCopyInv, Conserved, InFirstWorld
  <2>2. \A x \in Id : x[1] \in Org
    BY IdParts
  <2>3. LiveAway'
    <3>1. \A y \in Org : body'[y] = "live" /\ Away(y)' => y \in resting' /\ Late' /\ Promised' \cap Of(y)' # {}
      BY <1>7, <1>8, <1>11, <2>1 DEF LiveAway
    <3>. QED  BY <3>1 DEF LiveAway
  <2>4. LivePending'
    <3>1. \A x \in Pending' : ~Known(x)' /\ body'[x[1]] = "live" => x[1] \in resting' /\ Late'
      BY <1>7, <1>8, <1>10, <2>1, <2>2 DEF LivePending
    <3>. QED  BY <3>1 DEF LivePending
  <2>5. NackAway'
    BY <1>4, <1>8, <1>9, <1>10, <2>1, <2>2 DEF NackAway
  <2>6. Rechecked'
    BY <1>8, <1>9, <1>10, <2>1, <2>2 DEF Rechecked
  <2>7. Unresolved'
    BY <1>8, <1>10, <2>1, <2>2 DEF Unresolved
  <2>8. LastOffered'
    BY <1>8, <1>10, <2>1, <2>2 DEF LastOffered, Known
  <2>9. Traced'
    <3>. SUFFICES ASSUME NEW y \in Org
         PROVE  /\ minted[y] = 0 => body'[y] = "live"
                /\ minted[y] = 1 =>
                     /\ body'[y] = "none" => jr[<<y, 1>>] # NoEntry
                     /\ jr[<<y, 1>>].dir = "out" => jr[<<y, 1>>] = As("out", "open") \/ y \in abroad
      BY DEF Traced, Known
    <3>1. CASE y = o
      <4>1. minted[o] = 1 => m = <<o, 1>>
        BY <1>1, <1>3, <1>5, OnlyTrip
      <4>. QED  BY <1>5, <1>6, <2>1, <3>1, <4>1 DEF Traced, Known
    <3>2. CASE y # o
      BY <1>7, <2>1, <3>2 DEF Traced, Known
    <3>. QED  BY <3>1, <3>2
  <2>. QED  BY <1>8, <2>1, <2>3, <2>4, <2>5, <2>6, <2>7, <2>8, <2>9 DEF InFirstWorld
<1>14. ASSUME world = 2 PROVE AfterLoad'
  <2>1. AfterLoad
    BY <1>14 DEF OneCopyInv, Conserved
  <2>2. \A y \in Org : minted[y] <= 1 /\ body'[y] = "live" /\ Gone(y)' =>
            2 \notin known' \/ Promised' \cap Of(y)' # {}
    BY <1>7, <1>8, <1>11, <2>1 DEF AfterLoad
  <2>. QED  BY <2>2 DEF AfterLoad
<1>. QED
  BY <1>8, <1>12, <1>13, <1>14 DEF Conserved

(* An answer about an offer the mod has no record of is traffic. *)
LEMMA StrayConserves ==
    ASSUME OneCopyInv, toMod # <<>>, toMod' = Tail(toMod), Head(toMod).type # "out_ack",
           UNCHANGED <<body, offered, ledger, resting, world, minted, jr, known, link, toSide, cur, old,
                       abroad, faults>>
    PROVE  Conserved'
<1>1. LinkTypes /\ Greeted /\ Faulted
  BY DEF OneCopyInv, LinkInv, Conserved, Grounds
<1>2. \A x \in Id : /\ x \in Acks' <=> x \in Acks
                    /\ x \in Nacks' => x \in Nacks
                    /\ x \in Ins' => x \in Ins
  BY <1>1, ReadByMod
<1>3. Outs' = Outs /\ Replies' = Replies /\ \A y \in Org : OneFrame(y)' = OneFrame(y)
  BY NothingForTheSide
<1>4. (\A t : At(t)' = At(t)) /\ Busy' = Busy /\ Offers' = Offers
  BY SameJobs DEF Busy, Offers
<1>5. \A y \in Org : Alone(y)' = Alone(y) /\ Of(y)' = Of(y) /\ Of(y) \subseteq Id /\ OnePlaceOnly(y)' = OnePlaceOnly(y)
  BY <1>3, <1>4 DEF Alone, Of, OnePlaceOnly
<1>6. \A x : Known(x)' = Known(x)
  BY DEF Known
<1>7. Greeted' /\ Faulted'
  BY <1>1, <1>5, <1>6 DEF Greeted, Faulted
<1>8. \A x \in Id : (x \in Mentioned' => x \in Mentioned) /\ (x \in Pending' => x \in Pending)
  BY <1>2, <1>3, <1>4 DEF Mentioned, Pending
<1>9. Late' = Late /\ Promised \subseteq Promised'
  <2>1. Promised \subseteq Id
    BY DEF Promised, At, Acks, Carried
  <2>. QED  BY <1>2, <1>4, <2>1 DEF Late, Promised
<1>10. \A m \in Id :
         /\ m \in Mentioned' => m \in Mentioned \/ Known(m)
         /\ m \in Ins' \/ m \in Replies' => m \in Ins \/ m \in Replies \/ jr[m].dir = "in"
         /\ m \in Pending' => m \in Pending \/ m \in Offers
         /\ m \in At("checked")' => m \in At("checked") \/ ~Known(m)
  BY <1>2, <1>3, <1>4, <1>8
<1>11. \A o \in Org : Alone(o)' =>
         /\ Alone(o)
         /\ \A m \in Of(o) :
              /\ m \in Pending' => m \in Pending /\ (m \in Acks' => m \in Acks) /\ (m \in Nacks' => m \in Nacks)
              /\ m \in Nacks' /\ m \in Offers => m \in Nacks \/ ~Known(m)
         /\ OneFrame(o) => OneFrame(o)'
         /\ OnePlaceOnly(o) => OnePlaceOnly(o)'
  BY <1>2, <1>3, <1>5, <1>8
<1>12. \A m \in Nacks' \cap Offers : m \in Nacks
  <2>1. Offers \subseteq Id
    BY DEF Offers
  <2>. QED  BY <1>2, <2>1
<1>13. SameEntries /\ ledger \subseteq ledger'
  BY DEF SameEntries
<1>. QED
  BY <1>7, <1>9, <1>10, <1>11, <1>12, <1>13, Traffic

(* Custody did not move: the organism is revived, and is not away, or is one *)
(* that word of its departure is on its way to.                              *)
LEMMA ReviveConserves ==
    ASSUME OneCopyInv, toMod # <<>>, toMod' = Tail(toMod), NEW m \in Id, Head(toMod) = Msg("out_nack", m),
           offered[m[1]] = m[2],
           HandleNack(m), UNCHANGED <<world, minted, jr, known, link, cur, old, abroad, faults>>
    PROVE  Conserved'
<1> DEFINE o == m[1]
<1>1. LinkTypes /\ Grounds /\ Lone /\ Bounded /\ Frozen /\ Faulted /\ FirstTrip
  BY DEF OneCopyInv, LinkInv, Conserved, Grounds
<1>2. /\ UNCHANGED <<ledger, toSide>>
      /\ offered' = [offered EXCEPT ![o] = 0]
      /\ body' = [body EXCEPT ![o] = "live"]
      /\ resting' = resting \cup {o}
  BY DEF HandleNack
<1>3. o \in Org /\ m \in Of(o) /\ m[2] # 0 /\ m \in Offers
  BY IdParts DEF Of, Offers
<1>4. /\ m \in Nacks
      /\ \A x \in Id : /\ x \in Acks' <=> x \in Acks
                       /\ x \in Nacks' => x \in Nacks
  BY <1>1, ReadByMod, MsgParts
<1>5. /\ body'[o] = "live" /\ \A y \in Org : y # o => body'[y] = body[y]
      /\ \A y \in Org : y \in resting' <=> y \in resting \/ y = o
      /\ offered'[o] = 0 /\ offered[o] # 0
      /\ Frozen'
  <2>1. \A y \in Org : y # o => body'[y] = body[y] /\ offered'[y] = offered[y]
    BY <1>1, <1>2 DEF LinkTypes
  <2>2. body'[o] = "live" /\ offered'[o] = 0
    BY <1>1, <1>2, <1>3 DEF LinkTypes
  <2>3. \A y \in Org : body'[y] = "inert" <=> offered'[y] # 0
    BY <1>1, <2>1, <2>2 DEF Frozen
  <2>. QED  BY <1>2, <1>3, <2>1, <2>2, <2>3 DEF Frozen
<1>6. /\ Grounds'
      /\ Outs' = Outs /\ Busy' = Busy /\ Pending' = Pending /\ Late' = Late /\ \A t : At(t)' = At(t)
      /\ \A x \in Id : /\ x \in Offers' <=> x \in Offers /\ x # m
                       /\ m \in Offers /\ x[1] = m[1] /\ x # m => x \notin Offers
                       /\ Known(x)' = Known(x) /\ Token(x)' = Token(x)
      /\ \A y \in Org : /\ Alone(y)' => Alone(y) /\ OneFrame(y)' = OneFrame(y)
                        /\ OnePlaceOnly(y)' = OnePlaceOnly(y)
                        /\ Away(y)' = Away(y) /\ Gone(y)' = Gone(y)
      /\ \A y : Of(y)' = Of(y) /\ Of(y) \subseteq Id /\ \A x \in Of(y) : x[1] = y
      /\ OneToken => OneToken'
  <2>1. offered' = IF offered[m[1]] = m[2] THEN [offered EXCEPT ![m[1]] = 0] ELSE offered
    BY <1>2
  <2>. QED  BY <1>2, <1>5, <2>1, AnswerRead
<1>7. Promised' = Promised
  <2>1. Acks' = Acks
    <3>1. Acks \subseteq Id /\ Acks' \subseteq Id
      BY DEF Acks, Carried
    <3>. QED  BY <1>4, <3>1
  <2>. QED  BY <1>6, <2>1 DEF Promised
<1>8. Pending \subseteq Id /\ Nacks' \subseteq Id /\ Offers' \subseteq Id /\ At("checked") \subseteq Id
  BY DEF Pending, Busy, Outs, Nacks, Offers, At, Carried
<1>9. Alone(o) => /\ \A x \in Of(o) : x \notin Pending
                  /\ ~Known(m)
  <2>. SUFFICES ASSUME Alone(o) PROVE (\A x \in Of(o) : x \notin Pending) /\ ~Known(m)
    OBVIOUS
  <2>1. Undisturbed(o)
    BY <1>1, <1>3 DEF Lone
  <2>2. ~Known(m)
    BY <1>3, <1>4, <2>1 DEF Undisturbed
  <2>3. ASSUME NEW x \in Of(o), x \in Pending PROVE FALSE
    <3>1. x \in Offers /\ x \notin Nacks
      BY <2>1, <2>3 DEF Undisturbed
    <3>2. x \in Id /\ x[1] = o
      BY DEF Of
    <3>3. x = m
      BY <1>3, <1>6, <3>1, <3>2
    <3>. QED  BY <1>4, <3>1, <3>3
  <2>. QED  BY <2>2, <2>3
<1>10. Lone'
  <2>. SUFFICES ASSUME NEW y \in Org, Alone(y)' PROVE Undisturbed(y)'
    BY DEF Lone
  <2>1. Undisturbed(y) /\ Alone(y)
    BY <1>1, <1>6 DEF Lone
  <2>2. \A x \in Of(y)' \cap Pending' : x \in Offers' /\ x \notin Acks' /\ x \notin Nacks'
    <3>1. CASE y = o
      BY <1>6, <1>9, <2>1, <3>1
    <3>2. CASE y # o
      BY <1>3, <1>4, <1>6, <2>1, <3>2 DEF Undisturbed
    <3>. QED  BY <3>1, <3>2
  <2>3. \A x \in Of(y)' : (x \in Nacks' /\ x \in Offers') \/ x \in At("checked")' => ~Known(x)'
    BY <1>4, <1>6, <2>1 DEF Undisturbed
  <2>. QED  BY <1>6, <2>1, <2>2, <2>3 DEF Undisturbed
<1>11. ASSUME world = 1 PROVE InFirstWorld'
  <2>1. /\ LiveAway /\ LivePending /\ NackAway /\ Rechecked
        /\ Unresolved /\ LastOffered /\ OneToken /\ Traced
    BY <1>11 DEF OneCopyInv, Conserved, InFirstWorld
  <2>2. \A x \in Id : x[1] \in Org
    BY IdParts
  <2>3. LiveAway'
    <3>1. ASSUME NEW y \in Org, body'[y] = "live", Away(y)
          PROVE  y \in resting' /\ Late /\ Promised \cap Of(y) # {}
      <4>1. CASE y = o
        BY <1>3, <1>4, <1>5, <2>1, <3>1, <4>1 DEF NackAway
      <4>2. CASE y # o
        BY <1>5, <2>1, <3>1, <4>2 DEF LiveAway
      <4>. QED  BY <4>1, <4>2
    <3>. QED  BY <1>6, <1>7, <3>1 DEF LiveAway
  <2>4. LivePending'
    <3>1. ASSUME NEW x \in Pending, ~Known(x), body'[x[1]] = "live"
          PROVE  x[1] \in resting' /\ Late
      <4>1. CASE x[1] = o
        <5>1. x \in Of(o)
          BY <1>8, <4>1 DEF Of
        <5>2. ~Alone(o)
          BY <1>9, <3>1, <5>1
        <5>3. Late
          BY <1>1, <1>11, <5>2 DEF Alone, Late, Faulted
        <5>. QED  BY <1>3, <1>5, <4>1, <5>3
      <4>2. CASE x[1] # o
        BY <1>5, <1>8, <2>1, <2>2, <3>1, <4>2 DEF LivePending
      <4>. QED  BY <4>1, <4>2
    <3>. QED  BY <1>6, <1>8, <3>1 DEF LivePending
  <2>5. NackAway' /\ Rechecked'
    BY <1>4, <1>6, <1>7, <1>8, <2>1, <2>2 DEF NackAway, Rechecked
  <2>6. Unresolved' /\ LastOffered'
    BY <1>6, <1>8, <2>1, <2>2 DEF Unresolved, LastOffered, Known
  <2>7. Traced'
    <3>1. \A y \in Org : (body'[y] = body[y] \/ body'[y] = "live")
      BY <1>5
    <3>. QED  BY <2>1, <3>1 DEF Traced, Known
  <2>. QED  BY <1>6, <2>1, <2>3, <2>4, <2>5, <2>6, <2>7 DEF InFirstWorld
<1>12. ASSUME world = 2 PROVE AfterLoad'
  <2>1. AfterLoad
    BY <1>12 DEF OneCopyInv, Conserved
  <2>2. ASSUME minted[o] <= 1, Gone(o) PROVE FALSE
    <3>1. Alone(o) /\ ~Known(m)
      BY <1>5, <1>9, <1>12, <2>2 DEF Alone
    <3>2. minted[o] = 1 /\ m = <<o, 1>>
      BY <1>1, <1>3, <2>2, OnlyTrip DEF Mentioned
    <3>3. \A x \in Of(o) : Known(x) => x = m
      BY <1>1, <1>3, <2>2, <3>2, OnlyTrip
    <3>4. o \notin abroad
      BY <1>1, <1>3, <2>2, <3>1, <3>2, Kinds DEF FirstTrip, Known
    <3>. QED  BY <2>2, <3>1, <3>3, <3>4, Kinds DEF Gone, Known
  <2>3. \A y \in Org : minted[y] <= 1 /\ body'[y] = "live" /\ Gone(y)' =>
            2 \notin known' \/ Promised' \cap Of(y)' # {}
    BY <1>5, <1>6, <1>7, <2>1, <2>2 DEF AfterLoad
  <2>. QED  BY <2>3 DEF AfterLoad
<1>. QED
  BY <1>6, <1>10, <1>11, <1>12 DEF Conserved

(* A delivery is answered, or left for later: the mod had it, or has no room. *)
LEMMA AnsweredConserves ==
    ASSUME OneCopyInv, toMod # <<>>, toMod' = Tail(toMod), NEW m \in Id, m \in Ins, Head(toMod).type = "in",
           NEW t \in {"in_ack", "in_nack"}, ToSide(<<Msg(t, m)>>), ledger \subseteq ledger',
           UNCHANGED <<body, offered, resting, world, minted, jr, known, link, cur, old, abroad, faults>>
    PROVE  Conserved'
<1>1. LinkTypes /\ Inbound /\ Greeted /\ Faulted
  BY DEF OneCopyInv, LinkInv, Conserved, Grounds
<1>2. \A x \in Id : /\ x \in Acks' <=> x \in Acks
                    /\ x \in Nacks' => x \in Nacks
                    /\ x \in Ins' => x \in Ins
  BY <1>1, ReadByMod
<1>3. /\ \A x \in Id : /\ x \in Outs' <=> x \in Outs
                       /\ x \in Replies' => x \in Replies \/ x = m
      /\ \A y \in Org : OneFrame(y) => OneFrame(y)'
      /\ \A k \in DOMAIN toSide' : toSide'[k].type = "config" => k \in DOMAIN toSide /\ toSide'[k] = toSide[k]
  BY <1>1, SentToSide
<1>4. (\A s : At(s)' = At(s)) /\ Busy' = Busy /\ Offers' = Offers
  BY SameJobs DEF Busy, Offers
<1>5. Outs' = Outs
  <2>1. Outs \subseteq Id /\ Outs' \subseteq Id
    BY DEF Outs, Carried
  <2>. QED  BY <1>3, <2>1
<1>6. \A y \in Org : Alone(y)' = Alone(y) /\ Of(y)' = Of(y) /\ Of(y) \subseteq Id /\ OnePlaceOnly(y)' = OnePlaceOnly(y)
  BY <1>4, <1>5 DEF Alone, Of, OnePlaceOnly
<1>7. \A x : Known(x)' = Known(x)
  BY DEF Known
<1>8. Greeted' /\ Faulted'
  <2>1. link = "down" => toSide' = <<>>
    BY <1>1 DEF Greeted, ToSide
  <2>. QED  BY <1>1, <1>3, <1>6, <1>7, <2>1 DEF Greeted, Faulted
<1>9. m \in Mentioned /\ jr[m].dir = "in"
  BY <1>1 DEF Mentioned, Inbound
<1>10. \A x \in Id :
         /\ x \in Mentioned' => x \in Mentioned \/ Known(x)
         /\ x \in Ins' \/ x \in Replies' => x \in Ins \/ x \in Replies \/ jr[x].dir = "in"
         /\ x \in Pending' => x \in Pending
         /\ x \in At("checked")' => x \in At("checked") \/ ~Known(x)
  BY <1>2, <1>3, <1>4, <1>9 DEF Mentioned, Pending
<1>11. \A o \in Org : Alone(o)' =>
         /\ Alone(o)
         /\ \A x \in Of(o) :
              /\ x \in Pending' => x \in Pending /\ (x \in Acks' => x \in Acks) /\ (x \in Nacks' => x \in Nacks)
              /\ x \in Nacks' /\ x \in Offers => x \in Nacks \/ ~Known(x)
         /\ OneFrame(o) => OneFrame(o)'
         /\ OnePlaceOnly(o) => OnePlaceOnly(o)'
  BY <1>2, <1>3, <1>6, <1>10
<1>12. Late' = Late /\ Promised \subseteq Promised'
  <2>1. Promised \subseteq Id
    BY DEF Promised, At, Acks, Carried
  <2>. QED  BY <1>2, <1>4, <2>1 DEF Late, Promised
<1>13. \A x \in Nacks' \cap Offers : x \in Nacks
  <2>1. Offers \subseteq Id
    BY DEF Offers
  <2>. QED  BY <1>2, <2>1
<1>14. SameEntries
  BY DEF SameEntries
<1>. QED
  BY <1>8, <1>10, <1>11, <1>12, <1>13, <1>14, Traffic

(* A delivery is spawned: what stood for the organism was its entry. *)
LEMMA SpawnConserves ==
    ASSUME OneCopyInv, toMod # <<>>, toMod' = Tail(toMod), NEW m \in Id, m \in Ins, Head(toMod).type = "in",
           ToSide(<<Msg("in_ack", m)>>), m \notin ledger, ~Here(m[1]), ledger' = ledger \cup {m},
           body' = [body EXCEPT ![m[1]] = "live"], resting' = resting \cup {m[1]},
           UNCHANGED <<offered, world, minted, jr, known, link, cur, old, abroad, faults>>
    PROVE  Conserved'
<1> DEFINE o == m[1]
<1>1. LinkTypes /\ Grounds /\ Lone /\ Bounded /\ Inbound /\ FirstTrip /\ Frozen /\ Greeted /\ Faulted
  BY DEF OneCopyInv, LinkInv, Conserved, Grounds
<1>2. \A x \in Id : /\ x \in Acks' <=> x \in Acks
                    /\ x \in Nacks' => x \in Nacks
                    /\ x \in Ins' => x \in Ins
  BY <1>1, ReadByMod
<1>3. /\ \A x \in Id : /\ x \in Outs' <=> x \in Outs
                       /\ x \in Replies' => x \in Replies \/ x = m
      /\ \A y \in Org : OneFrame(y) => OneFrame(y)'
      /\ \A k \in DOMAIN toSide' : toSide'[k].type = "config" => k \in DOMAIN toSide /\ toSide'[k] = toSide[k]
  BY <1>1, SentToSide
<1>4. (\A s : At(s)' = At(s)) /\ Busy' = Busy /\ Offers' = Offers
  BY SameJobs DEF Busy, Offers
<1>5. Outs' = Outs /\ Acks' = Acks
  <2>1. Outs \subseteq Id /\ Outs' \subseteq Id /\ Acks \subseteq Id /\ Acks' \subseteq Id
    BY DEF Outs, Acks, Carried
  <2>. QED  BY <1>2, <1>3, <2>1
<1>6. \A y \in Org : /\ Alone(y)' = Alone(y) /\ OnePlaceOnly(y)' = OnePlaceOnly(y)
  BY <1>4, <1>5 DEF Alone, Of, OnePlaceOnly
<1>7. \A y : Of(y)' = Of(y) /\ Of(y) \subseteq Id /\ \A x \in Of(y) : x[1] = y
  BY DEF Of
<1>8. Promised' = Promised /\ Pending' = Pending /\ Late' = Late
  BY <1>4, <1>5 DEF Promised, Pending, Late
<1>9. o \in Org /\ m \in Of(o) /\ jr[m].dir = "in" /\ Known(m) /\ m \in Mentioned /\ Token(m)
  BY <1>1, IdParts, Kinds DEF Of, Inbound, Known, Mentioned, Token
<1>10. SameEntries /\ ledger \subseteq ledger' /\ \A x : Known(x)' = Known(x)
  BY DEF SameEntries, Known
<1>11. /\ \A x \in Id : (Token(x)' => Token(x)) /\ ~Token(m)'
       /\ \A y \in Org : (Away(y)' => Away(y)) /\ (Gone(y)' => Gone(y))
       /\ OneToken => OneToken'
  <2>1. ~Token(m)'
    BY <1>9, Kinds DEF Token
  <2>. QED  BY <1>1, <1>10, <2>1, SameTokens
<1>12. /\ offered[o] = 0 /\ body'[o] = "live" /\ \A y \in Org : y # o => body'[y] = body[y]
       /\ \A y \in Org : y \in resting' <=> y \in resting \/ y = o
  BY <1>1, <1>9 DEF Here, LinkTypes
<1>13. Frozen'
  <2>1. \A y \in Org : body'[y] = "inert" <=> offered'[y] # 0
    BY <1>1, <1>12 DEF Frozen
  <2>. QED  BY <2>1 DEF Frozen
<1>14. Bounded'
  <2>1. \A x \in Id : x \in Mentioned' => x \in Mentioned
    BY <1>2, <1>3, <1>4, <1>5, <1>9 DEF Mentioned
  <2>. QED  BY <1>1, <1>10, <2>1 DEF Bounded
<1>15. Inbound' /\ FirstTrip'
  <2>1. \A x \in Ins' \cup Replies' : x \in Id
    BY DEF Ins, Replies, Carried
  <2>. QED  BY <1>1, <1>2, <1>3, <1>9, <2>1 DEF Inbound, FirstTrip
<1>16. Greeted' /\ Faulted'
  <2>1. link = "down" => toSide' = <<>>
    BY <1>1 DEF Greeted, ToSide
  <2>. QED  BY <1>1, <1>3, <1>7, <1>10, <2>1 DEF Greeted, Faulted
<1>17. Lone'
  BY <1>1, <1>2, <1>3, <1>4, <1>5, <1>6, <1>7, <1>8, <1>10, AloneKept
<1>18. Pending \subseteq Id /\ Nacks' \subseteq Id /\ Offers \subseteq Id /\ At("checked") \subseteq Id
  BY DEF Pending, Busy, Outs, Nacks, Offers, At, Carried
<1>19. ASSUME world = 1 PROVE InFirstWorld'
  <2>1. /\ LiveAway /\ LivePending /\ NackAway /\ Rechecked
        /\ Unresolved /\ LastOffered /\ OneToken /\ Traced
    BY <1>19 DEF OneCopyInv, Conserved, InFirstWorld
  <2>2. \A x \in Id : x[1] \in Org
    BY IdParts
  <2>3. Away(o) /\ ~Away(o)'
    <3>1. o \notin abroad
      BY <1>9, <2>1 DEF OneToken
    <3>2. \A x \in Of(o) : ~Token(x)'
      BY <1>7, <1>9, <1>11, <2>1 DEF OneToken
    <3>. QED  BY <1>7, <1>9, <3>1, <3>2 DEF Away
  <2>4. LiveAway'
    <3>1. \A y \in Org : body'[y] = "live" /\ Away(y)' => y \in resting' /\ Late' /\ Promised' \cap Of(y)' # {}
      BY <1>7, <1>8, <1>11, <1>12, <2>1, <2>3 DEF LiveAway
    <3>. QED  BY <3>1 DEF LiveAway
  <2>5. LivePending'
    <3>1. ASSUME NEW x \in Pending, ~Known(x), body'[x[1]] = "live"
          PROVE  x[1] \in resting' /\ Late
      <4>1. x[1] # o
        BY <2>1, <2>3, <3>1 DEF Unresolved
      <4>. QED  BY <1>12, <1>18, <2>1, <2>2, <3>1, <4>1 DEF LivePending
    <3>. QED  BY <1>8, <1>10, <3>1 DEF LivePending
  <2>6. NackAway' /\ Rechecked'
    BY <1>2, <1>4, <1>8, <1>10, <1>11, <1>18, <2>1, <2>2 DEF NackAway, Rechecked
  <2>7. Unresolved' /\ LastOffered'
    BY <1>4, <1>8, <1>10, <1>11, <1>18, <2>1, <2>2 DEF Unresolved, LastOffered, Known
  <2>8. Traced'
    <3>1. \A y \in Org : (body'[y] = body[y] \/ body'[y] = "live")
      BY <1>12
    <3>. QED  BY <2>1, <3>1 DEF Traced, Known
  <2>. QED  BY <1>11, <2>1, <2>4, <2>5, <2>6, <2>7, <2>8 DEF InFirstWorld
<1>20. ASSUME world = 2 PROVE AfterLoad'
  <2>1. AfterLoad
    BY <1>20 DEF OneCopyInv, Conserved
  <2>2. ASSUME minted[o] <= 1, Gone(o) PROVE FALSE
    <3>1. minted[o] = 1 /\ m = <<o, 1>>
      BY <1>1, <1>9, <2>2, OnlyTrip
    <3>2. \A x \in Of(o) : Known(x) => x = m
      BY <1>1, <1>9, <2>2, <3>1, OnlyTrip
    <3>3. o \notin abroad
      BY <1>1, <1>9, <2>2, <3>1, Kinds DEF FirstTrip
    <3>. QED  BY <1>9, <2>2, <3>2, <3>3, Kinds DEF Gone, Known
  <2>3. \A y \in Org : minted[y] <= 1 /\ body'[y] = "live" /\ Gone(y)' =>
            2 \notin known' \/ Promised' \cap Of(y)' # {}
    BY <1>7, <1>8, <1>11, <1>12, <2>1, <2>2 DEF AfterLoad
  <2>. QED  BY <2>3 DEF AfterLoad
<1>. QED
  BY <1>13, <1>14, <1>15, <1>16, <1>17, <1>19, <1>20 DEF Conserved, Grounds

(* The mod works through one frame. *)
LEMMA ApplyConserves ==
    ASSUME OneCopyInv, ApplyMutations PROVE Conserved'
<1> DEFINE f == Head(toMod)
<1>1. /\ toMod # <<>> /\ toMod' = Tail(toMod)
      /\ UNCHANGED <<world, minted, jr, known, link, cur, old, abroad, faults>>
  BY DEF ApplyMutations, sideVars
<1>2. /\ f \in Downward /\ f = Msg(f.type, f.m) /\ f.m \in Id
      /\ f.type = "in" => f.m \in Ins
  BY <1>1, ReadByMod DEF OneCopyInv, LinkInv
<1>3. f.type \in {"out_ack", "out_nack", "in"}
  BY <1>2 DEF Downward
<1>4. CASE f.type = "out_ack"
  <2>1. HandleAck(f.m)
    BY <1>4 DEF ApplyMutations
  <2>. QED  BY <1>1, <1>2, <1>4, <2>1, AckConserves
<1>5. CASE f.type = "out_nack"
  <2>1. HandleNack(f.m)
    BY <1>5 DEF ApplyMutations
  <2>2. CASE offered[f.m[1]] = f.m[2]
    BY <1>1, <1>2, <1>5, <2>1, <2>2, ReviveConserves
  <2>3. CASE offered[f.m[1]] # f.m[2]
    <3>1. UNCHANGED <<body, offered, resting, ledger, toSide>>
      BY <2>1, <2>3 DEF HandleNack
    <3>. QED  BY <1>1, <1>5, <3>1, StrayConserves
  <2>. QED  BY <2>2, <2>3
<1>6. CASE f.type = "in"
  <2>1. Handle(f.m) /\ f.m \in Ins
    BY <1>2, <1>6 DEF ApplyMutations
  <2>2. UNCHANGED offered
    BY <2>1 DEF Handle
  <2>3. CASE /\ ledger' = ledger \cup {f.m} /\ ToSide(<<Msg("in_ack", f.m)>>)
             /\ UNCHANGED <<body, resting>>
    <3>1. ledger \subseteq ledger'
      BY <2>3
    <3>. QED  BY <1>1, <1>2, <1>6, <2>1, <2>2, <2>3, <3>1, AnsweredConserves
  <2>4. CASE /\ f.m \notin ledger /\ ~Here(f.m[1]) /\ ledger' = ledger \cup {f.m}
             /\ body' = [body EXCEPT ![f.m[1]] = "live"] /\ resting' = resting \cup {f.m[1]}
             /\ ToSide(<<Msg("in_ack", f.m)>>)
    BY <1>1, <1>2, <1>6, <2>1, <2>2, <2>4, SpawnConserves
  <2>5. CASE ToSide(<<Msg("in_nack", f.m)>>) /\ UNCHANGED <<body, ledger, resting>>
    BY <1>1, <1>2, <1>6, <2>1, <2>2, <2>5, AnsweredConserves
  <2>6. CASE UNCHANGED <<body, ledger, resting, toSide>>
    BY <1>1, <1>6, <2>2, <2>6, StrayConserves
  <2>. QED  BY <2>1, <2>3, <2>4, <2>5, <2>6 DEF Handle
<1>. QED
  BY <1>3, <1>4, <1>5, <1>6

-----------------------------------------------------------------------------
LEMMA OneCopyStep ==
    ASSUME IsFiniteSet(Org), MaxFaults <= 1, OneCopyInv, [Next]_vars PROVE OneCopyInv'
<1>1. CASE \E o \in Org : TryBegin(o) \/ Rest(o) \/ Arrive(o)
  BY <1>1, LinkStep, OfferConserves, RestConserves, ArriveConserves DEF OneCopyInv
<1>2. CASE \E m \in Id : Forward(m) \/ Bounce(m) \/ Deliver(m)
  BY <1>2, LinkStep, ForwardConserves, DeliverConserves DEF OneCopyInv
<1>3. CASE ApplyMutations \/ SaveWorld \/ OnConnected
  BY <1>3, LinkStep, ApplyConserves, SaveConserves, ConnectConserves DEF OneCopyInv
<1>4. CASE handleModFrame \/ Handler
  BY <1>4, LinkStep, ReadConserves, HandlerConserves DEF OneCopyInv
<1>5. CASE Drop \/ LoadWorld \/ CrashSidecar
  BY <1>5, LinkStep, CutConserves, LoadConserves DEF OneCopyInv
<1>6. CASE UNCHANGED vars
  BY <1>6, LinkStep, SaveConserves DEF OneCopyInv
<1>. QED
  BY <1>1, <1>2, <1>3, <1>4, <1>5, <1>6 DEF Next

(* With nothing under way, no one is still to be told. *)
LEMMA SettledHealed ==
    ASSUME OneCopyInv, Settled, NEW o \in Org, world = 1 \/ minted[o] <= 1, Duplicated(o)
    PROVE  FALSE
<1>1. Faulted /\ Greeted
  BY DEF OneCopyInv, Conserved, Grounds
<1>2. Promised = {}
  BY DEF Settled, Promised, Acks, Carried, At, Idle
<1>3. Gone(o) /\ Away(o) /\ body[o] = "live"
  <2>1. \A n \in Trip : <<o, n>> \in Of(o)
    BY IdParts DEF Of
  <2>. QED  BY <2>1 DEF Duplicated, SentAway, Gone, Away, Token
<1>4. CASE world = 1
  BY <1>2, <1>3, <1>4 DEF OneCopyInv, Conserved, InFirstWorld, LiveAway
<1>5. CASE world = 2
  <2>1. 2 \in known /\ minted[o] <= 1
    BY <1>1, <1>5 DEF Settled, Greeted
  <2>. QED  BY <1>2, <1>3, <1>5, <2>1 DEF OneCopyInv, Conserved, AfterLoad
<1>. QED
  BY <1>1, <1>4, <1>5 DEF Faulted

LEMMA SettledKept ==
    ASSUME OneCopyInv, world = 1, NEW o \in Org, minted[o] <= 1, \A n \in Trip : jr[<<o, n>>].dir # "in",
           body[o] = "none"
    PROVE  o \in abroad \/ SentAway(o)
<1>1. LinkTypes /\ Traced
  BY DEF OneCopyInv, Conserved, LinkInv, InFirstWorld
<1>2. minted[o] = 1
  <2>1. minted[o] # 0
    BY <1>1 DEF Traced
  <2>2. minted[o] \in 0..MaxTrips
    BY <1>1 DEF LinkTypes
  <2>. QED  BY <2>1, <2>2, BoundsAssumption
<1>3. 1 \in Trip /\ <<o, 1>> \in Id
  BY <1>1, <1>2, BoundsAssumption DEF LinkTypes, Trip, Id
<1>4. jr[<<o, 1>>] \in Entry /\ jr[<<o, 1>>] # NoEntry
  BY <1>1, <1>2, <1>3 DEF LinkTypes, Traced, Known
<1>5. jr[<<o, 1>>].dir = "out"
  BY <1>3, <1>4 DEF Entry
<1>. QED
  BY <1>1, <1>2, <1>3, <1>5 DEF Traced, SentAway

(* Through any one fault, and in any interleaving of the two ends, their       *)
(* handlers and their frames, no organism ends up here and elsewhere, and one  *)
(* that leaves for the first time is never lost: replayed offers and           *)
(* deliveries, overlapping handlers and reasserted departures are told apart   *)
(* by the journal (onMigrateOut, reassertCustodyLocked, replayInboundLocked).  *)
THEOREM OneCopyThroughOneFault ==
    ASSUME IsFiniteSet(Org), MaxFaults <= 1
    PROVE  Spec => []OneCopyKept
<1>1. Init => OneCopyInv
  BY LinkStarts, ConservedAtFirst DEF OneCopyInv
<1>2. OneCopyInv /\ [Next]_vars => OneCopyInv'
  BY OneCopyStep
<1>3. OneCopyInv => OneCopyKept
  <2>1. OneCopyInv => HealedAfterOneFault
    BY SettledHealed DEF HealedAfterOneFault
  <2>2. OneCopyInv => FirstDepartureKept
    BY SettledKept DEF FirstDepartureKept
  <2>. QED  BY <2>1, <2>2 DEF OneCopyKept
<1>. QED
  BY <1>1, <1>2, <1>3, PTL DEF Spec
=============================================================================

----------------------------- MODULE Enrollment -----------------------------
(***************************************************************************)
(* How a new world gets its identity on the public map.  The launcher, or  *)
(* the installer, which takes the same steps, makes up an identity and its *)
(* secret, keeps both in a pending record beside the world's data, asks    *)
(* the relay to enrol them, writes the secret and the world's profile, and *)
(* removes the record.  It can be killed between any two of these, and an  *)
(* answer can be lost after the relay has acted on its request.            *)
(*                                                                         *)
(* Sources: src/go/internal/launcher/enroll.go, profilecmd.go, profile.go; *)
(* src/go/internal/relay/enrollment.go; src/go/internal/peercred;          *)
(* src/release/kit/Install-BibitesMultiverse.ps1.  An identity is          *)
(* a number in its data root, and its secret is the identity.              *)
(***************************************************************************)
EXTENDS Integers, FiniteSets

CONSTANTS
    Root,            \* data roots of worlds, behind one network address
    Together,        \* how many creations can be under way in one root
    MaxIdentities,   \* bound: identities made up in one root
    MaxCredentials,  \* MaxCredentials
    MaxPerAddress,   \* MaxPerAddress
    StoreFaults,      \* how peers.json can fail to be saved: "write", "sync"
    MaxMishaps       \* bound: kills, lost answers and failed writes

ASSUME EnrollmentAssumption ==
    /\ {Together, MaxIdentities, MaxCredentials, MaxPerAddress, MaxMishaps} \subseteq Nat
    /\ StoreFaults \subseteq {"write", "sync"}

Creator == Root \X (1..Together)
RootOf(c) == c[1]
Identity == Root \X (1..MaxIdentities)
Absent == <<>>
Empty == <<"empty">>   \* a file that is created and not written

VARIABLES
    creation,   \* the step a creation is at
    carried,    \* the identity it has read or made up
    made,       \* how many were made up in a root
    pendingFile, secretFile, profile,  \* what is on the disk of a root
    requests,   \* requests on the way to the relay
    answers,    \* the answer on its way to a creation: "none", "ok" or "no"
    peers,      \* the relay's credentials in memory
    peersFile,  \* those in peers.json
    recent,     \* enrollmentByAddr: how many identities the window has seen
    mishaps

files == <<pendingFile, secretFile, profile>>
relay == <<peers, peersFile, recent>>
enrollmentVars == <<creation, carried, made, files, requests, answers, relay, mishaps>>

EnrollmentTypeOK ==
    /\ creation \in [Creator -> {"off", "record", "make", "protect", "post", "wait", "open",
                                 "secret", "profile", "finish"}]
    /\ carried \in [Creator -> Identity \cup {Absent}]
    /\ made \in [Root -> 0..MaxIdentities]
    /\ pendingFile \in [Root -> Identity \cup {Absent, Empty}]
    /\ secretFile \in [Root -> Identity \cup {Absent, Empty}]
    /\ profile \in [Root -> Identity \cup {Absent}]
    /\ requests \subseteq [from : Creator \cup {Absent}, identity : Identity]
    /\ answers \in [Creator -> {"none", "ok", "no"}]
    /\ peers \subseteq Identity /\ peersFile \subseteq Identity
    /\ recent \in 0..MaxPerAddress /\ mishaps \in 0..MaxMishaps

Mishap == mishaps < MaxMishaps /\ mishaps' = mishaps + 1
Goes(c, step) == creation' = [creation EXCEPT ![c] = step]

-----------------------------------------------------------------------------
(* createProfile and enrollPublicMap. *)

(* validateNewProfile and worldMarker: never over an existing world.  The   *)
(* installer takes an empty credential for none.                            *)
CreateWorld(c) ==
    /\ creation[c] = "off" /\ profile[RootOf(c)] = Absent
    /\ secretFile[RootOf(c)] \in {Absent, Empty}
    /\ Goes(c, "record")
    /\ UNCHANGED <<carried, made, files, requests, answers, relay, mishaps>>

(* A record that is there is used again; one that cannot be read ends it. *)
loadOrCreatePending(c) ==
    /\ creation[c] = "record"
    /\ CASE pendingFile[RootOf(c)] = Empty -> Goes(c, "off") /\ UNCHANGED carried
         [] pendingFile[RootOf(c)] = Absent ->
              made[RootOf(c)] < MaxIdentities /\ Goes(c, "make") /\ UNCHANGED carried
         [] OTHER -> /\ Goes(c, "post")
                     /\ carried' = [carried EXCEPT ![c] = pendingFile[RootOf(c)]]
    /\ UNCHANGED <<made, files, requests, answers, relay, mishaps>>

MakePending(c) ==
    /\ creation[c] = "make" /\ Goes(c, "protect")
    /\ made[RootOf(c)] < MaxIdentities /\ made' = [made EXCEPT ![RootOf(c)] = @ + 1]
    /\ carried' = [carried EXCEPT ![c] = <<RootOf(c), made[RootOf(c)] + 1>>]
    /\ pendingFile' = [pendingFile EXCEPT ![RootOf(c)] = Empty]
    /\ UNCHANGED <<secretFile, profile, requests, answers, relay, mishaps>>

(* One that cannot be protected is removed, and nothing is contacted. *)
ProtectPending(c) ==
    /\ creation[c] = "protect"
    /\ \/ /\ Goes(c, "post") /\ UNCHANGED mishaps
          /\ pendingFile' = [pendingFile EXCEPT ![RootOf(c)] = carried[c]]
       \/ /\ Goes(c, "off") /\ Mishap
          /\ pendingFile' = [pendingFile EXCEPT ![RootOf(c)] = Absent]
    /\ UNCHANGED <<carried, made, secretFile, profile, requests, answers, relay>>

postEnrollment(c) ==
    /\ creation[c] = "post" /\ Goes(c, "wait")
    /\ requests' = requests \cup {[from |-> c, identity |-> carried[c]]}
    /\ answers' = [answers EXCEPT ![c] = "none"]
    /\ UNCHANGED <<carried, made, files, relay, mishaps>>

(* The record is kept whatever the refusal was. *)
Answered(c) ==
    /\ creation[c] = "wait" /\ answers[c] # "none"
    /\ Goes(c, IF answers[c] = "ok" THEN "open" ELSE "off")
    /\ UNCHANGED <<carried, made, files, requests, answers, relay, mishaps>>

Deaf(c) == {[q EXCEPT !.from = IF @ = c THEN Absent ELSE @] : q \in requests}

(* The request or its answer is lost, or just late. *)
NoAnswer(c) ==
    /\ creation[c] = "wait" /\ Mishap /\ Goes(c, "off")
    /\ requests' \in {Deaf(c), {q \in requests : q.from # c}}
    /\ UNCHANGED <<carried, made, files, answers, relay>>

(* writeSecretFile: removed, created and written. *)
OpenSecret(c) ==
    /\ creation[c] = "open" /\ Goes(c, "secret")
    /\ secretFile' = [secretFile EXCEPT ![RootOf(c)] = Empty]
    /\ UNCHANGED <<carried, made, pendingFile, profile, requests, answers, relay, mishaps>>

WriteSecret(c) ==
    /\ creation[c] = "secret" /\ Goes(c, "profile")
    /\ secretFile' = [secretFile EXCEPT ![RootOf(c)] = carried[c]]
    /\ UNCHANGED <<carried, made, pendingFile, profile, requests, answers, relay, mishaps>>

(* validateProfile and SaveProfile's rename, which may fail. *)
SaveProfile(c) ==
    /\ creation[c] = "profile"
    /\ \/ /\ Goes(c, "finish") /\ UNCHANGED mishaps
          /\ profile' = [profile EXCEPT ![RootOf(c)] = carried[c]]
       \/ Goes(c, "off") /\ Mishap /\ UNCHANGED profile
    /\ UNCHANGED <<carried, made, pendingFile, secretFile, requests, answers, relay>>

finishEnrollment(c) ==
    /\ creation[c] = "finish" /\ Goes(c, "off")
    /\ pendingFile' = [pendingFile EXCEPT ![RootOf(c)] = Absent]
    /\ UNCHANGED <<carried, made, secretFile, profile, requests, answers, relay, mishaps>>

KillCreation(c) ==
    /\ creation[c] # "off" /\ Mishap /\ Goes(c, "off")
    /\ requests' = Deaf(c)
    /\ UNCHANGED <<carried, made, files, answers, relay>>

-----------------------------------------------------------------------------
(* What the participant does about a world left half made. *)

(* The installer keeps the identity of a root whose record proves whose the *)
(* secret is (Find-WorldIdentity), and writes its profile.                  *)
Adopt(r) ==
    /\ \A c \in Creator : RootOf(c) = r => creation[c] = "off"
    /\ profile[r] = Absent /\ secretFile[r] \in Identity /\ pendingFile[r] = secretFile[r]
    /\ profile' = [profile EXCEPT ![r] = secretFile[r]]
    /\ pendingFile' = [pendingFile EXCEPT ![r] = Absent]
    /\ UNCHANGED <<creation, carried, made, secretFile, requests, answers, relay, mishaps>>

(* "Remove it only if you want a different map identity." *)
RemoveUnreadable(r) ==
    /\ \A c \in Creator : RootOf(c) = r => creation[c] = "off"
    /\ pendingFile[r] = Empty /\ pendingFile' = [pendingFile EXCEPT ![r] = Absent]
    /\ UNCHANGED <<creation, carried, made, secretFile, profile, requests, answers, relay, mishaps>>

-----------------------------------------------------------------------------
(* enrollPublicLocked and the store's Enroll, under enrollmentMu and the    *)
(* store's lock.                                                            *)

AnswerTo(q, answer) ==
    /\ requests' = requests \ {q}
    /\ answers' = IF q.from = Absent THEN answers ELSE [answers EXCEPT ![q.from] = answer]

KnownIdentity(q) == q.identity \in peers
Full == Cardinality(peers) >= MaxCredentials \/ recent >= MaxPerAddress

Enrolled(q) ==
    /\ peers' = peers \cup {q.identity} /\ peersFile' = peers'
    /\ recent' = recent + 1 /\ AnswerTo(q, "ok") /\ UNCHANGED mishaps

(* Mutant: what could not be saved stays in memory. *)
NotSavedKept(q) ==
    /\ Mishap /\ AnswerTo(q, "no") /\ peers' = peers \cup {q.identity}
    /\ \/ "write" \in StoreFaults /\ UNCHANGED peersFile
       \/ "sync" \in StoreFaults /\ peersFile' = peers'
    /\ UNCHANGED recent

(* saveLocked fails before its rename or after it; memory goes back. *)
NotSaved(q) ==
    /\ Mishap /\ AnswerTo(q, "no") /\ UNCHANGED peers
    /\ \/ "write" \in StoreFaults /\ UNCHANGED peersFile
       \/ "sync" \in StoreFaults /\ peersFile' = peers \cup {q.identity}
    /\ UNCHANGED recent

enrollPublicLocked(q) ==
    /\ q \in requests
    /\ CASE KnownIdentity(q) -> AnswerTo(q, "ok") /\ UNCHANGED <<relay, mishaps>>
         [] ~KnownIdentity(q) /\ Full -> AnswerTo(q, "no") /\ UNCHANGED <<relay, mishaps>>
         [] OTHER -> Enrolled(q) \/ NotSaved(q)
    /\ UNCHANGED <<creation, carried, made, files>>

WindowPasses ==
    /\ recent > 0 /\ recent' = recent - 1
    /\ UNCHANGED <<creation, carried, made, files, requests, answers, peers, peersFile, mishaps>>

(* OpenStore: the file, and no addresses; connections are gone. *)
RelayStartsAgain ==
    /\ Mishap /\ peers' = peersFile /\ recent' = 0 /\ requests' = {}
    /\ creation' = [c \in Creator |-> IF creation[c] = "wait" /\ answers[c] = "none" THEN "off"
                                      ELSE creation[c]]
    /\ UNCHANGED <<carried, made, files, answers, peersFile>>

-----------------------------------------------------------------------------
EnrollmentInit ==
    /\ creation = [c \in Creator |-> "off"] /\ carried = [c \in Creator |-> Absent]
    /\ made = [r \in Root |-> 0]
    /\ pendingFile = [r \in Root |-> Absent] /\ secretFile = [r \in Root |-> Absent]
    /\ profile = [r \in Root |-> Absent]
    /\ requests = {} /\ answers = [c \in Creator |-> "none"]
    /\ peers = {} /\ peersFile = {} /\ recent = 0 /\ mishaps = 0

EnrollmentNext ==
    \/ \E c \in Creator :
        \/ CreateWorld(c) \/ loadOrCreatePending(c) \/ MakePending(c) \/ ProtectPending(c)
        \/ postEnrollment(c) \/ Answered(c) \/ NoAnswer(c)
        \/ OpenSecret(c) \/ WriteSecret(c) \/ SaveProfile(c) \/ finishEnrollment(c)
        \/ KillCreation(c)
    \/ \E r \in Root : Adopt(r) \/ RemoveUnreadable(r)
    \/ \E q \in requests : enrollPublicLocked(q)
    \/ WindowPasses \/ RelayStartsAgain

EnrollmentSpec == EnrollmentInit /\ [][EnrollmentNext]_enrollmentVars

-----------------------------------------------------------------------------
(* A world that has a profile has its secret, and the relay knows it, now   *)
(* and after any restart.                                                   *)
WorldAuthenticates ==
    \A r \in Root :
        profile[r] # Absent =>
            /\ secretFile[r] = profile[r]
            /\ profile[r] \in peers /\ profile[r] \in peersFile

(* No identity on the map is beyond reach: the root it was made up in still *)
(* holds it ("a lost response is a retry, not a second identity",           *)
(* enroll.go:176).                                                          *)
NothingStranded ==
    \A i \in peers \cup peersFile : i \in {pendingFile[i[1]], secretFile[i[1]]}

(* One world, one identity on the map, whatever is killed, lost or refused  *)
(* on the way to it.                                                        *)
OneIdentityEach == WorldAuthenticates /\ NothingStranded

=============================================================================

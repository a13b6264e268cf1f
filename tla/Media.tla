-------------------------------- MODULE Media --------------------------------
(***************************************************************************)
(* Pictures: the objects in storage (storage.ObjectStorage) and the rows   *)
(* that name them, which no transaction covers together.  Meals            *)
(* (meal.Create), avatars (profile.SaveAvatar), chat media                 *)
(* (chat.UploadMedia) and stickers (sticker.Add) store their objects first *)
(* and their rows after.                                                   *)
(*                                                                         *)
(* A request to the API is an element of Uploads.  It also names the row   *)
(* it writes and, with the number of a photo, the objects it stores: all   *)
(* these names are fresh uuids.                                            *)
(***************************************************************************)
EXTENDS Naturals, FiniteSets

CONSTANTS
    Users,
    Uploads,
    MayUpload,     \* MayUpload[q]: what q may turn out to ask for
    MaxPhotos,     \* photos of a meal
    NoUpload,
    MaxFailures    \* bound on failed statements, failed calls of the storage,
                   \* lost answers to a COMMIT and restarts of the API

Wishes ==
    [kind : {"meal"}, user : Users, photos : 1..MaxPhotos] \cup
    [kind : {"avatar", "media", "sticker"}, user : Users, photos : {1}] \cup
    [kind : {"open"}, user : Users, picture : Uploads]

NoWish == [kind |-> "none"]

ASSUME MediaAssumption ==
    /\ MayUpload \in [Uploads -> SUBSET Wishes]
    /\ MaxPhotos \in Nat \ {0}
    /\ NoUpload \notin Uploads
    /\ MaxFailures \in Nat

VARIABLES
    wish, step, reply,
    held,       \* held[q]: the photos q has stored and would remove if it failed
    objects,    \* what the object storage holds
    kept,       \* the meals, chat media and stickers whose row is committed
    avatar,     \* avatar[u]: what the profile of u points at
    locked,     \* the transactions that hold the row of their user's profile
    prior,      \* prior[q]: the avatar q read under that lock
    doubtful,   \* rows whose COMMIT was reported as failed and was none
    strays,     \* history: objects somebody should have removed and could not
    failures

pictureRequests == <<wish, reply>>
mediaVars == <<wish, step, reply, held, objects, kept, avatar, locked, prior,
               doubtful, strays, failures>>

Asks(q, kind) == wish[q].kind = kind
Person(q) == wish[q].user
Photos(q) == 1..wish[q].photos
Running(q) == step[q] \notin {"idle", "done"}

Move(q, label) == step' = [step EXCEPT ![q] = label]
Reply(q, a) == /\ Move(q, "done")
               /\ reply' = [reply EXCEPT ![q] = a]

Fails == failures < MaxFailures /\ failures' = failures + 1

MediaInit ==
    /\ wish = [q \in Uploads |-> NoWish]
    /\ step = [q \in Uploads |-> "idle"]
    /\ reply = [q \in Uploads |-> "none"]
    /\ held = [q \in Uploads |-> {}]
    /\ objects = {}
    /\ kept = {}
    /\ avatar = [u \in Users |-> NoUpload]
    /\ locked = {}
    /\ prior = [q \in Uploads |-> NoUpload]
    /\ doubtful = {}
    /\ strays = {}
    /\ failures = 0

Take(q, kind, label) ==
    /\ step[q] = "idle"
    /\ \E w \in MayUpload[q] : w.kind = kind /\ wish' = [wish EXCEPT ![q] = w]
    /\ Move(q, label)
    /\ UNCHANGED <<reply, held, objects, kept, avatar, locked, prior, doubtful,
                   strays, failures>>

CreateMeal(q) == Take(q, "meal", "upload")
PostAvatar(q) == Take(q, "avatar", "upload")
AddSticker(q) == Take(q, "sticker", "upload")
UploadMedia(q) == Take(q, "media", "upload")
Look(q) == Take(q, "open", "find")

-----------------------------------------------------------------------------
(***************************************************************************)
(* Storing the objects.                                                    *)
(***************************************************************************)
\* The next photo: they are stored one after another.
Due(q, i) == i \in Photos(q) \ held[q] /\ 1..(i - 1) \subseteq held[q]

Upload(q, i) ==
    /\ step[q] = "upload"
    /\ Due(q, i)
    /\ objects' = objects \cup {<<q, i>>}
    /\ held' = [held EXCEPT ![q] = @ \cup {i}]
    /\ Move(q, IF held'[q] # Photos(q) THEN "upload"
               ELSE IF Asks(q, "avatar") THEN "lock" ELSE "write")
    /\ UNCHANGED <<pictureRequests, kept, avatar, locked, prior, doubtful, strays, failures>>

\* The upload is reported as failed, though the object may be there: its name is
\* not among those that will be removed.
UploadFails(q, i) ==
    /\ step[q] = "upload"
    /\ Due(q, i)
    /\ Fails
    /\ \E left \in SUBSET {<<q, i>>} :
          objects' = objects \cup left /\ strays' = strays \cup left
    /\ Move(q, "sweep")
    /\ UNCHANGED <<pictureRequests, held, kept, avatar, locked, prior, doubtful>>

-----------------------------------------------------------------------------
(***************************************************************************)
(* Writing the rows.                                                       *)
(***************************************************************************)
\* The stored objects are not given up after the commit: stored = nil is missing.
BuggyWrite(q) ==
    /\ step[q] = "write"
    /\ kept' = kept \cup {q}
    /\ Move(q, "sweep")
    /\ UNCHANGED <<pictureRequests, held, objects, avatar, locked, prior, doubtful,
                   strays, failures>>

\* The INSERT, or the transaction with the meal and all its photos.
Write(q) ==
    /\ step[q] = "write"
    /\ kept' = kept \cup {q}
    /\ Reply(q, "ok")
    /\ UNCHANGED <<wish, held, objects, avatar, locked, prior, doubtful, strays, failures>>

\* The avatar read without FOR UPDATE.
BuggyLock(q) ==
    /\ step[q] = "lock"
    /\ locked' = locked \cup {q}
    /\ prior' = [prior EXCEPT ![q] = avatar[Person(q)]]
    /\ Move(q, "commit")
    /\ UNCHANGED <<pictureRequests, held, objects, kept, avatar, doubtful, strays, failures>>

\* lockAvatarForUser.
Lock(q) ==
    /\ step[q] = "lock"
    /\ \A p \in locked : Person(p) # Person(q)
    /\ locked' = locked \cup {q}
    /\ prior' = [prior EXCEPT ![q] = avatar[Person(q)]]
    /\ Move(q, "commit")
    /\ UNCHANGED <<pictureRequests, held, objects, kept, avatar, doubtful, strays, failures>>

\* setAvatar and the COMMIT of swapAvatar.
Swap(q) ==
    /\ step[q] = "commit"
    /\ avatar' = [avatar EXCEPT ![Person(q)] = q]
    /\ locked' = locked \ {q}
    /\ Move(q, "tidy")
    /\ UNCHANGED <<pictureRequests, held, objects, kept, prior, doubtful, strays, failures>>

\* What the new avatar replaced is removed, at best.
Replaced(q) == IF prior[q] = NoUpload THEN {} ELSE {<<prior[q], 1>>}

Tidy(q) ==
    /\ step[q] = "tidy"
    /\ \/ objects' = objects \ Replaced(q) /\ UNCHANGED <<strays, failures>>
       \/ Fails /\ strays' = strays \cup Replaced(q) /\ UNCHANGED objects
    /\ Reply(q, "ok")
    /\ UNCHANGED <<wish, held, kept, avatar, locked, prior, doubtful>>

\* A statement fails, and with it the transaction, or the client hangs up.
BreakOff(q) ==
    /\ step[q] \in {"upload", "write", "lock", "commit", "find", "open"}
    /\ Fails
    /\ locked' = locked \ {q}
    /\ Move(q, "sweep")
    /\ UNCHANGED <<pictureRequests, held, objects, kept, avatar, prior, doubtful, strays>>

\* The rows are committed and the answer of the database is lost.
LoseAnswer(q) ==
    /\ step[q] \in {"write", "commit"}
    /\ Fails
    /\ IF Asks(q, "avatar")
       THEN /\ avatar' = [avatar EXCEPT ![Person(q)] = q]
            /\ strays' = strays \cup Replaced(q)
            /\ UNCHANGED kept
       ELSE /\ kept' = kept \cup {q} /\ UNCHANGED <<avatar, strays>>
    /\ doubtful' = doubtful \cup {q}
    /\ locked' = locked \ {q}
    /\ Move(q, "sweep")
    /\ UNCHANGED <<pictureRequests, held, objects, prior>>

\* The objects of a request that failed are removed, at best, one after another.
Sweep(q, i) ==
    /\ step[q] = "sweep"
    /\ i \in held[q] /\ \A j \in held[q] : i <= j
    /\ held' = [held EXCEPT ![q] = @ \ {i}]
    /\ \/ objects' = objects \ {<<q, i>>} /\ UNCHANGED <<strays, failures>>
       \/ Fails /\ strays' = strays \cup {<<q, i>>} /\ UNCHANGED objects
    /\ UNCHANGED <<pictureRequests, step, kept, avatar, locked, prior, doubtful>>

GiveUp(q) ==
    /\ step[q] = "sweep" /\ held[q] = {}
    /\ Reply(q, "error")
    /\ UNCHANGED <<wish, held, objects, kept, avatar, locked, prior, doubtful, strays, failures>>

-----------------------------------------------------------------------------
(***************************************************************************)
(* Looking at an avatar, chat media or a sticker.                          *)
(***************************************************************************)
Named(q) == q \in kept \/ \E u \in Users : avatar[u] = q

\* The row is found and the relation of the two users asked for, or it is not.
Find(q) ==
    /\ step[q] = "find"
    /\ \/ Named(wish[q].picture) /\ Move(q, "open") /\ UNCHANGED reply
       \/ Reply(q, "missing")
    /\ UNCHANGED <<wish, held, objects, kept, avatar, locked, prior, doubtful, strays, failures>>

Open(q) ==
    /\ step[q] = "open"
    /\ Reply(q, IF <<wish[q].picture, 1>> \in objects THEN "ok" ELSE "gone")
    /\ UNCHANGED <<wish, held, objects, kept, avatar, locked, prior, doubtful, strays, failures>>

-----------------------------------------------------------------------------
\* The process is killed: transactions roll back and nobody sweeps.
Restart ==
    /\ Fails
    /\ strays' = strays \cup
          {x \in objects : Running(x[1]) /\ step[x[1]] # "tidy" /\ x[2] \in held[x[1]]} \cup
          UNION {Replaced(q) : q \in {p \in Uploads : step[p] = "tidy"}}
    /\ step' = [q \in Uploads |-> IF Running(q) THEN "done" ELSE step[q]]
    /\ locked' = {}
    /\ UNCHANGED <<pictureRequests, held, objects, kept, avatar, prior, doubtful>>

MediaStep(q) ==
    \/ CreateMeal(q) \/ PostAvatar(q) \/ AddSticker(q) \/ UploadMedia(q) \/ Look(q)
    \/ Write(q) \/ Lock(q) \/ Swap(q) \/ Tidy(q) \/ BreakOff(q) \/ LoseAnswer(q)
    \/ GiveUp(q) \/ Find(q) \/ Open(q)
    \/ \E i \in 1..MaxPhotos : Upload(q, i) \/ UploadFails(q, i) \/ Sweep(q, i)

MediaNext == Restart \/ \E q \in Uploads : MediaStep(q)

MediaSpec == MediaInit /\ [][MediaNext]_mediaVars
=============================================================================

------------------------------ MODULE MealProofs ------------------------------
(***************************************************************************)
(* Proofs about Media, for any users, uploads, photos and failures, and    *)
(* about Meal, for any groups and requests, which needs what Media keeps.  *)
(***************************************************************************)
EXTENDS MealProperties, TLAPS

-----------------------------------------------------------------------------
(***************************************************************************)
(* Media.                                                                  *)
(***************************************************************************)
USE MediaAssumption

Past(q) == step[q] \in {"tidy", "sweep", "done"}
Working(q) == step[q] \in {"upload", "write", "lock", "commit"}

(***************************************************************************)
(* The inductive invariant: PicturesTypeOK and PicturesBackRows with what  *)
(* they need.                                                              *)
(***************************************************************************)
\* Which request may be where.
Flow ==
    \A q \in Uploads :
       /\ step[q] # "idle" => wish[q] \in Wishes
       /\ step[q] = "idle" => wish[q] = NoWish /\ reply[q] = "none" /\ held[q] = {}
       /\ Working(q) => ~Asks(q, "open")
       /\ step[q] = "write" => ~Asks(q, "avatar")
       /\ step[q] \in {"lock", "commit", "tidy"} => Asks(q, "avatar")
       /\ step[q] \in {"find", "open"} => Asks(q, "open")
       /\ reply[q] = "gone" => Asks(q, "open")

\* A row is named after its objects were stored, and they are swept only if its
\* COMMIT was in doubt.
Rows ==
    /\ \A q \in kept : /\ Past(q) /\ (step[q] = "sweep" => q \in doubtful)
                       /\ wish[q] \in Wishes /\ ~Asks(q, "open") /\ ~Asks(q, "avatar")
    /\ \A u \in Users : avatar[u] # NoUpload =>
          /\ Past(avatar[u]) /\ (step[avatar[u]] = "sweep" => avatar[u] \in doubtful)
          /\ Asks(avatar[u], "avatar") /\ wish[avatar[u]] \in Wishes
          /\ Person(avatar[u]) = u

Stored ==
    /\ \A q \in Uploads : Working(q) => \A i \in held[q] : <<q, i>> \in objects
    /\ \A q \in Uploads : step[q] \in {"write", "lock", "commit"} => held[q] = Photos(q)
    /\ \A x \in objects : /\ step[x[1]] # "idle" /\ wish[x[1]] \in Wishes
                          /\ ~Asks(x[1], "open") /\ x[2] \in Photos(x[1])

\* An avatar that was replaced and can never be pointed at again.
Retired(p) == Asks(p, "avatar") /\ Past(p) /\ \A u \in Users : avatar[u] # p

\* The row of a profile is locked by one transaction, which knows what it holds.
Locks ==
    /\ \A q \in Uploads : q \in locked <=> step[q] = "commit"
    /\ \A p, q \in locked : Person(p) = Person(q) => p = q
    /\ \A q \in locked : prior[q] = avatar[Person(q)]
    /\ \A q \in Uploads : step[q] = "tidy" /\ prior[q] # NoUpload => Retired(prior[q])

Found ==
    \A q \in Uploads : step[q] = "open" \/ reply[q] = "gone" => Past(wish[q].picture)

\* StraysAreExcused without the requests that will not remove what they hold.
Excused ==
    \A x \in objects :
       \/ Named(x[1])
       \/ (Working(x[1]) \/ step[x[1]] = "sweep") /\ x[2] \in held[x[1]]
       \/ \E q \in Uploads : step[q] = "tidy" /\ prior[q] = x[1]
       \/ x \in strays

MediaInv ==
    /\ PicturesTypeOK /\ Flow /\ Rows /\ Stored /\ Locks /\ Found
    /\ PicturesBackRows /\ Excused

-----------------------------------------------------------------------------
LEMMA WishTypes ==
    /\ \A w \in Wishes :
          /\ w.kind \in {"meal", "avatar", "media", "sticker", "open"}
          /\ w.kind # "open" => w.user \in Users /\ w.photos \in 1..MaxPhotos
          /\ w.kind = "avatar" => w.photos = 1
          /\ w.kind = "open" => w.picture \in Uploads
    /\ NoWish.kind = "none"
  BY DEF Wishes, NoWish

\* What the handlers have in common.
Taken(q) ==
    /\ step[q] = "idle"
    /\ \E w \in Wishes :
          /\ wish' = [wish EXCEPT ![q] = w]
          /\ step' = [step EXCEPT ![q] = IF w.kind = "open" THEN "find" ELSE "upload"]
    /\ UNCHANGED <<reply, held, objects, kept, avatar, locked, prior, doubtful,
                   strays, failures>>

LEMMA Handlers ==
    ASSUME NEW q \in Uploads,
           CreateMeal(q) \/ PostAvatar(q) \/ AddSticker(q) \/ UploadMedia(q) \/ Look(q)
    PROVE  Taken(q)
  BY DEF CreateMeal, PostAvatar, AddSticker, UploadMedia, Look, Take, Move, Taken

LEMMA MediaStart == MediaInit => MediaInv
  BY DEF MediaInit, MediaInv, PicturesTypeOK, Flow, Rows, Stored, Locks, Found,
         PicturesBackRows, Excused, Past, Working, Named

LEMMA TypesStep ==
    ASSUME MediaInv, NEW q \in Uploads, MediaStep(q)
    PROVE  PicturesTypeOK'
<1> USE WishTypes DEF MediaInv, PicturesTypeOK, Flow, Asks, Person, pictureRequests
<1>1. CASE Taken(q)
  BY <1>1 DEF Taken
<1>2. ASSUME NEW i \in 1..MaxPhotos, Upload(q, i) PROVE PicturesTypeOK'
  BY <1>2 DEF Upload, Due, Move
<1>3. ASSUME NEW i \in 1..MaxPhotos, UploadFails(q, i) PROVE PicturesTypeOK'
  BY <1>3 DEF UploadFails, Due, Move, Fails
<1>4. ASSUME NEW i \in 1..MaxPhotos, Sweep(q, i) PROVE PicturesTypeOK'
  BY <1>4 DEF Sweep, Fails
<1>5. CASE Write(q)
  BY <1>5 DEF Write, Reply, Move
<1>6. CASE Lock(q)
  BY <1>6 DEF Lock, Move
<1>7. CASE Swap(q)
  BY <1>7 DEF Swap, Move
<1>8. CASE Tidy(q)
  BY <1>8 DEF Tidy, Reply, Move, Replaced, Fails
<1>9. CASE BreakOff(q)
  BY <1>9 DEF BreakOff, Move, Fails
<1>10. CASE LoseAnswer(q)
  BY <1>10 DEF LoseAnswer, Move, Replaced, Fails
<1>11. CASE GiveUp(q)
  BY <1>11 DEF GiveUp, Reply, Move
<1>12. CASE Find(q)
  BY <1>12 DEF Find, Reply, Move
<1>13. CASE Open(q)
  BY <1>13 DEF Open, Reply, Move
<1> QED
  BY Handlers, <1>1, <1>2, <1>3, <1>4, <1>5, <1>6, <1>7,
     <1>8, <1>9, <1>10, <1>11, <1>12, <1>13 DEF MediaStep

LEMMA FlowStep ==
    ASSUME MediaInv, NEW q \in Uploads, MediaStep(q)
    PROVE  Flow'
<1> USE WishTypes DEF MediaInv, Flow, PicturesTypeOK, Working, Asks, pictureRequests
<1>1. CASE Taken(q)
  BY <1>1 DEF Taken
<1>2. ASSUME NEW i \in 1..MaxPhotos, Upload(q, i) PROVE Flow'
  BY <1>2 DEF Upload, Due, Move
<1>3. ASSUME NEW i \in 1..MaxPhotos, UploadFails(q, i) PROVE Flow'
  BY <1>3 DEF UploadFails, Due, Move, Fails
<1>4. ASSUME NEW i \in 1..MaxPhotos, Sweep(q, i) PROVE Flow'
  BY <1>4 DEF Sweep, Fails
<1>5. CASE Write(q)
  BY <1>5 DEF Write, Reply, Move
<1>6. CASE Lock(q)
  BY <1>6 DEF Lock, Move
<1>7. CASE Swap(q)
  BY <1>7 DEF Swap, Move
<1>8. CASE Tidy(q)
  BY <1>8 DEF Tidy, Reply, Move, Replaced, Fails
<1>9. CASE BreakOff(q)
  BY <1>9 DEF BreakOff, Move, Fails
<1>10. CASE LoseAnswer(q)
  BY <1>10 DEF LoseAnswer, Move, Replaced, Fails
<1>11. CASE GiveUp(q)
  BY <1>11 DEF GiveUp, Reply, Move
<1>12. CASE Find(q)
  BY <1>12 DEF Find, Reply, Move
<1>13. CASE Open(q)
  BY <1>13 DEF Open, Reply, Move
<1> QED
  BY Handlers, <1>1, <1>2, <1>3, <1>4, <1>5, <1>6, <1>7,
     <1>8, <1>9, <1>10, <1>11, <1>12, <1>13 DEF MediaStep

LEMMA RowsStep ==
    ASSUME MediaInv, NEW q \in Uploads, MediaStep(q)
    PROVE  Rows'
<1> USE WishTypes DEF MediaInv, Rows, Flow, Locks, PicturesTypeOK, Working, Past, Asks,
        Person, Named, pictureRequests
<1>1. CASE Taken(q)
  BY <1>1 DEF Taken
<1>2. ASSUME NEW i \in 1..MaxPhotos, Upload(q, i) PROVE Rows'
  BY <1>2 DEF Upload, Due, Move
<1>3. ASSUME NEW i \in 1..MaxPhotos, UploadFails(q, i) PROVE Rows'
  BY <1>3 DEF UploadFails, Due, Move, Fails
<1>4. ASSUME NEW i \in 1..MaxPhotos, Sweep(q, i) PROVE Rows'
  BY <1>4 DEF Sweep, Fails
<1>5. CASE Write(q)
  BY <1>5 DEF Write, Reply, Move
<1>6. CASE Lock(q)
  BY <1>6 DEF Lock, Move
<1>7. CASE Swap(q)
  BY <1>7 DEF Swap, Move
<1>8. CASE Tidy(q)
  BY <1>8 DEF Tidy, Reply, Move, Replaced, Fails
<1>9. CASE BreakOff(q)
  BY <1>9 DEF BreakOff, Move, Fails
<1>10. CASE LoseAnswer(q)
  BY <1>10 DEF LoseAnswer, Move, Replaced, Fails
<1>11. CASE GiveUp(q)
  BY <1>11 DEF GiveUp, Reply, Move
<1>12. CASE Find(q)
  BY <1>12 DEF Find, Reply, Move
<1>13. CASE Open(q)
  BY <1>13 DEF Open, Reply, Move
<1> QED
  BY Handlers, <1>1, <1>2, <1>3, <1>4, <1>5, <1>6, <1>7,
     <1>8, <1>9, <1>10, <1>11, <1>12, <1>13 DEF MediaStep

LEMMA StoredStep ==
    ASSUME MediaInv, NEW q \in Uploads, MediaStep(q)
    PROVE  Stored'
<1> USE WishTypes DEF MediaInv, Stored, Flow, Rows, Locks, PicturesTypeOK, Working,
        Past, Asks, Photos, Retired, Named, pictureRequests
<1>1. CASE Taken(q)
  BY <1>1 DEF Taken
<1>2. ASSUME NEW i \in 1..MaxPhotos, Upload(q, i) PROVE Stored'
  <2> USE <1>2 DEF Upload, Due, Move
  <2>1. held' = [held EXCEPT ![q] = @ \cup {i}] /\ objects' = objects \cup {<<q, i>>}
    OBVIOUS
  <2>2. step[q] = "upload" /\ \A p \in Uploads \ {q} : step'[p] = step[p] /\ held'[p] = held[p]
    OBVIOUS
  <2>3. \A p \in Uploads : step'[p] \in {"write", "lock", "commit"} => held'[p] = Photos(p)
    <3>1. step'[q] \in {"write", "lock", "commit"} => held'[q] = Photos(q)
      <4>1. held'[q] # Photos(q) => step'[q] = "upload"
        OBVIOUS
      <4> QED BY <4>1
    <3>2. ASSUME NEW p \in Uploads \ {q}, step'[p] \in {"write", "lock", "commit"}
          PROVE  held'[p] = Photos(p)
      BY <2>2, <3>2
    <3> QED BY <3>1, <3>2
  <2>4. \A p \in Uploads : Working(p)' => \A j \in held'[p] : <<p, j>> \in objects'
    BY <2>1, <2>2
  <2>5. ASSUME NEW x \in objects'
        PROVE  /\ step'[x[1]] # "idle" /\ wish[x[1]] \in Wishes
               /\ ~Asks(x[1], "open") /\ x[2] \in Photos(x[1])
    <3>1. CASE x \in objects
      BY <2>2, <3>1
    <3>2. CASE x = <<q, i>>
      <4>1. x[1] = q /\ x[2] = i /\ step'[q] # "idle"
        BY <3>2
      <4>2. wish[q] \in Wishes /\ ~Asks(q, "open") /\ i \in Photos(q)
        OBVIOUS
      <4> QED BY <4>1, <4>2
    <3> QED BY <2>1, <3>1, <3>2
  <2>6. wish' = wish
    OBVIOUS
  <2>7. \A x \in objects' : /\ step'[x[1]] # "idle" /\ wish'[x[1]] \in Wishes
                             /\ ~Asks(x[1], "open")' /\ x[2] \in Photos(x[1])'
    BY <2>5, <2>6
  <2> HIDE <1>2 DEF Upload, Due, Move, MediaInv
  <2> QED BY <2>3, <2>4, <2>6, <2>7
<1>3. ASSUME NEW i \in 1..MaxPhotos, UploadFails(q, i) PROVE Stored'
  BY <1>3 DEF UploadFails, Due, Move, Fails
<1>4. ASSUME NEW i \in 1..MaxPhotos, Sweep(q, i) PROVE Stored'
  BY <1>4 DEF Sweep, Fails
<1>5. CASE Write(q)
  BY <1>5 DEF Write, Reply, Move
<1>6. CASE Lock(q)
  BY <1>6 DEF Lock, Move
<1>7. CASE Swap(q)
  BY <1>7 DEF Swap, Move
<1>8. CASE Tidy(q)
  BY <1>8 DEF Tidy, Reply, Move, Replaced, Fails
<1>9. CASE BreakOff(q)
  BY <1>9 DEF BreakOff, Move, Fails
<1>10. CASE LoseAnswer(q)
  BY <1>10 DEF LoseAnswer, Move, Replaced, Fails
<1>11. CASE GiveUp(q)
  BY <1>11 DEF GiveUp, Reply, Move
<1>12. CASE Find(q)
  BY <1>12 DEF Find, Reply, Move
<1>13. CASE Open(q)
  BY <1>13 DEF Open, Reply, Move
<1> QED
  BY Handlers, <1>1, <1>2, <1>3, <1>4, <1>5, <1>6, <1>7,
     <1>8, <1>9, <1>10, <1>11, <1>12, <1>13 DEF MediaStep

LEMMA LocksStep ==
    ASSUME MediaInv, NEW q \in Uploads, MediaStep(q)
    PROVE  Locks'
<1> USE WishTypes DEF MediaInv, Locks, Flow, Rows, PicturesTypeOK, Working, Past, Asks,
        Person, Retired, pictureRequests
<1>1. CASE Taken(q)
  BY <1>1 DEF Taken
<1>2. ASSUME NEW i \in 1..MaxPhotos, Upload(q, i) PROVE Locks'
  BY <1>2 DEF Upload, Due, Move
<1>3. ASSUME NEW i \in 1..MaxPhotos, UploadFails(q, i) PROVE Locks'
  BY <1>3 DEF UploadFails, Due, Move, Fails
<1>4. ASSUME NEW i \in 1..MaxPhotos, Sweep(q, i) PROVE Locks'
  BY <1>4 DEF Sweep, Fails
<1>5. CASE Write(q)
  BY <1>5 DEF Write, Reply, Move
<1>6. CASE Lock(q)
  BY <1>6 DEF Lock, Move
<1>7. CASE Swap(q)
  BY <1>7 DEF Swap, Move
<1>8. CASE Tidy(q)
  BY <1>8 DEF Tidy, Reply, Move, Replaced, Fails
<1>9. CASE BreakOff(q)
  BY <1>9 DEF BreakOff, Move, Fails
<1>10. CASE LoseAnswer(q)
  BY <1>10 DEF LoseAnswer, Move, Replaced, Fails
<1>11. CASE GiveUp(q)
  BY <1>11 DEF GiveUp, Reply, Move
<1>12. CASE Find(q)
  BY <1>12 DEF Find, Reply, Move
<1>13. CASE Open(q)
  BY <1>13 DEF Open, Reply, Move
<1> QED
  BY Handlers, <1>1, <1>2, <1>3, <1>4, <1>5, <1>6, <1>7,
     <1>8, <1>9, <1>10, <1>11, <1>12, <1>13 DEF MediaStep

LEMMA FoundStep ==
    ASSUME MediaInv, NEW q \in Uploads, MediaStep(q)
    PROVE  Found'
<1> USE WishTypes DEF MediaInv, Found, Flow, Rows, PicturesTypeOK, Working, Past, Asks,
        Named, pictureRequests
<1>1. CASE Taken(q)
  BY <1>1 DEF Taken
<1>2. ASSUME NEW i \in 1..MaxPhotos, Upload(q, i) PROVE Found'
  BY <1>2 DEF Upload, Due, Move
<1>3. ASSUME NEW i \in 1..MaxPhotos, UploadFails(q, i) PROVE Found'
  BY <1>3 DEF UploadFails, Due, Move, Fails
<1>4. ASSUME NEW i \in 1..MaxPhotos, Sweep(q, i) PROVE Found'
  BY <1>4 DEF Sweep, Fails
<1>5. CASE Write(q)
  BY <1>5 DEF Write, Reply, Move
<1>6. CASE Lock(q)
  BY <1>6 DEF Lock, Move
<1>7. CASE Swap(q)
  BY <1>7 DEF Swap, Move
<1>8. CASE Tidy(q)
  BY <1>8 DEF Tidy, Reply, Move, Replaced, Fails
<1>9. CASE BreakOff(q)
  BY <1>9 DEF BreakOff, Move, Fails
<1>10. CASE LoseAnswer(q)
  BY <1>10 DEF LoseAnswer, Move, Replaced, Fails
<1>11. CASE GiveUp(q)
  BY <1>11 DEF GiveUp, Reply, Move
<1>12. CASE Find(q)
  BY <1>12 DEF Find, Reply, Move
<1>13. CASE Open(q)
  BY <1>13 DEF Open, Reply, Move
<1> QED
  BY Handlers, <1>1, <1>2, <1>3, <1>4, <1>5, <1>6, <1>7,
     <1>8, <1>9, <1>10, <1>11, <1>12, <1>13 DEF MediaStep

LEMMA BackedStep ==
    ASSUME MediaInv, NEW q \in Uploads, MediaStep(q)
    PROVE  PicturesBackRows'
<1> USE WishTypes DEF MediaInv, PicturesBackRows, Flow, Rows, Stored, Locks, Found,
        PicturesTypeOK, Working, Past, Asks, Photos, Person, Retired, Named,
        pictureRequests
<1>1. CASE Taken(q)
  BY <1>1 DEF Taken
<1>2. ASSUME NEW i \in 1..MaxPhotos, Upload(q, i) PROVE PicturesBackRows'
  BY <1>2 DEF Upload, Due, Move
<1>3. ASSUME NEW i \in 1..MaxPhotos, UploadFails(q, i) PROVE PicturesBackRows'
  BY <1>3 DEF UploadFails, Due, Move, Fails
<1>4. ASSUME NEW i \in 1..MaxPhotos, Sweep(q, i) PROVE PicturesBackRows'
  BY <1>4 DEF Sweep, Fails
<1>5. CASE Write(q)
  BY <1>5 DEF Write, Reply, Move
<1>6. CASE Lock(q)
  BY <1>6 DEF Lock, Move
<1>7. CASE Swap(q)
  BY <1>7 DEF Swap, Move
<1>8. CASE Tidy(q)
  BY <1>8 DEF Tidy, Reply, Move, Replaced, Fails
<1>9. CASE BreakOff(q)
  BY <1>9 DEF BreakOff, Move, Fails
<1>10. CASE LoseAnswer(q)
  BY <1>10 DEF LoseAnswer, Move, Replaced, Fails
<1>11. CASE GiveUp(q)
  BY <1>11 DEF GiveUp, Reply, Move
<1>12. CASE Find(q)
  BY <1>12 DEF Find, Reply, Move
<1>13. CASE Open(q)
  BY <1>13 DEF Open, Reply, Move
<1> QED
  BY Handlers, <1>1, <1>2, <1>3, <1>4, <1>5, <1>6, <1>7,
     <1>8, <1>9, <1>10, <1>11, <1>12, <1>13 DEF MediaStep

LEMMA ExcusedStep ==
    ASSUME MediaInv, NEW q \in Uploads, MediaStep(q)
    PROVE  Excused'
<1> USE WishTypes DEF MediaInv, Excused, Flow, Rows, Stored, Locks, PicturesTypeOK,
        Working, Past, Asks, Photos, Person, Named, pictureRequests
<1>1. CASE Taken(q)
  BY <1>1 DEF Taken
<1>2. ASSUME NEW i \in 1..MaxPhotos, Upload(q, i) PROVE Excused'
  BY <1>2 DEF Upload, Due, Move
<1>3. ASSUME NEW i \in 1..MaxPhotos, UploadFails(q, i) PROVE Excused'
  BY <1>3 DEF UploadFails, Due, Move, Fails
<1>4. ASSUME NEW i \in 1..MaxPhotos, Sweep(q, i) PROVE Excused'
  BY <1>4 DEF Sweep, Fails
<1>5. CASE Write(q)
  BY <1>5 DEF Write, Reply, Move
<1>6. CASE Lock(q)
  BY <1>6 DEF Lock, Move
<1>7. CASE Swap(q)
  BY <1>7 DEF Swap, Move
<1>8. CASE Tidy(q)
  <2> USE <1>8 DEF Tidy, Reply, Move, Replaced, Fails
  <2> SUFFICES ASSUME NEW x \in objects' PROVE
         \/ Named(x[1])
         \/ (Working(x[1]) \/ step[x[1]] = "sweep")' /\ x[2] \in held[x[1]]
         \/ \E p \in Uploads : step'[p] = "tidy" /\ prior[p] = x[1]
         \/ x \in strays'
    OBVIOUS
  <2>1. x \in objects /\ strays \subseteq strays' /\ x \in Uploads \X (1..MaxPhotos)
    OBVIOUS
  <2>2. CASE prior[q] = x[1]
    <3>1. x[1] \in Uploads /\ prior[q] # NoUpload /\ Asks(x[1], "avatar")
      BY <2>1, <2>2 DEF Retired
    <3>2. x = <<x[1], 1>>
      BY <2>1, <3>1
    <3> QED BY <2>2, <3>1, <3>2
  <2>3. CASE prior[q] # x[1]
    <3>1. \A p \in Uploads \ {q} : step'[p] = step[p]
      OBVIOUS
    <3>2. ~Working(q) /\ step[q] # "sweep"
      OBVIOUS
    <3> QED BY <2>1, <2>3, <3>1, <3>2
  <2> QED BY <2>2, <2>3
<1>9. CASE BreakOff(q)
  BY <1>9 DEF BreakOff, Move, Fails
<1>10. CASE LoseAnswer(q)
  BY <1>10 DEF LoseAnswer, Move, Replaced, Fails
<1>11. CASE GiveUp(q)
  BY <1>11 DEF GiveUp, Reply, Move
<1>12. CASE Find(q)
  BY <1>12 DEF Find, Reply, Move
<1>13. CASE Open(q)
  BY <1>13 DEF Open, Reply, Move
<1> QED
  BY Handlers, <1>1, <1>2, <1>3, <1>4, <1>5, <1>6, <1>7,
     <1>8, <1>9, <1>10, <1>11, <1>12, <1>13 DEF MediaStep

-----------------------------------------------------------------------------
LEMMA RestartInv == MediaInv /\ Restart => MediaInv'
<1> SUFFICES ASSUME MediaInv, Restart PROVE MediaInv'
  OBVIOUS
<1> USE WishTypes DEF MediaInv, Restart, Fails, pictureRequests, Running, Asks
<1>1. PicturesTypeOK' /\ Flow'
  BY DEF PicturesTypeOK, Flow, Working, Replaced
<1>2. Rows' /\ Stored'
  BY DEF PicturesTypeOK, Flow, Rows, Stored, Working, Past, Photos, Person
<1>3. Locks' /\ Found'
  BY DEF PicturesTypeOK, Flow, Locks, Found, Working, Past
<1>4. PicturesBackRows'
  BY DEF PicturesTypeOK, PicturesBackRows, Named, Photos
<1>5. Excused'
  BY DEF PicturesTypeOK, Excused, Stored, Locks, Retired, Named, Working, Photos, Replaced
<1> QED BY <1>1, <1>2, <1>3, <1>4, <1>5

\* A request of another module that fails counts among the failures.
LEMMA FailureInv ==
    ASSUME MediaInv, Fails,
           UNCHANGED <<wish, step, reply, held, objects, kept, avatar, locked, prior,
                       doubtful, strays>>
    PROVE  MediaInv'
  BY DEF MediaInv, Fails, PicturesTypeOK, Flow, Rows, Stored, Locks, Found,
         PicturesBackRows, Excused, Past, Working, Named, Asks, Person, Photos, Retired

LEMMA MediaStepInv == MediaInv /\ [MediaNext]_mediaVars => MediaInv'
<1> SUFFICES ASSUME MediaInv, [MediaNext]_mediaVars PROVE MediaInv'
  OBVIOUS
<1>1. CASE UNCHANGED mediaVars
  BY <1>1 DEF mediaVars, MediaInv, PicturesTypeOK, Flow, Rows, Stored, Locks, Found,
         PicturesBackRows, Excused, Past, Working, Named, Asks, Person, Photos, Retired
<1>2. ASSUME NEW q \in Uploads, MediaStep(q) PROVE MediaInv'
  BY <1>2, TypesStep, FlowStep, RowsStep, StoredStep, LocksStep, FoundStep, BackedStep,
     ExcusedStep DEF MediaInv
<1> QED BY <1>1, <1>2, RestartInv DEF MediaNext

LEMMA MediaIsInvariant == MediaSpec => []MediaInv
  BY MediaStart, MediaStepInv, PTL DEF MediaSpec

LEMMA ExcusedSuffices == MediaInv => StraysAreExcused
  BY DEF MediaInv, Excused, StraysAreExcused, Working, Running, PicturesTypeOK

-----------------------------------------------------------------------------
\* Every row that was committed without doubt names objects that are in storage,
\* however uploads, swaps, failures and restarts interleave.
THEOREM RowsAreBacked == MediaSpec => []PicturesBackRows
  BY MediaIsInvariant, PTL DEF MediaInv

\* An object no row names is about to be removed or was left by a failure.
THEOREM StraysHaveAnExcuse == MediaSpec => []StraysAreExcused
  BY MediaIsInvariant, ExcusedSuffices, PTL

-----------------------------------------------------------------------------
(***************************************************************************)
(* Meal.                                                                   *)
(***************************************************************************)
USE MealAssumption

Beyond == {"share", "announce", "lookup", "confirm", "list"}
Left(r) == {later[r][j] : j \in 1..Len(later[r])}
Owned(r) == Target(r) \in kept /\ Person(Target(r)) = User(r)

(***************************************************************************)
(* The inductive invariant, request by request.                            *)
(***************************************************************************)
\* Which request may be where.
Course(r) ==
    /\ pc[r] = "idle" => op[r] = NoOp /\ answer[r] = "none"
    /\ pc[r] # "idle" => op[r] \in Operations
    /\ pc[r] = "own" => op[r].kind \in {"update", "delete", "unshare", "shares", "share"}
    /\ pc[r] = "write" => op[r].kind \in {"update", "delete", "unshare"}
    /\ pc[r] = "groups" => op[r].kind \in {"share", "read", "photo"}
    /\ pc[r] \in {"share", "announce", "lookup", "confirm"} => Is(r, "share")
    /\ pc[r] = "list" => op[r].kind \in {"share", "shares"}
    /\ pc[r] = "find" => op[r].kind \in {"read", "photo"}
    /\ pc[r] = "open" => Is(r, "photo")
    /\ answer[r] # "none" => pc[r] = "done"

\* What a request remembers of its beginning: who leaves never comes back.
History(r) ==
    /\ before[r] \subseteq {p \in Requests : pc[p] = "done"}
    /\ pc[r] = "idle" => mine[r] = {}
    /\ pc[r] # "idle" => GroupsOf(User(r)) \subseteq joined[r]
    /\ mine[r] \subseteq joined[r]

\* What Share found out before its loop.
Checked(r) ==
    /\ Is(r, "share") /\ pc[r] \in Beyond \cup {"groups"} => Owned(r)
    /\ Is(r, "share") /\ pc[r] \in Beyond => Wanted(r) \subseteq mine[r]

\* The loop of Share: each group is ahead or done.
Loop(r) ==
    Is(r, "share") =>
       /\ Left(r) \subseteq Wanted(r)
       /\ pc[r] \in {"share", "announce", "lookup"} => later[r] # <<>>
       /\ pc[r] \in {"confirm", "list"} \/ answer[r] = "ok" => later[r] = <<>>
       /\ pc[r] \in {"announce", "lookup"} =>
             /\ share[Target(r)][Head(later[r])] # NoRequest
             /\ revoked[Target(r)][Head(later[r])] \notin before[r]
       /\ \A g \in Wanted(r) \ Left(r) :
             card[Target(r)][g] # "none" /\ revoked[Target(r)][g] \notin before[r]

Seen(r) ==
    op[r].kind \in {"read", "photo"} /\ (answer[r] = "ok" \/ pc[r] = "open") =>
       /\ Target(r) \in kept
       /\ User(r) = Person(Target(r)) \/ OpenTo(r) # {}
       /\ deleted[Target(r)] \notin before[r]

Shares ==
    \A m \in Uploads, g \in Groups :
       /\ card[m][g] # "none" => share[m][g] # NoRequest
       /\ share[m][g] # NoRequest =>
             /\ m \in kept /\ User(share[m][g]) = Person(m)
             /\ g \in joined[share[m][g]] /\ answer[share[m][g]] # "refused"
             /\ pc[share[m][g]] \in Beyond \cup {"done"}

Sound(r) == Course(r) /\ History(r) /\ Checked(r) /\ Loop(r) /\ Seen(r)

MealInv == MediaInv /\ TypeOK /\ Shares /\ \A r \in Requests : Sound(r)

-----------------------------------------------------------------------------
LEMMA OperationTypes ==
    /\ \A o \in Operations :
          /\ o.kind \in {"update", "delete", "shares", "read", "share", "unshare", "photo"}
          /\ o.user \in Users /\ o.meal \in Uploads
          /\ o.kind = "share" => o.groups \in Seq(Groups)
          /\ o.kind = "unshare" => o.group \in Groups
    /\ NoOp.kind = "none"
  BY DEF Operations, NoOp

LEMMA AskedFor ==
    ASSUME NEW r \in Requests, NEW o \in MayAsk[r]
    PROVE  o \in Operations /\ o \in UNION {MayAsk[p] : p \in Requests}
  OBVIOUS

LEMMA TailElements ==
    ASSUME NEW s \in Seq(Groups), s # <<>>
    PROVE  /\ Tail(s) \in Seq(Groups) /\ Head(s) \in Groups
           /\ {s[j] : j \in 1..Len(s)} =
                 {Head(s)} \cup {Tail(s)[j] : j \in 1..Len(Tail(s))}
<1>1. /\ Tail(s) \in Seq(Groups) /\ Head(s) \in Groups /\ Head(s) = s[1]
      /\ Len(s) \in Nat \ {0} /\ Len(Tail(s)) = Len(s) - 1
      /\ \A j \in 1..Len(Tail(s)) : Tail(s)[j] = s[j + 1]
  OBVIOUS
<1>2. ASSUME NEW j \in 1..Len(s)
      PROVE  s[j] \in {Head(s)} \cup {Tail(s)[k] : k \in 1..Len(Tail(s))}
  <2>1. CASE j = 1
    BY <1>1, <2>1
  <2>2. CASE j # 1
    <3>1. j - 1 \in 1..Len(Tail(s)) /\ s[j] = Tail(s)[j - 1]
      BY <1>1, <2>2
    <3> QED BY <3>1
  <2> QED BY <2>1, <2>2
<1>3. ASSUME NEW j \in 1..Len(Tail(s)) PROVE Tail(s)[j] \in {s[k] : k \in 1..Len(s)}
  <2>1. j + 1 \in 1..Len(s)
    BY <1>1
  <2> QED BY <1>1, <2>1
<1>4. Head(s) \in {s[k] : k \in 1..Len(s)}
  BY <1>1
<1> QED BY <1>1, <1>2, <1>3, <1>4

\* Rows stay, and a request of Media that has begun stays the same.
LEMMA MediaFrame ==
    ASSUME MediaInv, Restart \/ \E q \in Uploads : MediaStep(q)
    PROVE  kept \subseteq kept' /\ \A m \in kept : wish'[m] = wish[m]
<1> USE DEF MediaInv, Rows, Past, PicturesTypeOK, pictureRequests
<1>1. CASE Restart
  BY <1>1 DEF Restart
<1>2. ASSUME NEW q \in Uploads, MediaStep(q)
      PROVE  kept \subseteq kept' /\ \A m \in kept : wish'[m] = wish[m]
  <2>1. CASE Taken(q)
    BY <2>1 DEF Taken
  <2>2. CASE UNCHANGED wish
    BY <1>2, <2>2, Handlers DEF MediaStep, Taken, Write, Lock, Swap, Tidy, BreakOff,
      LoseAnswer, GiveUp, Find, Open, Upload, UploadFails, Sweep
  <2> QED BY <1>2, <2>1, <2>2, Handlers DEF MediaStep, Write, Lock, Swap, Tidy, BreakOff,
        LoseAnswer, GiveUp, Find, Open, Upload, UploadFails, Sweep
<1> QED BY <1>1, <1>2

\* What the handlers have in common.
Accepted(r) ==
    /\ pc[r] = "idle"
    /\ \E o \in MayAsk[r] :
          /\ op' = [op EXCEPT ![r] = o]
          /\ joined' = [joined EXCEPT ![r] = GroupsOf(o.user)]
          /\ later' = [later EXCEPT ![r] = IF o.kind = "share" THEN o.groups ELSE <<>>]
          /\ pc' = [pc EXCEPT ![r] =
                IF o.kind \in {"read", "photo"} THEN "groups" ELSE "own"]
    /\ before' = [before EXCEPT ![r] = {p \in Requests : pc[p] = "done"}]
    /\ UNCHANGED <<mediaVars, members, answer, mine, sharing, fields, read>>

LEMMA MealHandlers ==
    ASSUME NEW r \in Requests,
           \/ PatchMeal(r) \/ DeleteMeal(r) \/ ShareMeal(r) \/ UnshareMeal(r)
           \/ ListMealShares(r) \/ GetMeal(r) \/ GetMealImage(r)
    PROVE  Accepted(r)
<1>1. ASSUME NEW kind, NEW label, Begin(r, kind, label),
             \/ kind \in {"update", "delete", "unshare", "shares"} /\ label = "own"
             \/ kind \in {"read", "photo"} /\ label = "groups"
      PROVE  Accepted(r)
  BY <1>1 DEF Begin, Accept, Goto, Accepted
<1>2. CASE ShareMeal(r)
  BY <1>2 DEF ShareMeal, Accept, Goto, Accepted
<1> QED BY <1>1, <1>2 DEF PatchMeal, DeleteMeal, UnshareMeal, ListMealShares, GetMeal,
       GetMealImage

LEMMA MealStart == Init => MealInv
<1> SUFFICES ASSUME Init PROVE MealInv
  OBVIOUS
<1>1. MediaInv
  BY MediaStart DEF Init
<1>2. TypeOK
  <2>1. op \in [Requests -> {NoOp} \cup UNION {MayAsk[r] : r \in Requests}]
    <3> DEFINE All == {NoOp} \cup UNION {MayAsk[r] : r \in Requests}
    <3>1. NoOp \in All
      OBVIOUS
    <3> HIDE DEF All
    <3> QED BY <3>1 DEF Init
  <2>2. later \in [Requests -> Seq(Groups)]
    BY DEF Init
  <2>3. /\ share \in [Uploads -> [Groups -> Requests \cup {NoRequest}]]
        /\ revoked \in [Uploads -> [Groups -> Requests \cup {NoRequest}]]
        /\ card \in [Uploads -> [Groups -> {"none", "live", "deleted"}]]
    BY DEF Init
  <2>4. /\ text \in [Uploads -> [Fields -> Requests \cup {NoRequest}]]
        /\ read \in [Requests -> [Fields -> Requests \cup {NoRequest}]]
    BY DEF Init, Blank
  <2> QED BY <1>1, <2>1, <2>2, <2>3, <2>4 DEF Init, TypeOK, MediaInv
<1>3. ASSUME NEW r \in Requests PROVE Sound(r)
  BY OperationTypes DEF Init, Sound, Course, History, Checked, Loop, Seen, Is
<1>4. Shares
  BY DEF Init, Shares
<1> QED BY <1>1, <1>2, <1>3, <1>4 DEF MealInv

-----------------------------------------------------------------------------
(***************************************************************************)
(* What a step of r leaves alone.                                          *)
(***************************************************************************)
Frame(r) ==
    /\ pc[r] # "done" /\ pc'[r] # "idle"
    /\ members' = members /\ kept' = kept /\ wish' = wish
    /\ \A p \in Requests \ {r} :
          /\ op'[p] = op[p] /\ pc'[p] = pc[p] /\ answer'[p] = answer[p]
          /\ joined'[p] = joined[p] /\ before'[p] = before[p]
          /\ mine'[p] = mine[p] /\ later'[p] = later[p]

LEMMA StepFrame ==
    ASSUME MealInv, NEW r \in Requests, MealStep(r)
    PROVE  Frame(r)
<1> USE DEF MealInv, TypeOK, Frame, requests, mediaVars
<1>1. CASE Accepted(r)
  BY <1>1, AskedFor DEF Accepted
<1>2. CASE Own(r)
  BY <1>2 DEF Own, Goto, Answer, Owns, Meals
<1>3. CASE Update(r)
  BY <1>3 DEF Update, Goto, Answer, Merged
<1>4. CASE Delete(r)
  BY <1>4 DEF Delete, Goto, Answer
<1>5. CASE LookUpGroups(r)
  BY <1>5 DEF LookUpGroups, Goto, Answer, Allowed
<1>6. CASE Share(r)
  BY <1>6 DEF Share, Goto, Answer
<1>7. CASE Announce(r)
  BY <1>7 DEF Announce, Goto, Answer, NextGroup
<1>8. CASE LookUpCard(r)
  BY <1>8 DEF LookUpCard, Goto, Answer, NextGroup
<1>9. CASE Confirm(r)
  BY <1>9 DEF Confirm, Goto, Answer
<1>10. CASE ListShares(r)
  BY <1>10 DEF ListShares, Goto, Answer
<1>11. CASE Unshare(r)
  BY <1>11 DEF Unshare, Goto, Answer
<1>12. CASE FindMeal(r)
  BY <1>12 DEF FindMeal, Goto, Answer, Readable, Meals, IsShared
<1>13. CASE OpenPhoto(r)
  BY <1>13 DEF OpenPhoto, Goto, Answer
<1>14. CASE GoWrong(r)
  BY <1>14 DEF GoWrong, Goto, Answer, Fails
<1> QED
  BY MealHandlers, <1>1, <1>2, <1>3, <1>4, <1>5, <1>6, <1>7, <1>8, <1>9, <1>10, <1>11,
     <1>12, <1>13, <1>14 DEF MealStep

\* The rows of shares and cards that r may write, and what it writes.
Tables(r) ==
    /\ \A m \in Uploads, g \in Groups :
          /\ \/ share'[m][g] = share[m][g]
             \/ /\ pc[r] = "share" /\ m = Target(r) /\ g = Head(later[r])
                /\ share'[m][g] = r
          /\ revoked'[m][g] \in {revoked[m][g], NoRequest, r}
          /\ \/ card'[m][g] = card[m][g]
             \/ /\ pc[r] = "announce" /\ m = Target(r) /\ g = Head(later[r])
                /\ card'[m][g] # "none"
    /\ \A m \in Uploads : deleted'[m] \in {deleted[m], r}

LEMMA StepTables ==
    ASSUME MealInv, NEW r \in Requests, MealStep(r)
    PROVE  Tables(r)
<1> USE DEF MealInv, TypeOK, Tables, sharing, fields, IsShared
<1>1. CASE Accepted(r)
  BY <1>1, AskedFor DEF Accepted
<1>2. CASE Own(r)
  BY <1>2 DEF Own, Goto, Answer, Owns, Meals
<1>3. CASE Update(r)
  BY <1>3 DEF Update, Goto, Answer, Merged
<1>4. CASE Delete(r)
  BY <1>4 DEF Delete, Goto, Answer
<1>5. CASE LookUpGroups(r)
  BY <1>5 DEF LookUpGroups, Goto, Answer, Allowed
<1>6. CASE Share(r)
  BY <1>6 DEF Share, Goto, Answer
<1>7. CASE Announce(r)
  BY <1>7 DEF Announce, Goto, Answer, NextGroup
<1>8. CASE LookUpCard(r)
  BY <1>8 DEF LookUpCard, Goto, Answer, NextGroup
<1>9. CASE Confirm(r)
  BY <1>9 DEF Confirm, Goto, Answer
<1>10. CASE ListShares(r)
  BY <1>10 DEF ListShares, Goto, Answer
<1>11. CASE Unshare(r)
  BY <1>11 DEF Unshare, Goto, Answer
<1>12. CASE FindMeal(r)
  BY <1>12 DEF FindMeal, Goto, Answer, Readable, Meals, IsShared
<1>13. CASE OpenPhoto(r)
  BY <1>13 DEF OpenPhoto, Goto, Answer
<1>14. CASE GoWrong(r)
  BY <1>14 DEF GoWrong, Goto, Answer, Fails
<1> QED
  BY MealHandlers, <1>1, <1>2, <1>3, <1>4, <1>5, <1>6, <1>7, <1>8, <1>9, <1>10, <1>11,
     <1>12, <1>13, <1>14 DEF MealStep

LEMMA MealTypesKept ==
    ASSUME MealInv, PicturesTypeOK', NEW r \in Requests, MealStep(r)
    PROVE  TypeOK'
<1>1. CASE Accepted(r)
  BY <1>1, AskedFor, OperationTypes DEF Accepted, MealInv, TypeOK, GroupsOf, sharing, fields
<1>2. ASSUME ~Accepted(r)
      PROVE  /\ pc' \in [Requests -> {"idle", "own", "write", "groups", "share", "announce",
                                      "lookup", "confirm", "list", "find", "open", "done"}]
             /\ answer' \in [Requests -> {"none", "ok", "refused", "missing", "gone", "error"}]
  <2> USE <1>2 DEF MealInv, TypeOK, Goto, Answer
  <2>3. CASE Own(r)
    BY <2>3 DEF Own, Owns, Meals
  <2>4. CASE Update(r) \/ Delete(r)
    <3> HIDE DEF Answer
    <3>1. \E a \in {"ok", "missing"} : Answer(r, a)
      BY <2>4 DEF Update, Delete
    <3>2. ASSUME NEW a \in {"ok", "missing"}, Answer(r, a)
          PROVE  /\ pc' = [pc EXCEPT ![r] = "done"]
                 /\ answer' = [answer EXCEPT ![r] = a]
      BY <3>2 DEF Answer
    <3> QED BY <2>4, <3>1, <3>2
  <2>5. CASE LookUpGroups(r)
    BY <2>5 DEF LookUpGroups
  <2>6. CASE Share(r)
    BY <2>6 DEF Share
  <2>7. CASE Announce(r)
    BY <2>7 DEF Announce, NextGroup
  <2>8. CASE LookUpCard(r)
    BY <2>8 DEF LookUpCard, NextGroup
  <2>9. CASE Confirm(r) \/ ListShares(r)
    BY <2>9 DEF Confirm, ListShares
  <2>10. CASE Unshare(r)
    BY <2>10 DEF Unshare
  <2>11. CASE FindMeal(r) \/ OpenPhoto(r)
    BY <2>11 DEF FindMeal, OpenPhoto
  <2>12. CASE GoWrong(r)
    BY <2>12 DEF GoWrong
  <2> QED BY <2>3, <2>4, <2>5, <2>6, <2>7, <2>8, <2>9, <2>10, <2>11, <2>12, MealHandlers DEF MealStep
<1>3. ASSUME ~Accepted(r)
      PROVE  /\ later' \in [Requests -> Seq(Groups)]
             /\ mine' \in [Requests -> SUBSET Groups]
             /\ read' \in [Requests -> [Fields -> Requests \cup {NoRequest}]]
             /\ share' \in [Uploads -> [Groups -> Requests \cup {NoRequest}]]
             /\ revoked' \in [Uploads -> [Groups -> Requests \cup {NoRequest}]]
             /\ card' \in [Uploads -> [Groups -> {"none", "live", "deleted"}]]
             /\ deleted' \in [Uploads -> Requests \cup {NoRequest}]
             /\ text' \in [Uploads -> [Fields -> Requests \cup {NoRequest}]]
  <2>1. /\ pc[r] \notin {"idle", "done"} => Target(r) \in Uploads
        /\ pc[r] \in {"share", "announce", "lookup"} =>
              Tail(later[r]) \in Seq(Groups) /\ Head(later[r]) \in Groups
        /\ op[r].kind = "unshare" /\ pc[r] # "idle" => op[r].group \in Groups
    BY OperationTypes, TailElements DEF MealInv, TypeOK, Sound, Course, Loop, Is, Target
  <2>2. \A u : GroupsOf(u) \in SUBSET Groups
    BY DEF GroupsOf
  <2> USE <1>3, <2>1 DEF MealInv, TypeOK, sharing, fields
  <2>3. CASE Own(r)
    <3>1. read' \in [Requests -> [Fields -> Requests \cup {NoRequest}]]
      <4>1. CASE read' = read
        BY <4>1
      <4>2. CASE read' = [read EXCEPT ![r] = text[Target(r)]] /\ pc[r] = "own"
        BY <4>2
      <4> QED BY <2>3, <4>1, <4>2 DEF Own
    <3> QED BY <2>3, <3>1 DEF Own
  <2>4. CASE Update(r)
    <3>1. text' \in [Uploads -> [Fields -> Requests \cup {NoRequest}]]
      <4>1. CASE text' = text
        BY <4>1
      <4>2. CASE text' = [text EXCEPT ![Target(r)] = Merged(r)] /\ pc[r] = "write"
        <5>1. Merged(r) \in [Fields -> Requests \cup {NoRequest}]
          BY DEF Merged
        <5> QED BY <4>2, <5>1
      <4> QED BY <2>4, <4>1, <4>2 DEF Update
    <3> QED BY <2>4, <3>1 DEF Update
  <2>5. CASE Delete(r)
    BY <2>5 DEF Delete
  <2>6. CASE Share(r)
    BY <2>6 DEF Share
  <2>7. CASE Announce(r)
    <3>1. card' \in [Uploads -> [Groups -> {"none", "live", "deleted"}]]
      <4>1. CASE card' = card
        BY <4>1
      <4>2. CASE card' = [card EXCEPT ![Target(r)][Head(later[r])] = "live"] /\ pc[r] = "announce"
        BY <4>2
      <4> QED BY <2>7, <4>1, <4>2 DEF Announce
    <3>2. later' \in [Requests -> Seq(Groups)]
      <4>1. CASE later' = later
        BY <4>1
      <4>2. CASE later' = [later EXCEPT ![r] = Tail(@)] /\ pc[r] = "announce"
        BY <4>2
      <4> QED BY <2>7, <4>1, <4>2 DEF Announce, NextGroup
    <3> QED BY <2>7, <3>1, <3>2 DEF Announce
  <2>8. CASE LookUpCard(r)
    <3>1. later' \in [Requests -> Seq(Groups)]
      <4>1. CASE later' = later
        BY <4>1
      <4>2. CASE later' = [later EXCEPT ![r] = Tail(@)] /\ pc[r] = "lookup"
        BY <4>2
      <4> QED BY <2>8, <4>1, <4>2 DEF LookUpCard, NextGroup
    <3> QED BY <2>8, <3>1 DEF LookUpCard
  <2>9. CASE Confirm(r) \/ ListShares(r)
    BY <2>9 DEF Confirm, ListShares
  <2>10. CASE Unshare(r)
    BY <2>10 DEF Unshare, Is
  <2>11. CASE FindMeal(r) \/ OpenPhoto(r)
    BY <2>11 DEF FindMeal, OpenPhoto
  <2>12. CASE GoWrong(r)
    BY <2>12 DEF GoWrong
  <2>13. CASE LookUpGroups(r)
    BY <2>2, <2>13 DEF LookUpGroups
  <2> QED BY <2>3, <2>4, <2>5, <2>6, <2>7, <2>8, <2>9, <2>10, <2>11, <2>12, <2>13, MealHandlers DEF MealStep
<1>4. ASSUME ~Accepted(r)
      PROVE  UNCHANGED <<members, op, joined, before>>
  BY <1>4, MealHandlers DEF MealStep, Own, Update, Delete, LookUpGroups, Share, Announce,
     LookUpCard, Confirm, ListShares, Unshare, FindMeal, OpenPhoto, GoWrong, requests
<1> QED BY <1>1, <1>2, <1>3, <1>4 DEF MealInv, TypeOK

LEMMA OthersKept ==
    ASSUME MealInv, NEW r \in Requests, MealStep(r), NEW p \in Requests \ {r}
    PROVE  Sound(p)'
<1> USE StepFrame, StepTables DEF Frame, Tables
<1>1. Sound(p) /\ r \notin before[p] /\ NoRequest \notin before[p]
  BY DEF MealInv, Sound, History, TypeOK
<1>2. Course(p)' /\ Checked(p)'
  BY <1>1 DEF Sound, Course, Checked, Is, Owned, Wanted, Target, User, Person
<1>3. History(p)'
  <2>1. {q \in Requests : pc[q] = "done"} \subseteq {q \in Requests : pc'[q] = "done"}
    OBVIOUS
  <2> QED BY <1>1, <2>1 DEF Sound, History, GroupsOf, User
<1>4. Loop(p)'
  <2> SUFFICES ASSUME Is(p, "share") PROVE Loop(p)'
    BY DEF Loop, Is
  <2>1. Target(p) \in Uploads /\ Wanted(p) \subseteq Groups /\ Target(p)' = Target(p)
    BY <1>1, OperationTypes DEF Sound, Course, Is, Target, Wanted
  <2>2. later[p] # <<>> => Head(later[p]) \in Groups
    BY TailElements DEF MealInv, TypeOK
  <2>3. Left(p)' = Left(p) /\ Wanted(p)' = Wanted(p)
    BY DEF Left, Wanted
  <2>4. Loop(p)
    BY <1>1 DEF Sound
  <2>5. ASSUME NEW g \in Groups
        PROVE  /\ share[Target(p)][g] # NoRequest => share'[Target(p)][g] # NoRequest
               /\ card[Target(p)][g] # "none" => card'[Target(p)][g] # "none"
               /\ revoked[Target(p)][g] \notin before[p] => revoked'[Target(p)][g] \notin before[p]
    BY <1>1, <2>1
  <2> HIDE StepTables DEF Tables
  <2> QED BY <2>1, <2>2, <2>3, <2>4, <2>5 DEF Loop
<1>5. Seen(p)'
  <2> SUFFICES ASSUME op[p].kind \in {"read", "photo"}, answer[p] = "ok" \/ pc[p] = "open"
               PROVE  Seen(p)'
    BY DEF Seen
  <2>1. Target(p) \in Uploads /\ Target(p)' = Target(p)
    BY <1>1, OperationTypes DEF Sound, Course, Target
  <2>2. joined[p] \subseteq Groups
    BY DEF MealInv, TypeOK
  <2>3. OpenTo(p) \subseteq OpenTo(p)'
    BY <1>1, <2>1, <2>2 DEF OpenTo
  <2> QED BY <1>1, <2>1, <2>3 DEF Sound, Seen, Target, User, Person
<1> QED BY <1>2, <1>3, <1>4, <1>5 DEF Sound

-----------------------------------------------------------------------------
(***************************************************************************)
(* What a step of r does to r.                                             *)
(***************************************************************************)
Follows(r, l) == pc'[r] = l /\ answer'[r] = answer[r]
Goes(r, l) == Follows(r, l) /\ later'[r] = later[r]
Ends(r, a) == pc'[r] = "done" /\ answer'[r] = a /\ later'[r] = later[r]

Effect(r) ==
    \/ \E a \in {"missing", "error"} : Ends(r, a)
    \/ /\ pc[r] = "own" /\ Owned(r)
       /\ Goes(r, IF Is(r, "share") THEN "groups" ELSE IF Is(r, "shares") THEN "list"
                  ELSE "write")
    \/ pc[r] = "write" /\ Ends(r, "ok")
    \/ pc[r] = "groups" /\ Ends(r, "refused")
    \/ /\ pc[r] = "groups" /\ Is(r, "share") /\ Wanted(r) \subseteq mine'[r]
       /\ Goes(r, IF later[r] = <<>> THEN "confirm" ELSE "share")
    \/ pc[r] = "groups" /\ ~Is(r, "share") /\ Goes(r, "find")
    \/ /\ pc[r] = "share" /\ Goes(r, "announce")
       /\ share'[Target(r)][Head(later[r])] = r
       /\ revoked'[Target(r)][Head(later[r])] = NoRequest
    \/ pc[r] = "announce" /\ Goes(r, "lookup")
    \/ /\ pc[r] \in {"announce", "lookup"} /\ later'[r] = Tail(later[r])
       /\ Follows(r, IF Tail(later[r]) = <<>> THEN "confirm" ELSE "share")
       /\ card'[Target(r)][Head(later[r])] # "none"
    \/ pc[r] = "confirm" /\ Goes(r, "list")
    \/ pc[r] = "list" /\ Ends(r, "ok")
    \/ pc[r] = "find" /\ Readable(r) /\ Is(r, "read") /\ Ends(r, "ok")
    \/ pc[r] = "find" /\ Readable(r) /\ ~Is(r, "read") /\ Goes(r, "open")
    \/ pc[r] = "open" /\ \E a \in {"ok", "gone"} : Ends(r, a)

\* What r remembers.
Same(r) ==
    /\ pc[r] \notin {"idle", "done"}
    /\ op'[r] = op[r] /\ joined'[r] = joined[r] /\ before'[r] = before[r]
    /\ mine'[r] = mine[r] \/ (pc[r] = "groups" /\ mine'[r] = GroupsOf(User(r)))

LEMMA StepSame ==
    ASSUME MealInv, NEW r \in Requests, MealStep(r), ~Accepted(r)
    PROVE  Same(r)
<1>1. CASE LookUpGroups(r)
  BY <1>1 DEF LookUpGroups, Same, requests, MealInv, TypeOK
<1>2. CASE Own(r) \/ Update(r) \/ Delete(r) \/ Share(r) \/ Announce(r) \/ LookUpCard(r)
  BY <1>2 DEF Own, Update, Delete, Share, Announce, LookUpCard, Same, requests
<1>3. CASE Confirm(r) \/ ListShares(r) \/ Unshare(r) \/ FindMeal(r) \/ OpenPhoto(r) \/ GoWrong(r)
  BY <1>3 DEF Confirm, ListShares, Unshare, FindMeal, OpenPhoto, GoWrong, Same, requests
<1> QED BY <1>1, <1>2, <1>3, MealHandlers DEF MealStep

LEMMA StepEffect ==
    ASSUME MealInv, NEW r \in Requests, MealStep(r), ~Accepted(r)
    PROVE  Effect(r)
<1>1. DOMAIN pc = Requests /\ DOMAIN answer = Requests /\ DOMAIN later = Requests
      /\ DOMAIN mine = Requests
  BY DEF MealInv, TypeOK
<1> USE DEF Effect, Goes, Follows, Ends, Goto, Answer
<1>2. CASE Own(r)
  BY <1>1, <1>2 DEF Own, Owns, Meals, Owned
<1>3. CASE Update(r)
  BY <1>1, <1>3 DEF Update
<1>4. CASE Delete(r)
  BY <1>1, <1>4 DEF Delete
<1>5. CASE LookUpGroups(r)
  BY <1>1, <1>5 DEF LookUpGroups, Allowed
<1>6. CASE Share(r)
  <2>1. Target(r) \in Uploads /\ Head(later[r]) \in Groups
    BY <1>6, OperationTypes, TailElements DEF MealInv, TypeOK, Sound, Course, Loop, Target, Is, Share
  <2>2. share'[Target(r)][Head(later[r])] = r /\ revoked'[Target(r)][Head(later[r])] = NoRequest
    BY <1>6, <2>1 DEF MealInv, TypeOK, Share
  <2> QED BY <1>1, <1>6, <2>2 DEF Share
<1>7. CASE Announce(r)
  <2>1. Target(r) \in Uploads /\ Head(later[r]) \in Groups
    BY <1>7, OperationTypes, TailElements DEF MealInv, TypeOK, Sound, Course, Loop, Target, Is, Announce
  <2>2. card[Target(r)][Head(later[r])] # "live" => card'[Target(r)][Head(later[r])] # "none"
    BY <1>7, <2>1 DEF MealInv, TypeOK, Announce
  <2> QED BY <1>1, <1>7, <2>2 DEF Announce, NextGroup
<1>8. CASE LookUpCard(r)
  BY <1>1, <1>8 DEF LookUpCard, NextGroup, sharing
<1>9. CASE Confirm(r)
  BY <1>1, <1>9 DEF Confirm
<1>10. CASE ListShares(r)
  BY <1>1, <1>10 DEF ListShares
<1>11. CASE Unshare(r)
  BY <1>1, <1>11 DEF Unshare
<1>12. CASE FindMeal(r)
  BY <1>1, <1>12 DEF FindMeal
<1>13. CASE OpenPhoto(r)
  BY <1>1, <1>13 DEF OpenPhoto
<1>14. CASE GoWrong(r)
  BY <1>1, <1>14 DEF GoWrong
<1> QED
  BY MealHandlers, <1>2, <1>3, <1>4, <1>5, <1>6, <1>7, <1>8, <1>9, <1>10, <1>11, <1>12,
     <1>13, <1>14 DEF MealStep

\* A request that begins.
LEMMA AcceptedSound ==
    ASSUME MealInv, NEW r \in Requests, Accepted(r)
    PROVE  Sound(r)'
<1> USE DEF Accepted
<1>1. PICK o \in MayAsk[r] :
         /\ op' = [op EXCEPT ![r] = o]
         /\ joined' = [joined EXCEPT ![r] = GroupsOf(o.user)]
         /\ later' = [later EXCEPT ![r] = IF o.kind = "share" THEN o.groups ELSE <<>>]
         /\ pc' = [pc EXCEPT ![r] =
               IF o.kind \in {"read", "photo"} THEN "groups" ELSE "own"]
  OBVIOUS
<1>2. /\ op'[r] = o /\ joined'[r] = GroupsOf(o.user)
      /\ later'[r] = IF o.kind = "share" THEN o.groups ELSE <<>>
      /\ pc'[r] = IF o.kind \in {"read", "photo"} THEN "groups" ELSE "own"
      /\ before'[r] = {p \in Requests : pc[p] = "done"}
      /\ answer'[r] = "none" /\ mine'[r] = mine[r] /\ members' = members
      /\ pc[r] = "idle" /\ \A p \in Requests : pc[p] = "done" => pc'[p] = "done"
  BY <1>1 DEF MealInv, TypeOK, Sound, Course
<1>3. o \in Operations
  BY AskedFor
<1>4. o.kind \in {"update", "delete", "shares", "read", "share", "unshare", "photo"}
  BY <1>3, OperationTypes
<1> HIDE DEF Accepted
<1>5. Course(r)'
  BY <1>2, <1>3, <1>4 DEF Course, Is
<1>6. History(r)'
  <2>1. mine[r] = {}
    BY <1>2 DEF MealInv, Sound, History
  <2> QED BY <1>2, <2>1 DEF History, GroupsOf, User
<1>7. Checked(r)' /\ Seen(r)'
  BY <1>2 DEF Checked, Seen, Beyond, Is
<1>8. Loop(r)'
  <2>1. o.kind = "share" => Left(r)' = Wanted(r)'
    BY <1>2 DEF Left, Wanted
  <2> QED BY <1>2, <2>1 DEF Loop, Is
<1> QED BY <1>5, <1>6, <1>7, <1>8 DEF Sound

LEMMA SelfKept ==
    ASSUME MealInv, NEW r \in Requests, MealStep(r), ~Accepted(r)
    PROVE  Sound(r)'
<1>1. Sound(r) /\ Same(r) /\ Effect(r) /\ Frame(r) /\ Tables(r)
  BY StepSame, StepEffect, StepFrame, StepTables DEF MealInv
<1>2. op[r] \in Operations /\ answer[r] = "none" /\ Target(r)' = Target(r) /\ User(r)' = User(r)
      /\ Person(Target(r))' = Person(Target(r)) /\ Target(r) \in Uploads
  BY <1>1, OperationTypes DEF Sound, Course, Same, Frame, Target, User, Person
<1>3. Course(r)'
  BY <1>1, <1>2 DEF Sound, Course, Same, Effect, Goes, Follows, Ends, Is
<1>4. History(r)'
  <2>1. {q \in Requests : pc[q] = "done"} \subseteq {q \in Requests : pc'[q] = "done"}
    BY <1>1 DEF Frame
  <2>2. GroupsOf(User(r))' = GroupsOf(User(r))
    BY <1>1, <1>2 DEF GroupsOf, Frame
  <2>3. before'[r] = before[r] /\ joined'[r] = joined[r] /\ pc[r] # "idle" /\ pc'[r] # "idle"
        /\ History(r) /\ (mine'[r] = mine[r] \/ mine'[r] = GroupsOf(User(r)))
    BY <1>1 DEF Same, Frame, Sound
  <2> QED BY <2>1, <2>2, <2>3 DEF History
<1>5. Checked(r)'
  <2>1. Wanted(r)' = Wanted(r) /\ (Owned(r) => Owned(r)')
    BY <1>1, <1>2 DEF Wanted, Same, Owned, Frame
  <2> QED BY <1>1, <1>2, <2>1 DEF Sound, Course, Checked, Same, Effect, Goes, Follows, Ends, Is,
          Beyond
<1>6. Loop(r)'
  <2> SUFFICES ASSUME Is(r, "share") PROVE Loop(r)'
    BY <1>1 DEF Loop, Is, Same
  <2>1. Wanted(r)' = Wanted(r) /\ Wanted(r) \subseteq Groups /\ Loop(r) /\ Is(r, "share")'
    BY <1>1, <1>2, OperationTypes DEF Wanted, Same, Is, Sound
  <2>2. r \notin before[r] /\ NoRequest \notin before[r] /\ before'[r] = before[r]
    BY <1>1 DEF MealInv, Sound, History, TypeOK, Same
  <2>3. ASSUME NEW g \in Groups
        PROVE  /\ share[Target(r)][g] # NoRequest => share'[Target(r)][g] # NoRequest
               /\ card[Target(r)][g] # "none" => card'[Target(r)][g] # "none"
               /\ revoked[Target(r)][g] \notin before[r] => revoked'[Target(r)][g] \notin before[r]
    BY <1>1, <1>2, <2>2 DEF Tables
  <2>4. later[r] \in Seq(Groups)
    BY DEF MealInv, TypeOK
  <2>5. CASE later'[r] = later[r]
    <3>1. Left(r)' = Left(r)
      BY <2>5 DEF Left
    <3>2. later[r] # <<>> => Head(later[r]) \in Groups
      BY <2>4, TailElements
    <3> QED BY <1>1, <1>2, <2>1, <2>2, <2>3, <2>5, <3>1, <3>2 DEF Loop, Effect, Goes, Follows,
            Ends, Sound, Course, Is
  <2>6. CASE later'[r] # later[r]
    <3>1. /\ pc[r] \in {"announce", "lookup"} /\ later'[r] = Tail(later[r])
          /\ Follows(r, IF Tail(later[r]) = <<>> THEN "confirm" ELSE "share")
          /\ card'[Target(r)][Head(later[r])] # "none"
      BY <1>1, <2>6 DEF Effect, Goes, Ends
    <3>2. later[r] # <<>> /\ revoked[Target(r)][Head(later[r])] \notin before[r]
      BY <2>1, <3>1 DEF Loop
    <3>3. Head(later[r]) \in Groups /\ Left(r) = {Head(later[r])} \cup Left(r)'
      BY <2>4, <3>1, <3>2, TailElements DEF Left
    <3> QED BY <1>2, <2>1, <2>2, <2>3, <3>1, <3>2, <3>3 DEF Loop, Follows
  <2> QED BY <2>5, <2>6
<1>7. Seen(r)'
  <2> SUFFICES ASSUME op[r].kind \in {"read", "photo"}, answer'[r] = "ok" \/ pc'[r] = "open"
               PROVE  Seen(r)'
    BY <1>1 DEF Seen, Same
  <2>1. NoRequest \notin before[r] /\ r \notin before[r] /\ before'[r] = before[r]
        /\ joined'[r] = joined[r] /\ joined[r] \subseteq Groups /\ mine[r] \subseteq joined[r]
    BY <1>1 DEF MealInv, Sound, History, TypeOK, Same
  <2>2. (pc[r] = "find" /\ Readable(r)) \/ pc[r] = "open"
    BY <1>1, <1>2 DEF Effect, Goes, Follows, Ends, Is, Sound, Course
  <2>3. CASE pc[r] = "open"
    <3>1. Seen(r)
      BY <1>1 DEF Sound
    <3>2. OpenTo(r) \subseteq OpenTo(r)'
      BY <1>1, <1>2, <2>1 DEF OpenTo, Tables
    <3> QED BY <1>1, <1>2, <2>1, <2>3, <3>1, <3>2 DEF Seen, Frame, Tables
  <2>4. CASE pc[r] = "find" /\ Readable(r)
    <3>1. Target(r) \in kept /\ deleted[Target(r)] = NoRequest
          /\ (Person(Target(r)) = User(r) \/ \E g \in mine[r] : IsShared(Target(r), g))
      BY <2>4 DEF Readable, Meals
    <3>2. ASSUME NEW g \in mine[r], IsShared(Target(r), g) PROVE g \in OpenTo(r)'
      BY <1>1, <1>2, <2>1, <3>2 DEF IsShared, OpenTo, Tables
    <3> QED BY <1>1, <1>2, <2>1, <3>1, <3>2 DEF Seen, Frame, Tables
  <2> QED BY <2>2, <2>3, <2>4
<1> QED BY <1>3, <1>4, <1>5, <1>6, <1>7 DEF Sound

\* Once its groups are checked, a share is not refused any more.
LEMMA Later ==
    ASSUME MealInv, NEW r \in Requests, MealStep(r), pc[r] \in Beyond
    PROVE  pc'[r] \in Beyond \cup {"done"} /\ answer'[r] # "refused"
<1>1. ~Accepted(r)
  BY DEF Accepted, Beyond
<1>2. answer[r] = "none"
  BY DEF MealInv, Sound, Course, Beyond
<1> QED BY <1>1, <1>2, StepEffect DEF Effect, Goes, Follows, Ends, Beyond

LEMMA SharesKept ==
    ASSUME MealInv, NEW r \in Requests, MealStep(r)
    PROVE  Shares'
<1> SUFFICES ASSUME NEW m \in Uploads, NEW g \in Groups
    PROVE  /\ card'[m][g] # "none" => share'[m][g] # NoRequest
           /\ share'[m][g] # NoRequest =>
                 /\ m \in kept' /\ User(share[m][g])' = Person(m)'
                 /\ g \in joined'[share'[m][g]] /\ answer'[share'[m][g]] # "refused"
                 /\ pc'[share'[m][g]] \in Beyond \cup {"done"}
  BY DEF Shares
<1> Frame(r) /\ Tables(r) /\ Shares /\ Sound(r) /\ TypeOK
  BY StepFrame, StepTables DEF MealInv
<1>1. share'[m][g] = NoRequest => share[m][g] = NoRequest
  BY DEF Tables
<1>2. card'[m][g] # "none" => share'[m][g] # NoRequest
  <2>1. CASE card'[m][g] = card[m][g]
    BY <1>1, <2>1 DEF Shares
  <2>2. CASE pc[r] = "announce" /\ m = Target(r) /\ g = Head(later[r])
    BY <1>1, <2>2 DEF Sound, Course, Loop, Is
  <2> QED BY <2>1, <2>2 DEF Tables
<1>3. CASE share'[m][g] # r
  <2>1. share'[m][g] = share[m][g]
    BY <1>3 DEF Tables
  <2>2. share[m][g] \in (Requests \ {r}) \cup {NoRequest}
    BY <1>3, <2>1 DEF TypeOK
  <2> QED BY <1>2, <2>1, <2>2 DEF Shares, Frame, User, Person
<1>4. CASE share'[m][g] = r /\ share[m][g] = r
  <2>1. pc[r] \in Beyond
    <3>1. r # NoRequest /\ pc[r] # "done"
      BY DEF Frame
    <3> QED BY <1>4, <3>1 DEF Shares
  <2>2. op'[r] = op[r] /\ joined'[r] = joined[r]
    BY <2>1, StepSame DEF Accepted, Same, Beyond
  <2>3. pc'[r] \in Beyond \cup {"done"} /\ answer'[r] # "refused"
    BY <2>1, <1>4, Later DEF Shares
  <2> QED BY <1>2, <1>4, <2>2, <2>3 DEF Shares, Frame, User, Person
<1>5. CASE share'[m][g] = r /\ share[m][g] # r
  <2>1. pc[r] = "share" /\ m = Target(r) /\ g = Head(later[r])
    BY <1>5 DEF Tables
  <2>2. Is(r, "share") /\ Owned(r) /\ Wanted(r) \subseteq mine[r] /\ Left(r) \subseteq Wanted(r)
        /\ later[r] # <<>> /\ mine[r] \subseteq joined[r]
    BY <2>1 DEF Sound, Course, Checked, Loop, History, Beyond
  <2>3. g \in joined[r]
    BY <2>1, <2>2, TailElements DEF Left, TypeOK
  <2>4. op'[r] = op[r] /\ joined'[r] = joined[r]
    BY <2>1, StepSame DEF Accepted, Same
  <2>5. pc'[r] \in Beyond \cup {"done"} /\ answer'[r] # "refused"
    BY <2>1, Later DEF Beyond
  <2> QED BY <1>2, <1>5, <2>1, <2>2, <2>3, <2>4, <2>5 DEF Owned, Frame, User, Person
<1> QED BY <1>3, <1>4, <1>5

-----------------------------------------------------------------------------
\* Requests of Media, and a restart, while those of Meal stay or end.
LEMMA MediaMeanwhile ==
    ASSUME MealInv, MediaInv',
           \/ RestartAll
           \/ (\E q \in Uploads : MediaStep(q)) /\ UNCHANGED mealVars
    PROVE  MealInv'
<1> USE DEF MealInv, mealVars, RestartAll, requests, sharing, fields
<1>1. kept \subseteq kept' /\ \A m \in kept : wish'[m] = wish[m]
  BY MediaFrame
<1>2. TypeOK'
  BY DEF TypeOK, MediaInv
<1>3. ASSUME NEW r \in Requests PROVE Sound(r)'
  <2> USE DEF Sound
  <2>1. pc'[r] \in {pc[r], "done"} /\ (pc'[r] = "idle" <=> pc[r] = "idle")
        /\ \A p \in Requests : pc[p] = "done" => pc'[p] = "done"
    BY DEF TypeOK
  <2>2. Course(r)' /\ History(r)'
    BY <2>1 DEF Course, History, Is, GroupsOf, User
  <2>3. Checked(r)'
    BY <1>1, <2>1 DEF Checked, Course, Owned, Wanted, Target, User, Person, Is, Beyond
  <2>4. Loop(r)'
    <3>1. Left(r)' = Left(r) /\ Wanted(r)' = Wanted(r)
      BY DEF Left, Wanted
    <3> QED BY <2>1, <3>1 DEF Loop, Target, Is
  <2>5. Seen(r)'
    BY <1>1, <2>1 DEF Seen, OpenTo, Target, User, Person
  <2> QED BY <2>2, <2>3, <2>4, <2>5
<1>4. Shares'
  <2> SUFFICES ASSUME NEW m \in Uploads, NEW g \in Groups, share[m][g] # NoRequest
               PROVE  /\ m \in kept' /\ User(share[m][g])' = Person(m)'
                      /\ g \in joined'[share[m][g]] /\ answer'[share[m][g]] # "refused"
                      /\ pc'[share[m][g]] \in Beyond \cup {"done"}
    BY DEF Shares
  <2>1. share[m][g] \in Requests
    BY DEF TypeOK
  <2>2. pc'[share[m][g]] \in {pc[share[m][g]], "done"} /\ answer' = answer
    BY <2>1 DEF TypeOK
  <2> QED BY <1>1, <2>1, <2>2 DEF Shares, User, Person
<1> QED BY <1>2, <1>3, <1>4

LEMMA LeaveInv ==
    ASSUME MealInv, NEW u \in Users, NEW g \in Groups, Leave(u, g)
    PROVE  MealInv'
<1> USE DEF MealInv, Leave, requests, sharing, fields
<1>1. MediaInv'
  BY MediaStepInv
<1>2. TypeOK'
  BY <1>1 DEF TypeOK, MediaInv
<1>3. ASSUME NEW r \in Requests PROVE Sound(r)'
  <2>1. Course(r)' /\ Checked(r)'
    BY DEF Sound, Course, Checked, Owned, Wanted, Target, User, Person, Is, mediaVars
  <2>2. History(r)'
    BY DEF Sound, History, GroupsOf, User
  <2>3. Loop(r)'
    <3>1. Left(r)' = Left(r) /\ Wanted(r)' = Wanted(r)
      BY DEF Left, Wanted
    <3> QED BY <3>1 DEF Sound, Loop, Target, Is
  <2>4. Seen(r)'
    <3>1. OpenTo(r)' = OpenTo(r)
      BY DEF OpenTo, Target
    <3> QED BY <3>1 DEF Sound, Seen, Target, User, Person, mediaVars
  <2> QED BY <2>1, <2>2, <2>3, <2>4 DEF Sound
<1>4. Shares'
  BY DEF Shares, User, Person, mediaVars
<1> QED BY <1>1, <1>2, <1>3, <1>4

LEMMA DeleteCardInv ==
    ASSUME MealInv, NEW m \in Uploads, NEW g \in Groups, DeleteCard(m, g)
    PROVE  MealInv'
<1> USE DEF MealInv, DeleteCard, requests, fields
<1>1. MediaInv'
  BY MediaStepInv
<1>2. TypeOK'
  BY <1>1 DEF TypeOK, MediaInv
<1>3. \A n \in Uploads, h \in Groups : card'[n][h] = "none" <=> card[n][h] = "none"
  BY DEF TypeOK
<1>4. ASSUME NEW r \in Requests PROVE Sound(r)'
  <2>1. Course(r)' /\ History(r)' /\ Checked(r)' /\ Seen(r)'
    BY DEF Sound, Course, History, GroupsOf, Checked, Seen, Owned, Wanted, Target, User,
       Person, Is, OpenTo, mediaVars
  <2>2. Loop(r)'
    <3> SUFFICES ASSUME Is(r, "share") PROVE Loop(r)'
      BY DEF Loop, Is
    <3>1. Target(r) \in Uploads /\ Wanted(r) \subseteq Groups
      BY OperationTypes DEF Sound, Course, Is, Target, Wanted
    <3>2. Left(r)' = Left(r) /\ Wanted(r)' = Wanted(r)
      BY DEF Left, Wanted
    <3>3. \A h \in Groups : card'[Target(r)][h] = "none" <=> card[Target(r)][h] = "none"
      BY <1>3, <3>1
    <3> HIDE DEF DeleteCard
    <3>4. UNCHANGED <<op, pc, answer, before, later, share, revoked>>
      BY DEF DeleteCard
    <3> QED BY <3>1, <3>2, <3>3, <3>4 DEF Sound, Loop, Is, Target
  <2> QED BY <2>1, <2>2 DEF Sound
<1>5. Shares'
  BY <1>3 DEF Shares, User, Person, mediaVars
<1> QED BY <1>1, <1>2, <1>4, <1>5

LEMMA MealStepInv == MealInv /\ [Next]_vars => MealInv'
<1> SUFFICES ASSUME MealInv, [Next]_vars PROVE MealInv'
  OBVIOUS
<1>1. ASSUME NEW r \in Requests, MealStep(r) PROVE MealInv'
  <2>1. MediaInv'
    <3>1. CASE GoWrong(r)
      BY <3>1, FailureInv DEF GoWrong, MealInv
    <3>2. CASE UNCHANGED mediaVars
      BY <3>2, MediaStepInv DEF MealInv
    <3> QED BY <1>1, <3>1, <3>2, MealHandlers DEF MealStep, Accepted, Own, Update, Delete,
          LookUpGroups, Share, Announce, LookUpCard, Confirm, ListShares, Unshare,
          FindMeal, OpenPhoto
  <2>2. TypeOK'
    BY <1>1, <2>1, MealTypesKept DEF MediaInv
  <2>3. ASSUME NEW p \in Requests PROVE Sound(p)'
    <3>1. CASE p = r
      BY <1>1, <3>1, AcceptedSound, SelfKept
    <3>2. CASE p # r
      BY <1>1, <3>2, OthersKept
    <3> QED BY <3>1, <3>2
  <2>4. Shares'
    BY <1>1, SharesKept
  <2> QED BY <2>1, <2>2, <2>3, <2>4 DEF MealInv
<1>2. ASSUME RestartAll \/ ((\E q \in Uploads : MediaStep(q)) /\ UNCHANGED mealVars)
      PROVE  MealInv'
  <2>1. MediaInv'
    BY <1>2, MediaStepInv DEF RestartAll, MediaNext, MealInv
  <2> QED BY <1>2, <2>1, MediaMeanwhile
<1>3. CASE UNCHANGED vars
  <2> USE <1>3 DEF MealInv, vars, mealVars
  <2>1. MediaInv'
    BY MediaStepInv
  <2>2. TypeOK'
    BY <2>1 DEF TypeOK, MediaInv
  <2>3. ASSUME NEW r \in Requests PROVE Sound(r)'
    <3>1. Left(r)' = Left(r) /\ Wanted(r)' = Wanted(r) /\ OpenTo(r)' = OpenTo(r)
      BY DEF Left, Wanted, OpenTo, Target
    <3>2. Course(r)' /\ History(r)' /\ Checked(r)'
      BY <3>1 DEF Sound, Course, History, GroupsOf, Checked, Owned, Target, User, Person, Is,
         mediaVars
    <3>3. Loop(r)' /\ Seen(r)'
      BY <3>1 DEF Sound, Loop, Seen, Target, User, Person, Is, mediaVars
    <3> QED BY <3>2, <3>3 DEF Sound
  <2>4. Shares'
    BY DEF Shares, User, Person, mediaVars
  <2> QED BY <2>1, <2>2, <2>3, <2>4
<1> QED BY <1>1, <1>2, <1>3, LeaveInv, DeleteCardInv DEF Next

LEMMA MealIsInvariant == Spec => []MealInv
  BY MealStart, MealStepInv, PTL DEF Spec

-----------------------------------------------------------------------------
\* Requests, rows, objects, shares and cards keep their types.
THEOREM MealsAreTyped == Spec => []TypeOK
  BY MealIsInvariant, PTL DEF MealInv

\* Whatever is edited, shared and read meanwhile: rows have their objects ...
THEOREM MealRowsAreBacked == Spec => []PicturesBackRows
  BY MealIsInvariant, PTL DEF MealInv, MediaInv

\* ... and objects without rows an excuse.
THEOREM MealStraysHaveAnExcuse == Spec => []StraysAreExcused
<1>1. MealInv => StraysAreExcused
  BY ExcusedSuffices DEF MealInv
<1> QED BY <1>1, MealIsInvariant, PTL

\* No card without a share, and a share that was answered is whole.
THEOREM SharesAreWhole == Spec => []CardsCanBeOpened
<1>1. MealInv => CardsCanBeOpened
  <2> SUFFICES ASSUME MealInv PROVE CardsCanBeOpened
    OBVIOUS
  <2>1. ASSUME NEW r \in Requests, Is(r, "share"), answer[r] = "ok" PROVE Left(r) = {}
    BY <2>1 DEF MealInv, Sound, Loop, Left
  <2> QED BY <2>1 DEF MealInv, CardsCanBeOpened, Shares, Sound, Loop
<1> QED BY <1>1, MealIsInvariant, PTL

\* A meal is shared and seen only by those it is for.
THEOREM StrangersStayOut == Spec => []OutsidersNeitherShareNorSee
<1>1. MealInv => OutsidersNeitherShareNorSee
  BY DEF MealInv, OutsidersNeitherShareNorSee, Shares, Sound, Seen
<1> QED BY <1>1, MealIsInvariant, PTL
=============================================================================

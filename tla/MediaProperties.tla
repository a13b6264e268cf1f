---------------------------- MODULE MediaProperties ----------------------------
(***************************************************************************)
(* What ties the objects in storage to the rows that name them, stated     *)
(* over the variables of Media.                                            *)
(***************************************************************************)
EXTENDS Media

PicturesTypeOK ==
    /\ wish \in [Uploads -> Wishes \cup {NoWish}]
    /\ step \in [Uploads -> {"idle", "upload", "write", "lock", "commit", "tidy",
                             "sweep", "find", "open", "done"}]
    /\ reply \in [Uploads -> {"none", "ok", "error", "missing", "gone"}]
    /\ held \in [Uploads -> SUBSET (1..MaxPhotos)]
    /\ objects \in SUBSET (Uploads \X (1..MaxPhotos))
    /\ kept \in SUBSET Uploads
    /\ avatar \in [Users -> Uploads \cup {NoUpload}]
    /\ locked \in SUBSET Uploads
    /\ prior \in [Uploads -> Uploads \cup {NoUpload}]
    /\ doubtful \in SUBSET Uploads
    /\ strays \in SUBSET (Uploads \X (1..MaxPhotos))
    /\ failures \in 0..MaxFailures

\* "A meal without its photos must never appear": what a committed row names is
\* in storage, unless the COMMIT was reported to the API as failed; so a picture
\* that was found and could not be opened is such a row's, or an avatar that was
\* replaced between the two.
PicturesBackRows ==
    /\ \A q \in kept \ doubtful : \A i \in Photos(q) : <<q, i>> \in objects
    /\ \A u \in Users :
          avatar[u] \notin doubtful \cup {NoUpload} => <<avatar[u], 1>> \in objects
    /\ \A q \in Uploads : reply[q] = "gone" =>
          wish[q].picture \in doubtful \/ ~Named(wish[q].picture)

\* "Two uploads racing each other would otherwise [...] leave the loser's upload
\* unreferenced in storage forever": an object no row names is about to be
\* removed, unless a failed call or a restart left it to the cleanup script.
StraysAreExcused ==
    \A x \in objects :
       \/ Named(x[1])
       \/ Running(x[1]) /\ x[2] \in held[x[1]]
       \/ \E q \in Uploads : step[q] = "tidy" /\ prior[q] = x[1]
       \/ x \in strays
=============================================================================

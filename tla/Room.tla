--------------------------------- MODULE Room ---------------------------------
(***************************************************************************)
(* An open chat room in the browser (components/chat-room.tsx): the list   *)
(* of messages, put together from the first page of history, the socket,   *)
(* the page fetched after each reconnect, earlier pages and the answers to *)
(* the reader's own sends, which overlap in every way.                     *)
(*                                                                         *)
(* What is set is rendered later, and callbacks read what was rendered.    *)
(*                                                                         *)
(* A message is its position in the order of the server, which is taken to *)
(* broadcast in that order.  What a message says is left out.              *)
(***************************************************************************)
EXTENDS Naturals, Sequences, FiniteSets, SequencesExt

CONSTANTS
    Kinds,         \* text, sticker and picture
    PageSize,
    MaxTries,      \* maxReconnectAttempts
    AtFirst,       \* messages stored when the room is opened
    MaxMessages,   \* bound on what is stored
    MaxSends,      \* bound on the client ids handed out
    MaxFaults      \* bound on closed sockets and failed requests

ASSUME RoomAssumption ==
    /\ Kinds \subseteq {"text", "sticker", "picture"}
    /\ PageSize \in Nat \ {0} /\ MaxTries \in Nat \ {0}
    /\ AtFirst \in Nat /\ MaxMessages \in Nat /\ MaxSends \in Nat /\ MaxFaults \in Nat

VARIABLES
    stored,        \* the group's messages: client ids of this room, 0 for others
    wire,          \* what the hub and the socket still have for this room
    conn,          \* dialing, subscribed, open, down or over
    redial,        \* isReconnect
    tries,         \* failures in a row
    list,          \* the messages on screen, once what was set is rendered
    before,        \* the cursor of "load earlier", 0 when there is none
    epoch,
    rendered,      \* held, and the cursor and loadingMore of the button on screen
    first,         \* the fetch of the first page
    fill,          \* the fetch after a reconnect, with its snapshot
    again,         \* backfillAgain
    earlier,       \* the fetch of an earlier page
    sending,       \* the send that is waited for
    pending,       \* pending[k]: the client id a retry would use
    posting,       \* ids the server may still be handed
    ids,           \* client ids handed out
    meant,         \* history: messages the reader meant to send
    excused,       \* history: messages known to be out of reach
    faults

socket == <<wire, conn, redial, tries>>
shown == <<list, before, epoch, rendered>>
fetches == <<first, fill, again, earlier>>
sends == <<sending, pending, posting, ids, meant>>
vars == <<stored, socket, shown, fetches, sends, excused, faults>>

NoSend == [kind |-> "none", id |-> 0]
Idle == [state |-> "idle"]

Fault == faults < MaxFaults /\ faults' = faults + 1

\* merge: what is known already is dropped, where it came from decides the place.
Fresh(current, incoming) ==
    LET fresh[n \in 0..Len(incoming)] ==
            IF n = 0 THEN <<>>
            ELSE IF incoming[n] \in ToSet(current) THEN fresh[n - 1]
            ELSE Append(fresh[n - 1], incoming[n])
    IN  fresh[Len(incoming)]
Older(current, incoming) == Fresh(current, incoming) \o current
Newer(current, incoming) == current \o Fresh(current, incoming)

\* The page of history that ends at a message, and its cursor.
Oldest(top) == IF top > PageSize THEN top - PageSize + 1 ELSE 1
Page(top) == [i \in 1..(top + 1 - Oldest(top)) |-> Oldest(top) + i - 1]
Cursor(top) == IF top > PageSize THEN Oldest(top) ELSE 0

\* Neither shown, nor on its way, nor before the cursor.
Missing(messages, cursor) ==
    {m \in 1..Len(stored) :
        m \notin ToSet(messages) \cup ToSet(wire) /\ ~(cursor # 0 /\ m < cursor)}
Gap == Missing(list, before)

Init ==
    /\ stored = [i \in 1..AtFirst |-> 0]
    /\ wire = <<>> /\ conn = "dialing" /\ redial = FALSE /\ tries = 0
    /\ list = <<>> /\ before = 0 /\ epoch = 0
    /\ rendered = [list |-> <<>>, before |-> 0, loading |-> FALSE]
    /\ first = [state |-> "asked", top |-> 0, overtaken |-> FALSE]
    /\ fill = Idle /\ again = FALSE /\ earlier = Idle
    /\ sending = NoSend /\ pending = [k \in Kinds |-> 0]
    /\ posting = {} /\ ids = 0 /\ meant = 0
    /\ excused = {} /\ faults = 0

-----------------------------------------------------------------------------
(***************************************************************************)
(* The server, as far as the room sees it.                                 *)
(***************************************************************************)
Store(who) ==
    /\ Len(stored) < MaxMessages
    /\ stored' = Append(stored, who)
    /\ wire' = IF conn \in {"subscribed", "open"} THEN Append(wire, Len(stored'))
               ELSE wire

OthersSay ==
    /\ Store(0)
    /\ UNCHANGED <<conn, redial, tries, shown, fetches, sends, excused, faults>>

\* A post that arrives is stored unless its client id is known, be it late and
\* nobody waiting any more.
TakePost(id) ==
    /\ id \in posting
    /\ posting' = posting \ {id}
    /\ IF id \in ToSet(stored) THEN UNCHANGED <<stored, wire>> ELSE Store(id)
    /\ UNCHANGED <<conn, redial, tries, shown, fetches, sending, pending, ids,
                   meant, excused, faults>>

\* The handshake subscribes before it is accepted.  On the first dial, nothing
\* will fetch what was said between the first page and this.
Subscribe ==
    /\ conn = "dialing"
    /\ conn' = "subscribed"
    /\ excused' = IF redial \/ first.state = "asked" THEN excused
                  ELSE excused \cup {m \in Gap : m > first.top}
    /\ UNCHANGED <<stored, wire, redial, tries, shown, fetches, sends, faults>>

-----------------------------------------------------------------------------
(***************************************************************************)
(* The socket.                                                             *)
(***************************************************************************)
\* loadLatest("reconnect") takes its snapshot at once, of what is held of the
\* messages.
Snapshot(held, messages) ==
    [state |-> "asked", had |-> ToSet(held), top |-> 0, stale |-> held # messages,
     anchor |-> IF held = <<>> THEN 0 ELSE Last(held)]

\* A hole before something newer that is shown is nothing a snapshot can tell.
Buried(messages, cursor) ==
    {m \in Missing(messages, cursor) : \E n \in ToSet(messages) : n > m}

\* A backfill that starts while the first page is still out has overtaken it.
Overtake == [first EXCEPT !.overtaken = @ \/ first.state \notin {"done", "failed"}]

\* onopen.
Opened ==
    /\ conn = "subscribed"
    /\ conn' = "open" /\ tries' = 0
    /\ IF ~redial THEN UNCHANGED <<first, fill, again, excused>>
       ELSE IF fill = Idle
       THEN /\ fill' = Snapshot(rendered.list, list) /\ first' = Overtake
            /\ excused' = excused \cup Buried(list, before)
            /\ UNCHANGED again
       ELSE again' = TRUE /\ UNCHANGED <<first, fill, excused>>
    /\ UNCHANGED <<stored, wire, redial, shown, earlier, sends, faults>>

\* onmessage, which does not wait for a render to hold the message.
Receive ==
    /\ conn = "open" /\ wire # <<>>
    /\ list' = Newer(list, <<Head(wire)>>)
    /\ rendered' = [rendered EXCEPT !.list = Newer(@, <<Head(wire)>>)]
    /\ wire' = Tail(wire)
    /\ UNCHANGED <<stored, conn, redial, tries, before, epoch, fetches, sends,
                   excused, faults>>

\* onclose, with the events that were on their way lost.
Closed ==
    /\ conn \in {"dialing", "subscribed", "open"}
    /\ Fault
    /\ tries' = tries + 1
    /\ conn' = IF tries' >= MaxTries THEN "over" ELSE "down"
    /\ wire' = <<>>
    /\ UNCHANGED <<stored, redial, shown, fetches, sends, excused>>

Redial ==
    /\ conn = "down"
    /\ conn' = "dialing" /\ redial' = TRUE
    /\ UNCHANGED <<stored, wire, tries, shown, fetches, sends, excused, faults>>

\* React renders what was set, and the effects of the render run.
Render ==
    /\ rendered' = [list |-> list, before |-> before, loading |-> earlier # Idle]
    /\ rendered' # rendered
    /\ UNCHANGED <<stored, socket, list, before, epoch, fetches, sends, excused, faults>>

-----------------------------------------------------------------------------
(***************************************************************************)
(* Pages.                                                                  *)
(***************************************************************************)
ServeFirst ==
    /\ first.state = "asked"
    /\ first' = [first EXCEPT !.state = "served", !.top = Len(stored)]
    /\ UNCHANGED <<stored, socket, shown, fill, again, earlier, sends, excused, faults>>

\* What was set and is not held yet, such as the answer to a send, is overwritten.
FirstArrives ==
    /\ first.state = "served"
    /\ first' = [first EXCEPT !.state = "done"]
    /\ list' = Older(rendered.list, Page(first.top))
    /\ before' = Cursor(first.top)
    /\ excused' = excused \cup (ToSet(list) \ ToSet(list'))
    /\ UNCHANGED <<stored, socket, epoch, rendered, fill, again, earlier, sends, faults>>

\* The room says that reading failed; what it has not been shown is out of reach.
FirstFails ==
    /\ first.state \in {"asked", "served"}
    /\ Fault
    /\ first' = [first EXCEPT !.state = "failed", !.top = 0]
    /\ excused' = excused \cup Gap
    /\ UNCHANGED <<stored, socket, shown, fill, again, earlier, sends>>

ServeFill ==
    /\ fill # Idle /\ fill.state = "asked"
    /\ fill' = [fill EXCEPT !.state = "served", !.top = Len(stored)]
    /\ UNCHANGED <<stored, socket, shown, first, again, earlier, sends, excused, faults>>

Overlaps == fill.had = {} \/ fill.had \cap ToSet(Page(fill.top)) # {}

\* What came after the last message of the snapshot.
ArrivedSince ==
    LET place == {i \in 1..Len(list) : list[i] = fill.anchor}
    IN  IF place = {} THEN <<>>
        ELSE SubSeq(list, (CHOOSE i \in place : TRUE) + 1, Len(list))

\* The epoch and the cursor left as they were, as by merging.
Bridge ==
    /\ list' = Newer(list, Page(fill.top))
    /\ before' = IF before = 0 THEN Cursor(fill.top) ELSE before
    /\ UNCHANGED epoch

\* The list starts again from the page.
StartAgain ==
    /\ list' = Newer(Page(fill.top), ArrivedSince)
    /\ before' = Cursor(fill.top)
    /\ epoch' = epoch + 1

\* finally: one more pass if a reconnect asked for it meanwhile, after this page
\* is rendered or before.  Before, its snapshot misses the page, and a restart may
\* miss its anchor and drop what arrived since.
FillEnds ==
    /\ IF again
       THEN /\ \E held \in {list', rendered.list} : fill' = Snapshot(held, list')
            /\ first' = Overtake
            /\ again' = FALSE
       ELSE fill' = Idle /\ UNCHANGED <<first, again>>
    /\ excused' = excused \cup
          (IF fill.stale THEN Missing(list', before') ELSE {}) \cup
          (IF again THEN Buried(list', before') ELSE {})

FillArrives ==
    /\ fill # Idle /\ fill.state = "served"
    /\ IF Overlaps THEN Bridge ELSE StartAgain
    /\ FillEnds
    /\ UNCHANGED <<stored, socket, rendered, earlier, sends, faults>>

FillFails ==
    /\ fill # Idle
    /\ Fault
    /\ IF again
       THEN /\ fill' = Snapshot(rendered.list, list) /\ first' = Overtake /\ again' = FALSE
            /\ excused' = excused \cup Buried(list, before)
       ELSE fill' = Idle /\ excused' = excused \cup Gap /\ UNCHANGED <<first, again>>
    /\ UNCHANGED <<stored, socket, shown, earlier, sends>>

\* handleLoadEarlier.  The button that is on screen has the cursor of its render
\* and is disabled while that is loading; the epoch is of now.
LoadEarlier ==
    /\ rendered.before # 0 /\ ~rendered.loading
    /\ earlier' = [state |-> "asked", top |-> rendered.before - 1, requestedAt |-> epoch,
                   stale |-> rendered.before # before]
    /\ rendered' = [rendered EXCEPT !.loading = TRUE]
    /\ UNCHANGED <<stored, socket, list, before, epoch, first, fill, again, sends, excused, faults>>

\* A page from before a restart, merged all the same.
BuggyCurrent == TRUE

Current == earlier.requestedAt = epoch

EarlierArrives ==
    /\ earlier # Idle
    /\ earlier' = Idle
    /\ IF Current THEN /\ list' = Older(list, Page(earlier.top))
                       /\ before' = Cursor(earlier.top)
       ELSE UNCHANGED <<list, before>>
    /\ excused' = excused \cup
          (IF Current /\ earlier.stale THEN Missing(list', before') ELSE {})
    /\ UNCHANGED <<stored, socket, epoch, rendered, first, fill, again, sends, faults>>

EarlierFails ==
    /\ earlier # Idle
    /\ Fault
    /\ earlier' = Idle
    /\ UNCHANGED <<stored, socket, shown, first, fill, again, sends, excused>>

-----------------------------------------------------------------------------
(***************************************************************************)
(* Sending: one thing at a time.                                           *)
(***************************************************************************)
\* Every attempt under an id of its own.
BuggyKey(k) == ids + 1

\* The id of the attempt that failed, if this is the same thing again.
Key(k) == pending[k]

Post(k, id) ==
    /\ sending' = [kind |-> k, id |-> id]
    /\ pending' = [pending EXCEPT ![k] = id]
    /\ posting' = posting \cup {id}
    /\ ids' = IF id > ids THEN id ELSE ids
    /\ ids' <= MaxSends

\* A text or a sticker, not the one that has just failed.
Send(k) ==
    /\ k # "picture" /\ sending = NoSend
    /\ Post(k, ids + 1)
    /\ meant' = meant + 1
    /\ UNCHANGED <<stored, socket, shown, fetches, excused, faults>>

\* The same draft, the same sticker, or handleRetryAttachment.
Retry(k) ==
    /\ pending[k] # 0 /\ sending = NoSend
    /\ Post(k, Key(k))
    /\ UNCHANGED <<stored, socket, shown, fetches, meant, excused, faults>>

\* handleAttach uploads before it posts.
Attach ==
    /\ "picture" \in Kinds /\ sending = NoSend
    /\ sending' = [kind |-> "picture", id |-> 0]
    /\ UNCHANGED <<stored, socket, shown, fetches, pending, posting, ids, meant,
                   excused, faults>>

Uploaded ==
    /\ sending = [kind |-> "picture", id |-> 0]
    /\ Post("picture", ids + 1)
    /\ meant' = meant + 1
    /\ UNCHANGED <<stored, socket, shown, fetches, excused, faults>>

\* settleSend: the answer shows the message, wherever the socket is.
Sent ==
    /\ sending.id \in ToSet(stored) /\ sending.id \notin posting \cup {0}
    /\ list' = Newer(list, <<CHOOSE m \in 1..Len(stored) : stored[m] = sending.id>>)
    /\ pending' = [pending EXCEPT ![sending.kind] = 0]
    /\ sending' = NoSend
    /\ UNCHANGED <<stored, socket, before, epoch, rendered, fetches, posting, ids, meant,
                   excused, faults>>

\* Nothing came back, which says nothing of the message.
SendFails ==
    /\ sending # NoSend
    /\ Fault
    /\ sending' = NoSend
    /\ UNCHANGED <<stored, socket, shown, fetches, pending, posting, ids, meant, excused>>

-----------------------------------------------------------------------------
Next ==
    \/ OthersSay \/ Subscribe \/ Opened \/ Receive \/ Closed \/ Redial
    \/ Render
    \/ ServeFirst \/ FirstArrives \/ FirstFails
    \/ ServeFill \/ FillArrives \/ FillFails
    \/ LoadEarlier \/ EarlierArrives \/ EarlierFails
    \/ Attach \/ Uploaded \/ Sent \/ SendFails
    \/ \E k \in Kinds : Send(k) \/ Retry(k)
    \/ \E id \in posting : TakePost(id)

Spec == Init /\ [][Next]_vars
=============================================================================

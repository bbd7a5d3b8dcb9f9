-------------------------------- MODULE Chat --------------------------------
(***************************************************************************)
(* The chat of one pairing as one of its two people sees it: the thread    *)
(* the server keeps (backend/lib/chat.js, routes/volunteer.js and the tick *)
(* of lib/lifecycle.js) and the screen that polls it with a cursor         *)
(* (mobile/screens/ChatScreen.js).  The timer and every send start a poll  *)
(* whether or not others are running; calls and replies overtake each      *)
(* other and get lost.                                                     *)
(*                                                                         *)
(* Abstractions: a message is whom it is for; the check for contact        *)
(* details refuses a text like a closed chat does; a shift runs through    *)
(* as many stretches as it has conversation starters.                      *)
(***************************************************************************)
EXTENDS Integers, Sequences, SequencesExt

CONSTANTS
    Call,           \* bound: calls of the screen in flight
    MaxMessages     \* bound: messages of the thread

STARTERS_PER_SHIFT == 3
NoCall == [kind |-> "none", after |-> 0, upTo |-> 0]
ASSUME ChatAssumption == MaxMessages \in Nat

VARIABLES
    chat,       \* pairings.status of this pairing
    apart,      \* one of the two has reported the other
    stretch,    \* of the shift: 0 before, then 1 .. STARTERS_PER_SHIFT, then over
    starters,   \* starters_sent
    thread,     \* messages, by id: for whom each is
    calls,      \* GET and POST calls of the screen in flight
    lastId,     \* the cursor of the screen
    shown       \* ids in the list of the screen

chatVars == <<chat, apart, stretch, starters, thread, calls, lastId, shown>>

Visible == {m \in DOMAIN thread : thread[m] \in {"both", "me"}}
HasRoomFor(n) == Len(thread) + n <= MaxMessages
Fetched(c) == {m \in Visible : c.after < m /\ m <= c.upTo}

-----------------------------------------------------------------------------
ChatInit ==
    /\ chat = "proposed" /\ apart = FALSE /\ stretch = 0 /\ starters = 0
    /\ thread = <<>> /\ calls = [c \in Call |-> NoCall] /\ lastId = 0 /\ shown = {}

(* The pairing is confirmed, with the two introductions (sendIntros).      *)
Introduced ==
    /\ chat = "proposed" /\ HasRoomFor(2) /\ chat' = "confirmed"
    /\ thread' = thread \o <<"me", "them">>
    /\ UNCHANGED <<apart, stretch, starters, calls, lastId, shown>>

(* One of the two cancels; the other is told in the chat                   *)
(* (partnerBackedOut).                                                     *)
BackedOut ==
    /\ chat = "confirmed" /\ HasRoomFor(1) /\ chat' = "cancelled"
    /\ \E whom \in {"me", "them"} : thread' = Append(thread, whom)
    /\ UNCHANGED <<apart, stretch, starters, calls, lastId, shown>>
Reported ==
    /\ apart' = TRUE /\ UNCHANGED <<chat, stretch, starters, thread, calls, lastId, shown>>
ShiftGoesOn ==
    /\ chat = "confirmed" /\ stretch <= STARTERS_PER_SHIFT /\ stretch' = stretch + 1
    /\ UNCHANGED <<chat, apart, starters, thread, calls, lastId, shown>>
Completed ==
    /\ chat = "confirmed" /\ stretch > STARTERS_PER_SHIFT /\ chat' = "completed"
    /\ UNCHANGED <<apart, stretch, starters, thread, calls, lastId, shown>>

(* The tick's loop over the starters that are due; the server may stop     *)
(* after some of them, before it has counted them.                         *)
StartersDue ==
    IF chat = "confirmed" /\ ~apart /\ stretch \in 1 .. STARTERS_PER_SHIFT
    THEN stretch - starters ELSE 0
WithStarters(n) == thread \o [i \in 1 .. n |-> "both"]
Tick ==
    /\ StartersDue > 0 /\ HasRoomFor(StartersDue)
    /\ \/ thread' = WithStarters(StartersDue) /\ starters' = stretch
       \/ /\ \E n \in 1 .. StartersDue : thread' = WithStarters(n)
          /\ starters' = starters
    /\ UNCHANGED <<chat, apart, stretch, calls, lastId, shown>>

(* POST /messages of the other person.                                     *)
Writable == chat \in {"confirmed", "completed"} /\ ~apart
TheyWrite ==
    /\ Writable /\ HasRoomFor(1) /\ thread' = Append(thread, "both")
    /\ UNCHANGED <<chat, apart, stretch, starters, calls, lastId, shown>>

-----------------------------------------------------------------------------
Start(c, call) == calls[c] = NoCall /\ calls' = [calls EXCEPT ![c] = call]
PollCall == [kind |-> "poll", after |-> lastId, upTo |-> 0]

(* The timer of the screen.                                                *)
Poll(c) ==
    /\ Start(c, PollCall)
    /\ UNCHANGED <<chat, apart, stretch, starters, thread, lastId, shown>>
Send(c) ==
    /\ Writable /\ Start(c, [NoCall EXCEPT !.kind = "post"])
    /\ UNCHANGED <<chat, apart, stretch, starters, thread, lastId, shown>>

(* GET /messages, which ticks first, and its reply.                        *)
ServePoll(c) ==
    /\ calls[c].kind = "poll" /\ StartersDue = 0
    /\ calls' = [calls EXCEPT ![c].kind = "messages", ![c].upTo = Len(thread)]
    /\ UNCHANGED <<chat, apart, stretch, starters, thread, lastId, shown>>
PollReply(c) ==
    LET new == Fetched(calls[c])
    IN  /\ calls[c].kind = "messages" /\ calls' = [calls EXCEPT ![c] = NoCall]
        /\ shown' = shown \cup new
        /\ lastId' = IF new = {} THEN lastId ELSE CHOOSE m \in new : \A k \in new : k <= m
        /\ UNCHANGED <<chat, apart, stretch, starters, thread>>

(* POST /messages, and its reply, which polls.                             *)
ServePost(c) ==
    /\ calls[c].kind = "post" /\ Writable /\ HasRoomFor(1)
    /\ thread' = Append(thread, "both")
    /\ calls' = [calls EXCEPT ![c].kind = "posted", ![c].upTo = Len(thread')]
    /\ UNCHANGED <<chat, apart, stretch, starters, lastId, shown>>
(* Mutant: the cursor is put after the user's own message. *)
CursorAtOwn(c) == calls[c].upTo
CursorAfterPost(c) == lastId
PostReply(c) ==
    /\ calls[c].kind = "posted" /\ lastId' = CursorAfterPost(c)
    /\ calls' = [calls EXCEPT ![c] = [PollCall EXCEPT !.after = lastId']]
    /\ UNCHANGED <<chat, apart, stretch, starters, thread, shown>>

(* A call, its answer or a refused text is an error of the screen.         *)
Fails(c) ==
    /\ calls[c] # NoCall /\ calls' = [calls EXCEPT ![c] = NoCall]
    /\ UNCHANGED <<chat, apart, stretch, starters, thread, lastId, shown>>

(* The screen is left and opened again.                                    *)
Reopen ==
    /\ calls' = [c \in Call |-> NoCall] /\ lastId' = 0 /\ shown' = {}
    /\ UNCHANGED <<chat, apart, stretch, starters, thread>>

ChatNext ==
    \/ Introduced \/ BackedOut \/ Reported \/ ShiftGoesOn \/ Completed \/ Tick
    \/ TheyWrite \/ Reopen
    \/ \E c \in Call : \/ Poll(c) \/ Send(c) \/ ServePoll(c) \/ PollReply(c)
                       \/ ServePost(c) \/ PostReply(c) \/ Fails(c)
ChatSpec == ChatInit /\ [][ChatNext]_chatVars

-----------------------------------------------------------------------------
ChatTypeOK ==
    /\ chat \in {"proposed", "confirmed", "cancelled", "completed"} /\ apart \in BOOLEAN
    /\ stretch \in 0 .. STARTERS_PER_SHIFT + 1 /\ starters \in 0 .. STARTERS_PER_SHIFT
    /\ thread \in BoundedSeq({"both", "me", "them"}, MaxMessages)
    /\ calls \in [Call -> [kind : {"none", "poll", "messages", "post", "posted"},
                           after : 0 .. MaxMessages, upTo : 0 .. MaxMessages]]
    /\ lastId \in 0 .. MaxMessages /\ shown \subseteq 1 .. MaxMessages

(* The list never has a hole: whatever overtakes what, a message on the    *)
(* screen has every earlier message for this person before it, and the     *)
(* cursor has passed none that is not shown.                               *)
NothingSkipped ==
    \A m \in Visible : (m <= lastId \/ \E k \in shown : m < k) => m \in shown
=============================================================================

--------------------------- MODULE ThoughtStream ---------------------------
(***************************************************************************)
(* The thoughts that agents emit and dashboards follow (agents/stream.py): *)
(* a ring buffer of the last events, and one bounded queue per subscriber, *)
(* who is sent the buffer first and then what its queue receives.  Events  *)
(* are numbered.  Code between two awaits or yields is one step.           *)
(***************************************************************************)
EXTENDS Naturals, SequencesExt

CONSTANTS Clients, BufferSize, QueueSize, MaxEvents

VARIABLES
    emitted,   \* events emitted so far
    buffer,    \* _thought_buffer
    at,        \* where each subscribe() generator is suspended
    replay,    \* the rest of the copy of the buffer it replays
    queue,     \* its queue
    listed,    \* the generators whose queue is in _subscribers
    sent,      \* what its client has received
    gap        \* its queue was full when an event came

vars == <<emitted, buffer, at, replay, queue, listed, sent, gap>>

TypeOK ==
    /\ emitted \in 0 .. MaxEvents /\ Len(buffer) =< BufferSize
    /\ at \in [Clients -> {"away", "replaying", "waiting", "gone"}]
    /\ \A c \in Clients : Len(queue[c]) =< QueueSize /\ Len(replay[c]) =< BufferSize
    /\ listed \subseteq Clients /\ gap \in [Clients -> BOOLEAN]

Init ==
    /\ emitted = 0 /\ buffer = <<>>
    /\ at = [c \in Clients |-> "away"] /\ listed = {}
    /\ replay = [c \in Clients |-> <<>>] /\ queue = [c \in Clients |-> <<>>]
    /\ sent = [c \in Clients |-> <<>>] /\ gap = [c \in Clients |-> FALSE]

Room(c) == Len(queue[c]) < QueueSize

Kept(s) == IF Len(s) > BufferSize THEN Tail(s) ELSE s

Emit ==
    /\ emitted < MaxEvents /\ emitted' = emitted + 1
    /\ buffer' = Kept(Append(buffer, emitted'))
    /\ queue' = [c \in Clients |-> IF c \in listed /\ Room(c)
                                   THEN Append(queue[c], emitted') ELSE queue[c]]
    /\ gap' = [c \in Clients |-> gap[c] \/ (c \in listed /\ ~Room(c))]
    /\ UNCHANGED <<at, replay, listed, sent>>

Clear ==
    /\ buffer' = <<>>
    /\ UNCHANGED <<emitted, at, replay, queue, listed, sent, gap>>

\* Sends the next of s, and waits for the queue once the copy is used up.
Yields(c, s) ==
    IF s = <<>>
    THEN /\ at' = [at EXCEPT ![c] = "waiting"]
         /\ UNCHANGED <<replay, sent>>
    ELSE /\ at' = [at EXCEPT ![c] = "replaying"]
         /\ replay' = [replay EXCEPT ![c] = Tail(s)]
         /\ sent' = [sent EXCEPT ![c] = Append(@, Head(s))]

\* Mutant: the queue is listed only when the history has been replayed.
X_Subscribe(c) ==
    /\ at[c] \in {"away", "waiting"} /\ c \notin listed
    /\ IF at[c] = "away" THEN Yields(c, buffer) /\ UNCHANGED listed
                         ELSE listed' = listed \cup {c} /\ UNCHANGED <<at, replay, sent>>
    /\ UNCHANGED <<emitted, buffer, queue, gap>>

\* The first step: the queue is listed and the buffer copied.
Subscribe(c) ==
    /\ at[c] = "away"
    /\ listed' = listed \cup {c} /\ Yields(c, buffer)
    /\ UNCHANGED <<emitted, buffer, queue, gap>>

Replays(c) ==
    /\ at[c] = "replaying" /\ Yields(c, replay[c])
    /\ UNCHANGED <<emitted, buffer, queue, listed, gap>>

Receives(c) ==
    /\ at[c] = "waiting" /\ queue[c] # <<>>
    /\ sent' = [sent EXCEPT ![c] = Append(@, Head(queue[c]))]
    /\ queue' = [queue EXCEPT ![c] = Tail(@)]
    /\ UNCHANGED <<emitted, buffer, at, replay, listed, gap>>

\* The heartbeat after 30 quiet seconds ends the generator; so does a client
\* that leaves.  Only the wait for the queue is inside the try that unlists it.
Leaves(c) ==
    /\ at[c] \in {"replaying", "waiting"}
    /\ at' = [at EXCEPT ![c] = "gone"]
    /\ listed' = IF at[c] = "waiting" THEN listed \ {c} ELSE listed
    /\ UNCHANGED <<emitted, buffer, replay, queue, sent, gap>>

Next ==
    \/ Emit \/ Clear
    \/ \E c \in Clients : Subscribe(c) \/ Replays(c) \/ Receives(c) \/ Leaves(c)

Spec == Init /\ [][Next]_vars

-----------------------------------------------------------------------------
Consecutive(s) == \A i \in 1 .. Len(s) - 1 : s[i + 1] = s[i] + 1
Ascending(s)   == \A i \in 1 .. Len(s) - 1 : s[i] < s[i + 1]

(* What a subscriber was sent, is being replayed and has queued is, in that *)
(* order, every event from the first one it was shown on: none twice, none  *)
(* out of order, and none missing before its queue first overflows; and as  *)
(* long as it listens, the last event is among them (subscribe, emit).      *)
StreamIsSeamless ==
    \A c \in Clients :
        LET due == sent[c] \o replay[c] \o queue[c]
        IN  /\ Ascending(due)
            /\ at[c] \in {"replaying", "waiting"} /\ ~gap[c] =>
                /\ Consecutive(due)
                /\ due # <<>> => Last(due) = emitted
=============================================================================

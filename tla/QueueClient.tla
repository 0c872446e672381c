----------------------------- MODULE QueueClient ----------------------------
(***************************************************************************)
(* RedisQueueClient.PopUsage: one destructive pop of the CPA usage queue,  *)
(* over the Redis protocol or over HTTP.  The transport is chosen by the   *)
(* first success and kept; HTTP is tried only when the Redis attempt has   *)
(* provably not reached its LPOP (cpa/redis_queue_client.go,               *)
(* cpa/client.go FetchUsageQueue, docs/adr/0008).                          *)
(*                                                                         *)
(* The server executes a command it has received at any later time, also   *)
(* after the client has given up on it.  Messages are numbered in queue    *)
(* order: the queue is popped+1 .. arrived.                                *)
(***************************************************************************)
EXTENDS Naturals, FiniteSets

CONSTANTS
    MaxMessages,   \* bound: messages the producer ever queues
    PopBatch,      \* batchSize
    Callers,       \* concurrent calls of PopUsage
    MaxLate,       \* bound: commands in flight that nobody waits for
    CanFallback    \* canFallbackToHTTP: a base URL is configured

Messages == 1 .. MaxMessages
NoBatch  == [from |-> 1, to |-> 0]
None     == "none"

ASSUME QueueClientAssumption ==
    /\ MaxMessages \in Nat
    /\ PopBatch \in Nat \ {0}
    /\ MaxLate \in Nat
    /\ CanFallback \in BOOLEAN
    /\ None \notin Callers

VARIABLES
    arrived, popped,   \* the queue
    late,       \* commands sent by calls that have returned an error since
    mode,       \* syncMode: not set, "redis" or "http"
    lock,       \* the caller that holds the mutex
    pc,         \* what each caller does next
    reply,      \* the messages the server has removed for a caller
    issued,     \* destructive commands of a caller's current call
    returned,   \* messages returned by successful calls
    errored     \* messages removed for calls that returned an error

queueVars == <<arrived, popped, late>>
popVars   == <<arrived, popped, late, mode, lock, pc, reply, issued, returned,
               errored>>

PC == {"idle", "wait", "connect", "lpop", "sent", "reply",
       "get", "httpSent", "httpReply"}

Batch(b) == b.from .. b.to

PopTypeOK ==
    /\ arrived \in 0 .. MaxMessages
    /\ popped \in 0 .. MaxMessages
    /\ late \in 0 .. MaxLate
    /\ mode \in {"unset", "redis", "http"}
    /\ lock \in Callers \cup {None}
    /\ pc \in [Callers -> PC]
    /\ reply \in [Callers -> [from : Nat, to : Nat]]
    /\ issued \in [Callers -> 0 .. 2]
    /\ returned \subseteq Messages
    /\ errored \subseteq Messages

PopInit ==
    /\ arrived = 0
    /\ popped = 0
    /\ late = 0
    /\ mode = "unset"
    /\ lock = None
    /\ pc = [c \in Callers |-> "idle"]
    /\ reply = [c \in Callers |-> NoBatch]
    /\ issued = [c \in Callers |-> 0]
    /\ returned = {}
    /\ errored = {}

-----------------------------------------------------------------------------
(* The server, outside this repository. *)

Arrive ==
    /\ arrived < MaxMessages
    /\ arrived' = arrived + 1
    /\ UNCHANGED <<popped, late, mode, lock, pc, reply, issued, returned, errored>>

HeadCount == IF arrived - popped < PopBatch THEN arrived - popped ELSE PopBatch

\* The server executes the command of a caller that waits for the answer.
ServerPops(c) ==
    /\ pc[c] \in {"sent", "httpSent"}
    /\ popped' = popped + HeadCount
    /\ reply' = [reply EXCEPT ![c] = [from |-> popped + 1, to |-> popped']]
    /\ pc' = [pc EXCEPT ![c] = IF @ = "sent" THEN "reply" ELSE "httpReply"]
    /\ UNCHANGED <<arrived, late, mode, lock, issued, returned, errored>>

\* It executes one whose call has ended, or that command is never executed.
ServerPopsLate ==
    /\ late > 0
    /\ late' = late - 1
    /\ \E n \in {0, HeadCount} :
        /\ popped' = popped + n
        /\ errored' = errored \cup (popped + 1 .. popped + n)
    /\ UNCHANGED <<arrived, mode, lock, pc, reply, issued, returned>>

-----------------------------------------------------------------------------
(* PopUsage *)

Call(c) ==
    /\ pc[c] = "idle"
    /\ pc' = [pc EXCEPT ![c] = "wait"]
    /\ issued' = [issued EXCEPT ![c] = 0]
    /\ UNCHANGED <<queueVars, mode, lock, reply, returned, errored>>

Enter(c) ==
    /\ pc[c] = "wait"
    /\ lock' = c
    /\ pc' = [pc EXCEPT ![c] = IF mode = "http" THEN "get" ELSE "connect"]
    /\ UNCHANGED <<queueVars, mode, reply, issued, returned, errored>>

Lock(c) == lock = None /\ Enter(c)

\* The call ends; the messages it got are returned (ok) or given up.
Return(c, ok) ==
    /\ pc' = [pc EXCEPT ![c] = "idle"]
    /\ lock' = None
    /\ reply' = [reply EXCEPT ![c] = NoBatch]
    /\ returned' = IF ok THEN returned \cup Batch(reply[c]) ELSE returned
    /\ errored' = IF ok THEN errored ELSE errored \cup Batch(reply[c])

\* openAuthenticatedConnection
Connect(c) ==
    /\ pc[c] = "connect"
    /\ pc' = [pc EXCEPT ![c] = "lpop"]
    /\ UNCHANGED <<queueVars, mode, lock, reply, issued, returned, errored>>

\* Dialling or authenticating fails and the call returns the error: the
\* transport is settled, the context has ended, or there is no fallback.
ConnectFails(c) ==
    /\ pc[c] = "connect"
    /\ Return(c, FALSE)
    /\ UNCHANGED <<queueVars, mode, issued>>

\* It fails before any LPOP and the transport is not settled: go on to HTTP.
FallBack(c) ==
    /\ pc[c] = "connect"
    /\ mode = "unset"
    /\ CanFallback
    /\ pc' = [pc EXCEPT ![c] = "get"]
    /\ UNCHANGED <<queueVars, mode, lock, reply, issued, returned, errored>>

Send(c) ==
    /\ pc[c] \in {"lpop", "get"}
    /\ pc' = [pc EXCEPT ![c] = IF @ = "lpop" THEN "sent" ELSE "httpSent"]
    /\ issued' = [issued EXCEPT ![c] = @ + 1]
    /\ UNCHANGED <<queueVars, mode, lock, reply, returned, errored>>

\* A plausible bug: every Redis error falls back to HTTP.
GiveUpFallingBack(c) ==
    /\ pc[c] \in {"sent", "httpSent"}
    /\ late < MaxLate
    /\ late' = late + 1
    /\ IF pc[c] = "sent" /\ mode = "unset" /\ CanFallback
         THEN /\ pc' = [pc EXCEPT ![c] = "get"]
              /\ UNCHANGED <<lock, reply, returned, errored>>
         ELSE Return(c, FALSE)
    /\ UNCHANGED <<arrived, popped, mode, issued>>

\* The write or the read fails, or time is up, and the server may or may not
\* have the command: the effect may have started, so there is no fallback.
GiveUp(c) ==
    /\ pc[c] \in {"sent", "httpSent"}
    /\ late < MaxLate
    /\ late' = late + 1
    /\ Return(c, FALSE)
    /\ UNCHANGED <<arrived, popped, mode, issued>>

\* The server answers with an error and has removed nothing.
ServerRefuses(c) ==
    /\ pc[c] \in {"sent", "httpSent"}
    /\ Return(c, FALSE)
    /\ UNCHANGED <<queueVars, mode, issued>>

\* A plausible bug: an unreadable answer is taken for an empty one.
ReplyLostSilently(c) ==
    /\ pc[c] \in {"reply", "httpReply"}
    /\ pc' = [pc EXCEPT ![c] = "idle"]
    /\ lock' = None
    /\ reply' = [reply EXCEPT ![c] = NoBatch]
    /\ UNCHANGED <<queueVars, mode, issued, returned, errored>>

\* A plausible bug: messages of an unreadable answer are put back on the queue.
ReplyLostRequeued(c) ==
    /\ pc[c] \in {"reply", "httpReply"}
    /\ pc' = [pc EXCEPT ![c] = "idle"]
    /\ lock' = None
    /\ popped' = reply[c].from - 1
    /\ reply' = [reply EXCEPT ![c] = NoBatch]
    /\ UNCHANGED <<arrived, late, mode, issued, returned, errored>>

\* The answer cannot be read or decoded.
ReplyLost(c) ==
    /\ pc[c] \in {"reply", "httpReply"}
    /\ Return(c, FALSE)
    /\ UNCHANGED <<queueVars, mode, issued>>

\* The first success settles the transport.
ModeAfter(c) == IF pc[c] = "reply" THEN "redis" ELSE "http"

ReadReply(c) ==
    /\ pc[c] \in {"reply", "httpReply"}
    /\ mode' = ModeAfter(c)
    /\ Return(c, TRUE)
    /\ UNCHANGED <<queueVars, issued>>

Step(c) ==
    \/ Lock(c) \/ Connect(c) \/ ConnectFails(c) \/ FallBack(c) \/ Send(c)
    \/ GiveUp(c) \/ ServerRefuses(c) \/ ReplyLost(c) \/ ReadReply(c)

PopNext ==
    \/ Arrive
    \/ ServerPopsLate
    \/ \E c \in Callers : Call(c) \/ Step(c) \/ ServerPops(c)

PopSpec == PopInit /\ [][PopNext]_popVars

-----------------------------------------------------------------------------
\* docs/adr/0008: no call removes messages twice.  Whatever fails, a call
\* sends at most one destructive command over both transports together.
OneCommandPerCall == \A c \in Callers : issued[c] <= 1

\* Whatever has left the queue was returned, is in the answer of a call that
\* holds the mutex, or belongs to a call that reported an error: a call that
\* reports success has returned all it removed, and nothing is returned twice.
NoSilentLoss ==
    /\ 1 .. popped = returned \cup errored \cup UNION {Batch(reply[c]) : c \in Callers}
    /\ returned \cap errored = {}
    /\ \A c \in Callers : Batch(reply[c]) \cap (returned \cup errored) = {}

-----------------------------------------------------------------------------
(* Every message follows the life cycle of UsageDelivery up to the point   *)
(* at which a caller holds it.                                             *)

FateOf(m) ==
    IF m > arrived THEN "unsent"
    ELSE IF m > popped THEN "queued"
    ELSE IF m \in errored THEN "dropped"
    ELSE "held"

Delivery == INSTANCE UsageDelivery
    WITH Malformed <- {}, fate <- [m \in Messages |-> FateOf(m)]

\* Messages are taken from the queue once, and a dropped one never returns.
ImplementsDelivery == Delivery!Spec

=============================================================================

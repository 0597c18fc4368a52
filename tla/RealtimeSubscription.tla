------------------------ MODULE RealtimeSubscription ------------------------
(***************************************************************************)
(* One WebSocket on /pricing/ws: the handler with its two tasks            *)
(* (_receive_commands, _send_updates), the RedisPricingUpdateSubscriber    *)
(* they share, its redis.asyncio PubSub, and Redis at the other end of a   *)
(* connection that keeps the order in both directions.                     *)
(*                                                                         *)
(* A step runs from one await to the next.  Redis answers a command only   *)
(* after it has been written, and the task that wrote it goes on before    *)
(* the answer is read.                                                     *)
(***************************************************************************)
EXTENDS Integers, Sequences

CONSTANTS
    Request,        \* request ids, one Redis channel each
    Malformed,      \* a payload that SetPricingSubscription refuses
    MaxCommands,    \* bound: payloads the client sends
    MaxUpdates      \* bound: price updates published

ASSUME RealtimeAssumption ==
    MaxCommands \in Nat /\ MaxUpdates \in Nat

VARIABLES
    client,         \* "open" or "gone"
    inbox,          \* payloads on their way to the handler
    handler,        \* pricing_websocket and the teardown of its dependency
    receiver,       \* _receive_commands: where it is, the set it works on
    sender,         \* _send_updates: where it is
    ids,            \* _request_ids
    flag,           \* _has_subscription
    channels,       \* PubSub.channels
    unsubscribing,  \* PubSub.pending_unsubscribe_channels
    toRedis,        \* commands written to the connection
    fromRedis,      \* replies and messages not read yet
    served,         \* channels Redis has for the connection
    commands,       \* counted against MaxCommands
    updates         \* counted against MaxUpdates

clientVars == <<client, inbox, commands>>
taskVars == <<handler, receiver, sender>>
pubsubVars == <<ids, flag, channels, unsubscribing>>
redisVars == <<toRedis, fromRedis, served, updates>>
vars == <<clientVars, taskVars, pubsubVars, redisVars>>

Command(kind, set) == [kind |-> kind, set |-> set]
Receiving == [pc |-> "receiving", wanted |-> {}]
Done == [pc |-> "done", wanted |-> {}]

Init ==
    /\ client = "open" /\ inbox = <<>> /\ commands = 0
    /\ handler = "running" /\ receiver = Receiving /\ sender = "waiting"
    /\ ids = {} /\ flag = FALSE /\ channels = {} /\ unsubscribing = {}
    /\ toRedis = <<>> /\ fromRedis = <<>> /\ served = {} /\ updates = 0

-----------------------------------------------------------------------------
(* The client, the pricing workers, and Redis.                             *)

ClientSends ==
    /\ client = "open" /\ commands < MaxCommands
    /\ \E payload \in (SUBSET Request) \cup {Malformed} : inbox' = Append(inbox, payload)
    /\ commands' = commands + 1
    /\ UNCHANGED <<client, taskVars, pubsubVars, redisVars>>

ClientLeaves ==
    /\ client = "open"
    /\ client' = "gone"
    /\ UNCHANGED <<inbox, commands, taskVars, pubsubVars, redisVars>>

\* A pricing worker publishes a price; Redis passes it on to subscribers only.
PublishUpdate(r) ==
    /\ updates < MaxUpdates
    /\ updates' = updates + 1
    /\ fromRedis' = IF r \in served THEN Append(fromRedis, Command("message", {r}))
                                    ELSE fromRedis
    /\ UNCHANGED <<clientVars, taskVars, pubsubVars, toRedis, served>>

\* Redis carries out a command and answers it.
RedisAnswers ==
    /\ toRedis # <<>>
    /\ LET c == Head(toRedis) IN
        /\ served' = IF c.kind = "subscribe" THEN served \cup c.set
                                             ELSE served \ c.set
        /\ fromRedis' = Append(fromRedis, c)
    /\ toRedis' = Tail(toRedis)
    /\ UNCHANGED <<clientVars, taskVars, pubsubVars, updates>>

-----------------------------------------------------------------------------
(* _receive_commands.                                                      *)

\* receive_json and SetPricingSubscription.model_validate, which may raise.
ReceiveCommand ==
    /\ receiver.pc = "receiving" /\ inbox # <<>>
    /\ inbox' = Tail(inbox)
    /\ receiver' = IF Head(inbox) = Malformed THEN Done
                   ELSE [pc |-> "subscribing", wanted |-> Head(inbox)]
    /\ UNCHANGED <<client, commands, handler, sender, pubsubVars, redisVars>>

\* receive_json raises WebSocketDisconnect behind the last payload.
ReceiveDisconnect ==
    /\ receiver.pc = "receiving" /\ inbox = <<>> /\ client = "gone"
    /\ receiver' = Done
    /\ UNCHANGED <<clientVars, handler, sender, pubsubVars, redisVars>>

Sent(kind, set) ==
    IF set = {} THEN toRedis ELSE Append(toRedis, Command(kind, set))

\* set_request_ids, first await: subscribe enters the new channels when the
\* command has been written.
SubscribeAdded ==
    LET added == receiver.wanted \ ids IN
    /\ receiver.pc = "subscribing"
    /\ toRedis' = Sent("subscribe", added)
    /\ channels' = channels \cup added
    /\ unsubscribing' = unsubscribing \ added
    /\ receiver' = [receiver EXCEPT !.pc = "unsubscribing"]
    /\ UNCHANGED <<clientVars, handler, sender, ids, flag, fromRedis, served, updates>>

\* Mutant: the event is set and never cleared.
SignalUncleared(wanted) ==
    /\ flag' = (flag \/ wanted # {})
    /\ sender' = IF wanted # {} /\ sender = "waiting" THEN "listening" ELSE sender

\* _has_subscription.set() wakes the sender, even if clear() follows at once.
Signal(wanted) ==
    /\ flag' = (wanted # {})
    /\ sender' = IF wanted # {} /\ sender = "waiting" THEN "listening" ELSE sender

\* Mutant: channels that are not wanted any more stay subscribed.
UnsubscribeRemovedKeeping ==
    /\ receiver.pc = "unsubscribing"
    /\ ids' = receiver.wanted
    /\ Signal(receiver.wanted)
    /\ receiver' = Receiving
    /\ UNCHANGED <<clientVars, handler, channels, unsubscribing, redisVars>>

\* Second await: unsubscribe; then _request_ids and _has_subscription.
UnsubscribeRemoved ==
    LET removed == ids \ receiver.wanted IN
    /\ receiver.pc = "unsubscribing"
    /\ toRedis' = Sent("unsubscribe", removed)
    /\ unsubscribing' = unsubscribing \cup removed
    /\ ids' = receiver.wanted
    /\ Signal(receiver.wanted)
    /\ receiver' = Receiving
    /\ UNCHANGED <<clientVars, handler, channels, fromRedis, served, updates>>

-----------------------------------------------------------------------------
(* _send_updates, through updates() and PubSub.listen().                   *)

\* Mutant: a channel goes with the answer to unsubscribe, come what may.
ReadReplyForgetting ==
    /\ sender = "listening" /\ channels # {} /\ fromRedis # <<>>
    /\ LET reply == Head(fromRedis)
           gone == IF reply.kind = "unsubscribe" THEN reply.set ELSE {}
       IN  /\ channels' = channels \ gone
           /\ unsubscribing' = unsubscribing \ gone
           /\ sender' = IF reply.kind = "message" THEN "sending" ELSE "listening"
    /\ fromRedis' = Tail(fromRedis)
    /\ UNCHANGED <<clientVars, handler, receiver, ids, flag, toRedis, served, updates>>

\* listen() reads a reply or a message; the last answer to an unsubscribe
\* takes a channel away, unless it has been subscribed again meanwhile.
ReadReply ==
    /\ sender = "listening" /\ channels # {} /\ fromRedis # <<>>
    /\ LET reply == Head(fromRedis)
           gone == IF reply.kind = "unsubscribe" THEN reply.set \cap unsubscribing
                                                 ELSE {}
       IN  /\ channels' = channels \ gone
           /\ unsubscribing' = unsubscribing \ gone
           /\ sender' = IF reply.kind = "message" THEN "sending" ELSE "listening"
    /\ fromRedis' = Tail(fromRedis)
    /\ UNCHANGED <<clientVars, handler, receiver, ids, flag, toRedis, served, updates>>

\* listen() ends when the PubSub has no channel left, and updates() waits
\* for the event (or would be back in listen() at once, if it were set).
ListenEnds ==
    /\ sender = "listening" /\ channels = {} /\ ~flag
    /\ sender' = "waiting"
    /\ UNCHANGED <<clientVars, handler, receiver, pubsubVars, redisVars>>

\* send_json; it raises when the client is gone.
SendUpdate ==
    /\ sender = "sending"
    /\ sender' = IF client = "open" THEN "listening" ELSE "done"
    /\ UNCHANGED <<clientVars, handler, receiver, pubsubVars, redisVars>>

-----------------------------------------------------------------------------
(* pricing_websocket.                                                      *)

\* asyncio.wait(FIRST_COMPLETED) returns, and the other task is cancelled.
CancelPending ==
    /\ handler = "running"
    /\ receiver = Done \/ sender = "done"
    /\ handler' = "cancelling"
    /\ UNCHANGED <<clientVars, receiver, sender, pubsubVars, redisVars>>

\* gather: the cancelled task stops at the await it is in, also between the
\* two awaits of set_request_ids.
PendingTaskStops ==
    /\ handler = "cancelling"
    /\ receiver' = Done /\ sender' = "done"
    /\ handler' = "closing"
    /\ UNCHANGED <<clientVars, pubsubVars, redisVars>>

\* Mutant: the channels of _request_ids are unsubscribed, and that is all.
CloseUnsubscribing ==
    /\ handler = "closing"
    /\ served' = served \ ids
    /\ toRedis' = <<>> /\ fromRedis' = <<>>
    /\ channels' = {} /\ unsubscribing' = {}
    /\ handler' = "done"
    /\ UNCHANGED <<clientVars, receiver, sender, ids, flag, updates>>

\* close, in the finally of get_pricing_subscription_service: unsubscribe
\* from _request_ids, and aclose(), which closes the connection.
Close ==
    /\ handler = "closing"
    /\ served' = {} /\ toRedis' = <<>> /\ fromRedis' = <<>>
    /\ channels' = {} /\ unsubscribing' = {}
    /\ handler' = "done"
    /\ UNCHANGED <<clientVars, receiver, sender, ids, flag, updates>>

-----------------------------------------------------------------------------
ReceiverStep ==
    ReceiveCommand \/ ReceiveDisconnect \/ SubscribeAdded \/ UnsubscribeRemoved
SenderStep == ReadReply \/ ListenEnds \/ SendUpdate
HandlerStep == CancelPending \/ PendingTaskStops \/ Close

Next ==
    \/ ClientSends \/ ClientLeaves \/ (\E r \in Request : PublishUpdate(r))
    \/ RedisAnswers \/ ReceiverStep \/ SenderStep \/ HandlerStep

Spec == Init /\ [][Next]_vars

\* The event loop runs every task that is ready, and Redis answers.
Fairness ==
    /\ WF_vars(RedisAnswers) /\ WF_vars(ReceiverStep)
    /\ WF_vars(SenderStep) /\ WF_vars(HandlerStep)

FairSpec == Spec /\ Fairness

-----------------------------------------------------------------------------
(* Properties.                                                             *)

Reply == [kind : {"subscribe", "unsubscribe", "message"}, set : SUBSET Request]

\* The variables have the types of the objects they stand for.
TypeOK ==
    /\ client \in {"open", "gone"} /\ commands \in Nat /\ updates \in Nat
    /\ inbox \in Seq((SUBSET Request) \cup {Malformed})
    /\ handler \in {"running", "cancelling", "closing", "done"}
    /\ receiver \in [pc : {"receiving", "subscribing", "unsubscribing", "done"},
                     wanted : SUBSET Request]
    /\ sender \in {"waiting", "listening", "sending", "done"}
    /\ ids \in SUBSET Request /\ flag \in BOOLEAN
    /\ channels \in SUBSET Request /\ unsubscribing \in SUBSET Request
    /\ toRedis \in Seq(Reply) /\ fromRedis \in Seq(Reply)
    /\ served \in SUBSET Request

\* What the handler asked for is what its PubSub holds and is not about to drop,
\* also when a channel was dropped and taken again before Redis answered, and
\* between the two awaits of set_request_ids; the event says whether it is any.
ChannelsInv ==
    /\ flag = (ids # {})
    /\ handler \in {"running", "cancelling"} =>
            channels \ unsubscribing =
                ids \cup (IF receiver.pc = "unsubscribing" THEN receiver.wanted ELSE {})
    /\ handler \in {"closing", "done"} => sender = "done" /\ receiver = Done

\* The i-th element of s is the last one about r.
LastAbout(s, r, i) ==
    i \in DOMAIN s /\ r \in s[i].set /\ \A j \in (i + 1)..Len(s) : r \notin s[j].set

\* Redis, once it has carried out what is on its way, serves what the PubSub
\* holds; and a channel to be dropped has its answer on the way.
ConnectionInv ==
    handler # "done" =>
        \A r \in Request :
            /\ \A i \in DOMAIN toRedis : LastAbout(toRedis, r, i) =>
                   (toRedis[i].kind = "subscribe" <=> r \in channels \ unsubscribing)
            /\ (\A i \in DOMAIN toRedis : r \notin toRedis[i].set) =>
                   (r \in served <=> r \in channels \ unsubscribing)
            /\ r \in unsubscribing =>
                   \/ \E i \in DOMAIN toRedis :
                          toRedis[i].kind = "unsubscribe" /\ r \in toRedis[i].set
                   \/ \E i \in DOMAIN fromRedis :
                          fromRedis[i].kind = "unsubscribe" /\ r \in fromRedis[i].set

\* The inductive invariant: the types, and how the handler, its PubSub and Redis
\* agree in every state.
RealtimeInv == TypeOK /\ ChannelsInv /\ ConnectionInv

\* updates(): "waits here until set_request_ids() is called".  When listen()
\* ends without a channel the event is clear: otherwise wait() and listen()
\* would return at once for ever, without giving way to any other task.
NeverSpins == sender = "listening" /\ channels = {} => ~flag

\* Between two commands, with nothing on its way, Redis, the PubSub and
\* _request_ids agree, whatever was subscribed and unsubscribed before.
SubscriptionsAgree ==
    handler = "running" /\ receiver = Receiving /\ toRedis = <<>> =>
        /\ served = ids
        /\ fromRedis = <<>> => channels = ids

\* When the client stays and the payloads end, Redis serves what the client
\* asked for last, and somebody listens to it.
LastRequestIsServed ==
    <>[](client = "open") /\ <>[](handler = "running") =>
        <>[](/\ served = ids /\ channels = ids /\ receiver = Receiving
             /\ ids # {} => sender \in {"listening", "sending"})

\* When the client leaves, or sends what is no command, the handler comes to
\* its end, with no channel left at Redis, wherever its tasks were.
EndLeavesNothing ==
    (client = "gone" \/ receiver = Done) ~> [](handler = "done" /\ served = {})
=============================================================================

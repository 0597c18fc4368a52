--------------------- MODULE RealtimeSubscription_proofs ---------------------
(* Proofs about RealtimeSubscription.                                      *)
EXTENDS RealtimeSubscription, TLAPS

-----------------------------------------------------------------------------
(* Queues.                                                                 *)

\* An element is taken off a queue.
LEMMA Taken ==
    ASSUME NEW S, NEW s \in Seq(S), s # <<>>
    PROVE  /\ Tail(s) \in Seq(S) /\ Head(s) \in S /\ Head(s) = s[1]
           /\ 1 \in DOMAIN s /\ Len(Tail(s)) = Len(s) - 1
           /\ Len(s) \in Nat \ {0} /\ DOMAIN s = 1..Len(s)
           /\ DOMAIN Tail(s) = 1..(Len(s) - 1)
           /\ \A i \in DOMAIN Tail(s) : i + 1 \in DOMAIN s /\ Tail(s)[i] = s[i + 1]
  OBVIOUS

\* An element is put into a queue.
LEMMA Put ==
    ASSUME NEW S, NEW s \in Seq(S), NEW e \in S
    PROVE  /\ Append(s, e) \in Seq(S) /\ Len(Append(s, e)) = Len(s) + 1
           /\ Len(s) \in Nat /\ DOMAIN s = 1..Len(s)
           /\ DOMAIN Append(s, e) = 1..(Len(s) + 1)
           /\ Append(s, e)[Len(s) + 1] = e
           /\ \A i \in DOMAIN s : Append(s, e)[i] = s[i]
  OBVIOUS

\* The last element about r stays the last one when the head is taken.
LEMMA LastTaken ==
    ASSUME NEW s \in Seq(Reply), s # <<>>, NEW r, NEW i \in DOMAIN Tail(s),
           LastAbout(Tail(s), r, i)
    PROVE  LastAbout(s, r, i + 1) /\ Tail(s)[i] = s[i + 1]
  <1>1. ASSUME NEW j \in ((i + 1) + 1)..Len(s) PROVE r \notin s[j].set
    <2>1. j - 1 \in (i + 1)..Len(Tail(s)) /\ j - 1 \in DOMAIN Tail(s)
      BY <1>1, Taken
    <2>2. Tail(s)[j - 1] = s[j]
      BY <2>1, Taken
    <2> QED BY <2>1, <2>2 DEF LastAbout
  <1>2. i + 1 \in DOMAIN s /\ Tail(s)[i] = s[i + 1]
    BY Taken
  <1> QED BY <1>1, <1>2 DEF LastAbout

\* A command that is put in is the last one about its channels, and changes
\* nothing for the others.
LEMMA LastPut ==
    ASSUME NEW s \in Seq(Reply), NEW c \in Reply, NEW r,
           NEW i \in DOMAIN Append(s, c), LastAbout(Append(s, c), r, i)
    PROVE  \/ r \in c.set /\ Append(s, c)[i] = c
           \/ r \notin c.set /\ i \in DOMAIN s /\ LastAbout(s, r, i)
                             /\ Append(s, c)[i] = s[i]
  <1>1. CASE i = Len(s) + 1
    BY <1>1, Put DEF LastAbout
  <1>2. CASE i # Len(s) + 1
    <2>1. /\ i \in DOMAIN s /\ Append(s, c)[i] = s[i] /\ i \in Nat
          /\ Len(s) + 1 \in (i + 1)..Len(Append(s, c))
      BY <1>2, Put
    <2>2. r \notin c.set
      BY <2>1, Put DEF LastAbout
    <2>3. ASSUME NEW j \in (i + 1)..Len(s) PROVE r \notin s[j].set
      <3>1. j \in (i + 1)..Len(Append(s, c)) /\ j \in DOMAIN s
        BY <2>1, <2>3, Put
      <3> QED BY <3>1, Put DEF LastAbout
    <2> QED BY <2>1, <2>2, <2>3 DEF LastAbout
  <1> QED BY <1>1, <1>2

-----------------------------------------------------------------------------
(* Type correctness.                                                       *)

\* A command is a reply in the making.
LEMMA CommandIsReply ==
    ASSUME NEW kind \in {"subscribe", "unsubscribe", "message"},
           NEW set \in SUBSET Request
    PROVE  /\ Command(kind, set) \in Reply
           /\ Command(kind, set).kind = kind /\ Command(kind, set).set = set
  BY DEF Command, Reply

\* What set_request_ids writes to the connection.
LEMMA SentIsQueue ==
    ASSUME TypeOK, NEW kind \in {"subscribe", "unsubscribe"}, NEW set \in SUBSET Request
    PROVE  Sent(kind, set) \in Seq(Reply)
  BY CommandIsReply, Put DEF Sent, TypeOK

\* Every step keeps the types.
LEMMA NextTypes ==
    ASSUME RealtimeAssumption, TypeOK, [Next]_vars
    PROVE  TypeOK'
  <1> USE DEF clientVars, taskVars, pubsubVars, redisVars
  <1>1. CASE ClientSends
    <2>1. inbox' \in Seq((SUBSET Request) \cup {Malformed})
      BY <1>1, Put DEF ClientSends, TypeOK
    <2> QED BY <1>1, <2>1 DEF ClientSends, TypeOK
  <1>2. CASE ClientLeaves
    BY <1>2 DEF ClientLeaves, TypeOK
  <1>3. ASSUME NEW r \in Request, PublishUpdate(r) PROVE TypeOK'
    <2>1. fromRedis' \in Seq(Reply)
      BY <1>3, CommandIsReply, Put DEF PublishUpdate, TypeOK
    <2> QED BY <1>3, <2>1 DEF PublishUpdate, TypeOK
  <1>4. CASE RedisAnswers
    <2>1. /\ toRedis \in Seq(Reply) /\ toRedis # <<>> /\ fromRedis \in Seq(Reply)
          /\ toRedis' = Tail(toRedis) /\ fromRedis' = Append(fromRedis, Head(toRedis))
      BY <1>4 DEF RedisAnswers, TypeOK
    <2>2. Head(toRedis) \in Reply /\ toRedis' \in Seq(Reply)
      BY <2>1, Taken
    <2>3. fromRedis' \in Seq(Reply)
      BY <2>1, <2>2, Put
    <2>4. served' \in SUBSET Request
      BY <1>4, <2>2 DEF RedisAnswers, TypeOK, Reply
    <2> QED BY <1>4, <2>2, <2>3, <2>4 DEF RedisAnswers, TypeOK
  <1>5. CASE ReceiveCommand
    <2>1. /\ Head(inbox) \in (SUBSET Request) \cup {Malformed}
          /\ inbox' \in Seq((SUBSET Request) \cup {Malformed})
      BY <1>5, Taken DEF ReceiveCommand, TypeOK
    <2>2. receiver' \in [pc : {"receiving", "subscribing", "unsubscribing", "done"},
                         wanted : SUBSET Request]
      <3>1. CASE Head(inbox) = Malformed
        BY <1>5, <3>1 DEF ReceiveCommand, Done
      <3>2. CASE Head(inbox) # Malformed
        <4>1. Head(inbox) \in SUBSET Request
          BY <2>1, <3>2
        <4> QED BY <1>5, <3>2, <4>1 DEF ReceiveCommand
      <3> QED BY <3>1, <3>2
    <2> QED BY <1>5, <2>1, <2>2 DEF ReceiveCommand, TypeOK
  <1>6. CASE ReceiveDisconnect
    BY <1>6 DEF ReceiveDisconnect, TypeOK, Done
  <1>7. CASE SubscribeAdded
    <2>1. toRedis' \in Seq(Reply)
      BY <1>7, SentIsQueue DEF SubscribeAdded, TypeOK
    <2> QED BY <1>7, <2>1 DEF SubscribeAdded, TypeOK
  <1>8. CASE UnsubscribeRemoved
    <2>1. toRedis' \in Seq(Reply)
      BY <1>8, SentIsQueue DEF UnsubscribeRemoved, TypeOK
    <2> QED BY <1>8, <2>1 DEF UnsubscribeRemoved, Signal, Receiving, TypeOK
  <1>9. CASE ReadReply
    <2>1. fromRedis' \in Seq(Reply)
      BY <1>9, Taken DEF ReadReply, TypeOK
    <2> QED BY <1>9, <2>1 DEF ReadReply, TypeOK
  <1>10. CASE ListenEnds \/ SendUpdate \/ CancelPending
    BY <1>10 DEF ListenEnds, SendUpdate, CancelPending, TypeOK
  <1>11. CASE PendingTaskStops
    BY <1>11 DEF PendingTaskStops, TypeOK, Done
  <1>12. CASE Close
    BY <1>12 DEF Close, TypeOK
  <1>13. CASE UNCHANGED vars
    BY <1>13 DEF vars, TypeOK
  <1> QED BY <1>1, <1>2, <1>3, <1>4, <1>5, <1>6, <1>7, <1>8, <1>9, <1>10, <1>11,
             <1>12, <1>13 DEF Next, ReceiverStep, SenderStep, HandlerStep

-----------------------------------------------------------------------------
(* The handler and its PubSub.                                             *)

\* Every step keeps what the PubSub holds equal to what the handler asked for.
LEMMA ChannelsKept ==
    ASSUME TypeOK, ChannelsInv, [Next]_vars
    PROVE  ChannelsInv'
  <1> USE DEF ChannelsInv, clientVars, taskVars, pubsubVars, redisVars
  <1>1. CASE ClientSends \/ ClientLeaves \/ (\E r \in Request : PublishUpdate(r))
             \/ RedisAnswers
    BY <1>1 DEF ClientSends, ClientLeaves, PublishUpdate, RedisAnswers
  <1>2. CASE ReceiveCommand \/ ReceiveDisconnect
    BY <1>2 DEF ReceiveCommand, ReceiveDisconnect, Done
  <1>3. CASE SubscribeAdded
    BY <1>3 DEF SubscribeAdded, TypeOK, Done
  <1>4. CASE UnsubscribeRemoved
    BY <1>4 DEF UnsubscribeRemoved, Signal, TypeOK, Receiving, Done
  <1>5. CASE ReadReply
    BY <1>5 DEF ReadReply
  <1>6. CASE ListenEnds \/ SendUpdate \/ CancelPending
    BY <1>6 DEF ListenEnds, SendUpdate, CancelPending
  <1>7. CASE PendingTaskStops \/ Close
    BY <1>7 DEF PendingTaskStops, Close
  <1>8. CASE UNCHANGED vars
    BY <1>8 DEF vars
  <1> QED BY <1>1, <1>2, <1>3, <1>4, <1>5, <1>6, <1>7, <1>8
          DEF Next, ReceiverStep, SenderStep, HandlerStep

-----------------------------------------------------------------------------
(* The PubSub and Redis.                                                   *)

\* The three parts of ConnectionInv for one channel.
Ordered(r) ==
    \A i \in DOMAIN toRedis : LastAbout(toRedis, r, i) =>
        (toRedis[i].kind = "subscribe" <=> r \in channels \ unsubscribing)
Settled(r) ==
    (\A i \in DOMAIN toRedis : r \notin toRedis[i].set) =>
        (r \in served <=> r \in channels \ unsubscribing)
DropIn(s, r) == \E i \in DOMAIN s : s[i].kind = "unsubscribe" /\ r \in s[i].set
Answered(r) == r \in unsubscribing => DropIn(toRedis, r) \/ DropIn(fromRedis, r)

LEMMA ConnectionSplit ==
    ConnectionInv <=>
        (handler # "done" => \A r \in Request : Ordered(r) /\ Settled(r) /\ Answered(r))
  BY DEF ConnectionInv, Ordered, Settled, Answered, DropIn

\* Putting an element into a queue keeps a drop in it.
LEMMA DropPut ==
    ASSUME NEW s \in Seq(Reply), NEW c \in Reply, NEW r
    PROVE  DropIn(Append(s, c), r) <=>
               DropIn(s, r) \/ (c.kind = "unsubscribe" /\ r \in c.set)
  <1>1. ASSUME DropIn(s, r) PROVE DropIn(Append(s, c), r)
    BY <1>1, Put DEF DropIn
  <1>2. ASSUME c.kind = "unsubscribe", r \in c.set PROVE DropIn(Append(s, c), r)
    BY <1>2, Put DEF DropIn
  <1>3. ASSUME DropIn(Append(s, c), r)
        PROVE  DropIn(s, r) \/ (c.kind = "unsubscribe" /\ r \in c.set)
    <2>1. PICK i \in DOMAIN Append(s, c) :
              Append(s, c)[i].kind = "unsubscribe" /\ r \in Append(s, c)[i].set
      BY <1>3 DEF DropIn
    <2>2. i = Len(s) + 1 \/ i \in DOMAIN s
      BY Put
    <2> QED BY <2>1, <2>2, Put DEF DropIn
  <1> QED BY <1>1, <1>2, <1>3

\* Taking the head of a queue keeps a drop in it, unless it is the head.
LEMMA DropTaken ==
    ASSUME NEW s \in Seq(Reply), s # <<>>, NEW r, DropIn(s, r)
    PROVE  \/ DropIn(Tail(s), r)
           \/ Head(s).kind = "unsubscribe" /\ r \in Head(s).set
  <1>1. PICK i \in DOMAIN s : s[i].kind = "unsubscribe" /\ r \in s[i].set
    BY DEF DropIn
  <1>2. CASE i = 1
    BY <1>1, <1>2, Taken
  <1>3. CASE i # 1
    <2>1. i - 1 \in DOMAIN Tail(s)
      BY <1>3, Taken
    <2>2. Tail(s)[i - 1] = s[i]
      BY <2>1, Taken
    <2> QED BY <1>1, <2>1, <2>2 DEF DropIn
  <1> QED BY <1>2, <1>3

\* A command for the channels of set, written when they have entered the PubSub
\* or begun to leave it.
LEMMA CommandKept ==
    ASSUME TypeOK, NEW kind \in {"subscribe", "unsubscribe"},
           NEW set \in SUBSET Request,
           toRedis' = Sent(kind, set), UNCHANGED <<fromRedis, served>>,
           \A r \in set : r \in (channels \ unsubscribing)' <=> kind = "subscribe",
           \A r \in Request \ set : r \in (channels \ unsubscribing)' <=>
                                    r \in channels \ unsubscribing,
           \A r \in unsubscribing' : r \in unsubscribing \/ (kind = "unsubscribe" /\ r \in set),
           NEW q \in Request, Ordered(q), Settled(q), Answered(q)
    PROVE  Ordered(q)' /\ Settled(q)' /\ Answered(q)'
  <1> DEFINE c == Command(kind, set)
  <1>1. CASE set = {}
    <2>1. toRedis' = toRedis
      BY <1>1 DEF Sent
    <2> QED BY <1>1, <2>1 DEF Ordered, Settled, Answered
  <1>2. CASE set # {}
    <2>1. /\ toRedis' = Append(toRedis, c) /\ toRedis \in Seq(Reply)
          /\ c \in Reply /\ c.kind = kind /\ c.set = set
      BY <1>2, CommandIsReply DEF Sent, TypeOK
    <2> HIDE DEF c
    <2>2. Ordered(q)'
      <3> SUFFICES ASSUME NEW i \in DOMAIN toRedis', LastAbout(toRedis', q, i)
                   PROVE  toRedis'[i].kind = "subscribe" <=> q \in (channels \ unsubscribing)'
        BY DEF Ordered
      <3>1. \/ q \in set /\ toRedis'[i] = c
            \/ q \notin set /\ i \in DOMAIN toRedis /\ LastAbout(toRedis, q, i)
                            /\ toRedis'[i] = toRedis[i]
        BY <2>1, LastPut
      <3> QED BY <2>1, <3>1 DEF Ordered
    <2>3. Settled(q)'
      <3> SUFFICES ASSUME \A i \in DOMAIN toRedis' : q \notin toRedis'[i].set
                   PROVE  q \in served' <=> q \in (channels \ unsubscribing)'
        BY DEF Settled
      <3>1. q \notin set /\ \A i \in DOMAIN toRedis : q \notin toRedis[i].set
        BY <2>1, Put
      <3> QED BY <3>1 DEF Settled
    <2>4. Answered(q)'
      BY <2>1, DropPut DEF Answered
    <2> QED BY <2>2, <2>3, <2>4
  <1> QED BY <1>1, <1>2

\* Every step keeps Redis and the PubSub in agreement.
LEMMA ConnectionKept ==
    ASSUME TypeOK, ChannelsInv, ConnectionInv, [Next]_vars
    PROVE  ConnectionInv'
  <1> SUFFICES ASSUME handler' # "done", NEW q \in Request
               PROVE  Ordered(q)' /\ Settled(q)' /\ Answered(q)'
    BY DEF ConnectionInv, Ordered, Settled, Answered, DropIn
  <1> USE DEF clientVars, taskVars, pubsubVars, redisVars
  <1>0. handler # "done" => Ordered(q) /\ Settled(q) /\ Answered(q)
    BY ConnectionSplit
  <1>q. toRedis \in Seq(Reply) /\ fromRedis \in Seq(Reply)
    BY DEF TypeOK
  <1>1. CASE handler' = handler
             /\ UNCHANGED <<channels, unsubscribing, toRedis, fromRedis, served>>
    BY <1>0, <1>1 DEF Ordered, Settled, Answered, DropIn
  <1>2. ASSUME NEW r \in Request, PublishUpdate(r)
        PROVE  Ordered(q)' /\ Settled(q)' /\ Answered(q)'
    <2>1. UNCHANGED <<handler, channels, unsubscribing, toRedis, served>>
      BY <1>2 DEF PublishUpdate
    <2>2. fromRedis' = fromRedis \/ fromRedis' = Append(fromRedis, Command("message", {r}))
      BY <1>2 DEF PublishUpdate
    <2>3. DropIn(fromRedis, q) => DropIn(fromRedis', q)
      <3>1. Command("message", {r}) \in Reply
        BY CommandIsReply
      <3>2. CASE fromRedis' = fromRedis
        BY <3>2 DEF DropIn
      <3>3. CASE fromRedis' = Append(fromRedis, Command("message", {r}))
        BY <1>q, <3>1, <3>3, DropPut
      <3> QED BY <2>2, <3>2, <3>3
    <2> QED BY <1>0, <2>1, <2>3 DEF Ordered, Settled, Answered
  <1>3. CASE RedisAnswers
    <2> DEFINE c == Head(toRedis)
    <2>1. /\ toRedis # <<>> /\ toRedis' = Tail(toRedis)
          /\ fromRedis' = Append(fromRedis, c)
          /\ served' = IF c.kind = "subscribe" THEN served \cup c.set
                                               ELSE served \ c.set
          /\ UNCHANGED <<handler, channels, unsubscribing>>
      BY <1>3 DEF RedisAnswers
    <2>2. c \in Reply /\ c = toRedis[1] /\ 1 \in DOMAIN toRedis
      BY <1>q, <2>1, Taken
    <2> HIDE DEF c
    <2>3. Ordered(q) /\ Settled(q) /\ Answered(q)
      BY <1>0, <2>1
    <2>4. Ordered(q)'
      <3> SUFFICES ASSUME NEW i \in DOMAIN toRedis', LastAbout(toRedis', q, i)
                   PROVE  toRedis'[i].kind = "subscribe" <=> q \in channels \ unsubscribing
        BY <2>1 DEF Ordered
      <3>1. LastAbout(toRedis, q, i + 1) /\ toRedis'[i] = toRedis[i + 1]
        BY <1>q, <2>1, LastTaken
      <3> QED BY <2>3, <3>1 DEF Ordered, LastAbout
    <2>5. Settled(q)'
      <3> SUFFICES ASSUME \A i \in DOMAIN toRedis' : q \notin toRedis'[i].set
                   PROVE  q \in served' <=> q \in channels \ unsubscribing
        BY <2>1 DEF Settled
      <3>1. ASSUME NEW j \in DOMAIN toRedis, j # 1 PROVE q \notin toRedis[j].set
        <4>1. j - 1 \in DOMAIN toRedis'
          BY <1>q, <2>1, <3>1, Taken
        <4>2. toRedis'[j - 1] = toRedis[j]
          BY <1>q, <2>1, <4>1, Taken
        <4> QED BY <4>1, <4>2
      <3>2. CASE q \in c.set
        <4>1. \A j \in (1 + 1)..Len(toRedis) : j \in DOMAIN toRedis /\ j # 1
          BY <1>q
        <4>2. LastAbout(toRedis, q, 1)
          BY <2>2, <3>1, <3>2, <4>1 DEF LastAbout
        <4> QED BY <2>1, <2>2, <2>3, <3>2, <4>2 DEF Ordered
      <3>3. CASE q \notin c.set
        BY <2>1, <2>2, <2>3, <3>1, <3>3 DEF Settled
      <3> QED BY <3>2, <3>3
    <2>6. Answered(q)'
      <3>1. DropIn(toRedis, q) => DropIn(toRedis', q) \/ DropIn(fromRedis', q)
        BY <1>q, <2>1, <2>2, DropTaken, DropPut DEF c
      <3>2. DropIn(fromRedis, q) => DropIn(fromRedis', q)
        BY <1>q, <2>1, <2>2, DropPut
      <3> QED BY <2>1, <2>3, <3>1, <3>2 DEF Answered
    <2> QED BY <2>4, <2>5, <2>6
  <1>4. CASE SubscribeAdded
    <2> DEFINE added == receiver.wanted \ ids
    <2>1. /\ added \in SUBSET Request
          /\ toRedis' = Sent("subscribe", added)
          /\ channels' = channels \cup added /\ unsubscribing' = unsubscribing \ added
          /\ UNCHANGED <<handler, fromRedis, served>>
      BY <1>4 DEF SubscribeAdded, TypeOK
    <2> HIDE DEF added
    <2>2. /\ \A r \in added : r \in (channels \ unsubscribing)' <=> "subscribe" = "subscribe"
          /\ \A r \in Request \ added : r \in (channels \ unsubscribing)' <=>
                                        r \in channels \ unsubscribing
          /\ \A r \in unsubscribing' : r \in unsubscribing
      BY <2>1
    <2> QED BY <1>0, <2>1, <2>2, CommandKept
  <1>5. CASE UnsubscribeRemoved
    <2> DEFINE removed == ids \ receiver.wanted
    <2>1. /\ removed \in SUBSET Request
          /\ toRedis' = Sent("unsubscribe", removed)
          /\ channels' = channels /\ unsubscribing' = unsubscribing \cup removed
          /\ UNCHANGED <<handler, fromRedis, served>>
      BY <1>5 DEF UnsubscribeRemoved, TypeOK
    <2> HIDE DEF removed
    <2>2. /\ \A r \in removed : ~(r \in (channels \ unsubscribing)')
          /\ \A r \in Request \ removed : r \in (channels \ unsubscribing)' <=>
                                          r \in channels \ unsubscribing
          /\ \A r \in unsubscribing' : r \in unsubscribing \/ r \in removed
      BY <2>1
    <2>3. "unsubscribe" # "subscribe"
      OBVIOUS
    <2> QED BY <1>0, <2>1, <2>2, <2>3, CommandKept
  <1>6. CASE ReadReply
    <2> DEFINE reply == Head(fromRedis)
               gone == IF reply.kind = "unsubscribe" THEN reply.set \cap unsubscribing
                                                     ELSE {}
    <2>1. /\ fromRedis # <<>> /\ fromRedis' = Tail(fromRedis)
          /\ channels' = channels \ gone /\ unsubscribing' = unsubscribing \ gone
          /\ UNCHANGED <<handler, toRedis, served>>
      BY <1>6 DEF ReadReply
    <2>2. gone \subseteq unsubscribing
      OBVIOUS
    <2>3. q \in unsubscribing' =>
              q \in unsubscribing /\ ~(reply.kind = "unsubscribe" /\ q \in reply.set)
      BY <2>1
    <2>4. DropIn(fromRedis, q) =>
              DropIn(fromRedis', q) \/ (reply.kind = "unsubscribe" /\ q \in reply.set)
      BY <1>q, <2>1, DropTaken
    <2> HIDE DEF reply, gone
    <2>5. q \in (channels \ unsubscribing)' <=> q \in channels \ unsubscribing
      BY <2>1, <2>2
    <2>6. Ordered(q)' /\ Settled(q)'
      BY <1>0, <2>1, <2>5 DEF Ordered, Settled
    <2>7. Answered(q)'
      BY <1>0, <2>1, <2>3, <2>4 DEF Answered
    <2> QED BY <2>6, <2>7
  <1>7. CASE CancelPending \/ PendingTaskStops
    BY <1>0, <1>7 DEF CancelPending, PendingTaskStops, Ordered, Settled, Answered, DropIn
  <1>8. CASE Close
    BY <1>8 DEF Close
  <1> QED BY <1>1, <1>2, <1>3, <1>4, <1>5, <1>6, <1>7, <1>8
          DEF Next, ReceiverStep, SenderStep, HandlerStep, ClientSends, ClientLeaves,
              ReceiveCommand, ReceiveDisconnect, ListenEnds, SendUpdate, vars

-----------------------------------------------------------------------------
(* The theorems.                                                           *)

\* RealtimeInv holds in every state of one WebSocket's subscriber: the handler,
\* its PubSub and Redis agree (redis_pricing_update_subscriber.py).
THEOREM RealtimeCorrect == Spec => []RealtimeInv
  <1>1. Init => RealtimeInv
    <2> SUFFICES ASSUME Init PROVE RealtimeInv
      OBVIOUS
    <2>1. TypeOK
      <3>1. /\ inbox \in Seq((SUBSET Request) \cup {Malformed})
            /\ toRedis \in Seq(Reply) /\ fromRedis \in Seq(Reply)
        BY DEF Init
      <3> QED BY <3>1 DEF Init, TypeOK, Receiving
    <2>2. ChannelsInv
      BY DEF Init, ChannelsInv, Receiving
    <2>3. ConnectionInv
      BY DEF Init, ConnectionInv
    <2> QED BY <2>1, <2>2, <2>3 DEF RealtimeInv
  <1>2. RealtimeInv /\ [Next]_vars => RealtimeInv'
    BY RealtimeAssumption, NextTypes, ChannelsKept, ConnectionKept DEF RealtimeInv
  <1> QED BY <1>1, <1>2, PTL DEF Spec

\* When listen() ends without a channel, the event that updates() waits for is
\* clear, so the two do not run in a circle that never gives way.
THEOREM SenderNeverSpins == Spec => []NeverSpins
  <1>1. RealtimeInv => NeverSpins
    BY DEF RealtimeInv, TypeOK, ChannelsInv, NeverSpins
  <1> QED BY <1>1, RealtimeCorrect, PTL

\* After a command has been carried out, Redis, the PubSub and _request_ids name
\* the same channels, whatever set_request_ids did before.
THEOREM SubscriptionsInAgreement == Spec => []SubscriptionsAgree
  <1>1. RealtimeInv => SubscriptionsAgree
    <2> SUFFICES ASSUME RealtimeInv, handler = "running", receiver = Receiving,
                        toRedis = <<>>
                 PROVE  served = ids /\ (fromRedis = <<>> => channels = ids)
      BY DEF SubscriptionsAgree
    <2>1. channels \ unsubscribing = ids
      BY DEF RealtimeInv, ChannelsInv, Receiving
    <2>2. /\ served \subseteq Request /\ ids \subseteq Request
          /\ unsubscribing \subseteq Request
      BY DEF RealtimeInv, TypeOK
    <2>3. \A r \in Request : Settled(r) /\ Answered(r)
      BY ConnectionSplit DEF RealtimeInv
    <2>4. \A r \in Request : r \in served <=> r \in channels \ unsubscribing
      <3>1. DOMAIN toRedis = {}
        OBVIOUS
      <3> QED BY <2>3, <3>1 DEF Settled
    <2>5. fromRedis = <<>> => unsubscribing = {}
      BY <2>2, <2>3 DEF Answered, DropIn
    <2> QED BY <2>1, <2>2, <2>4, <2>5
  <1> QED BY <1>1, RealtimeCorrect, PTL
=============================================================================

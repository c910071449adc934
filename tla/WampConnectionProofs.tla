------------------------ MODULE WampConnectionProofs ------------------------
(***************************************************************************)
(* Whatever the number of connections lost and of publications sent, the   *)
(* state is well typed and no two event threads handle events at the same  *)
(* time.  The latter holds because onOpen, which runs again for every      *)
(* connection, starts a thread only when none was ever started.            *)
(***************************************************************************)
EXTENDS WampConnection, TLAPS, SequenceTheorems

\* What the client library hands to the rx thread.
Message == Status \cup {"publication"}

RxInv == rx \in Seq(Message)
AtMostOneThread == DOMAIN threads \subseteq {1}

IInv == TypeOK /\ RxInv /\ AtMostOneThread

---------------------------------------------------------------------------
(* Lemmas. *)

\* A publication reaches the rx thread once for every active subscription.
LEMMA CopiesAreMessages ==
    ASSUME NEW n \in Nat
    PROVE  [i \in 1..n |-> "publication"] \in Seq(Message)
  BY IsASeq DEF Message

\* The messages that the elements of a sequence of messages are.
LEMMA RxElements ==
    ASSUME RxInv
    PROVE  \A i \in DOMAIN rx : rx[i] \in Status \cup {"publication"}
  BY ElementOfSeq, LenProperties DEF RxInv, Message

\* Taking the head of the queue of the rx thread leaves messages.
LEMMA RxTail ==
    ASSUME RxInv, rx # <<>>
    PROVE  Head(rx) \in Message /\ Tail(rx) \in Seq(Message)
  BY HeadTailProperties DEF RxInv

LEMMA InitInv == ASSUME Init PROVE IInv
  <1>1. RxInv
    BY DEF Init, RxInv, Message, Status
  <1>2. TypeOK
    BY <1>1, RxElements, ConnectionAssumption DEF Init, TypeOK, Status
  <1>3. AtMostOneThread
    BY DEF Init, AtMostOneThread
  <1>4. QED
    BY <1>1, <1>2, <1>3 DEF IInv

---------------------------------------------------------------------------
(* The client library and the router preserve the invariant. *)

LEMMA ConnectInv == ASSUME IInv, Connect PROVE IInv'
  <1> USE DEF IInv
  <1>1. link' \in {"connecting", "connected"}
    BY DEF Connect
  <1>2. link # "connected"
    BY DEF Connect
  <1>3. RxInv'
    BY <1>1, AppendProperties DEF Connect, RxInv, Message, Status
  <1>4. asked' + active' = 0
    BY <1>2 DEF Connect, TypeOK, subscriptions
  <1>5. TypeOK'
    BY <1>1, <1>3, <1>4, RxElements DEF Connect, TypeOK, RxInv, Message, Status, subscriptions
  <1>6. AtMostOneThread'
    BY DEF Connect, AtMostOneThread
  <1>7. QED
    BY <1>3, <1>5, <1>6

LEMMA LoseInv == ASSUME IInv, Lose PROVE IInv'
  <1> USE DEF IInv
  <1>1. RxInv'
    BY AppendProperties DEF Lose, RxInv, Message, Status
  <1>2. losses' \in 0..MaxLosses /\ retries' \in Nat /\ asked' = 0 /\ active' = 0
    BY ConnectionAssumption DEF Lose, TypeOK
  <1>3. \A i \in DOMAIN rx' : rx'[i] \in Status \cup {"publication"}
    BY <1>1, ElementOfSeq, LenProperties DEF RxInv, Message
  <1>4. TypeOK'
    BY <1>2, <1>3 DEF Lose, TypeOK, Status
  <1>5. AtMostOneThread'
    BY DEF Lose, AtMostOneThread
  <1>6. QED
    BY <1>1, <1>4, <1>5

LEMMA AcknowledgeInv == ASSUME IInv, Acknowledge PROVE IInv'
  <1> USE DEF IInv
  <1>1. asked' \in Nat /\ active' \in Nat /\ asked' + active' = asked + active
    BY DEF Acknowledge, TypeOK
  <1>2. TypeOK'
    BY <1>1 DEF Acknowledge, TypeOK
  <1>3. QED
    BY <1>2 DEF Acknowledge, RxInv, AtMostOneThread

LEMMA SendInv == ASSUME IInv, Send PROVE IInv'
  <1> USE DEF IInv
  <1>1. RxInv'
    BY CopiesAreMessages, ConcatProperties DEF Send, RxInv, TypeOK
  <1>2. sent' \in 0..MaxEvents
    BY ConnectionAssumption DEF Send, TypeOK
  <1>3. \A i \in DOMAIN rx' : rx'[i] \in Status \cup {"publication"}
    BY <1>1, ElementOfSeq, LenProperties DEF RxInv, Message
  <1>4. TypeOK'
    BY <1>2, <1>3 DEF Send, TypeOK, subscriptions
  <1>5. AtMostOneThread'
    BY DEF Send, AtMostOneThread
  <1>6. QED
    BY <1>1, <1>4, <1>5

---------------------------------------------------------------------------
(* The rx thread preserves it. *)

LEMMA OnOpenInv == ASSUME IInv, OnOpen PROVE IInv'
  <1> USE DEF IInv
  <1>1. RxInv'
    BY RxTail DEF OnOpen, RxInv
  <1>2. asked' \in Nat /\ retries' \in Nat /\ (link # "connected" => asked' = asked)
    BY DEF OnOpen, OnOpenSubscribes, Subscribe, TypeOK
  <1>3. \A i \in DOMAIN rx' : rx'[i] \in Status \cup {"publication"}
    BY <1>1, ElementOfSeq, LenProperties DEF RxInv, Message
  <1>4. TypeOK'
    BY <1>2, <1>3 DEF OnOpen, Callback, TypeOK
  <1>5. AtMostOneThread'
    BY DEF OnOpen, AtMostOneThread
  <1>6. QED
    BY <1>1, <1>4, <1>5

LEMMA OnOpenNotifiesInv == ASSUME IInv, OnOpenNotifies PROVE IInv'
  <1>1. TypeOK'
    BY DEF IInv, OnOpenNotifies, WakeWaiter, Callback, TypeOK
  <1>2. QED
    BY <1>1 DEF IInv, OnOpenNotifies, RxInv, AtMostOneThread

\* The step the theorem rests on: a thread is started only when there is none.
LEMMA OnOpenReturnsInv == ASSUME IInv, OnOpenReturns PROVE IInv'
  <1> USE DEF IInv
  <1>1. AtMostOneThread' /\ \A t \in DOMAIN threads' : threads'[t] \in {"check", "take", "handle", "exited"}
    <2>1. CASE threads = <<>>
      BY <2>1 DEF OnOpenReturns, StartEventThread, AtMostOneThread
    <2>2. CASE threads # <<>>
      BY <2>2 DEF OnOpenReturns, StartEventThread, AtMostOneThread, TypeOK
    <2>3. QED
      BY <2>1, <2>2
  <1>2. TypeOK'
    BY <1>1 DEF OnOpenReturns, Callback, TypeOK, Status
  <1>3. QED
    BY <1>1, <1>2 DEF OnOpenReturns, RxInv

LEMMA OtherStatusInv == ASSUME IInv, OtherStatus PROVE IInv'
  <1> USE DEF IInv
  <1>1. RxInv'
    BY RxTail DEF OtherStatus, RxInv
  <1>2. \A i \in DOMAIN rx' : rx'[i] \in Status \cup {"publication"}
    BY <1>1, ElementOfSeq, LenProperties DEF RxInv, Message
  <1>3. TypeOK'
    BY <1>2 DEF OtherStatus, Callback, TypeOK, Status
  <1>4. QED
    BY <1>1, <1>3 DEF OtherStatus, AtMostOneThread

LEMMA SetStateInv == ASSUME IInv, SetState PROVE IInv'
  <1>1. TypeOK'
    BY DEF IInv, SetState, Callback, TypeOK
  <1>2. QED
    BY <1>1 DEF IInv, SetState, RxInv, AtMostOneThread

LEMMA ReceivePublicationInv == ASSUME IInv, ReceivePublication PROVE IInv'
  <1> USE DEF IInv
  <1>1. RxInv'
    BY RxTail DEF ReceivePublication, RxInv
  <1>2. \A i \in DOMAIN rx' : rx'[i] \in Status \cup {"publication"}
    BY <1>1, ElementOfSeq, LenProperties DEF RxInv, Message
  <1>3. TypeOK'
    BY <1>2 DEF ReceivePublication, Callback, TypeOK
  <1>4. QED
    BY <1>1, <1>3 DEF ReceivePublication, AtMostOneThread

---------------------------------------------------------------------------
(* The other threads preserve it. *)

LEMMA ResubscribeInv == ASSUME IInv, Resubscribe PROVE IInv'
  <1>1. asked' \in Nat /\ retries' \in Nat /\ (link # "connected" => asked' = asked)
    BY DEF IInv, Resubscribe, TypeOK
  <1>2. TypeOK'
    BY <1>1 DEF IInv, Resubscribe, TypeOK
  <1>3. QED
    BY <1>2 DEF IInv, Resubscribe, RxInv, AtMostOneThread

\* A step of an event thread moves that thread and starts none.
LEMMA EventThreadMoves ==
    ASSUME IInv, NEW t \in DOMAIN threads, NEW from,
           NEW to \in {"check", "take", "handle", "exited"}, EventThread(t, from, to)
    PROVE  /\ AtMostOneThread'
           /\ \A u \in DOMAIN threads' : threads'[u] \in {"check", "take", "handle", "exited"}
  <1>1. DOMAIN threads' = DOMAIN threads
    BY DEF EventThread
  <1>2. \A u \in DOMAIN threads : threads'[u] = IF u = t THEN to ELSE threads[u]
    BY DEF EventThread
  <1>3. QED
    BY <1>1, <1>2 DEF IInv, TypeOK, AtMostOneThread

LEMMA EventThreadsInv == ASSUME IInv, EventThreads PROVE IInv'
  <1>1. PICK t \in DOMAIN threads : CheckState(t) \/ TakeEvent(t) \/ HandleEvent(t)
    BY DEF EventThreads
  <1>2. PICK from, to \in {"check", "take", "handle", "exited"} : EventThread(t, from, to)
    BY <1>1 DEF CheckState, TakeEvent, HandleEvent
  <1>3. events' \in Nat
    BY <1>1 DEF IInv, TypeOK, CheckState, TakeEvent, HandleEvent
  <1>4. /\ AtMostOneThread'
        /\ \A u \in DOMAIN threads' : threads'[u] \in {"check", "take", "handle", "exited"}
    BY <1>2, EventThreadMoves
  <1>5. TypeOK'
    BY <1>2, <1>3, <1>4 DEF IInv, TypeOK, EventThread, subscriptions
  <1>6. QED
    BY <1>2, <1>4, <1>5 DEF IInv, EventThread, RxInv

LEMMA WaiterInv == ASSUME IInv, WaitForConnection \/ SpuriousWakeup PROVE IInv'
  <1>1. TypeOK'
    BY DEF IInv, WaitForConnection, SpuriousWakeup, TypeOK, subscriptions
  <1>2. QED
    BY <1>1 DEF IInv, WaitForConnection, SpuriousWakeup, RxInv, AtMostOneThread

---------------------------------------------------------------------------
(* The theorems. *)

LEMMA StepInv == ASSUME IInv, [Next]_vars PROVE IInv'
  <1>1. CASE Connect \/ Lose \/ Acknowledge \/ Send
    BY <1>1, ConnectInv, LoseInv, AcknowledgeInv, SendInv
  <1>2. CASE RxThread
    BY <1>2, OnOpenInv, OnOpenNotifiesInv, OnOpenReturnsInv, OtherStatusInv, SetStateInv,
       ReceivePublicationInv DEF RxThread
  <1>3. CASE Resubscribe \/ EventThreads \/ WaitForConnection \/ SpuriousWakeup
    BY <1>3, ResubscribeInv, EventThreadsInv, WaiterInv
  <1>4. CASE UNCHANGED vars
    BY <1>4 DEF vars, subscriptions, IInv, TypeOK, RxInv, AtMostOneThread
  <1>5. QED
    BY <1>1, <1>2, <1>3, <1>4 DEF Next

LEMMA Invariance == Spec => []IInv
  <1>1. Init => IInv
    BY InitInv
  <1>2. IInv /\ [Next]_vars => IInv'
    BY StepInv
  <1>3. QED
    BY <1>1, <1>2, PTL DEF Spec

\* The state of the connection is well typed: in particular no subscription and no
\* request for one outlives its session (WampConnection: the session's lifetime).
THEOREM ConnectionTyped == Spec => []TypeOK
  <1>1. IInv => TypeOK
    BY DEF IInv
  <1>2. QED
    BY <1>1, Invariance, PTL

\* Whatever the order of reconnections, event handlers run one at a time
\* (Connection.open starts the event thread, Connection.run handles the events).
THEOREM HandlersRunAlone == Spec => []OneHandlerAtATime
  <1>1. IInv => OneHandlerAtATime
    BY DEF IInv, AtMostOneThread, OneHandlerAtATime
  <1>2. QED
    BY <1>1, Invariance, PTL

---------------------------------------------------------------------------
(* Why Subscribed can hold: a session in which the scheduler has neither a *)
(* subscription nor a request or a retry for one still has its "connected" *)
(* before the rx thread, and onOpen will ask.                              *)

Announced == \E i \in DOMAIN rx : rx[i] = "connected"
SubscriptionOnItsWay == link = "connected" => Announced \/ asked + active + retries > 0

\* What the rx thread has still to read stays when it takes something else.
LEMMA TailAnnounces ==
    ASSUME RxInv, rx # <<>>, Head(rx) # "connected", rx' = Tail(rx), Announced
    PROVE  Announced'
  <1>1. PICK i \in DOMAIN rx : rx[i] = "connected"
    BY DEF Announced
  <1>2. i \in 2..Len(rx)
    BY <1>1, HeadTailProperties, LenProperties DEF RxInv
  <1>3. i - 1 \in DOMAIN Tail(rx) /\ Tail(rx)[i - 1] = rx[i]
    BY <1>2, HeadTailProperties, LenProperties DEF RxInv
  <1>4. QED
    BY <1>1, <1>3 DEF Announced

\* The library and the router: a connection announces itself, an acknowledgement
\* turns a request into a subscription, and a loss ends the session.
LEMMA RouterKeepsSubscription ==
    ASSUME IInv, SubscriptionOnItsWay, Connect \/ Lose \/ Acknowledge \/ Send
    PROVE  SubscriptionOnItsWay'
  <1>1. CASE Connect
    <2>1. rx' = Append(rx, link')
      BY <1>1 DEF Connect
    <2>2. Len(rx) + 1 \in DOMAIN rx' /\ rx'[Len(rx) + 1] = link'
      BY <2>1, <1>1, AppendProperties, LenProperties DEF Connect, IInv, RxInv, Message, Status
    <2>3. QED
      BY <2>2 DEF SubscriptionOnItsWay, Announced
  <1>2. CASE Lose
    BY <1>2 DEF Lose, SubscriptionOnItsWay
  <1>3. CASE Acknowledge
    BY <1>3 DEF Acknowledge, SubscriptionOnItsWay, Announced, IInv, TypeOK
  <1>4. CASE Send
    BY <1>4 DEF Send, SubscriptionOnItsWay, IInv, TypeOK, subscriptions
  <1>5. QED
    BY <1>1, <1>2, <1>3, <1>4

\* onOpen asks, and a thread that tries again keeps trying.
LEMMA SchedulerKeepsSubscription ==
    ASSUME IInv, SubscriptionOnItsWay, RxThread \/ Resubscribe
    PROVE  SubscriptionOnItsWay'
  <1>1. CASE OnOpen
    BY <1>1 DEF OnOpen, OnOpenSubscribes, Subscribe, Callback, SubscriptionOnItsWay, IInv, TypeOK
  <1>2. CASE OtherStatus \/ ReceivePublication
    <2>1. Announced => Announced'
      BY <1>2, TailAnnounces DEF OtherStatus, ReceivePublication, IInv
    <2>2. QED
      BY <1>2, <2>1 DEF OtherStatus, ReceivePublication, Callback, SubscriptionOnItsWay
  <1>3. CASE OnOpenNotifies \/ OnOpenReturns \/ SetState
    BY <1>3 DEF OnOpenNotifies, OnOpenReturns, SetState, Callback, SubscriptionOnItsWay, Announced
  <1>4. CASE Resubscribe
    BY <1>4 DEF Resubscribe, SubscriptionOnItsWay, Announced, IInv, TypeOK
  <1>5. QED
    BY <1>1, <1>2, <1>3, <1>4 DEF RxThread

\* However connections come and go while onOpen runs, no session is left without a
\* subscription and without anything that will ask for one (onOpen runs for every
\* connection, and a request that failed is repeated).
THEOREM NoSessionForgotten == Spec => []SubscriptionOnItsWay
  <1>1. Init => SubscriptionOnItsWay
    BY DEF Init, SubscriptionOnItsWay
  <1>2. IInv /\ SubscriptionOnItsWay /\ [Next]_vars => SubscriptionOnItsWay'
    <2> SUFFICES ASSUME IInv, SubscriptionOnItsWay, [Next]_vars
                 PROVE  SubscriptionOnItsWay'
      OBVIOUS
    <2>1. CASE EventThreads
      BY <2>1 DEF EventThreads, CheckState, TakeEvent, HandleEvent, EventThread, subscriptions,
         SubscriptionOnItsWay, Announced
    <2>2. CASE WaitForConnection \/ SpuriousWakeup
      BY <2>2 DEF WaitForConnection, SpuriousWakeup, subscriptions, SubscriptionOnItsWay, Announced
    <2>3. CASE UNCHANGED vars
      BY <2>3 DEF vars, subscriptions, SubscriptionOnItsWay, Announced
    <2>4. QED
      BY <2>1, <2>2, <2>3, RouterKeepsSubscription, SchedulerKeepsSubscription DEF Next
  <1>3. QED
    BY <1>1, <1>2, Invariance, PTL DEF Spec
=============================================================================

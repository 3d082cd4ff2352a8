------------------------- MODULE RequestReplyProofs -------------------------
(***************************************************************************)
(* A request gets the response to itself or none, and "Responder dropped   *)
(* the channel" means that nobody responded: OwnReply and                  *)
(* DroppedWithoutReply, for any number of requests, responders and notices. *)
(***************************************************************************)
EXTENDS RequestReply, SequenceLemmas

\* The event a responder publishes for r.
Response(r) == <<Topic(r), r>>

Questions == Requests \cup Notices

Messages == Questions \cup {Response(r) : r \in Requests}

-----------------------------------------------------------------------------
(* The inductive invariant                                                 *)

ReplyTypes ==
  /\ shutdown_state \in {"Running", "Draining", "Stopped"}
  /\ queue \in Seq(Messages)
  /\ joined \in BOOLEAN
  /\ pc \in [Requests -> {"idle", "subscribe", "insert", "register", "publish", "wait",
                      "unsubscribe", "returned"}]
  /\ result \in [Requests -> Requests \cup {None, "refused", "timeout", "dropped"}]
  /\ oneshot \in [Requests -> Requests \cup {None, "dropped"}]
  /\ mapped \in SUBSET Requests
  /\ registered \in SUBSET Requests
  /\ task \in [Requests -> {"none", "live", "ended"}]
  /\ chan \in [Requests \cup Responders -> Seq(Questions)]
  /\ cancel \in SUBSET Requests
  /\ serving \in [Responders -> Questions \cup {None}]
  /\ responded \in SUBSET Requests

\* A response goes to the inbox of its own request, from there into its oneshot and from
\* there to its caller.
Correlated ==
  \A r \in Requests :
    /\ Response(r) \in Range(queue) => r \in responded
    /\ Range(chan[r]) \subseteq {r} \cap responded
    /\ oneshot[r] \in Requests => oneshot[r] = r /\ r \in responded
    /\ result[r] \in Requests => result[r] = r /\ r \in responded

\* Nobody has seen a request that was not published yet.
Unasked ==
  \A r \in Requests : pc[r] \in {"idle", "subscribe", "insert", "register", "publish"} =>
    /\ r \notin responded
    /\ r \notin Range(queue)
    /\ \A p \in Responders : r \notin Range(chan[p]) /\ serving[p] # r

\* The inbox of a call in progress is there until the shutdown removes it, and the
\* shutdown removes it with the queue empty for good.
Attended ==
  /\ joined => ~Running /\ queue = <<>>
  /\ \A r \in Requests :
       /\ pc[r] \in {"idle", "subscribe", "insert"} => task[r] = "none" /\ oneshot[r] = None
       /\ pc[r] \in {"register", "publish", "wait"} =>
            joined \/ (r \in mapped /\ task[r] = "live")
       /\ pc[r] \in {"publish", "wait"} => joined \/ r \in registered
       /\ r \in cancel => pc[r] = "returned"

\* An accepted response is on its way to the caller that waits for it, or there.
Pursued ==
  \A r \in Requests : pc[r] = "wait" /\ r \in responded =>
    Response(r) \in Range(queue) \/ r \in Range(chan[r]) \/ oneshot[r] = r

\* A sender is dropped in the middle of a call only by a shutdown, and when there is no
\* response.
DroppedInVain ==
  \A r \in Requests :
    \/ oneshot[r] = "dropped" /\ pc[r] \in {"register", "publish", "wait"}
    \/ result[r] = "dropped"
    => joined /\ r \notin responded

ReplyInv ==
  ReplyTypes /\ Correlated /\ Unasked /\ Attended /\ Pursued /\ DroppedInVain

-----------------------------------------------------------------------------
(* It is inductive                                                         *)

\* Responses are none of the requests and notices, and each has a topic of its own, which
\* names one inbox.
LEMMA ResponseNames ==
  \A r \in Requests :
    /\ Response(r) \notin Requests \cup Notices
    /\ Response(r)[1] = Topic(r) /\ Response(r)[2] = r
    /\ \A q \in Requests : Topic(q) = Topic(r) <=> q = r
    /\ \A q \in Requests : Response(q) = Response(r) <=> q = r
BY RequestConstants DEF Response, Topic

\* Requests are no notices, responders or outcomes of a call.
LEMMA RequestNames ==
  /\ \A r \in Requests : r \notin Notices /\ r \notin Responders
  /\ \A r \in Requests \cup Notices : r # None /\ r \notin {"refused", "timeout", "dropped"}
  /\ None \notin {"refused", "timeout", "dropped"}
BY RequestConstants

\* Every step of a call keeps the invariant.
LEMMA CallKeepsReplyInv ==
  ASSUME ReplyInv, NEW r \in Requests, Request(r) \/ Call(r)
  PROVE  ReplyInv'
<1> USE DEF ReplyInv, ReplyTypes, callVars, inboxVars, subscriptionVars, responderVars, busVars,
    Running, Returns
<1>1. CASE Request(r)
  <2>0. /\ \A q \in Requests : result'[q] = result[q] \/ result'[q] = "refused"
        /\ UNCHANGED <<inboxVars, responderVars, queue, chan>>
    BY <1>1 DEF Request
  <2>1. ReplyTypes'
    BY <1>1 DEF Request
  <2>2. Correlated'
    BY <2>0, RequestNames DEF Correlated
  <2>3. Unasked'
    BY <1>1 DEF Request, Unasked
  <2>4. Attended'
    BY <1>1 DEF Request, Attended
  <2>5. Pursued'
    BY <1>1 DEF Request, Pursued
  <2>6. DroppedInVain'
    BY <1>1, RequestNames DEF Request, DroppedInVain
  <2> QED
    BY <2>1, <2>2, <2>3, <2>4, <2>5, <2>6 DEF ReplyInv
<1>2. CASE (SubscribeInbox(r) /\ Running) \/ InsertInbox(r) \/ RegisterInbox(r)
  <2>1. /\ \/ /\ pc[r] = "subscribe" /\ pc' = [pc EXCEPT ![r] = "insert"]
              /\ UNCHANGED <<mapped, registered, task>>
           \/ /\ pc[r] = "insert" /\ pc' = [pc EXCEPT ![r] = "register"]
              /\ task' = [task EXCEPT ![r] = "live"]
              /\ mapped' = mapped \cup {r}
              /\ UNCHANGED registered
           \/ /\ pc[r] = "register" /\ pc' = [pc EXCEPT ![r] = "publish"]
              /\ registered' = registered \cup {r}
              /\ UNCHANGED <<mapped, task>>
        /\ UNCHANGED <<result, cancel, oneshot, responderVars, busVars, queue, chan>>
    BY <1>2 DEF SubscribeInbox, InsertInbox, RegisterInbox
  <2>2. ReplyTypes'
    BY <2>1
  <2>3. Correlated'
    BY <2>1 DEF Correlated
  <2>4. Unasked'
    BY <2>1 DEF Unasked
  <2>5. Attended'
    BY <2>1 DEF Attended
  <2>6. Pursued'
    BY <2>1 DEF Pursued
  <2>7. DroppedInVain'
    BY <2>1, RequestNames DEF DroppedInVain, Attended
  <2> QED
    BY <2>2, <2>3, <2>4, <2>5, <2>6, <2>7 DEF ReplyInv
<1>3. CASE (SubscribeInbox(r) \/ PublishRequest(r)) /\ ~Running
  <2>1. /\ pc[r] \in {"subscribe", "publish"}
        /\ pc' = [pc EXCEPT ![r] = "returned"]
        /\ result' = [result EXCEPT ![r] = "refused"]
        /\ cancel' = cancel \/ cancel' = cancel \cup {r}
        /\ UNCHANGED <<inboxVars, responderVars, busVars, queue, subscriptionVars, chan>>
    BY <1>3 DEF SubscribeInbox, PublishRequest
  <2>2. ReplyTypes'
    BY <2>1
  <2>3. Correlated'
    BY <2>1, RequestNames DEF Correlated
  <2>4. Unasked'
    BY <2>1 DEF Unasked
  <2>5. Attended'
    BY <2>1 DEF Attended
  <2>6. Pursued'
    BY <2>1 DEF Pursued
  <2>7. DroppedInVain'
    BY <2>1, RequestNames DEF DroppedInVain
  <2> QED
    BY <2>2, <2>3, <2>4, <2>5, <2>6, <2>7 DEF ReplyInv
<1>4. CASE PublishRequest(r) /\ Running
  <2>1. /\ pc[r] = "publish" /\ pc' = [pc EXCEPT ![r] = "wait"]
        /\ queue' = Append(queue, r)
        /\ UNCHANGED <<result, cancel, inboxVars, responderVars, busVars, subscriptionVars, chan>>
    BY <1>4 DEF PublishRequest
  <2>2. queue' \in Seq(Messages) /\ Range(queue') = Range(queue) \cup {r}
    <3>1. r \in Messages
      BY DEF Messages, Questions
    <3> QED
      BY <2>1, <3>1, AppendElements
  <2>3. ~joined
    BY <1>4 DEF Attended
  <2>4. ReplyTypes'
    BY <2>1, <2>2
  <2>5. Correlated'
    BY <2>1, <2>2, RequestNames, ResponseNames DEF Correlated
  <2>6. Unasked'
    BY <2>1, <2>2 DEF Unasked
  <2>7. Attended'
    BY <2>1, <2>2, <2>3 DEF Attended
  <2>8. Pursued'
    BY <2>1, <2>2, RequestNames, ResponseNames DEF Pursued, Unasked
  <2>9. DroppedInVain'
    BY <2>1, <2>2 DEF DroppedInVain
  <2> QED
    BY <2>4, <2>5, <2>6, <2>7, <2>8, <2>9 DEF ReplyInv
<1>5. CASE Answered(r)
  <2>1. oneshot[r] \in {r, "dropped"} /\ oneshot[r] # None
    BY <1>5 DEF Answered, Correlated
  <2>2. ReplyTypes'
    BY <1>5, <2>1 DEF Answered
  <2>3. Correlated'
    BY <1>5, <2>1, RequestNames DEF Answered, Correlated
  <2>4. Unasked'
    BY <1>5, <2>1 DEF Answered, Unasked
  <2>5. Attended'
    BY <1>5, <2>1 DEF Answered, Attended
  <2>6. Pursued'
    BY <1>5, <2>1 DEF Answered, Pursued
  <2>7. DroppedInVain'
    BY <1>5, <2>1, RequestNames DEF Answered, DroppedInVain
  <2> QED
    BY <2>2, <2>3, <2>4, <2>5, <2>6, <2>7 DEF ReplyInv
<1>6. CASE TimedOut(r)
  <2>1. ReplyTypes'
    BY <1>6 DEF TimedOut
  <2>2. Correlated'
    BY <1>6, RequestNames DEF TimedOut, Correlated
  <2>3. Unasked'
    BY <1>6 DEF TimedOut, Unasked
  <2>4. Attended'
    BY <1>6 DEF TimedOut, Attended
  <2>5. Pursued'
    BY <1>6 DEF TimedOut, Pursued
  <2>6. DroppedInVain'
    BY <1>6, RequestNames DEF TimedOut, DroppedInVain
  <2> QED
    BY <2>1, <2>2, <2>3, <2>4, <2>5, <2>6 DEF ReplyInv
<1>7. CASE Unsubscribe(r) /\ r \in registered \cap mapped
  <2>1. /\ pc[r] = "unsubscribe" /\ pc' = [pc EXCEPT ![r] = "returned"]
        /\ registered' = registered \ {r} /\ mapped' = mapped \ {r}
        /\ cancel' = cancel \cup {r}
        /\ task' = [task EXCEPT ![r] = "ended"]
        /\ chan' = [chan EXCEPT ![r] = <<>>]
        /\ oneshot' = [oneshot EXCEPT ![r] = IF oneshot[r] = None THEN "dropped" ELSE oneshot[r]]
        /\ UNCHANGED <<result, responderVars, busVars, queue>>
    BY <1>7 DEF Unsubscribe, EndTask
  <2>2. Range(<<>>) = {} /\ <<>> \in Seq(Questions)
    BY DEF Range
  <2>3. ReplyTypes'
    BY <2>1, <2>2
  <2>4. Correlated'
    BY <2>1, <2>2, RequestNames DEF Correlated
  <2>5. Unasked'
    BY <2>1, <2>2 DEF Unasked
  <2>6. Attended'
    BY <2>1, <2>2 DEF Attended
  <2>7. Pursued'
    BY <2>1, <2>2 DEF Pursued
  <2>8. DroppedInVain'
    BY <2>1, <2>2, RequestNames DEF DroppedInVain
  <2> QED
    BY <2>3, <2>4, <2>5, <2>6, <2>7, <2>8 DEF ReplyInv
<1>8. CASE Unsubscribe(r) /\ r \notin registered \cap mapped
  <2>1. ReplyTypes'
    BY <1>8 DEF Unsubscribe
  <2>2. Correlated'
    BY <1>8, RequestNames DEF Unsubscribe, Correlated
  <2>3. Unasked'
    BY <1>8 DEF Unsubscribe, Unasked
  <2>4. Attended'
    BY <1>8 DEF Unsubscribe, Attended
  <2>5. Pursued'
    BY <1>8 DEF Unsubscribe, Pursued
  <2>6. DroppedInVain'
    BY <1>8, RequestNames DEF Unsubscribe, DroppedInVain
  <2> QED
    BY <2>1, <2>2, <2>3, <2>4, <2>5, <2>6 DEF ReplyInv
<1> QED
  BY <1>1, <1>2, <1>3, <1>4, <1>5, <1>6, <1>7, <1>8 DEF Call

\* So does every step of the task of an inbox.
LEMMA InboxKeepsReplyInv ==
  ASSUME ReplyInv, NEW r \in Requests, Inbox(r)
  PROVE  ReplyInv'
<1> USE DEF ReplyInv, ReplyTypes, callVars, inboxVars, subscriptionVars, responderVars, busVars,
    Running
<1>1. CASE InboxHandle(r)
  <2>1. /\ Head(chan[r]) \in Questions
        /\ Tail(chan[r]) \in Seq(Questions)
        /\ Range(chan[r]) = {Head(chan[r])} \cup Range(Tail(chan[r]))
    BY <1>1, TailElements DEF InboxHandle
  <2>2. Head(chan[r]) = r /\ r \in responded
    BY <2>1 DEF Correlated
  <2>3. /\ chan' = [chan EXCEPT ![r] = Tail(chan[r])]
        /\ oneshot' = [oneshot EXCEPT ![r] = IF oneshot[r] = None THEN r ELSE oneshot[r]]
        /\ UNCHANGED <<task, callVars, responderVars, busVars, queue, subscriptionVars>>
        /\ task[r] = "live"
    BY <1>1, <2>2 DEF InboxHandle
  <2>4. oneshot'[r] = r \/ (oneshot[r] = "dropped" /\ oneshot' = oneshot)
    BY <2>3, RequestNames DEF Correlated
  <2>5. ReplyTypes'
    BY <2>1, <2>2, <2>3
  <2>6. Correlated'
    BY <2>1, <2>2, <2>3, RequestNames DEF Correlated
  <2>7. Unasked'
    BY <2>1, <2>2, <2>3, RequestNames DEF Unasked
  <2>8. Attended'
    BY <2>1, <2>2, <2>3 DEF Attended
  <2>9. Pursued'
    BY <2>1, <2>2, <2>3, <2>4, RequestNames DEF Pursued, DroppedInVain
  <2>10. DroppedInVain'
    BY <2>1, <2>2, <2>3, RequestNames DEF DroppedInVain
  <2> QED
    BY <2>5, <2>6, <2>7, <2>8, <2>9, <2>10 DEF ReplyInv
<1>2. CASE InboxEnds(r)
  <2>1. /\ task[r] = "live" /\ task' = [task EXCEPT ![r] = "ended"]
        /\ chan' = [chan EXCEPT ![r] = <<>>]
        /\ oneshot' = [oneshot EXCEPT ![r] = IF oneshot[r] = None THEN "dropped" ELSE oneshot[r]]
        /\ registered' = IF r \in mapped THEN registered \ {r} ELSE registered
        /\ mapped' = mapped \ {r}
        /\ UNCHANGED <<callVars, responderVars, busVars, queue>>
    BY <1>2 DEF InboxEnds, EndTask
  <2>2. Range(<<>>) = {} /\ <<>> \in Seq(Questions)
    BY DEF Range
  <2>3. pc[r] \in {"register", "publish", "wait"} => joined /\ queue = <<>> /\ chan[r] = <<>>
    BY <1>2 DEF InboxEnds, Attended
  <2>4. pc[r] = "wait" /\ r \in responded => oneshot[r] = r
    BY <2>2, <2>3 DEF Pursued
  <2>5. pc[r] \in {"register", "publish"} => r \notin responded
    BY DEF Unasked
  <2>6. ReplyTypes'
    BY <2>1, <2>2
  <2>7. Correlated'
    BY <2>1, <2>2, RequestNames DEF Correlated
  <2>8. Unasked'
    BY <2>1, <2>2, RequestNames DEF Unasked
  <2>9. Attended'
    BY <2>1, <2>2, <2>3 DEF Attended
  <2>10. Pursued'
    BY <2>1, <2>2, <2>4, RequestNames DEF Pursued
  <2>11. DroppedInVain'
    BY <2>1, <2>2, <2>3, <2>4, <2>5, RequestNames DEF DroppedInVain
  <2> QED
    BY <2>6, <2>7, <2>8, <2>9, <2>10, <2>11 DEF ReplyInv
<1> QED
  BY <1>1, <1>2 DEF Inbox

\* And every step of a responder.
LEMMA ResponderKeepsReplyInv ==
  ASSUME ReplyInv, NEW p \in Responders, Responder(p)
  PROVE  ReplyInv'
<1> USE DEF ReplyInv, ReplyTypes, callVars, inboxVars, subscriptionVars, responderVars, busVars,
    Running
<1>1. CASE Serve(p)
  <2>1. /\ Head(chan[p]) \in Questions
        /\ Tail(chan[p]) \in Seq(Questions)
        /\ Range(chan[p]) = {Head(chan[p])} \cup Range(Tail(chan[p]))
    BY <1>1, TailElements DEF Serve
  <2>2. \A q \in Requests : chan'[q] = chan[q]
    BY <1>1, RequestNames DEF Serve
  <2>3. ReplyTypes'
    BY <1>1, <2>1, <2>2 DEF Serve
  <2>4. Correlated'
    BY <1>1, <2>1, <2>2 DEF Serve, Correlated
  <2>5. Unasked'
    BY <1>1, <2>1, <2>2 DEF Serve, Unasked
  <2>6. Attended'
    BY <1>1, <2>1, <2>2 DEF Serve, Attended
  <2>7. Pursued'
    BY <1>1, <2>1, <2>2 DEF Serve, Pursued
  <2>8. DroppedInVain'
    BY <1>1, <2>1, <2>2 DEF Serve, DroppedInVain
  <2> QED
    BY <2>3, <2>4, <2>5, <2>6, <2>7, <2>8 DEF ReplyInv
<1>2. CASE Respond(p) /\ serving[p] \in Requests /\ Running
  <2>1. /\ queue' = Append(queue, Response(serving[p]))
        /\ responded' = responded \cup {serving[p]}
        /\ serving' = [serving EXCEPT ![p] = None]
        /\ UNCHANGED <<callVars, inboxVars, busVars, subscriptionVars, chan>>
    BY <1>2 DEF Respond, Response
  <2>2. queue' \in Seq(Messages) /\ Range(queue') = Range(queue) \cup {Response(serving[p])}
    <3>1. Response(serving[p]) \in Messages
      BY <1>2 DEF Messages
    <3> QED
      BY <2>1, <3>1, AppendElements
  <2>3. ~joined
    BY <1>2 DEF Attended
  <2>4. ReplyTypes'
    BY <1>2, <2>1, <2>2
  <2>5. Correlated'
    BY <1>2, <2>1, <2>2, ResponseNames DEF Correlated
  <2>6. Unasked'
    BY <1>2, <2>1, <2>2, RequestNames, ResponseNames DEF Unasked
  <2>7. Attended'
    BY <1>2, <2>1, <2>2, <2>3 DEF Attended
  <2>8. Pursued'
    BY <1>2, <2>1, <2>2, ResponseNames DEF Pursued
  <2>9. DroppedInVain'
    BY <1>2, <2>1, <2>2, <2>3 DEF DroppedInVain, Attended
  <2> QED
    BY <2>4, <2>5, <2>6, <2>7, <2>8, <2>9 DEF ReplyInv
<1>3. CASE Respond(p) /\ ~(serving[p] \in Requests /\ Running)
  <2>1. ReplyTypes'
    BY <1>3 DEF Respond
  <2>2. Correlated'
    BY <1>3 DEF Respond, Correlated
  <2>3. Unasked'
    BY <1>3, RequestNames DEF Respond, Unasked
  <2>4. Attended'
    BY <1>3 DEF Respond, Attended
  <2>5. Pursued'
    BY <1>3 DEF Respond, Pursued
  <2>6. DroppedInVain'
    BY <1>3 DEF Respond, DroppedInVain
  <2> QED
    BY <2>1, <2>2, <2>3, <2>4, <2>5, <2>6 DEF ReplyInv
<1>4. CASE RespondAgain(p)
  <2>1. ReplyTypes'
    BY <1>4 DEF RespondAgain
  <2>2. Correlated'
    BY <1>4 DEF RespondAgain, Correlated
  <2>3. Unasked'
    BY <1>4 DEF RespondAgain, Unasked
  <2>4. Attended'
    BY <1>4 DEF RespondAgain, Attended
  <2>5. Pursued'
    BY <1>4 DEF RespondAgain, Pursued
  <2>6. DroppedInVain'
    BY <1>4 DEF RespondAgain, DroppedInVain
  <2> QED
    BY <2>1, <2>2, <2>3, <2>4, <2>5, <2>6 DEF ReplyInv
<1> QED
  BY <1>1, <1>2, <1>3, <1>4 DEF Responder

\* And every step of the bus in between.
LEMMA BusKeepsReplyInv ==
  ASSUME ReplyInv,
         \/ \E n \in Notices : Notify(n)
         \/ Dispatch
         \/ ShutdownBegin \/ RemoveSubscriptions \/ ShutdownDone
  PROVE  ReplyInv'
<1> USE DEF ReplyInv, ReplyTypes, callVars, inboxVars, subscriptionVars, responderVars, busVars,
    Running
<1>1. ASSUME NEW n \in Notices, Notify(n) PROVE ReplyInv'
  <2>1. queue' \in Seq(Messages) /\ Range(queue') = Range(queue) \cup {n}
    <3>1. n \in Messages
      BY DEF Messages, Questions
    <3> QED
      BY <1>1, <3>1, AppendElements DEF Notify
  <2>2. ReplyTypes'
    BY <1>1, <2>1 DEF Notify
  <2>3. Correlated'
    BY <1>1, <2>1, ResponseNames DEF Notify, Correlated
  <2>4. Unasked'
    BY <1>1, <2>1, RequestNames DEF Notify, Unasked
  <2>5. Attended'
    BY <1>1, <2>1 DEF Notify, Attended
  <2>6. Pursued'
    BY <1>1, <2>1 DEF Notify, Pursued
  <2>7. DroppedInVain'
    BY <1>1, <2>1 DEF Notify, DroppedInVain
  <2> QED
    BY <2>2, <2>3, <2>4, <2>5, <2>6, <2>7 DEF ReplyInv
<1>2. CASE Dispatch
  <2> DEFINE x == Head(queue)
  <2>0. UNCHANGED <<callVars, inboxVars, responderVars, busVars, subscriptionVars>>
    BY <1>2 DEF Dispatch
  <2>1. /\ x \in Messages
        /\ queue' \in Seq(Messages)
        /\ Range(queue) = {x} \cup Range(queue')
        /\ ~joined
    BY <1>2, TailElements DEF Dispatch, Attended
  <2>2. CASE x \in Requests \cup Notices
    <3>1. chan' = [y \in Requests \cup Responders |->
                     IF y \in Responders THEN Append(chan[y], x) ELSE chan[y]]
      BY <1>2, <2>1, <2>2 DEF Dispatch
    <3>2. \A y \in Responders : /\ chan'[y] \in Seq(Questions)
                                /\ Range(chan'[y]) = Range(chan[y]) \cup {x}
      <4> TAKE y \in Responders
      <4>1. chan[y] \in Seq(Questions) /\ chan'[y] = Append(chan[y], x) /\ x \in Questions
        BY <2>2, <3>1 DEF Questions
      <4> HIDE DEF x
      <4> QED
        BY <4>1, AppendElements
    <3>3. \A y \in Requests : chan'[y] = chan[y]
      BY <3>1, RequestNames
    <3>4. chan' \in [Requests \cup Responders -> Seq(Questions)]
      BY <3>1, <3>2, <3>3
    <3> HIDE DEF x
    <3>5. ReplyTypes'
      BY <2>0, <2>1, <2>2, <3>2, <3>3, <3>4
    <3>6. Correlated'
      BY <2>0, <2>1, <2>2, <3>2, <3>3, <3>4 DEF Correlated
    <3>7. Unasked'
      BY <2>0, <2>1, <2>2, <3>2, <3>3, <3>4 DEF Unasked
    <3>8. Attended'
      BY <2>0, <2>1, <2>2, <3>2, <3>3, <3>4 DEF Attended
    <3>9. Pursued'
      BY <2>0, <2>1, <2>2, <3>2, <3>3, <3>4, ResponseNames DEF Pursued
    <3>10. DroppedInVain'
      BY <2>0, <2>1, <2>2, <3>2, <3>3, <3>4 DEF DroppedInVain
    <3> QED
      BY <3>5, <3>6, <3>7, <3>8, <3>9, <3>10 DEF ReplyInv
  <2>3. ASSUME NEW r \in Requests, x = Response(r) PROVE ReplyInv'
    <3>1. chan' = [y \in Requests \cup Responders |->
                     IF y \in {r} \cap registered \cap mapped THEN Append(chan[y], r) ELSE chan[y]]
      <4>1. x \notin Requests \cup Notices /\ x[1] = Topic(r) /\ x[2] = r
        BY <2>3, ResponseNames
      <4>2. {q \in registered \cap mapped : Topic(q) = Topic(r)} = {r} \cap registered \cap mapped
        BY ResponseNames
      <4> QED
        BY <1>2, <4>1, <4>2 DEF Dispatch
    <3>2. ASSUME r \in registered \cap mapped
          PROVE  chan'[r] \in Seq(Questions) /\ Range(chan'[r]) = Range(chan[r]) \cup {r}
      <4>1. chan[r] \in Seq(Questions) /\ r \in Questions /\ chan'[r] = Append(chan[r], r)
        BY <3>1, <3>2 DEF Questions
      <4> QED
        BY <4>1, AppendElements
    <3>3. \A y \in Requests \cup Responders : y # r \/ r \notin registered \cap mapped => chan'[y] = chan[y]
      BY <3>1
    <3>4. chan' \in [Requests \cup Responders -> Seq(Questions)]
      BY <3>1, <3>2, <3>3
    <3>5. r \in responded
      BY <2>1, <2>3 DEF Correlated
    <3> HIDE DEF x
    <3>6. ReplyTypes'
      BY <2>0, <2>1, <2>3, <3>2, <3>3, <3>4, <3>5
    <3>7. Correlated'
      BY <2>0, <2>1, <2>3, <3>2, <3>3, <3>4, <3>5 DEF Correlated
    <3>8. Unasked'
      BY <2>0, <2>1, <2>3, <3>2, <3>3, <3>4, <3>5, RequestNames DEF Unasked
    <3>9. Attended'
      BY <2>0, <2>1, <2>3, <3>2, <3>3, <3>4, <3>5 DEF Attended
    <3>10. Pursued'
      BY <2>0, <2>1, <2>3, <3>2, <3>3, <3>4, <3>5, ResponseNames DEF Pursued, Attended
    <3>11. DroppedInVain'
      BY <2>0, <2>1, <2>3, <3>2, <3>3, <3>4, <3>5 DEF DroppedInVain
    <3> QED
      BY <3>6, <3>7, <3>8, <3>9, <3>10, <3>11 DEF ReplyInv
  <2> QED
    BY <2>1, <2>2, <2>3 DEF Messages, Questions
<1>3. CASE ShutdownBegin \/ RemoveSubscriptions \/ ShutdownDone
  <2>1. ReplyTypes'
    BY <1>3 DEF ShutdownBegin, RemoveSubscriptions, ShutdownDone
  <2>2. Correlated'
    BY <1>3 DEF ShutdownBegin, RemoveSubscriptions, ShutdownDone, Correlated
  <2>3. Unasked'
    BY <1>3 DEF ShutdownBegin, RemoveSubscriptions, ShutdownDone, Unasked
  <2>4. Attended'
    BY <1>3 DEF ShutdownBegin, RemoveSubscriptions, ShutdownDone, Attended
  <2>5. Pursued'
    BY <1>3 DEF ShutdownBegin, RemoveSubscriptions, ShutdownDone, Pursued
  <2>6. DroppedInVain'
    BY <1>3 DEF ShutdownBegin, RemoveSubscriptions, ShutdownDone, DroppedInVain
  <2> QED
    BY <2>1, <2>2, <2>3, <2>4, <2>5, <2>6 DEF ReplyInv
<1> QED
  BY <1>1, <1>2, <1>3

\* The invariant holds throughout.
THEOREM ReplyInvariant == Spec => []ReplyInv
<1>1. ASSUME Init PROVE ReplyInv
  <2>1. <<>> \in Seq(Messages) /\ <<>> \in Seq(Questions) /\ Range(<<>>) = {}
    BY DEF Range
  <2>2. ReplyTypes
    BY <1>1, <2>1 DEF Init, ReplyTypes
  <2>3. Correlated
    BY <1>1, <2>1, RequestNames DEF Init, Correlated
  <2>4. Unasked
    BY <1>1, <2>1, RequestNames DEF Init, Unasked, Questions
  <2>5. Attended /\ Pursued /\ DroppedInVain
    BY <1>1, RequestNames DEF Init, Attended, Pursued, DroppedInVain
  <2> QED
    BY <2>2, <2>3, <2>4, <2>5 DEF ReplyInv
<1>2. ASSUME ReplyInv, Next PROVE ReplyInv'
  <2>1. CASE Rest
    BY <1>2, <2>1 DEF Rest, vars, callVars, inboxVars, subscriptionVars, responderVars, busVars, Running,
       ReplyInv, ReplyTypes, Correlated, Unasked, Attended, Pursued, DroppedInVain
  <2> QED
    BY <1>2, <2>1, CallKeepsReplyInv, InboxKeepsReplyInv, ResponderKeepsReplyInv, BusKeepsReplyInv
    DEF Next
<1>3. ASSUME ReplyInv, UNCHANGED vars PROVE ReplyInv'
  BY <1>3 DEF vars, callVars, inboxVars, subscriptionVars, responderVars, busVars, Running,
     ReplyInv, ReplyTypes, Correlated, Unasked, Attended, Pursued, DroppedInVain
<1> QED
  BY <1>1, <1>2, <1>3, PTL DEF Spec

\* A request returns the response to itself or none, however many requests and responders
\* there are and however late their responses come.
THEOREM RequestGetsOwnReply == Spec => []OwnReply
<1>1. ReplyInv => OwnReply
  BY DEF ReplyInv, Correlated, OwnReply
<1> QED
  BY <1>1, ReplyInvariant, PTL

\* The error that the responder dropped the channel is returned only in a shutdown, and
\* never when the bus had accepted a response.
THEOREM DropMeansNoReply == Spec => []DroppedWithoutReply
<1>1. ReplyInv => DroppedWithoutReply
  BY DEF ReplyInv, Attended, DroppedInVain, DroppedWithoutReply
<1> QED
  BY <1>1, ReplyInvariant, PTL
=============================================================================

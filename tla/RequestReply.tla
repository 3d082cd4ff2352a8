---------------------------- MODULE RequestReply ----------------------------
(***************************************************************************)
(* The request-reply pattern (bus/mod.rs): request with its ephemeral inbox *)
(* subscription, oneshot channel and timeout, and respond with the handler *)
(* that publishes the response to the reply_to topic, against a graceful   *)
(* shutdown. The bus in between is reduced to what BusContract promises: an *)
(* accepted event passes the queue and reaches the subscriptions it finds  *)
(* registered. Full queues and channels are the matter of EventBus.        *)
(***************************************************************************)
EXTENDS Naturals, Sequences

CONSTANTS
  Requests,   \* calls of request
  Notices,    \* events of the same type published without reply_to
  Responders, \* subscriptions made with respond
  MaxRetries, \* max_retries of the subscription manager
  None

ASSUME RequestConstants ==
  /\ Requests \cap (Notices \cup Responders) = {}
  /\ {None, "refused", "timeout", "dropped"} \cap (Requests \cup Notices) = {}
  /\ None \notin {"refused", "timeout", "dropped"}
  /\ \A r \in Requests : <<<<"_INBOX", r>>, r>> \notin Requests \cup Notices
  /\ MaxRetries \in Nat

VARIABLES
  shutdown_state,
  queue,      \* accepted events: requests, notices, and responses <<topic, request>>
  joined,     \* the shutdown has seen the dispatcher's worker end
  pc,         \* where each request is
  result,     \* what it returns
  oneshot,    \* the channel of each request: None, its sender dropped, or what was sent
  mapped,     \* requests whose inbox is in the map of the subscription manager
  registered, \* requests whose inbox is in the registry
  task,       \* state of the task of each inbox
  chan,       \* chan[x]: the channel of a responder or of an inbox
  cancel,     \* inboxes whose handle was dropped
  serving,    \* the event each responder handles
  attempt,    \* its attempts at it
  noticed,    \* notices that were published
  responded   \* history: requests for which a response was accepted

callVars == <<pc, result, cancel>>
inboxVars == <<task, oneshot>>
subscriptionVars == <<mapped, registered>>
responderVars == <<serving, attempt, responded>>
busVars == <<shutdown_state, joined, noticed>>

vars == <<callVars, inboxVars, responderVars, busVars, queue, subscriptionVars, chan>>

Init ==
  /\ shutdown_state = "Running"
  /\ queue = <<>>
  /\ joined = FALSE
  /\ pc = [r \in Requests |-> "idle"]
  /\ result = [r \in Requests |-> None]
  /\ oneshot = [r \in Requests |-> None]
  /\ mapped = {}
  /\ registered = {}
  /\ task = [r \in Requests |-> "none"]
  /\ chan = [x \in Requests \cup Responders |-> <<>>]
  /\ cancel = {}
  /\ serving = [p \in Responders |-> None]
  /\ attempt = [p \in Responders |-> 0]
  /\ noticed = {}
  /\ responded = {}

-----------------------------------------------------------------------------
(* request                                                                 *)

Running == shutdown_state = "Running"

\* Mutant of Topic: all requests share one inbox topic.
Topic_Shared(r) == "_INBOX"

\* The inbox topic, with a fresh Uuid in it.
Topic(r) == <<"_INBOX", r>>

\* The call returns; a handle it still has is dropped, which cancels the subscription.
Returns(r, value) ==
  /\ pc' = [pc EXCEPT ![r] = "returned"]
  /\ result' = [result EXCEPT ![r] = value]

Request(r) ==
  /\ pc[r] = "idle"
  /\ IF Running THEN pc' = [pc EXCEPT ![r] = "subscribe"] /\ UNCHANGED result
                ELSE Returns(r, "refused")
  /\ UNCHANGED <<cancel, inboxVars, responderVars, busVars, queue, subscriptionVars, chan>>

\* subscribe_topic, which looks at the shutdown state again.
SubscribeInbox(r) ==
  /\ pc[r] = "subscribe"
  /\ IF Running THEN pc' = [pc EXCEPT ![r] = "insert"] /\ UNCHANGED result
                ELSE Returns(r, "refused")
  /\ UNCHANGED <<cancel, inboxVars, responderVars, busVars, queue, subscriptionVars, chan>>

\* The task of the inbox starts and its sender goes into the map, whatever the shutdown has
\* done since the check.
InsertInbox(r) ==
  /\ pc[r] = "insert"
  /\ pc' = [pc EXCEPT ![r] = "register"]
  /\ task' = [task EXCEPT ![r] = "live"]
  /\ mapped' = mapped \cup {r}
  /\ UNCHANGED <<result, cancel, oneshot, responderVars, busVars, queue, registered, chan>>

\* Then the registry, even when a shutdown has taken the inbox out of the map meanwhile.
RegisterInbox(r) ==
  /\ pc[r] = "register"
  /\ pc' = [pc EXCEPT ![r] = "publish"]
  /\ registered' = registered \cup {r}
  /\ UNCHANGED <<result, cancel, inboxVars, responderVars, busVars, queue, mapped, chan>>

\* Mutant of PublishRequest: the handle outlives the error, as if it were detached.
PublishRequest_Leaks(r) ==
  /\ pc[r] = "publish"
  /\ IF Running
     THEN queue' = Append(queue, r) /\ pc' = [pc EXCEPT ![r] = "wait"] /\ UNCHANGED result
     ELSE Returns(r, "refused") /\ UNCHANGED queue
  /\ UNCHANGED <<cancel, inboxVars, responderVars, busVars, subscriptionVars, chan>>

\* publish_with_metadata(..).await?: an error leaves without the clean-up, and the drop of
\* the handle takes its place.
PublishRequest(r) ==
  /\ pc[r] = "publish"
  /\ IF Running
     THEN /\ queue' = Append(queue, r)
          /\ pc' = [pc EXCEPT ![r] = "wait"]
          /\ UNCHANGED <<result, cancel>>
     ELSE Returns(r, "refused") /\ cancel' = cancel \cup {r} /\ UNCHANGED queue
  /\ UNCHANGED <<inboxVars, responderVars, busVars, subscriptionVars, chan>>

\* The oneshot is resolved: a response, or the sender is gone.
Answered(r) ==
  /\ pc[r] = "wait"
  /\ oneshot[r] # None
  /\ result' = [result EXCEPT ![r] = oneshot[r]]
  /\ pc' = [pc EXCEPT ![r] = "unsubscribe"]
  /\ UNCHANGED <<cancel, inboxVars, responderVars, busVars, queue, subscriptionVars, chan>>

\* Mutant of TimedOut: a wait that is over starts again.
TimedOut_WaitsOn(r) == pc[r] = "wait" /\ oneshot[r] = None /\ UNCHANGED vars

\* 30 seconds are over; timeout() polls the oneshot first.
TimedOut(r) ==
  /\ pc[r] = "wait"
  /\ oneshot[r] = None
  /\ result' = [result EXCEPT ![r] = "timeout"]
  /\ pc' = [pc EXCEPT ![r] = "unsubscribe"]
  /\ UNCHANGED <<cancel, inboxVars, responderVars, busVars, queue, subscriptionVars, chan>>

\* The end of the task of an inbox drops its channel, and with the closure the sender.
EndTask(r) ==
  /\ task' = [task EXCEPT ![r] = "ended"]
  /\ chan' = [chan EXCEPT ![r] = <<>>]
  /\ oneshot' = [oneshot EXCEPT ![r] = IF @ = None THEN "dropped" ELSE @]

\* bus.unsubscribe(handle): unregister, remove, abort. When the shutdown was faster, it fails
\* at the first or the second step, the error is ignored and only the drop of the handle
\* cancels the task; a shutdown between the two steps comes to the same as one before them.
Unsubscribe(r) ==
  /\ pc[r] = "unsubscribe"
  /\ pc' = [pc EXCEPT ![r] = "returned"]
  /\ registered' = registered \ {r}
  /\ cancel' = cancel \cup {r}
  /\ mapped' = IF r \in registered THEN mapped \ {r} ELSE mapped
  /\ IF r \in registered \cap mapped THEN EndTask(r) ELSE UNCHANGED <<inboxVars, chan>>
  /\ UNCHANGED <<result, responderVars, busVars, queue>>

-----------------------------------------------------------------------------
(* The subscription of the inbox                                           *)

\* The handler takes the sender once; later responses find it gone.
InboxHandle(r) ==
  /\ task[r] = "live"
  /\ chan[r] # <<>>
  /\ oneshot' = [oneshot EXCEPT ![r] = IF @ = None THEN Head(chan[r]) ELSE @]
  /\ chan' = [chan EXCEPT ![r] = Tail(@)]
  /\ UNCHANGED <<task, callVars, responderVars, busVars, queue, subscriptionVars>>

\* The task ends because its handle was dropped, or because the shutdown removed its sender
\* from the map and its channel is drained. The cleaner then removes it from the map, and
\* unregisters it only if it was there.
InboxEnds(r) ==
  /\ task[r] = "live"
  /\ r \in cancel \/ (r \notin mapped /\ chan[r] = <<>>)
  /\ mapped' = mapped \ {r}
  /\ registered' = IF r \in mapped THEN registered \ {r} ELSE registered
  /\ EndTask(r)
  /\ UNCHANGED <<callVars, responderVars, busVars, queue>>

-----------------------------------------------------------------------------
(* respond: ResponderHandler::handle in the retry loop of its subscription *)

Serve(p) ==
  /\ serving[p] = None
  /\ chan[p] # <<>>
  /\ serving' = [serving EXCEPT ![p] = Head(chan[p])]
  /\ attempt' = [attempt EXCEPT ![p] = 1]
  /\ chan' = [chan EXCEPT ![p] = Tail(@)]
  /\ UNCHANGED <<callVars, inboxVars, responded, busVars, queue, subscriptionVars>>

\* The handler is done with its event: with Ok after its publish was accepted, or when there
\* is no reply_to; with an error when the bus refused the response for the last time.
Respond(p) ==
  LET r == serving[p] IN
  /\ r # None
  /\ r \in Notices \/ Running \/ attempt[p] > MaxRetries
  /\ serving' = [serving EXCEPT ![p] = None]
  /\ IF r \in Requests /\ Running
     THEN /\ queue' = Append(queue, <<Topic(r), r>>)
          /\ responded' = responded \cup {r}
     ELSE UNCHANGED <<queue, responded>>
  /\ UNCHANGED <<attempt, callVars, inboxVars, busVars, subscriptionVars, chan>>

\* The response is refused: the handler fails and is called again.
RespondAgain(p) ==
  /\ serving[p] \in Requests
  /\ ~Running
  /\ attempt[p] <= MaxRetries
  /\ attempt' = [attempt EXCEPT ![p] = @ + 1]
  /\ UNCHANGED <<serving, responded, callVars, inboxVars, busVars, queue, subscriptionVars, chan>>

-----------------------------------------------------------------------------
(* The bus                                                                 *)

\* Somebody publishes an event of the type of the requests, without reply_to.
Notify(n) ==
  /\ n \notin noticed
  /\ Running
  /\ noticed' = noticed \cup {n}
  /\ queue' = Append(queue, n)
  /\ UNCHANGED <<shutdown_state, joined, callVars, inboxVars, responderVars, subscriptionVars, chan>>

\* The worker takes the next event to the subscriptions: requests and notices to the
\* responders, a response to the inboxes registered with its topic that are in the map.
Dispatch ==
  /\ queue # <<>>
  /\ LET x == Head(queue)
         response == x \notin Requests \cup Notices
         found == IF response THEN {r \in registered \cap mapped : Topic(r) = x[1]}
                  ELSE IF joined THEN {} ELSE Responders
         payload == IF response THEN x[2] ELSE x
     IN  chan' = [y \in DOMAIN chan |->
                    IF y \in found THEN Append(chan[y], payload) ELSE chan[y]]
  /\ queue' = Tail(queue)
  /\ UNCHANGED <<callVars, inboxVars, responderVars, busVars, subscriptionVars>>

\* shutdown_gracefully: nothing is accepted any more; when the worker has emptied the
\* queue, every subscription is removed from the map and then unregistered, and its task
\* drains its channel.
ShutdownBegin ==
  /\ Running
  /\ shutdown_state' = "Draining"
  /\ UNCHANGED <<joined, noticed, callVars, inboxVars, responderVars, queue, subscriptionVars, chan>>

\* Mutant of RemoveSubscriptions: the subscriptions go before the worker has ended.
RemoveSubscriptions_Early ==
  /\ shutdown_state = "Draining"
  /\ ~joined
  /\ joined' = TRUE
  /\ mapped' = {}
  /\ registered' = registered \ mapped
  /\ UNCHANGED <<shutdown_state, noticed, callVars, inboxVars, responderVars, queue, chan>>

RemoveSubscriptions ==
  /\ shutdown_state = "Draining"
  /\ ~joined
  /\ queue = <<>>
  /\ joined' = TRUE
  /\ mapped' = {}
  /\ registered' = registered \ mapped
  /\ UNCHANGED <<shutdown_state, noticed, callVars, inboxVars, responderVars, queue, chan>>

\* The tasks it has removed have ended; it knows nothing of an inbox inserted since.
ShutdownDone ==
  /\ shutdown_state = "Draining"
  /\ joined
  /\ \A r \in Requests \ mapped : task[r] # "live"
  /\ \A p \in Responders : chan[p] = <<>> /\ serving[p] = None
  /\ shutdown_state' = "Stopped"
  /\ UNCHANGED <<joined, noticed, callVars, inboxVars, responderVars, queue, subscriptionVars, chan>>

-----------------------------------------------------------------------------
Call(r) ==
  \/ SubscribeInbox(r) \/ InsertInbox(r) \/ RegisterInbox(r) \/ PublishRequest(r)
  \/ Answered(r) \/ TimedOut(r) \/ Unsubscribe(r)

Inbox(r) == InboxHandle(r) \/ InboxEnds(r)

Responder(p) == Serve(p) \/ Respond(p) \/ RespondAgain(p)

\* Every call returned, and the bus is idle or stopped.
AtRest ==
  /\ \A r \in Requests : pc[r] = "returned" /\ task[r] # "live"
  /\ shutdown_state = "Stopped"

Rest == AtRest /\ UNCHANGED vars

Next ==
  \/ \E r \in Requests : Request(r) \/ Call(r) \/ Inbox(r)
  \/ \E p \in Responders : Responder(p)
  \/ \E n \in Notices : Notify(n)
  \/ Dispatch
  \/ ShutdownBegin \/ RemoveSubscriptions \/ ShutdownDone
  \/ Rest

Spec == Init /\ [][Next]_vars

\* Calls are awaited, timers fire, and the tasks of the bus and of the inboxes are polled.
\* Responders may take forever, and nobody has to shut down.
FairSpec ==
  /\ Spec
  /\ \A r \in Requests : WF_vars(Call(r)) /\ WF_vars(Inbox(r))
  /\ WF_vars(Dispatch)

-----------------------------------------------------------------------------
(* Properties                                                              *)

\* A request returns the response to itself or none, however many requests and responders
\* there are and however late their responses come; the responder has handled it.
OwnReply ==
  \A r \in Requests : result[r] \in Requests => result[r] = r /\ r \in responded

\* "Responder dropped the channel without replying" means what it says: it is returned only
\* in a shutdown, and never when the bus had accepted a response, which the drain delivers.
DroppedWithoutReply ==
  \A r \in Requests : result[r] = "dropped" => ~Running /\ r \notin responded

\* A request returns, whether or not anybody responds (request: the timeout of 30 seconds).
RequestReturns == \A r \in Requests : pc[r] = "subscribe" ~> pc[r] = "returned"

\* It leaves no subscription behind, on whichever path it returned: the task of its inbox ends
\* and both tables forget it. The code has one exception, an entry in the registry of a bus
\* that is down: when the drain empties the map after the insert and before the register,
\* nobody unregisters it any more.
InboxReleased ==
  \A r \in Requests :
    pc[r] = "returned" ~>
      /\ task[r] # "live"
      /\ r \notin mapped
      /\ r \in registered => joined /\ result[r] = "refused"
=============================================================================

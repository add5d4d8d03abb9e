----------------------------- MODULE StreamHub -----------------------------
(***************************************************************************)
(* Live measurements from one publisher to its subscribers, through the    *)
(* stream host (EWoodXStreamHost over StreamHandler) of                    *)
(* projects/ewoodx/operations/streaming.  The publisher keeps only the     *)
(* latest value for its sender thread.  The host serves every connection   *)
(* in a thread of its own; these threads share the subscriptions and the   *)
(* cached value under a lock, but look at the connections before they take *)
(* it and send after they have released it.                                *)
(***************************************************************************)
EXTENDS Naturals, Sequences

CONSTANTS
  Subscribers,   \* agent ids
  MaxValue,      \* bound: values published, by revision
  MaxConnects    \* bound: connections made

ASSUME HubBounds == {MaxValue, MaxConnects} \subseteq Nat

VARIABLES
  outgoing,    \* publisher: revision in the LatestValue of the topic, 0 if none
  sender,      \* publisher: what the sender thread is sending, 0 if it waits
  sent,        \* publisher: last_revisions of the sender thread
  toHost,      \* the publisher's stream
  registered,  \* host: the subscribers in connected_agents
  subs,        \* host: who is in _subscriptions with the topic
  cached,      \* host: the value in _latest
  route,       \* host: the thread of the publisher's connection
  serve,       \* host: the thread of each subscriber's connection
  requests,    \* each subscriber's stream to the host
  values,      \* each subscriber's stream from the host
  wants,       \* subscribers whose last request was SUBSCRIBE
  shown,       \* the revision in each subscriber's LatestValue
  connects,    \* connections made
  overlapped   \* subscribers who joined while another thread was at work

publisher == <<outgoing, sender, sent>>
hubVars == <<publisher, toHost, registered, subs, cached, route, serve, requests, values,
          wants, shown, connects, overlapped>>

Idle == [at |-> "idle"]

HubInit ==
  /\ outgoing = 0 /\ sender = 0 /\ sent = 0 /\ toHost = <<>>
  /\ registered = {} /\ subs = {} /\ cached = 0
  /\ route = Idle /\ serve = [a \in Subscribers |-> Idle]
  /\ requests = [a \in Subscribers |-> <<>>] /\ values = [a \in Subscribers |-> <<>>]
  /\ wants = {} /\ shown = [a \in Subscribers |-> 0]
  /\ connects = 0 /\ overlapped = {}

-----------------------------------------------------------------------------
(* The publisher.  The sender thread wakes when something was published,   *)
(* or after 0.2 s.                                                         *)
Publish ==
  /\ outgoing < MaxValue
  /\ outgoing' = outgoing + 1
  /\ UNCHANGED <<sender, sent, toHost, registered, subs, cached, route, serve, requests,
                 values, wants, shown, connects, overlapped>>

SenderReads ==
  /\ sender = 0 /\ outgoing # sent
  /\ sender' = outgoing
  /\ UNCHANGED <<outgoing, sent, toHost, registered, subs, cached, route, serve, requests,
                 values, wants, shown, connects, overlapped>>

(* Slip: what is noted is the revision of now, not the one that was sent.  *)
SenderSends_NotesLatest ==
  /\ sender # 0
  /\ toHost' = Append(toHost, sender)
  /\ sent' = outgoing /\ sender' = 0
  /\ UNCHANGED <<outgoing, registered, subs, cached, route, serve, requests,
                 values, wants, shown, connects, overlapped>>

SenderSends ==
  /\ sender # 0
  /\ toHost' = Append(toHost, sender)
  /\ sent' = sender /\ sender' = 0
  /\ UNCHANGED <<outgoing, registered, subs, cached, route, serve, requests,
                 values, wants, shown, connects, overlapped>>

-----------------------------------------------------------------------------
(* A subscriber's connection.                                              *)
Busy == IF route # Idle THEN Subscribers
        ELSE {a \in Subscribers : \E b \in Subscribers : serve[b] # Idle}

(* A new instance registers, and subscribes as soon as it is registered.   *)
Connect(a) ==
  /\ a \notin registered /\ serve[a] = Idle /\ connects < MaxConnects
  /\ connects' = connects + 1
  /\ registered' = registered \cup {a}
  /\ requests' = [requests EXCEPT ![a] = <<"subscribe">>]
  /\ wants' = wants \cup {a} /\ shown' = [shown EXCEPT ![a] = 0]
  /\ overlapped' = IF a \in Busy THEN overlapped \cup {a} ELSE overlapped \ {a}
  /\ UNCHANGED <<publisher, toHost, subs, cached, route, serve, values>>

Unsubscribe(a) ==
  /\ a \in registered /\ a \in wants
  /\ requests' = [requests EXCEPT ![a] = Append(@, "unsubscribe")]
  /\ wants' = wants \ {a}
  /\ UNCHANGED <<publisher, toHost, registered, subs, cached, route, serve,
                 values, shown, connects, overlapped>>

(* The connection is lost; a thread of the host may still be serving it.   *)
Disconnect(a) ==
  /\ a \in registered
  /\ registered' = registered \ {a} /\ wants' = wants \ {a}
  /\ requests' = [requests EXCEPT ![a] = <<>>] /\ values' = [values EXCEPT ![a] = <<>>]
  /\ UNCHANGED <<publisher, toHost, subs, cached, route, serve, shown, connects, overlapped>>

Receive(a) ==
  /\ values[a] # <<>>
  /\ shown' = [shown EXCEPT ![a] = Head(values[a])]
  /\ values' = [values EXCEPT ![a] = Tail(@)]
  /\ UNCHANGED <<publisher, toHost, registered, subs, cached, route, serve, requests,
                 wants, connects, overlapped>>

-----------------------------------------------------------------------------
(* _subscribe, in the thread of the connection: which agents are connected,*)
(* then, under the lock, the others are pruned; under the lock again, the  *)
(* topic is added and the cached value taken; sent after that.             *)
HandleSubscribe(a) ==
  /\ serve[a] = Idle /\ requests[a] # <<>> /\ Head(requests[a]) = "subscribe"
  /\ requests' = [requests EXCEPT ![a] = Tail(@)]
  /\ serve' = [serve EXCEPT ![a] = [at |-> "prune", connected |-> registered]]
  /\ overlapped' = IF a \in Busy THEN overlapped \cup {a} ELSE overlapped
  /\ UNCHANGED <<publisher, toHost, registered, subs, cached, route, values, wants, shown,
                 connects>>

PruneToSubscribe(a) ==
  /\ serve[a].at = "prune"
  /\ subs' = subs \cap serve[a].connected
  /\ serve' = [serve EXCEPT ![a] = [at |-> "add"]]
  /\ UNCHANGED <<publisher, toHost, registered, cached, route, requests, values, wants,
                 shown, connects, overlapped>>

(* Slip: a new subscriber waits for the next value.                        *)
AddSubscription_NoCached(a) ==
  /\ serve[a].at = "add"
  /\ subs' = subs \cup {a}
  /\ serve' = [serve EXCEPT ![a] = Idle]
  /\ UNCHANGED <<publisher, toHost, registered, cached, route, requests, values, wants,
                 shown, connects, overlapped>>

AddSubscription(a) ==
  /\ serve[a].at = "add"
  /\ subs' = subs \cup {a}
  /\ serve' = [serve EXCEPT ![a] = IF cached = 0 THEN Idle
                                   ELSE [at |-> "send", value |-> cached]]
  /\ UNCHANGED <<publisher, toHost, registered, cached, route, requests, values, wants,
                 shown, connects, overlapped>>

(* _safe_send: to an agent that is connected now, by its id.               *)
SafeSend(a, value) ==
  values' = IF a \in registered THEN [values EXCEPT ![a] = Append(@, value)] ELSE values

SendCached(a) ==
  /\ serve[a].at = "send"
  /\ SafeSend(a, serve[a].value)
  /\ serve' = [serve EXCEPT ![a] = Idle]
  /\ UNCHANGED <<publisher, toHost, registered, subs, cached, route, requests, wants,
                 shown, connects, overlapped>>

HandleUnsubscribe(a) ==
  /\ serve[a] = Idle /\ requests[a] # <<>> /\ Head(requests[a]) = "unsubscribe"
  /\ requests' = [requests EXCEPT ![a] = Tail(@)]
  /\ subs' = subs \ {a}
  /\ UNCHANGED <<publisher, toHost, registered, cached, route, serve, values, wants, shown,
                 connects, overlapped>>

-----------------------------------------------------------------------------
(* _route_stream, in the thread of the publisher's connection.             *)
RouteStream ==
  /\ route = Idle /\ toHost # <<>>
  /\ toHost' = Tail(toHost)
  /\ route' = [at |-> "prune", value |-> Head(toHost), connected |-> registered, to |-> {}]
  /\ overlapped' = overlapped \cup {a \in Subscribers : serve[a] # Idle}
  /\ UNCHANGED <<publisher, registered, subs, cached, serve, requests, values, wants, shown,
                 connects>>

PruneToRoute ==
  /\ route.at = "prune"
  /\ subs' = subs \cap route.connected
  /\ route' = [route EXCEPT !.at = "cache"]
  /\ UNCHANGED <<publisher, toHost, registered, cached, serve, requests, values, wants,
                 shown, connects, overlapped>>

CacheAndSelect ==
  /\ route.at = "cache"
  /\ cached' = route.value
  /\ route' = IF subs = {} THEN Idle ELSE [route EXCEPT !.at = "send", !.to = subs]
  /\ UNCHANGED <<publisher, toHost, registered, subs, serve, requests, values, wants,
                 shown, connects, overlapped>>

RouteSend(a) ==
  /\ route.at = "send" /\ a \in route.to
  /\ SafeSend(a, route.value)
  /\ route' = IF route.to = {a} THEN Idle ELSE [route EXCEPT !.to = @ \ {a}]
  /\ UNCHANGED <<publisher, toHost, registered, subs, cached, serve, requests, wants,
                 shown, connects, overlapped>>

-----------------------------------------------------------------------------
Threads ==
  \/ SenderReads \/ SenderSends
  \/ RouteStream \/ PruneToRoute \/ CacheAndSelect
  \/ \E a \in Subscribers :
       \/ HandleSubscribe(a) \/ PruneToSubscribe(a) \/ AddSubscription(a) \/ SendCached(a)
       \/ HandleUnsubscribe(a) \/ RouteSend(a) \/ Receive(a)

HubNext ==
  \/ Publish
  \/ \E a \in Subscribers : Connect(a) \/ Unsubscribe(a) \/ Disconnect(a)
  \/ Threads

(* Every thread keeps running.  Only finitely much is asked of them, so    *)
(* weak fairness of all of them together is fairness of each.              *)
HubSpec == HubInit /\ [][HubNext]_hubVars /\ WF_hubVars(Threads)

-----------------------------------------------------------------------------
Values == 1..MaxValue

HubTypeOK ==
  /\ {outgoing, sender, sent, cached} \subseteq 0..MaxValue
  /\ toHost \in Seq(Values)
  /\ {registered, subs, wants, overlapped} \subseteq SUBSET Subscribers
  /\ route = Idle \/ route \in [at : {"prune", "cache", "send"}, value : Values,
                                connected : SUBSET Subscribers, to : SUBSET Subscribers]
  /\ \A a \in Subscribers :
       /\ serve[a] \in {Idle, [at |-> "add"]} \cup [at : {"send"}, value : Values]
                       \cup [at : {"prune"}, connected : SUBSET Subscribers]
       /\ requests[a] \in Seq({"subscribe", "unsubscribe"}) /\ values[a] \in Seq(Values)
       /\ shown[a] \in 0..MaxValue
  /\ connects \in 0..MaxConnects

(* Everything asked of the host for the subscriber has been done.          *)
Settled(a) ==
  /\ a \in registered \cap wants /\ requests[a] = <<>> /\ values[a] = <<>>
  /\ route = Idle /\ serve[a] = Idle

(* A subscriber that joined while no other thread of the host was at work  *)
(* is subscribed, and shows the value the host has last routed.            *)
CurrentInTurn ==
  \A a \in Subscribers \ overlapped : Settled(a) => a \in subs /\ shown[a] = cached

(* The latest value published is routed in the end, however many are       *)
(* skipped before it.                                                      *)
LatestIsRouted == \A n \in Values : outgoing = n ~> cached >= n
=============================================================================

------------------------------- MODULE Sockets ------------------------------
(***************************************************************************)
(* The sockets notifications are pushed over: a browser opens a WebSocket  *)
(* to api-gateway, whose proxy opens one to notification-service and lets  *)
(* two tasks carry the messages (websocket/notification.py); the service   *)
(* keeps its ends in a registry (websocket/manager.py).  A connection is   *)
(* used once.  Push and Forget are called by the consumer.                 *)
(***************************************************************************)
EXTENDS Naturals, Sequences

CONSTANTS Conn

VARIABLES client,    \* conn -> the browser's end
          gateway,   \* conn -> the proxy
          service,   \* conn -> the route of notification-service
          registry,  \* NotificationConnectionManager._connections
          sent,      \* conn -> messages the service has sent and the proxy not forwarded
          got        \* conn -> messages the browser has received

sockets == <<client, gateway, service, registry, sent, got>>

SocketsTypeOK ==
    /\ client \in [Conn -> {"new", "waiting", "open", "gone"}]
    /\ gateway \in [Conn -> {"none", "dialing", "linked", "piping", "over"}]
    /\ service \in [Conn -> {"none", "accepted", "listening", "leaving", "over"}]
    /\ registry \subseteq Conn
    /\ sent \in [Conn -> Seq(Nat)] /\ got \in [Conn -> Seq(Nat)]

SocketsInit ==
    /\ client = [c \in Conn |-> "new"]
    /\ gateway = [c \in Conn |-> "none"]
    /\ service = [c \in Conn |-> "none"]
    /\ registry = {}
    /\ sent = [c \in Conn |-> <<>>]
    /\ got = [c \in Conn |-> <<>>]

-----------------------------------------------------------------------------
(* api-gateway                                                             *)

\* A valid access token in the subprotocol, or the socket is closed at once.
Connect(c) ==
    /\ client[c] = "new"
    /\ \/ /\ client' = [client EXCEPT ![c] = "waiting"]
          /\ gateway' = [gateway EXCEPT ![c] = "dialing"]
       \/ /\ client' = [client EXCEPT ![c] = "gone"]
          /\ UNCHANGED gateway
    /\ UNCHANGED <<service, registry, sent, got>>

Unavailable(c) ==
    /\ gateway[c] = "dialing"
    /\ gateway' = [gateway EXCEPT ![c] = "over"]
    /\ client' = [client EXCEPT ![c] = "gone"]
    /\ UNCHANGED <<service, registry, sent, got>>

AcceptClient(c) ==
    /\ gateway[c] = "linked"
    /\ \/ /\ client[c] = "waiting"
          /\ client' = [client EXCEPT ![c] = "open"]
          /\ gateway' = [gateway EXCEPT ![c] = "piping"]
       \/ /\ client[c] = "gone"
          /\ gateway' = [gateway EXCEPT ![c] = "over"]
          /\ UNCHANGED client
    /\ UNCHANGED <<service, registry, sent, got>>

ForwardLatest(c) ==
    /\ gateway[c] = "piping" /\ client[c] = "open" /\ sent[c] # <<>>
    /\ got' = [got EXCEPT ![c] = Append(@, sent[c][Len(sent[c])])]
    /\ sent' = [sent EXCEPT ![c] = <<>>]
    /\ UNCHANGED <<client, gateway, service, registry>>
ForwardNewest(c) ==
    /\ gateway[c] = "piping" /\ client[c] = "open" /\ sent[c] # <<>>
    /\ got' = [got EXCEPT ![c] = Append(@, sent[c][Len(sent[c])])]
    /\ sent' = [sent EXCEPT ![c] = SubSeq(@, 1, Len(@) - 1)]
    /\ UNCHANGED <<client, gateway, service, registry>>

\* _forward_service_messages; what browsers send is read and ignored.
Forward(c) ==
    /\ gateway[c] = "piping" /\ client[c] = "open" /\ sent[c] # <<>>
    /\ got' = [got EXCEPT ![c] = Append(@, Head(sent[c]))]
    /\ sent' = [sent EXCEPT ![c] = Tail(@)]
    /\ UNCHANGED <<client, gateway, service, registry>>

\* _exchange_messages: each task ends with its side of the proxy; the first to end
\* takes the other with it, and both sockets are closed.
ClientSideOver(c) == client[c] = "gone"
ServiceSideOver(c) == service[c] = "over" /\ sent[c] = <<>>
EndProxyWhenBothEnd(c) ==
    /\ gateway[c] = "piping"
    /\ ClientSideOver(c) /\ ServiceSideOver(c)
    /\ gateway' = [gateway EXCEPT ![c] = "over"]
    /\ client' = [client EXCEPT ![c] = "gone"]
    /\ sent' = [sent EXCEPT ![c] = <<>>]
    /\ UNCHANGED <<service, registry, got>>
EndProxy(c) ==
    /\ gateway[c] = "piping"
    /\ ClientSideOver(c) \/ ServiceSideOver(c)
    /\ gateway' = [gateway EXCEPT ![c] = "over"]
    /\ client' = [client EXCEPT ![c] = "gone"]
    /\ sent' = [sent EXCEPT ![c] = <<>>]
    /\ UNCHANGED <<service, registry, got>>

Leave(c) ==
    /\ client[c] \in {"waiting", "open"}
    /\ client' = [client EXCEPT ![c] = "gone"]
    /\ UNCHANGED <<gateway, service, registry, sent, got>>

-----------------------------------------------------------------------------
(* notification-service: the route, connect and disconnect of the manager  *)

AcceptService(c) ==
    /\ gateway[c] = "dialing"
    /\ gateway' = [gateway EXCEPT ![c] = "linked"]
    /\ service' = [service EXCEPT ![c] = "accepted"]
    /\ UNCHANGED <<client, registry, sent, got>>

Register(c) ==
    /\ service[c] = "accepted"
    /\ service' = [service EXCEPT ![c] = "listening"]
    /\ registry' = registry \cup {c}
    /\ UNCHANGED <<client, gateway, sent, got>>

\* receive_text raises WebSocketDisconnect.
Notice(c) ==
    /\ service[c] = "listening" /\ gateway[c] = "over"
    /\ service' = [service EXCEPT ![c] = "leaving"]
    /\ UNCHANGED <<client, gateway, registry, sent, got>>

Unregister(c) ==
    /\ service[c] = "leaving"
    /\ service' = [service EXCEPT ![c] = "over"]
    /\ registry' = registry \ {c}
    /\ UNCHANGED <<client, gateway, sent, got>>

\* send_json to one connection; the error of a closed one is caught, but may not
\* show while the close is on its way.
PushOk(c, n) ==
    /\ service[c] # "over"
    /\ sent' = IF gateway[c] = "over" THEN sent ELSE [sent EXCEPT ![c] = Append(@, n)]
    /\ UNCHANGED <<client, gateway, service, registry, got>>
PushFails(c) == (gateway[c] = "over" \/ service[c] = "over") /\ UNCHANGED sockets

Forget(c) == /\ registry' = registry \ {c}
             /\ UNCHANGED <<client, gateway, service, sent, got>>

\* The process dies with all its sockets; what it had sent still arrives.
DropAll ==
    /\ service' = [c \in Conn |-> IF service[c] = "none" THEN "none" ELSE "over"]
    /\ registry' = {}
    /\ UNCHANGED <<client, gateway, sent, got>>

Browsing == \E c \in Conn : Connect(c) \/ Leave(c) \/ Unavailable(c)
Serving(c) == \/ AcceptService(c) \/ Register(c) \/ AcceptClient(c) \/ Forward(c)
              \/ EndProxy(c) \/ Notice(c) \/ Unregister(c)

-----------------------------------------------------------------------------
(* A connection is whole when nobody on the way has given it up.           *)
Whole(c) == client[c] # "gone" /\ gateway[c] # "over" /\ service[c] = "listening"

\* manager.py: the entry of a closed socket does not stay in the registry.
ClosedIsForgotten == \A c \in Conn : (client[c] = "gone") ~> (c \notin registry /\ service[c] \in {"none", "over"})
=============================================================================

---------------------------- MODULE SocketGateway ----------------------------
(***************************************************************************)
(* A socket gateway (/admin or /web) of one process: handleConnection,     *)
(* which waits for the token to be verified, handleDisconnect, and         *)
(* handleTokenExpired, the listener of the event TokenExpired.  The        *)
(* gateway keeps one socket id per token and never forgets one.            *)
(***************************************************************************)
EXTENDS Integers, Sequences

CONSTANTS
    Sockets,    \* socket ids; a client that connects again has a new one
    Tokens,
    NoToken     \* a handshake without a token; a token without a socket

VARIABLES
    socket,         \* per socket: where handleConnection is, and the token
    open,           \* sockets of the namespace
    socketIdOf,     \* tokenSocketIdMap
    registered,     \* history: sockets in the order the map took them
    expired         \* history, per token: registered when it expired last

gatewayVars == <<socket, open, socketIdOf, registered, expired>>

NoSocket == "none"

GatewayInit ==
    /\ socket = [s \in Sockets |-> [pc |-> "new", token |-> NoToken]]
    /\ open = {}
    /\ socketIdOf = [t \in Tokens |-> NoSocket]
    /\ registered = <<>>
    /\ expired = [t \in Tokens |-> 0]

\* The namespace has the socket before handleConnection is called.  Without a token
\* authFailed disconnects it.
Connect(s, t) ==
    /\ socket[s].pc = "new"
    /\ socket' = [socket EXCEPT ![s] = [pc |-> IF t = NoToken THEN "failed" ELSE "verify", token |-> t]]
    /\ open' = IF t = NoToken THEN open ELSE open \union {s}
    /\ UNCHANGED <<socketIdOf, registered, expired>>

\* verifyAsync said no.
AuthFailed(s) ==
    /\ socket[s].pc = "verify"
    /\ socket' = [socket EXCEPT ![s].pc = "failed"]
    /\ open' = open \ {s}
    /\ UNCHANGED <<socketIdOf, registered, expired>>

\* verifyAsync said yes; nothing asks whether the client is still there.
Register(s) ==
    /\ socket[s].pc = "verify"
    /\ socket' = [socket EXCEPT ![s].pc = "in"]
    /\ socketIdOf' = [socketIdOf EXCEPT ![socket[s].token] = s]
    /\ registered' = Append(registered, s)
    /\ UNCHANGED <<open, expired>>

MapWithoutToken(s) ==
    IF socket[s].token = NoToken THEN socketIdOf ELSE [socketIdOf EXCEPT ![socket[s].token] = NoSocket]
MapAfterDisconnect(s) == socketIdOf

Disconnect(s) ==
    /\ s \in open
    /\ open' = open \ {s}
    /\ socketIdOf' = MapAfterDisconnect(s)
    /\ UNCHANGED <<socket, registered, expired>>

TokenExpired(t) ==
    /\ open' = open \ {socketIdOf[t]}
    /\ expired' = [expired EXCEPT ![t] = Len(registered)]
    /\ UNCHANGED <<socket, socketIdOf, registered>>

GatewayNext ==
    \/ \E s \in Sockets :
         \/ \E t \in Tokens \union {NoToken} : Connect(s, t)
         \/ AuthFailed(s) \/ Register(s) \/ Disconnect(s)
    \/ \E t \in Tokens : TokenExpired(t)

GatewaySpec == GatewayInit /\ [][GatewayNext]_gatewayVars

-----------------------------------------------------------------------------
(* Properties *)

GatewayTypeOK ==
    /\ socket \in [Sockets -> [pc : {"new", "verify", "in", "failed"}, token : Tokens \union {NoToken}]]
    /\ open \subseteq {s \in Sockets : socket[s].pc \in {"verify", "in"}}
    /\ socketIdOf \in [Tokens -> Sockets \union {NoSocket}]
    /\ expired \in [Tokens -> 0..Len(registered)]
    /\ \A t \in Tokens : socketIdOf[t] # NoSocket => socket[socketIdOf[t]] = [pc |-> "in", token |-> t]

(* When a token has expired, the sockets that came in with it before are    *)
(* gone, but for those a later connection with the token took the place of  *)
(* in the map, be it that of a client that has left.                        *)
ExpiredAreGone ==
    \A m \in DOMAIN registered :
        LET s == registered[m]
        IN  m <= expired[socket[s].token] /\ s \in open =>
              \E n \in m + 1..expired[socket[s].token] : socket[registered[n]].token = socket[s].token

=============================================================================

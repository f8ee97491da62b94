---------------------------- MODULE Negotiation ----------------------------
(***************************************************************************)
(* The opening handshake (accept.go, dial.go): a client's request, the     *)
(* server's answer, and what each side makes of it: the subprotocol and    *)
(* the options of permessage-deflate.                                      *)
(*                                                                         *)
(* Either side is this library with any options, or foreign: a client that *)
(* offers any extensions, a server that answers anything, and may keep to  *)
(* RFC 7692 or not.  A request or an answer has at most one defect in its  *)
(* other headers.  A subprotocol is a name and its letter case, which      *)
(* strings.EqualFold does not look at; compressionOptions are the set of   *)
(* the flags that are set.                                                 *)
(***************************************************************************)
EXTENDS Integers, Sequences

CONSTANTS ProtocolLists,    \* lists of subprotocols
          NoProtocol,
          ClientOffers,     \* the extensions a foreign client offers
          ServerExtensions  \* the extensions a foreign server answers with

IsList(l) == Len(l) \in Nat /\ DOMAIN l = 1..Len(l)

ASSUME ListsAssumption ==
    /\ \A l \in ProtocolLists : IsList(l)
    /\ \A l \in ClientOffers : IsList(l)

Modes == {"disabled", "contextTakeover", "noContextTakeover"}
ClientNo == "client_no_context_takeover"
ServerNo == "server_no_context_takeover"
Flags == {ClientNo, ServerNo}

Deflate(params) == [name |-> "permessage-deflate", params |-> params]
SameProtocol(p, q) == p[1] = q[1]

RequestDefects == {"none", "proto", "connection", "upgrade", "method",
                   "version", "missingKey", "twoKeys", "badKey", "origin"}
AnswerDefects == {"none", "status", "connection", "upgrade", "accept"}

VARIABLES
    client,     \* whether it is foreign, its mode and subprotocols
    server,     \* the same, and InsecureSkipVerify
    request,    \* what the client sent
    answer,     \* what the server sent
    clientConn, \* what the client's Conn has: subprotocol and options
    serverConn  \* the same for the server's

negVars == <<client, server, request, answer, clientConn, serverConn>>

NoConn == [made |-> FALSE]
Unset == [sent |-> FALSE]
NoOptions == [on |-> FALSE]
Options(flags) == [on |-> TRUE, flags |-> flags]
NewConn(protocol, copts) ==
    [made |-> TRUE, protocol |-> protocol, copts |-> copts]

Sides == [foreign : BOOLEAN, mode : Modes, protocols : ProtocolLists,
          skipVerify : BOOLEAN]

NegInit ==
    /\ client \in Sides /\ server \in Sides
    /\ ~client.skipVerify
    /\ client.foreign => client.mode = "disabled"
    /\ server.foreign => ~client.foreign /\ server.mode = "disabled"
                         /\ server.protocols = <<>> /\ ~server.skipVerify
    /\ request = Unset /\ answer = Unset
    /\ clientConn = NoConn /\ serverConn = NoConn

-----------------------------------------------------------------------------
(* The client's request. *)

opts(mode) == IF mode = "noContextTakeover" THEN Flags ELSE {}

handshakeRequest ==
    /\ ~request.sent /\ ~client.foreign
    /\ request' = [sent |-> TRUE, defect |-> "none",
                   protocols |-> client.protocols,
                   extensions |-> IF client.mode = "disabled" THEN <<>>
                                  ELSE <<Deflate(opts(client.mode))>>]
    /\ UNCHANGED <<client, server, answer, clientConn, serverConn>>

ForeignRequest ==
    /\ ~request.sent /\ client.foreign
    /\ \E d \in RequestDefects, e \in ClientOffers :
          request' = [sent |-> TRUE, defect |-> d,
                      protocols |-> client.protocols, extensions |-> e]
    /\ UNCHANGED <<client, server, answer, clientConn, serverConn>>

-----------------------------------------------------------------------------
(* The server's answer. *)

verifyClientRequest == request.defect \in {"none", "origin"}
authenticateOrigin == server.skipVerify \/ request.defect # "origin"

First(indices) == CHOOSE i \in indices : \A j \in indices : i <= j

(* What the client offers under the server's i-th name, and where the       *)
(* server has a name that the client offers.                                *)
Offered(i) == {j \in DOMAIN request.protocols :
                 SameProtocol(server.protocols[i], request.protocols[j])}
Common == {i \in DOMAIN server.protocols : Offered(i) # {}}

(* The server's first subprotocol that the client knows, in the client's    *)
(* spelling.                                                                *)
selectSubprotocol ==
    IF Common = {} THEN NoProtocol
    ELSE request.protocols[First(Offered(First(Common)))]

(* The parameters of an offer that the server can grant.  A value of        *)
(* client_max_window_bits is only the client's promise.                     *)
Grantable == Flags \cup {"client_max_window_bits", "client_max_window_bits=10",
                         "server_max_window_bits=15"}

(* Mutant: a smaller window of the server is granted like one of 15 bits. *)
acceptsDeflateAnyWindow(ext) ==
    /\ ext.name = "permessage-deflate"
    /\ ext.params \subseteq Grantable \cup {"server_max_window_bits=10"}

acceptsDeflate(ext) ==
    ext.name = "permessage-deflate" /\ ext.params \subseteq Grantable

(* The first offer that can be granted. *)
selectDeflate ==
    LET granted == {i \in DOMAIN request.extensions :
                      acceptsDeflate(request.extensions[i])}
    IN  IF server.mode = "disabled" \/ granted = {} THEN NoOptions
        ELSE LET offer == request.extensions[First(granted)]
             IN  Options(opts(server.mode) \cup (offer.params \cap Flags))

AcceptFails ==
    /\ request.sent /\ ~answer.sent /\ ~server.foreign
    /\ ~verifyClientRequest \/ ~authenticateOrigin
    /\ answer' = [sent |-> TRUE, defect |-> "status", protocol |-> NoProtocol,
                  extensions |-> <<>>]
    /\ UNCHANGED <<client, server, request, clientConn, serverConn>>

(* The answer is sent before the connection is hijacked, which may fail.    *)
Accept ==
    /\ request.sent /\ ~answer.sent /\ ~server.foreign
    /\ verifyClientRequest /\ authenticateOrigin
    /\ answer' = [sent |-> TRUE, defect |-> "none",
                  protocol |-> selectSubprotocol,
                  extensions |-> IF selectDeflate.on
                                 THEN <<Deflate(selectDeflate.flags)>>
                                 ELSE <<>>]
    /\ serverConn' \in {NoConn, NewConn(selectSubprotocol, selectDeflate)}
    /\ UNCHANGED <<client, server, request, clientConn>>

(* A foreign server's Conn has the options it answered with. *)
ForeignAccept ==
    /\ request.sent /\ ~answer.sent /\ server.foreign
    /\ \E d \in AnswerDefects, e \in ServerExtensions,
          p \in {NoProtocol} \cup UNION {{l[i] : i \in DOMAIN l} :
                                       l \in ProtocolLists} :
          /\ answer' = [sent |-> TRUE, defect |-> d, protocol |-> p,
                        extensions |-> e]
          /\ serverConn' = NewConn(p, IF e = <<>> THEN NoOptions
                                      ELSE Options(e[1].params \cap Flags))
    /\ UNCHANGED <<client, server, request, clientConn>>

-----------------------------------------------------------------------------
(* What the client makes of it. *)

verifySubprotocol ==
    \/ answer.protocol = NoProtocol
    \/ \E i \in DOMAIN client.protocols :
          SameProtocol(client.protocols[i], answer.protocol)

ServerWindows == {"server_max_window_bits=10", "server_max_window_bits=15"}

(* No extension, or permessage-deflate alone if it was offered. *)
verifyServerExtensions ==
    \/ answer.extensions = <<>>
    \/ /\ Len(answer.extensions) = 1 /\ client.mode # "disabled"
       /\ answer.extensions[1].name = "permessage-deflate"
       /\ answer.extensions[1].params \subseteq Flags \cup ServerWindows

(* Mutant: the server's parameters are not looked at. *)
clientOptionsOwn ==
    IF answer.extensions = <<>> THEN NoOptions ELSE Options(opts(client.mode))

clientOptions ==
    IF answer.extensions = <<>> THEN NoOptions
    ELSE Options(opts(client.mode)
                 \cup (answer.extensions[1].params \cap Flags))

(* An answer that does not pass leaves the client without a Conn. *)
verifyServerResponse ==
    /\ answer.sent /\ ~clientConn.made /\ ~client.foreign
    /\ answer.defect = "none" /\ verifySubprotocol /\ verifyServerExtensions
    /\ clientConn' = NewConn(answer.protocol, clientOptions)
    /\ UNCHANGED <<client, server, request, answer, serverConn>>

(* A foreign client takes the answer as it is. *)
ForeignVerify ==
    /\ answer.sent /\ ~clientConn.made /\ client.foreign
    /\ answer.defect = "none"
    /\ clientConn' =
          NewConn(answer.protocol,
                  IF answer.extensions = <<>> THEN NoOptions
                  ELSE Options(answer.extensions[1].params \cap Flags))
    /\ UNCHANGED <<client, server, request, answer, serverConn>>

NegNext ==
    \/ handshakeRequest \/ ForeignRequest
    \/ AcceptFails \/ Accept \/ ForeignAccept
    \/ verifyServerResponse \/ ForeignVerify

NegSpec == NegInit /\ [][NegNext]_negVars

-----------------------------------------------------------------------------
Established == clientConn.made /\ serverConn.made

(* A server that was asked for no context takeover and grants the extension *)
(* says so in its answer (RFC 7692, 7.1.1.1).                               *)
ServerKeepsRFC ==
    server.foreign /\ answer.extensions # <<>> =>
        \E i \in DOMAIN request.extensions :
           ServerNo \in request.extensions[i].params
              => ServerNo \in answer.extensions[1].params

(* Who compresses with context takeover is read by one who keeps the window *)
(* (compress.go:33,read.go:194,write.go:71).                                *)
Understands(copts, peer, flag) ==
    flag \notin copts.flags => flag \notin peer.flags

(* Both ends use the same subprotocol, both compress or neither, and each   *)
(* can read what the other compresses (accept.go:114-122, dial.go:140).     *)
EndsAgree ==
    Established /\ ServerKeepsRFC =>
        /\ clientConn.protocol = serverConn.protocol
        /\ clientConn.copts.on = serverConn.copts.on
        /\ clientConn.copts.on =>
              /\ Understands(clientConn.copts, serverConn.copts, ClientNo)
              /\ Understands(serverConn.copts, clientConn.copts, ServerNo)
        /\ ~client.foreign /\ ~server.foreign
              => clientConn.copts = serverConn.copts

(* A side of this library uses only what the client offered, the name in    *)
(* the client's spelling, and what it enabled itself (accept.go:248-300,    *)
(* dial.go:257-304).                                                        *)
OnlyWhatWasOffered ==
    /\ serverConn.made /\ ~server.foreign =>
          /\ \/ serverConn.protocol = NoProtocol
             \/ \E i \in DOMAIN request.protocols :
                   serverConn.protocol = request.protocols[i]
          /\ serverConn.copts.on =>
                /\ server.mode # "disabled"
                /\ \E i \in DOMAIN request.extensions :
                      /\ request.extensions[i].name = "permessage-deflate"
                      /\ "server_max_window_bits=10"
                            \notin request.extensions[i].params
                      /\ request.extensions[i].params \cap Flags
                            \subseteq serverConn.copts.flags
    /\ clientConn.made /\ ~client.foreign =>
          /\ \/ clientConn.protocol = NoProtocol
             \/ \E i \in DOMAIN client.protocols :
                   SameProtocol(clientConn.protocol, client.protocols[i])
          /\ clientConn.copts.on =>
                /\ client.mode # "disabled"
                /\ opts(client.mode) \subseteq clientConn.copts.flags
=============================================================================

--------------------------- MODULE SpanAttributes ---------------------------
(***************************************************************************)
(* What the synthesizer says of an operation (synth/attributes.go): the    *)
(* kind of its span, its static attributes, and what the outcome adds to   *)
(* them.  An operation is seen from one side of a call: a place is a       *)
(* service's operation, and an input is a place and the edge that is being *)
(* followed, if any.  An attribute set is a set of pairs; a value that is  *)
(* computed from a name alone is that name (method and route, the system). *)
(*                                                                         *)
(* A name is a sequence of parts: where the code joins names with a dot or *)
(* an arrow, a name that holds one itself may make two joins equal.        *)
(***************************************************************************)
EXTENDS Integers, Sequences

CONSTANTS
  Parts,       \* what names are made of
  Places,      \* operations, records with a service and a name
  ServiceKind, \* of each service
  Entries,     \* those that are steps of a journey
  Edges,
  NoEdge,      \* of an entry operation
  From, To,    \* the places an edge connects
  Protocol     \* of each edge

Services == {p.service : p \in Places}
Kinds == {"application", "database", "cache", "queue", "external_api"}

ASSUME SpanAssumption ==
  /\ {".", "->", "/", "http", "grpc", "messaging"} \subseteq Parts
  /\ Places \subseteq [service : Seq(Parts), name : Seq(Parts)]
  /\ Entries \subseteq Places /\ Entries # {}
  /\ NoEdge \notin Edges
  /\ From \in [Edges -> Places] /\ To \in [Edges -> Places]
  /\ Protocol \in [Edges -> {"http", "grpc", "messaging"}]
  /\ ServiceKind \in [Services -> Kinds]

\* What BeginSpan and RecordMetric are called with: an entry operation, the callee
\* of an edge, or the producer of a messaging edge.
Inputs ==
  [place : Entries, edge : {NoEdge}]
    \cup {[place |-> To[e], edge |-> e] : e \in Edges}
    \cup {[place |-> From[e], edge |-> e] :
           e \in {f \in Edges : Protocol[f] = "messaging"}}

-----------------------------------------------------------------------------
\* The caller's side is tried first: it is also what the callee of a call within
\* one service gets.  Every input lies at an end of its edge, so the directions
\* dirInternal and dirUnset, and the internal policy, do not arise.
InferDirection(in) ==
  LET svc == in.place.service
      messaging == in.edge # NoEdge /\ Protocol[in.edge] = "messaging"
  IN IF in.edge = NoEdge THEN "server"
     ELSE IF From[in.edge].service = svc
       THEN IF messaging THEN "producer" ELSE "client"
     ELSE IF messaging THEN "consumer" ELSE "server"

ProtocolFor(in) == IF in.edge = NoEdge THEN "http" ELSE Protocol[in.edge]

SpanKindFor ==
  [client |-> "Client", server |-> "Server", producer |-> "Producer",
   consumer |-> "Consumer"]

\* The namespace of an operation's attributes, which is also that of its metrics,
\* and the side it takes.
Namespace(in) ==
  CASE ServiceKind[in.place.service] \in {"database", "cache"} -> "db"
    [] ServiceKind[in.place.service] = "queue" -> "messaging"
    [] ServiceKind[in.place.service] = "external_api" -> "http"
    [] OTHER -> CASE ProtocolFor(in) = "http" -> "http"
                  [] ProtocolFor(in) = "grpc" -> "rpc"
                  [] ProtocolFor(in) = "messaging" -> "messaging"

PolicyFor(in) ==
  LET ns == Namespace(in)
      inferred == InferDirection(in)
      kind == ServiceKind[in.place.service]
      dir == CASE kind \in {"database", "cache", "external_api"} -> "client"
               [] ns = "messaging" /\ inferred # "consumer" -> "producer"
               [] OTHER -> inferred
  IN [kind |-> SpanKindFor[dir], namespace |-> ns, direction |-> dir]

\* Whether the operation counts as an active request of its server.
CountsActive(in) ==
  /\ PolicyFor(in).namespace \in {"http", "rpc"}
  /\ PolicyFor(in).kind = "Server"

-----------------------------------------------------------------------------
\* edgeTargetServiceName: the service an edge leads to.
TargetService(e) == IF e = NoEdge THEN {} ELSE {To[e].service}

ServerPort(s, e) ==
  CASE ServiceKind[s] = "database" -> 5432
    [] ServiceKind[s] = "cache" -> 6379
    [] ServiceKind[s] = "queue" -> 9092
    [] ServiceKind[s] = "external_api" -> 443
    [] Protocol[e] = "grpc" -> 50051
    [] OTHER -> 8080

ServerAttrs(e) ==
  UNION {{<<"server.address", s>>, <<"server.port", ServerPort(s, e)>>} :
         s \in TargetService(e)}

HttpStaticAttrs(in, dir) ==
  {<<"http.request.method", in.place.name>>} \cup
  CASE dir = "server" -> {<<"http.route", in.place.name>>}
    [] dir = "client" ->
         {<<"url.path", in.place.name>>, <<"url.scheme", "http">>} \cup
         ServerAttrs(in.edge) \cup
         {<<"peer.service", s>> : s \in {t \in TargetService(in.edge) :
            "external_api" \in {ServiceKind[t], ServiceKind[in.place.service]}}}
    [] OTHER -> {}

RpcStaticAttrs(in, dir) ==
  LET callee == IF dir = "client" THEN TargetService(in.edge) ELSE {}
  IN {<<"rpc.system", "grpc">>, <<"rpc.method", in.place.name>>} \cup
     {<<"rpc.service", s>> :
        s \in IF callee = {} THEN {in.place.service} ELSE callee} \cup
     (IF callee = {} THEN {} ELSE ServerAttrs(in.edge))

DbStaticAttrs(in) ==
  {<<"db.system", in.place.service>>, <<"db.operation.name", in.place.name>>} \cup
  ServerAttrs(in.edge)

MessagingStaticAttrs(in, dir) ==
  {<<"messaging.system", in.place.service>>,
   <<"messaging.operation.name", IF dir = "consumer" THEN "receive" ELSE "publish">>} \cup
  {<<"messaging.destination.name", d>> :
     d \in IF TargetService(in.edge) = {} THEN {in.place.name}
                                         ELSE TargetService(in.edge)} \cup
  ServerAttrs(in.edge)

BuildStaticSet(in) ==
  LET p == PolicyFor(in)
  IN {<<"service.name", in.place.service>>} \cup
     CASE p.namespace = "http" -> HttpStaticAttrs(in, p.direction)
       [] p.namespace = "rpc" -> RpcStaticAttrs(in, p.direction)
       [] p.namespace = "db" -> DbStaticAttrs(in)
       [] p.namespace = "messaging" -> MessagingStaticAttrs(in, p.direction)

OperationID(p) == p.service \o <<".">> \o p.name

EdgeName(e) == OperationID(From[e]) \o <<"->">> \o OperationID(To[e])

\* The key of the cache of static sets.
EdgeID_unprotocolled(e) ==  \* mutant
  IF e = NoEdge THEN <<>> ELSE EdgeName(e) \o <<"/">>
EdgeID(e) ==
  IF e = NoEdge THEN <<>> ELSE EdgeName(e) \o <<"/", Protocol[e]>>

CacheKeyFor(in) ==
  <<in.place.service, in.place.name, EdgeID(in.edge), PolicyFor(in).direction>>

-----------------------------------------------------------------------------
\* The outcomes of an attempt, as the engine reports them.
ErrorTypes ==
  {"crashed", "context_canceled", "timeout", "grpc.deadline_exceeded",
   "connection_refused", "http.500", "grpc.unavailable", "db.connection_lost"}
Codes == {0, 4, 14, 200, 500, 503, 504}
Failure(code, type) == [success |-> FALSE, code |-> code, error |-> type]

DefaultFaultErrorType(in) ==
  CASE ServiceKind[in.place.service] \in {"database", "cache"} -> "db.connection_lost"
    [] in.edge # NoEdge /\ Protocol[in.edge] = "grpc" -> "grpc.unavailable"
    [] OTHER -> "http.500"

PickStatusCode(failed, type) ==
  CASE ~failed -> 200
    [] failed /\ type = "grpc.unavailable" -> 14
    [] OTHER -> 500

\* What becomes of a call: it fails for the reason a drawn fault gives, or not.
Result(in, failed) ==
  LET type == IF failed THEN DefaultFaultErrorType(in) ELSE ""
  IN [success |-> ~failed, code |-> PickStatusCode(failed, type), error |-> type]

TimeoutFailure(e) ==
  IF Protocol[e] = "grpc" THEN Failure(4, "grpc.deadline_exceeded")
                          ELSE Failure(504, "timeout")

\* statusFor.
StatusFor_rpc_code(in, o) ==  \* mutant
  LET ns == PolicyFor(in).namespace
  IN IF \/ ns = "http" /\ o.code \in 500..599
        \/ ns = "rpc" /\ o.code # 0
     THEN "Error" ELSE "Unset"
StatusFor(in, o) ==
  LET ns == PolicyFor(in).namespace
  IN IF \/ ns = "http" /\ o.code \in 500..599
        \/ ns = "rpc" /\ o.code # 0
        \/ ~(ns = "http" /\ o.code \in 400..499) /\ ~o.success
     THEN "Error" ELSE "Unset"

\* dynamicOutcomeAttrs.
DynamicOutcomeAttrs(in, o) ==
  LET ns == PolicyFor(in).namespace
      code == IF o.code = 0 THEN {} ELSE {o.code}
  IN (IF ns = "http" THEN {<<"http.response.status_code", c>> : c \in code} ELSE {})
     \cup (IF ns = "rpc" THEN {<<"rpc.grpc.status_code", c>> : c \in code} ELSE {})
     \cup (IF ~o.success /\ o.error # "" THEN {<<"error.type", o.error>>} ELSE {})

=============================================================================

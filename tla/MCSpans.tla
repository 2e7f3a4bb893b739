------------------------------- MODULE MCSpans -------------------------------
(***************************************************************************)
(* SynthSpans for TLC: a shop that is called, calls a payment service over *)
(* HTTP and gRPC, publishes to it, reads a database and calls a bank.  It  *)
(* also publishes to an operation of another service that has the dotted   *)
(* name pay.eu.charge as well.                                             *)
(***************************************************************************)
EXTENDS SynthSpans, TLC

MCParts == {".", "->", "/", "http", "grpc", "messaging", "shop", "buy", "pay", "eu",
            "charge", "db", "query", "bank", "settle"}
pay == <<"pay">>
payEU == <<"pay", ".", "eu">>
buy == [service |-> <<"shop">>, name |-> <<"buy">>]
charge == [service |-> pay, name |-> <<"eu", ".", "charge">>]
chargeEU == [service |-> payEU, name |-> <<"charge">>]
query == [service |-> <<"db">>, name |-> <<"query">>]
settle == [service |-> <<"bank">>, name |-> <<"settle">>]
MCPlaces == {buy, charge, chargeEU, query, settle}
MCEntries == {buy}
MCServiceKind == <<"shop">> :> "application" @@ pay :> "application" @@
                 payEU :> "application" @@ <<"db">> :> "database" @@
                 <<"bank">> :> "external_api"
MCEdges == {"http", "grpc", "queue", "queueEU", "sql", "bank"}
MCFrom == [e \in MCEdges |-> buy]
MCTo == [http |-> charge, grpc |-> charge, queue |-> charge, queueEU |-> chargeEU,
         sql |-> query, bank |-> settle]
MCProtocol == [http |-> "http", grpc |-> "grpc", queue |-> "messaging",
               queueEU |-> "messaging", sql |-> "http", bank |-> "http"]
MCErrorRate == [e \in MCEdges |-> IF e = "sql" THEN 1 ELSE 0]

MCCascades == {Failure(500, "crashed"), Failure(4, "grpc.deadline_exceeded")}

\* A crash that is scheduled, a disconnect of certain effect, and an override.
MCFaults ==
  LET Fault(kind, target, probability, value, schedule) ==
        [kind |-> kind, target |-> target, probability |-> probability, value |-> value,
         inflates |-> kind = "latency_inflation", schedule |-> schedule]
  IN << Fault("crash", <<"node", pay>>, 2, 0, <<[from |-> 1, intensity |-> 1]>>),
        Fault("disconnect", <<"edge", "http">>, 1, 0, <<>>),
        Fault("latency_inflation", <<"edge", "grpc">>, 2, 0, <<>>),
        Fault("error_rate_override", <<"operation", charge>>, 2, 3, <<>>) >>

MCTelemetry ==
  LET Item(c, k) == [condition |-> c, whenFault |-> k]
      kind == [p \in MCPlaces |-> IF p = charge THEN "crash" ELSE "latency_inflation"]
  IN [p \in MCPlaces |->
        [events |-> {"on_error", "on_success"},
         metrics |-> {Item("always", kind[p]), Item("on_error", "error_rate_override")},
         updates |-> {Item("on_error", kind[p]), Item("always", "error_rate_override")},
         profile |-> {kind[p]}]]

Symmetry == Permutations(Workers)

=============================================================================

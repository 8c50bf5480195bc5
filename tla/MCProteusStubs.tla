--------------------------- MODULE MCProteusStubs ---------------------------
(* A method of each interaction model, two that no server knows, and three *)
(* versions of the server: a complete one, and two that lack whole         *)
(* interaction models.                                                     *)
EXTENDS ProteusStubs, TLC

CONSTANTS tell, ask, askNew, stream, chat, chatNew

MCMethods == {tell, ask, askNew, stream, chat, chatNew}
MCServerVersions == {{tell, ask, stream, chat}, {ask, chat}, {tell, stream}}
MCInteractionOf ==
  (tell :> "fireAndForget")
  @@ (ask :> "requestResponse") @@ (askNew :> "requestResponse")
  @@ (stream :> "requestStream")
  @@ (chat :> "requestChannel") @@ (chatNew :> "requestChannel")
=============================================================================

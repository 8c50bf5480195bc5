---------------------- MODULE MCRequestHandlingRSocket ----------------------
(* Three ids whose probes meet and wrap around, and two services with the  *)
(* same ids.                                                               *)
EXTENDS RequestHandlingRSocket, TLC

CONSTANTS ping, pong, chat, ping2,   \* services
          x, y, z                    \* ids

MCServices == {ping, pong, chat, ping2}
MCIdOf == (ping :> x) @@ (ping2 :> x) @@ (pong :> y) @@ (chat :> z)
MCHashOf == (x :> 3) @@ (y :> 7) @@ (z :> 11)
MCInitialServices == <<ping, ping2>>
=============================================================================

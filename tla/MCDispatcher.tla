---------------------------- MODULE MCDispatcher ----------------------------
(* Sessions, entities and callers are model values; every entity is of the *)
(* type FQDN except those in Addresses.                                    *)
EXTENDS Dispatcher, TLC

CONSTANTS Addresses, s1, e1, e2, c1, c2, m

MCTypeOf == [e \in Entities |-> IF e \in Addresses THEN "IPAddress" ELSE "FQDN"]

MCOwners == Sessions \X AssetTypes

Do(kind, e) == [kind |-> kind, s |-> s1, e |-> e, m |-> m]

\* Two callers race to submit an asset; or a caller submits one and queues it
\* again in either way, or submits another, while the first is on its way.
RacingScripts ==
  {(c1 :> <<Do("dispatch", e1)>>) @@ (c2 :> <<Do("dispatch", e1)>>)}
    \cup {(c1 :> <<Do("dispatch", e1), call>>) @@ (c2 :> << >>) :
            call \in {Do("resubmit", e1), Do("requeue", e1), Do("dispatch", e2)}}

\* An asset is submitted, and queued once more without a wake-up.
TwiceScripts ==
  {(c1 :> <<Do("dispatch", e1), Do("requeue", e1)>>) @@ (c2 :> << >>)}
=============================================================================

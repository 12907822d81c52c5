---------------------------- MODULE MCMembership ----------------------------
(***************************************************************************)
(* An instance of Membership: three proxies at the places of the ring that *)
(* start_proxy.sh and its two copies give them, and one whose place is not *)
(* in hundredths; one client.                                              *)
(***************************************************************************)
EXTENDS Membership, TLC

CONSTANTS h1, h2, h3, h4, c1

MCLocation == h1 :> 0 @@ h2 :> 330 @@ h3 :> 660 @@ h4 :> 505

Scenario(hosts, ahead, clients, crash, late, fail, stop) ==
    [hosts |-> hosts, ahead |-> ahead, clients |-> clients,
     crash |-> crash, late |-> late, fail |-> fail, stop |-> stop]

MCScenarios ==
    {Scenario({h1, h2, h3}, {}, {}, 2, 0, 0, 0),
     Scenario({h1, h2}, {}, {}, 2, 1, 1, 0),
     Scenario({h1, h2}, {h1}, {}, 1, 0, 0, 0),
     Scenario({h1, h4}, {}, {}, 1, 0, 0, 0),
     Scenario({h1, h2, h3}, {}, {c1}, 0, 0, 0, 1)}
=============================================================================

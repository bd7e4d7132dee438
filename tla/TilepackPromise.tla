--------------------------- MODULE TilepackPromise ---------------------------
(***************************************************************************)
(* What the tilepack service promises of one item, without Jobs, pods,     *)
(* locks, retries or transactions: archives are made for who asks, kept    *)
(* as long as the bucket keeps anything, named by the item once they are   *)
(* there, and "ready" is said once and for good.                           *)
(*                                                                         *)
(* PMTiles come with the MBTiles they are converted from, and an archive   *)
(* with zooms of the client's own stays out of the item.                   *)
(***************************************************************************)
CONSTANTS
  Clients,
  Variants,  \* of "pmtiles", "mbtiles" and "custom"
  Loses      \* whether the bucket may lose an archive

VARIABLES
  wants,     \* the variant each client asks for
  told,      \* the clients that were told "ready"
  archives,  \* what is in the bucket
  listed     \* what the item names

promiseVars == <<wants, told, archives, listed>>

Published == {"pmtiles", "mbtiles"}

(* It was there, and is still unless the bucket lost it. *)
Had(v) == ~Loses => v \in archives

WantedBy(c) == {wants[c]} \cup IF wants[c] = "pmtiles" THEN {"mbtiles"} ELSE {}

PromiseInit == wants \in [Clients -> Variants] /\ told = {} /\ archives = {} /\ listed = {}

Deliver(v) ==
  /\ \E c \in Clients : v \in WantedBy(c)
  /\ v = "pmtiles" => Had("mbtiles")
  /\ archives' = archives \cup {v}
  /\ UNCHANGED <<wants, told, listed>>

Name(v) ==
  /\ v \in Published /\ Had(v)
  /\ listed' = listed \cup {v}
  /\ UNCHANGED <<wants, told, archives>>

Tell(c) ==
  /\ Had(wants[c])
  /\ wants[c] \in Published => wants[c] \in listed
  /\ told' = told \cup {c}
  /\ UNCHANGED <<wants, archives, listed>>

Lose(v) ==
  /\ Loses
  /\ archives' = archives \ {v}
  /\ UNCHANGED <<wants, told, listed>>

PromiseNext ==
  \/ \E v \in Variants \cup Published : Deliver(v) \/ Name(v) \/ Lose(v)
  \/ \E c \in Clients : Tell(c)

PromiseSpec == PromiseInit /\ [][PromiseNext]_promiseVars
=============================================================================

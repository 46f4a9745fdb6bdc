----------------------------- MODULE MCServices -----------------------------
(* A room, a pair of users and the sessions of an account: three services   *)
(* that share no rows.  A behaviour is one of the three, chosen at the      *)
(* start; the others rest.  Three accounts are enough for an owner, an      *)
(* admin and somebody they act on, with the roles free to rotate; the keys  *)
(* an account starts with are the same as each other, and so are those      *)
(* still to be made.                                                        *)
EXTENDS Rooms, Social, Sessions, TLC

VARIABLE part  \* the service that this behaviour is about

ServicesInit ==
    /\ part \in {"room", "pair", "sessions"}
    /\ Init /\ PairInit /\ SessionsInit

RoomStep    == part = "room" /\ Next /\ UNCHANGED <<pairVars, svars>>
PairStep    == part = "pair" /\ PairNext /\ UNCHANGED <<vars, svars>>
SessionStep == part = "sessions" /\ SessionsNext /\ UNCHANGED <<vars, pairVars>>

ServicesNext == UNCHANGED part /\ (RoomStep \/ PairStep \/ SessionStep)

ServicesSpec == ServicesInit /\ [][ServicesNext]_<<part, vars, pairVars, svars>>

Symmetry == Permutations(Users) \cup Permutations(Requests)
               \cup Permutations(Initial) \cup Permutations(Keys \ Initial)

============================================================================

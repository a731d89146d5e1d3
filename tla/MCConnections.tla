--------------------------- MODULE MCConnections ---------------------------
(***************************************************************************)
(* The registry and the store, for TLC.  The variable part names which of  *)
(* them a behaviour is about: in the registry's, two sessions work on it   *)
(* and an administrator shares, forgets and defaults in one step; in the   *)
(* store's, the requests are taken apart and one session is beside them.   *)
(***************************************************************************)
EXTENDS ConnectionStore, TLC

CONSTANTS prod, prod2, s1

VARIABLE part

\* One name that every session types, and the ID that the suffixes of both lead to
\* (24 bits may collide, which is why disambiguateIDLocked keeps a counter).
MCConnID == {DefaultID, prod, prod2}

MCCandidates == [s \in Session |-> [id \in MCConnID |->
                    IF id = prod THEN <<prod2>> ELSE << >>]]

MCRank == (DefaultID :> 0) @@ (prod :> 1) @@ (prod2 :> 2)

InEnv == {prod2}

\* Objects other than the built-in one are interchangeable.
ObjSymmetry == Permutations(Obj \ {BuiltIn})

----------------------------------------------------------------------------

\* The registry, beside a store that no save has brought up to date.
RegistryAlone ==
    part = "registry" /\ Init /\ NothingStored /\ degraded = "now" /\ writeThrough

StoreAlone ==
    part = "store" /\ StoreInit

RegistryMoves == part = "registry" /\ Next /\ UNCHANGED storeVars

\* One session, which opens one connection; startup discovers the other.
Small ==
    /\ adding[s1].at = "opening" => adding[s1].id = prod
    /\ \A s \in Session \ {s1} :
          /\ adding[s] = NotAdding /\ activeBySession[s] = None
          /\ \A o \in Obj : conn[o].owner # s

StoreMoves == part = "store" /\ StoreNext /\ Small'

MCSpec ==
    /\ RegistryAlone \/ StoreAlone
    /\ [][(RegistryMoves \/ StoreMoves) /\ UNCHANGED part]_<<vars, part>>
=============================================================================

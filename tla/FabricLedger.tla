---------------------------- MODULE FabricLedger ----------------------------
(***************************************************************************)
(* Hyperledger Fabric as the chaincodes see it, reduced to what decides    *)
(* whether an endorsed proposal changes the world state.                   *)
(*                                                                         *)
(* A chaincode call is simulated on a peer's committed state and yields a  *)
(* read set (the version of every record that was read) and a write set.   *)
(* The ordered proposal is validated against the world state of that later *)
(* moment: it is applied whole when every version it read is still the     *)
(* current one, and discarded whole otherwise.                             *)
(*                                                                         *)
(* Versions are counted per record, from 0 for a record nobody wrote.      *)
(* Fabric uses (block, transaction) pairs; validation only compares them   *)
(* for equality.  A rich query that returns nothing leaves no trace in the *)
(* read set, a private record read by name always does.                    *)
(***************************************************************************)
EXTENDS Naturals

\* The read set of a call that read nothing, the write set of one that wrote nothing.
Nothing == [k \in {} |-> 0]

\* Multi-version validation of a read set against the current versions.
ReadsCurrent(reads, ver) == \A k \in DOMAIN reads : ver[k] = reads[k]

\* The records of a collection once a write set is applied to it.
Overlay(docs, writes) ==
    [k \in DOMAIN docs |-> IF k \in DOMAIN writes THEN writes[k] ELSE docs[k]]

\* The versions once every record in Keys has been written.
Bump(ver, Keys) == [k \in DOMAIN ver |-> IF k \in Keys THEN ver[k] + 1 ELSE ver[k]]
=============================================================================

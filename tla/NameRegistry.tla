---------------------------- MODULE NameRegistry ----------------------------
(***************************************************************************)
(* The registry of fnames (name_registry_events.rs) and the merge of       *)
(* username proofs (merge_username_proof in user_data_store.rs), beside    *)
(* the threads of StoreEventHandler that number their events too.  Proofs  *)
(* are merged on the JavaScript thread, one after the other: no other      *)
(* thread reads or writes the registry, so a merge is one step.            *)
(*                                                                         *)
(* A proof with fid 0 deletes the name: it is stored in place of the one   *)
(* before, and the entry by fid is removed.                                *)
(***************************************************************************)
EXTENDS StoreEventHandler

CONSTANTS
    Name,
    Fid,        \* fids that own names, without 0
    Proof       \* username proofs: [name, fid, timestamp, signature]

ASSUME ProofType ==
    Proof \subseteq [name : Name, fid : Fid \cup {0}, timestamp : Nat, signature : Nat]
ASSUME FidPositive == Fid \subseteq Nat \ {0}

VARIABLES
    proofs,     \* [Name -> set of at most one proof]  by name
    byFid,      \* [Fid -> set of at most one name]    by fid
    \* history
    offered,    \* the proofs that were merged or refused
    unclear     \* fids that had two names at a time, or lost one to another fid

registry == <<proofs, byFid, offered, unclear>>
allVars == <<vars, registry>>

RegistryInit ==
    /\ Init
    /\ proofs = [n \in Name |-> {}]
    /\ byFid = [f \in Fid |-> {}]
    /\ offered = {} /\ unclear = {}

\* mutant: only the timestamps are compared
Older_TimestampOnly(p, q) == p.timestamp <= q.timestamp

\* username_proof_compare(p, q) < 0
Older(p, q) ==
    \/ p.timestamp < q.timestamp
    \/ p.timestamp = q.timestamp /\ p.signature < q.signature

(* The refusals of merge_username_proof: a proof that is not newer than    *)
(* the one stored, and the deletion of a name that is not stored.          *)
Refused(p) ==
    \/ \E q \in proofs[p.name] : ~Older(q, p)
    \/ proofs[p.name] = {} /\ p.fid = 0

\* mutant: the entry of the fid is kept when its name is deleted
ByFidAfter_Kept(p) == IF p.fid = 0 THEN byFid ELSE [byFid EXCEPT ![p.fid] = {p.name}]

\* put_username_proof_transaction and delete_username_proof_transaction
ByFidAfter(p) ==
    IF p.fid # 0 THEN [byFid EXCEPT ![p.fid] = {p.name}]
    ELSE [f \in Fid |-> IF \E q \in proofs[p.name] : q.fid = f THEN {} ELSE byFid[f]]

\* the fids whose entry the merge of p makes unreliable
Unclear(p) ==
    {f \in Fid : /\ p.fid # 0
                 /\ \/ \E q \in proofs[p.name] : q.fid = f /\ f # p.fid
                    \/ f = p.fid /\ \E n \in Name \ {p.name} : \E q \in proofs[n] : q.fid = f}

RefuseProof(p) ==
    /\ Refused(p)
    /\ p \notin offered
    /\ offered' = offered \cup {p}
    /\ UNCHANGED <<vars, proofs, byFid, unclear>>

(* The proof and its event are written in one batch; without an id, or     *)
(* when the commit fails, nothing is.                                      *)
MergeProof(p) ==
    /\ ~Refused(p)
    /\ GenerateId(now, NextId)
    /\ visible' = visible \cup {[id |-> NextId, lock |-> Unlocked]}
    /\ proofs' = [proofs EXCEPT ![p.name] = {p}]
    /\ byFid' = ByFidAfter(p)
    /\ offered' = offered \cup {p}
    /\ unclear' = unclear \cup Unclear(p)
    /\ UNCHANGED <<now, work>>

MergeProofFails(p) ==
    /\ ~Refused(p)
    /\ GenerateFails(now) \/ GenerateId(now, NextId)
    /\ UNCHANGED <<now, work, visible, registry>>

MergeUsernameProof(p) == RefuseProof(p) \/ MergeProof(p) \/ MergeProofFails(p)

RegistryNext ==
    \/ Next /\ UNCHANGED registry
    \/ \E p \in Proof : MergeUsernameProof(p)

RegistrySpec == RegistryInit /\ [][RegistryNext]_allVars

(* get_fname_proof_by_fid                                                  *)
ProofByFid(f) == UNION {proofs[n] : n \in byFid[f]}

-----------------------------------------------------------------------------
(* The newest proof offered for a name is the one stored, in whatever      *)
(* order the proofs came; only a deletion may have come too early, when    *)
(* there was nothing to delete, and is then forgotten.                     *)
NewestProofWins ==
    \A p \in offered :
        (p.fid # 0 /\ \A q \in offered : q.name = p.name /\ q # p => Older(q, p))
            => proofs[p.name] = {p}

(* The lookup by fid finds exactly the proof whose fid it is, through      *)
(* merges and deletions in any order, unless the fid had two names at a    *)
(* time or one of its names went to another fid without a deletion.        *)
ByFidExact ==
    \A f \in Fid \ unclear :
        ProofByFid(f) = {p \in UNION {proofs[n] : n \in Name} : p.fid = f}
=============================================================================

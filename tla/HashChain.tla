------------------------------ MODULE HashChain ------------------------------
(***************************************************************************)
(* The SHA-256 hash chain of forwarder/src/hashchain.rs, shared by the     *)
(* forwarder (which extends the chain) and by vibe_audit.verify_chain()    *)
(* (which recomputes it).                                                  *)
(*                                                                         *)
(* A digest is modelled by the free constructor: the hash of a payload on  *)
(* top of a previous hash is the previous hash with the payload appended.  *)
(* Two digests are equal exactly when they were computed from the same     *)
(* previous hash and the same payload (collision resistance), and no       *)
(* digest equals the empty string the chain starts from.                   *)
(***************************************************************************)
EXTENDS Naturals, Sequences

\* The empty string of HashChain::new(), and of "prev TEXT := ''" in SQL.
NoHash == << >>

\* hex(sha256(prev || payload))
Digest(prev, payload) == Append(prev, payload)

\* HashChain::new()
NewChain == [prev_hash |-> NoHash, chain_length |-> 0]

\* The two assignments at the end of HashChain::apply().
Advance(chain, payload) ==
  [prev_hash    |-> Digest(chain.prev_hash, payload),
   chain_length |-> chain.chain_length + 1]

-----------------------------------------------------------------------------
(***************************************************************************)
(* What it means for a sequence of chained records to hang together.       *)
(***************************************************************************)

\* Every record but the first names its predecessor's hash.
Linked(s) == \A i \in 1..Len(s) : \A j \in 1..Len(s) :
               j = i + 1 => s[j].prev_hash = s[i].event_hash

\* The hash the record at position i has to be chained to.
HashBefore(s, i) == IF i = 1 THEN NoHash ELSE s[i - 1].event_hash

\* The record at position i is what an honest chain holds there.
GoodAt(s, i, Payload(_)) ==
  /\ s[i].prev_hash  = HashBefore(s, i)
  /\ s[i].event_hash = Digest(HashBefore(s, i), Payload(s[i]))

\* The whole table is one chain that starts at the empty string.
ChainValid(s, Payload(_)) == \A i \in 1..Len(s) : GoodAt(s, i, Payload)
=============================================================================

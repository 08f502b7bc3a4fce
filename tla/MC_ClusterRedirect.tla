------------------------- MODULE MC_ClusterRedirect -------------------------
(* Model-checking instance of ClusterRedirect: node n1 with a master pool *)
(* and two replica pools, n2 with a master and one replica, one pooled   *)
(* connection per pool, two slots, two keys that share a hash tag, two    *)
(* clients.  The operators of Hashing are checked in every state, over   *)
(* the clients' keys and over all keys and continua of the sizes here.    *)
EXTENDS ClusterRedirect, Hashing, TLC

CONSTANTS n1, n2, m1, m2, r1, r2, r3, x1, x2, x3, x4, x5, c1, c2, u

MCNodes == {n1, n2}
MCDbs == {m1, m2, r1, r2, r3}
MCDbNode == (m1 :> n1) @@ (r1 :> n1) @@ (r3 :> n1) @@ (m2 :> n2) @@ (r2 :> n2)
MCMaster == (n1 :> m1) @@ (n2 :> m2)
MCSlaves == (n1 :> <<r1, r3>>) @@ (n2 :> <<r2>>)
MCModeMS == [n \in MCNodes |-> "ms"]
MCModeSingle == [n \in MCNodes |-> "single"]
MCConns == {x1, x2, x3, x4, x5}
MCConnDb == (x1 :> m1) @@ (x2 :> m2) @@ (x3 :> r1) @@ (x4 :> r2) @@ (x5 :> r3)
(* A stand-in for utils.Crc16, injective on keys of up to 4 bytes. *)
ByteCode == ("a" :> 1) @@ ("{" :> 2) @@ ("}" :> 3)
RECURSIVE Code(_)
Code(s) == IF s = <<>> THEN 1 ELSE 4 * Code(Front(s)) + ByteCode[Last(s)]
MCCrc16 == [s \in BoundedSeq(DOMAIN ByteCode, 4) |-> Code(s)]

(* Two keys sharing the hash tag "a", so one slot: "a" and "a{a}". *)
MCKeys == {<<"a">>, <<"a", "{", "a", "}">>}
MCSlotOf == [k \in MCKeys |-> hashSlot(k, 1)]

MCKeyBytes == {"a", "{", "}"}
MCMasks == {1, 1023}
MCShards == {0, 1}
MCPointValues == 0..3
MCHashes == 0..4
MCClients == {c1, c2}

(* CLUSTER SLOTS replies: complete, overlapping, incomplete, out of range, *)
(* unknown master, and one with the right count but a slot missing.        *)
MCReplies == {
    << <<0, 1, n2>> >>,
    << <<0, 0, n1>>, <<0, 1, n2>> >>,
    << <<0, 0, n1>> >>,
    << <<0, 2, n2>> >>,
    << <<0, 1, u>> >>,
    << <<1, 2, n1>> >> }

(* Ketama hashes of the model's keys, in Hashes (KetamaHash is not modelled). *)
KeyHash(k) == Crc16[k] % 5

(* hashSlot follows the hash tag rule: the slot every client's current   *)
(* key is routed by (SlotOf, mask 1 for two slots) is the CRC of the tag *)
(* the rule names, and so is hashSlot's slot for every key of up to      *)
(* MaxKeyLen bytes and every mask in Masks.                               *)
HashTagRule ==
    /\ SlotsFollowTags
    /\ \A c \in Clients : SlotOf[key[c]] = BitAnd(Crc16[RefHashTag(key[c])], 1)

(* KetamaDispatch finds the reference ring point: for every sorted       *)
(* continuum and every hash in Hashes, which holds the hash of every      *)
(* client's current key, the binary search returns the first point >=    *)
(* the hash, else wraps to the first point.                               *)
DispatchAgrees ==
    /\ DispatchFindsRingPoint
    /\ \A c \in Clients : KeyHash(key[c]) \in Hashes
=============================================================================

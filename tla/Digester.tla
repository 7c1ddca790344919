------------------------------- MODULE Digester -------------------------------
(***************************************************************************)
(* The default digester of hash.go.  A basicDigesterBuilder holds the     *)
(* seed k0; its Digest takes a basicDigester from the process-wide        *)
(* sync.Pool, stores the key's hash input and its level-0 circlehash, and *)
(* hands the digester to the caller.  Levels 1..3 come from one blake3    *)
(* sum, computed on the first request and memoised in the digester.       *)
(* putDigester resets a digester and returns it to the pool.  Several     *)
(* goroutines (maps of different trees) share the pool concurrently.      *)
(*                                                                         *)
(* Hash values are abstract: Circle(key, k0) and Blake(key, i) are         *)
(* distinct tuples for distinct arguments; ZeroDigest is Digest(0).       *)
(***************************************************************************)
EXTENDS Naturals, FiniteSets

CONSTANTS
    Clients,        \* goroutines that digest keys, each with its own builder
    Keys,           \* the keys (Values) whose hash inputs are digested
    Objects,        \* the basicDigester objects the pool can ever allocate
    Seeds,          \* values SetSeed can give k0; 0 is the unset seed
    HipMayFail,     \* the HashInputProvider callback can return an error
    Nil,            \* nil msg, no digester held
    HashLevelError  \* the error Digest/DigestPrefix return for a bad level

ASSUME 0 \in Seeds

\* Levels() of basicDigester.
Levels == 4

ZeroDigest == <<"zero">>
Circle(key, k0) == <<"circlehash64", key, k0>>
Blake(key, i) == <<"blake3", key, i>>
EmptyBlake3Hash == [i \in 1..Levels |-> ZeroDigest]
Blake3Sum(key) == [i \in 1..Levels |-> Blake(key, i)]

VARIABLES
    k0,             \* each client's builder seed
    pool,           \* digesters idle in the sync.Pool
    created,        \* digesters the pool's New has allocated
    circleHash64,   \* per digester fields
    blake3Hash,
    msg,
    holds,          \* the digester each client holds, or Nil
    key,            \* the key and seed each client's digester was built with
    returned        \* (level, result) pairs Digest/DigestPrefix returned to a client

vars == <<k0, pool, created, circleHash64, blake3Hash, msg, holds, key, returned>>

Digests == {ZeroDigest} \cup {Circle(k, s) : k \in Keys, s \in Seeds} \cup {Blake(k, i) : k \in Keys, i \in 1..Levels}

TypeOK ==
    /\ k0 \in [Clients -> Seeds]
    /\ pool \subseteq created /\ created \subseteq Objects
    /\ circleHash64 \in [Objects -> Digests]
    /\ blake3Hash \in [Objects -> [1..Levels -> Digests]]
    /\ msg \in [Objects -> Keys \cup {Nil}]
    /\ holds \in [Clients -> Objects \cup {Nil}]
    /\ key \in [Clients -> (Keys \X Seeds) \cup {Nil}]
    /\ returned \in [Clients -> SUBSET ((0..Levels + 1) \X (Digests \cup {HashLevelError}))]

\* newBasicDigesterBuilder: k0 = 0; the pool is empty.
Init ==
    /\ k0 = [c \in Clients |-> 0]
    /\ pool = {}
    /\ created = {}
    /\ circleHash64 = [d \in Objects |-> ZeroDigest]
    /\ blake3Hash = [d \in Objects |-> EmptyBlake3Hash]
    /\ msg = [d \in Objects |-> Nil]
    /\ holds = [c \in Clients |-> Nil]
    /\ key = [c \in Clients |-> Nil]
    /\ returned = [c \in Clients |-> {}]

-----------------------------------------------------------------------------
\* Mutation: Reset leaves the memoised blake3 words in place.
ResetKeepsBlake3(d) ==
    /\ circleHash64' = [circleHash64 EXCEPT ![d] = ZeroDigest]
    /\ UNCHANGED blake3Hash
    /\ msg' = [msg EXCEPT ![d] = Nil]

\* Reset: clear every field.
Reset(d) ==
    /\ circleHash64' = [circleHash64 EXCEPT ![d] = ZeroDigest]
    /\ blake3Hash' = [blake3Hash EXCEPT ![d] = EmptyBlake3Hash]
    /\ msg' = [msg EXCEPT ![d] = Nil]

\* getBasicDigester can return d: an idle pooled digester, or a zeroed one
\* from New (sync.Pool.Get may call New even when the pool is not empty).
Gettable(d) == d \in pool \/ d \in Objects \ created

\* SetSeed: a digester already built keeps the circlehash of its seed.
SetSeed(c, s) ==
    /\ k0' = [k0 EXCEPT ![c] = s]
    /\ UNCHANGED <<pool, created, circleHash64, blake3Hash, msg, holds, key, returned>>

(* basicDigesterBuilder.Digest: with k0 = 0 it fails before touching the   *)
(* pool (a stutter); otherwise get a digester, record msg and the level-0  *)
(* hash.                                                                   *)
BuildDigester(c, k) ==
    /\ holds[c] = Nil
    /\ k0[c] # 0
    /\ \E d \in Objects :
          /\ Gettable(d)
          /\ pool' = pool \ {d}
          /\ created' = created \cup {d}
          /\ msg' = [msg EXCEPT ![d] = k]
          /\ circleHash64' = [circleHash64 EXCEPT ![d] = Circle(k, k0[c])]
          /\ holds' = [holds EXCEPT ![c] = d]
    /\ key' = [key EXCEPT ![c] = <<k, k0[c]>>]
    /\ UNCHANGED <<k0, blake3Hash, returned>>

(* The hash input callback fails: the digester goes straight back to the   *)
(* pool through putDigester.                                               *)
BuildDigesterFail(c) ==
    /\ holds[c] = Nil
    /\ k0[c] # 0
    /\ HipMayFail
    /\ \E d \in Objects :
          /\ Gettable(d)
          /\ Reset(d)
          /\ pool' = pool \cup {d}
          /\ created' = created \cup {d}
    /\ UNCHANGED <<k0, holds, key, returned>>

\* The digest at a level of digester d, computing the blake3 words if the
\* memo is still the empty hash.
Blake3Of(d) == IF blake3Hash[d] = EmptyBlake3Hash THEN Blake3Sum(msg[d]) ELSE blake3Hash[d]
DigestAt(d, level) ==
    CASE level >= Levels -> HashLevelError
      [] level = 0       -> circleHash64[d]
      [] OTHER           -> Blake3Of(d)[level]

\* Digest(level): memoise the blake3 words when levels 1..3 are asked for.
Digest(c, level) ==
    LET d == holds[c] IN
    /\ d # Nil
    /\ blake3Hash' = IF level \in 1..Levels - 1
                     THEN [blake3Hash EXCEPT ![d] = Blake3Of(d)]
                     ELSE blake3Hash
    /\ returned' = [returned EXCEPT ![c] = @ \cup {<<level, DigestAt(d, level)>>}]
    /\ UNCHANGED <<k0, pool, created, circleHash64, msg, holds, key>>

(* DigestPrefix(level): Digest(i) for i < level; a level above Levels is  *)
(* an error before any digest is computed.                                *)
DigestPrefix(c, level) ==
    LET d == holds[c] IN
    /\ d # Nil
    /\ \/ /\ level > Levels
          /\ returned' = [returned EXCEPT ![c] = @ \cup {<<level, HashLevelError>>}]
          /\ UNCHANGED blake3Hash
       \/ /\ level <= Levels
          /\ blake3Hash' = IF level >= 2
                           THEN [blake3Hash EXCEPT ![d] = Blake3Of(d)]
                           ELSE blake3Hash
          /\ returned' = [returned EXCEPT ![c] =
                             @ \cup {<<i, DigestAt(d, i)>> : i \in 0..level - 1}]
    /\ UNCHANGED <<k0, pool, created, circleHash64, msg, holds, key>>

\* putDigester: Reset and return to the pool.
PutDigester(c) ==
    LET d == holds[c] IN
    /\ d # Nil
    /\ Reset(d)
    /\ pool' = pool \cup {d}
    /\ holds' = [holds EXCEPT ![c] = Nil]
    /\ key' = [key EXCEPT ![c] = Nil]
    /\ returned' = [returned EXCEPT ![c] = {}]
    /\ UNCHANGED <<k0, created>>

Next ==
    \/ \E c \in Clients :
          \/ \E s \in Seeds : SetSeed(c, s)
          \/ \E k \in Keys : BuildDigester(c, k)
          \/ BuildDigesterFail(c)
          \/ \E l \in 0..Levels : Digest(c, l)
          \/ \E l \in 0..Levels + 1 : DigestPrefix(c, l)
          \/ PutDigester(c)

Spec == Init /\ [][Next]_vars

-----------------------------------------------------------------------------
(* Properties.                                                             *)

\* The digest a correct digester gives key k under seed s at a level.
RefDigest(k, s, level) == IF level = 0 THEN Circle(k, s) ELSE Blake(k, level)

(* Every digest a client is given at a valid level is the digest of the   *)
(* key it built its digester for, although the digester object may have  *)
(* served other keys of other goroutines before through the pool and its  *)
(* blake3 words are memoised.                                             *)
DigestsMatchKey ==
    \A c \in Clients : holds[c] # Nil =>
        \A r \in returned[c] :
            r[1] < Levels => r[2] = RefDigest(key[c][1], key[c][2], r[1])

==============================================================================

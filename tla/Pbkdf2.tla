------------------------------- MODULE Pbkdf2 -------------------------------
(***************************************************************************)
(* The key derivation of security/crypto.c (crypto_pbkdf2_sha256), as the  *)
(* chain of HMACs it runs and the bytes it writes to the caller's buffer.  *)
(*                                                                         *)
(* A MAC is the term of the computation that made it: <<b, 1>> is the MAC  *)
(* of the salt and block number b, <<b, d>> the MAC of <<b, d - 1>>.  The  *)
(* exclusive or of MACs is the set of those that occur in it an odd number *)
(* of times.                                                               *)
(***************************************************************************)
EXTENDS Integers

CONSTANTS
  HASH,             \* 32: bytes in a MAC
  KeyLengths,       \* the lengths of key a caller asks for
  Iterations        \* the iteration counts a caller asks for

ASSUME KdfAssumption ==
  HASH \in Nat \ {0} /\ KeyLengths \subseteq Nat /\ Iterations \subseteq Nat

VARIABLES
  kdf_step,         \* where control is
  asked,            \* the caller's key_len and iterations
  key_len,          \* the parameter, which the function counts down
  block, iteration, \* its loop variables block and i
  u, f,             \* its locals
  derived           \* derived_key: what was written, by index

kdfVars == <<kdf_step, asked, key_len, block, iteration, u, f, derived>>

-----------------------------------------------------------------------------
KdfInit ==
  /\ asked \in [key_len : KeyLengths, iterations : Iterations]
  /\ kdf_step = "call"
  /\ key_len = asked.key_len
  /\ block = 0 /\ iteration = 0
  /\ u = <<0, 0>> /\ f = {}
  /\ derived = [i \in {} |-> << >>]

(* The MAC of what buffer u holds.                                         *)
crypto_hmac_sha256(data) == <<data[1], data[2] + 1>>

Xor(x, y) == (x \ y) \cup (y \ x)

blocks_needed == (asked.key_len + HASH - 1) \div HASH

InvalidParam ==
  /\ kdf_step = "call" /\ (asked.iterations = 0 \/ asked.key_len = 0)
  /\ kdf_step' = "invalid"
  /\ UNCHANGED <<asked, key_len, block, iteration, u, f, derived>>

(* The first MAC of a block, of the salt and the block's number.           *)
FirstMac ==
  /\ \/ /\ kdf_step = "call" /\ asked.iterations # 0 /\ asked.key_len # 0
        /\ block' = 1
     \/ /\ kdf_step = "block" /\ block < blocks_needed
        /\ block' = block + 1
  /\ u' = crypto_hmac_sha256(<<block', 0>>)
  /\ f' = {u'}
  /\ iteration' = 2
  /\ kdf_step' = "iterate"
  /\ UNCHANGED <<asked, key_len, derived>>

IteratingShort == iteration < asked.iterations

Iterating == iteration <= asked.iterations

(* u is the data of the MAC and the buffer it is written to.               *)
Iterate ==
  /\ kdf_step = "iterate" /\ Iterating
  /\ u' = crypto_hmac_sha256(u)
  /\ f' = Xor(f, {u'})
  /\ iteration' = iteration + 1
  /\ UNCHANGED <<kdf_step, asked, key_len, block, derived>>

CopyLen ==
  IF block = blocks_needed /\ key_len % HASH # 0 THEN key_len % HASH
  ELSE IF key_len < HASH THEN key_len
  ELSE HASH

(* A MAC of the key is copied out, and u and f are cleared.                *)
CopyOut ==
  /\ kdf_step = "iterate" /\ ~Iterating
  /\ LET first == (block - 1) * HASH
         copied == first..(first + CopyLen - 1)
     IN  derived' = [i \in copied \cup DOMAIN derived |->
                       IF i \in copied THEN <<f, i - first>> ELSE derived[i]]
  /\ key_len' = key_len - CopyLen
  /\ u' = <<0, 0>> /\ f' = {}
  /\ kdf_step' = "block"
  /\ UNCHANGED <<asked, block, iteration>>

KdfReturn ==
  /\ kdf_step = "block" /\ block = blocks_needed
  /\ kdf_step' = "derived"
  /\ UNCHANGED <<asked, key_len, block, iteration, u, f, derived>>

KdfNext == InvalidParam \/ FirstMac \/ Iterate \/ CopyOut \/ KdfReturn

KdfSpec == KdfInit /\ [][KdfNext]_kdfVars

-----------------------------------------------------------------------------
(* The derived key is the one of RFC 8018: byte n of the key is byte       *)
(* n mod 32 of the exclusive or of the first "iterations" MACs of block    *)
(* n div 32 + 1, every byte of the caller's buffer is written and none     *)
(* behind it, while crypto_pbkdf2_sha256 counts down the length it copies  *)
(* by and reuses one buffer for a MAC and its data.                        *)
KeyDerived ==
  kdf_step = "derived" =>
    derived = [n \in 0..(asked.key_len - 1) |->
                 <<{<<n \div HASH + 1, d>> : d \in 1..asked.iterations}, n % HASH>>]

=============================================================================

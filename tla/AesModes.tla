------------------------------ MODULE AesModes ------------------------------
(***************************************************************************)
(* CBC and GCM of security/aes.c: a caller encrypts a message and decrypts *)
(* the result, block by block, in buffers that may be one and the same.    *)
(* The block cipher itself is not looked into: it is a function with an    *)
(* inverse, for one key.                                                   *)
(*                                                                         *)
(* A byte is the set of the values it is the exclusive or of, so that a    *)
(* value that occurs twice is gone.  The values: a byte of the message, of *)
(* the initialization vector, of what a buffer held before, of the         *)
(* encryption or the decryption of a block, of the key stream.             *)
(***************************************************************************)
EXTENDS Integers, Sequences

CONSTANTS
  AES_BLOCK_SIZE,   \* 16 in the code
  MAX_MESSAGE_SIZE  \* bound: bytes of a message

ASSUME AesAssumption == AES_BLOCK_SIZE \in Nat \ {0} /\ MAX_MESSAGE_SIZE \in Nat

VARIABLES
  aes_step,         \* where control is
  job,              \* the calls: [mode, len, iv12, dst, out, damaged]
  mem,              \* the buffers "a", "b", "c" and temp_plaintext
  aes_i,            \* bytes done
  prev_block,       \* CBC's chaining value
  sealed            \* what the encryption returned: [text, tag]

aesVars == <<aes_step, job, mem, aes_i, prev_block, sealed>>

Bytes(name, len) == [i \in 1..len |-> {<<name, i>>}]

Message == Bytes("message", job.len)

iv == Bytes("iv", AES_BLOCK_SIZE)

(* The message is in buffer a, is encrypted into dst, in place or not, and *)
(* decrypted from there into out, in place or not; damaged says that       *)
(* another tag is presented than the one returned.                         *)
AesInit ==
  /\ job \in [mode : {"cbc", "gcm"}, len : 0..MAX_MESSAGE_SIZE, iv12 : BOOLEAN,
              dst : {"a", "b"}, out : {"a", "b", "c"}, damaged : BOOLEAN]
  /\ job.out \in {job.dst, "c"}
  /\ job.mode = "cbc" => job.iv12 /\ ~job.damaged
  /\ mem = [buffer \in {"a", "b", "c", "temp"} |->
              IF buffer = "a" THEN Message ELSE Bytes("before", job.len)]
  /\ aes_step = "call" /\ aes_i = 0 /\ prev_block = iv
  /\ sealed = [text |-> << >>, tag |-> << >>]

XorByte(x, y) == (x \ y) \cup (y \ x)

BlockOf(buffer) == SubSeq(mem[buffer], aes_i + 1, aes_i + AES_BLOCK_SIZE)

XorBlock(x, y) == [j \in DOMAIN x |-> XorByte(x[j], y[j])]

(* Bytes aes_i + 1 and on of the buffer become those of block.             *)
PutBlock(buffer, block) ==
  mem' = [mem EXCEPT ![buffer] =
            [i \in DOMAIN @ |-> IF i - aes_i \in DOMAIN block THEN block[i - aes_i] ELSE @[i]]]

crypto_aes_encrypt_block(block) == [j \in 1..AES_BLOCK_SIZE |-> {<<"E", block, j>>}]

(* The inverse, on what the function above gave; another value otherwise.  *)
crypto_aes_decrypt_block(block) ==
  LET made == {atom[2] : atom \in {a \in UNION {block[j] : j \in DOMAIN block} : a[1] = "E"}}
      from == {x \in made : crypto_aes_encrypt_block(x) = block}
  IN  IF from # {} THEN CHOOSE x \in from : TRUE
      ELSE [j \in 1..AES_BLOCK_SIZE |-> {<<"D", block, j>>}]

Invalid ==
  /\ aes_step = "call" /\ job.mode = "cbc" /\ job.len % AES_BLOCK_SIZE # 0
  /\ aes_step' = "invalid"
  /\ UNCHANGED <<job, mem, aes_i, prev_block, sealed>>

Valid ==
  /\ aes_step = "call" /\ (job.mode = "cbc" => job.len % AES_BLOCK_SIZE = 0)
  /\ aes_step' = "encrypt"
  /\ UNCHANGED <<job, mem, aes_i, prev_block, sealed>>

-----------------------------------------------------------------------------
(* CBC.                                                                    *)

CbcEncryptBlock ==
  LET block == crypto_aes_encrypt_block(XorBlock(BlockOf("a"), prev_block))
  IN  /\ job.mode = "cbc" /\ aes_step = "encrypt" /\ aes_i < job.len
      /\ PutBlock(job.dst, block)
      /\ prev_block' = block
      /\ aes_i' = aes_i + AES_BLOCK_SIZE
      /\ UNCHANGED <<aes_step, job, sealed>>

CbcEncryptEnds ==
  /\ job.mode = "cbc" /\ aes_step = "encrypt" /\ aes_i >= job.len
  /\ sealed' = [text |-> mem[job.dst], tag |-> << >>]
  /\ aes_step' = "decrypt" /\ aes_i' = 0 /\ prev_block' = iv
  /\ UNCHANGED <<job, mem>>

(* Mutant: the chain goes on from the plaintext.                           *)
ChainOfPlaintext == SubSeq(mem'[job.out], aes_i + 1, aes_i + AES_BLOCK_SIZE)

(* The chain is read from the ciphertext buffer after the plaintext was    *)
(* written, which may be the same buffer.                                  *)
Chain == SubSeq(mem'[job.dst], aes_i + 1, aes_i + AES_BLOCK_SIZE)

CbcDecryptBlock ==
  /\ job.mode = "cbc" /\ aes_step = "decrypt" /\ aes_i < job.len
  /\ PutBlock(job.out, XorBlock(crypto_aes_decrypt_block(BlockOf(job.dst)), prev_block))
  /\ prev_block' = Chain
  /\ aes_i' = aes_i + AES_BLOCK_SIZE
  /\ UNCHANGED <<aes_step, job, sealed>>

CbcDecryptEnds ==
  /\ job.mode = "cbc" /\ aes_step = "decrypt" /\ aes_i >= job.len
  /\ aes_step' = "opened"
  /\ UNCHANGED <<job, mem, aes_i, prev_block, sealed>>

-----------------------------------------------------------------------------
(* GCM: a counter is its first value, which j0 names, and the steps of     *)
(* aes_gcm_inc32 since; a message is too short for it to come round.       *)

EncryptJ0 == IF job.iv12 THEN "iv_1" ELSE "ghash_iv"

DecryptJ0 == IF job.iv12 THEN "iv_1" ELSE "zero"

Keystream(j0) ==
  LET counter == 1 + aes_i \div AES_BLOCK_SIZE
  IN  [j \in 1..AES_BLOCK_SIZE |-> {<<"keystream", j0, counter, j>>}]

BlockLen == IF job.len - aes_i < AES_BLOCK_SIZE THEN job.len - aes_i ELSE AES_BLOCK_SIZE

GcmBlock(from, to, j0) ==
  /\ PutBlock(to, XorBlock(SubSeq(mem[from], aes_i + 1, aes_i + BlockLen), Keystream(j0)))
  /\ aes_i' = aes_i + AES_BLOCK_SIZE

(* GHASH is a function of the ciphertext; the associated data and the      *)
(* lengths are the same in both calls.                                     *)
Tag(text) == <<EncryptJ0, text>>

(* crypto_aes_gcm_encrypt, as the caller's call and as the one inside      *)
(* crypto_aes_gcm_decrypt, which writes to the ciphertext once more.       *)
GcmEncryptBlock ==
  /\ job.mode = "gcm" /\ aes_i < job.len
  /\ \/ aes_step = "encrypt" /\ GcmBlock("a", job.dst, EncryptJ0)
     \/ aes_step = "again" /\ GcmBlock("temp", job.dst, EncryptJ0)
  /\ UNCHANGED <<aes_step, job, prev_block, sealed>>

GcmEncryptEnds ==
  /\ job.mode = "gcm" /\ aes_step = "encrypt" /\ aes_i >= job.len
  /\ sealed' = [text |-> mem[job.dst], tag |-> Tag(mem[job.dst])]
  /\ aes_step' = "decrypt" /\ aes_i' = 0
  /\ UNCHANGED <<job, mem, prev_block>>

GcmDecryptBlock ==
  /\ job.mode = "gcm" /\ aes_step = "decrypt" /\ aes_i < job.len
  /\ GcmBlock(job.dst, "temp", DecryptJ0)
  /\ UNCHANGED <<aes_step, job, prev_block, sealed>>

GcmDecryptEnds ==
  /\ job.mode = "gcm" /\ aes_step = "decrypt" /\ aes_i >= job.len
  /\ aes_step' = "again" /\ aes_i' = 0
  /\ UNCHANGED <<job, mem, prev_block, sealed>>

(* The tags are compared, and only then the plaintext leaves temp.         *)
VerifyTag ==
  /\ job.mode = "gcm" /\ aes_step = "again" /\ aes_i >= job.len
  /\ IF ~job.damaged /\ Tag(mem[job.dst]) = sealed.tag
     THEN aes_step' = "opened" /\ mem' = [mem EXCEPT ![job.out] = mem["temp"]]
     ELSE aes_step' = "refused" /\ UNCHANGED mem
  /\ UNCHANGED <<job, aes_i, prev_block, sealed>>

AesNext ==
  \/ Invalid \/ Valid
  \/ CbcEncryptBlock \/ CbcEncryptEnds \/ CbcDecryptBlock \/ CbcDecryptEnds
  \/ GcmEncryptBlock \/ GcmEncryptEnds \/ GcmDecryptBlock \/ GcmDecryptEnds \/ VerifyTag

AesSpec == AesInit /\ [][AesNext]_aesVars

-----------------------------------------------------------------------------
Overwritten == job.mode = "cbc" /\ job.out = job.dst

(* What was encrypted is decrypted again: the message comes back whatever  *)
(* its length, into another buffer or, with GCM, over the ciphertext; a    *)
(* decryption that refuses the tag writes nothing to its output, and one   *)
(* that goes to another buffer leaves the ciphertext as the encryption     *)
(* made it although it writes all of it once more.  For GCM this is said   *)
(* of vectors of twelve bytes; with others a decryption always refuses.    *)
RoundTrip ==
  /\ aes_step = "opened" /\ ~Overwritten => mem[job.out] = Message
  /\ aes_step = "refused" => /\ job.damaged \/ (~job.iv12 /\ job.len > 0)
                             /\ job.out = "c" => mem["c"] = Bytes("before", job.len)
  /\ aes_step \in {"opened", "refused"} /\ job.out = "c" /\ (job.mode = "gcm" => job.iv12) =>
       mem[job.dst] = sealed.text

(* The parameter is const uint8_t* ciphertext: a decryption into another   *)
(* buffer leaves it alone (aes.c:451; the cast is in line 488).            *)
CiphertextKept ==
  aes_step \in {"opened", "refused"} /\ job.out = "c" => mem[job.dst] = sealed.text

(* A message decrypts in place as it encrypts in place (aes.c:287 reads    *)
(* the chain after line 283 wrote the output).                             *)
InPlaceDecrypts == aes_step = "opened" => mem[job.out] = Message

(* A vector the encryption accepts is accepted by the decryption           *)
(* (aes.c:363 says "For IV lengths != 12, use GHASH"; 464-467 does not).   *)
EveryVectorOpens == aes_step = "refused" => job.damaged

=============================================================================

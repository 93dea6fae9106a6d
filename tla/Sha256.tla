------------------------------- MODULE Sha256 -------------------------------
(***************************************************************************)
(* The streaming SHA-256 of security/crypto.c: a context that is fed a     *)
(* message in pieces of any size, and the padding that closes it.          *)
(*                                                                         *)
(* The compression function is not interpreted: h is the sequence of the   *)
(* bytes compressed so far, one whole block after another, which two       *)
(* messages share exactly when they share the value of ctx->h (but for     *)
(* collisions).  Byte i of the message is Data(i), whatever its value.     *)
(* crypto_sha256_final compresses by calling crypto_sha256_update on the   *)
(* context's own buffer, so the two pointers of that memcpy may alias:     *)
(* "source" is what the pointer data points into, "taken" how far it has   *)
(* moved.  Constants are scaled down: a block has 64 bytes in the code and *)
(* ends in an 8-byte length.                                               *)
(***************************************************************************)
EXTENDS Integers, Sequences

CONSTANTS
  SHA_BLOCK,        \* 64: sizeof(ctx->buf)
  LENGTH_BYTES,     \* 8: the bytes of the length that ends the padding
  MAX_MESSAGE       \* bound: bytes in a message

ASSUME ShaAssumption ==
  /\ SHA_BLOCK \in Nat /\ LENGTH_BYTES \in Nat /\ MAX_MESSAGE \in Nat
  /\ 0 < LENGTH_BYTES /\ LENGTH_BYTES < SHA_BLOCK

VARIABLES
  h, len, block_buf, buf_len,   \* the context
  step,             \* where control is
  left,             \* len, the parameter of crypto_sha256_update
  source, taken,    \* data, its other parameter
  back,             \* where crypto_sha256_update returns to
  fed,              \* bytes of the message given to the context
  msg_len           \* the local of crypto_sha256_final

shaContext == <<h, len, block_buf, buf_len>>

shaVars == <<shaContext, step, left, source, taken, back, fed, msg_len>>

-----------------------------------------------------------------------------
(* Bytes.                                                                  *)

Data(i) == <<"data", i, 0>>

One == <<"one", 0, 0>>

Zero == <<"zero", 0, 0>>

LengthByte(n, k) == <<"length", n, k>>

Byte == {"data", "one", "zero", "length"} \X Nat \X Nat

(* The context and the locals are well formed.                             *)
ShaTypeOK ==
  /\ h \in Seq(Byte)
  /\ len \in Nat
  /\ buf_len \in 0..SHA_BLOCK
  /\ block_buf \in [0..(SHA_BLOCK - 1) -> Byte]
  /\ step \in {"idle", "ready", "update", "pad", "reset", "done"}
  /\ left \in Nat /\ taken \in Nat /\ msg_len \in Nat
  /\ source \in {"message", "buf"}
  /\ back \in {"ready", "reset", "done"}
  /\ fed \in 0..MAX_MESSAGE

-----------------------------------------------------------------------------
(* No digest is under way.                                                 *)
ShaInit ==
  /\ h = << >> /\ len = 0 /\ buf_len = 0
  /\ block_buf = [j \in 0..(SHA_BLOCK - 1) |-> Zero]
  /\ step = "idle"
  /\ left = 0 /\ source = "message" /\ taken = 0 /\ back = "ready"
  /\ fed = 0 /\ msg_len = 0

crypto_sha256_init ==
  /\ step \in {"idle", "done"}
  /\ h' = << >> /\ len' = 0 /\ buf_len' = 0
  /\ block_buf' = [j \in 0..(SHA_BLOCK - 1) |-> Zero]
  /\ step' = "ready"
  /\ fed' = 0
  /\ UNCHANGED <<left, source, taken, back, msg_len>>

(* The call of crypto_sha256_update: the loop is the steps UpdateChunk.    *)
CallUpdate(from, n, return) ==
  /\ len' = len + n
  /\ left' = n /\ source' = from /\ taken' = 0 /\ back' = return
  /\ step' = "update"

crypto_sha256_update ==
  /\ step = "ready"
  /\ \E n \in 0..(MAX_MESSAGE - fed) :
       /\ CallUpdate("message", n, "ready")
       /\ fed' = fed + n
  /\ UNCHANGED <<h, block_buf, buf_len, msg_len>>

ChunkSizeOfEmpty(used, n) == IF n > SHA_BLOCK THEN SHA_BLOCK ELSE n

ChunkSize(used, n) == IF used + n > SHA_BLOCK THEN SHA_BLOCK - used ELSE n

(* Byte k behind the pointer data: the message's pieces follow each other, *)
(* the last one starts fed - left - taken bytes into it.                   *)
Behind(k) ==
  IF source = "message"
  THEN Data(fed - left + k + 1)
  ELSE block_buf[taken + k]

(* The buffer after the memcpy of chunk bytes to ctx->buf + buf_len.       *)
Filled(chunk) ==
  [j \in 0..(SHA_BLOCK - 1) |->
     IF buf_len <= j /\ j < buf_len + chunk THEN Behind(j - buf_len) ELSE block_buf[j]]

(* ctx->h after the compression of block b.                                *)
Compressed(b) == h \o [i \in 1..SHA_BLOCK |-> b[i - 1]]

UpdateChunk ==
  /\ step = "update" /\ left > 0
  /\ LET chunk == ChunkSize(buf_len, left)
         full  == buf_len + chunk = SHA_BLOCK
     IN  /\ block_buf' = Filled(chunk)
         /\ h' = IF full THEN Compressed(Filled(chunk)) ELSE h
         /\ buf_len' = IF full THEN 0 ELSE buf_len + chunk
         /\ left' = left - chunk
         /\ taken' = taken + chunk
  /\ UNCHANGED <<len, step, source, back, fed, msg_len>>

UpdateReturns ==
  /\ step = "update" /\ left = 0
  /\ step' = back
  /\ UNCHANGED <<shaContext, left, source, taken, back, fed, msg_len>>

Put(byte) ==
  /\ block_buf' = [block_buf EXCEPT ![buf_len] = byte]
  /\ buf_len' = buf_len + 1

crypto_sha256_final ==
  /\ step = "ready"
  /\ msg_len' = len
  /\ Put(One)
  /\ step' = "pad"
  /\ UNCHANGED <<h, len, left, source, taken, back, fed>>

Aligned == buf_len % SHA_BLOCK = SHA_BLOCK - LENGTH_BYTES

PadZero ==
  /\ step = "pad" /\ ~Aligned /\ buf_len # SHA_BLOCK
  /\ Put(Zero)
  /\ UNCHANGED <<h, len, step, left, source, taken, back, fed, msg_len>>

(* The padding does not fit: the full buffer is passed to the update.      *)
PadFull ==
  /\ step = "pad" /\ ~Aligned /\ buf_len = SHA_BLOCK
  /\ CallUpdate("buf", SHA_BLOCK, "reset")
  /\ UNCHANGED <<h, block_buf, buf_len, fed, msg_len>>

PadReset ==
  /\ step = "reset"
  /\ block_buf' = [block_buf EXCEPT ![0] = Zero]
  /\ buf_len' = 1
  /\ step' = "pad"
  /\ UNCHANGED <<h, len, left, source, taken, back, fed, msg_len>>

AppendLengthOfPadding ==
  /\ step = "pad" /\ Aligned
  /\ block_buf' = [j \in 0..(SHA_BLOCK - 1) |->
                     IF j >= buf_len THEN LengthByte(len, j - buf_len) ELSE block_buf[j]]
  /\ buf_len' = SHA_BLOCK
  /\ CallUpdate("buf", SHA_BLOCK, "done")
  /\ UNCHANGED <<h, fed, msg_len>>

(* The length, and the call that compresses the last block.                *)
AppendLength ==
  /\ step = "pad" /\ Aligned
  /\ block_buf' = [j \in 0..(SHA_BLOCK - 1) |->
                     IF j >= buf_len THEN LengthByte(msg_len, j - buf_len) ELSE block_buf[j]]
  /\ buf_len' = SHA_BLOCK
  /\ CallUpdate("buf", SHA_BLOCK, "done")
  /\ UNCHANGED <<h, fed, msg_len>>

ShaNext ==
  \/ crypto_sha256_init \/ crypto_sha256_update \/ UpdateChunk \/ UpdateReturns
  \/ crypto_sha256_final \/ PadZero \/ PadFull \/ PadReset \/ AppendLength

ShaSpec == ShaInit /\ [][ShaNext]_shaVars

-----------------------------------------------------------------------------
(* Between two calls the context stands for exactly the bytes it was fed:  *)
(* the compressed blocks and the part of the buffer in use, one after the  *)
(* other, are the message so far, however it was cut into calls of         *)
(* crypto_sha256_update.                                                   *)
StreamIntact ==
  step = "ready" =>
    /\ Len(h) + buf_len = fed /\ len = fed /\ buf_len < SHA_BLOCK
    /\ \A i \in 1..Len(h) : h[i] = Data(i)
    /\ \A j \in 0..(buf_len - 1) : block_buf[j] = Data(Len(h) + j + 1)

(* The padded message of FIPS 180-4, from its length alone: the message,   *)
(* a one bit, zeros, and the length in the last bytes of a block.          *)
PaddedLength(n) == SHA_BLOCK * ((n + LENGTH_BYTES + SHA_BLOCK) \div SHA_BLOCK)

Padded(n) ==
  [i \in 1..PaddedLength(n) |->
     IF i <= n THEN Data(i)
     ELSE IF i = n + 1 THEN One
     ELSE IF i <= PaddedLength(n) - LENGTH_BYTES THEN Zero
     ELSE LengthByte(n, i - (PaddedLength(n) - LENGTH_BYTES) - 1)]

(* The self test of crypto.c compares the digest with the published one:   *)
(* a finished digest compresses the padded message once.                   *)
DigestIsSha256 == step = "done" => h = Padded(fed)

Block(s, k) == SubSeq(s, SHA_BLOCK * k + 1, SHA_BLOCK * (k + 1))


(* A finished digest is a function of the message alone, however it was    *)
(* cut: its whole blocks once, then each block of the padding, twice,      *)
(* because crypto_sha256_final passes a full buffer to an update that      *)
(* compresses the buffer before and after copying it onto itself.          *)
DigestDetermined ==
  step = "done" =>
    LET whole == fed \div SHA_BLOCK
        pads  == PaddedLength(fed) \div SHA_BLOCK - whole
    IN  /\ Len(h) = SHA_BLOCK * (whole + 2 * pads)
        /\ \A k \in 0..(whole - 1) : Block(h, k) = Block(Padded(fed), k)
        /\ \A k \in 0..(pads - 1), twice \in {0, 1} :
             Block(h, whole + 2 * k + twice) = Block(Padded(fed), whole + k)

=============================================================================

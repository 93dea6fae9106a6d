--------------------------- MODULE SecurityProofs ---------------------------
(***************************************************************************)
(* The verified load, the key derivation and the streaming SHA-256, for    *)
(* every size of image, signature, block, MAC, key and message.            *)
(***************************************************************************)
EXTENDS SecureLoad, Pbkdf2, Sha256, TLAPS


-----------------------------------------------------------------------------
(* The verified load.                                                      *)

(* What may be held at each place of LoadAndVerifyKernel and ExecuteKernel. *)
(* Only a read that delivers bytes is known to leave a buffer, which is    *)
(* why an image shorter than a signature must be refused.                  *)
LoadInv ==
  /\ image_size \in Nat /\ secure_boot \in BOOLEAN
  /\ load_step \in {"root", "open", "info_size", "info", "buffer", "read", "verify",
                    "loaded", "options", "start", "returned", "failed"}
  /\ load_step = "root" => held = {}
  /\ load_step \in {"open", "failed"} => held \subseteq {"root_directory"}
  /\ load_step \in {"info_size", "info"} => held \subseteq {"root_directory", "file"}
  /\ load_step = "buffer" => held \subseteq {"root_directory", "file", "info"}
  /\ load_step = "read" =>
       held \subseteq {"root_directory", "file", "info", "buffer"} /\ "buffer" \in held
  /\ load_step = "verify" =>
       held \subseteq {"root_directory", "buffer"} /\ (image_size > 0 => "buffer" \in held)
  /\ load_step \in {"loaded", "options", "start", "returned"} /\ secure_boot =>
       verified = image_size /\ "buffer" \in held
  /\ image_started => load_step = "returned"

\* The load starts with nothing held.
LEMMA LoadInitInv == SecureInit => LoadInv
BY LoadAssumption, Zenon DEF SecureInit, LoadInv

(* Every step of the load preserves the invariant.                         *)
LEMMA LoadNextInv == LoadInv /\ [SecureNext]_secureVars => LoadInv'
<1> SUFFICES ASSUME LoadInv, [SecureNext]_secureVars PROVE LoadInv'
  BY Zenon
<1> USE DEF LoadInv
<1>1. CASE GetRootFileSystem
  BY <1>1 DEF GetRootFileSystem, Take, LoadFails
<1>2. CASE OpenFile
  BY <1>2 DEF OpenFile, Take, LoadFails
<1>3. CASE GetInfoSize
  BY <1>3 DEF GetInfoSize, LoadFails
<1>4. CASE AllocateInfo
  BY <1>4 DEF AllocateInfo, Take, LoadFails
<1>5. CASE AllocateBuffer
  BY <1>5 DEF AllocateBuffer, Take, LoadFails
<1>6. CASE ReadContents
  BY <1>6 DEF ReadContents, LoadFails
<1>7. CASE VerifyImageSignature
  BY <1>7, LoadAssumption DEF VerifyImageSignature, LoadFails
<1>8. CASE SkipVerification
  BY <1>8, Zenon DEF SkipVerification
<1>9. CASE LoadImage
  BY <1>9 DEF LoadImage, Take
<1>10. CASE SetOptions
  BY <1>10, Zenon DEF SetOptions
<1>11. CASE StartImage
  BY <1>11, Zenon DEF StartImage
<1>12. CASE UNCHANGED secureVars
  BY <1>12, Zenon DEF secureVars
<1> HIDE DEF LoadInv
<1> QED
  BY <1>1, <1>2, <1>3, <1>4, <1>5, <1>6, <1>7, <1>8, <1>9, <1>10, <1>11, <1>12, Zenon
  DEF SecureNext

(* Under secure boot ExecuteKernel starts only bytes that                  *)
(* VerifyImageSignature accepted, from a buffer that is still held, and a  *)
(* load that fails has freed its file, information and buffer: for every   *)
(* size of image and signature, every short read and every failing call.   *)
THEOREM SecureLoadCorrect == SecureSpec => []SecureLoadSound
<1>1. LoadInv => SecureLoadSound
  BY Zenon DEF LoadInv, SecureLoadSound
<1> QED
  BY <1>1, LoadInitInv, LoadNextInv, PTL DEF SecureSpec

-----------------------------------------------------------------------------
(* Numbers in blocks.  The quotient and the rest of a number in block q:   *)
LEMMA Quotient ==
  ASSUME NEW size \in Nat \ {0}, NEW q \in Nat, NEW r \in 0..(size - 1)
  PROVE  (q * size + r) \div size = q /\ (q * size + r) % size = r
OBVIOUS

(* A number lies in the block its quotient names.                          *)
LEMMA InBlock ==
  ASSUME NEW size \in Nat \ {0}, NEW n \in Nat
  PROVE  /\ n \div size \in Nat
         /\ (n \div size) * size <= n
         /\ n < (n \div size) * size + size
OBVIOUS

(* Blocks follow each other.                                               *)
LEMMA Blocks ==
  ASSUME NEW size \in Nat \ {0}, NEW a \in Nat, NEW b \in Nat
  PROVE  /\ a * size \in Nat
         /\ (a + 1) * size = a * size + size
         /\ a <= b => a * size <= b * size
OBVIOUS

-----------------------------------------------------------------------------
(* The key derivation.                                                     *)

(* The bytes of the key that b blocks cover.                               *)
Covered(b) == IF b * HASH < asked.key_len THEN b * HASH ELSE asked.key_len

(* Byte n of the key, as RFC 8018 defines it.                              *)
KeyByte(n) == <<{<<n \div HASH + 1, d>> : d \in 1..asked.iterations}, n % HASH>>

(* The first b blocks of the key are in the caller's buffer.               *)
Written(b) ==
  /\ key_len = asked.key_len - Covered(b)
  /\ derived = [n \in 0..(Covered(b) - 1) |-> KeyByte(n)]

(* What the length counted down and the buffer that is both a MAC and its  *)
(* data stand for at each place of crypto_pbkdf2_sha256.                   *)
KdfInv ==
  /\ asked \in [key_len : KeyLengths, iterations : Iterations]
  /\ kdf_step \in {"call", "invalid", "iterate", "block", "derived"}
  /\ kdf_step = "call" => Written(0)
  /\ kdf_step \in {"iterate", "block", "derived"} =>
       asked.key_len > 0 /\ asked.iterations > 0 /\ block \in 1..blocks_needed
  /\ kdf_step = "iterate" =>
       /\ iteration \in 2..(asked.iterations + 1)
       /\ u = <<block, iteration - 1>>
       /\ f = {<<block, d>> : d \in 1..(iteration - 1)}
       /\ Written(block - 1)
  /\ kdf_step = "block" => Written(block)
  /\ kdf_step = "derived" => block = blocks_needed /\ Written(block)

\* The lengths and iterations asked for are natural numbers.
LEMMA KdfType ==
  ASSUME asked \in [key_len : KeyLengths, iterations : Iterations]
  PROVE  asked.key_len \in Nat /\ asked.iterations \in Nat /\ HASH \in Nat \ {0}
BY KdfAssumption, Zenon

(* What the key is described by depends on the request alone.              *)
LEMMA SameRequest ==
  ASSUME UNCHANGED asked
  PROVE  /\ blocks_needed' = blocks_needed
         /\ UNCHANGED <<key_len, derived>> => \A b : Written(b)' <=> Written(b)
BY Zenon DEF blocks_needed, Written, Covered, KeyByte

(* Just enough blocks: all but the last one lie inside the key.            *)
LEMMA BlocksNeeded ==
  ASSUME asked \in [key_len : KeyLengths, iterations : Iterations], asked.key_len > 0
  PROVE  /\ blocks_needed \in Nat \ {0}
         /\ (blocks_needed - 1) * HASH < asked.key_len
         /\ asked.key_len <= blocks_needed * HASH
<1>1. asked.key_len \in Nat \ {0} /\ HASH \in Nat \ {0}
  BY KdfType
<1>2. PICK n \in Nat : n = asked.key_len + HASH - 1
  BY <1>1
<1>3. PICK q \in Nat : q = n \div HASH /\ q * HASH <= n /\ n < q * HASH + HASH
  BY <1>1, InBlock, Zenon
<1>4. q # 0
  BY <1>1, <1>2, <1>3
<1>5. (q - 1) * HASH + HASH = q * HASH
  BY <1>1, <1>3, <1>4, Blocks, q - 1 \in Nat, q - 1 + 1 = q, Zenon
<1>6. (q - 1) * HASH \in Nat /\ q * HASH \in Nat
  BY <1>1, <1>3, <1>4, Blocks, q - 1 \in Nat, Zenon
<1>7. blocks_needed = q
  BY <1>2, <1>3, Zenon DEF blocks_needed
<1> QED
  BY <1>1, <1>2, <1>3, <1>4, <1>5, <1>6, <1>7

(* The length of a copy is the part of the key that the block adds,        *)
(* although CopyLen compares what is left of the key with whole blocks.    *)
LEMMA CopyLenIs ==
  ASSUME KdfInv, kdf_step = "iterate"
  PROVE  /\ CopyLen = Covered(block) - (block - 1) * HASH
         /\ CopyLen \in 1..HASH
         /\ Covered(block - 1) = (block - 1) * HASH
         /\ (block - 1) * HASH \in Nat
         /\ key_len - CopyLen = asked.key_len - Covered(block)
<1>1. asked.key_len \in Nat \ {0} /\ HASH \in Nat \ {0} /\ block \in Nat \ {0}
  BY KdfType, BlocksNeeded DEF KdfInv
<1>2. PICK p \in Nat : p = (block - 1) * HASH /\ block * HASH = p + HASH
  BY <1>1, Blocks, block - 1 \in Nat, block - 1 + 1 = block
<1>3. block <= blocks_needed
  BY BlocksNeeded DEF KdfInv
<1>4. p < asked.key_len
  BY <1>1, <1>2, <1>3, BlocksNeeded, Blocks, block - 1 \in Nat, blocks_needed - 1 \in Nat DEF KdfInv
<1>5. key_len = asked.key_len - p /\ Covered(block - 1) = p
  BY <1>2, <1>4, Zenon DEF KdfInv, Written, Covered
<1>6. CASE block = blocks_needed
  <2>1. asked.key_len <= p + HASH /\ Covered(block) = asked.key_len
    BY <1>1, <1>2, <1>6, BlocksNeeded DEF KdfInv, Covered
  <2>2. key_len \in 1..HASH
    BY <2>1, <1>1, <1>2, <1>4, <1>5
  <2>3. key_len < HASH => key_len % HASH = key_len
    BY <2>2, <1>1
  <2>4. key_len = HASH => key_len % HASH = 0
    BY <2>2, <1>1
  <2>5. CopyLen = key_len
    BY <1>6, <2>2, <2>3, <2>4, <1>1 DEF CopyLen
  <2> QED
    BY <2>5, <2>1, <2>2, <1>5, <1>2, <1>1
<1>7. CASE block < blocks_needed
  <2>1. p + HASH < asked.key_len
    <3>1. block * HASH <= (blocks_needed - 1) * HASH
      BY <1>1, <1>7, BlocksNeeded, Blocks, blocks_needed - 1 \in Nat, block <= blocks_needed - 1, Zenon
         DEF KdfInv
    <3>2. (blocks_needed - 1) * HASH < asked.key_len
      BY <1>1, BlocksNeeded, Zenon DEF KdfInv
    <3>3. (blocks_needed - 1) * HASH \in Nat
      BY <1>1, BlocksNeeded, Blocks, blocks_needed - 1 \in Nat, Zenon DEF KdfInv
    <3> QED
      BY <3>1, <3>2, <3>3, <1>1, <1>2
  <2>2. CopyLen = HASH
    BY <2>1, <1>7, <1>1, <1>2, <1>5, BlocksNeeded DEF CopyLen, KdfInv
  <2> QED
    BY <2>1, <2>2, <1>1, <1>2, <1>5 DEF Covered
<1> QED
  BY <1>3, <1>6, <1>7, <1>1, BlocksNeeded DEF KdfInv

\* Before the first block the key is empty.
LEMMA KdfInitInv == KdfInit => KdfInv
<1> SUFFICES ASSUME KdfInit PROVE KdfInv
  BY Zenon
<1>1. asked.key_len \in Nat /\ HASH \in Nat \ {0}
  BY KdfType, Zenon DEF KdfInit
<1>2. Covered(0) = 0
  BY <1>1 DEF Covered
<1>3. derived = [n \in 0..(Covered(0) - 1) |-> KeyByte(n)]
  <2>1. 0..(Covered(0) - 1) = {}
    BY <1>2
  <2> QED
    BY <2>1, Zenon DEF KdfInit
<1> QED
  BY <1>1, <1>2, <1>3 DEF KdfInit, KdfInv, Written

(* A MAC joins the exclusive or of the MACs before it, none of which it    *)
(* equals.                                                                 *)
LEMMA MacStep ==
  ASSUME KdfInv, Iterate
  PROVE  KdfInv'
<1>1. asked.iterations \in Nat /\ block \in Nat /\ iteration \in Nat \ {0, 1}
  BY KdfType, BlocksNeeded DEF KdfInv, Iterate
<1>2. u' = <<block, iteration>>
  BY <1>1 DEF KdfInv, Iterate, crypto_hmac_sha256
<1>3. f' = {<<block, d>> : d \in 1..iteration}
  <2>1. f = {<<block, d>> : d \in 1..(iteration - 1)}
    BY Zenon DEF KdfInv, Iterate
  <2>2. u' \notin f
    BY <2>1, <1>1, <1>2
  <2>3. f' = f \cup {u'}
    BY <2>2, Zenon DEF Iterate, Xor
  <2>4. 1..iteration = 1..(iteration - 1) \cup {iteration}
    BY <1>1
  <2> QED
    BY <2>1, <2>3, <2>4, <1>2, Zenon
<1>4. iteration' = iteration + 1 /\ iteration <= asked.iterations
  BY Zenon DEF Iterate, Iterating
<1>5. iteration' - 1 = iteration /\ iteration' \in 2..(asked.iterations + 1)
  BY <1>1, <1>4
<1>6. kdf_step = "iterate" /\ UNCHANGED <<kdf_step, asked, key_len, block, derived>>
  BY Zenon DEF Iterate
<1> QED
  BY <1>2, <1>3, <1>5, <1>6, SameRequest, Zenon DEF KdfInv

(* The bytes a block adds are those RFC 8018 puts there.                   *)
LEMMA CopyOutStep ==
  ASSUME KdfInv, CopyOut
  PROVE  KdfInv'
<1> DEFINE first == (block - 1) * HASH
           copied == first..(first + CopyLen - 1)
<1>1. /\ kdf_step = "iterate" /\ kdf_step' = "block" /\ UNCHANGED <<asked, block>>
      /\ key_len' = key_len - CopyLen
      /\ derived' = [i \in copied \cup DOMAIN derived |->
                       IF i \in copied THEN <<f, i - first>> ELSE derived[i]]
  BY Zenon DEF CopyOut
<1>2. /\ CopyLen = Covered(block) - first
      /\ CopyLen \in 1..HASH
      /\ Covered(block - 1) = first
      /\ first \in Nat
      /\ key_len - CopyLen = asked.key_len - Covered(block)
  BY <1>1, CopyLenIs, Zenon
<1>3. asked.iterations \in Nat /\ block \in Nat \ {0} /\ HASH \in Nat \ {0} /\ iteration \in Nat
  BY <1>1, KdfType, BlocksNeeded DEF KdfInv
<1>4. iteration - 1 = asked.iterations
  BY <1>1, <1>3 DEF KdfInv, CopyOut, Iterating
<1>5. f = {<<block, d>> : d \in 1..asked.iterations}
  BY <1>1, <1>4, Zenon DEF KdfInv
<1>6. derived = [n \in 0..(first - 1) |-> KeyByte(n)]
  BY <1>1, <1>2, Zenon DEF KdfInv, Written
<1>n. Covered(block) = first + CopyLen
  <2>1. Covered(block) \in Nat
    BY <1>3, KdfType, Blocks, Zenon DEF Covered, KdfInv
  <2> QED
    BY <2>1, <1>2
<1>7. copied \cup DOMAIN derived = 0..(Covered(block) - 1)
  BY <1>2, <1>6, <1>n
<1>8. ASSUME NEW n \in copied PROVE KeyByte(n) = <<f, n - first>>
  <2>1. PICK r \in 0..(HASH - 1) : n = (block - 1) * HASH + r
    BY <1>2, <1>3, n - first \in 0..(HASH - 1)
  <2>2. n \div HASH = block - 1 /\ n % HASH = r
    <3>1. block - 1 \in Nat
      BY <1>3
    <3> QED
      BY <3>1, <2>1, <1>3, Quotient, Zenon
  <2>3. n \div HASH + 1 = block /\ n - first = r
    BY <2>1, <2>2, <1>2, <1>3
  <2> QED
    BY <2>2, <2>3, <1>5, Zenon DEF KeyByte
<1>9. ASSUME NEW n \in 0..(first - 1) PROVE n \notin copied /\ derived[n] = KeyByte(n)
  BY <1>2, <1>6
<1> HIDE DEF first, copied
<1>10. derived' = [n \in 0..(Covered(block) - 1) |-> KeyByte(n)]
  <2>1. derived' = [i \in 0..(Covered(block) - 1) |->
                       IF i \in copied THEN <<f, i - first>> ELSE derived[i]]
    BY <1>1, <1>7, Zenon
  <2>2. ASSUME NEW n \in 0..(Covered(block) - 1)
        PROVE  KeyByte(n) = IF n \in copied THEN <<f, n - first>> ELSE derived[n]
    <3>1. CASE n \in copied
      BY <3>1, <1>8, Zenon
    <3>2. CASE n \notin copied
      <4>1. n \in DOMAIN derived
        BY <3>2, <1>7, Zenon
      <4>2. n \in 0..(first - 1)
        BY <4>1, <1>6, Zenon
      <4> QED
        BY <4>2, <3>2, <1>9, Zenon
    <3> QED
      BY <3>1, <3>2, Zenon
  <2> QED
    BY <2>1, <2>2, Zenon
<1>11. (Covered(block) = Covered(block)') /\ \A n : KeyByte(n)' = KeyByte(n)
  BY <1>1, Zenon DEF Covered, KeyByte
<1>12. Written(block)'
  BY <1>1, <1>2, <1>10, <1>11, Zenon DEF Written
<1> QED
  BY <1>1, <1>12, Zenon DEF KdfInv, blocks_needed

(* Every step of the derivation preserves the invariant.                   *)
LEMMA KdfNextInv == KdfInv /\ [KdfNext]_kdfVars => KdfInv'
<1> SUFFICES ASSUME KdfInv, [KdfNext]_kdfVars PROVE KdfInv'
  OBVIOUS
<1>t. asked.key_len \in Nat /\ asked.iterations \in Nat
  BY KdfType, Zenon DEF KdfInv
<1>1. CASE InvalidParam
  BY <1>1, Zenon DEF InvalidParam, KdfInv
<1>2. CASE FirstMac
  <2>1. kdf_step' = "iterate" /\ UNCHANGED <<asked, key_len, derived>>
    BY <1>2, Zenon DEF FirstMac
  <2>2. /\ asked.key_len > 0 /\ asked.iterations > 0
        /\ block' \in 1..blocks_needed /\ Written(block' - 1)
    <3>1. CASE kdf_step = "call"
      <4>1. block' = 1 /\ asked.key_len > 0 /\ asked.iterations > 0 /\ Written(0)
        BY <1>2, <3>1, <1>t DEF FirstMac, KdfInv
      <4>2. blocks_needed \in Nat \ {0}
        BY <4>1, BlocksNeeded, Zenon DEF KdfInv
      <4> QED
        BY <4>1, <4>2, 1 - 1 = 0
    <3>2. CASE kdf_step = "block"
      <4>1. /\ asked.key_len > 0 /\ asked.iterations > 0
            /\ block \in 1..blocks_needed /\ Written(block)
        BY <3>2, Zenon DEF KdfInv
      <4>2. blocks_needed \in Nat \ {0}
        BY <4>1, BlocksNeeded, Zenon DEF KdfInv
      <4>3. block' = block + 1 /\ block < blocks_needed
        BY <1>2, <3>2, Zenon DEF FirstMac
      <4>4. block' - 1 = block /\ block' \in 1..blocks_needed
        BY <4>1, <4>2, <4>3
      <4> QED
        BY <4>1, <4>4, Zenon
    <3> QED
      BY <3>1, <3>2, <1>2, Zenon DEF FirstMac
  <2>3. iteration' = 2 /\ u' = <<block', 1>> /\ f' = {u'}
    BY <1>2 DEF FirstMac, crypto_hmac_sha256
  <2>4. f' = {<<block', d>> : d \in 1..(iteration' - 1)}
    <3>1. 1..(iteration' - 1) = {1}
      BY <2>3
    <3> QED
      BY <3>1, <2>3, Zenon
  <2>5. iteration' \in 2..(asked.iterations + 1) /\ iteration' - 1 = 1
    BY <2>2, <2>3, <1>t
  <2> QED
    BY <2>1, <2>2, <2>3, <2>4, <2>5, SameRequest, Zenon DEF KdfInv
<1>3. CASE Iterate
  BY <1>3, MacStep, Zenon
<1>4. CASE CopyOut
  BY <1>4, CopyOutStep
<1>5. CASE KdfReturn
  BY <1>5, SameRequest, Zenon DEF KdfReturn, KdfInv
<1>6. CASE UNCHANGED kdfVars
  BY <1>6, SameRequest, Zenon DEF kdfVars, KdfInv
<1> QED
  BY <1>1, <1>2, <1>3, <1>4, <1>5, <1>6, Zenon DEF KdfNext

(* The key crypto_pbkdf2_sha256 returns is the one of RFC 8018, for every  *)
(* length of key, count of iterations and size of MAC: every byte of the   *)
(* caller's buffer is written, none behind it, and each with the right     *)
(* byte of the right exclusive or.                                         *)
THEOREM KeyCorrect == KdfSpec => []KeyDerived
<1>1. KdfInv => KeyDerived
  <2> SUFFICES ASSUME KdfInv, kdf_step = "derived" PROVE Covered(block) = asked.key_len
    BY Zenon DEF KdfInv, Written, KeyByte, KeyDerived
  <2> QED
    BY KdfType, BlocksNeeded, Blocks DEF KdfInv, Covered
<1> QED
  BY <1>1, KdfInitInv, KdfNextInv, PTL DEF KdfSpec

-----------------------------------------------------------------------------
(* The stream.                                                             *)

(* The compressed blocks and the buffer's part in use are the first n      *)
(* bytes of the message.                                                   *)
Stands(n) ==
  /\ Len(h) + buf_len = n /\ buf_len < SHA_BLOCK
  /\ \A i \in 1..Len(h) : h[i] = Data(i)
  /\ \A j \in 0..(buf_len - 1) : block_buf[j] = Data(Len(h) + j + 1)

(* StreamIntact says nothing of a call under way: there the context stands *)
(* for the bytes the loop has consumed.  A call made by                    *)
(* crypto_sha256_final reads the buffer it writes, and stays inside it.    *)
ShaInv ==
  /\ ShaTypeOK
  /\ step = "ready" => Stands(fed) /\ len = fed
  /\ step = "update" /\ back = "ready" =>
       source = "message" /\ left <= fed /\ Stands(fed - left) /\ len = fed
  /\ step = "update" /\ back # "ready" =>
       source = "buf" /\ taken + left = SHA_BLOCK

(* A chunk of the update's loop fits the buffer and the bytes left.        *)
LEMMA ChunkFits ==
  ASSUME NEW used \in 0..SHA_BLOCK, NEW n \in Nat
  PROVE  /\ ChunkSize(used, n) \in 0..n
         /\ used + ChunkSize(used, n) \in used..SHA_BLOCK
         /\ used + ChunkSize(used, n) # SHA_BLOCK => ChunkSize(used, n) = n
BY ShaAssumption DEF ChunkSize

(* The bytes a chunk copies are bytes, and fill the buffer with bytes.     *)
LEMMA FilledType ==
  ASSUME ShaInv, step = "update"
  PROVE  Filled(ChunkSize(buf_len, left)) \in [0..(SHA_BLOCK - 1) -> Byte]
<1> DEFINE chunk == ChunkSize(buf_len, left)
<1>1. chunk \in 0..left /\ buf_len + chunk \in buf_len..SHA_BLOCK
  BY ChunkFits, Zenon DEF ShaInv, ShaTypeOK
<1>2. ASSUME NEW j \in 0..(SHA_BLOCK - 1), buf_len <= j, j < buf_len + chunk
      PROVE  Behind(j - buf_len) \in Byte
  <2>1. j - buf_len \in 0..(chunk - 1)
    BY <1>1, <1>2, ShaAssumption DEF ShaInv, ShaTypeOK
  <2>2. CASE back = "ready"
    <3>1. source = "message" /\ left <= fed /\ fed - left + (j - buf_len) + 1 \in Nat
      BY <2>1, <2>2, <1>1, ShaAssumption DEF ShaInv, ShaTypeOK
    <3> QED
      BY <3>1, Zenon DEF Behind, Data, Byte
  <2>3. CASE back # "ready"
    <3>1. source = "buf" /\ taken + (j - buf_len) \in 0..(SHA_BLOCK - 1)
      BY <2>1, <2>3, <1>1, ShaAssumption DEF ShaInv, ShaTypeOK
    <3> QED
      BY <3>1, Zenon DEF Behind, ShaInv, ShaTypeOK
  <2> QED
    BY <2>2, <2>3, Zenon
<1>3. \A j \in 0..(SHA_BLOCK - 1) :
        (IF buf_len <= j /\ j < buf_len + chunk THEN Behind(j - buf_len) ELSE block_buf[j])
          \in Byte
  BY <1>2, Zenon DEF ShaInv, ShaTypeOK
<1> QED
  BY <1>3, Zenon DEF Filled

(* The compression of a block appends its bytes to the ones before.        *)
LEMMA CompressedBytes ==
  ASSUME ShaTypeOK, NEW b \in [0..(SHA_BLOCK - 1) -> Byte]
  PROVE  /\ Compressed(b) \in Seq(Byte)
         /\ Len(Compressed(b)) = Len(h) + SHA_BLOCK
         /\ \A i \in 1..Len(h) : Compressed(b)[i] = h[i]
         /\ \A i \in (Len(h) + 1)..(Len(h) + SHA_BLOCK) :
              Compressed(b)[i] = b[i - Len(h) - 1]
<1> DEFINE s == [i \in 1..SHA_BLOCK |-> b[i - 1]]
<1>1. s \in [1..SHA_BLOCK -> Byte]
  BY ShaAssumption
<1>2. s \in Seq(Byte) /\ Len(s) = SHA_BLOCK
  BY <1>1, ShaAssumption
<1>3. h \in Seq(Byte)
  BY Zenon DEF ShaTypeOK
<1>4. \A i \in 1..SHA_BLOCK : s[i] = b[i - 1]
  BY Zenon
<1> HIDE DEF s
<1>5. /\ h \o s \in Seq(Byte)
      /\ Len(h \o s) = Len(h) + SHA_BLOCK
      /\ \A i \in 1..Len(h) : (h \o s)[i] = h[i]
      /\ \A i \in (Len(h) + 1)..(Len(h) + SHA_BLOCK) : (h \o s)[i] = s[i - Len(h)]
  BY <1>2, <1>3, ShaAssumption
<1>6. \A i \in (Len(h) + 1)..(Len(h) + SHA_BLOCK) : s[i - Len(h)] = b[i - Len(h) - 1]
  BY <1>3, <1>4, ShaAssumption
<1> QED
  BY <1>5, <1>6, Zenon DEF Compressed, s

\* Before the first update no byte is fed.
LEMMA ShaInitInv == ShaInit => ShaInv
BY ShaAssumption DEF ShaInit, ShaInv, ShaTypeOK, Stands, Byte, Zero

(* A step of the loop moves bytes from the piece to the context.           *)
LEMMA UpdateChunkInv ==
  ASSUME ShaInv, UpdateChunk
  PROVE  ShaInv'
<1> DEFINE chunk == ChunkSize(buf_len, left)
           b == Filled(chunk)
<1>t. ShaTypeOK /\ step = "update" /\ left > 0
  BY Zenon DEF ShaInv, UpdateChunk
<1>1. /\ chunk \in 0..left /\ buf_len + chunk \in buf_len..SHA_BLOCK
      /\ buf_len + chunk # SHA_BLOCK => chunk = left
  BY <1>t, ChunkFits, Zenon DEF ShaTypeOK
<1>2. b \in [0..(SHA_BLOCK - 1) -> Byte]
  BY <1>t, FilledType, Zenon
<1>3. /\ b = block_buf'
      /\ h' = IF buf_len + chunk = SHA_BLOCK THEN Compressed(b) ELSE h
      /\ buf_len' = IF buf_len + chunk = SHA_BLOCK THEN 0 ELSE buf_len + chunk
      /\ left' = left - chunk /\ taken' = taken + chunk
      /\ UNCHANGED <<len, step, source, back, fed, msg_len>>
  BY Zenon DEF UpdateChunk
<1>4. \A j \in 0..(SHA_BLOCK - 1) :
        b[j] = IF buf_len <= j /\ j < buf_len + chunk THEN Behind(j - buf_len) ELSE block_buf[j]
  BY Zenon DEF Filled
<1> HIDE DEF chunk, b
<1>5. ShaTypeOK'
  <2>1. h' \in Seq(Byte)
    BY <1>t, <1>2, <1>3, CompressedBytes, Zenon DEF ShaTypeOK
  <2>2. buf_len' \in 0..SHA_BLOCK /\ left' \in Nat /\ taken' \in Nat
    BY <1>t, <1>1, <1>3, ShaAssumption DEF ShaTypeOK
  <2> QED
    BY <2>1, <2>2, <1>t, <1>2, <1>3, Zenon DEF ShaTypeOK
<1>6. CASE back # "ready"
  BY <1>6, <1>5, <1>t, <1>1, <1>3 DEF ShaInv, ShaTypeOK
<1>7. CASE back = "ready"
  <2>1. /\ source = "message" /\ left <= fed /\ Stands(fed - left) /\ len = fed
    BY <1>7, <1>t, Zenon DEF ShaInv
  <2>n. Len(h) \in Nat /\ fed \in Nat /\ left \in Nat /\ buf_len \in Nat /\ SHA_BLOCK \in Nat
    BY <1>t, ShaAssumption DEF ShaTypeOK
  <2>2. \A j \in 0..(buf_len + chunk - 1) : b[j] = Data(Len(h) + j + 1)
    <3> TAKE j \in 0..(buf_len + chunk - 1)
    <3>1. j \in 0..(SHA_BLOCK - 1)
      BY <1>1, <2>n
    <3>2. CASE j < buf_len
      BY <3>1, <3>2, <1>4, <2>1, <2>n DEF Stands
    <3>3. CASE j >= buf_len
      <4>1. b[j] = Behind(j - buf_len)
        BY <3>1, <3>3, <1>4, <1>1, <2>n
      <4>2. fed - left + (j - buf_len) + 1 = Len(h) + j + 1
        BY <2>1, <2>n, <1>1 DEF Stands
      <4> QED
        BY <4>1, <4>2, <2>1, Zenon DEF Behind
    <3> QED
      BY <3>2, <3>3, <2>n, <1>1
  <2>3. Stands(fed - left)'
    <3>1. CASE buf_len + chunk = SHA_BLOCK
      <4>0. \A j \in 0..(SHA_BLOCK - 1) : b[j] = Data(Len(h) + j + 1)
        <5>1. buf_len + chunk - 1 = SHA_BLOCK - 1
          BY <3>1, <1>1, <2>n
        <5> QED
          BY <5>1, <2>2, Zenon
      <4>1. h' = Compressed(b) /\ buf_len' = 0
        BY <3>1, <1>3, Zenon
      <4>2. Len(h') = Len(h) + SHA_BLOCK
        BY <4>1, <1>2, <1>t, CompressedBytes, Zenon
      <4>3. Len(h') + buf_len' = fed' - left' /\ buf_len' < SHA_BLOCK
        BY <4>1, <4>2, <3>1, <1>3, <1>1, <2>1, <2>n, ShaAssumption DEF Stands
      <4>4. ASSUME NEW i \in 1..Len(h') PROVE h'[i] = Data(i)
        <5>1. CASE i <= Len(h)
          BY <5>1, <4>1, <2>1, <2>n, <1>2, <1>t, CompressedBytes DEF Stands
        <5>2. CASE i > Len(h)
          <6>1. i \in (Len(h) + 1)..(Len(h) + SHA_BLOCK) /\ i - Len(h) - 1 \in 0..(SHA_BLOCK - 1)
            BY <5>2, <4>2, <2>n
          <6>2. h'[i] = b[i - Len(h) - 1]
            BY <6>1, <4>1, <1>2, <1>t, CompressedBytes, Zenon
          <6>3. PICK j \in 0..(SHA_BLOCK - 1) : j = i - Len(h) - 1
            BY <6>1, Zenon
          <6>4. b[j] = Data(Len(h) + j + 1)
            BY <4>0, Zenon
          <6>5. Len(h) + j + 1 = i
            BY <2>n, <6>1, <6>3
          <6> QED
            BY <6>2, <6>3, <6>4, <6>5, Zenon
        <5> QED
          BY <5>1, <5>2, <2>n, <4>2
      <4>5. \A j \in 0..(buf_len' - 1) : block_buf'[j] = Data(Len(h') + j + 1)
        BY <4>1
      <4> QED
        BY <4>3, <4>4, <4>5, Zenon DEF Stands
    <3>2. CASE buf_len + chunk # SHA_BLOCK
      <4>1. h' = h /\ buf_len' = buf_len + chunk /\ left' = 0 /\ buf_len' < SHA_BLOCK
        BY <3>2, <1>3, <1>1, <2>n
      <4>2. Len(h') + buf_len' = fed' - left'
        <5>1. chunk = left /\ fed' = fed /\ left' = 0
          BY <4>1, <3>2, <1>3, <1>1, Zenon
        <5>2. Len(h) + buf_len = fed - left
          BY <2>1, Zenon DEF Stands
        <5> QED
          BY <5>1, <5>2, <4>1, <2>n
      <4>3. ASSUME NEW j \in 0..(buf_len' - 1) PROVE block_buf'[j] = Data(Len(h') + j + 1)
        <5>1. j \in 0..(buf_len + chunk - 1)
          BY <4>1, <1>1, <2>n
        <5>2. b[j] = Data(Len(h) + j + 1)
          BY <5>1, <2>2, Zenon
        <5>3. block_buf' = b
          BY <1>3, Zenon
        <5> QED
          BY <5>2, <5>3, <4>1, Zenon
      <4> QED
        BY <4>1, <4>2, <4>3, <2>1, Zenon DEF Stands
    <3> QED
      BY <3>1, <3>2, Zenon
  <2> QED
    BY <2>1, <2>3, <2>n, <1>5, <1>7, <1>t, <1>1, <1>3 DEF ShaInv
<1> QED
  BY <1>6, <1>7, Zenon

(* Every step of the context's users preserves the invariant.              *)
LEMMA ShaNextInv == ShaInv /\ [ShaNext]_shaVars => ShaInv'
<1> SUFFICES ASSUME ShaInv, [ShaNext]_shaVars PROVE ShaInv'
  OBVIOUS
<1>t. ShaTypeOK
  BY Zenon DEF ShaInv
<1>1. CASE crypto_sha256_init
  BY <1>1, <1>t, ShaAssumption DEF crypto_sha256_init, ShaInv, ShaTypeOK, Stands, Byte, Zero
<1>2. CASE crypto_sha256_update
  <2>1. PICK n \in 0..(MAX_MESSAGE - fed) :
          CallUpdate("message", n, "ready") /\ fed' = fed + n
    BY <1>2, Zenon DEF crypto_sha256_update
  <2>2. step = "ready" /\ UNCHANGED <<h, block_buf, buf_len, msg_len>>
    BY <1>2, Zenon DEF crypto_sha256_update
  <2>3. ShaTypeOK'
    BY <2>1, <2>2, <1>t, ShaAssumption DEF CallUpdate, ShaTypeOK
  <2>4. Stands(fed) /\ len = fed
    BY <2>2, Zenon DEF ShaInv
  <2>5. fed' - left' = fed /\ left' <= fed' /\ len' = fed'
    BY <2>1, <2>4, <1>t, ShaAssumption DEF CallUpdate, ShaTypeOK
  <2>6. Stands(fed - left)'
    BY <2>2, <2>4, <2>5, Zenon DEF Stands
  <2> QED
    BY <2>1, <2>3, <2>5, <2>6, Zenon DEF CallUpdate, ShaInv
<1>3. CASE UpdateChunk
  BY <1>3, UpdateChunkInv
<1>4. CASE UpdateReturns
  <2>1. ShaTypeOK'
    BY <1>4, <1>t, Zenon DEF UpdateReturns, shaContext, ShaTypeOK
  <2>2. CASE back = "ready"
    <3>1. fed - left = fed
      BY <1>4, <1>t DEF UpdateReturns, ShaTypeOK
    <3> QED
      BY <3>1, <2>1, <2>2, <1>4, Zenon DEF UpdateReturns, shaContext, ShaInv, Stands
  <2>3. CASE back # "ready"
    BY <2>1, <2>3, <1>4, <1>t, Zenon DEF UpdateReturns, ShaInv, ShaTypeOK
  <2> QED
    BY <2>2, <2>3, Zenon
<1>5. CASE crypto_sha256_final
  <2>1. buf_len < SHA_BLOCK /\ buf_len \in 0..(SHA_BLOCK - 1)
    BY <1>5, <1>t, ShaAssumption DEF crypto_sha256_final, ShaInv, Stands, ShaTypeOK
  <2> QED
    BY <2>1, <1>5, <1>t, ShaAssumption
    DEF crypto_sha256_final, Put, One, Byte, ShaInv, ShaTypeOK
<1>6. CASE PadZero
  BY <1>6, <1>t, ShaAssumption DEF PadZero, Put, Zero, Byte, ShaInv, ShaTypeOK
<1>7. CASE PadFull
  BY <1>7, <1>t, ShaAssumption DEF PadFull, CallUpdate, ShaInv, ShaTypeOK
<1>8. CASE PadReset
  BY <1>8, <1>t, ShaAssumption DEF PadReset, Zero, Byte, ShaInv, ShaTypeOK
<1>9. CASE AppendLength
  <2>1. block_buf' \in [0..(SHA_BLOCK - 1) -> Byte]
    BY <1>9, <1>t, ShaAssumption DEF AppendLength, LengthByte, Byte, ShaTypeOK
  <2> QED
    BY <2>1, <1>9, <1>t, ShaAssumption DEF AppendLength, CallUpdate, ShaInv, ShaTypeOK
<1>10. CASE UNCHANGED shaVars
  BY <1>10, <1>t, Zenon DEF shaVars, shaContext, ShaInv, ShaTypeOK, Stands
<1> QED
  BY <1>1, <1>2, <1>3, <1>4, <1>5, <1>6, <1>7, <1>8, <1>9, <1>10, Zenon DEF ShaNext

(* However a message is cut into calls of crypto_sha256_update, between    *)
(* the calls the context stands for exactly the bytes it was fed.          *)
THEOREM StreamTheorem == ShaSpec => []StreamIntact
<1>1. ShaInv => StreamIntact
  BY Zenon DEF ShaInv, Stands, StreamIntact
<1> QED
  BY <1>1, ShaInitInv, ShaNextInv, PTL DEF ShaSpec

-----------------------------------------------------------------------------
(* The padding.                                                            *)

(* The bytes in whole blocks of the message, and in the padded message.    *)
Whole == (fed \div SHA_BLOCK) * SHA_BLOCK

PadEnd == PaddedLength(fed)

(* The byte of the padded message that byte i of the compressed ones is:   *)
(* the blocks of the padding occur twice.                                  *)
Origin(i) ==
  IF i <= Whole + SHA_BLOCK THEN i
  ELSE IF i <= Whole + SHA_BLOCK + SHA_BLOCK + SHA_BLOCK THEN i - SHA_BLOCK
  ELSE i - SHA_BLOCK - SHA_BLOCK

Copied(n) == Len(h) = n /\ \A i \in 1..n : h[i] = Padded(fed)[Origin(i)]

Buffered(base, n) == \A j \in 0..(n - 1) : block_buf[j] = Padded(fed)[base + j + 1]

(* A block of the padding starts at byte base + 1.                         *)
PadBases == {Whole, Whole + SHA_BLOCK}

Compressing(base) ==
  /\ base + SHA_BLOCK <= PadEnd
  /\ back = "reset" => base + SHA_BLOCK + SHA_BLOCK = PadEnd
  /\ back = "done" => base + SHA_BLOCK = PadEnd
  /\ Buffered(base, SHA_BLOCK)
  /\ \/ /\ buf_len = SHA_BLOCK /\ left = SHA_BLOCK /\ taken = 0
        /\ Copied(base + base - Whole)
     \/ /\ buf_len = 0 /\ left = SHA_BLOCK /\ taken = 0
        /\ Copied(base + base - Whole + SHA_BLOCK)
     \/ /\ buf_len = 0 /\ left = 0
        /\ Copied(base + base - Whole + SHA_BLOCK + SHA_BLOCK)

Filling(base) ==
  /\ base + SHA_BLOCK <= PadEnd
  /\ Copied(base + base - Whole)
  /\ Buffered(base, buf_len)
  /\ fed < base + buf_len
  /\ base + SHA_BLOCK = PadEnd => buf_len <= SHA_BLOCK - LENGTH_BYTES

(* What was compressed and what is in the buffer while                     *)
(* crypto_sha256_final pads the message.                                   *)
PadInv ==
  /\ step = "ready" \/ (step = "update" /\ back = "ready") =>
       Len(h) = (Len(h) \div SHA_BLOCK) * SHA_BLOCK
  /\ step \in {"pad", "reset"} \/ (step = "update" /\ back # "ready") => msg_len = fed
  /\ step = "pad" => \E base \in PadBases : Filling(base)
  /\ step = "update" /\ back # "ready" => \E base \in PadBases : Compressing(base)
  /\ step = "reset" => /\ PadEnd = Whole + SHA_BLOCK + SHA_BLOCK
                       /\ Copied(Whole + SHA_BLOCK + SHA_BLOCK)
  /\ step = "done" => Copied(PadEnd + PadEnd - Whole)

(* The padding takes one block, or two when the length does not fit.       *)
LEMMA PadEndIs ==
  ASSUME ShaTypeOK
  PROVE  /\ fed \in Nat /\ Whole \in Nat /\ Whole <= fed /\ fed < Whole + SHA_BLOCK
         /\ PadEnd = IF fed + LENGTH_BYTES < Whole + SHA_BLOCK THEN Whole + SHA_BLOCK
                     ELSE Whole + SHA_BLOCK + SHA_BLOCK
         /\ Whole = (fed \div SHA_BLOCK) * SHA_BLOCK /\ fed \div SHA_BLOCK \in Nat
<1>1. fed \in Nat /\ SHA_BLOCK \in Nat \ {0} /\ LENGTH_BYTES \in 1..(SHA_BLOCK - 1)
  BY ShaAssumption DEF ShaTypeOK
<1>2. PICK q \in Nat : q = fed \div SHA_BLOCK /\ Whole = q * SHA_BLOCK
  BY <1>1, InBlock, Zenon DEF Whole
<1>3. Whole \in Nat /\ Whole <= fed /\ fed < Whole + SHA_BLOCK
  BY <1>1, <1>2, InBlock, Blocks, Zenon
<1>4. (q + 1) * SHA_BLOCK = Whole + SHA_BLOCK /\ (q + 2) * SHA_BLOCK = Whole + SHA_BLOCK + SHA_BLOCK
  BY <1>1, <1>2, Blocks, q + 1 + 1 = q + 2
<1>5. CASE fed + LENGTH_BYTES < Whole + SHA_BLOCK
  <2>1. PICK r \in 0..(SHA_BLOCK - 1) : r = fed + LENGTH_BYTES - Whole
    BY <1>1, <1>3, <1>5, fed + LENGTH_BYTES - Whole \in 0..(SHA_BLOCK - 1), Zenon
  <2>2. fed + LENGTH_BYTES + SHA_BLOCK = (q + 1) * SHA_BLOCK + r
    BY <2>1, <1>1, <1>3, <1>4
  <2>3. (fed + LENGTH_BYTES + SHA_BLOCK) \div SHA_BLOCK = q + 1
    BY <2>2, <1>1, Quotient
  <2>4. SHA_BLOCK * (q + 1) = (q + 1) * SHA_BLOCK
    BY <1>1
  <2> QED
    BY <2>3, <2>4, <1>1, <1>2, <1>3, <1>4, <1>5, Zenon DEF PadEnd, PaddedLength
<1>6. CASE ~(fed + LENGTH_BYTES < Whole + SHA_BLOCK)
  <2>1. PICK r \in 0..(SHA_BLOCK - 1) : r = fed + LENGTH_BYTES - Whole - SHA_BLOCK
    BY <1>1, <1>3, <1>6, fed + LENGTH_BYTES - Whole - SHA_BLOCK \in 0..(SHA_BLOCK - 1), Zenon
  <2>2. fed + LENGTH_BYTES + SHA_BLOCK = (q + 2) * SHA_BLOCK + r
    BY <2>1, <1>1, <1>3, <1>4
  <2>3. (fed + LENGTH_BYTES + SHA_BLOCK) \div SHA_BLOCK = q + 2
    BY <2>2, <1>1, Quotient
  <2>4. SHA_BLOCK * (q + 2) = (q + 2) * SHA_BLOCK
    BY <1>1
  <2> QED
    BY <2>3, <2>4, <1>1, <1>2, <1>3, <1>4, <1>6, Zenon DEF PadEnd, PaddedLength
<1> QED
  BY <1>1, <1>2, <1>3, <1>5, <1>6, Zenon

(* The bytes of the padded message.                                        *)
LEMMA PaddedByte ==
  ASSUME ShaTypeOK, NEW i \in 1..PadEnd
  PROVE  /\ i <= fed => Padded(fed)[i] = Data(i)
         /\ i = fed + 1 => Padded(fed)[i] = One
         /\ fed + 1 < i /\ i <= PadEnd - LENGTH_BYTES => Padded(fed)[i] = Zero
         /\ fed + 1 < i /\ PadEnd - LENGTH_BYTES < i =>
              Padded(fed)[i] = LengthByte(fed, i - (PadEnd - LENGTH_BYTES) - 1)
<1>1. fed \in Nat /\ PadEnd \in Nat /\ i \in Nat /\ LENGTH_BYTES \in Nat
  BY PadEndIs, ShaAssumption
<1>2. Padded(fed)[i] = IF i <= fed THEN Data(i)
                       ELSE IF i = fed + 1 THEN One
                       ELSE IF i <= PadEnd - LENGTH_BYTES THEN Zero
                       ELSE LengthByte(fed, i - (PadEnd - LENGTH_BYTES) - 1)
  BY Zenon DEF Padded, PadEnd
<1> QED
  BY <1>1, <1>2

(* A block that is compressed is added to what was.                        *)
LEMMA CopiedMore ==
  ASSUME ShaTypeOK, NEW n \in Nat, Copied(n),
         NEW b \in [0..(SHA_BLOCK - 1) -> Byte], h' = Compressed(b), fed' = fed,
         \A j \in 0..(SHA_BLOCK - 1) : b[j] = Padded(fed)[Origin(n + j + 1)]
  PROVE  Len(h') = n + SHA_BLOCK
         /\ \A i \in 1..(n + SHA_BLOCK) : h'[i] = Padded(fed)[Origin(i)]
<1>1. Len(h) = n /\ SHA_BLOCK \in Nat
  BY ShaAssumption, Zenon DEF Copied
<1>2. /\ Len(h') = n + SHA_BLOCK
      /\ \A i \in 1..n : h'[i] = h[i]
      /\ \A i \in (n + 1)..(n + SHA_BLOCK) : h'[i] = b[i - n - 1]
  BY <1>1, CompressedBytes, Zenon
<1>3. ASSUME NEW i \in 1..(n + SHA_BLOCK) PROVE h'[i] = Padded(fed)[Origin(i)]
  <2>1. CASE i \in 1..n
    BY <2>1, <1>2, Zenon DEF Copied
  <2>2. CASE i \in (n + 1)..(n + SHA_BLOCK)
    <3>1. PICK j \in 0..(SHA_BLOCK - 1) : j = i - n - 1
      BY <2>2, <1>1, i - n - 1 \in 0..(SHA_BLOCK - 1), Zenon
    <3>2. n + j + 1 = i
      BY <3>1, <2>2, <1>1
    <3>3. b[j] = Padded(fed)[Origin(n + j + 1)]
      BY Zenon
    <3> QED
      BY <3>1, <3>2, <3>3, <2>2, <1>2, Zenon
  <2> QED
    BY <2>1, <2>2, <1>1
<1> QED
  BY <1>2, <1>3, Zenon

(* Nothing the padding is described by changes with what is not the        *)
(* message.                                                                *)
LEMMA SameMessage ==
  ASSUME fed' = fed
  PROVE  /\ Whole' = Whole /\ PadEnd' = PadEnd /\ PadBases' = PadBases
         /\ \A i : Origin(i)' = Origin(i)
         /\ Padded(fed)' = Padded(fed)
BY Zenon DEF Whole, PadEnd, PadBases, Origin

(* The update called on the full buffer compresses it, copies it onto      *)
(* itself, and compresses it again.                                        *)
LEMMA CompressingStep ==
  ASSUME ShaInv, PadInv, UpdateChunk, back # "ready"
  PROVE  PadInv'
<1>t. ShaTypeOK /\ source = "buf" /\ SHA_BLOCK \in Nat \ {0} /\ step = "update" /\ left > 0
  BY ShaAssumption DEF ShaInv, UpdateChunk
<1>u. UNCHANGED <<step, back, fed, msg_len>>
  BY Zenon DEF UpdateChunk
<1>s. /\ Whole' = Whole /\ PadEnd' = PadEnd /\ PadBases' = PadBases
      /\ \A i : Origin(i)' = Origin(i)
      /\ Padded(fed)' = Padded(fed)
  BY <1>u, SameMessage, Zenon
<1>1. PICK base \in PadBases : Compressing(base)
  BY <1>t, Zenon DEF PadInv
<1>2. Whole \in Nat /\ base \in Nat /\ base \in {Whole, Whole + SHA_BLOCK}
  BY <1>1, <1>t, PadEndIs DEF PadBases
<1>b. block_buf \in [0..(SHA_BLOCK - 1) -> Byte]
  BY <1>t, Zenon DEF ShaTypeOK
<1>3. CASE buf_len = SHA_BLOCK
  <2>1. left = SHA_BLOCK /\ taken = 0 /\ Copied(base + base - Whole)
    BY <1>1, <1>3, <1>t, Zenon DEF Compressing
  <2>2. ChunkSize(buf_len, left) = 0
    BY <2>1, <1>3, <1>t DEF ChunkSize
  <2>3. Filled(0) = block_buf
    <3>1. \A j \in 0..(SHA_BLOCK - 1) : ~(buf_len <= j /\ j < buf_len + 0)
      BY <1>3, <1>t
    <3> QED
      BY <3>1, <1>b, Zenon DEF Filled
  <2>4. /\ block_buf' = block_buf /\ h' = Compressed(block_buf) /\ buf_len' = 0
        /\ left' = SHA_BLOCK /\ taken' = 0
    BY <2>1, <2>2, <2>3, <1>3, <1>t DEF UpdateChunk
  <2>5. PICK n \in Nat : n = base + base - Whole
    BY <1>2, <1>t, base + base - Whole \in Nat, Zenon
  <2>6. ASSUME NEW j \in 0..(SHA_BLOCK - 1)
        PROVE  block_buf[j] = Padded(fed)[Origin(n + j + 1)]
    <3>1. Origin(n + j + 1) = base + j + 1
      BY <2>5, <1>2, <1>t DEF Origin
    <3> QED
      BY <3>1, <1>1, Zenon DEF Compressing, Buffered
  <2>7. /\ Len(h') = n + SHA_BLOCK
        /\ \A i \in 1..(n + SHA_BLOCK) : h'[i] = Padded(fed)[Origin(i)]
    BY <2>1, <2>4, <2>5, <2>6, <1>b, <1>t, <1>u, CopiedMore, Zenon
  <2>8. Compressing(base)'
    <3>1. Copied(base + base - Whole + SHA_BLOCK)'
      BY <2>5, <2>7, <1>s, Zenon DEF Copied
    <3> QED
      BY <3>1, <2>4, <1>1, <1>s, <1>u, Zenon DEF Compressing, Buffered
  <2> QED
    BY <2>8, <1>1, <1>s, <1>t, <1>u, Zenon DEF PadInv
<1>4. CASE buf_len # SHA_BLOCK
  <2>1. buf_len = 0 /\ left = SHA_BLOCK /\ taken = 0 /\ Copied(base + base - Whole + SHA_BLOCK)
    BY <1>1, <1>4, <1>t DEF Compressing
  <2>2. ChunkSize(buf_len, left) = SHA_BLOCK
    BY <2>1, <1>t DEF ChunkSize
  <2>3. Filled(SHA_BLOCK) = block_buf
    <3>1. \A j \in 0..(SHA_BLOCK - 1) : /\ buf_len <= j /\ j < buf_len + SHA_BLOCK
                                       /\ Behind(j - buf_len) = block_buf[j]
      BY <2>1, <1>t DEF Behind
    <3> QED
      BY <3>1, <1>b, Zenon DEF Filled
  <2>4. /\ block_buf' = block_buf /\ h' = Compressed(block_buf) /\ buf_len' = 0
        /\ left' = 0
    BY <2>1, <2>2, <2>3, <1>t DEF UpdateChunk
  <2>5. PICK n \in Nat : n = base + base - Whole + SHA_BLOCK
    BY <1>2, <1>t, base + base - Whole + SHA_BLOCK \in Nat, Zenon
  <2>6. ASSUME NEW j \in 0..(SHA_BLOCK - 1)
        PROVE  block_buf[j] = Padded(fed)[Origin(n + j + 1)]
    <3>1. Origin(n + j + 1) = base + j + 1
      BY <2>5, <1>2, <1>t DEF Origin
    <3> QED
      BY <3>1, <1>1 DEF Compressing, Buffered
  <2>7. /\ Len(h') = n + SHA_BLOCK
        /\ \A i \in 1..(n + SHA_BLOCK) : h'[i] = Padded(fed)[Origin(i)]
    BY <2>1, <2>4, <2>5, <2>6, <1>b, <1>t, <1>u, CopiedMore, Zenon
  <2>8. Compressing(base)'
    <3>1. Copied(base + base - Whole + SHA_BLOCK + SHA_BLOCK)'
      BY <2>5, <2>7, <1>s, Zenon DEF Copied
    <3> QED
      BY <3>1, <2>4, <1>1, <1>s, <1>u, Zenon DEF Compressing, Buffered
  <2> QED
    BY <2>8, <1>1, <1>s, <1>t, <1>u DEF PadInv
<1> QED
  BY <1>3, <1>4, Zenon

(* The first byte behind the message is the one bit, and fits the buffer.  *)
LEMMA FinalStep ==
  ASSUME ShaInv, PadInv, crypto_sha256_final
  PROVE  PadInv'
<1>t. ShaTypeOK /\ SHA_BLOCK \in Nat \ {0} /\ LENGTH_BYTES \in 1..(SHA_BLOCK - 1)
  BY ShaAssumption DEF ShaInv
<1>u. /\ step = "ready" /\ step' = "pad" /\ msg_len' = len /\ UNCHANGED <<h, fed>>
      /\ block_buf' = [block_buf EXCEPT ![buf_len] = One] /\ buf_len' = buf_len + 1
  BY Zenon DEF crypto_sha256_final, Put
<1>s. /\ Whole' = Whole /\ PadEnd' = PadEnd /\ PadBases' = PadBases
      /\ \A i : Origin(i)' = Origin(i)
      /\ Padded(fed)' = Padded(fed)
  BY <1>u, SameMessage, Zenon
<1>1. Stands(fed) /\ len = fed
  BY <1>u, Zenon DEF ShaInv
<1>2. Len(h) \in Nat /\ buf_len \in 0..(SHA_BLOCK - 1) /\ Len(h) + buf_len = fed
  BY <1>1, <1>t DEF Stands, ShaTypeOK
<1>3. Len(h) = Whole
  <2>1. PICK q \in Nat : Len(h) = q * SHA_BLOCK
    BY <1>u, <1>2, <1>t, InBlock, Zenon DEF PadInv
  <2>2. fed = q * SHA_BLOCK + buf_len
    BY <2>1, <1>2, Zenon
  <2>3. fed \div SHA_BLOCK = q
    BY <2>2, <1>2, <1>t, Quotient, Zenon
  <2> QED
    BY <2>1, <2>3, Zenon DEF Whole
<1>4. /\ Whole \in Nat /\ fed \in Nat
      /\ PadEnd = IF fed + LENGTH_BYTES < Whole + SHA_BLOCK THEN Whole + SHA_BLOCK
                  ELSE Whole + SHA_BLOCK + SHA_BLOCK
  BY <1>t, PadEndIs, Zenon
<1>5. Copied(Whole)'
  <2>1. ASSUME NEW i \in 1..Whole PROVE h[i] = Padded(fed)[Origin(i)]
    <3>1. Origin(i) = i /\ i \in 1..PadEnd /\ i <= fed
      BY <1>2, <1>3, <1>4, <1>t DEF Origin
    <3> QED
      BY <3>1, <1>1, <1>3, <1>t, PaddedByte, Zenon DEF Stands
  <2> QED
    BY <2>1, <1>3, <1>s, <1>u, Zenon DEF Copied
<1>6. Buffered(Whole, buf_len)'
  <2>1. ASSUME NEW j \in 0..buf_len
        PROVE  block_buf'[j] = Padded(fed)[Whole + j + 1]
    <3>1. PICK i \in 1..PadEnd : i = Whole + j + 1
      BY <1>2, <1>3, <1>4, <1>t, Whole + j + 1 \in 1..PadEnd, Zenon
    <3>2. CASE j < buf_len
      <4>1. block_buf'[j] = block_buf[j] /\ block_buf[j] = Data(i)
        BY <3>1, <3>2, <1>1, <1>2, <1>3, <1>t, <1>u DEF Stands, ShaTypeOK
      <4>2. i <= fed
        BY <3>1, <3>2, <1>2, <1>3, <1>4
      <4> QED
        BY <4>1, <4>2, <3>1, <1>t, PaddedByte, Zenon
    <3>3. CASE j = buf_len
      <4>1. block_buf'[j] = One
        BY <3>3, <1>2, <1>t, <1>u, Zenon DEF ShaTypeOK
      <4>2. i = fed + 1
        BY <3>1, <3>3, <1>2, <1>3, <1>4, Zenon
      <4> QED
        BY <4>1, <4>2, <3>1, <1>t, PaddedByte, Zenon
    <3> QED
      BY <3>2, <3>3, <1>2
  <2>2. buf_len' - 1 = buf_len
    BY <1>2, <1>u
  <2> QED
    BY <2>1, <2>2, <1>s, Zenon DEF Buffered
<1>7. Filling(Whole)'
  <2>1. Whole + Whole - Whole = Whole
    BY <1>4
  <2>2. Whole + SHA_BLOCK <= PadEnd /\ fed < Whole + buf_len'
        /\ (Whole + SHA_BLOCK = PadEnd => buf_len' <= SHA_BLOCK - LENGTH_BYTES)
    BY <1>2, <1>3, <1>4, <1>t, <1>u
  <2> QED
    BY <2>1, <2>2, <1>5, <1>6, <1>s, <1>u, Zenon DEF Filling
<1> QED
  BY <1>7, <1>1, <1>s, <1>u, Zenon DEF PadInv, PadBases

(* The steps that fill the buffer up to the length, and close a block.     *)
LEMMA PaddingStep ==
  ASSUME ShaInv, PadInv, PadZero \/ PadFull \/ AppendLength
  PROVE  PadInv'
<1>t. ShaTypeOK /\ SHA_BLOCK \in Nat \ {0} /\ LENGTH_BYTES \in 1..(SHA_BLOCK - 1)
  BY ShaAssumption DEF ShaInv
<1>u. step = "pad" /\ UNCHANGED <<h, fed, msg_len>> /\ msg_len = fed
  BY Zenon DEF PadZero, PadFull, AppendLength, PadInv
<1>s. /\ Whole' = Whole /\ PadEnd' = PadEnd /\ PadBases' = PadBases
      /\ \A i : Origin(i)' = Origin(i)
      /\ Padded(fed)' = Padded(fed)
  BY <1>u, SameMessage, Zenon
<1>1. PICK base \in PadBases : Filling(base)
  BY <1>u, Zenon DEF PadInv
<1>2. /\ Whole \in Nat /\ fed \in Nat /\ base \in Nat /\ base \in {Whole, Whole + SHA_BLOCK}
      /\ Whole <= fed /\ fed < Whole + SHA_BLOCK
      /\ PadEnd = IF fed + LENGTH_BYTES < Whole + SHA_BLOCK THEN Whole + SHA_BLOCK
                  ELSE Whole + SHA_BLOCK + SHA_BLOCK
  BY <1>1, <1>t, PadEndIs DEF PadBases
<1>3. /\ base + SHA_BLOCK <= PadEnd /\ fed < base + buf_len /\ buf_len \in 0..SHA_BLOCK
      /\ base + SHA_BLOCK = PadEnd => buf_len <= SHA_BLOCK - LENGTH_BYTES
  BY <1>1, <1>t, Zenon DEF Filling, ShaTypeOK
<1>4. Copied(base + base - Whole)'
  BY <1>1, <1>s, <1>u, Zenon DEF Filling, Copied
<1>5. Aligned <=> buf_len = SHA_BLOCK - LENGTH_BYTES
  <2>1. CASE buf_len < SHA_BLOCK
    <3>1. buf_len % SHA_BLOCK = buf_len
      BY <2>1, <1>3, <1>t
    <3> QED
      BY <3>1, Zenon DEF Aligned
  <2>2. CASE buf_len = SHA_BLOCK
    <3>1. buf_len % SHA_BLOCK = 0
      BY <2>2, <1>t
    <3> QED
      BY <3>1, <2>2, <1>t DEF Aligned
  <2> QED
    BY <2>1, <2>2, <1>3, <1>t
<1>6. CASE PadZero
  <2>1. /\ step' = "pad" /\ buf_len' = buf_len + 1 /\ buf_len < SHA_BLOCK
        /\ buf_len # SHA_BLOCK - LENGTH_BYTES
        /\ block_buf' = [block_buf EXCEPT ![buf_len] = Zero]
    BY <1>6, <1>3, <1>5, <1>t, <1>u DEF PadZero, Put
  <2>2. ASSUME NEW j \in 0..buf_len PROVE block_buf'[j] = Padded(fed)[base + j + 1]
    <3>1. CASE j < buf_len
      <4>1. block_buf'[j] = block_buf[j]
        BY <3>1, <2>1, <1>3, <1>t DEF ShaTypeOK
      <4> QED
        BY <4>1, <3>1, <1>1, <1>3 DEF Filling, Buffered
    <3>2. CASE j = buf_len
      <4>1. PICK i \in 1..PadEnd : i = base + j + 1
        BY <3>2, <2>1, <1>2, <1>3, <1>t, base + j + 1 \in 1..PadEnd, Zenon
      <4>2. fed + 1 < i /\ i <= PadEnd - LENGTH_BYTES
        BY <4>1, <3>2, <2>1, <1>2, <1>3, <1>t
      <4>3. block_buf'[j] = Zero
        BY <3>2, <2>1, <1>3, <1>t DEF ShaTypeOK
      <4> QED
        BY <4>1, <4>2, <4>3, <1>t, PaddedByte, Zenon
    <3> QED
      BY <3>1, <3>2, <1>3
  <2>3. Buffered(base, buf_len)'
    <3>1. buf_len' - 1 = buf_len
      BY <2>1, <1>3
    <3> QED
      BY <3>1, <2>2, <1>s, Zenon DEF Buffered
  <2>4. Filling(base)'
    <3>1. /\ fed < base + buf_len'
          /\ base + SHA_BLOCK = PadEnd => buf_len' <= SHA_BLOCK - LENGTH_BYTES
      BY <2>1, <1>2, <1>3, <1>t
    <3> QED
      BY <3>1, <2>3, <1>3, <1>4, <1>s, <1>u, Zenon DEF Filling
  <2> QED
    BY <2>1, <2>4, <1>1, <1>s, <1>u, Zenon DEF PadInv
<1>7. CASE PadFull
  <2>1. /\ step' = "update" /\ back' = "reset" /\ left' = SHA_BLOCK /\ taken' = 0
        /\ buf_len = SHA_BLOCK /\ buf_len' = buf_len /\ block_buf' = block_buf
    BY <1>7, Zenon DEF PadFull, CallUpdate
  <2>2. base + SHA_BLOCK + SHA_BLOCK = PadEnd
    BY <2>1, <1>2, <1>3, <1>t
  <2>3. Compressing(base)'
    BY <2>1, <2>2, <1>1, <1>3, <1>4, <1>s, <1>u, Zenon DEF Compressing, Filling, Buffered
  <2> QED
    BY <2>1, <2>3, <1>1, <1>s, <1>u, Zenon DEF PadInv
<1>8. CASE AppendLength
  <2>1. /\ step' = "update" /\ back' = "done" /\ left' = SHA_BLOCK /\ taken' = 0
        /\ buf_len = SHA_BLOCK - LENGTH_BYTES /\ buf_len' = SHA_BLOCK
        /\ block_buf' = [j \in 0..(SHA_BLOCK - 1) |->
                           IF j >= buf_len THEN LengthByte(msg_len, j - buf_len) ELSE block_buf[j]]
    BY <1>8, <1>5, Zenon DEF AppendLength, CallUpdate
  <2>2. base + SHA_BLOCK = PadEnd
    BY <2>1, <1>2, <1>3, <1>t
  <2>3. ASSUME NEW j \in 0..(SHA_BLOCK - 1) PROVE block_buf'[j] = Padded(fed)[base + j + 1]
    <3>1. CASE j < buf_len
      <4>1. block_buf'[j] = block_buf[j]
        BY <3>1, <2>1, <1>t
      <4> QED
        BY <4>1, <3>1, <1>1, <1>3 DEF Filling, Buffered
    <3>2. CASE j >= buf_len
      <4>1. PICK i \in 1..PadEnd : i = base + j + 1
        BY <2>2, <1>2, <1>t, base + j + 1 \in 1..PadEnd, Zenon
      <4>2. fed + 1 < i /\ PadEnd - LENGTH_BYTES < i /\ i - (PadEnd - LENGTH_BYTES) - 1 = j - buf_len
        BY <4>1, <3>2, <2>1, <2>2, <1>2, <1>3, <1>t
      <4>3. block_buf'[j] = LengthByte(fed, j - buf_len)
        BY <3>2, <2>1, <1>u, Zenon
      <4> QED
        BY <4>1, <4>2, <4>3, <1>t, PaddedByte, Zenon
    <3> QED
      BY <3>1, <3>2, <1>3, <1>t
  <2>4. Compressing(base)'
    BY <2>1, <2>2, <2>3, <1>3, <1>4, <1>s, <1>u, Zenon DEF Compressing, Buffered
  <2> QED
    BY <2>1, <2>4, <1>1, <1>s, <1>u, Zenon DEF PadInv
<1> QED
  BY <1>6, <1>7, <1>8, Zenon

(* Every step preserves what the padding stands for.                       *)
LEMMA PadNextInv == ShaInv /\ PadInv /\ [ShaNext]_shaVars => PadInv'
<1> SUFFICES ASSUME ShaInv, PadInv, [ShaNext]_shaVars PROVE PadInv'
  BY Zenon
<1>t. ShaTypeOK /\ SHA_BLOCK \in Nat \ {0} /\ Len(h) \in Nat
  BY ShaAssumption DEF ShaInv, ShaTypeOK
<1>s. fed' = fed => /\ Whole' = Whole /\ PadEnd' = PadEnd /\ PadBases' = PadBases
                    /\ \A i : Origin(i)' = Origin(i)
                    /\ Padded(fed)' = Padded(fed)
  BY SameMessage, Zenon
<1>1. CASE crypto_sha256_init
  <2>1. step' = "ready" /\ Len(h') = 0
    BY <1>1, Zenon DEF crypto_sha256_init
  <2>2. (0 \div SHA_BLOCK) * SHA_BLOCK = 0
    BY <1>t
  <2> QED
    BY <2>1, <2>2, Zenon DEF PadInv
<1>2. CASE crypto_sha256_update
  BY <1>2, Zenon DEF crypto_sha256_update, CallUpdate, PadInv
<1>3. CASE UpdateChunk /\ back = "ready"
  <2>1. step = "update" /\ UNCHANGED <<step, back>>
    BY <1>3, Zenon DEF UpdateChunk
  <2>2. PICK q \in Nat : Len(h) = q * SHA_BLOCK
    BY <1>3, <2>1, <1>t, InBlock, Zenon DEF PadInv
  <2>3. Len(h') = Len(h) \/ Len(h') = Len(h) + SHA_BLOCK
    <3>1. Filled(ChunkSize(buf_len, left)) \in [0..(SHA_BLOCK - 1) -> Byte]
      BY <2>1, FilledType, Zenon
    <3> QED
      BY <3>1, <1>3, <1>t, CompressedBytes, Zenon DEF UpdateChunk
  <2>4. PICK n \in Nat : Len(h') = n * SHA_BLOCK
    BY <2>2, <2>3, <1>t, Blocks, q + 1 \in Nat, Zenon
  <2>5. n * SHA_BLOCK + 0 = n * SHA_BLOCK
    BY <1>t, Blocks
  <2>6. Len(h') \div SHA_BLOCK = n
    BY <2>4, <2>5, <1>t, Quotient
  <2> QED
    BY <2>1, <2>4, <2>6, <1>3, Zenon DEF PadInv
<1>4. CASE UpdateChunk /\ back # "ready"
  BY <1>4, CompressingStep, Zenon
<1>5. CASE UpdateReturns
  <2>1. step = "update" /\ left = 0 /\ step' = back /\ UNCHANGED <<h, back, fed, msg_len>>
    BY <1>5, Zenon DEF UpdateReturns, shaContext
  <2>2. CASE back = "ready"
    BY <2>1, <2>2, Zenon DEF PadInv
  <2>3. CASE back # "ready"
    <3>1. PICK base \in PadBases : Compressing(base)
      BY <2>1, <2>3, Zenon DEF PadInv
    <3>2. /\ Whole \in Nat /\ base \in {Whole, Whole + SHA_BLOCK} /\ PadEnd \in Nat
          /\ PadEnd \in {Whole + SHA_BLOCK, Whole + SHA_BLOCK + SHA_BLOCK}
      BY <3>1, <1>t, PadEndIs, SMTT(30) DEF PadBases
    <3>3. Copied(base + base - Whole + SHA_BLOCK + SHA_BLOCK)
      BY <3>1, <2>1, <1>t, Zenon DEF Compressing
    <3>4. back \in {"reset", "done"} /\ msg_len = fed
      BY <2>1, <2>3, <1>t, Zenon DEF ShaTypeOK, PadInv
    <3>5. CASE back = "reset"
      <4>1. PadEnd = Whole + SHA_BLOCK + SHA_BLOCK
            /\ base + base - Whole + SHA_BLOCK + SHA_BLOCK = Whole + SHA_BLOCK + SHA_BLOCK
        BY <3>1, <3>2, <3>5, <1>t DEF Compressing
      <4>2. Copied(Whole + SHA_BLOCK + SHA_BLOCK)
        BY <3>3, <4>1, Zenon
      <4>3. Copied(Whole + SHA_BLOCK + SHA_BLOCK)'
        BY <4>2, <2>1, <1>s, Zenon DEF Copied
      <4> QED
        BY <4>1, <4>3, <3>4, <3>5, <2>1, <1>s, Zenon DEF PadInv
    <3>6. CASE back = "done"
      <4>1. base + base - Whole + SHA_BLOCK + SHA_BLOCK = PadEnd + PadEnd - Whole
        BY <3>1, <3>2, <3>6, <1>t DEF Compressing
      <4>2. Copied(PadEnd + PadEnd - Whole)
        BY <3>3, <4>1, Zenon
      <4>3. Copied(PadEnd + PadEnd - Whole)'
        BY <4>2, <2>1, <1>s, Zenon DEF Copied
      <4> QED
        BY <4>3, <3>6, <2>1, Zenon DEF PadInv
    <3> QED
      BY <3>4, <3>5, <3>6, Zenon
  <2> QED
    BY <2>2, <2>3, Zenon
<1>6. CASE crypto_sha256_final
  BY <1>6, FinalStep, Zenon
<1>7. CASE PadZero \/ PadFull \/ AppendLength
  BY <1>7, PaddingStep, Zenon
<1>8. CASE PadReset
  <2>1. /\ step = "reset" /\ step' = "pad" /\ buf_len' = 1 /\ UNCHANGED <<h, fed, msg_len>>
        /\ block_buf' = [block_buf EXCEPT ![0] = Zero]
    BY <1>8, Zenon DEF PadReset
  <2>2. PadEnd = Whole + SHA_BLOCK + SHA_BLOCK /\ Copied(Whole + SHA_BLOCK + SHA_BLOCK) /\ msg_len = fed
    BY <2>1, Zenon DEF PadInv
  <2>3. /\ Whole \in Nat /\ fed \in Nat /\ fed < Whole + SHA_BLOCK
        /\ LENGTH_BYTES \in 1..(SHA_BLOCK - 1)
    BY <1>t, PadEndIs, ShaAssumption
  <2>4. PICK base \in PadBases : base = Whole + SHA_BLOCK
    BY Zenon DEF PadBases
  <2>5. block_buf'[0] = Zero
    BY <2>1, <1>t DEF ShaTypeOK
  <2>6. Padded(fed)[base + 0 + 1] = Zero
    <3>1. PICK i \in 1..PadEnd : i = base + 0 + 1
      BY <2>2, <2>3, <2>4, <1>t, base + 0 + 1 \in 1..PadEnd, Zenon
    <3>2. fed + 1 < i /\ i <= PadEnd - LENGTH_BYTES
      BY <3>1, <2>2, <2>3, <2>4, <1>t
    <3> QED
      BY <3>1, <3>2, <1>t, PaddedByte, Zenon
  <2>7. Buffered(base, buf_len)'
    <3>1. 0..(buf_len' - 1) = {0}
      BY <2>1
    <3> QED
      BY <3>1, <2>1, <2>5, <2>6, <1>s, Zenon DEF Buffered
  <2>8. Copied(base + base - Whole)'
    <3>1. base + base - Whole = Whole + SHA_BLOCK + SHA_BLOCK
      BY <2>3, <2>4, <1>t
    <3>2. Copied(Whole + SHA_BLOCK + SHA_BLOCK)'
      BY <2>1, <2>2, <1>s, Zenon DEF Copied
    <3> QED
      BY <3>1, <3>2, <2>1, <1>s, Zenon
  <2>9. Filling(base)'
    <3>1. base + SHA_BLOCK = PadEnd /\ fed < base + 1 /\ 1 <= SHA_BLOCK - LENGTH_BYTES
      BY <2>2, <2>3, <2>4, <1>t
    <3>2. base + SHA_BLOCK <= PadEnd
      BY <3>1, <2>3, <2>4, <1>t
    <3> QED
      BY <3>1, <3>2, <2>1, <2>7, <2>8, <1>s, Zenon DEF Filling
  <2> QED
    BY <2>1, <2>2, <2>9, <1>s, Zenon DEF PadInv
<1>9. CASE UNCHANGED shaVars
  <2>1. UNCHANGED <<h, buf_len, block_buf, step, left, taken, back, fed, msg_len>>
    BY <1>9, Zenon DEF shaVars, shaContext
  <2>2. ASSUME NEW n PROVE Copied(n)' <=> Copied(n)
    BY <2>1, <1>s, Zenon DEF Copied
  <2>3. ASSUME NEW base PROVE Filling(base)' <=> Filling(base)
    BY <2>1, <2>2, <1>s, ZenonT(30) DEF Filling, Buffered
  <2>4. ASSUME NEW base PROVE Compressing(base)' <=> Compressing(base)
    BY <2>1, <2>2, <1>s, Zenon DEF Compressing, Buffered
  <2> QED
    BY <2>1, <2>2, <2>3, <2>4, <1>s, Zenon DEF PadInv
<1> QED
  BY <1>1, <1>2, <1>3, <1>4, <1>5, <1>6, <1>7, <1>8, <1>9, Zenon DEF ShaNext

(* A piece of a sequence.                                                  *)
LEMMA Cut ==
  ASSUME NEW s \in Seq(Byte), NEW a \in Nat, NEW n \in Nat, a + n <= Len(s)
  PROVE  SubSeq(s, a + 1, a + n) = [i \in 1..n |-> s[a + i]]
OBVIOUS

\* The padded message is a sequence of bytes that ends with the padding.
LEMMA PaddedType ==
  ASSUME ShaTypeOK
  PROVE  Padded(fed) \in Seq(Byte) /\ Len(Padded(fed)) = PadEnd
<1>1. PadEnd \in Nat /\ fed \in Nat /\ LENGTH_BYTES \in Nat
  BY PadEndIs, ShaAssumption
<1>2. ASSUME NEW i \in 1..PadEnd PROVE Padded(fed)[i] \in Byte
  <2>1. i \in Nat /\ Data(i) \in Byte /\ One \in Byte /\ Zero \in Byte
    BY <1>1 DEF Byte, Data, One, Zero
  <2>2. ASSUME NEW k \in Nat PROVE LengthByte(fed, k) \in Byte
    BY <1>1, Zenon DEF Byte, LengthByte
  <2>3. CASE i <= fed \/ i = fed + 1 \/ i <= PadEnd - LENGTH_BYTES
    BY <2>1, <2>3, <1>1, PaddedByte
  <2>4. CASE fed + 1 < i /\ PadEnd - LENGTH_BYTES < i
    <3>1. i - (PadEnd - LENGTH_BYTES) - 1 \in Nat
      BY <2>4, <1>1
    <3> QED
      BY <3>1, <2>2, <2>4, PaddedByte, Zenon
  <2> QED
    BY <2>3, <2>4, <1>1
<1>3. Padded(fed) = [i \in 1..PadEnd |-> Padded(fed)[i]]
  BY Zenon DEF Padded, PadEnd
<1> QED
  BY <1>1, <1>2, <1>3

(* A block of the compressed bytes is the block of the padded message that *)
(* its bytes come from.                                                    *)
LEMMA SameBlock ==
  ASSUME ShaTypeOK, NEW n \in Nat, Copied(n), NEW x \in Nat, NEW y \in Nat,
         SHA_BLOCK * x + SHA_BLOCK <= n, SHA_BLOCK * y + SHA_BLOCK <= PadEnd,
         \A j \in 1..SHA_BLOCK : Origin(SHA_BLOCK * x + j) = SHA_BLOCK * y + j
  PROVE  Block(h, x) = Block(Padded(fed), y)
<1>1. SHA_BLOCK \in Nat \ {0} /\ SHA_BLOCK \in Nat /\ PadEnd \in Nat
  BY ShaAssumption, PadEndIs
<1>2. PICK a \in Nat : a = SHA_BLOCK * x /\ SHA_BLOCK * (x + 1) = a + SHA_BLOCK
  BY <1>1
<1>3. PICK b \in Nat : b = SHA_BLOCK * y /\ SHA_BLOCK * (y + 1) = b + SHA_BLOCK
  BY <1>1
<1> DEFINE p == Padded(fed)
<1>4. Block(h, x) = [i \in 1..SHA_BLOCK |-> h[a + i]]
  <2>1. h \in Seq(Byte) /\ a + SHA_BLOCK <= Len(h)
    BY <1>2, Zenon DEF ShaTypeOK, Copied
  <2>2. Block(h, x) = SubSeq(h, a + 1, a + SHA_BLOCK)
    BY <1>2, Zenon DEF Block
  <2> QED
    BY <2>1, <2>2, <1>1, Cut, Zenon
<1>5. Block(p, y) = [i \in 1..SHA_BLOCK |-> p[b + i]]
  <2>1. p \in Seq(Byte) /\ Len(p) = PadEnd
    BY <1>1, PaddedType, Zenon
  <2>2. Block(p, y) = SubSeq(p, b + 1, b + SHA_BLOCK)
    BY <1>3, Zenon DEF Block
  <2>3. b + SHA_BLOCK <= Len(p)
    BY <2>1, <1>3, Zenon
  <2> HIDE DEF p
  <2> QED
    BY <2>1, <2>2, <2>3, <1>1, Cut, ZenonT(30)
<1>6. ASSUME NEW i \in 1..SHA_BLOCK PROVE h[a + i] = p[b + i]
  <2>1. a + i \in 1..n /\ Origin(a + i) = b + i
    BY <1>1, <1>2, <1>3
  <2> QED
    BY <2>1, Zenon DEF Copied
<1> QED
  BY <1>4, <1>5, <1>6, Zenon

(* What has been compressed when crypto_sha256_final returns.              *)
LEMMA Finished == ShaInv /\ PadInv => DigestDetermined
<1> SUFFICES ASSUME ShaInv, PadInv, step = "done"
             PROVE  LET whole == fed \div SHA_BLOCK
                        pads  == PaddedLength(fed) \div SHA_BLOCK - whole
                    IN  /\ Len(h) = SHA_BLOCK * (whole + 2 * pads)
                        /\ \A k \in 0..(whole - 1) : Block(h, k) = Block(Padded(fed), k)
                        /\ \A k \in 0..(pads - 1), twice \in {0, 1} :
                             Block(h, whole + 2 * k + twice) = Block(Padded(fed), whole + k)
  BY Zenon DEF DigestDetermined
<1>1. ShaTypeOK /\ SHA_BLOCK \in Nat \ {0} /\ Copied(PadEnd + PadEnd - Whole)
  <2>1. ShaTypeOK /\ Copied(PadEnd + PadEnd - Whole)
    BY Zenon DEF ShaInv, PadInv
  <2> QED
    BY <2>1, ShaAssumption
<1> DEFINE S == SHA_BLOCK
<1>2. PICK q \in Nat : q = fed \div S /\ Whole = S * q
  BY <1>1, PadEndIs
<1>3. PICK p \in {1, 2} : PadEnd = S * q + S * p
  BY <1>1, <1>2, PadEndIs, S * 1 = S, S * 2 = S + S
<1>4. PaddedLength(fed) \div S = q + p
  <2>1. PadEnd = (q + p) * S + 0
    BY <1>1, <1>3
  <2> QED
    BY <2>1, <1>1, Quotient DEF PadEnd
<1>p. S * p = IF p = 1 THEN S ELSE S + S
  BY <1>1
<1>5. PICK n \in Nat : n = PadEnd + PadEnd - Whole /\ n = S * q + S * p + S * p
  BY <1>1, <1>2, <1>3, <1>p, S * q \in Nat, SMTT(30)
<1>s. S * (q + 2 * p) = S * q + S * p + S * p
  BY <1>1
<1>6. Len(h) = S * (q + 2 * p) /\ Copied(n)
  BY <1>1, <1>5, <1>s, Zenon DEF Copied
<1>7. ASSUME NEW k \in 0..(q - 1) PROVE Block(h, k) = Block(Padded(fed), k)
  <2>1. k \in Nat /\ S * k \in Nat /\ S * k + S <= S * q
    BY <1>1
  <2>2. \A j \in 1..S : Origin(S * k + j) = S * k + j
    BY <2>1, <1>1, <1>2 DEF Origin
  <2>3. S * k + S <= n /\ S * k + S <= PadEnd
    BY <2>1, <1>1, <1>3, <1>5, <1>p, S * q \in Nat
  <2> QED
    BY <2>1, <2>2, <2>3, <1>1, <1>6, SameBlock, Zenon
<1>8. ASSUME NEW k \in 0..(p - 1), NEW twice \in {0, 1}
      PROVE  Block(h, q + 2 * k + twice) = Block(Padded(fed), q + k)
  <2>1. k \in {0, 1} /\ (k = 1 => p = 2)
    BY <1>3
  <2>2. PICK x \in Nat : x = q + 2 * k + twice
    BY <2>1, q + 2 * k + twice \in Nat, Zenon
  <2>3. PICK y \in Nat : y = q + k
    BY <2>1, q + k \in Nat, Zenon
  <2>4. S * x = S * q + S * (2 * k + twice) /\ S * y = S * q + S * k /\ S * q \in Nat
    BY <2>1, <2>2, <2>3, <1>1
  <2>5. /\ S * k = IF k = 0 THEN 0 ELSE S
        /\ S * (2 * k + twice) = IF k = 0 THEN S * twice ELSE S + S + S * twice
        /\ S * twice = IF twice = 0 THEN 0 ELSE S
    BY <2>1, <1>1
  <2>6. S * x + S <= n /\ S * y + S <= PadEnd
    BY <2>1, <2>4, <2>5, <1>1, <1>3, <1>5, <1>p
  <2>7. \A j \in 1..S : Origin(S * x + j) = S * y + j
    <3> SUFFICES ASSUME NEW j \in 1..S PROVE Origin(S * x + j) = S * y + j
      BY Zenon
    <3>1. S * x = Whole + S * (2 * k + twice) /\ S * y = Whole + S * k /\ Whole \in Nat
      BY <2>4, <1>2, Zenon
    <3>2. PICK c \in Nat : c = S * x
      BY <2>1, <2>4, <2>5, <1>1
    <3>3. CASE k = 0
      BY <3>1, <3>2, <3>3, <2>5, <1>1 DEF Origin
    <3>4. CASE k = 1
      BY <3>1, <3>2, <3>4, <2>5, <1>1 DEF Origin
    <3> QED
      BY <3>3, <3>4, <2>1, Zenon
  <2>8. Block(h, x) = Block(Padded(fed), y)
    BY <2>6, <2>7, <1>1, <1>6, SameBlock, Zenon
  <2> QED
    BY <2>2, <2>3, <2>8, Zenon
<1> QED
  BY <1>2, <1>4, <1>6, <1>7, <1>8, SMTT(30)

(* However the message is cut into calls, a finished digest has compressed *)
(* the message's whole blocks once and each block of its padding twice,    *)
(* and nothing else.                                                       *)
THEOREM DigestCorrect == ShaSpec => []DigestDetermined
<1>1. ShaInit => PadInv
  BY Zenon DEF ShaInit, PadInv
<1> QED
  BY <1>1, Finished, ShaInitInv, ShaNextInv, PadNextInv, PTL DEF ShaSpec

=============================================================================


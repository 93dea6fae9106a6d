--------------------------- MODULE LibraryProofs ----------------------------
(***************************************************************************)
(* Proofs about the routines the programs are built from.                  *)
(*                                                                         *)
(* The AES modes: CBC and GCM give back what they were given, for every    *)
(* block size, every length of a message and every choice of buffers.      *)
(* The BloodHorn library: it counts its users, and its moves are exact.    *)
(***************************************************************************)
EXTENDS AesModes, LibB, FiniteSets, TLAPS


(* Division by the size of a block.                                        *)
LEMMA Quotient ==
  ASSUME NEW size \in Nat \ {0}, NEW q \in Nat, NEW r \in 0..(size - 1)
  PROVE  (q * size + r) \div size = q /\ (q * size + r) % size = r
OBVIOUS

(* Whole blocks.                                                           *)
LEMMA Blocks ==
  ASSUME NEW size \in Nat \ {0}, NEW a \in Nat, NEW b \in Nat
  PROVE  /\ a * size \in Nat
         /\ (a + 1) * size = a * size + size
         /\ a <= b => a * size <= b * size
OBVIOUS

(* A byte combined with another twice is the byte again, and the other is  *)
(* known from the byte before and after.                                   *)
LEMMA XorTwice ==
  ASSUME NEW x, NEW y
  PROVE  XorByte(XorByte(x, y), y) = x
BY Zenon DEF XorByte

(* The exclusive or does not depend on the order.                          *)
LEMMA XorSkips ==
  ASSUME NEW x, NEW y, NEW z
  PROVE  XorByte(XorByte(XorByte(x, y), z), y) = XorByte(x, z)
BY Zenon DEF XorByte

(* What a byte is combined with is known from the result.                  *)
LEMMA XorTells ==
  ASSUME NEW x, NEW y, NEW z, XorByte(x, y) = XorByte(x, z)
  PROVE  y = z
BY Zenon DEF XorByte

(* The cipher's inverse undoes it.                                         *)
LEMMA DecryptsBlock ==
  ASSUME NEW x
  PROVE  crypto_aes_decrypt_block(crypto_aes_encrypt_block(x)) = x
<1> DEFINE block == crypto_aes_encrypt_block(x)
           atoms == UNION {block[j] : j \in DOMAIN block}
           made == {atom[2] : atom \in {a \in atoms : a[1] = "E"}}
           from == {y \in made : crypto_aes_encrypt_block(y) = block}
<1>1. 1 \in 1..AES_BLOCK_SIZE
  BY AesAssumption
<1>2. \A y : crypto_aes_encrypt_block(y)[1] = {<<"E", y, 1>>}
  BY <1>1, Zenon DEF crypto_aes_encrypt_block
<1>3. x \in made
  <2>1. 1 \in DOMAIN block /\ block[1] = {<<"E", x, 1>>}
    BY <1>1, <1>2, Zenon DEF crypto_aes_encrypt_block
  <2>2. <<"E", x, 1>> \in atoms
    BY <2>1, Zenon
  <2> QED
    BY <2>2
<1>4. \A y \in from : y = x
  BY <1>2, ZenonT(30)
<1>5. x \in from
  BY <1>3, Zenon
<1> QED
  BY <1>4, <1>5, Zenon DEF crypto_aes_decrypt_block

(* Multiples of the block size are a block apart.                          *)
LEMMA BlockStarts ==
  ASSUME NEW p \in Nat, p % AES_BLOCK_SIZE = 0
  PROVE  /\ p = (p \div AES_BLOCK_SIZE) * AES_BLOCK_SIZE
         /\ p \div AES_BLOCK_SIZE \in Nat
         /\ (p + AES_BLOCK_SIZE) % AES_BLOCK_SIZE = 0
         /\ \A q \in Nat : q % AES_BLOCK_SIZE = 0 /\ p < q => p + AES_BLOCK_SIZE <= q
         /\ \A j \in 1..AES_BLOCK_SIZE : (p + j - 1) \div AES_BLOCK_SIZE = p \div AES_BLOCK_SIZE
<1> DEFINE S == AES_BLOCK_SIZE
<1>0. S \in Nat \ {0}
  BY AesAssumption, Zenon
<1> HIDE DEF S
<1>1. \A n \in Nat : n % S = 0 => n = (n \div S) * S /\ n \div S \in Nat
  BY <1>0
<1>2. PICK a \in Nat : p = a * S /\ a = p \div S
  BY <1>1, Zenon DEF S
<1>3. (p + S) % S = 0
  <2>1. p + S = (a + 1) * S + 0
    BY <1>0, <1>2, Blocks
  <2>2. 0 \in 0..(S - 1) /\ a + 1 \in Nat
    BY <1>0
  <2>3. ((a + 1) * S + 0) % S = 0
    BY <1>0, <2>2, Quotient, Zenon
  <2> QED
    BY <2>1, <2>3, Zenon
<1>4. ASSUME NEW q \in Nat, q % S = 0, p < q PROVE p + S <= q
  <2>1. PICK b \in Nat : q = b * S
    BY <1>1, <1>4, Zenon
  <2>2. a + 1 <= b
    BY <1>0, <1>2, <1>4, <2>1, Blocks
  <2>3. (a + 1) * S <= b * S
    BY <1>0, <2>2, Blocks
  <2> QED
    BY <1>0, <1>2, <2>1, <2>3, Blocks, Zenon
<1>5. ASSUME NEW j \in 1..S PROVE (p + j - 1) \div S = a
  <2>1. j - 1 \in 0..(S - 1) /\ p + j - 1 = a * S + (j - 1)
    BY <1>0, <1>2, Blocks
  <2> QED
    BY <1>0, <2>1, Quotient
<1> QED
  BY <1>2, <1>3, <1>4, <1>5, Zenon DEF S

Spans(f, n) == f = [i \in 1..n |-> f[i]]

(* A piece of a buffer.                                                    *)
LEMMA Piece ==
  ASSUME NEW n \in Nat, NEW f, Spans(f, n),
         NEW a \in Nat, NEW m \in Nat, a + m <= n
  PROVE  SubSeq(f, a + 1, a + m) = [j \in 1..m |-> f[a + j]]
<1> DEFINE S == {f[i] : i \in 1..n}
<1>1. f \in [1..n -> S]
  BY Zenon DEF Spans
<1> HIDE DEF S
<1>2. f \in Seq(S) /\ Len(f) = n
  BY <1>1
<1> QED
  BY <1>2

-----------------------------------------------------------------------------
Buffers == {"a", "b", "c", "temp"}

JobOK ==
  /\ job.mode \in {"cbc", "gcm"} /\ job.len \in Nat
  /\ job.dst \in {"a", "b"} /\ job.out \in {job.dst, "c"}
  /\ job.iv12 \in BOOLEAN /\ job.damaged \in BOOLEAN
  /\ job.mode = "cbc" => job.iv12 = TRUE

(* Every buffer has the length of the message.                             *)
Frames ==
  /\ mem = [b \in Buffers |-> mem[b]]
  /\ \A b \in Buffers : Spans(mem[b], job.len)

(* A block written at aes_i leaves the rest alone.                         *)
LEMMA Rewritten ==
  ASSUME JobOK, Frames, UNCHANGED job, NEW to \in Buffers, NEW block, PutBlock(to, block)
  PROVE  /\ Frames'
         /\ \A b \in Buffers \ {to} : mem'[b] = mem[b]
         /\ \A i \in 1..job.len :
              mem'[to][i] = IF i - aes_i \in DOMAIN block THEN block[i - aes_i] ELSE mem[to][i]
<1> DEFINE new == [i \in 1..job.len |->
                     IF i - aes_i \in DOMAIN block THEN block[i - aes_i] ELSE mem[to][i]]
<1>1. DOMAIN mem = Buffers /\ DOMAIN mem[to] = 1..job.len
  BY Zenon DEF Frames, Spans
<1>2. mem' = [mem EXCEPT ![to] = new]
  BY <1>1, Zenon DEF PutBlock
<1>3. mem'[to] = new /\ \A b \in Buffers \ {to} : mem'[b] = mem[b]
  BY <1>1, <1>2, Zenon
<1>4. mem' = [b \in Buffers |-> mem'[b]]
  BY <1>1, <1>2, Zenon
<1>5. ASSUME NEW b \in Buffers PROVE Spans(mem'[b], job.len)
  BY <1>3, Zenon DEF Frames, Spans
<1> QED
  BY <1>3, <1>4, <1>5, Zenon DEF Frames

(* The same for a block of m bytes.                                        *)
LEMMA Written ==
  ASSUME JobOK, Frames, aes_i \in Nat, UNCHANGED job,
         NEW to \in Buffers, NEW m \in Nat, NEW block, DOMAIN block = 1..m,
         PutBlock(to, block)
  PROVE  /\ Frames'
         /\ \A b \in Buffers \ {to} : mem'[b] = mem[b]
         /\ \A i \in 1..job.len :
              mem'[to][i] = IF i \in aes_i + 1 .. aes_i + m THEN block[i - aes_i] ELSE mem[to][i]
<1>1. job.len \in Nat
  BY Zenon DEF JobOK
<1>2. \A i \in 1..job.len : i - aes_i \in DOMAIN block <=> i \in aes_i + 1 .. aes_i + m
  BY <1>1
<1> QED
  BY <1>2, Rewritten, Zenon

-----------------------------------------------------------------------------
At(f, p) == [j \in 1..AES_BLOCK_SIZE |-> f[p + j]]

Before(f, p) == IF p = 0 THEN iv ELSE At(f, p - AES_BLOCK_SIZE)

(* A block comes back when the same block is added to it twice.            *)
LEMMA XorBlockTwice ==
  ASSUME NEW g, NEW p, NEW y
  PROVE  XorBlock(XorBlock(At(g, p), y), y) = At(g, p)
<1> DEFINE n == AES_BLOCK_SIZE
           b == XorBlock(At(g, p), y)
<1>1. DOMAIN At(g, p) = 1..n /\ \A j \in 1..n : At(g, p)[j] = g[p + j]
  BY Zenon DEF At
<1>2. DOMAIN b = 1..n /\ \A j \in 1..n : b[j] = XorByte(g[p + j], y[j])
  BY <1>1, Zenon DEF XorBlock
<1> HIDE DEF b
<1>3. XorBlock(b, y) = [j \in 1..n |-> XorByte(b[j], y[j])]
  BY <1>2, Zenon DEF XorBlock
<1>4. \A j \in 1..n : XorByte(b[j], y[j]) = g[p + j]
  BY <1>2, XorTwice, Zenon
<1>5. XorBlock(b, y) = [j \in 1..n |-> g[p + j]]
  BY <1>3, <1>4, Zenon
<1> QED
  BY <1>5, Zenon DEF At, b

(* The first n bytes are the message in cipher block chaining.             *)
Chained(f, n) ==
  \A p \in 0..n : p % AES_BLOCK_SIZE = 0 /\ p < n =>
    At(f, p) = crypto_aes_encrypt_block(XorBlock(At(Message, p), Before(f, p)))

(* The encryption overwrites no byte of the message that is still to be    *)
(* encrypted, and the chaining value is the last block of the ciphertext,  *)
(* which is all that the decryption needs to take a block apart again.     *)
CbcInv ==
  /\ aes_step \in {"call", "invalid", "encrypt", "decrypt", "opened"}
  /\ aes_step \in {"encrypt", "decrypt", "opened"} => job.len % AES_BLOCK_SIZE = 0
  /\ aes_step \in {"encrypt", "decrypt"} => aes_i <= job.len
  /\ aes_step = "encrypt" =>
       /\ Chained(mem[job.dst], aes_i)
       /\ prev_block = Before(mem[job.dst], aes_i)
       /\ \A i \in aes_i + 1 .. job.len : mem["a"][i] = Message[i]
  /\ aes_step \in {"decrypt", "opened"} /\ job.out # job.dst =>
       Chained(mem[job.dst], job.len) /\ mem[job.dst] = sealed.text
  /\ aes_step = "decrypt" /\ job.out # job.dst =>
       /\ prev_block = Before(mem[job.dst], aes_i)
       /\ \A i \in 1..aes_i : mem[job.out][i] = Message[i]
  /\ aes_step = "opened" /\ job.out # job.dst => mem[job.out] = Message

(* What AesInv says in every mode.                                         *)
AesShape ==
  /\ JobOK /\ Frames
  /\ aes_i \in Nat /\ aes_i % AES_BLOCK_SIZE = 0
  /\ aes_step = "call" => /\ aes_i = 0 /\ prev_block = iv
                          /\ mem["a"] = Message /\ mem["c"] = Bytes("before", job.len)

(* A block of a buffer.                                                    *)
LEMMA BlockIs ==
  ASSUME AesShape, NEW b \in Buffers, aes_i + AES_BLOCK_SIZE <= job.len
  PROVE  BlockOf(b) = At(mem[b], aes_i)
<1> DEFINE f == mem[b]
           n == job.len
           a == aes_i
           m == AES_BLOCK_SIZE
<1>1. m \in Nat /\ n \in Nat /\ a \in Nat /\ a + m <= n /\ Spans(f, n)
  BY AesAssumption, Zenon DEF AesShape, JobOK, Frames
<1>2. BlockOf(b) = SubSeq(f, a + 1, a + m) /\ At(mem[b], aes_i) = [j \in 1..m |-> f[a + j]]
  BY Zenon DEF BlockOf, At
<1> HIDE DEF f, n, a, m
<1>3. SubSeq(f, a + 1, a + m) = [j \in 1..m |-> f[a + j]]
  BY <1>1, Piece
<1> QED
  BY <1>2, <1>3, Zenon

(* A block of CBC encrypted.                                               *)
LEMMA CbcEncryptStep ==
  ASSUME AesShape, CbcInv, CbcEncryptBlock
  PROVE  AesShape' /\ CbcInv'
<1> DEFINE S == AES_BLOCK_SIZE
           L == job.len
           x == XorBlock(BlockOf("a"), prev_block)
           block == crypto_aes_encrypt_block(x)
           d == job.dst
           f == mem[d]
           g == mem'[d]
<1>0. S \in Nat \ {0} /\ L \in Nat /\ aes_i \in Nat /\ d \in Buffers /\ d \in {"a", "b"} /\ L % S = 0
  BY AesAssumption, Zenon DEF AesShape, JobOK, CbcInv, CbcEncryptBlock, Buffers
<1>1. aes_i < L /\ aes_step = "encrypt" /\ aes_step' = aes_step /\ job' = job /\ sealed' = sealed
      /\ aes_i' = aes_i + S /\ prev_block' = block /\ PutBlock(d, block)
  BY Zenon DEF CbcEncryptBlock
<1>2. aes_i + S <= L /\ (aes_i + S) % S = 0
  BY <1>0, <1>1, BlockStarts, Zenon DEF AesShape
<1>3. DOMAIN block = 1..S
  BY Zenon DEF crypto_aes_encrypt_block
<1>4. /\ Frames'
      /\ \A b \in Buffers \ {d} : mem'[b] = mem[b]
      /\ \A i \in 1..L : g[i] = IF i \in aes_i + 1 .. aes_i + S THEN block[i - aes_i] ELSE f[i]
  BY <1>0, <1>1, <1>3, Written DEF AesShape
<1>5. AesShape'
  BY <1>0, <1>1, <1>2, <1>4 DEF AesShape, JobOK
<1>6. \A p \in Nat : p + S <= aes_i => At(g, p) = At(f, p)
  BY <1>0, <1>2, <1>4 DEF At
<1>7. At(g, aes_i) = block
  <2>1. \A j \in 1..S : g[aes_i + j] = block[j]
    <3> SUFFICES ASSUME NEW j \in 1..S PROVE g[aes_i + j] = block[j]
      BY Zenon
    <3>1. aes_i + j \in 1..L /\ aes_i + j \in aes_i + 1 .. aes_i + S /\ (aes_i + j) - aes_i = j
      BY <1>0, <1>2
    <3> HIDE DEF g, f, block
    <3> QED
      BY <1>4, <3>1, Zenon
  <2>2. block = [j \in 1..S |-> block[j]]
    BY Zenon DEF crypto_aes_encrypt_block
  <2> HIDE DEF g, block
  <2> QED
    BY <2>1, <2>2, Zenon DEF At
<1>8. BlockOf("a") = At(Message, aes_i)
  <2>1. BlockOf("a") = At(mem["a"], aes_i)
    BY <1>0, <1>2, BlockIs, Zenon DEF Buffers
  <2>2. \A j \in 1..S : mem["a"][aes_i + j] = Message[aes_i + j]
    BY <1>0, <1>1, <1>2 DEF CbcInv
  <2> QED
    BY <2>1, <2>2, Zenon DEF At
<1>9. prev_block = Before(f, aes_i)
  BY <1>1, Zenon DEF CbcInv
<1>10. \A p \in Nat : p % S = 0 /\ p <= aes_i => Before(g, p) = Before(f, p)
  <2> SUFFICES ASSUME NEW p \in Nat, p % S = 0, p <= aes_i, p # 0
               PROVE  Before(g, p) = Before(f, p)
    BY Zenon DEF Before
  <2>1. 0 % S = 0
    BY <1>0
  <2>2. p - S \in Nat
    BY <1>0, <2>1, BlockStarts
  <2> QED
    BY <1>0, <1>6, <2>2 DEF Before
<1>11. ASSUME NEW p \in 0..(aes_i + S), p % S = 0, p < aes_i + S
       PROVE  At(g, p) = crypto_aes_encrypt_block(XorBlock(At(Message, p), Before(g, p)))
  <2>0. p \in Nat /\ aes_i % S = 0
    BY <1>0 DEF AesShape
  <2>1. CASE p = aes_i
    BY <1>7, <1>8, <1>9, <1>10, <1>11, <2>0, <2>1
  <2>2. CASE p < aes_i
    <3>1. p + S <= aes_i
      BY <1>0, <1>11, <2>0, <2>2, BlockStarts, Zenon
    <3>2. At(f, p) = crypto_aes_encrypt_block(XorBlock(At(Message, p), Before(f, p)))
      <4>1. Chained(f, aes_i) /\ p \in 0..aes_i
        BY <1>0, <1>1, <2>0, <2>2 DEF CbcInv
      <4> HIDE DEF f
      <4> QED
        BY <1>11, <2>2, <4>1, Zenon DEF Chained
    <3> HIDE DEF f, g
    <3>3. At(g, p) = At(f, p) /\ Before(g, p) = Before(f, p)
      BY <1>0, <1>6, <1>10, <1>11, <2>0, <2>2, <3>1
    <3> QED
      BY <3>2, <3>3, Zenon
  <2>3. CASE p > aes_i
    <3>1. aes_i + S <= p
      BY <1>0, <1>11, <2>0, <2>3, BlockStarts, Zenon
    <3> QED
      BY <1>0, <1>11, <2>0, <3>1
  <2> QED
    BY <1>0, <2>0, <2>1, <2>2, <2>3
<1>12. block = Before(g, aes_i + S)
  BY <1>0, <1>7 DEF Before
<1>13. \A i \in aes_i + S + 1 .. L : mem'["a"][i] = Message[i]
  <2> SUFFICES ASSUME NEW i \in aes_i + S + 1 .. L PROVE mem'["a"][i] = Message[i]
    BY Zenon
  <2>1. mem["a"][i] = Message[i]
    BY <1>0, <1>1 DEF CbcInv
  <2>2. mem'["a"][i] = mem["a"][i]
    BY <1>0, <1>4 DEF Buffers
  <2> QED
    BY <2>1, <2>2, Zenon
<1>14. Message' = Message /\ job'.dst = d /\ job'.len = L
  BY <1>1, Zenon DEF Message
<1>15. Chained(mem[job.dst], aes_i)'
  BY <1>0, <1>1, <1>11, <1>14, Zenon DEF Chained
<1> QED
  BY <1>0, <1>1, <1>2, <1>5, <1>12, <1>13, <1>14, <1>15, Zenon DEF CbcInv

(* A block of CBC decrypted.                                               *)
LEMMA CbcDecryptStep ==
  ASSUME AesShape, CbcInv, CbcDecryptBlock
  PROVE  AesShape' /\ CbcInv'
<1> DEFINE S == AES_BLOCK_SIZE
           L == job.len
           d == job.dst
           o == job.out
           f == mem[d]
           plain == XorBlock(crypto_aes_decrypt_block(BlockOf(d)), prev_block)
<1>0. S \in Nat \ {0} /\ L \in Nat /\ aes_i \in Nat /\ d \in Buffers /\ o \in Buffers /\ L % S = 0
  BY AesAssumption, Zenon DEF AesShape, JobOK, CbcInv, CbcDecryptBlock, Buffers
<1>1. aes_i < L /\ aes_step = "decrypt" /\ aes_step' = aes_step /\ job' = job /\ sealed' = sealed
      /\ aes_i' = aes_i + S /\ prev_block' = Chain /\ PutBlock(o, plain)
  BY Zenon DEF CbcDecryptBlock
<1>2. aes_i + S <= L /\ (aes_i + S) % S = 0 /\ aes_i % S = 0
  BY <1>0, <1>1, BlockStarts, Zenon DEF AesShape
<1>3. Frames' /\ \A b \in Buffers \ {o} : mem'[b] = mem[b]
  BY <1>0, <1>1, Rewritten, Zenon DEF AesShape
<1>4. AesShape'
  BY <1>0, <1>1, <1>2, <1>3 DEF AesShape, JobOK
<1>5. CASE o = d
  BY <1>0, <1>1, <1>2, <1>4, <1>5, Zenon DEF CbcInv
<1>6. CASE o # d
  <2> DEFINE x == XorBlock(At(Message, aes_i), Before(f, aes_i))
  <2>1. mem'[d] = f
    BY <1>0, <1>3, <1>6, Zenon
  <2>2. BlockOf(d) = At(f, aes_i)
    BY <1>0, <1>2, BlockIs, Zenon
  <2>3. At(f, aes_i) = crypto_aes_encrypt_block(x)
    BY <1>0, <1>1, <1>2, <1>6 DEF CbcInv, Chained
  <2>4. crypto_aes_decrypt_block(BlockOf(d)) = x
    BY <2>2, <2>3, DecryptsBlock, Zenon
  <2>5. prev_block = Before(f, aes_i)
    BY <1>1, <1>6, Zenon DEF CbcInv
  <2>6. plain = At(Message, aes_i)
    <3>1. plain = XorBlock(x, Before(f, aes_i))
      BY <2>4, <2>5, Zenon
    <3> QED
      BY <3>1, XorBlockTwice, Zenon
  <2>7. \A i \in 1..L :
          mem'[o][i] = IF i \in aes_i + 1 .. aes_i + S THEN At(Message, aes_i)[i - aes_i] ELSE mem[o][i]
    <3>1. DOMAIN At(Message, aes_i) = 1..S
      BY Zenon DEF At
    <3>2. PutBlock(o, At(Message, aes_i)) /\ JobOK /\ Frames
      BY <1>1, <2>6, Zenon DEF AesShape
    <3> QED
      BY <1>0, <1>1, <3>1, <3>2, Written
  <2>8. \A i \in 1..(aes_i + S) : mem'[o][i] = Message[i]
    <3> SUFFICES ASSUME NEW i \in 1..(aes_i + S) PROVE mem'[o][i] = Message[i]
      BY Zenon
    <3>1. CASE i <= aes_i
      <4>1. mem[o][i] = Message[i]
        BY <1>0, <1>1, <1>6, <3>1 DEF CbcInv
      <4> QED
        BY <1>0, <1>2, <2>7, <3>1, <4>1
    <3>2. CASE i > aes_i
      <4>1. At(Message, aes_i)[i - aes_i] = Message[i]
        BY <1>0, <3>2 DEF At
      <4> QED
        BY <1>0, <1>2, <2>7, <3>2, <4>1
    <3> QED
      BY <1>0, <3>1, <3>2
  <2>9. prev_block' = Before(f, aes_i + S)
    <3>1. prev_block' = BlockOf(d)
      BY <1>1, <2>1, Zenon DEF Chain, BlockOf
    <3> QED
      BY <1>0, <2>2, <3>1 DEF Before
  <2>10. Message' = Message /\ job'.dst = d /\ job'.len = L /\ job'.out = o
    BY <1>1, Zenon DEF Message
  <2>11. Chained(f, L) /\ f = sealed.text
    BY <1>1, <1>6, Zenon DEF CbcInv
  <2>12. Chained(mem[job.dst], job.len)' /\ (mem[job.dst] = sealed.text)'
    BY <1>1, <2>1, <2>10, <2>11, Zenon DEF Chained
  <2> QED
    BY <1>0, <1>1, <1>2, <1>4, <2>1, <2>8, <2>9, <2>10, <2>12, Zenon DEF CbcInv
<1> QED
  BY <1>5, <1>6, Zenon

(* The steps of CBC between the blocks.                                    *)
LEMMA CbcOtherSteps ==
  ASSUME AesShape, CbcInv, job.mode = "cbc",
         Invalid \/ Valid \/ CbcEncryptEnds \/ CbcDecryptEnds
  PROVE  AesShape' /\ CbcInv'
<1> DEFINE S == AES_BLOCK_SIZE
           L == job.len
<1>0. S \in Nat \ {0} /\ L \in Nat /\ aes_i \in Nat /\ job.dst \in Buffers /\ job.out \in Buffers
  BY AesAssumption, Zenon DEF AesShape, JobOK, Buffers
<1>1. CASE Invalid
  BY <1>1, Zenon DEF Invalid, AesShape, JobOK, Frames, Message, CbcInv
<1>2. CASE Valid
  <2>1. mem' = mem /\ job' = job /\ aes_i' = 0 /\ prev_block' = iv /\ aes_step' = "encrypt"
        /\ L % S = 0 /\ mem["a"] = Message
    BY <1>2, Zenon DEF Valid, AesShape
  <2>2. Chained(mem[job.dst], aes_i)'
    BY <1>0, <2>1 DEF Chained
  <2>3. Before(mem[job.dst], aes_i)' = iv /\ iv' = iv /\ Message' = Message
    BY <2>1, Zenon DEF Before, iv, Message
  <2>4. 0 % S = 0
    BY <1>0
  <2>5. AesShape'
    BY <1>0, <2>1, <2>4, Zenon DEF AesShape, JobOK, Frames
  <2> QED
    BY <1>0, <2>1, <2>2, <2>3, <2>4, <2>5 DEF CbcInv
<1>3. CASE CbcEncryptEnds
  <2>1. mem' = mem /\ job' = job /\ aes_i' = 0 /\ prev_block' = iv /\ aes_step' = "decrypt"
        /\ aes_step = "encrypt" /\ sealed'.text = mem[job.dst] /\ aes_i >= L
    BY <1>3, Zenon DEF CbcEncryptEnds
  <2>2. aes_i = L /\ L % S = 0
    BY <1>0, <2>1 DEF CbcInv
  <2>3. Chained(mem[job.dst], job.len)'
    BY <2>1, <2>2, Zenon DEF CbcInv, Chained, Message
  <2>4. Before(mem[job.dst], aes_i)' = iv /\ iv' = iv /\ Message' = Message
    BY <2>1, Zenon DEF Before, iv, Message
  <2>5. 0 % S = 0
    BY <1>0
  <2>6. AesShape'
    BY <1>0, <2>1, <2>5, Zenon DEF AesShape, JobOK, Frames
  <2> QED
    BY <1>0, <2>1, <2>2, <2>3, <2>4, <2>6 DEF CbcInv
<1>4. CASE CbcDecryptEnds
  <2>1. mem' = mem /\ job' = job /\ aes_i' = aes_i /\ aes_step' = "opened" /\ sealed' = sealed
        /\ aes_step = "decrypt" /\ aes_i >= L
    BY <1>4, Zenon DEF CbcDecryptEnds
  <2>2. aes_i = L /\ L % S = 0 /\ Message' = Message
    BY <1>0, <2>1 DEF CbcInv, Message
  <2>3. ASSUME job.out # job.dst PROVE mem[job.out] = Message
    <3>1. \A i \in 1..L : mem[job.out][i] = Message[i]
      BY <2>1, <2>2, <2>3, Zenon DEF CbcInv
    <3>2. Spans(mem[job.out], L)
      BY <1>0, Zenon DEF AesShape, Frames
    <3> QED
      BY <3>1, <3>2, Zenon DEF Spans, Message, Bytes
  <2>4. AesShape'
    BY <2>1, Zenon DEF AesShape, JobOK, Frames
  <2>5. job.out # job.dst => Chained(mem[job.dst], job.len)' /\ (mem[job.dst] = sealed.text)'
    BY <2>1, Zenon DEF CbcInv, Chained, Message
  <2> QED
    BY <2>1, <2>2, <2>3, <2>4, <2>5, Zenon DEF CbcInv
<1> QED
  BY <1>1, <1>2, <1>3, <1>4, Zenon

-----------------------------------------------------------------------------
(* GCM: byte i of the key stream that starts at j0.                        *)
K(j0, i) ==
  {<<"keystream", j0, 1 + (i - 1) \div AES_BLOCK_SIZE,
     i - ((i - 1) \div AES_BLOCK_SIZE) * AES_BLOCK_SIZE>>}

(* The key stream of a block is that of its bytes.                         *)
LEMMA StreamIs ==
  ASSUME aes_i \in Nat, aes_i % AES_BLOCK_SIZE = 0, NEW j0, NEW j \in 1..AES_BLOCK_SIZE
  PROVE  Keystream(j0)[j] = K(j0, aes_i + j)
<1> DEFINE S == AES_BLOCK_SIZE
<1>0. S \in Nat \ {0}
  BY AesAssumption, Zenon
<1>1. (aes_i + j - 1) \div S = aes_i \div S /\ aes_i = (aes_i \div S) * S
  BY BlockStarts, Zenon
<1>2. aes_i + j - aes_i = j
  BY <1>0
<1> QED
  BY <1>1, <1>2 DEF Keystream, K

(* The exclusive or of a block with the key stream.                        *)
LEMMA GcmBlockWrites ==
  ASSUME AesShape, UNCHANGED job, aes_i < job.len, NEW from \in Buffers, NEW to \in Buffers,
         NEW j0, GcmBlock(from, to, j0)
  PROVE  /\ Frames' /\ aes_i' = aes_i + AES_BLOCK_SIZE /\ aes_i' % AES_BLOCK_SIZE = 0
         /\ \A b \in Buffers \ {to} : mem'[b] = mem[b]
         /\ \A i \in 1..job.len :
              mem'[to][i] = IF aes_i < i /\ i <= aes_i + AES_BLOCK_SIZE
                            THEN XorByte(mem[from][i], K(j0, i)) ELSE mem[to][i]
<1> DEFINE S == AES_BLOCK_SIZE
           n == job.len
           a == aes_i
           m == BlockLen
           f == mem[from]
           piece == SubSeq(f, a + 1, a + m)
           block == XorBlock(piece, Keystream(j0))
<1>0. S \in Nat \ {0} /\ n \in Nat /\ a \in Nat /\ a % S = 0 /\ Spans(f, n) /\ JobOK /\ Frames
  BY AesAssumption, Zenon DEF AesShape, JobOK, Frames
<1>1. m \in Nat /\ m <= S /\ a + m <= n /\ (m = S \/ a + m = n)
  BY <1>0 DEF BlockLen
<1>2. aes_i' = a + S /\ PutBlock(to, block)
  BY Zenon DEF GcmBlock
<1>3. (a + S) % S = 0
  BY <1>0, BlockStarts, Zenon
<1>4. piece = [j \in 1..m |-> f[a + j]]
  <2> HIDE DEF f, n, a, m
  <2> QED
    BY <1>0, <1>1, Piece
<1>5. DOMAIN block = 1..m /\ \A j \in 1..m : block[j] = XorByte(f[a + j], K(j0, a + j))
  <2>1. ASSUME NEW j \in 1..m PROVE Keystream(j0)[j] = K(j0, a + j)
    BY <1>0, <1>1, StreamIs
  <2> HIDE DEF f, a, m
  <2> QED
    BY <1>4, <2>1, Zenon DEF XorBlock
<1>6. /\ Frames' /\ \A b \in Buffers \ {to} : mem'[b] = mem[b]
      /\ \A i \in 1..n : mem'[to][i] = IF i \in a + 1 .. a + m THEN block[i - a] ELSE mem[to][i]
  <2> HIDE DEF block, m
  <2> QED
    BY <1>0, <1>1, <1>2, <1>5, Written, SMTT(30)
<1>7. ASSUME NEW i \in 1..n
      PROVE  mem'[to][i] = IF a < i /\ i <= a + S THEN XorByte(f[i], K(j0, i)) ELSE mem[to][i]
  <2>1. CASE i \in a + 1 .. a + m
    <3>1. i - a \in 1..m /\ a + (i - a) = i /\ a < i /\ i <= a + S
      BY <1>0, <1>1, <2>1
    <3>2. block[i - a] = XorByte(f[i], K(j0, i))
      BY <1>5, <3>1, Zenon
    <3> QED
      BY <1>6, <2>1, <3>1, <3>2, Zenon
  <2>2. CASE i \notin a + 1 .. a + m
    BY <1>0, <1>1, <1>6, <2>2
  <2> QED
    BY <2>1, <2>2, Zenon
<1> QED
  BY <1>2, <1>3, <1>6, <1>7, Zenon

(* The encryption keeps the bytes still to be encrypted, the decryption    *)
(* the ciphertext; the second encryption replaces each byte of it by the   *)
(* one the plaintext in temp gives.  Nothing goes to c before the tags are *)
(* compared.                                                               *)
GcmInv ==
  /\ aes_step \in {"call", "encrypt", "decrypt", "again", "opened", "refused"}
  /\ aes_step # "opened" => mem["c"] = Bytes("before", job.len)
  /\ aes_step = "encrypt" =>
       \A i \in 1..job.len :
         /\ i <= aes_i => mem[job.dst][i] = XorByte(Message[i], K(EncryptJ0, i))
         /\ i > aes_i => mem["a"][i] = Message[i]
  /\ aes_step \in {"decrypt", "again"} =>
       /\ Spans(sealed.text, job.len) /\ sealed.tag = Tag(sealed.text)
       /\ \A i \in 1..job.len : sealed.text[i] = XorByte(Message[i], K(EncryptJ0, i))
  /\ aes_step = "decrypt" =>
       /\ mem[job.dst] = sealed.text
       /\ \A i \in 1..job.len : i <= aes_i => mem["temp"][i] = XorByte(sealed.text[i], K(DecryptJ0, i))
  /\ aes_step = "again" =>
       \A i \in 1..job.len :
         /\ mem["temp"][i] = XorByte(sealed.text[i], K(DecryptJ0, i))
         /\ mem[job.dst][i] = IF i <= aes_i THEN XorByte(mem["temp"][i], K(EncryptJ0, i))
                              ELSE sealed.text[i]
  /\ aes_step = "opened" => mem[job.out] = Message
  /\ aes_step = "refused" => job.damaged = TRUE \/ (job.iv12 = FALSE /\ job.len > 0)
  /\ aes_step \in {"opened", "refused"} /\ job.out = "c" /\ job.iv12 = TRUE =>
       mem[job.dst] = sealed.text

(* The buffer an encryption reads.                                         *)
From(b) == (b = "a" /\ aes_step = "encrypt") \/ (b = "temp" /\ aes_step = "again")

(* A block of GCM encrypted, in either call.                               *)
LEMMA GcmEncryptStep ==
  ASSUME AesShape, GcmInv, GcmEncryptBlock
  PROVE  AesShape' /\ GcmInv'
<1> DEFINE S == AES_BLOCK_SIZE
           n == job.len
           a == aes_i
           d == job.dst
<1>0. S \in Nat \ {0} /\ n \in Nat /\ a \in Nat /\ a < n /\ d \in {"a", "b"} /\ JobOK
  BY AesAssumption, Zenon DEF AesShape, JobOK, GcmEncryptBlock
<1>1. job' = job /\ aes_step' = aes_step /\ sealed' = sealed /\ aes_step # "call"
  BY Zenon DEF GcmEncryptBlock
<1>2. PICK from \in {"a", "temp"} : GcmBlock(from, d, EncryptJ0) /\ From(from)
  <2>1. CASE aes_step = "encrypt" /\ GcmBlock("a", d, EncryptJ0)
    BY <2>1, Zenon DEF From
  <2>2. CASE aes_step = "again" /\ GcmBlock("temp", d, EncryptJ0)
    BY <2>2, Zenon DEF From
  <2> QED
    BY <2>1, <2>2, Zenon DEF GcmEncryptBlock
<1>3. from \in Buffers /\ d \in Buffers
  BY <1>0, Zenon DEF Buffers
<1>4. /\ Frames' /\ aes_i' = a + S /\ aes_i' % S = 0
      /\ \A b \in Buffers \ {d} : mem'[b] = mem[b]
      /\ \A i \in 1..n : mem'[d][i] = IF a < i /\ i <= a + S
                                      THEN XorByte(mem[from][i], K(EncryptJ0, i)) ELSE mem[d][i]
  BY <1>0, <1>1, <1>2, <1>3, GcmBlockWrites
<1>5. mem'["c"] = mem["c"] /\ mem'["temp"] = mem["temp"] /\ (d # "a" => mem'["a"] = mem["a"])
  BY <1>0, <1>4, Zenon DEF Buffers
<1>6. AesShape'
  BY <1>0, <1>1, <1>4 DEF AesShape, JobOK
<1>7. Message' = Message /\ EncryptJ0' = EncryptJ0 /\ DecryptJ0' = DecryptJ0
      /\ \A text : Tag(text)' = Tag(text)
  BY <1>1, Zenon DEF Message, EncryptJ0, DecryptJ0, Tag
<1>8. CASE aes_step = "encrypt"
  <2>1. from = "a"
    BY <1>2, <1>8, Zenon DEF From
  <2>2. ASSUME NEW i \in 1..n
        PROVE  /\ i <= a + S => mem'[d][i] = XorByte(Message[i], K(EncryptJ0, i))
               /\ i > a + S => mem'["a"][i] = Message[i]
    <3>1. /\ i <= a => mem[d][i] = XorByte(Message[i], K(EncryptJ0, i))
          /\ i > a => mem["a"][i] = Message[i]
      BY <1>8, Zenon DEF GcmInv
    <3>2. CASE i <= a
      BY <1>0, <1>4, <3>1, <3>2
    <3>3. CASE i > a /\ i <= a + S
      BY <1>0, <1>4, <2>1, <3>1, <3>3
    <3>4. CASE i > a + S
      <4>1. mem'["a"][i] = mem["a"][i]
        BY <1>0, <1>4, <1>5, <3>4, SMTT(20)
      <4> QED
        BY <1>0, <3>1, <3>4, <4>1
    <3> QED
      BY <1>0, <3>2, <3>3, <3>4
  <2> QED
    BY <1>1, <1>4, <1>5, <1>6, <1>7, <1>8, <2>2, Zenon DEF GcmInv
<1>9. CASE aes_step = "again"
  <2>1. from = "temp"
    BY <1>2, <1>9, Zenon DEF From
  <2>2. ASSUME NEW i \in 1..n
        PROVE  mem'[d][i] = IF i <= a + S THEN XorByte(mem'["temp"][i], K(EncryptJ0, i))
                            ELSE sealed.text[i]
    <3>1. mem[d][i] = IF i <= a THEN XorByte(mem["temp"][i], K(EncryptJ0, i)) ELSE sealed.text[i]
      BY <1>9, Zenon DEF GcmInv
    <3> QED
      BY <1>0, <1>4, <1>5, <2>1, <3>1
  <2>3. \A i \in 1..n : mem'["temp"][i] = XorByte(sealed.text[i], K(DecryptJ0, i))
    BY <1>5, <1>9, Zenon DEF GcmInv
  <2>4. Spans(sealed.text, n) /\ sealed.tag = Tag(sealed.text)
        /\ \A i \in 1..n : sealed.text[i] = XorByte(Message[i], K(EncryptJ0, i))
    BY <1>9, Zenon DEF GcmInv
  <2>5. mem["c"] = Bytes("before", n)
    BY <1>9, Zenon DEF GcmInv
  <2> QED
    BY <1>1, <1>4, <1>5, <1>6, <1>7, <1>9, <2>2, <2>3, <2>4, <2>5, SMTT(60) DEF GcmInv, Tag, EncryptJ0
<1> QED
  BY <1>2, <1>8, <1>9, Zenon DEF From

(* A block of GCM decrypted.                                               *)
LEMMA GcmDecryptStep ==
  ASSUME AesShape, GcmInv, GcmDecryptBlock
  PROVE  AesShape' /\ GcmInv'
<1> DEFINE S == AES_BLOCK_SIZE
           n == job.len
           a == aes_i
           d == job.dst
<1>0. S \in Nat \ {0} /\ n \in Nat /\ a \in Nat /\ a < n /\ d \in {"a", "b"} /\ JobOK
  BY AesAssumption, Zenon DEF AesShape, JobOK, GcmDecryptBlock
<1>1. job' = job /\ aes_step' = aes_step /\ sealed' = sealed /\ aes_step = "decrypt"
      /\ GcmBlock(d, "temp", DecryptJ0)
  BY Zenon DEF GcmDecryptBlock
<1>2. "temp" \in Buffers /\ d \in Buffers
  BY <1>0, Zenon DEF Buffers
<1>3. /\ Frames' /\ aes_i' = a + S /\ aes_i' % S = 0
      /\ \A b \in Buffers \ {"temp"} : mem'[b] = mem[b]
      /\ \A i \in 1..n : mem'["temp"][i] = IF a < i /\ i <= a + S
                                           THEN XorByte(mem[d][i], K(DecryptJ0, i))
                                           ELSE mem["temp"][i]
  BY <1>0, <1>1, <1>2, GcmBlockWrites
<1>4. mem'["c"] = mem["c"] /\ mem'[d] = mem[d]
  BY <1>0, <1>3, Zenon DEF Buffers
<1>5. AesShape'
  BY <1>0, <1>1, <1>3 DEF AesShape, JobOK
<1>6. Message' = Message /\ EncryptJ0' = EncryptJ0 /\ DecryptJ0' = DecryptJ0
  BY <1>1, Zenon DEF Message, EncryptJ0, DecryptJ0
<1>7. /\ mem[d] = sealed.text /\ Spans(sealed.text, n) /\ sealed.tag = Tag(sealed.text)
      /\ \A i \in 1..n : sealed.text[i] = XorByte(Message[i], K(EncryptJ0, i))
      /\ \A i \in 1..n : i <= a => mem["temp"][i] = XorByte(sealed.text[i], K(DecryptJ0, i))
      /\ mem["c"] = Bytes("before", n)
  BY <1>1, Zenon DEF GcmInv
<1>8. ASSUME NEW i \in 1..n, i <= a + S
      PROVE  mem'["temp"][i] = XorByte(sealed.text[i], K(DecryptJ0, i))
  BY <1>0, <1>3, <1>7, <1>8
<1> QED
  BY <1>1, <1>3, <1>4, <1>5, <1>6, <1>7, <1>8, SMTT(60) DEF GcmInv, Tag, EncryptJ0

(* The ciphertext is complete.                                             *)
LEMMA GcmEncryptionEnds ==
  ASSUME AesShape, GcmInv, GcmEncryptEnds
  PROVE  AesShape' /\ GcmInv'
<1> DEFINE S == AES_BLOCK_SIZE
           n == job.len
           text == mem[job.dst]
<1>0. S \in Nat \ {0} /\ n \in Nat /\ aes_i \in Nat /\ job.dst \in Buffers
  BY AesAssumption, Zenon DEF AesShape, JobOK, Buffers
<1>1. /\ aes_step = "encrypt" /\ aes_i >= n /\ aes_step' = "decrypt" /\ aes_i' = 0
      /\ job' = job /\ mem' = mem /\ sealed'.text = text /\ sealed'.tag = Tag(text)
  BY Zenon DEF GcmEncryptEnds
<1>2. 0 % S = 0
  BY <1>0
<1>3. AesShape'
  BY <1>1, <1>2, Zenon DEF AesShape, JobOK, Frames
<1>4. Spans(text, n)
  BY <1>0, Zenon DEF AesShape, Frames
<1>5. \A i \in 1..n : text[i] = XorByte(Message[i], K(EncryptJ0, i))
  BY <1>0, <1>1 DEF GcmInv
<1>6. Message' = Message /\ EncryptJ0' = EncryptJ0
  BY <1>1, Zenon DEF Message, EncryptJ0
<1>7. Tag(sealed.text)' = Tag(text)
  BY <1>1, <1>6, Zenon DEF Tag
<1>8. mem["c"] = Bytes("before", n)
  BY <1>1, Zenon DEF GcmInv
<1>9. \A i \in 1..n : ~(i <= 0)
  BY <1>0
<1> QED
  BY <1>1, <1>3, <1>4, <1>5, <1>6, <1>7, <1>8, <1>9, Zenon DEF GcmInv

(* The plaintext is complete, in temp.                                     *)
LEMMA GcmDecryptionEnds ==
  ASSUME AesShape, GcmInv, GcmDecryptEnds
  PROVE  AesShape' /\ GcmInv'
<1> DEFINE S == AES_BLOCK_SIZE
           n == job.len
<1>0. S \in Nat \ {0} /\ n \in Nat /\ aes_i \in Nat
  BY AesAssumption, Zenon DEF AesShape, JobOK
<1>1. /\ aes_step = "decrypt" /\ aes_i >= n /\ aes_step' = "again" /\ aes_i' = 0
      /\ job' = job /\ mem' = mem /\ sealed' = sealed
  BY Zenon DEF GcmDecryptEnds
<1>2. 0 % S = 0
  BY <1>0
<1>3. AesShape'
  BY <1>1, <1>2, Zenon DEF AesShape, JobOK, Frames
<1>4. Message' = Message /\ EncryptJ0' = EncryptJ0 /\ DecryptJ0' = DecryptJ0
      /\ Tag(sealed.text)' = Tag(sealed.text)
  BY <1>1, Zenon DEF Message, EncryptJ0, DecryptJ0, Tag
<1>5. \A i \in 1..n : mem["temp"][i] = XorByte(sealed.text[i], K(DecryptJ0, i))
  BY <1>0, <1>1 DEF GcmInv
<1>6. \A i \in 1..n : mem[job.dst][i] = sealed.text[i] /\ ~(i <= 0)
  BY <1>0, <1>1 DEF GcmInv
<1>7. /\ Spans(sealed.text, n) /\ sealed.tag = Tag(sealed.text)
      /\ \A i \in 1..n : sealed.text[i] = XorByte(Message[i], K(EncryptJ0, i))
      /\ mem["c"] = Bytes("before", n)
  BY <1>1, Zenon DEF GcmInv
<1> QED
  BY <1>1, <1>3, <1>4, <1>5, <1>6, <1>7, Zenon DEF GcmInv

(* Two buffers with the same bytes.                                        *)
LEMMA SameBytes ==
  ASSUME NEW n, NEW f, NEW g, Spans(f, n), Spans(g, n), \A i \in 1..n : f[i] = g[i]
  PROVE  f = g
<1>1. [i \in 1..n |-> f[i]] = [i \in 1..n |-> g[i]]
  BY Zenon
<1> QED
  BY <1>1, Zenon DEF Spans

(* With a vector of twelve bytes the second encryption makes the           *)
(* ciphertext again, and temp holds the message.                           *)
LEMMA SameVector ==
  ASSUME AesShape, GcmInv, aes_step = "again", aes_i >= job.len, job.iv12 = TRUE
  PROVE  mem["temp"] = Message /\ mem[job.dst] = sealed.text
<1> DEFINE n == job.len
<1>0. n \in Nat /\ aes_i \in Nat /\ job.dst \in Buffers /\ "temp" \in Buffers
  BY Zenon DEF AesShape, JobOK, Buffers
<1>1. EncryptJ0 = DecryptJ0
  BY Zenon DEF EncryptJ0, DecryptJ0
<1>2. ASSUME NEW i \in 1..n PROVE mem["temp"][i] = Message[i] /\ mem[job.dst][i] = sealed.text[i]
  <2>1. /\ sealed.text[i] = XorByte(Message[i], K(EncryptJ0, i))
        /\ mem["temp"][i] = XorByte(sealed.text[i], K(EncryptJ0, i))
        /\ mem[job.dst][i] = XorByte(mem["temp"][i], K(EncryptJ0, i))
    BY <1>0, <1>1 DEF GcmInv
  <2>2. mem["temp"][i] = Message[i]
    BY <2>1, XorTwice, Zenon
  <2> QED
    BY <2>1, <2>2, Zenon
<1>3. Spans(mem["temp"], n) /\ Spans(mem[job.dst], n) /\ Spans(sealed.text, n) /\ Spans(Message, n)
  BY <1>0, Zenon DEF AesShape, Frames, GcmInv, Spans, Message, Bytes
<1> QED
  BY <1>2, <1>3, SameBytes, Zenon

(* With another one it makes something else, unless there is nothing.      *)
LEMMA OtherVector ==
  ASSUME AesShape, GcmInv, aes_step = "again", aes_i >= job.len, job.iv12 = FALSE
  PROVE  IF job.len = 0 THEN mem["temp"] = Message /\ mem[job.dst] = sealed.text
         ELSE mem[job.dst] # sealed.text
<1> DEFINE n == job.len
<1>0. n \in Nat /\ aes_i \in Nat /\ job.dst \in Buffers /\ "temp" \in Buffers
  BY Zenon DEF AesShape, JobOK, Buffers
<1>1. EncryptJ0 = "ghash_iv" /\ DecryptJ0 = "zero"
  BY Zenon DEF EncryptJ0, DecryptJ0
<1>2. Spans(mem["temp"], n) /\ Spans(mem[job.dst], n) /\ Spans(sealed.text, n) /\ Spans(Message, n)
  BY <1>0, Zenon DEF AesShape, Frames, GcmInv, Spans, Message, Bytes
<1>3. CASE n = 0
  <2>1. \A i \in 1..n : FALSE
    BY <1>3
  <2>2. mem["temp"] = Message /\ mem[job.dst] = sealed.text
    BY <1>2, <2>1, SameBytes, Zenon
  <2> QED
    BY <1>3, <2>2, Zenon
<1>4. CASE n # 0
  <2>1. 1 \in 1..n
    BY <1>0, <1>4
  <2>2. /\ sealed.text[1] = XorByte(Message[1], K("ghash_iv", 1))
        /\ mem["temp"][1] = XorByte(sealed.text[1], K("zero", 1))
        /\ mem[job.dst][1] = XorByte(mem["temp"][1], K("ghash_iv", 1))
    BY <1>0, <1>1, <2>1 DEF GcmInv
  <2>3. mem[job.dst][1] = XorByte(Message[1], K("zero", 1))
    BY <2>2, XorSkips
  <2>4. ASSUME mem[job.dst] = sealed.text PROVE FALSE
    <3>1. K("zero", 1) = K("ghash_iv", 1)
      BY <2>2, <2>3, <2>4, XorTells
    <3> DEFINE t(j0) == <<"keystream", j0, 1 + (1 - 1) \div AES_BLOCK_SIZE,
                          1 - ((1 - 1) \div AES_BLOCK_SIZE) * AES_BLOCK_SIZE>>
    <3>2. t("zero") \in K("zero", 1) /\ \A x \in K("ghash_iv", 1) : x = t("ghash_iv")
      BY Zenon DEF K
    <3>3. t("zero") = t("ghash_iv")
      BY <3>1, <3>2, Zenon
    <3>4. t("zero")[2] = "zero" /\ t("ghash_iv")[2] = "ghash_iv"
      BY Zenon
    <3> HIDE DEF t
    <3> QED
      BY <3>3, <3>4, Zenon
  <2> QED
    BY <1>4, <2>4, Zenon
<1> QED
  BY <1>3, <1>4, Zenon

(* The tags are compared.                                                  *)
LEMMA TagStep ==
  ASSUME AesShape, GcmInv, VerifyTag
  PROVE  AesShape' /\ GcmInv'
<1> DEFINE n == job.len
<1>0. n \in Nat /\ job.dst \in {"a", "b"} /\ job.out \in {job.dst, "c"} /\ job.out \in Buffers
      /\ job.iv12 \in BOOLEAN /\ job.damaged \in BOOLEAN /\ "temp" \in Buffers /\ job.dst \in Buffers
  BY Zenon DEF AesShape, JobOK, Buffers
<1>1. /\ aes_step = "again" /\ aes_i >= n /\ aes_i' = aes_i
      /\ job' = job /\ sealed' = sealed
  BY Zenon DEF VerifyTag
<1>2. Message' = Message
  BY <1>1, Zenon DEF Message
<1>3. sealed.tag = Tag(sealed.text) /\ mem["c"] = Bytes("before", n)
  BY <1>1, Zenon DEF GcmInv
<1>4. Tag(mem[job.dst]) = sealed.tag <=> mem[job.dst] = sealed.text
  <2>1. \A x, y : Tag(x) = Tag(y) => x = y
    BY Zenon DEF Tag
  <2> QED
    BY <1>3, <2>1, Zenon
<1>5. CASE job.damaged = FALSE /\ Tag(mem[job.dst]) = sealed.tag
  <2>1. aes_step' = "opened" /\ mem' = [mem EXCEPT ![job.out] = mem["temp"]]
    BY <1>5, Zenon DEF VerifyTag
  <2>2. mem[job.dst] = sealed.text
    BY <1>4, <1>5, Zenon
  <2>3. mem["temp"] = Message
    <3>1. CASE job.iv12 = TRUE
      BY <1>1, <3>1, SameVector, Zenon
    <3>2. CASE job.iv12 = FALSE
      BY <1>1, <2>2, <3>2, OtherVector, Zenon
    <3> QED
      BY <1>0, <3>1, <3>2, Zenon
  <2>4. mem = [b \in Buffers |-> mem[b]] /\ \A b \in Buffers : Spans(mem[b], n)
    BY Zenon DEF AesShape, Frames
  <2>5. mem'[job.out] = mem["temp"] /\ \A b \in Buffers \ {job.out} : mem'[b] = mem[b]
    BY <1>0, <2>1, <2>4, Zenon
  <2>6. mem' = [b \in Buffers |-> mem'[b]]
    BY <1>0, <2>1, <2>4, Zenon
  <2>7. \A b \in Buffers : Spans(mem'[b], n)
    <3> SUFFICES ASSUME NEW b \in Buffers PROVE Spans(mem'[b], n)
      BY Zenon
    <3>1. CASE b = job.out
      BY <1>0, <2>4, <2>5, <3>1, Zenon
    <3>2. CASE b # job.out
      BY <2>4, <2>5, <3>2, Zenon
    <3> QED
      BY <3>1, <3>2, Zenon
  <2>8. AesShape'
    BY <1>1, <2>1, <2>6, <2>7, Zenon DEF AesShape, JobOK, Frames
  <2>9. job.out = "c" => mem'[job.dst] = sealed.text
    BY <1>0, <2>2, <2>5, Zenon
  <2> QED
    BY <1>1, <1>2, <2>1, <2>3, <2>5, <2>8, <2>9, Zenon DEF GcmInv
<1>6. CASE ~(job.damaged = FALSE /\ Tag(mem[job.dst]) = sealed.tag)
  <2>1. aes_step' = "refused" /\ mem' = mem
    BY <1>0, <1>6, Zenon DEF VerifyTag
  <2>2. job.damaged = TRUE \/ mem[job.dst] # sealed.text
    BY <1>0, <1>4, <1>6, Zenon
  <2>3. job.iv12 = TRUE => mem[job.dst] = sealed.text
    BY <1>1, SameVector, Zenon
  <2>4. job.damaged = TRUE \/ (job.iv12 = FALSE /\ n > 0)
    <3>1. CASE job.damaged = TRUE
      BY <3>1, Zenon
    <3>2. CASE mem[job.dst] # sealed.text
      <4>1. job.iv12 = FALSE
        BY <1>0, <2>3, <3>2, Zenon
      <4>2. n # 0
        BY <1>1, <3>2, <4>1, OtherVector, Zenon
      <4> QED
        BY <1>0, <4>1, <4>2
    <3> QED
      BY <2>2, <3>1, <3>2, Zenon
  <2>5. AesShape'
    BY <1>1, <2>1, Zenon DEF AesShape, JobOK, Frames
  <2> QED
    BY <1>1, <1>3, <2>1, <2>3, <2>4, <2>5, Zenon DEF GcmInv
<1> QED
  BY <1>5, <1>6, Zenon

(* A call of GCM begins.                                                   *)
LEMMA GcmValid ==
  ASSUME AesShape, GcmInv, Valid
  PROVE  AesShape' /\ GcmInv'
<1>1. mem' = mem /\ job' = job /\ aes_i' = aes_i /\ aes_i = 0
      /\ aes_step' = "encrypt" /\ aes_step = "call"
      /\ mem["a"] = Message /\ mem["c"] = Bytes("before", job.len) /\ job.len \in Nat
  BY Zenon DEF Valid, AesShape, JobOK
<1>2. AesShape'
  BY <1>1, Zenon DEF AesShape, JobOK, Frames
<1>3. \A i \in 1..job.len : ~(i <= 0)
  BY <1>1
<1>4. Message' = Message
  BY <1>1, Zenon DEF Message
<1> QED
  BY <1>1, <1>2, <1>3, <1>4, Zenon DEF GcmInv

(* In either mode.                                                         *)
AesInv == AesShape /\ (job.mode = "cbc" => CbcInv) /\ (job.mode = "gcm" => GcmInv)

(* The invariant holds before a call.                                      *)
LEMMA AesInitInv == AesInit => AesInv
<1> SUFFICES ASSUME AesInit PROVE AesInv
  BY Zenon
<1>0. AES_BLOCK_SIZE \in Nat \ {0} /\ MAX_MESSAGE_SIZE \in Nat
  BY AesAssumption, Zenon
<1>1. aes_step = "call" /\ aes_i = 0 /\ prev_block = iv /\ 0 % AES_BLOCK_SIZE = 0
  BY <1>0 DEF AesInit
<1>2. JobOK
  <2>1. /\ job.mode \in {"cbc", "gcm"} /\ job.len \in 0..MAX_MESSAGE_SIZE
        /\ job.dst \in {"a", "b"} /\ job.out \in {job.dst, "c"}
        /\ job.iv12 \in BOOLEAN /\ job.damaged \in BOOLEAN
    BY Zenon DEF AesInit
  <2>2. job.mode = "cbc" => job.iv12 = TRUE
    BY <2>1, Zenon DEF AesInit
  <2> QED
    BY <1>0, <2>1, <2>2 DEF JobOK
<1>3. mem = [b \in Buffers |-> IF b = "a" THEN Message ELSE Bytes("before", job.len)]
  BY Zenon DEF AesInit, Buffers
<1>4. Spans(Message, job.len) /\ Spans(Bytes("before", job.len), job.len)
  BY Zenon DEF Spans, Message, Bytes
<1>5. \A b \in Buffers : mem[b] = IF b = "a" THEN Message ELSE Bytes("before", job.len)
  BY <1>3, Zenon
<1>6. Frames
  BY <1>3, <1>4, <1>5, Zenon DEF Frames
<1>7. mem["a"] = Message /\ mem["c"] = Bytes("before", job.len)
  BY <1>5, Zenon DEF Buffers
<1>8. AesShape
  BY <1>1, <1>2, <1>6, <1>7, Zenon DEF AesShape
<1>9. CbcInv /\ GcmInv
  BY <1>1, <1>7, Zenon DEF CbcInv, GcmInv
<1> QED
  BY <1>8, <1>9, Zenon DEF AesInv

(* Every step keeps the invariant.                                         *)
LEMMA AesStepInv == AesInv /\ [AesNext]_aesVars => AesInv'
<1> SUFFICES ASSUME AesInv, [AesNext]_aesVars PROVE AesInv'
  BY Zenon
<1>0. AesShape /\ job.mode \in {"cbc", "gcm"}
  BY Zenon DEF AesInv, AesShape, JobOK
<1>1. CASE UNCHANGED aesVars
  <2>1. /\ aes_step' = aes_step /\ job' = job /\ mem' = mem /\ aes_i' = aes_i
        /\ prev_block' = prev_block /\ sealed' = sealed
    BY <1>1, Zenon DEF aesVars
  <2>2. Message' = Message /\ EncryptJ0' = EncryptJ0 /\ DecryptJ0' = DecryptJ0
    BY <2>1, Zenon DEF Message, EncryptJ0, DecryptJ0
  <2>3. AesShape'
    BY <1>0, <2>1, <2>2, Zenon DEF AesShape, JobOK, Frames
  <2>4. CbcInv' <=> CbcInv
    BY <2>1, <2>2, Zenon DEF CbcInv, Chained
  <2>5. GcmInv' <=> GcmInv
    BY <2>1, <2>2, Zenon DEF GcmInv, Tag
  <2> QED
    BY <2>1, <2>3, <2>4, <2>5, Zenon DEF AesInv
<1>2. CASE AesNext /\ job.mode = "cbc"
  <2>1. CbcInv
    BY <1>2, Zenon DEF AesInv
  <2>2. \/ Invalid \/ Valid \/ CbcEncryptEnds \/ CbcDecryptEnds
        \/ CbcEncryptBlock \/ CbcDecryptBlock
    BY <1>2, Zenon DEF AesNext, GcmEncryptBlock, GcmEncryptEnds, GcmDecryptBlock, GcmDecryptEnds, VerifyTag
  <2>3. AesShape' /\ CbcInv'
    BY <1>0, <1>2, <2>1, <2>2, CbcOtherSteps, CbcEncryptStep, CbcDecryptStep, Zenon
  <2>4. job'.mode = "cbc"
    BY <1>2, <2>2, Zenon DEF Invalid, Valid, CbcEncryptEnds, CbcDecryptEnds, CbcEncryptBlock, CbcDecryptBlock
  <2> QED
    BY <2>3, <2>4, Zenon DEF AesInv
<1>3. CASE AesNext /\ job.mode = "gcm"
  <2>1. GcmInv
    BY <1>3, Zenon DEF AesInv
  <2>2. \/ Valid \/ GcmEncryptBlock \/ GcmEncryptEnds
        \/ GcmDecryptBlock \/ GcmDecryptEnds \/ VerifyTag
    BY <1>3, Zenon DEF AesNext, Invalid, CbcEncryptBlock, CbcEncryptEnds, CbcDecryptBlock, CbcDecryptEnds
  <2>3. AesShape' /\ GcmInv'
    BY <1>0, <2>1, <2>2, GcmValid, GcmEncryptStep, GcmEncryptionEnds, GcmDecryptStep,
       GcmDecryptionEnds, TagStep, Zenon
  <2>4. job'.mode = "gcm"
    BY <1>3, <2>2, Zenon DEF Valid, GcmEncryptBlock, GcmEncryptEnds, GcmDecryptBlock, GcmDecryptEnds, VerifyTag
  <2> QED
    BY <2>3, <2>4, Zenon DEF AesInv
<1> QED
  BY <1>0, <1>1, <1>2, <1>3, Zenon

(* The invariant gives what the caller is promised.                        *)
LEMMA AesInvGives == AesInv => RoundTrip
<1> SUFFICES ASSUME AesInv PROVE RoundTrip
  BY Zenon
<1>0. JobOK /\ job.mode \in {"cbc", "gcm"} /\ job.out \in {job.dst, "c"} /\ job.dst \in {"a", "b"}
      /\ job.iv12 \in BOOLEAN
  BY Zenon DEF AesInv, AesShape, JobOK
<1>1. CASE job.mode = "cbc"
  <2>1. CbcInv
    BY <1>1, Zenon DEF AesInv
  <2>2. aes_step # "refused"
    BY <2>1, Zenon DEF CbcInv
  <2>3. aes_step = "opened" /\ ~Overwritten => mem[job.out] = Message
    BY <1>1, <2>1, Zenon DEF CbcInv, Overwritten
  <2>4. aes_step = "opened" /\ job.out = "c" => mem[job.dst] = sealed.text
    BY <1>0, <2>1, Zenon DEF CbcInv
  <2> QED
    BY <2>2, <2>3, <2>4, Zenon DEF RoundTrip
<1>2. CASE job.mode = "gcm"
  <2>1. GcmInv
    BY <1>2, Zenon DEF AesInv
  <2>2. aes_step = "opened" => mem[job.out] = Message
    BY <2>1, Zenon DEF GcmInv
  <2>3. aes_step = "refused" => job.damaged \/ (~job.iv12 /\ job.len > 0)
    BY <2>1, Zenon DEF GcmInv
  <2>4. aes_step = "refused" => mem["c"] = Bytes("before", job.len)
    BY <2>1, Zenon DEF GcmInv
  <2>5. aes_step \in {"opened", "refused"} /\ job.out = "c" /\ job.iv12 => mem[job.dst] = sealed.text
    BY <1>0, <2>1, Zenon DEF GcmInv
  <2> QED
    BY <1>2, <2>2, <2>3, <2>4, <2>5, Zenon DEF RoundTrip
<1> QED
  BY <1>0, <1>1, <1>2, Zenon

(* What aes.c encrypts it decrypts again, for every block size and every   *)
(* length of the message: with CBC into another buffer, with GCM and a     *)
(* vector of twelve bytes in place too; a refusal writes nothing to the    *)
(* output, and the ciphertext is written once more with its own bytes.     *)
THEOREM RoundTripCorrect == AesSpec => []RoundTrip
<1> QED
  BY AesInitInv, AesStepInv, AesInvGives, PTL DEF AesSpec
-----------------------------------------------------------------------------
(* The library.                                                            *)

\* Whoever holds the library is counted.
CountInv ==
  /\ bh_init_count \in Nat /\ bh_init_count = Cardinality(holders) /\ IsFiniteSet(holders)
  /\ bh_initialized \in BOOLEAN /\ (bh_initialized <=> bh_init_count > 0)
  /\ bh_initialized => bh_system_table # "none"

Moves ==
  [kind : {"none", "copy", "set", "string"}, dest : Nat, src : Nat, size : Nat, i : Nat]

Memory0 == [0..(CELLS - 1) -> Nat]

\* The places from d on below d + n.
Within(k, d, n) == d <= k /\ k < d + n

\* Memory x is memory b after a copy to d from s of the first n places, or of the
\* last ones of size from the n-th on.
CopiedUp(x, b, d, s, n) ==
  \A k \in 0..(CELLS - 1) : x[k] = IF Within(k, d, n) THEN b[k - d + s] ELSE b[k]

CopiedDown(x, b, d, s, n, size) ==
  \A k \in 0..(CELLS - 1) : x[k] = IF Within(k, d + n, size - n) THEN b[k - d + s] ELSE b[k]

Filled(x, b, d, v, n) ==
  \A k \in 0..(CELLS - 1) : x[k] = IF Within(k, d, n) THEN v ELSE b[k]

\* Nothing but n places from d on was written.
Kept(x, b, d, n) == \A k \in 0..(CELLS - 1) : ~Within(k, d, n) => x[k] = b[k]

\* The n places from d on hold characters of the string at s.
Characters(x, b, d, s, n) ==
  \A k \in 0..(CELLS - 1) : Within(k, d, n) => x[k] = b[k - d + s] /\ x[k] # 0

\* The buffer of size places at d holds a string that ends in it, as far as it
\* goes that at s, and the place behind the last character tells if it is complete.
Terminated(x, b, d, s, n, size) ==
  /\ \E k \in d .. (d + size - 1) :
       x[k] = 0 /\ \A j \in d .. (k - 1) : x[j] = b[j - d + s]
  /\ x[s + n] = 0 <=> \E k \in d .. (d + size - 1) : b[k - d + s] = 0

\* What has been moved, and that the rest is as it was.
MoveInv ==
  /\ bytes \in Memory0 /\ before \in Memory0
  /\ move \in Moves
  /\ move.kind # "none" =>
       /\ moved.kind = "none" /\ move.i <= move.size
       /\ move.dest + move.size <= CELLS /\ move.src + move.size <= CELLS
  /\ move.kind = "copy" =>
       IF move.dest < move.src
       THEN CopiedUp(bytes, before, move.dest, move.src, move.i)
       ELSE CopiedDown(bytes, before, move.dest, move.src, move.i, move.size)
  /\ move.kind = "set" => Filled(bytes, before, move.dest, move.src, move.i)
  /\ move.kind = "string" =>
       /\ move.i < move.size \/ move.size = 0
       /\ Kept(bytes, before, move.dest, move.i)
       /\ Apart(move) => Characters(bytes, before, move.dest, move.src, move.i)
  /\ MovesExact

-----------------------------------------------------------------------------
(* The library: its moves.                                                 *)

\* Before the first move memory is as it was.
LEMMA MoveInitInv == LibInit => MoveInv
<1> SUFFICES ASSUME LibInit PROVE MoveInv
  OBVIOUS
<1>1. bytes \in Memory0 /\ before = bytes
  BY LibAssumption DEF LibInit, Memory0
<1>2. move = NoMove /\ moved.kind = "none"
  BY Zenon DEF LibInit, Returned, NoMove
<1> QED
  BY <1>1, <1>2, Zenon DEF MoveInv, Moves, NoMove, MovesExact

\* A move begins with nothing done.
LEMMA MoveBegins ==
  ASSUME MoveInv, NEW kind \in {"copy", "set", "string"},
         NEW dest \in 0..(CELLS - 1), NEW src \in 0..(CELLS - 1), NEW size \in 0..CELLS,
         NEW n \in Nat, n = IF kind = "copy" /\ ~(dest < src) THEN size ELSE 0,
         Begin(kind, dest, src, size, n)
  PROVE  MoveInv'
<1>1. move' = [kind |-> kind, dest |-> dest, src |-> src, size |-> size, i |-> n]
  BY Zenon DEF Begin
<1>2. /\ dest + size <= CELLS /\ src + size <= CELLS /\ before' = bytes
      /\ bytes' = bytes /\ moved' = moved /\ moved.kind = "none"
  BY Zenon DEF Begin
<1>3. /\ move'.kind = kind /\ move'.dest = dest /\ move'.src = src /\ move'.size = size
      /\ move'.i = n
  BY <1>1, Zenon
<1>4. dest \in Nat /\ src \in Nat /\ size \in Nat
  BY LibAssumption
<1>5. move' \in Moves
  BY <1>1, <1>4, Zenon DEF Moves
<1>6. n <= size /\ (kind = "string" => n < size \/ size = 0)
  BY <1>4
<1>7. MovesExact'
  BY <1>2, Zenon DEF MovesExact
<1>8. bytes \in Memory0
  BY Zenon DEF MoveInv
<1>9. /\ CopiedUp(bytes, bytes, dest, src, 0) /\ CopiedDown(bytes, bytes, dest, src, size, size)
      /\ Filled(bytes, bytes, dest, src, 0) /\ Kept(bytes, bytes, dest, 0)
      /\ Characters(bytes, bytes, dest, src, 0)
  BY <1>4, <1>8, LibAssumption
     DEF CopiedUp, CopiedDown, Filled, Kept, Characters, Within, Memory0
<1> QED
  BY <1>2, <1>3, <1>5, <1>6, <1>7, <1>8, <1>9, Zenon DEF MoveInv

\* The types of a move that is under way.
LEMMA MoveType ==
  ASSUME MoveInv, move.kind # "none"
  PROVE  /\ CELLS \in Nat /\ move.dest \in Nat /\ move.src \in Nat /\ move.size \in Nat
         /\ move.i \in Nat /\ move.i <= move.size
         /\ move.dest + move.size <= CELLS /\ move.src + move.size <= CELLS
         /\ bytes \in Memory0 /\ before \in Memory0 /\ moved.kind = "none"
<1>1. move \in Moves /\ CELLS \in Nat
  BY LibAssumption, Zenon DEF MoveInv
<1>2. move.dest \in Nat /\ move.src \in Nat /\ move.size \in Nat /\ move.i \in Nat
  BY <1>1, Zenon DEF Moves
<1> QED
  BY <1>1, <1>2, Zenon DEF MoveInv

\* Counting up or down changes nothing else of a move.
LEMMA MoveCounts ==
  ASSUME MoveInv, NEW n \in Nat
  PROVE  LET m == [move EXCEPT !.i = n]
         IN  /\ m.kind = move.kind /\ m.dest = move.dest /\ m.src = move.src
             /\ m.size = move.size /\ m.i = n /\ m \in Moves
<1>1. move \in Moves
  BY Zenon DEF MoveInv
<1> QED
  BY <1>1, Zenon DEF Moves

\* One more place is copied, upwards to a place below: the source was not yet
\* written.
LEMMA CopyUp ==
  ASSUME NEW C \in Nat, C = CELLS, NEW x \in Memory0, NEW b \in Memory0,
         NEW d \in Nat, NEW s \in Nat, NEW n \in Nat, d < s, s + n < C, CopiedUp(x, b, d, s, n)
  PROVE  LET y == [x EXCEPT ![d + n] = x[s + n]]
         IN  y \in Memory0 /\ CopiedUp(y, b, d, s, n + 1)
<1> DEFINE y == [x EXCEPT ![d + n] = x[s + n]]
<1>1. d + n \in 0..(C - 1) /\ s + n \in 0..(C - 1) /\ x[s + n] \in Nat
  BY DEF Memory0
<1>2. y \in Memory0
  BY <1>1, Zenon DEF Memory0
<1>3. x[s + n] = b[s + n]
  BY <1>1 DEF CopiedUp, Within
<1>4. ASSUME NEW k \in 0..(CELLS - 1)
      PROVE  y[k] = IF Within(k, d, n + 1) THEN b[k - d + s] ELSE b[k]
  <2>1. CASE k = d + n
    <3>1. y[k] = b[s + n] /\ k - d + s = s + n /\ Within(k, d, n + 1)
      BY <1>1, <1>3, <2>1 DEF Memory0, Within
    <3> QED
      BY <3>1, Zenon
  <2>2. CASE k # d + n
    <3>1. y[k] = x[k] /\ (Within(k, d, n + 1) <=> Within(k, d, n))
      BY <1>1, <2>2, SMTT(30) DEF Memory0, Within
    <3> QED
      BY <3>1, Zenon DEF CopiedUp
  <2> QED
    BY <2>1, <2>2, Zenon
<1> QED
  BY <1>2, <1>4, Zenon DEF CopiedUp

\* One more place is copied, downwards to a place above.
LEMMA CopyDown ==
  ASSUME NEW C \in Nat, C = CELLS, NEW x \in Memory0, NEW b \in Memory0,
         NEW d \in Nat, NEW s \in Nat, NEW n \in Nat, NEW size \in Nat,
         d > s, n > 0, n <= size, d + size <= C, CopiedDown(x, b, d, s, n, size)
  PROVE  LET y == [x EXCEPT ![d + n - 1] = x[s + n - 1]]
         IN  y \in Memory0 /\ CopiedDown(y, b, d, s, n - 1, size)
<1> DEFINE y == [x EXCEPT ![d + n - 1] = x[s + n - 1]]
<1>1. d + n - 1 \in 0..(C - 1) /\ s + n - 1 \in 0..(C - 1)
  OBVIOUS
<1>2. x[s + n - 1] \in Nat /\ y \in Memory0
  BY <1>1, Zenon DEF Memory0
<1>3. x[s + n - 1] = b[s + n - 1]
  BY <1>1 DEF CopiedDown, Within
<1>4. ASSUME NEW k \in 0..(CELLS - 1)
      PROVE  y[k] = IF Within(k, d + (n - 1), size - (n - 1)) THEN b[k - d + s] ELSE b[k]
  <2>1. CASE k = d + n - 1
    <3>1. y[k] = b[s + n - 1] /\ k - d + s = s + n - 1
          /\ Within(k, d + (n - 1), size - (n - 1))
      BY <1>1, <1>3, <2>1 DEF Memory0, Within
    <3> QED
      BY <3>1, Zenon
  <2>2. CASE k # d + n - 1
    <3>1. /\ y[k] = x[k]
          /\ Within(k, d + (n - 1), size - (n - 1)) <=> Within(k, d + n, size - n)
      BY <1>1, <2>2, SMTT(30) DEF Memory0, Within
    <3> QED
      BY <3>1, Zenon DEF CopiedDown
  <2> QED
    BY <2>1, <2>2, Zenon
<1> QED
  BY <1>2, <1>4, Zenon DEF CopiedDown

\* One more place is set.
LEMMA FillOne ==
  ASSUME NEW C \in Nat, C = CELLS, NEW x \in Memory0, NEW b \in Memory0,
         NEW d \in Nat, NEW v \in Nat, NEW n \in Nat, d + n < C, Filled(x, b, d, v, n)
  PROVE  LET y == [x EXCEPT ![d + n] = v]
         IN  y \in Memory0 /\ Filled(y, b, d, v, n + 1)
<1> DEFINE y == [x EXCEPT ![d + n] = v]
<1>1. d + n \in 0..(C - 1) /\ y \in Memory0
  BY DEF Memory0
<1>2. ASSUME NEW k \in 0..(CELLS - 1)
      PROVE  y[k] = IF Within(k, d, n + 1) THEN v ELSE b[k]
  <2>1. CASE k = d + n
    BY <1>1, <2>1 DEF Memory0, Within
  <2>2. CASE k # d + n
    <3>1. y[k] = x[k] /\ (Within(k, d, n + 1) <=> Within(k, d, n))
      BY <1>1, <2>2 DEF Memory0, Within
    <3> QED
      BY <3>1, Zenon DEF Filled
  <2> QED
    BY <2>1, <2>2, Zenon
<1> QED
  BY <1>1, <1>2, Zenon DEF Filled

\* One more place is written, whatever its value.
LEMMA KeepRest ==
  ASSUME NEW C \in Nat, C = CELLS, NEW x \in Memory0, NEW b \in Memory0,
         NEW d \in Nat, NEW v \in Nat, NEW n \in Nat, d + n < C, Kept(x, b, d, n)
  PROVE  LET y == [x EXCEPT ![d + n] = v]
         IN  /\ y \in Memory0 /\ Kept(y, b, d, n + 1) /\ y[d + n] = v
             /\ \A k \in 0..(CELLS - 1) : k # d + n => y[k] = x[k]
<1> DEFINE y == [x EXCEPT ![d + n] = v]
<1>1. d + n \in 0..(C - 1) /\ y \in Memory0 /\ y[d + n] = v
  BY DEF Memory0
<1>2. \A k \in 0..(CELLS - 1) : k # d + n => y[k] = x[k]
  BY <1>1, Zenon DEF Memory0
<1>3. Kept(y, b, d, n + 1)
  BY <1>1, <1>2 DEF Kept, Within
<1> QED
  BY <1>1, <1>2, <1>3, Zenon

\* A move that goes on keeps all but its counter.
LEMMA MoveGoesOn ==
  ASSUME MoveInv, move.kind # "none", NEW n \in Nat, n <= move.size,
         move' = [move EXCEPT !.i = n], moved' = moved, before' = before
  PROVE  /\ move'.kind = move.kind /\ move'.dest = move.dest /\ move'.src = move.src
         /\ move'.size = move.size /\ move'.i = n /\ move' \in Moves
         /\ moved'.kind = "none" /\ before' \in Memory0 /\ MovesExact'
         /\ move'.dest + move'.size <= CELLS /\ move'.src + move'.size <= CELLS
         /\ move'.i <= move'.size
<1>1. /\ move'.kind = move.kind /\ move'.dest = move.dest /\ move'.src = move.src
      /\ move'.size = move.size /\ move'.i = n /\ move' \in Moves
  BY MoveCounts, Zenon
<1>2. moved'.kind = "none" /\ before' \in Memory0
  BY MoveType, Zenon
<1>3. MovesExact'
  BY <1>2, Zenon DEF MovesExact
<1> QED
  BY <1>1, <1>2, <1>3, MoveType, Zenon

\* A move that returns leaves a memory and an account of it.
LEMMA MoveReturns ==
  ASSUME MoveInv, move.kind # "none", NEW rc \in {0, 1}, End(rc),
         before' = before, bytes' \in Memory0
  PROVE  /\ moved'.kind = move.kind /\ moved'.dest = move.dest /\ moved'.src = move.src
         /\ moved'.size = move.size /\ moved'.rc = rc
         /\ MovesExact' => MoveInv'
<1>1. move' = NoMove /\ moved' = Returned(move, rc)
  BY Zenon DEF End
<1>2. move' \in Moves /\ move'.kind = "none"
  BY <1>1, Zenon DEF Moves, NoMove
<1>3. /\ moved'.kind = move.kind /\ moved'.dest = move.dest /\ moved'.src = move.src
      /\ moved'.size = move.size /\ moved'.rc = rc
  BY <1>1, Zenon DEF Returned
<1>4. before' \in Memory0
  BY MoveType, Zenon
<1> HIDE DEF MovesExact
<1> QED
  BY <1>2, <1>3, <1>4, Zenon DEF MoveInv

\* bh_memory_copy moves one byte, or has moved them all.
LEMMA CopyStep == MoveInv /\ CopyByte => MoveInv'
<1> SUFFICES ASSUME MoveInv, CopyByte PROVE MoveInv'
  BY Zenon
<1>1. move.kind = "copy" /\ move.kind # "none" /\ before' = before
  BY Zenon DEF CopyByte
<1>t. /\ CELLS \in Nat /\ move.dest \in Nat /\ move.src \in Nat /\ move.size \in Nat
      /\ move.i \in Nat /\ move.i <= move.size
      /\ move.dest + move.size <= CELLS /\ move.src + move.size <= CELLS
      /\ bytes \in Memory0 /\ before \in Memory0
  BY <1>1, MoveType, Zenon
<1>2. CASE move.dest < move.src /\ move.i < move.size
  <2>1. /\ bytes' = [bytes EXCEPT ![move.dest + move.i] = bytes[move.src + move.i]]
        /\ move' = [move EXCEPT !.i = move.i + 1] /\ moved' = moved
    BY <1>1, <1>2, <1>t DEF CopyByte
  <2>2. CopiedUp(bytes, before, move.dest, move.src, move.i)
    BY <1>1, <1>2, Zenon DEF MoveInv
  <2>3. bytes' \in Memory0 /\ CopiedUp(bytes', before, move.dest, move.src, move.i + 1)
    <3>1. move.src + move.i < CELLS
      BY <1>2, <1>t
    <3> QED
      BY <1>2, <1>t, <2>1, <2>2, <3>1, CopyUp, Zenon
  <2>4. /\ move'.kind = move.kind /\ move'.dest = move.dest /\ move'.src = move.src
        /\ move'.size = move.size /\ move'.i = move.i + 1 /\ move' \in Moves
        /\ moved'.kind = "none" /\ before' \in Memory0 /\ MovesExact'
        /\ move'.dest + move'.size <= CELLS /\ move'.src + move'.size <= CELLS
        /\ move'.i <= move'.size
    <3>1. move.i + 1 \in Nat /\ move.i + 1 <= move.size
      BY <1>2, <1>t, SMTT(20)
    <3> QED
      BY <1>1, <2>1, <3>1, MoveGoesOn, Zenon
  <2> QED
    BY <1>1, <1>2, <2>3, <2>4, Zenon DEF MoveInv
<1>3. CASE move.dest > move.src /\ move.i > 0
  <2>1. /\ bytes' = [bytes EXCEPT ![move.dest + move.i - 1] = bytes[move.src + move.i - 1]]
        /\ move' = [move EXCEPT !.i = move.i - 1] /\ moved' = moved
    BY <1>1, <1>3, <1>t DEF CopyByte
  <2>2. CopiedDown(bytes, before, move.dest, move.src, move.i, move.size)
    BY <1>1, <1>3, <1>t DEF MoveInv
  <2>3. bytes' \in Memory0 /\ CopiedDown(bytes', before, move.dest, move.src, move.i - 1, move.size)
    BY <1>3, <1>t, <2>1, <2>2, CopyDown, Zenon
  <2>4. /\ move'.kind = move.kind /\ move'.dest = move.dest /\ move'.src = move.src
        /\ move'.size = move.size /\ move'.i = move.i - 1 /\ move' \in Moves
        /\ moved'.kind = "none" /\ before' \in Memory0 /\ MovesExact'
        /\ move'.dest + move'.size <= CELLS /\ move'.src + move'.size <= CELLS
        /\ move'.i <= move'.size
    <3>1. move.i - 1 \in Nat /\ move.i - 1 <= move.size
      BY <1>3, <1>t
    <3> QED
      BY <1>1, <2>1, <3>1, MoveGoesOn, Zenon
  <2> QED
    BY <1>1, <1>3, <1>t, <2>3, <2>4 DEF MoveInv
<1>4. CASE ~(move.dest < move.src /\ move.i < move.size) /\ ~(move.dest > move.src /\ move.i > 0)
  <2>1. End(0) /\ bytes' = bytes
    BY <1>4, Zenon DEF CopyByte
  <2>2. /\ moved'.kind = "copy" /\ moved'.dest = move.dest /\ moved'.src = move.src
        /\ moved'.size = move.size /\ (MovesExact' => MoveInv')
    BY <1>1, <1>t, <2>1, MoveReturns, Zenon
  <2>3. CopiedUp(bytes, before, move.dest, move.src, move.size)
    <3>1. CASE move.dest < move.src
      BY <1>1, <1>4, <1>t, <3>1, SMTT(30) DEF MoveInv
    <3>2. CASE move.dest >= move.src
      <4>1. CopiedDown(bytes, before, move.dest, move.src, move.i, move.size)
        BY <1>1, <1>t, <3>2 DEF MoveInv
      <4>2. move.dest = move.src \/ move.i = 0
        BY <1>4, <1>t, <3>2, SMTT(30)
      <4> QED
        BY <1>t, <4>1, <4>2, SMTT(30) DEF CopiedDown, CopiedUp, Within
    <3> QED
      BY <1>t, <3>1, <3>2, SMTT(30)
  <2>4. MovesExact'
    <3>1. Into(moved') = move.dest .. (move.dest + move.size - 1)
      BY <2>2, Zenon DEF Into
    <3>2. DOMAIN bytes = 0..(CELLS - 1)
      BY <1>t, Zenon DEF Memory0
    <3>3. \A k \in DOMAIN bytes' : k \notin Into(moved') => bytes'[k] = before'[k]
      BY <1>1, <1>t, <2>1, <2>3, <3>1, <3>2, SMTT(30) DEF CopiedUp, Within
    <3>4. \A k \in Into(moved') : bytes'[k] = before'[k - moved'.dest + moved'.src]
      BY <1>1, <1>t, <2>1, <2>2, <2>3, <3>1, SMTT(30) DEF CopiedUp, Within
    <3> QED
      BY <2>2, <3>3, <3>4, Zenon DEF MovesExact
  <2> QED
    BY <2>2, <2>4, Zenon
<1> QED
  BY <1>2, <1>3, <1>4, Zenon

\* bh_memory_set fills one byte, or has filled them all.
LEMMA SetStep == MoveInv /\ SetByte => MoveInv'
<1> SUFFICES ASSUME MoveInv, SetByte PROVE MoveInv'
  OBVIOUS
<1>1. /\ move.kind = "set" /\ move.kind # "none" /\ before' = before
      /\ Filled(bytes, before, move.dest, move.src, move.i)
  BY Zenon DEF SetByte, MoveInv
<1>t. /\ CELLS \in Nat /\ move.dest \in Nat /\ move.src \in Nat /\ move.size \in Nat
      /\ move.i \in Nat /\ move.i <= move.size
      /\ move.dest + move.size <= CELLS /\ move.src + move.size <= CELLS
      /\ bytes \in Memory0 /\ before \in Memory0
  BY <1>1, MoveType, Zenon
<1>2. CASE move.i < move.size
  <2>1. /\ bytes' = [bytes EXCEPT ![move.dest + move.i] = move.src]
        /\ move' = [move EXCEPT !.i = move.i + 1] /\ moved' = moved
    BY <1>2, Zenon DEF SetByte
  <2>2. /\ move.dest + move.i < CELLS /\ move.i + 1 \in Nat /\ move.i + 1 <= move.size
    BY <1>2, <1>t
  <2>3. bytes' \in Memory0 /\ Filled(bytes', before, move.dest, move.src, move.i + 1)
    BY <1>1, <1>t, <2>1, <2>2, FillOne, Zenon
  <2>4. /\ move'.kind = move.kind /\ move'.dest = move.dest /\ move'.src = move.src
        /\ move'.size = move.size /\ move'.i = move.i + 1 /\ move' \in Moves
        /\ moved'.kind = "none" /\ before' \in Memory0 /\ MovesExact'
        /\ move'.dest + move'.size <= CELLS /\ move'.src + move'.size <= CELLS
        /\ move'.i <= move'.size
    BY <1>1, <2>1, <2>2, MoveGoesOn, Zenon
  <2> QED
    BY <1>1, <2>3, <2>4, Zenon DEF MoveInv
<1>3. CASE ~(move.i < move.size)
  <2>1. End(0) /\ bytes' = bytes
    BY <1>3, Zenon DEF SetByte
  <2>2. /\ moved'.kind = "set" /\ moved'.dest = move.dest /\ moved'.src = move.src
        /\ moved'.size = move.size /\ (MovesExact' => MoveInv')
    BY <1>1, <1>t, <2>1, MoveReturns, Zenon
  <2>3. move.i = move.size
    BY <1>3, <1>t, SMTT(30)
  <2>4. MovesExact'
    <3>1. Into(moved') = move.dest .. (move.dest + move.size - 1)
      BY <2>2, Zenon DEF Into
    <3>2. DOMAIN bytes = 0..(CELLS - 1)
      BY <1>t DEF Memory0
    <3>3. \A k \in DOMAIN bytes' : k \notin Into(moved') => bytes'[k] = before'[k]
      BY <1>1, <1>t, <2>1, <2>3, <3>1, <3>2, SMTT(30) DEF Filled, Within
    <3>4. \A k \in Into(moved') : bytes'[k] = moved'.src
      BY <1>1, <1>t, <2>1, <2>2, <2>3, <3>1, SMTT(30) DEF Filled, Within
    <3> QED
      BY <2>2, <3>3, <3>4, Zenon DEF MovesExact
  <2> QED
    BY <2>2, <2>4, Zenon
<1> QED
  BY <1>2, <1>3, Zenon

\* A string grows by a character.
LEMMA CharacterCopied ==
  ASSUME NEW C \in Nat, C = CELLS, NEW x \in Memory0, NEW b \in Memory0,
         NEW d \in Nat, NEW s \in Nat, NEW n \in Nat, NEW size \in Nat,
         n < size, d + size <= C, s + size <= C, Kept(x, b, d, n), x[s + n] # 0
  PROVE  LET y == [x EXCEPT ![d + n] = x[s + n]]
         IN  /\ y \in Memory0 /\ Kept(y, b, d, n + 1)
             /\ (d + size <= s \/ s + size <= d) /\ Characters(x, b, d, s, n) =>
                  Characters(y, b, d, s, n + 1)
<1> DEFINE y == [x EXCEPT ![d + n] = x[s + n]]
<1>1. d + n \in 0..(C - 1) /\ s + n \in 0..(C - 1) /\ x[s + n] \in Nat
  BY DEF Memory0
<1>2. y \in Memory0 /\ Kept(y, b, d, n + 1) /\ y[d + n] = x[s + n]
      /\ \A k \in 0..(CELLS - 1) : k # d + n => y[k] = x[k]
  BY <1>1, KeepRest, SMTT(20)
<1> HIDE DEF y
<1>3. ASSUME d + size <= s \/ s + size <= d, Characters(x, b, d, s, n),
             NEW k \in 0..(CELLS - 1), Within(k, d, n + 1)
      PROVE  y[k] = b[k - d + s] /\ y[k] # 0
  <2>1. CASE k = d + n
    <3>1. ~Within(s + n, d, n) /\ k - d + s = s + n
      BY <1>3, <2>1 DEF Within
    <3>2. x[s + n] = b[s + n]
      BY <1>1, <3>1, Zenon DEF Kept
    <3> QED
      BY <1>2, <2>1, <3>1, <3>2, Zenon
  <2>2. CASE k # d + n
    <3>1. Within(k, d, n)
      BY <1>3, <2>2, SMTT(30) DEF Within
    <3> QED
      BY <1>2, <1>3, <2>2, <3>1, Zenon DEF Characters
  <2> QED
    BY <2>1, <2>2, Zenon
<1>4. (d + size <= s \/ s + size <= d) /\ Characters(x, b, d, s, n) =>
        Characters(y, b, d, s, n + 1)
  BY <1>3, Zenon DEF Characters
<1> QED
  BY <1>2, <1>4, Zenon DEF y

\* A string ends: it is complete, or the end of the buffer cuts it.
LEMMA CharactersEnd ==
  ASSUME NEW x \in Memory0, NEW b \in Memory0,
         NEW d \in Nat, NEW s \in Nat, NEW n \in Nat, NEW size \in Nat,
         n < size, d + size <= CELLS, s + size <= CELLS, Kept(x, b, d, n),
         ~(n < size - 1 /\ x[s + n] # 0)
  PROVE  LET y == [x EXCEPT ![d + n] = 0]
         IN  /\ y \in Memory0 /\ Kept(y, b, d, size)
             /\ (d + size <= s \/ s + size <= d) /\ Characters(x, b, d, s, n) =>
                  Terminated(y, b, d, s, n, size)
<1> DEFINE y == [x EXCEPT ![d + n] = 0]
           into == d .. (d + size - 1)
<1>1. d + n \in 0..(CELLS - 1) /\ s + n \in 0..(CELLS - 1) /\ d + n \in into
  BY LibAssumption, SMTT(30)
<1>2. y \in Memory0 /\ Kept(y, b, d, n + 1) /\ y[d + n] = 0
      /\ \A k \in 0..(CELLS - 1) : k # d + n => y[k] = x[k]
  BY <1>1, KeepRest, LibAssumption, SMTT(30)
<1> HIDE DEF y
<1>3. Kept(y, b, d, size)
  BY <1>2, LibAssumption, SMTT(30) DEF Kept, Within
<1>4. ASSUME d + size <= s \/ s + size <= d, Characters(x, b, d, s, n)
      PROVE  Terminated(y, b, d, s, n, size)
  <2>1. ASSUME NEW j \in d .. (d + n - 1)
        PROVE  y[j] = b[j - d + s] /\ b[j - d + s] # 0
    <3>1. j \in 0..(CELLS - 1) /\ j # d + n /\ Within(j, d, n)
      BY <1>1, LibAssumption DEF Within
    <3> QED
      BY <1>2, <1>4, <3>1, Zenon DEF Characters
  <2>2. ~Within(s + n, d, n) /\ s + n # d + n
    BY <1>4 DEF Within
  <2>3. y[s + n] = x[s + n] /\ x[s + n] = b[s + n]
    BY <1>1, <1>2, <2>2, Zenon DEF Kept
  <2>4. ASSUME NEW k \in into, b[k - d + s] = 0
        PROVE  b[s + n] = 0
    <3>1. CASE k < d + n
      BY <2>1, <2>4, <3>1
    <3>2. CASE k = d + n
      <4>1. k - d + s = s + n
        BY <3>2
      <4> QED
        BY <2>4, <4>1, Zenon
    <3>3. CASE k > d + n
      <4>1. n < size - 1
        BY <3>3
      <4> QED
        BY <4>1, <2>3, Zenon
    <3> QED
      BY <3>1, <3>2, <3>3, SMTT(30)
  <2>5. (d + n) - d + s = s + n
    OBVIOUS
  <2>6. y[s + n] = 0 <=> \E k \in into : b[k - d + s] = 0
    BY <1>1, <2>3, <2>4, <2>5, Zenon
  <2> QED
    BY <1>1, <1>2, <2>1, <2>6, SMTT(30) DEF Terminated
<1> QED
  BY <1>2, <1>3, <1>4, Zenon DEF y

\* bh_string_copy moves one character, or ends the string.
LEMMA StringStep == MoveInv /\ CopyCharacter => MoveInv'
<1> SUFFICES ASSUME MoveInv, CopyCharacter PROVE MoveInv'
  OBVIOUS
<1>1. /\ move.kind = "string" /\ move.kind # "none" /\ before' = before
      /\ move.i < move.size \/ move.size = 0
      /\ Kept(bytes, before, move.dest, move.i)
      /\ Apart(move) => Characters(bytes, before, move.dest, move.src, move.i)
  BY Zenon DEF CopyCharacter, MoveInv
<1>t. /\ CELLS \in Nat /\ move.dest \in Nat /\ move.src \in Nat /\ move.size \in Nat
      /\ move.i \in Nat /\ move.i <= move.size
      /\ move.dest + move.size <= CELLS /\ move.src + move.size <= CELLS
      /\ bytes \in Memory0 /\ before \in Memory0
  BY <1>1, MoveType, Zenon
<1>2. CASE move.size = 0
  <2>1. End(1) /\ bytes' = bytes
    BY <1>2, Zenon DEF CopyCharacter
  <2>2. /\ moved'.kind = "string" /\ moved'.dest = move.dest /\ moved'.src = move.src
        /\ moved'.size = 0 /\ (MovesExact' => MoveInv')
    BY <1>1, <1>2, <1>t, <2>1, MoveReturns, Zenon
  <2>3. \A k \in DOMAIN bytes' : bytes'[k] = before'[k]
    BY <1>1, <1>2, <1>t, <2>1, SMTT(30) DEF Kept, Within, Memory0
  <2>4. MovesExact'
    BY <2>2, <2>3, SMTT(30) DEF MovesExact
  <2> QED
    BY <2>2, <2>4, Zenon
<1>3. CASE move.size # 0 /\ move.i < move.size - 1 /\ bytes[move.src + move.i] # 0
  <2>1. /\ bytes' = [bytes EXCEPT ![move.dest + move.i] = bytes[move.src + move.i]]
        /\ move' = [move EXCEPT !.i = move.i + 1] /\ moved' = moved
    BY <1>3, Zenon DEF CopyCharacter
  <2>2. move.i < move.size /\ move.i + 1 \in Nat /\ move.i + 1 <= move.size
        /\ move.i + 1 < move.size
    BY <1>3, <1>t
  <2>3. /\ bytes' \in Memory0 /\ Kept(bytes', before, move.dest, move.i + 1)
        /\ Apart(move) => Characters(bytes', before, move.dest, move.src, move.i + 1)
    BY <1>1, <1>3, <1>t, <2>1, <2>2, CharacterCopied, Zenon DEF Apart
  <2>4. /\ move'.kind = move.kind /\ move'.dest = move.dest /\ move'.src = move.src
        /\ move'.size = move.size /\ move'.i = move.i + 1 /\ move' \in Moves
        /\ moved'.kind = "none" /\ before' \in Memory0 /\ MovesExact'
        /\ move'.dest + move'.size <= CELLS /\ move'.src + move'.size <= CELLS
        /\ move'.i <= move'.size
    BY <1>1, <2>1, <2>2, MoveGoesOn, Zenon
  <2>5. Apart(move') => Apart(move)
    BY <2>4, Zenon DEF Apart
  <2> QED
    BY <1>1, <2>2, <2>3, <2>4, <2>5, Zenon DEF MoveInv
<1>4. CASE move.size # 0 /\ ~(move.i < move.size - 1 /\ bytes[move.src + move.i] # 0)
  <2> DEFINE rc == IF bytes'[move.src + move.i] = 0 THEN 0 ELSE 1
             into == move.dest .. (move.dest + move.size - 1)
  <2>1. bytes' = [bytes EXCEPT ![move.dest + move.i] = 0] /\ End(rc)
    BY <1>4, Zenon DEF CopyCharacter
  <2>2. /\ bytes' \in Memory0 /\ Kept(bytes', before, move.dest, move.size)
        /\ Apart(move) =>
             Terminated(bytes', before, move.dest, move.src, move.i, move.size)
    <3>1. move.i < move.size
      BY <1>1, <1>4, Zenon
    <3>2. Apart(move) =>
            /\ move.dest + move.size <= move.src \/ move.src + move.size <= move.dest
            /\ Characters(bytes, before, move.dest, move.src, move.i)
      BY <1>1, Zenon DEF Apart
    <3> HIDE DEF Apart
    <3> QED
      BY <1>1, <1>4, <1>t, <2>1, <3>1, <3>2, CharactersEnd, Zenon
  <2>3. rc \in {0, 1} /\ (rc = 0 <=> bytes'[move.src + move.i] = 0)
    OBVIOUS
  <2> HIDE DEF rc
  <2>4. /\ moved'.kind = "string" /\ moved'.dest = move.dest /\ moved'.src = move.src
        /\ moved'.size = move.size /\ moved'.rc = rc /\ (MovesExact' => MoveInv')
    BY <1>1, <2>1, <2>2, <2>3, MoveReturns, Zenon
  <2>5. /\ Into(moved') = into /\ DOMAIN bytes' = 0..(CELLS - 1)
        /\ Apart(moved') => Apart(move)
    BY <2>2, <2>4, Zenon DEF Into, Apart, Memory0
  <2> HIDE DEF into
  <2>6. MovesExact'
    <3>1. \A k \in DOMAIN bytes' : k \notin Into(moved') => bytes'[k] = before'[k]
      BY <1>1, <1>t, <2>2, <2>5, SMTT(30) DEF Kept, Within, into
    <3>2. ASSUME Apart(moved')
          PROVE  /\ \E k \in Into(moved') :
                      /\ bytes'[k] = 0
                      /\ \A j \in moved'.dest .. (k - 1) :
                           bytes'[j] = before'[j - moved'.dest + moved'.src]
                 /\ moved'.rc = 0 <=>
                      \E k \in Into(moved') : before'[k - moved'.dest + moved'.src] = 0
      <4>1. Terminated(bytes', before, move.dest, move.src, move.i, move.size)
        BY <2>2, <2>5, <3>2, Zenon
      <4> QED
        BY <1>1, <2>3, <2>4, <2>5, <4>1, SMTT(30) DEF Terminated, into
    <3> QED
      BY <2>4, <3>1, <3>2, Zenon DEF MovesExact
  <2> QED
    BY <2>4, <2>6, Zenon
<1> QED
  BY <1>2, <1>3, <1>4, Zenon

\* No step of a move, and none that leaves them alone, breaks what is known of them.
LEMMA MoveStep == MoveInv /\ (MoveNext \/ UNCHANGED moveVars) => MoveInv'
<1> SUFFICES ASSUME MoveInv, MoveNext \/ UNCHANGED moveVars PROVE MoveInv'
  BY Zenon
<1>1. ASSUME NEW dest \in 0..(CELLS - 1), NEW src \in 0..(CELLS - 1), NEW size \in 0..CELLS,
             bh_memory_copy(dest, src, size) \/ bh_memory_set(dest, src, size)
               \/ bh_string_copy(dest, src, size)
      PROVE  MoveInv'
  <2>0. size \in Nat /\ 0 \in Nat
    BY LibAssumption
  <2>1. CASE bh_memory_copy(dest, src, size)
    <3>1. CASE dest < src
      <4>1. Begin("copy", dest, src, size, 0)
        BY <2>1, <3>1, Zenon DEF bh_memory_copy
      <4> QED
        BY <2>0, <3>1, <4>1, MoveBegins, Zenon
    <3>2. CASE ~(dest < src)
      <4>1. Begin("copy", dest, src, size, size)
        BY <2>1, <3>2, Zenon DEF bh_memory_copy
      <4> QED
        BY <2>0, <3>2, <4>1, MoveBegins, Zenon
    <3> QED
      BY <3>1, <3>2, Zenon
  <2>2. CASE bh_memory_set(dest, src, size)
    BY <2>0, <2>2, MoveBegins, Zenon DEF bh_memory_set
  <2>3. CASE bh_string_copy(dest, src, size)
    BY <2>0, <2>3, MoveBegins, Zenon DEF bh_string_copy
  <2> QED
    BY <1>1, <2>1, <2>2, <2>3, Zenon
<1>2. CASE UNCHANGED moveVars
  <2>1. move' = move /\ moved' = moved /\ bytes' = bytes /\ before' = before
    BY <1>2, Zenon DEF moveVars
  <2>2. MovesExact' = MovesExact
    BY <2>1, ZenonT(30) DEF MovesExact
  <2> QED
    BY <2>1, <2>2, Zenon DEF MoveInv
<1> QED
  BY <1>1, <1>2, CopyStep, SetStep, StringStep, Zenon DEF MoveNext

-----------------------------------------------------------------------------
(* The library: its counter.                                               *)

INSTANCE FiniteSetTheorems

\* The library starts without users.
LEMMA CountInitInv == LibInit => CountInv
<1> SUFFICES ASSUME LibInit PROVE CountInv
  OBVIOUS
<1>1. /\ bh_init_count = 0 /\ holders = {} /\ bh_initialized = FALSE
  BY Zenon DEF LibInit
<1>2. 0 \in Nat /\ ~(0 > 0)
  OBVIOUS
<1> QED
  BY <1>1, <1>2, FS_EmptySet, Zenon DEF CountInv

\* A user that initializes the library is counted, one that shuts it down no
\* longer, and the table stays with the first.
LEMMA CountStep ==
  ASSUME CountInv, TableNext \/ UNCHANGED tableVars
  PROVE  CountInv'
<1>0. /\ bh_init_count \in Nat /\ bh_init_count = Cardinality(holders) /\ IsFiniteSet(holders)
      /\ bh_initialized \in BOOLEAN /\ (bh_initialized <=> bh_init_count > 0)
      /\ bh_initialized => bh_system_table # "none"
  BY Zenon DEF CountInv
<1>1. ASSUME NEW user \in Users, NEW lends \in BOOLEAN, bh_initialize(user, lends)
      PROVE  CountInv'
  <2>1. user \notin holders /\ holders' = holders \cup {user}
    BY <1>1, Zenon DEF bh_initialize
  <2>2. IsFiniteSet(holders') /\ Cardinality(holders') = bh_init_count + 1
    BY <1>0, <2>1, FS_AddElement, Zenon
  <2>3. bh_init_count + 1 \in Nat /\ bh_init_count + 1 > 0
    BY <1>0
  <2>4. CASE bh_initialized
    <3>1. /\ bh_init_count' = bh_init_count + 1 /\ bh_system_table' = bh_system_table
          /\ bh_initialized' = bh_initialized
      BY <1>1, <2>4, Zenon DEF bh_initialize
    <3> QED
      BY <1>0, <2>2, <2>3, <2>4, <3>1, Zenon DEF CountInv
  <2>5. CASE ~bh_initialized
    <3>1. bh_init_count' = 1 /\ bh_initialized' = TRUE
      BY <1>1, <2>5, Zenon DEF bh_initialize
    <3>2. ~(bh_init_count > 0)
      BY <1>0, <2>5, Zenon
    <3>3. bh_init_count + 1 = 1
      BY <1>0, <3>2, SMTT(30)
    <3>4. bh_system_table' # "none"
      BY <1>1, <2>5, LibAssumption, Zenon DEF bh_initialize, bh_init_system_table
    <3> QED
      BY <2>2, <2>3, <3>1, <3>3, <3>4, Zenon DEF CountInv
  <2> QED
    BY <2>4, <2>5, Zenon
<1>2. ASSUME NEW user \in Users, bh_shutdown(user)
      PROVE  CountInv'
  <2>1. user \in holders /\ holders' = holders \ {user} /\ bh_system_table' = bh_system_table
    BY <1>2, Zenon DEF bh_shutdown
  <2>2. IsFiniteSet(holders') /\ Cardinality(holders') = bh_init_count - 1
    BY <1>0, <2>1, FS_RemoveElement, Zenon
  <2>3. bh_init_count # 0
    BY <1>0, <2>1, FS_EmptySet, Zenon
  <2>4. bh_init_count > 0 /\ bh_init_count - 1 \in Nat
    BY <1>0, <2>3
  <2>5. bh_initialized
    BY <1>0, <2>4, Zenon
  <2>6. bh_init_count' = bh_init_count - 1 /\ bh_initialized' = (bh_init_count' > 0)
    BY <1>2, <2>5, Zenon DEF bh_shutdown
  <2>7. (bh_init_count' > 0) \in BOOLEAN
    OBVIOUS
  <2>8. bh_initialized' \in BOOLEAN
    BY <2>6, <2>7, Zenon
  <2>9. bh_initialized' <=> bh_init_count' > 0
    BY <2>6, Zenon
  <2> QED
    BY <1>0, <2>1, <2>2, <2>4, <2>5, <2>6, <2>8, <2>9, ZenonT(30) DEF CountInv
<1>3. CASE UNCHANGED <<bh_system_table, bh_initialized, bh_init_count, holders>>
  BY <1>0, <1>3, Zenon DEF CountInv
<1>4. \/ \E user \in Users, lends \in BOOLEAN : bh_initialize(user, lends)
      \/ \E user \in Users : bh_shutdown(user)
      \/ UNCHANGED <<bh_system_table, bh_initialized, bh_init_count, holders>>
  BY Zenon DEF TableNext, ScopeEnds, bh_call, tableVars
<1> QED
  BY <1>1, <1>2, <1>3, <1>4, Zenon

\* Exactly whoever is counted finds the library initialized.
LEMMA CountServes == CountInv => UsersServed
<1> SUFFICES ASSUME CountInv PROVE UsersServed
  OBVIOUS
<1>1. bh_init_count \in Nat /\ (bh_init_count = 0 <=> holders = {})
  BY FS_EmptySet, Zenon DEF CountInv
<1>2. bh_init_count > 0 <=> holders # {}
  BY <1>1
<1> QED
  BY <1>2, Zenon DEF CountInv, UsersServed

-----------------------------------------------------------------------------
(* The library: its users and its moves together.                          *)

LibInv == CountInv /\ MoveInv

\* A step of the table is none of a move, and a step of a move none of the table.
LEMMA LibraryParts ==
  /\ TableNext => UNCHANGED moveVars
  /\ MoveNext => UNCHANGED tableVars
<1>1. TableNext => UNCHANGED moveVars
  BY Zenon DEF TableNext, bh_initialize, bh_shutdown, ScopeEnds,
               bh_call
<1>2. MoveNext => UNCHANGED tableVars
  BY ZenonT(30) DEF MoveNext, bh_memory_copy, bh_memory_set,
               bh_string_copy, Begin, CopyByte, SetByte,
               CopyCharacter
<1> QED
  BY <1>1, <1>2, Zenon

\* The library keeps count of its users, and of what it has moved.
LEMMA LibStep == LibInv /\ [LibNext]_libVars => LibInv'
<1> SUFFICES ASSUME LibInv, [LibNext]_libVars PROVE LibInv'
  OBVIOUS
<1>1. UNCHANGED libVars => UNCHANGED tableVars /\ UNCHANGED moveVars
  BY Zenon DEF libVars, tableVars, moveVars
<1>2. (TableNext \/ UNCHANGED tableVars) /\ (MoveNext \/ UNCHANGED moveVars)
  BY <1>1, LibraryParts, Zenon DEF LibNext
<1> QED
  BY <1>2, CountStep, MoveStep, Zenon DEF LibInv

\* The library counts its users, however they interleave, and its moves copy,
\* fill and terminate exactly what they are asked to, for every memory, every
\* overlap and every size.
THEOREM LibraryCorrect == LibSpec => []LibrarySound
<1>1. LibInit => LibInv
  BY CountInitInv, MoveInitInv, Zenon DEF LibInv
<1>2. LibInv => LibrarySound
  BY CountServes, Zenon DEF LibInv, MoveInv, LibrarySound
<1> QED
  BY <1>1, <1>2, LibStep, PTL DEF LibSpec

=============================================================================

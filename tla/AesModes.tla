------------------------------ MODULE AesModes ------------------------------
(***************************************************************************)
(* The modes of operation of R/AES.R: two AES objects with the same key    *)
(* and IV, one that encrypts a text in subsets and one that decrypts what  *)
(* the first produced, each cutting as it likes. An object's only state is *)
(* its IV, which its closures assign with <<-.                             *)
(*                                                                         *)
(* The block cipher is a free permutation of blocks. A byte is a set of    *)
(* atoms and xor is symmetric difference, so what is masked twice with the *)
(* same key stream is itself again and nothing else cancels.               *)
(***************************************************************************)
EXTENDS Integers, Sequences, SequencesExt

CONSTANTS
    W,          \* block_size (16)
    Base,       \* values of a byte of the counter (256)
    Text,       \* the plaintext, by position from 1
    IV0,        \* the initial vector of CBC and CFB, a block
    Counter0,   \* the initial counters of CTR to choose from
    Cuts,       \* the lengths of the subsets
    AnySubset   \* TRUE: subsets end anywhere, and may be empty

ASSUME SizeAssumption ==
    /\ W \in Nat \ {0} /\ Base \in Nat \ {0, 1} /\ Cuts \subseteq Nat
    /\ Text \in Seq(Range(Text)) /\ IV0 = [j \in 1 .. W |-> IV0[j]]
    /\ Counter0 \subseteq [1 .. W -> 0 .. Base - 1] /\ AnySubset \in BOOLEAN

VARIABLES
    mode,       \* "ECB", "CBC", "CBC padded", "CFB" or "CTR"
    iv0,        \* the IV both objects were made with
    encIV,      \* IV of the encrypting object
    decIV,      \* IV of the decrypting object
    sent,       \* how many bytes of Text have been encrypted
    cipher,     \* the ciphertext so far
    calls,      \* history: where each encrypt call began in Text and in cipher, and the next will
    plain,      \* the decrypted bytes so far, Lost where rawToChar withheld one
    got,        \* how many bytes of cipher have been decrypted
    over,       \* the last subset was not a whole number of blocks
    refused,    \* the last call stopped with an error
    counters    \* history: the counters the encrypting object has used

vars == <<mode, iv0, encIV, decIV, sent, cipher, calls, plain, got, over, refused, counters>>

Modes == {"ECB", "CBC", "CBC padded", "CFB", "CTR"}

-----------------------------------------------------------------------------
(* Bytes and the block cipher *)

xor(s, t) == [i \in 1 .. Len(s) |-> SymDiff(s[i], t[i])]

\* The cipher on one block.
aes_encrypt(block) == [j \in 1 .. W |-> {<<"E", block, j>>}]
aes_decrypt(block) ==
    LET a == CHOOSE x \in block[1] : TRUE IN a[2]

\* The i-th block of s, shorter at the end of s.
Block(s, i) == SubSeq(s, (i - 1) * W + 1, IF i * W < Len(s) THEN i * W ELSE Len(s))
Blocks(s) == (Len(s) + (W - 1)) \div W
Whole(s) == Len(s) % W = 0

-----------------------------------------------------------------------------
(* One pass through the loop of each mode: [iv, out] of an IV and a block *)

AESencryptECB(iv, b) == [iv |-> iv, out |-> aes_encrypt(b)]
AESdecryptECB(iv, b) == [iv |-> iv, out |-> aes_decrypt(b)]

encrypt_CBC(iv, b) ==
    LET c == aes_encrypt(xor(b, iv)) IN [iv |-> c, out |-> c]

\* IV <<- ciphertext[ind]
decrypt_CBC_Plain(iv, b) ==
    LET p == xor(aes_decrypt(b), iv) IN [iv |-> p, out |-> p]
decrypt_CBC(iv, b) ==
    [iv |-> b, out |-> xor(aes_decrypt(b), iv)]

\* xor(b, out[0:len]), IV <<- result[ind]: the IV becomes as short as b.
encrypt_CFB_Once(iv, b) == [iv |-> iv, out |-> xor(b, aes_encrypt(iv))]
encrypt_CFB(iv, b) ==
    LET c == xor(b, aes_encrypt(iv)) IN [iv |-> c, out |-> c]
decrypt_CFB(iv, b) ==
    [iv |-> b, out |-> xor(b, aes_encrypt(iv))]

\* One pass of encrypt, or of decrypt, in the mode of the object.
Pass(op, iv, b) ==
    CASE op = "encrypt" /\ mode = "ECB" -> AESencryptECB(iv, b)
      [] op = "decrypt" /\ mode = "ECB" -> AESdecryptECB(iv, b)
      [] op = "encrypt" /\ mode \in {"CBC", "CBC padded"} -> encrypt_CBC(iv, b)
      [] op = "decrypt" /\ mode \in {"CBC", "CBC padded"} -> decrypt_CBC(iv, b)
      [] op = "encrypt" /\ mode = "CFB" -> encrypt_CFB(iv, b)
      [] op = "decrypt" /\ mode = "CFB" -> decrypt_CFB(iv, b)

\* result[ind] <- ...: n bytes of the blocks of r, each in its place.
Joined(r, n) == [k \in 1 .. n |-> r[(k - 1) \div W + 1][((k - 1) % W) + 1]]

\* The loop over the blocks of s threads the IV.
Chain(op, iv, s) ==
    LET pass[i \in 0 .. Blocks(s)] ==
          IF i = 0 THEN [iv |-> iv, out |-> <<>>]
          ELSE Pass(op, pass[i - 1].iv, Block(s, i))
    IN  [iv |-> pass[Blocks(s)].iv,
         out |-> Joined([i \in 1 .. Blocks(s) |-> pass[i].out], Len(s))]

-----------------------------------------------------------------------------
(* encrypt and decrypt, as functions of the IV: [iv, out] *)

\* The repeat loop that adds 1 to the counter, byte by byte from the last: it
\* comes to a byte when those behind it have all become 0.
Increment_LastByte(iv) == [iv EXCEPT ![W] = (@ + 1) % Base]
Increment_NoWrap(iv) == [iv EXCEPT ![W] = @ + 1]
Increment(iv) ==
    [j \in 1 .. W |-> IF \A i \in j + 1 .. W : iv[i] + 1 = Base
                      THEN (iv[j] + 1) % Base ELSE iv[j]]

Count(iv, n) == LET c[k \in 0 .. n] == IF k = 0 THEN iv ELSE Increment(c[k - 1])
                IN  c[n]

\* for (i in 1:blocks), where 1:0 is 1, 0.
Passes(s) == IF Blocks(s) = 0 THEN 2 ELSE Blocks(s)

\* The whole key stream is computed, and cut to the length of the text.
encrypt_CTR(iv, s) ==
    LET keys == Joined([k \in 1 .. Passes(s) |-> aes_encrypt(Count(iv, k - 1))], Len(s))
    IN  [iv |-> Count(iv, Passes(s)), out |-> xor(s, keys)]

\* rawToChar drops the nuls at the end and stops at one before them: where a
\* byte does not reach the caller there is Lost. The byte 0 is the empty set.
Lost == {<<"lost">>}
Stripped(s) ==
    IF \A i \in 1 .. Len(s) : s[i] = {} THEN <<>>
    ELSE SubSeq(s, 1, CHOOSE i \in 1 .. Len(s) :
                         s[i] # {} /\ \A j \in i + 1 .. Len(s) : s[j] = {})
EmbeddedNul(s) == {} \in ToSet(Stripped(s))
Received(s, raw) ==
    IF raw THEN s
    ELSE LET t == Stripped(s)
         IN  [i \in 1 .. Len(s) |-> IF EmbeddedNul(s) \/ i > Len(t) THEN Lost ELSE s[i]]

\* PKCS#7: as many bytes as are missing, each with that value, a whole block
\* when none is.
PadByte(n) == {<<"pad", n>>}
Pad(s) == LET n == W - (Len(s) % W) IN s \o [i \in 1 .. n |-> PadByte(n)]
Unpad(s) ==
    LET last == CHOOSE x \in s[Len(s)] : TRUE IN SubSeq(s, 1, Len(s) - last[2])

\* The stop() calls: ECB and CBC take whole blocks, CFB a whole IV.
Refuses(iv, s) ==
    \/ mode \in {"ECB", "CBC"} /\ ~Whole(s)
    \/ mode = "CFB" /\ Len(iv) # W

encrypt(iv, s) ==
    IF mode = "CTR" THEN encrypt_CTR(iv, s)
    ELSE Chain("encrypt", iv, IF mode = "CBC padded" THEN Pad(s) ELSE s)

decrypt(iv, s) ==
    IF mode = "CTR" THEN encrypt_CTR(iv, s)
    ELSE LET r == Chain("decrypt", iv, s)
         IN  [iv |-> r.iv, out |-> IF mode = "CBC padded" THEN Unpad(r.out) ELSE r.out]

-----------------------------------------------------------------------------
Init ==
    /\ mode \in Modes
    /\ iv0 \in IF mode = "CTR" THEN Counter0 ELSE {IV0}
    /\ encIV = iv0 /\ decIV = iv0
    /\ sent = 0 /\ got = 0
    /\ cipher = <<>> /\ plain = <<>> /\ calls = <<[text |-> 0, cipher |-> 0]>>
    /\ over = FALSE /\ refused = FALSE
    /\ counters = <<>>

\* With CFB and CTR a subset that is not a whole number of blocks is the last,
\* unless the caller takes the manual at its word.
Encrypt(k) ==
    LET s == SubSeq(Text, sent + 1, sent + k)
        r == encrypt(encIV, s)
    IN  /\ ~over /\ sent + k <= Len(Text)
        /\ k = 0 => AnySubset
        /\ IF Refuses(encIV, s)
           THEN /\ refused' = TRUE
                /\ UNCHANGED <<encIV, sent, cipher, calls, over, counters>>
           ELSE /\ refused' = FALSE
                /\ encIV' = r.iv
                /\ sent' = sent + k
                /\ cipher' = cipher \o r.out
                /\ calls' = Append(calls, [text |-> sent', cipher |-> Len(cipher')])
                /\ over' = (~Whole(s) /\ mode # "CBC padded" /\ ~AnySubset)
                /\ counters' = IF mode # "CTR" THEN counters
                               ELSE counters \o [i \in 1 .. Passes(s) |-> Count(encIV, i - 1)]
        /\ UNCHANGED <<mode, iv0, decIV, plain, got>>

\* Padding ends every ciphertext, so these are decrypted as they were made. When
\* rawToChar stops the call the IV has moved: the caller goes on after it.
Decrypt(k, raw) ==
    LET s == SubSeq(cipher, got + 1, got + k)
        r == decrypt(decIV, s)
        last == got + k = Len(cipher)
    IN  /\ 0 < k /\ got + k <= Len(cipher)
        /\ mode = "CBC padded" => \E n \in 1 .. Len(calls) - 1 :
                                      calls[n].cipher = got /\ calls[n + 1].cipher = got + k
        /\ k % W = 0 \/ (over /\ last) \/ mode \in {"ECB", "CBC"}
        /\ IF Refuses(decIV, s)
           THEN refused' = TRUE /\ UNCHANGED <<decIV, plain, got>>
           ELSE /\ refused' = (~raw /\ EmbeddedNul(r.out))
                /\ decIV' = r.iv
                /\ plain' = plain \o Received(r.out, raw)
                /\ got' = got + k
        /\ UNCHANGED <<mode, iv0, encIV, sent, cipher, calls, over, counters>>

Next == \E k \in Cuts : Encrypt(k) \/ \E raw \in BOOLEAN : Decrypt(k, raw)

Spec == Init /\ [][Next]_vars

-----------------------------------------------------------------------------
(* Properties *)

\* The IV of either object stays one block, up to a last short subset in CFB.
TypeOK ==
    /\ mode \in Modes
    /\ ~over => Len(encIV) = W /\ Len(decIV) = W
    /\ mode = "CTR" => encIV \in [1 .. W -> 0 .. Base - 1]
    /\ sent <= Len(Text) /\ got <= Len(cipher)
    /\ calls \in Seq([text : Nat, cipher : Nat]) /\ over \in BOOLEAN /\ refused \in BOOLEAN

\* SP 800-38A on the whole text s at once: the j-th block of its ciphertext, the
\* counter of the j-th block being the initial one plus j - 1.
Value(c) == LET v[k \in 0 .. W] == IF k = 0 THEN 0 ELSE v[k - 1] * Base + c[k] IN v[W]
Values == LET p[k \in 0 .. W] == IF k = 0 THEN 1 ELSE p[k - 1] * Base IN p[W]
CounterPlus(c, n) ==
    CHOOSE d \in [1 .. W -> 0 .. Base - 1] : Value(d) = (Value(c) + n) % Values
Standard(s) ==
    LET C[j \in 1 .. Blocks(s)] ==
          LET p == Block(s, j)
              before == IF j = 1 THEN iv0 ELSE C[j - 1]
          IN  CASE mode = "ECB" -> aes_encrypt(p)
                [] mode = "CBC" -> aes_encrypt(xor(p, before))
                [] mode = "CFB" -> xor(p, aes_encrypt(before))
                [] mode = "CTR" -> xor(p, aes_encrypt(CounterPlus(iv0, j - 1)))
    IN  Joined(C, Len(s))

\* AES.Rd: "the initialization vector is updated, so both operations can be
\* performed sequentially on subsets". The ciphertext of the subsets is that of
\* the text encrypted at once, in every mode without padding.
Sequential ==
    mode # "CBC padded" => cipher = Standard(SubSeq(Text, 1, sent))

\* decrypt undoes encrypt: every byte that reaches the caller is that of the
\* text, although the two objects cut it differently and rawToChar may have
\* stopped a call in between; and no byte is missing at the end.
RoundTrip ==
    /\ \A i \in 1 .. Len(plain) : plain[i] \in {Text[i], Lost}
    /\ got = Len(cipher) => Len(plain) = sent

\* A counter is used once only, until all of them have been.
CountersDiffer ==
    Len(counters) <= Values =>
        \A i, j \in 1 .. Len(counters) : counters[i] = counters[j] => i = j
=============================================================================

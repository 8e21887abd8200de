-------------------------------- MODULE Scram --------------------------------
(***************************************************************************)
(* SCRAM_responce_create of authModule.h: from the server's challenge and  *)
(* the password to the proof in the client's final message, with           *)
(* Self_PKCS5_PBKDF2_HMAC as a loop of its own.  Digests are kept in       *)
(* buffers and measured with strlen; the buffers are never terminated.     *)
(* Not modelled: the bytes that the message formats add, the server's      *)
(* signature, which is computed and lost (line 731), Final_Auth_Parse,     *)
(* which nobody calls, more than one byte behind a buffer, and what the    *)
(* writes behind some of them (lines 624, 664, 715, 725) do to the heap.   *)
(***************************************************************************)
EXTENDS Hmac, Base64, FiniteSets

CONSTANTS
    Passwords,   \* byte sequences
    Challenges,  \* [text, salt, iterations]: what strtok finds in the text
    Lengths,     \* key lengths; the program asks for D
    Dirt,        \* the sets of buffers that may be dirty together
    JUNK,        \* a byte that is no digit, no comma and not NUL
    Strays,      \* what may stand behind the digits of outputHex
    ClientKeyText,    \* "Client Key"
    clientInit,       \* the client's first message
    clientFinalBare   \* its final message without the proof

Buffers == {"text", "salt", "saltedPassword", "clientKey", "storedKey",
            "clientInit", "clientSignature", "txtoutput"}

ASSUME ScramAssumption ==
    /\ \A w \in Passwords : w \in Seq(Byte)
    /\ \A c \in Challenges : /\ c.text \in Seq(Byte) /\ c.salt \in Seq(Byte)
                             /\ c.text # << >> /\ c.salt # << >>
                             /\ c.iterations \in Nat
    /\ Lengths \subseteq Nat
    /\ Dirt \subseteq SUBSET Buffers
    /\ JUNK \in Byte \ {NUL} /\ Strays \subseteq Byte
    /\ ClientKeyText \in Seq(Byte) /\ clientInit \in Seq(Byte)
    /\ clientFinalBare \in Seq(Byte)

VARIABLES
    password, challenge, length, \* the arguments
    dirty,     \* the buffers that JUNK follows, NUL follows the others; of
               \* txtoutput, which is the array of a function that has
               \* returned, that it is overwritten
    stray,     \* the character behind outputHex, NUL if it is terminated
    pc,        \* the next step
    salt,      \* decodeBase64(s), as far as strlen goes
    counter,   \* the block of the derived key
    ic,        \* iterations done for it
    md1,       \* the last of U1, U2, ...
    work,      \* their exclusive or
    us,        \* for each block, all of them
    output,    \* the derived key: saltedPassword
    clientKey, storedKey, clientSignature,
    response   \* the proof as it is sent

args == << password, challenge, length, dirty, stray >>
loop == << counter, ic, md1, work, us, output >>
keys == << clientKey, storedKey, clientSignature, response >>
vars == << args, pc, salt, loop, keys >>

-----------------------------------------------------------------------------
Behind(b) == IF b \in dirty THEN << JUNK >> ELSE << >>

(* What strlen and strcpy see of a buffer: all before the first NUL, or    *)
(* without one what stands behind, too.                                    *)
HasNul(d) == \E n \in DOMAIN d : d[n] = NUL
strlen(d) == Cardinality({n \in DOMAIN d : \A m \in 1..n : d[m] # NUL})
CStr(d, b) == IF HasNul(d) THEN SubSeq(d, 1, strlen(d)) ELSE d \o Behind(b)

(* The four bytes of counter, highest first.                               *)
Bits(k) == {p \in 0..7 : (k \div 2^p) % 2 = 1}
INT(k) == [n \in 1..4 |-> Bits(k \div 2^(8 * (4 - n)))]
XorAll(a, b) == [n \in DOMAIN a |-> xorByte(a[n], b[n])]
minOf(a, b) == IF a < b THEN a ELSE b

Init ==
    /\ password \in Passwords /\ challenge \in Challenges /\ length \in Lengths
    /\ dirty \in Dirt /\ stray \in Strays
    /\ pc = "challenge"
    /\ salt = << >>
    /\ counter = 1 /\ ic = 0 /\ md1 = << >> /\ work = << >>
    /\ us = << >> /\ output = << >>
    /\ clientKey = << >> /\ storedKey = << >> /\ clientSignature = << >>
    /\ response = << >>

(* The server sends the salt in base64.                                    *)
ReadsChallenge ==
    /\ pc = "challenge"
    /\ salt' = CStr(decodeBase64(encodeBase64(challenge.salt)), "salt")
    /\ pc' = "block"
    /\ UNCHANGED << args, loop, keys >>

FirstRound ==
    /\ pc = "block" /\ Len(output) < length
    /\ md1' = sha1_hmac_finish(sha1_hmac_update(
                sha1_hmac_update(sha1_hmac_starts(password), salt), INT(counter)))
    /\ work' = md1'
    /\ ic' = 1
    /\ us' = Append(us, << md1' >>)
    /\ pc' = "iterate"
    /\ UNCHANGED << args, salt, counter, output, keys >>

Iterate ==
    /\ pc = "iterate" /\ ic < challenge.iterations
    /\ md1' = sha1_hmac(password, md1)
    /\ work' = XorAll(work, md1')
    /\ ic' = ic + 1
    /\ us' = [us EXCEPT ![Len(us)] = Append(@, md1')]
    /\ UNCHANGED << args, pc, salt, counter, output, keys >>

WritesBlock ==
    /\ pc = "iterate" /\ ic >= challenge.iterations
    /\ output' = output \o SubSeq(work, 1, minOf(length - Len(output), D))
    /\ counter' = counter + 1
    /\ pc' = "block"
    /\ UNCHANGED << args, salt, ic, md1, work, us, keys >>

(* saltedPassword, clientKey and storedKey are measured with strlen.       *)
MakesKeys ==
    /\ pc = "block" /\ Len(output) >= length
    /\ length = D
    /\ clientKey' = sha1_hmac(CStr(output, "saltedPassword"), ClientKeyText)
    /\ storedKey' = sha1(CStr(clientKey', "clientKey"))
    /\ pc' = "sign"
    /\ UNCHANGED << args, salt, loop, clientSignature, response >>

Comma == {2, 3, 5}

(* text and clientInitMessage come out of decodeBase64, unterminated.      *)
authMessage ==
    CStr(clientInit, "clientInit") \o << Comma >> \o
    CStr(decodeBase64(encodeBase64(challenge.text)), "text") \o << Comma >> \o
    clientFinalBare

Signs ==
    /\ pc = "sign"
    /\ clientSignature' = sha1_hmac(CStr(storedKey, "storedKey"), authMessage)
    /\ pc' = "prove"
    /\ UNCHANGED << args, salt, loop, clientKey, storedKey, response >>

(* xor goes through strlen(clientSignature) bytes.                         *)
ByteAt(d, b, n) == IF n \in DOMAIN d THEN d[n] ELSE IF b \in dirty THEN JUNK ELSE NUL
xor ==
    [n \in 1..Len(CStr(clientSignature, "clientSignature")) |->
        xorByte(ByteAt(clientKey, "clientKey", n),
                ByteAt(clientSignature, "clientSignature", n))]

(* It puts them into outputHex as hexadecimal digits, from which           *)
(* textFromHexString reads them back, and after them the stray character   *)
(* as a digit of its own: strtol makes NUL of one that is none.            *)
Digits(v) == IF v < 10 THEN {48 + v} ELSE {55 + v, 87 + v}
strtol16(c) == UNION {Bits(v) : v \in {v \in 1..15 : \E k \in Digits(v) : c = Bits(k)}}
textFromHexString == Append(xor, strtol16(stray))

(* strcpy copies them up to NUL, out of an array that may be anything by   *)
(* then: nothing, or a byte of something else.                             *)
Copied ==
    IF "txtoutput" \in dirty THEN {<< >>, << JUNK >>}
    ELSE {SubSeq(textFromHexString, 1, strlen(textFromHexString))}

Proves ==
    /\ pc = "prove"
    /\ \E clientProof \in Copied : response' = encodeBase64(clientProof)
    /\ pc' = "done"
    /\ UNCHANGED << args, salt, loop, clientKey, storedKey, clientSignature >>

(* A caller that asks for another length than D has its key now.           *)
Done ==
    /\ pc = "done" \/ (pc = "block" /\ Len(output) >= length /\ length # D)
    /\ UNCHANGED vars

Next ==
    \/ ReadsChallenge \/ FirstRound \/ Iterate \/ WritesBlock \/ MakesKeys
    \/ Signs \/ Proves \/ Done

Spec == Init /\ [][Next]_vars

-----------------------------------------------------------------------------
(* Each block of the derived key is the exclusive or of its own chain of   *)
(* keyed hashes, which begins with the salt and the number of the block,   *)
(* and the last block is cut to the length that was asked for: PBKDF2 of   *)
(* RFC 2898 with HMAC of RFC 2104, whatever the password, shorter or longer*)
(* than a block, the count and the length (lines 302-357 and 391-425).  A  *)
(* count of zero does what one does.                                       *)
Odd(u, n) == {p \in 0..7 : Cardinality({j \in DOMAIN u : p \in u[j][n]}) % 2 = 1}
DerivedKey ==
    /\ Len(output) = minOf(length, D * (counter - 1))
    /\ \A k \in DOMAIN us :
           /\ us[k][1] = HMAC(password, salt \o INT(k))
           /\ \A j \in 1..(Len(us[k]) - 1) : us[k][j + 1] = HMAC(password, us[k][j])
           /\ k < counter => Len(us[k]) = IF challenge.iterations = 0 THEN 1
                                          ELSE challenge.iterations
    /\ \A k \in DOMAIN us, n \in 1..D :
           D * (k - 1) + n <= Len(output) => output[D * (k - 1) + n] = Odd(us[k], n)

(* The server's side of RFC 5802, on whole digests: the key that it        *)
(* recovers from the proof, which is to be that of the password.  A proof  *)
(* of another length gives a key of another length.                        *)
ServerClientKey == HMAC(output, ClientKeyText)
ServerSignature ==
    HMAC(sha1(ServerClientKey),
         clientInit \o << Comma >> \o challenge.text \o << Comma >> \o clientFinalBare)
Recovered ==
    LET proof == decodeBase64(response)
    IN  IF Len(proof) = D THEN XorAll(proof, ServerSignature) ELSE << >>

(* What is hashed was neither cut at a NUL nor went on behind its buffer,  *)
(* and the proof was copied while it stood.                                *)
HashedRight ==
    /\ dirty \subseteq {"clientSignature"}
    /\ ~HasNul(challenge.text) /\ ~HasNul(challenge.salt) /\ ~HasNul(clientInit)
    /\ ~HasNul(output) /\ ~HasNul(ServerClientKey) /\ ~HasNul(sha1(ServerClientKey))

(* The key is derived with the server's salt exactly if it holds no NUL    *)
(* and no byte stands behind it (lines 670-671).  After hashes of the      *)
(* right bytes, a right password is accepted exactly if no byte of the     *)
(* signature is NUL and none is the same in the key, no byte stands behind *)
(* the signature, and none behind the digits that counts as a digit of its *)
(* own; given that such a digit does not stand in for a byte that was lost *)
(* (lines 599-616 and 696-716).                                            *)
ProofVerifies ==
    pc = "done" =>
        /\ salt = challenge.salt <=> ~HasNul(challenge.salt) /\ "salt" \notin dirty
        /\ HashedRight /\ (HasNul(ServerSignature) => strtol16(stray) = NUL) =>
               (Recovered = ServerClientKey <=>
                    /\ "clientSignature" \notin dirty /\ strtol16(stray) = NUL
                    /\ \A n \in 1..D : ServerSignature[n] \notin {NUL, ServerClientKey[n]})
=============================================================================

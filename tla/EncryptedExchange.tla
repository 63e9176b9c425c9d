-------------------------- MODULE EncryptedExchange --------------------------
(***************************************************************************)
(* One encrypted request and its response: example-client.js encrypts the  *)
(* request piece by piece, the private side decrypts it and encrypts the   *)
(* wallet's response (src/private/crypto.rs), and the client decrypts that.*)
(* What carries the payloads from one to the other is Mirror.              *)
(*                                                                         *)
(* A text is a sequence of the UTF-16 units JavaScript counts in, of which *)
(* a character outside the basic plane takes two, "hi" and "lo".  A byte is*)
(* named by its character and its place in the character's UTF-8 form, a   *)
(* byte of a ciphertext by what was encrypted and its place in the result. *)
(***************************************************************************)
EXTENDS Integers, SequencesExt

CONSTANTS
    KEY_SIZE,           \* bytes of the modulus the client insists on
    PKCS1_PADDING_LEN,
    Text,               \* what clients ask
    Body,               \* what the wallet answers, in bytes
    ClientKey,          \* the keys clients come with
    MirrorKey           \* --mirror-key

Unit == {"one", "two", "three", "hi", "lo"}

\* "bom" is U+FEFF.
Char == {"one", "two", "three", "four", "bom", "replacement"}

Width == [one |-> 1, two |-> 2, three |-> 3, four |-> 4, bom |-> 3, replacement |-> 3]

Byte == Char \X Nat

\* Command lines are well-formed.
WellFormed(s) ==
    /\ s \in Seq(Unit)
    /\ \A i \in DOMAIN s : /\ s[i] = "hi" => i < Len(s) /\ s[i + 1] = "lo"
                           /\ s[i] = "lo" => i > 1 /\ s[i - 1] = "hi"

\* A body is bytes of a text, from anywhere to anywhere.
PartOfText(bytes) ==
    /\ bytes \in Seq(Byte)
    /\ \A i \in DOMAIN bytes : LET name == bytes[i][1]  place == bytes[i][2] IN
          /\ place \in 1..Width[name]
          /\ place > 1 /\ i > 1 => bytes[i - 1] = <<name, place - 1>>
          /\ place < Width[name] /\ i < Len(bytes) => bytes[i + 1] = <<name, place + 1>>

ASSUME ExchangeConstants ==
    /\ {KEY_SIZE, PKCS1_PADDING_LEN} \subseteq Nat \ {0}
    /\ \A key \in ClientKey \cup {MirrorKey} :
          key.size \in Nat /\ key.size > PKCS1_PADDING_LEN
    /\ \A s \in Text : WellFormed(s)
    /\ \A body \in Body : PartOfText(body)

VARIABLES
    at,             \* how far the exchange has come, or how it ended
    key, request,   \* the client's
    payload,        \* the ciphertext under way
    jsonRequest,    \* the bytes the private side has got out of it
    response,       \* the body of the wallet's
    result          \* the bytes the client prints

vars == <<at, key, request, payload, jsonRequest, response, result>>

Init ==
    /\ at = "start"
    /\ key \in ClientKey /\ request \in Text
    /\ payload = <<>> /\ jsonRequest = <<>> /\ response = <<>> /\ result = <<>>

-----------------------------------------------------------------------------
(* Bytes and pieces.                                                       *)

Bytes(name) == [i \in 1..Width[name] |-> <<name, i>>]

\* Buffer.from(string) of a text that may begin or end within a character: half
\* a character becomes the replacement character.
Utf8At(s, i) ==
    CASE s[i] \in {"one", "two", "three"} -> Bytes(s[i])
      [] s[i] = "hi" -> Bytes(IF i < Len(s) THEN "four" ELSE "replacement")
      [] s[i] = "lo" -> IF i > 1 THEN <<>> ELSE Bytes("replacement")

Utf8(s) == FlattenSeq([i \in DOMAIN s |-> Utf8At(s, i)])

\* String::from_utf8: no byte without the others of its character.
IsUtf8(bytes) ==
    \A i \in DOMAIN bytes : LET name == bytes[i][1]  place == bytes[i][2] IN
        /\ place > 1 => i > 1 /\ bytes[i - 1] = <<name, place - 1>>
        /\ place < Width[name] => i < Len(bytes) /\ bytes[i + 1] = <<name, place + 1>>

\* Response::text() of a body without a charset: what is no UTF-8 becomes
\* replacement characters, one for the beginning of a character that is cut off and
\* one for each byte whose beginning is missing, and a BOM in front is dropped.
TextAt(bytes, i) ==
    LET name == bytes[i][1]  place == bytes[i][2] IN
    CASE place > i -> Bytes("replacement")
      [] place <= i /\ i + Width[name] - place > Len(bytes) ->
            IF place = 1 THEN Bytes("replacement") ELSE <<>>
      [] place <= i /\ i + Width[name] - place <= Len(bytes) ->
            IF name = "bom" /\ place = i THEN <<>> ELSE <<bytes[i]>>

ResText(bytes) == FlattenSeq([i \in DOMAIN bytes |-> TextAt(bytes, i)])

\* Cuts off pieces of n as long as something is left.
Cut(s, n) ==
    [i \in 1..((Len(s) + n - 1) \div n) |->
        SubSeq(s, (i - 1) * n + 1, IF i * n < Len(s) THEN i * n ELSE Len(s))]

\* RSA_PKCS1_PADDING takes at most so many bytes.
MaxChunkSize(k) == k.size - PKCS1_PADDING_LEN

Encryptable(k, pieces) == \A piece \in ToSet(pieces) : Len(piece) <= MaxChunkSize(k)

Ciphertext(k, piece) == [i \in 1..k.size |-> [key |-> k, of |-> piece, place |-> i]]

Encrypted(k, pieces) == FlattenSeq([i \in DOMAIN pieces |-> Ciphertext(k, pieces[i])])

\* Each part has to be a whole ciphertext of this key.
Decryptable(k, parts) == \A part \in ToSet(parts) : part = Ciphertext(k, part[1].of)

Decrypted(parts) == FlattenSeq([i \in DOMAIN parts |-> parts[i][1].of])

-----------------------------------------------------------------------------
(* The exchange.                                                           *)

(* Operators named Bug... are faulty forms of the definition after them, for *)
(* checking that the properties notice.                                     *)

\* Cuts shorter pieces, so that characters of three bytes always fit.
BugRequestPieces == LET cut == Cut(request, (KEY_SIZE - PKCS1_PADDING_LEN) \div 3)
                    IN  [i \in DOMAIN cut |-> Utf8(cut[i])]

\* The client cuts the string, not its bytes.
RequestPieces == LET cut == Cut(request, KEY_SIZE - PKCS1_PADDING_LEN)
                 IN  [i \in DOMAIN cut |-> Utf8(cut[i])]

\* publicEncrypt throws for a piece that is too long, and before that the client
\* itself if its key gives ciphertexts of another size.
ClientThrows ==
    /\ at = "start"
    /\ key.size # KEY_SIZE \/ ~Encryptable(key, RequestPieces)
    /\ at' = "threw"
    /\ UNCHANGED <<key, request, payload, jsonRequest, response, result>>

ClientSends ==
    /\ at = "start"
    /\ key.size = KEY_SIZE /\ Encryptable(key, RequestPieces)
    /\ payload' = Encrypted(key, RequestPieces)
    /\ at' = "requested"
    /\ UNCHANGED <<key, request, jsonRequest, response, result>>

\* Cuts into pieces of what can be encrypted.
BugRequestParts == Cut(payload, MaxChunkSize(MirrorKey))

RequestParts == Cut(payload, MirrorKey.size)

\* The texts stand for requests of a permitted method, but the empty one is no
\* JSON and fails in validate_method.
Readable ==
    /\ Decryptable(MirrorKey, RequestParts)
    /\ IsUtf8(Decrypted(RequestParts))
    /\ Decrypted(RequestParts) # <<>>

PrivateSideRefuses ==
    /\ at = "requested"
    /\ ~Readable
    /\ at' = "refused"
    /\ UNCHANGED <<key, request, payload, jsonRequest, response, result>>

PrivateSideForwards ==
    /\ at = "requested"
    /\ Readable
    /\ jsonRequest' = Decrypted(RequestParts)
    /\ at' = "forwarded"
    /\ UNCHANGED <<key, request, payload, response, result>>

\* Drops the rest that is shorter than a chunk.
BugResponsePieces(bytes) ==
    LET n == MaxChunkSize(MirrorKey) IN Cut(SubSeq(bytes, 1, n * (Len(bytes) \div n)), n)

\* The private side cuts the bytes, also within a character.
ResponsePieces(bytes) == Cut(bytes, MaxChunkSize(MirrorKey))

\* The wallet answers and the private side encrypts the text of the answer.
WalletAnswers ==
    /\ at = "forwarded"
    /\ \E body \in Body :
          /\ Encryptable(MirrorKey, ResponsePieces(ResText(body)))
          /\ payload' = Encrypted(MirrorKey, ResponsePieces(ResText(body)))
          /\ response' = body
    /\ at' = "responded"
    /\ UNCHANGED <<key, request, jsonRequest, result>>

ClientReceives ==
    /\ at = "responded"
    /\ LET parts == Cut(payload, KEY_SIZE)
       IN  IF Decryptable(key, parts)
           THEN result' = Decrypted(parts) /\ at' = "done"
           ELSE at' = "threw" /\ UNCHANGED result
    /\ UNCHANGED <<key, request, payload, jsonRequest, response>>

Next ==
    \/ ClientThrows \/ ClientSends
    \/ PrivateSideRefuses \/ PrivateSideForwards
    \/ WalletAnswers \/ ClientReceives

Spec == Init /\ [][Next]_vars

-----------------------------------------------------------------------------
(* Properties.                                                             *)

\* The wallet is asked what the client wanted, byte for byte, by a client with the
\* right key only.  The client may cut a character of two units in two, and each
\* half would become a replacement character; but then the first of the pieces is
\* of full length and does not fit into a ciphertext with these three bytes.
RequestArrives ==
    at \in {"forwarded", "responded", "done"} =>
        key = MirrorKey /\ jsonRequest = Utf8(request)

\* The client prints the text of what the wallet answered, at every length, also
\* when the private side cuts it within a character; and byte for byte what the
\* wallet answered if that is UTF-8 and does not begin with a BOM.
ResponseArrives ==
    /\ at = "done" =>
          /\ result = ResText(response)
          /\ IsUtf8(response) /\ (response # <<>> => response[1][1] # "bom") =>
                result = response
    /\ at = "threw" => payload = <<>>

\* A client with the right key is served, but for a text whose pieces are longer
\* in bytes than in characters: then it throws, and nothing is executed.  Text
\* of one-byte characters always gets through, and so does everything that is
\* not longer in bytes than one piece.
GoodRequestsAreServed ==
    key = MirrorKey /\ at \in {"threw", "refused"} =>
        \/ request = <<>>
        \/ /\ ToSet(request) # {"one"}
           /\ Len(Utf8(request)) > MaxChunkSize(MirrorKey)
=============================================================================

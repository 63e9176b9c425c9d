------------------------ MODULE MCEncryptedExchange ------------------------
(* EncryptedExchange with chunks of four bytes.                            *)
EXTENDS EncryptedExchange

RightKey == [pair |-> "today", size |-> KEY_SIZE]
Keys == {RightKey, [pair |-> "yesterday", size |-> KEY_SIZE],
         [pair |-> "short", size |-> KEY_SIZE - 1]}

\* Every text of up to five units, and on both sides of the borders of two and
\* of three pieces texts of one-byte characters with one other character at most.
Ones(n) == [i \in 1..n |-> "one"]
Texts ==
    {s \in UNION {[1..n -> Unit] : n \in 0..5} : WellFormed(s)}
    \cup {Ones(n) : n \in 7..13}
    \cup {Ones(n) \o s \o Ones(2) : n \in 4..9, s \in {<<"two">>, <<"hi", "lo">>}}

\* The bytes of every text, and bodies that begin or end anywhere within a text of
\* wide characters, or have a BOM in front or between.
Parts(bytes) == {SubSeq(bytes, a, b) : a \in 1..Len(bytes), b \in 0..Len(bytes)}
Bodies ==
    {Utf8(s) : s \in Texts}
    \cup UNION {Parts(Bytes(a) \o Bytes(b) \o Bytes(c)) : a, b, c \in {"three", "four", "bom"}}
=============================================================================

------------------------------ MODULE KeyFiles ------------------------------
(***************************************************************************)
(* The RSA key pair of an encrypted mirror: the two files, the program that*)
(* generates them (src/generate-rsa-keypair/main.rs), the operator, and the*)
(* two who use them: the private side, which loads its key when it starts  *)
(* (--mirror-key), and a client with a copy of the other file.             *)
(*                                                                         *)
(* fs::write truncates the file, then writes it: in between, and after a   *)
(* crash in between, the file is Torn and does not parse.  A private key   *)
(* and the public key made from it are the same member of Key.             *)
(***************************************************************************)
CONSTANTS
    Key,
    None,   \* no file, no key
    Torn    \* a file with a part of a key

VARIABLES
    privateFile,    \* mirror-private.pem
    clientFile,     \* mirror-client.pem
    step,           \* where the generator is; "off": it does not run
    privKey,        \* the generator's priv_key
    mirrorKey,      \* config.mirror_key of the running private side, if any
    clientKey,      \* the key the client encrypts with
    retired         \* the keys in use whose private file is gone (a history)

generatorVars == <<step, privKey>>
files == <<privateFile, clientFile>>
users == <<mirrorKey, clientKey>>
vars == <<files, generatorVars, users, retired>>

TypeOK ==
    /\ {privateFile, clientFile} \subseteq Key \cup {None, Torn}
    /\ step \in {"off", "begun", "private open", "private written", "client open"}
    /\ {privKey, mirrorKey, clientKey} \subseteq Key \cup {None}
    /\ retired \subseteq Key

Init ==
    /\ privateFile = None /\ clientFile = None
    /\ step = "off" /\ privKey = None
    /\ mirrorKey = None /\ clientKey = None
    /\ retired = {}

-----------------------------------------------------------------------------
(* The generator.                                                          *)

Fresh == Key \ {privateFile, clientFile, mirrorKey, clientKey}

(* Operators named Bug... are faulty forms of the definition after them, for *)
(* checking that the properties notice.                                     *)

\* Does not look for an existing private key.
BugPrivateKey(k) == k \in Fresh

\* An existing file is read (and must parse), else a key is generated.
PrivateKey(k) == IF privateFile = None THEN k \in Fresh ELSE k = privateFile

\* Does not start over a private key without a client key.
BugBegin ==
    /\ step = "off"
    /\ privateFile = None /\ clientFile = None
    /\ privKey' \in Fresh
    /\ retired' = retired \ {privKey'}
    /\ step' = "begun"
    /\ UNCHANGED <<files, users>>

\* It panics if there is a client file already.
Begin ==
    /\ step = "off"
    /\ clientFile = None
    /\ \E k \in Key :
          /\ PrivateKey(k)
          /\ privKey' = k
          \* A fresh key is not one of the past.
          /\ retired' = IF privateFile = None THEN retired \ {k} ELSE retired
    /\ step' = "begun"
    /\ UNCHANGED <<files, users>>

OpenPrivate ==
    /\ step = "begun"
    /\ privateFile' = Torn
    /\ step' = "private open"
    /\ UNCHANGED <<clientFile, privKey, users, retired>>

\* Goes on when the write fails.
BugWritePrivate ==
    /\ step = "private open"
    /\ step' = "private written"
    /\ UNCHANGED <<files, privKey, users, retired>>

WritePrivate ==
    /\ step = "private open"
    /\ privateFile' = privKey
    /\ step' = "private written"
    /\ UNCHANGED <<clientFile, privKey, users, retired>>

OpenClient ==
    /\ step = "private written"
    /\ clientFile' = Torn
    /\ step' = "client open"
    /\ UNCHANGED <<privateFile, privKey, users, retired>>

WriteClient ==
    /\ step = "client open"
    /\ clientFile' = privKey
    /\ step' = "off" /\ privKey' = None
    /\ UNCHANGED <<privateFile, users, retired>>

\* A crash, or a write that fails and panics.  If it hits the private file the
\* key is nowhere any more.
GeneratorDies ==
    /\ step # "off"
    /\ retired' = IF step = "private open" THEN retired \cup {privKey} ELSE retired
    /\ step' = "off" /\ privKey' = None
    /\ UNCHANGED <<files, users>>

-----------------------------------------------------------------------------
(* The operator, who touches the files only while the generator is off.    *)

\* Clears what the generator, or the private side, refuses to go on with.
ClearLeftover ==
    /\ step = "off"
    /\ \/ privateFile = Torn /\ privateFile' = None /\ UNCHANGED clientFile
       \/ /\ clientFile = Torn \/ (privateFile = None /\ clientFile \in Key)
          /\ clientFile' = None /\ UNCHANGED privateFile
    /\ UNCHANGED <<generatorVars, users, retired>>

\* Installs the client's key, by copying or by moving the file.
InstallClient ==
    /\ step = "off"
    /\ clientFile \in Key
    /\ clientKey' = clientFile
    /\ clientFile' \in {clientFile, None}
    /\ UNCHANGED <<privateFile, generatorVars, mirrorKey, retired>>

\* Does away with the private key, in order to have a new one.
Retire ==
    /\ step = "off"
    /\ privateFile \in Key
    /\ privateFile' = None
    /\ retired' = retired \cup {privateFile}
    /\ UNCHANGED <<clientFile, generatorVars, users>>

-----------------------------------------------------------------------------
(* The private side.                                                       *)

\* Starts with whatever is in the file.
BugLoadPrivateKey ==
    /\ mirrorKey = None
    /\ mirrorKey' = privateFile
    /\ UNCHANGED <<files, generatorVars, clientKey, retired>>

\* The arguments do not parse without the key: the process ends and is started
\* again.  The key is never read again while the process lives.
LoadPrivateKey ==
    /\ mirrorKey = None
    /\ privateFile \in Key
    /\ mirrorKey' = privateFile
    /\ UNCHANGED <<files, generatorVars, clientKey, retired>>

PrivateSideDies ==
    /\ mirrorKey # None
    /\ mirrorKey' = None
    /\ UNCHANGED <<files, generatorVars, clientKey, retired>>

-----------------------------------------------------------------------------

Generate == OpenPrivate \/ WritePrivate \/ OpenClient \/ WriteClient

\* What need not happen.
Disturbance == GeneratorDies \/ InstallClient \/ Retire \/ PrivateSideDies

Next == Begin \/ Generate \/ ClearLeftover \/ LoadPrivateKey \/ Disturbance

Spec == Init /\ [][Next]_vars

\* The generator runs until it is done or dies, the private side is started
\* again and again, and the operator clears leftovers and runs the generator.
Fairness ==
    /\ WF_vars(Generate)
    /\ WF_vars(LoadPrivateKey)
    /\ WF_vars(ClearLeftover)
    /\ WF_vars(Begin)

-----------------------------------------------------------------------------
(* Properties.                                                             *)

\* The generator writes the private file before the client file, so a key a
\* client can encrypt with is safe: it is in the private file, or in the hands
\* of the generator, unless its file was removed or torn.
PublishedKeysAreKept ==
    \A k \in ({clientFile, clientKey} \cap Key) \ retired : k \in {privateFile, privKey}

\* The generator completes an existing pair and never begins a second one, so
\* who uses a key uses the same one, whatever the crashes and restarts: an
\* encrypted request of a client fails for its key only if a key was given up
\* on purpose or lost in the middle of being written.
KeysDifferOnlyIfRetired ==
    mirrorKey # None /\ clientKey # None /\ mirrorKey # clientKey
        => {mirrorKey, clientKey} \cap retired # {}
=============================================================================

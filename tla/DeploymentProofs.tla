-------------------------- MODULE DeploymentProofs --------------------------
(***************************************************************************)
(* Theorems about Deployment, for any number of keys and any command lines.*)
(***************************************************************************)
EXTENDS Deployment, TLAPS

(* The keys.  Where the generator is tells what the files hold.            *)

\* Stated of the files and the generator.
GeneratorOrder ==
    /\ step = "off" <=> privKey = None
    /\ step = "begun" => privateFile \in {None, privKey} /\ clientFile = None
    /\ step = "private open" => privateFile = Torn /\ clientFile = None
    /\ step = "private written" => privateFile = privKey /\ clientFile = None
    /\ step = "client open" => privateFile = privKey /\ clientFile = Torn

\* A key of its own making is nobody's before it is written.
NewKeyIsUnused ==
    step = "begun" /\ privateFile = None
        => privKey \notin {clientFile, clientKey, mirrorKey}

\* PublishedKeysAreKept, and the same for the key of the private side.
KeysInUseAreKept ==
    \A k \in ({clientFile, clientKey, mirrorKey} \cap Key) \ retired :
        k \in {privateFile, privKey}

KeysInv == Keys!TypeOK /\ GeneratorOrder /\ NewKeyIsUnused /\ KeysInUseAreKept

\* The first state has no keys.
LEMMA KeysInvInit == Keys!Init => KeysInv
BY DeploymentConstants
   DEF Keys!Init, KeysInv, Keys!TypeOK, GeneratorOrder, NewKeyIsUnused, KeysInUseAreKept

\* Every step of the generator, the operator and the users keeps the invariant.
LEMMA KeysInvStep == KeysInv /\ Keys!Next => KeysInv'
<1> SUFFICES ASSUME KeysInv, Keys!Next PROVE KeysInv'
  OBVIOUS
<1> USE DeploymentConstants DEF KeysInv, Keys!TypeOK, GeneratorOrder, NewKeyIsUnused,
        KeysInUseAreKept, Keys!files, Keys!users, Keys!generatorVars
<1>1. CASE Keys!Begin
  <2> PICK k \in Key : /\ Keys!PrivateKey(k)
                       /\ privKey' = k
                       /\ retired' = IF privateFile = None THEN retired \ {k} ELSE retired
    BY <1>1 DEF Keys!Begin
  <2>1. CASE privateFile = None
    BY <1>1, <2>1 DEF Keys!Begin, Keys!PrivateKey, Keys!Fresh
  <2>2. CASE privateFile # None
    BY <1>1, <2>2 DEF Keys!Begin, Keys!PrivateKey, Keys!Fresh
  <2> QED BY <2>1, <2>2
<1>2. CASE Keys!OpenPrivate
  BY <1>2 DEF Keys!OpenPrivate
<1>3. CASE Keys!WritePrivate
  BY <1>3 DEF Keys!WritePrivate
<1>4. CASE Keys!OpenClient
  BY <1>4 DEF Keys!OpenClient
<1>5. CASE Keys!WriteClient
  BY <1>5 DEF Keys!WriteClient
<1>6. CASE Keys!GeneratorDies
  BY <1>6 DEF Keys!GeneratorDies
<1>7. CASE Keys!ClearLeftover
  BY <1>7 DEF Keys!ClearLeftover
<1>8. CASE Keys!InstallClient
  BY <1>8 DEF Keys!InstallClient
<1>9. CASE Keys!Retire
  BY <1>9 DEF Keys!Retire
<1>10. CASE Keys!LoadPrivateKey
  BY <1>10 DEF Keys!LoadPrivateKey
<1>11. CASE Keys!PrivateSideDies
  BY <1>11 DEF Keys!PrivateSideDies
<1> QED
  BY <1>1, <1>2, <1>3, <1>4, <1>5, <1>6, <1>7, <1>8, <1>9, <1>10, <1>11
     DEF Keys!Next, Keys!Generate, Keys!Disturbance

(* The start of the public side.                                           *)

\* Between the check and the use of the certificate it is the one that passed,
\* unless it was replaced.
CheckStands == public = "checked" /\ ~replaced => Start!CertificatePasses

StartInv == Start!TypeOK /\ CheckStands /\ Start!SelfSignedNeedsFlag

\* Nothing is bound in the first state.
LEMMA StartInvInit == Start!Init => StartInv
BY DeploymentConstants
   DEF Start!Init, StartInv, Start!TypeOK, CheckStands, Start!SelfSignedNeedsFlag,
       Start!Certificate

\* Every step of the start, every end of the process and every new certificate
\* keeps the invariant.
LEMMA StartInvStep == StartInv /\ Start!Next => StartInv'
<1> SUFFICES ASSUME StartInv, Start!Next PROVE StartInv'
  OBVIOUS
<1> USE DeploymentConstants DEF StartInv, Start!TypeOK, CheckStands,
        Start!SelfSignedNeedsFlag, Start!CertificatePasses, Start!Certificate,
        Start!AllConfigs
<1>1. CASE Start!Check
  BY <1>1 DEF Start!Check
<1>2. CASE Start!StartGrpc
  BY <1>2 DEF Start!StartGrpc
<1>3. CASE Start!Launch
  BY <1>3 DEF Start!Launch
<1>4. CASE Start!End
  BY <1>4 DEF Start!End
<1>5. CASE Start!ReplaceCertificate
  BY <1>5 DEF Start!ReplaceCertificate
<1> QED
  BY <1>1, <1>2, <1>3, <1>4, <1>5
     DEF Start!Next, Start!GoesOn, Start!Disturbance, Start!Panic, Start!PublicDies

(* The two together.                                                       *)

\* Neither part writes the variables of the other.
LEMMA DeploymentInv == Spec => [](KeysInv /\ StartInv)
<1>1. Init => KeysInv /\ StartInv
  BY KeysInvInit, StartInvInit DEF Init
<1>2. KeysInv /\ StartInv /\ [Next]_vars => (KeysInv /\ StartInv)'
  <2> SUFFICES ASSUME KeysInv, StartInv, [Next]_vars PROVE KeysInv' /\ StartInv'
    OBVIOUS
  <2>1. ASSUME UNCHANGED keyVars PROVE KeysInv'
    BY <2>1 DEF keyVars, KeysInv, Keys!TypeOK, GeneratorOrder, NewKeyIsUnused, KeysInUseAreKept
  <2>2. ASSUME UNCHANGED startVars PROVE StartInv'
    BY <2>2 DEF startVars, StartInv, Start!TypeOK, CheckStands,
                Start!SelfSignedNeedsFlag, Start!CertificatePasses
  <2>3. CASE KeysNext
    BY <2>2, <2>3, KeysInvStep DEF KeysNext
  <2>4. CASE StartNext
    BY <2>1, <2>4, StartInvStep DEF StartNext
  <2>5. CASE UNCHANGED vars
    BY <2>1, <2>2, <2>5 DEF vars
  <2> QED BY <2>3, <2>4, <2>5 DEF Next
<1> QED BY <1>1, <1>2, PTL DEF Spec

\* Types.
THEOREM TypeCorrect == Spec => []TypeOK
<1>1. KeysInv /\ StartInv => TypeOK
  BY DEF KeysInv, StartInv, TypeOK
<1> QED BY <1>1, DeploymentInv, PTL

\* A key that a client encrypts with is never lost by the generator, whatever the
\* crashes (generate-rsa-keypair/main.rs), unless in the middle of writing it.
THEOREM PublishedKeysStay == Spec => []PublishedKeysAreKept
<1>1. KeysInv => PublishedKeysAreKept
  BY DEF KeysInv, KeysInUseAreKept, PublishedKeysAreKept, Keys!PublishedKeysAreKept
<1> QED BY <1>1, DeploymentInv, PTL

\* The private side and the client use one key, unless one of theirs was given up.
THEOREM KeysAgree == Spec => []KeysDifferOnlyIfRetired
<1>1. KeysInv => KeysDifferOnlyIfRetired
  <2> SUFFICES ASSUME KeysInv, mirrorKey # None, clientKey # None, mirrorKey # clientKey,
                      {mirrorKey, clientKey} \cap retired = {}
               PROVE FALSE
    BY DEF KeysDifferOnlyIfRetired, Keys!KeysDifferOnlyIfRetired
  <2>1. {mirrorKey, clientKey} \subseteq Key
    BY DEF KeysInv, Keys!TypeOK
  <2>2. {mirrorKey, clientKey} \subseteq {privateFile, privKey}
    BY <2>1 DEF KeysInv, KeysInUseAreKept
  <2>3. step # "off" /\ privateFile \in Key /\ privateFile # privKey
    BY <2>1, <2>2, DeploymentConstants DEF KeysInv, GeneratorOrder
  <2> QED
    BY <2>3, DeploymentConstants DEF KeysInv, Keys!TypeOK, GeneratorOrder
<1> QED BY <1>1, DeploymentInv, PTL

\* The gRPC port is not opened with a self-signed certificate without the flag.
THEOREM SelfSignedRefused == Spec => []SelfSignedNeedsFlag
<1>1. StartInv => SelfSignedNeedsFlag
  BY DEF StartInv, SelfSignedNeedsFlag
<1> QED BY <1>1, DeploymentInv, PTL
=============================================================================

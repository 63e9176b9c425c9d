----------------------------- MODULE Deployment -----------------------------
(***************************************************************************)
(* A mirror with --mirror-key from the first generation of its keys on: the*)
(* key files and who uses them (KeyFiles) and the start of the public side *)
(* (StartUp).  All processes are restarted when they end                   *)
(* (docker-compose.yaml).                                                  *)
(***************************************************************************)
CONSTANTS Key, None, Torn, Config

VARIABLES
    privateFile, clientFile, step, privKey, mirrorKey, clientKey, retired,
    config, certificate, public, replaced, grpcCertificate

Keys == INSTANCE KeyFiles
Start == INSTANCE StartUp

ASSUME DeploymentConstants ==
    /\ None \notin Key \cup Start!Certificate
    /\ Torn \notin Key \cup {None}
    /\ Config \subseteq Start!AllConfigs

keyVars == <<privateFile, clientFile, step, privKey, mirrorKey, clientKey, retired>>
startVars == <<config, certificate, public, replaced, grpcCertificate>>
vars == <<keyVars, startVars>>

TypeOK == Keys!TypeOK /\ Start!TypeOK

Init == Keys!Init /\ Start!Init

KeysNext == Keys!Next /\ UNCHANGED startVars
StartNext == Start!Next /\ UNCHANGED keyVars

Next == KeysNext \/ StartNext

Spec == Init /\ [][Next]_vars /\ Keys!Fairness /\ Start!Fairness

-----------------------------------------------------------------------------
(* Properties.                                                             *)

PublishedKeysAreKept == Keys!PublishedKeysAreKept
KeysDifferOnlyIfRetired == Keys!KeysDifferOnlyIfRetired
SelfSignedNeedsFlag == Start!SelfSignedNeedsFlag

\* Whatever happened before, once nothing disturbs them any more all is completed:
\* the pair of keys, also after a crash of the generator; the start of the public
\* side, if its command line and its certificate are in order; and a client that
\* has the key of today is understood.  The exception is a private side that has
\* loaded a key given up since, and keeps it for as long as it runs.
ChannelComesUp ==
    <>[][~Keys!Disturbance /\ ~Start!Disturbance]_vars
        => <>[](/\ privateFile \in Key /\ clientFile = privateFile
                /\ Start!Startable => public = "serving"
                /\ clientKey \in Key \ retired => mirrorKey \in {clientKey} \cup retired)
=============================================================================

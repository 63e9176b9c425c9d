------------------------------ MODULE StartUp ------------------------------
(***************************************************************************)
(* How the public side starts (main in src/public/main.rs): it looks at the*)
(* certificate of its gRPC port, starts the gRPC server, and only then the *)
(* HTTP server for the clients.  What goes wrong on the way ends the       *)
(* process, which is started again (restart: always).                      *)
(***************************************************************************)
CONSTANTS
    Config,     \* the command lines, a subset of AllConfigs
    None

AllConfigs == [grpcTls : BOOLEAN,       \* of mirror_listen_uri
               clientTls : BOOLEAN,     \* of client_listen_uri
               allowSelfSigned : BOOLEAN]

\* What the file tls-chain may hold: one certificate, signed by itself or by
\* another; something gRPC can use but is_tls_self_signed fails at (a chain of
\* several, or a signature of an algorithm it does not know); or nothing of use.
Certificate == {"self-signed", "signed", "uncheckable", "unusable"}

VARIABLES
    config,
    certificate,        \* in the file
    public,             \* how far the public side has come
    replaced,           \* the file was replaced between check and use (a history)
    grpcCertificate     \* the one the gRPC server runs with, or None

vars == <<config, certificate, public, replaced, grpcCertificate>>

TypeOK ==
    /\ config \in Config
    /\ certificate \in Certificate
    /\ replaced \in BOOLEAN
    /\ grpcCertificate \in Certificate \cup {None}
    /\ public \in {"down", "checked", "grpc", "serving"}

Init ==
    /\ config \in Config
    /\ certificate \in Certificate
    /\ public = "down"
    /\ replaced = FALSE
    /\ grpcCertificate = None

(* Operators named Bug... are faulty forms of the definition after them, for *)
(* checking that the properties notice.                                     *)

\* Takes the result of verify_signature the other way round.
BugCertificatePasses ==
    config.grpcTls /\ ~config.allowSelfSigned => certificate = "self-signed"

\* is_tls_self_signed wants exactly one certificate, and a signature it can check:
\* its failure ends the process as Ok(true) does.  It is not called when the flag
\* is given.
CertificatePasses ==
    config.grpcTls /\ ~config.allowSelfSigned => certificate = "signed"

Check ==
    /\ public = "down"
    /\ CertificatePasses
    /\ public' = "checked"
    /\ UNCHANGED <<config, certificate, replaced, grpcCertificate>>

GrpcCanStart == config.grpcTls => certificate # "unusable"

\* The file is read again.
StartGrpc ==
    /\ public = "checked"
    /\ GrpcCanStart
    /\ public' = "grpc"
    /\ grpcCertificate' = IF config.grpcTls THEN certificate ELSE None
    /\ UNCHANGED <<config, certificate, replaced>>

Launch ==
    /\ public = "grpc"
    /\ ~config.clientTls
    /\ public' = "serving"
    /\ UNCHANGED <<config, certificate, replaced, grpcCertificate>>

\* The process ends, and all its threads with it.
End ==
    /\ public' = "down"
    /\ replaced' = FALSE
    /\ grpcCertificate' = None
    /\ UNCHANGED <<config, certificate>>

\* The gRPC server cannot be built, or TLS is wanted for the clients: by then
\* the private side may have polled.
Panic ==
    /\ \/ public = "checked" /\ ~GrpcCanStart
       \/ public = "grpc" /\ config.clientTls
    /\ End

\* A crash, or one of the ports is in use.
PublicDies ==
    /\ public # "down"
    /\ End

ReplaceCertificate ==
    /\ certificate' \in Certificate \ {certificate}
    /\ replaced' = (replaced \/ public = "checked")
    /\ UNCHANGED <<config, public, grpcCertificate>>

GoesOn == Check \/ StartGrpc \/ Launch \/ Panic

Disturbance == PublicDies \/ ReplaceCertificate

Next == GoesOn \/ Disturbance

Spec == Init /\ [][Next]_vars

\* The process runs, and is started again when it has ended.
Fairness == WF_vars(GoesOn)

-----------------------------------------------------------------------------
(* Properties.                                                             *)

\* Without --allow-self-signed-tls the gRPC port is never opened with a
\* self-signed certificate, but for one put in place after the check: the check
\* and the server read the file each on its own.
SelfSignedNeedsFlag ==
    grpcCertificate = "self-signed" => config.allowSelfSigned \/ replaced

\* With this command line and this file the public side starts.  It takes more
\* than a certificate gRPC can use: the check refuses a chain, for one.
Startable ==
    /\ ~config.clientTls
    /\ config.grpcTls => \/ certificate = "signed"
                         \/ config.allowSelfSigned /\ certificate # "unusable"
=============================================================================

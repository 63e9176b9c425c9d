---------------------------- MODULE MCDeployment ----------------------------
(* Deployment on a small instance.                                         *)
EXTENDS Deployment

\* Without TLS the flag makes no difference.
Configs ==
    {c \in [grpcTls : BOOLEAN, clientTls : BOOLEAN, allowSelfSigned : BOOLEAN] :
        c.allowSelfSigned => c.grpcTls}
=============================================================================

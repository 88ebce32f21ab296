---------------------------- MODULE MCEchoServer ----------------------------
EXTENDS EchoServer
=============================================================================

-------------------------- MODULE MCTcpConnection --------------------------
EXTENDS TcpConnection

\* One request without a body (OPTIONS, SETUP, RECORD) and one with (ANNOUNCE)
OneWithBody == <<0, 2>>
=============================================================================

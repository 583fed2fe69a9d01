---------------------------- MODULE MC_TcpClient ----------------------------
EXTENDS TcpClient, TLC

=============================================================================

---------------------------- MODULE MCFtpSession ----------------------------
EXTENDS FtpSession
=============================================================================

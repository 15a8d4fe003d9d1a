--------------------------- MODULE MCImapConnection ---------------------------
(* An instance of ImapConnection for TLC: the current client, a replaced one *)
(* whose run still settles, and the client of a restart in between.          *)
EXTENDS ImapConnection

=============================================================================

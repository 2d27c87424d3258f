------------------------------- MODULE MCInbox -------------------------------
(* Small instances of Inbox for TLC. *)
EXTENDS Inbox

CONSTANTS c1, c2

MCMsg == 1 .. 5
MCKind == <<"mail", "other", "poison", "malformed", "anonymous">>

\* Message 1 twice, with other kinds between.
MCRecords == <<1, 5, 2, 3, 4, 1>>

=============================================================================

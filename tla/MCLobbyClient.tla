---------------------------- MODULE MCLobbyClient ---------------------------
(* A call without a refusal, one with two Expects and a retry, one whose     *)
(* answer any announcement can pass for, and the upgrade to TLS.             *)
EXTENDS LobbyClient

MCCalls == {"PING", "LOGIN", "IGNORE", "STARTTLS"}
=============================================================================
